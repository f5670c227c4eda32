------------------------------ MODULE TradeApiSpec -----------------------------
(***************************************************************************)
(* The API plugin on its own, with as many failures as there are calls: a  *)
(* client that places orders one after the other and now and then cancels  *)
(* one, against an exchange that answers, refuses, or stays silent.        *)
(***************************************************************************)
EXTENDS TradeApi

CONSTANTS Requests,  \* what the client asks for: [side, num, den, price]
          MaxCalls   \* bound: calls of new_order that reach, or may reach,
                     \* the exchange

ASSUME RequestsAssumption ==
  Requests \subseteq
    [side: Sides, num: Nat, den: Nat \ {0}, price: Nat \ {0}]

PlaceOrder ==
  /\ Len(orders) + Cardinality(inflight) < MaxCalls
  /\ \E r \in Requests : new_order(r.side, 0, r.num, r.den, r.price)

CancelOrder == \E i \in DOMAIN orders : CancelAccepted(i)

NewOrderStep ==
  \/ PostAnswered \/ PostRefused \/ PostUnreadable \/ PostUnanswered
  \/ AskFound \/ AskNotFound \/ AskUnanswered

Returned == call.step \in {"done", "throw"} /\ EndCall

ExchangeStep ==
  \/ \E i \in DOMAIN orders, gain \in Gains :
       \E n \in 1 .. orders[i].number : Fill(i, n, gain)
  \/ \E i \in DOMAIN orders : FinishCancel(i)
  \/ \E req \in inflight : ArriveLate(req) \/ DropLate(req)

ApiNext ==
  \/ PlaceOrder \/ CancelOrder \/ NewOrderStep \/ Returned \/ ExchangeStep

(* A request is answered, or times out after expired_seconds.              *)
ApiSpec == ApiInit /\ [][ApiNext]_apivars /\ WF_apivars(NewOrderStep)

-----------------------------------------------------------------------------
(* Requests and orders carry numbers and prices on the exchange's ticks.   *)
ApiTypeOK ==
  /\ \A i \in DOMAIN orders :
       /\ orders[i].number % NumTick = 0 /\ orders[i].price % PriceTick = 0
       /\ orders[i].deals \in 0 .. orders[i].number
       /\ orders[i].state \in Working \cup
            {"filled", "partial-canceled", "canceled"}
  /\ call.step \in {"idle", "post", "ask", "done", "throw"}

(* One call of new_order never places two orders, whatever was lost: after *)
(* silence it asks for its client id and does not post again.              *)
OneOrderPerCall ==
  /\ \A i, j \in DOMAIN orders : orders[i].cid = orders[j].cid => i = j
  /\ \A req \in inflight : \A i \in DOMAIN orders : orders[i].cid # req.cid

(* The id it returns is that of the order it was asked for, also when the  *)
(* id was found by asking and other orders have arrived in between.        *)
ReturnsItsOwnOrder ==
  call.step = "done" =>
    /\ call.id \in DOMAIN orders
    /\ LET o == orders[call.id] IN
       [cid |-> o.cid, side |-> o.side, seg |-> o.seg,
        number |-> o.number, price |-> o.price] = call.req

(* A closing status is final and tells the truth: once get_order_status    *)
(* reports an order closed, it reports the same for ever.                  *)
ClosingIsFinal ==
  [][\A i \in DOMAIN orders :
       get_order_status(i).status # order_processing =>
         get_order_status(i)' = get_order_status(i)]_apivars

(* A call of new_order returns or throws.                                  *)
CallReturns == call.step = "post" ~> call.step \in {"done", "throw"}

=============================================================================

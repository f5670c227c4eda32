------------------------------- MODULE TradeApi --------------------------------
(***************************************************************************)
(* trade_api_plugin and the exchange behind it.                            *)
(*                                                                         *)
(* The exchange (external) keeps limit orders, fills and cancels them when *)
(* it likes.  The plugin is a set of synchronous HTTP calls.  The one that *)
(* takes more than one request is new_order: it posts the order under a    *)
(* client id of its own, and asks once for that client id if the post got  *)
(* no answer.  A request that got no answer may have been executed, may be *)
(* lost, or may still be on its way.                                       *)
(*                                                                         *)
(* call is the new_order in progress: "post" and "ask" are its two         *)
(* requests, "done" its return with an order id, "throw" its exception.    *)
(***************************************************************************)
EXTENDS TradeTypes, Sequences, FiniteSets

CONSTANTS NumTick,    \* what "%.4f" keeps of a number, in its units
          PriceTick,  \* and of a price
          FeePermille,\* the fee rate of the exchange
          Gains       \* by how much a deal can be better than the limit price

ASSUME TickAssumption == NumTick \in Nat \ {0} /\ PriceTick \in Nat \ {0}
ASSUME FeeAssumption == FeePermille \in 0..999
ASSUME GainsAssumption == Gains \subseteq Nat

VARIABLES orders,    \* the orders the exchange has accepted; the id is the index
          inflight,  \* posts without an answer that may yet reach the exchange
          call

apivars == <<orders, inflight, call>>

Sides == {"sale", "buy"}

NoRequest == [cid |-> 0, side |-> "sale", seg |-> 0, number |-> 0, price |-> 0]

Idle == [step |-> "idle", req |-> NoRequest, id |-> 0]

ApiInit == orders = <<>> /\ inflight = {} /\ call = Idle

-----------------------------------------------------------------------------
(* The exchange: external.                                                 *)

(* order-state of the exchange's API while an order can still be filled    *)
Working == {"submitted", "canceling"}

IsWorking(i) == orders[i].state \in Working

(* segment of an order: only the model knows it                            *)
Accept(req) ==
  orders' = Append(orders,
    [cid |-> req.cid, side |-> req.side, seg |-> req.seg,
     number |-> req.number, price |-> req.price,
     deals |-> 0, paid |-> 0, state |-> "submitted"])

(* n coins of order i change hands, all at one price no worse than its     *)
(* limit                                                                   *)
DealPrice(o, gain) ==
  IF o.side = "sale" THEN o.price + gain ELSE o.price - gain

Fill(i, n, gain) ==
  /\ IsWorking(i)
  /\ n \in 1 .. (orders[i].number - orders[i].deals)
  /\ DealPrice(orders[i], gain) > 0
  /\ orders[i].deals > 0 => orders[i].paid = DealPrice(orders[i], gain)
  /\ orders' = [orders EXCEPT
       ![i].deals = @ + n,
       ![i].paid = DealPrice(orders[i], gain),
       ![i].state = IF orders[i].deals + n = orders[i].number
                    THEN "filled" ELSE @]
  /\ UNCHANGED <<inflight, call>>

FinishCancel(i) ==
  /\ orders[i].state = "canceling"
  /\ orders' = [orders EXCEPT
       ![i].state = IF orders[i].deals > 0 THEN "partial-canceled"
                                           ELSE "canceled"]
  /\ UNCHANGED <<inflight, call>>

(* a post reaches the exchange after its sender gave up, or never          *)
ArriveLate(req) ==
  /\ req \in inflight
  /\ Accept(req)
  /\ inflight' = inflight \ {req}
  /\ UNCHANGED call

DropLate(req) ==
  /\ req \in inflight
  /\ inflight' = inflight \ {req}
  /\ UNCHANGED <<orders, call>>

-----------------------------------------------------------------------------
(* get_order_status: the exchange's states as a trade_order_status, every  *)
(* state it does not know as processing, and the average price of the      *)
(* deals, 0 without deals.                                                 *)
mut_CancelingIsClosed(state) ==  \* mutant: closed while it can still trade
  CASE state = "filled"                           -> order_complet_closed
    [] state \in {"partial-canceled", "canceling"} -> order_portion_closed
    [] state = "canceled"                         -> order_untrade_closed
    [] OTHER                                      -> order_processing

order_status(state) ==
  CASE state = "filled"           -> order_complet_closed
    [] state = "partial-canceled" -> order_portion_closed
    [] state = "canceled"         -> order_untrade_closed
    [] OTHER                      -> order_processing

get_order_status(i) ==
  LET o == orders[i]
      amount == o.deals * o.paid
  IN  [status |-> order_status(o.state),
       price  |-> o.paid,
       number |-> o.deals,
       amount |-> amount,
       fee    |-> (amount * FeePermille) \div 1000]

(* cancell_order: accepted, or refused because the order is closed or a    *)
(* cancel was accepted before (an exception)                               *)
CancelAccepted(i) ==
  /\ IsWorking(i)
  /\ orders' = [orders EXCEPT ![i].state = "canceling"]
  /\ UNCHANGED <<inflight, call>>

CancelRefused(i) ==
  /\ orders[i].state # "submitted"
  /\ UNCHANGED apivars

-----------------------------------------------------------------------------
(* new_order.                                                              *)

(* "%.4f" of a/b: the nearest multiples of the tick; the binary expansion  *)
(* of the double decides a tie, so both are possible                       *)
mut_Truncated(a, b, tick) == {a \div b}  \* mutant: no rounding to the tick
Fmt4(a, b, tick) ==
  LET low == (a \div (b * tick)) * tick IN
  {y \in {low, low + tick} : 2 * (a - y * b) \in -(tick * b) .. tick * b}

(* generate_order_id: an id no order and no request has                    *)
mut_SameCid == 1  \* mutant: the id is not unique
FreshCid ==
  LET used == {orders[i].cid : i \in DOMAIN orders} \cup
              {req.cid : req \in inflight}
  IN  CHOOSE c \in 1 .. Len(orders) + Cardinality(inflight) + 1 : c \notin used

(* the number asked for is the quotient num/den                            *)
new_order(side, seg, num, den, price) ==
  /\ call.step = "idle"
  /\ \E n \in Fmt4(num, den, NumTick), p \in Fmt4(price, 1, PriceTick) :
       call' = [step |-> "post", id |-> 0,
                req |-> [cid |-> FreshCid, side |-> side, seg |-> seg,
                         number |-> n, price |-> p]]
  /\ UNCHANGED <<orders, inflight>>

Return(id) == call' = [call EXCEPT !.step = "done", !.id = id]
Throw == call' = [call EXCEPT !.step = "throw"]

PostAnswered ==
  /\ call.step = "post"
  /\ Accept(call.req)
  /\ Return(Len(orders) + 1)
  /\ UNCHANGED inflight

(* status is not "ok"                                                      *)
PostRefused ==
  /\ call.step = "post"
  /\ Throw
  /\ UNCHANGED <<orders, inflight>>

(* the exchange has the post, or it is still on its way                    *)
PostLeft ==
  \/ Accept(call.req) /\ UNCHANGED inflight
  \/ inflight' = inflight \cup {call.req} /\ UNCHANGED orders

(* an answer that is no JSON, as a gateway gives it                        *)
PostUnreadable ==
  /\ call.step = "post"
  /\ PostLeft
  /\ Throw

PostUnanswered ==
  /\ call.step = "post"
  /\ PostLeft
  /\ call' = [call EXCEPT !.step = "ask"]

(* query_order_id_by_client                                                *)
Placed(cid) == {i \in DOMAIN orders : orders[i].cid = cid}

AskFound ==
  /\ call.step = "ask"
  /\ \E i \in Placed(call.req.cid) : Return(i)
  /\ UNCHANGED <<orders, inflight>>

(* mutant: an order that is not found is posted again *)
mut_PostAgain ==
  /\ call.step = "ask"
  /\ Placed(call.req.cid) = {}
  /\ call' = [call EXCEPT !.step = "post"]
  /\ UNCHANGED <<orders, inflight>>

(* mutant: it is asked for again until it is found *)
mut_AskAgain ==
  /\ call.step = "ask"
  /\ Placed(call.req.cid) = {}
  /\ UNCHANGED apivars

AskNotFound ==
  /\ call.step = "ask"
  /\ Placed(call.req.cid) = {}
  /\ Throw
  /\ UNCHANGED <<orders, inflight>>

AskUnanswered ==
  /\ call.step = "ask"
  /\ Throw
  /\ UNCHANGED <<orders, inflight>>

(* the caller has taken the id or the exception                            *)
EndCall == call' = Idle /\ UNCHANGED <<orders, inflight>>

=============================================================================

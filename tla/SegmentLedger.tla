----------------------------- MODULE SegmentLedger -----------------------------
(***************************************************************************)
(* What the database plugin promises of its two tables, without tables:    *)
(* every sale of a segment leaves proceeds, every buy of the segment       *)
(* spends them, oldest sale first, and a closing takes effect at once or   *)
(* not at all.  A buy that costs more than the proceeds left spends them   *)
(* all; the rest is paid from outside the ledger.                          *)
(***************************************************************************)
EXTENDS Integers, Sequences, FiniteSetsExt

CONSTANTS Segments, \* the segments of the grid
          Amounts   \* the amounts a closing can bring or cost

VARIABLES sales,     \* in the order of their creation
          buys

vars == <<sales, buys>>

Open == [amount |-> 0, spent |-> 0, closed |-> FALSE, deals |-> FALSE]

Init == sales = <<>> /\ buys = <<>>

OpenSale(s) ==
  /\ sales' = Append(sales, [seg |-> s, order |-> Open])
  /\ UNCHANGED buys

OpenBuy(s) ==
  /\ buys' = Append(buys, [seg |-> s, order |-> Open])
  /\ UNCHANGED sales

Closed(amount, deals) ==
  [amount |-> amount, spent |-> 0, closed |-> TRUE, deals |-> deals]

CloseSale(i, amount, deals) ==
  /\ ~ sales[i].order.closed
  /\ sales' = [sales EXCEPT ![i].order = Closed(amount, deals)]
  /\ UNCHANGED buys

(* The sales a buy of segment s can spend, and what is left of them.       *)
Unspent(s) ==
  {i \in DOMAIN sales : /\ sales[i].seg = s
                        /\ sales[i].order.deals
                        /\ sales[i].order.spent < sales[i].order.amount}

Left(i) == sales[i].order.amount - sales[i].order.spent

LeftBefore(i) ==
  SumFunctionOnSet([j \in DOMAIN sales |-> Left(j)],
                   {j \in Unspent(sales[i].seg) : j < i})

(* What sale i pays of a buy of the amount given: what the older sales     *)
(* leave to pay, and no more than it has.                                  *)
Pays(i, amount) == Max({0, Min({Left(i), amount - LeftBefore(i)})})

CloseBuy(b, amount, deals) ==
  /\ ~ buys[b].order.closed
  /\ buys' = [buys EXCEPT ![b].order = Closed(amount, deals)]
  /\ sales' = [i \in DOMAIN sales |->
                 IF deals /\ i \in Unspent(buys[b].seg)
                 THEN [sales[i] EXCEPT !.order.spent = @ + Pays(i, amount)]
                 ELSE sales[i]]

Next ==
  \/ \E s \in Segments : OpenSale(s) \/ OpenBuy(s)
  \/ \E i \in DOMAIN sales, amount \in Amounts, deals \in BOOLEAN :
       CloseSale(i, amount, deals)
  \/ \E b \in DOMAIN buys, amount \in Amounts, deals \in BOOLEAN :
       CloseBuy(b, amount, deals)

Spec == Init /\ [][Next]_vars

=============================================================================

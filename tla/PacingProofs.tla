----------------------------- MODULE PacingProofs ------------------------------
(***************************************************************************)
(* The grid with its clocks is the grid: what is proved of every choice of *)
(* the times holds of the real ones.  A cancel is not asked for too early, *)
(* for every setting of the options and any lag of the database, and a     *)
(* side gets no more than its batch in its cooldown, but for failures.     *)
(***************************************************************************)
EXTENDS Pacing, GridTradeProofs, FiniteSetTheorems

-----------------------------------------------------------------------------
(* Every step with clocks is a step without.                               *)

LEMMA StepRefines == ASSUME PacedNext, ~ Tick PROVE Next
<1>1. CASE Timeless
  BY <1>1 DEF Timeless, Next, Round, Failure
<1>2. CASE Reads
  BY <1>2 DEF Reads, PacedSettleOpen, PacedSettleExpired, PacedAsleep,
     PacedQueryPrice, PacedPriceFails, PacedGetSold, PacedStartBuying, PacedTimer,
     Next, Round, Failure
<1>3. CASE PacedInsert \/ PacedCrash
  BY <1>3 DEF PacedInsert, PacedCrash, Next, Round, Failure
<1> QED
  BY <1>1, <1>2, <1>3 DEF PacedNext, PacedStep

LEMMA BoxRefines == ASSUME [PacedNext]_pacedvars PROVE [Next]_vars
<1>1. CASE Tick
  BY <1>1 DEF Tick
<1>2. CASE UNCHANGED pacedvars
  BY <1>2 DEF pacedvars
<1> QED
  BY <1>1, <1>2, StepRefines

(* Whatever the clocks show, the program does what GridTrade allows: all   *)
(* that is proved of Spec holds of the program with its clocks.            *)
THEOREM PacedIsGrid == PacedSpec => Spec
<1>1. PacedInit => Init
  BY DEF PacedInit
<1>2. [PacedNext]_pacedvars => [Next]_vars
  BY BoxRefines
<1> QED
  BY <1>1, <1>2, PTL DEF PacedSpec, Spec

THEOREM PacedOnePending == PacedSpec => []OnePendingPerSegment
  BY PacedIsGrid, OnePending, PTL

-----------------------------------------------------------------------------
(* The inductive invariant of the times.                                   *)

IsOrder(r) == "side" \in DOMAIN r /\ "state" \in DOMAIN r

(* Every order has its time, which has come.                               *)
OrderTimes ==
  /\ IsTable(orders) /\ IsTable(accepted_at) /\ Len(accepted_at) = Len(orders)
  /\ \A o \in DOMAIN orders : /\ IsOrder(orders[o])
                              /\ accepted_at[o] \in Int /\ accepted_at[o] <= now

(* The rows of a table belong to orders that were accepted before them.    *)
RowTimes(rows, times, ids, accepted, skew, t) ==
  /\ IsTable(times) /\ Len(times) = Len(rows)
  /\ \A i \in DOMAIN rows :
       /\ rows[i].order_id \in ids
       /\ times[i] \in Int /\ times[i] <= t + skew
       /\ accepted[rows[i].order_id] + skew <= times[i]

(* The list has stopped at a row that is old enough.                       *)
OldEnough ==
  pc = "cancel" /\ ahead <= 0 =>
    \A i \in todo : IsNext(i) => now - create_time[side][i] >= OrderCancelSeconds

TimeInv ==
  /\ now \in Int /\ ahead \in Int
  /\ OrderTimes
  /\ RowTimes(db.sale_tx, create_time["sale"], DOMAIN orders, accepted_at, ahead, now)
  /\ RowTimes(db.buy_tx, create_time["buy"], DOMAIN orders, accepted_at, ahead, now)
  /\ call.step = "done" => call.id \in DOMAIN orders
  /\ OldEnough

-----------------------------------------------------------------------------
(* What a step does to the orders and to the tables.                       *)

Asked(i) == pc = "cancel" /\ \E j \in todo : IsNext(j) /\ i = Table[j].order_id

Accepts == \E r : IsOrder(r) /\ orders' = Append(orders, r)

Moves ==
  \E i \in DOMAIN orders : \E r :
    /\ orders' = [orders EXCEPT ![i] = r]
    /\ IsOrder(r) /\ r.side = orders[i].side
    /\ r.state = "canceling" => orders[i].state = "canceling" \/ Asked(i)

LEMMA FillMoves ==
  ASSUME OrderTimes, NEW i \in DOMAIN orders, NEW n, NEW gain, Fill(i, n, gain)
  PROVE  Moves
<1> DEFINE o == orders[i]
           r == [o EXCEPT !.deals = o.deals + n,
                          !.paid = DealPrice(o, gain),
                          !.state = IF o.deals + n = o.number
                                    THEN "filled" ELSE o.state]
<1>1. orders' = [orders EXCEPT ![i] = r]
  BY DEF Fill, OrderTimes, IsTable
<1>2. IsOrder(o) /\ o.state \in {"submitted", "canceling"}
  BY DEF OrderTimes, Fill, IsWorking, Working
<1>3. IsOrder(r) /\ r.side = o.side /\ r.state \in {"filled", o.state}
  BY <1>2 DEF IsOrder
<1> HIDE DEF r
<1> QED
  BY <1>1, <1>2, <1>3 DEF Moves

LEMMA StateMoves ==
  ASSUME OrderTimes, NEW i \in DOMAIN orders, NEW state,
         orders' = [orders EXCEPT ![i].state = state],
         state = "canceling" => orders[i].state = "canceling" \/ Asked(i)
  PROVE  Moves
<1> DEFINE r == [orders[i] EXCEPT !.state = state]
<1>1. orders' = [orders EXCEPT ![i] = r]
  OBVIOUS
<1>2. IsOrder(r) /\ r.side = orders[i].side /\ r.state = state
  BY DEF OrderTimes, IsOrder
<1> HIDE DEF r
<1> QED
  BY <1>1, <1>2 DEF Moves

LEMMA AcceptAccepts == ASSUME NEW req, Accept(req) PROVE Accepts
<1> DEFINE r == [cid |-> req.cid, side |-> req.side, seg |-> req.seg,
                 number |-> req.number, price |-> req.price,
                 deals |-> 0, paid |-> 0, state |-> "submitted"]
<1>1. orders' = Append(orders, r) /\ IsOrder(r)
  BY DEF Accept, IsOrder
<1> HIDE DEF r
<1> QED
  BY <1>1 DEF Accepts

(* Every row of the list belongs to an order of the exchange.              *)
LEMMA ListedOrders ==
  ASSUME IInv, TimeInv, NEW i \in todo, pc \in {"settle", "cancel", "deliver"}
  PROVE  Table[i].order_id \in DOMAIN orders
<1>1. i \in DOMAIN Table
  BY DEF IInv, ListInv, Settling
<1> QED
  BY <1>1 DEF Table, TimeInv, RowTimes

(* The exchange fills an order, or completes a cancel.                     *)
LEMMA ExchangeMoves ==
  ASSUME TimeInv, FillStep \/ \E i \in DOMAIN orders : FinishCancel(i)
  PROVE  Moves
<1>1. OrderTimes
  BY DEF TimeInv
<1>2. CASE FillStep
  BY <1>1, <1>2, FillMoves DEF FillStep
<1>3. CASE \E i \in DOMAIN orders : FinishCancel(i)
  <2>1. PICK i \in DOMAIN orders : FinishCancel(i)
    BY <1>3
  <2>2. PICK state : /\ orders' = [orders EXCEPT ![i].state = state]
                     /\ state \in {"partial-canceled", "canceled"}
    BY <2>1 DEF FinishCancel
  <2> QED
    BY <1>1, <2>2, StateMoves
<1> QED
  BY <1>2, <1>3

LEMMA CancelMoves ==
  ASSUME IInv, TimeInv, Cancel \/ CancelFails
  PROVE  orders' = orders \/ Moves
<1>1. OrderTimes /\ pc = "cancel"
  BY DEF TimeInv, Cancel, CancelFails
<1>2. CASE \E i \in todo : IsNext(i) /\ CancelAccepted(Table[i].order_id)
  <2>1. PICK i \in todo : IsNext(i) /\ CancelAccepted(Table[i].order_id)
    BY <1>2
  <2>2. Table[i].order_id \in DOMAIN orders /\ Asked(Table[i].order_id)
    BY <1>1, <2>1, ListedOrders DEF Asked
  <2>3. orders' = [orders EXCEPT ![Table[i].order_id].state = "canceling"]
    BY <2>1 DEF CancelAccepted
  <2> QED
    BY <1>1, <2>2, <2>3, StateMoves
<1> QED
  BY <1>2 DEF Cancel, CancelFails, apivars

LEMMA OrdersStep ==
  ASSUME IInv, TimeInv, [Next]_vars
  PROVE  orders' = orders \/ Accepts \/ Moves
<1>1. CASE FillStep \/ \E i \in DOMAIN orders : FinishCancel(i)
  BY <1>1, ExchangeMoves
<1>2. CASE \E req \in inflight : ArriveLate(req) \/ DropLate(req)
  BY <1>2, AcceptAccepts DEF ArriveLate, DropLate
<1>3. CASE Cancel \/ CancelFails
  BY <1>3, CancelMoves
<1>4. CASE CallStep
  BY <1>4, AcceptAccepts DEF CallStep, PostAnswered, PostRefused, PostUnreadable,
     PostUnanswered, PostLeft, AskFound, AskNotFound, AskUnanswered
<1>5. CASE \/ (Round /\ ~ Cancel /\ ~ CallStep) \/ (Failure /\ ~ CancelFails)
  BY <1>5 DEF Round, Failure, GetNewSales, GetNewBuys, QueryFails, BuyList,
     SettleClosed, SettleOpen, SettleExpired, SettleFails, CancelThrows,
     CancelRefused, Deliver, Delivered, NotDeliverable, DeliverFails, DealingSegs,
     Asleep, QueryPrice, PriceFails, GetSold, PlaceSale, PlaceBuy, new_order,
     StartBuying, EndRound, CallThrows, EndCall, Insert, InsertFails, Timer,
     Crash, Restart, apivars
<1>6. CASE UNCHANGED vars
  BY <1>6 DEF vars, apivars
<1> QED
  BY <1>1, <1>2, <1>3, <1>4, <1>5, <1>6 DEF Next, Exchange

(* The rows of a table keep their orders, or one row is added, of the      *)
(* order that new_order has returned.                                      *)
SameOrders(p, q) ==
  /\ DOMAIN q = DOMAIN p
  /\ \A i \in DOMAIN p : q[i].order_id = p[i].order_id

Grows(p, q) ==
  \/ SameOrders(p, q)
  \/ /\ call.step = "done"
     /\ \E seg : AddsRow(p, q, Len(p) + 1, seg, call.id)

LEMMA TableStep ==
  ASSUME IInv, [Next]_vars
  PROVE  Grows(db.sale_tx, db'.sale_tx) /\ Grows(db.buy_tx, db'.buy_tx)
<1>1. ASSUME Closes(db, db')
      PROVE  SameOrders(db.sale_tx, db'.sale_tx) /\ SameOrders(db.buy_tx, db'.buy_tx)
  BY <1>1 DEF Closes, ClosesOnly, SameOrders
<1>2. ASSUME db' = db
      PROVE  SameOrders(db.sale_tx, db'.sale_tx) /\ SameOrders(db.buy_tx, db'.buy_tx)
  BY <1>2 DEF SameOrders
<1>3. DbInv
  BY DEF IInv
<1>4. CASE InsertRow /\ pc = "call" /\ call.step = "done"
  <2>1. call.req.seg \in Segs /\ side \in {"sale", "buy"}
    BY <1>4 DEF IInv, CallInv, ListInv, Sides
  <2>2. CASE side = "sale"
    <3>1. /\ AddsRow(db.sale_tx, db'.sale_tx, Len(db.sale_tx) + 1, call.req.seg, call.id)
          /\ db'.buy_tx = db.buy_tx
      BY <1>3, <1>4, <2>1, <2>2, AddSale DEF InsertRow
    <3> QED
      BY <1>4, <3>1 DEF Grows, SameOrders
  <2>3. CASE side = "buy"
    <3>1. /\ AddsRow(db.buy_tx, db'.buy_tx, Len(db.buy_tx) + 1, call.req.seg, call.id)
          /\ db'.sale_tx = db.sale_tx
      BY <1>3, <1>4, <2>1, <2>3, AddBuy DEF InsertRow
    <3> QED
      BY <1>4, <3>1 DEF Grows, SameOrders
  <2> QED
    BY <2>1, <2>2, <2>3
<1>5. CASE Delivered \/ NotDeliverable \/ DeliverFails \/ Crash
  <2>1. Commit \/ db' = db
    BY <1>5 DEF Delivered, NotDeliverable, DeliverFails, Crash, Rollback, dbvars
  <2> QED
    BY <1>1, <1>2, <1>3, <2>1, CommitSafe DEF Grows
<1>6. CASE SettleClosed \/ Deliver
  <2>1. db' = db
    BY <1>6 DEF SettleClosed, begin_deliver_sale, begin_deliver_buy, Deliver,
       Statement, update_sale_tx, insert_sale_history, update_buy_tx,
       insert_buy_history, select_unspent, use_sale_tx
  <2> QED
    BY <1>2, <2>1 DEF Grows
<1>7. CASE Insert \/ InsertFails
  <2>1. CASE UNCHANGED dbvars
    BY <1>2, <2>1 DEF Grows, dbvars
  <2> QED
    BY <1>4, <1>7, <2>1 DEF Insert, InsertFails
<1>8. CASE \/ Exchange \/ UNCHANGED vars
           \/ /\ Round \/ Failure
              /\ ~ (Delivered \/ NotDeliverable \/ DeliverFails \/ Crash)
              /\ ~ (SettleClosed \/ Deliver) /\ ~ (Insert \/ InsertFails)
  <2>1. UNCHANGED dbvars
    BY <1>8 DEF Exchange, vars, Round, Failure, GetNewSales, GetNewBuys, QueryFails,
       BuyList, SettleOpen, SettleExpired, SettleFails, Cancel, CancelThrows,
       CancelFails, DealingSegs, Asleep, QueryPrice, PriceFails, GetSold, PlaceSale,
       PlaceBuy, StartBuying, EndRound, CallStep, CallThrows, Timer, Restart
  <2> QED
    BY <1>2, <2>1 DEF Grows, dbvars
<1> QED
  BY <1>5, <1>6, <1>7, <1>8 DEF Next

LEMMA CallStepId ==
  ASSUME IInv, OrderTimes, [Next]_vars,
         call.step = "done" => call.id \in DOMAIN orders,
         DOMAIN orders \subseteq DOMAIN orders'
  PROVE  call'.step = "done" => call'.id \in DOMAIN orders'
<1>1. CASE call' = call \/ call' = Idle
  BY <1>1 DEF Idle
<1>2. CASE PlaceSale \/ PlaceBuy
  BY <1>2 DEF PlaceSale, PlaceBuy, new_order
<1>3. CASE CallStep
  <2>1. call = [step |-> call.step, req |-> call.req, id |-> call.id]
    BY <1>3 DEF CallStep, IInv, CallInv
  <2>2. CASE PostAnswered
    <3>1. PICK r : orders' = Append(orders, r)
      BY <2>2 DEF PostAnswered, Accept
    <3>2. DOMAIN orders' = DOMAIN orders \cup {Len(orders) + 1}
      BY <3>1, AppendRow, Zenon DEF OrderTimes
    <3>3. call' = [call EXCEPT !.step = "done", !.id = Len(orders) + 1]
      BY <2>2 DEF PostAnswered, Return
    <3> QED
      BY <2>1, <3>2, <3>3
  <2>3. CASE AskFound
    <3>1. PICK i \in DOMAIN orders : call' = [call EXCEPT !.step = "done", !.id = i]
      BY <2>3 DEF AskFound, Placed, Return
    <3> QED
      BY <2>1, <3>1
  <2>4. CASE PostRefused \/ PostUnreadable \/ PostUnanswered \/ AskNotFound \/ AskUnanswered
    <3>1. PICK step \in {"throw", "ask"} : call' = [call EXCEPT !.step = step]
      BY <2>4 DEF PostRefused, PostUnreadable, PostUnanswered, AskNotFound,
         AskUnanswered, Throw
    <3> QED
      BY <2>1, <3>1
  <2> QED
    BY <1>3, <2>2, <2>3, <2>4 DEF CallStep
<1>4. CASE \/ Exchange \/ UNCHANGED vars
           \/ /\ Round \/ Failure
              /\ ~ (PlaceSale \/ PlaceBuy) /\ ~ CallStep
  BY <1>1, <1>4 DEF Exchange, FillStep, Fill, FinishCancel, ArriveLate, DropLate,
     vars, apivars, Round, Failure, GetNewSales, GetNewBuys, QueryFails, BuyList,
     SettleClosed, SettleOpen, SettleExpired, SettleFails, Cancel, CancelThrows,
     CancelRefused, CancelAccepted, CancelFails, Deliver, Delivered, NotDeliverable,
     DeliverFails, DealingSegs, Asleep, QueryPrice, PriceFails, GetSold,
     StartBuying, EndRound, CallThrows, EndCall, Insert, InsertFails, Timer,
     Crash, Restart
<1> QED
  BY <1>2, <1>3, <1>4 DEF Next

-----------------------------------------------------------------------------
(* A step keeps the times in order.                                        *)

LEMMA SameLength ==
  ASSUME NEW m \in Nat, NEW n \in Nat, 1 .. m = 1 .. n
  PROVE  m = n
<1>1. CASE m > n
  <2>1. m \in 1 .. m /\ m \notin 1 .. n
    BY <1>1
  <2> QED
    BY <2>1
<1>2. CASE n > m
  <2>1. n \in 1 .. n /\ n \notin 1 .. m
    BY <1>2
  <2> QED
    BY <2>1
<1> QED
  BY <1>1, <1>2

(* The rows of a table say how long it is.                                 *)
LEMMA TableLength ==
  ASSUME NEW p, NEW q, IsTable(p), IsTable(q)
  PROVE  /\ DOMAIN q = DOMAIN p => Len(q) = Len(p)
         /\ DOMAIN q = DOMAIN p \cup {Len(p) + 1} => Len(q) = Len(p) + 1
<1> DEFINE m == Len(p)
           n == Len(q)
<1>1. m \in Nat /\ n \in Nat /\ DOMAIN p = 1 .. m /\ DOMAIN q = 1 .. n
  BY DEF IsTable
<1> HIDE DEF m, n
<1>2. 1 .. (m + 1) = 1 .. m \cup {m + 1} /\ m + 1 \in Nat
  BY <1>1
<1>3. /\ 1 .. n = 1 .. m => n = m
      /\ 1 .. n = 1 .. (m + 1) => n = m + 1
  BY <1>1, <1>2, SameLength
<1>4. /\ DOMAIN q = DOMAIN p => n = m
      /\ DOMAIN q = DOMAIN p \cup {m + 1} => n = m + 1
  BY <1>1, <1>2, <1>3
<1> QED
  BY <1>4 DEF m, n

(* A table with one row more.                                              *)
LEMMA AppendLast ==
  ASSUME NEW q, IsTable(q), NEW row
  PROVE  /\ IsTable(Append(q, row)) /\ Len(Append(q, row)) = Len(q) + 1
         /\ DOMAIN Append(q, row) = DOMAIN q \cup {Len(q) + 1}
         /\ Append(q, row)[Len(q) + 1] = row
         /\ \A i \in DOMAIN q : Append(q, row)[i] = q[i]
<1> DEFINE r == Append(q, row)
<1>1. /\ IsTable(r) /\ DOMAIN r = DOMAIN q \cup {Len(q) + 1} /\ r[Len(q) + 1] = row
      /\ \A i \in DOMAIN q : r[i] = q[i]
  BY AppendRow, Zenon
<1> HIDE DEF r
<1>2. Len(r) = Len(q) + 1
  BY <1>1, TableLength
<1> QED
  BY <1>1, <1>2 DEF r

LEMMA RowsKept ==
  ASSUME NEW p, NEW q, NEW times, NEW ids, NEW ids2, NEW accepted, NEW accepted2,
         NEW skew \in Int, NEW t \in Int, IsTable(p), IsTable(q),
         RowTimes(p, times, ids, accepted, skew, t),
         ids \subseteq ids2, \A o \in ids : accepted2[o] = accepted[o],
         SameOrders(p, q)
  PROVE  Len(q) = Len(p) /\ RowTimes(q, times, ids2, accepted2, skew, t)
<1>1. Len(q) = Len(p)
  BY TableLength DEF SameOrders
<1> QED
  BY <1>1 DEF RowTimes, SameOrders

LEMMA RowAdded ==
  ASSUME NEW p, NEW q, NEW times, NEW ids, NEW ids2, NEW accepted, NEW accepted2,
         NEW skew \in Int, NEW t \in Int, IsTable(p), IsTable(q),
         RowTimes(p, times, ids, accepted, skew, t),
         ids \subseteq ids2, \A o \in ids : accepted2[o] = accepted[o],
         NEW id \in ids, accepted[id] \in Int, accepted[id] <= t,
         NEW seg, AddsRow(p, q, Len(p) + 1, seg, id)
  PROVE  Len(q) = Len(p) + 1
         /\ RowTimes(q, Append(times, t + skew), ids2, accepted2, skew, t)
<1> DEFINE u == Append(times, t + skew)
           n == Len(p) + 1
<1>1. /\ DOMAIN q = DOMAIN p \cup {n} /\ q[n].order_id = id
      /\ \A i \in DOMAIN p : q[i] = p[i]
  BY DEF AddsRow
<1>2. IsTable(times) /\ Len(times) = Len(p)
  BY DEF RowTimes
<1>3. /\ IsTable(u) /\ Len(u) = n /\ u[n] = t + skew
      /\ \A i \in DOMAIN p : u[i] = times[i]
  <2>1. /\ IsTable(u) /\ Len(u) = Len(times) + 1 /\ u[Len(times) + 1] = t + skew
        /\ \A i \in DOMAIN times : u[i] = times[i]
    BY <1>2, AppendLast, Zenon
  <2> HIDE DEF u
  <2>2. DOMAIN times = DOMAIN p
    BY <1>2 DEF IsTable
  <2> QED
    BY <1>2, <2>1, <2>2
<1>4. Len(q) = n
  BY <1>1, TableLength
<1> HIDE DEF u
<1>5. ASSUME NEW i \in DOMAIN p
      PROVE  /\ q[i].order_id \in ids2 /\ u[i] \in Int /\ u[i] <= t + skew
             /\ accepted2[q[i].order_id] + skew <= u[i]
  BY <1>1, <1>3, <1>5 DEF RowTimes
<1>6. /\ q[n].order_id \in ids2 /\ u[n] \in Int /\ u[n] <= t + skew
      /\ accepted2[q[n].order_id] + skew <= u[n]
  BY <1>1, <1>3
<1>7. RowTimes(q, u, ids2, accepted2, skew, t)
  BY <1>1, <1>3, <1>4, <1>5, <1>6 DEF RowTimes
<1> QED
  BY <1>4, <1>7 DEF u

LEMMA OrdersKept ==
  ASSUME IInv, TimeInv, [Next]_vars, StampOrders, now' = now
  PROVE  /\ OrderTimes' /\ DOMAIN orders \subseteq DOMAIN orders'
         /\ \A o \in DOMAIN orders : accepted_at'[o] = accepted_at[o]
<1>1. /\ IsTable(orders) /\ IsTable(accepted_at) /\ Len(accepted_at) = Len(orders)
      /\ \A o \in DOMAIN orders : /\ IsOrder(orders[o])
                                  /\ accepted_at[o] \in Int /\ accepted_at[o] <= now
      /\ now \in Int /\ Len(orders) \in Nat
  BY DEF TimeInv, OrderTimes, IsTable
<1>2. CASE Accepts
  <2>1. PICK r : IsOrder(r) /\ orders' = Append(orders, r)
    BY <1>2 DEF Accepts
  <2> DEFINE u == Append(accepted_at, now)
  <2>2. /\ IsTable(Append(orders, r)) /\ Len(Append(orders, r)) = Len(orders) + 1
        /\ DOMAIN Append(orders, r) = DOMAIN orders \cup {Len(orders) + 1}
        /\ Append(orders, r)[Len(orders) + 1] = r
        /\ \A i \in DOMAIN orders : Append(orders, r)[i] = orders[i]
    BY <1>1, AppendLast, Zenon
  <2>3. /\ IsTable(orders') /\ Len(orders') = Len(orders) + 1
        /\ DOMAIN orders' = DOMAIN orders \cup {Len(orders) + 1}
        /\ orders'[Len(orders) + 1] = r
        /\ \A i \in DOMAIN orders : orders'[i] = orders[i]
    BY <2>1, <2>2, Zenon
  <2>4. /\ IsTable(u) /\ Len(u) = Len(accepted_at) + 1
        /\ u[Len(accepted_at) + 1] = now
        /\ \A i \in DOMAIN accepted_at : u[i] = accepted_at[i]
    <3>1. /\ IsTable(u) /\ Len(u) = Len(accepted_at) + 1
          /\ DOMAIN u = DOMAIN accepted_at \cup {Len(accepted_at) + 1}
          /\ u[Len(accepted_at) + 1] = now
          /\ \A i \in DOMAIN accepted_at : u[i] = accepted_at[i]
      BY <1>1, AppendLast, Zenon
    <3> QED
      BY <3>1, Zenon
  <2>5. DOMAIN accepted_at = DOMAIN orders
    BY <1>1 DEF IsTable
  <2>6. Len(orders') > Len(orders)
    BY <1>1, <2>3
  <2>7. accepted_at' = u
    <3> HIDE DEF u
    <3>1. u = Append(accepted_at, now)
      BY DEF u
    <3> QED
      BY <2>6, <3>1 DEF StampOrders
  <2> HIDE DEF u
  <2> QED
    BY <1>1, <2>1, <2>3, <2>4, <2>5, <2>7 DEF OrderTimes
<1>3. CASE Moves
  <2>0. PICK i \in DOMAIN orders :
          \E r : orders' = [orders EXCEPT ![i] = r] /\ IsOrder(r)
    BY <1>3 DEF Moves
  <2>1. PICK r : orders' = [orders EXCEPT ![i] = r] /\ IsOrder(r)
    BY <2>0
  <2>2. /\ IsTable(orders') /\ DOMAIN orders' = DOMAIN orders /\ orders'[i] = r
        /\ \A j \in DOMAIN orders : j # i => orders'[j] = orders[j]
    BY <1>1, <2>1, SetRow
  <2>3. Len(orders') = Len(orders)
    BY <1>1, <2>2, TableLength
  <2>4. accepted_at' = accepted_at
    BY <1>1, <2>3 DEF StampOrders
  <2> QED
    BY <1>1, <2>1, <2>2, <2>3, <2>4 DEF OrderTimes
<1>4. CASE orders' = orders
  <2>1. accepted_at' = accepted_at
    BY <1>1, <1>4 DEF StampOrders
  <2> QED
    BY <1>1, <1>4, <2>1 DEF OrderTimes
<1> QED
  BY <1>2, <1>3, <1>4, OrdersStep

LEMMA RowsStep ==
  ASSUME NEW p, NEW q, NEW times, NEW times2, IsTable(p), IsTable(q),
         RowTimes(p, times, DOMAIN orders, accepted_at, ahead, now),
         OrderTimes, now \in Int, ahead \in Int, Grows(p, q),
         call.step = "done" => call.id \in DOMAIN orders,
         DOMAIN orders \subseteq DOMAIN orders',
         \A o \in DOMAIN orders : accepted_at'[o] = accepted_at[o],
         times2 = Stamped(times, q)
  PROVE  /\ RowTimes(q, times2, DOMAIN orders', accepted_at', ahead, now)
         /\ SameOrders(p, q) => times2 = times
<1> Len(p) \in Nat /\ Len(times) = Len(p)
  BY DEF IsTable, RowTimes
<1>1. CASE SameOrders(p, q)
  <2>1. Len(q) = Len(p) /\ RowTimes(q, times, DOMAIN orders', accepted_at', ahead, now)
    BY <1>1, RowsKept
  <2>2. times2 = times
    BY <2>1 DEF Stamped
  <2> QED
    BY <2>1, <2>2
<1>2. CASE ~ SameOrders(p, q)
  <2>1. PICK seg : AddsRow(p, q, Len(p) + 1, seg, call.id) /\ call.step = "done"
    BY <1>2 DEF Grows
  <2>2. call.id \in DOMAIN orders /\ accepted_at[call.id] \in Int
        /\ accepted_at[call.id] <= now
    BY <2>1 DEF OrderTimes
  <2>3. Len(q) = Len(p) + 1
        /\ RowTimes(q, Append(times, now + ahead), DOMAIN orders', accepted_at', ahead, now)
    BY <2>1, <2>2, RowAdded
  <2>4. times2 = Append(times, now + ahead)
    BY <2>3 DEF Stamped
  <2> QED
    BY <1>2, <2>3, <2>4
<1> QED
  BY <1>1, <1>2

(* The comparison in uint64_t, made of a row that is not from the future.  *)
LEMMA ExpiredIsOld ==
  ASSUME now \in Int, NEW i, create_time[side][i] \in Int,
         create_time[side][i] <= now, Expired(i)
  PROVE  now - create_time[side][i] >= OrderCancelSeconds
<1>1. Minus(now, create_time[side][i]) = now - create_time[side][i]
  BY DEF Minus
<1>2. Unsigned(OrderCancelSeconds) >= OrderCancelSeconds
      /\ Unsigned(OrderCancelSeconds) \in Int /\ OrderCancelSeconds \in Int
  BY SecondsAssumption, ClockAssumption DEF Unsigned
<1> QED
  BY <1>1, <1>2 DEF Expired

(* The loop comes to a cancel only from the comparison, and stays there    *)
(* while nothing but the exchange and the clocks move.                     *)
LEMMA ComesToCancel ==
  ASSUME IInv, PacedStep, pc' = "cancel"
  PROVE  /\ db' = db
         /\ \/ PacedSettleExpired /\ UNCHANGED <<side, todo>>
            \/ pc = "cancel" /\ UNCHANGED <<side, todo>>
<1>1. CASE PacedSettleExpired
  BY <1>1 DEF PacedSettleExpired, SettleExpired, Goto, gridvars, dbvars
<1>2. CASE Exchange
  BY <1>2 DEF Exchange, gridvars, dbvars
<1>3. CASE (Timeless /\ ~ Exchange) \/ (Reads /\ ~ PacedSettleExpired) \/ PacedInsert
           \/ PacedCrash
  <2>1. CASE CallStep \/ Deliver
    BY <2>1 DEF CallStep, Deliver
  <2> QED
    BY <1>3, <2>1 DEF Timeless, Reads, PacedSettleOpen, PacedAsleep, PacedQueryPrice,
       PacedPriceFails, PacedGetSold, PacedStartBuying, PacedTimer, PacedInsert,
       PacedCrash, GetNewSales, GetNewBuys, BuyList, SettleClosed, SettleOpen,
       Cancel, CancelThrows, Delivered, NotDeliverable, DealingSegs, PlaceSale,
       PlaceBuy, CallThrows, EndRound, Restart, QueryFails, SettleFails,
       CancelFails, DeliverFails, InsertFails, Asleep, QueryPrice, PriceFails,
       GetSold, StartBuying, Timer, Insert, Crash, ThrowRound, ThrowSettling,
       Continue, Goto, StartLoop
<1> QED
  BY <1>1, <1>2, <1>3 DEF PacedStep

LEMMA OldEnoughSafe ==
  ASSUME IInv, TimeInv, PacedStep, db' = db,
         create_time' = create_time \/ create_time'[side] = create_time[side],
         pc' = "cancel"
  PROVE  OldEnough'
<1>1. now' = now /\ ahead' = ahead
  BY DEF PacedStep, Keep
<1>2. UNCHANGED <<side, todo>>
  BY ComesToCancel
<1>3. CASE pc = "cancel"
  BY <1>1, <1>2, <1>3 DEF TimeInv, OldEnough, IsNext
<1>4. CASE PacedSettleExpired
  <2> SUFFICES ASSUME ahead <= 0, NEW i \in todo, IsNext(i)
               PROVE  now - create_time[side][i] >= OrderCancelSeconds
    BY <1>1, <1>2 DEF OldEnough, IsNext
  <2>1. pc = "settle"
    BY <1>4 DEF PacedSettleExpired, SettleExpired
  <2>2. PICK j \in todo : IsNext(j) /\ Expired(j)
    BY <1>4 DEF PacedSettleExpired, NextExpired
  <2>3. todo \subseteq DOMAIN Table /\ side \in {"sale", "buy"}
    BY <2>1 DEF IInv, ListInv, Settling, Sides
  <2>4. DOMAIN Table = 1 .. Len(Table)
    BY DEF IInv, DbInv, DbShape, IsTable, Table
  <2>5. i = j
    BY <2>2, <2>3, <2>4 DEF IsNext
  <2>6. /\ now \in Int /\ ahead \in Int
        /\ create_time[side][i] \in Int /\ create_time[side][i] <= now + ahead
    BY <2>3 DEF TimeInv, RowTimes, Table
  <2> QED
    BY <2>2, <2>5, <2>6, ExpiredIsOld
<1> QED
  BY <1>3, <1>4, ComesToCancel

LEMMA TimeStep ==
  ASSUME IInv, IInv', TimeInv, PacedStep
  PROVE  TimeInv'
<1>1. [Next]_vars
  <2>1. PacedNext /\ (~ Tick \/ Tick)
    BY DEF PacedNext
  <2> QED
    BY <2>1, StepRefines DEF Tick
<1>2. now' = now /\ ahead' = ahead /\ StampRows /\ StampOrders
  BY DEF PacedStep, Keep
<1>3. /\ OrderTimes' /\ DOMAIN orders \subseteq DOMAIN orders'
      /\ \A o \in DOMAIN orders : accepted_at'[o] = accepted_at[o]
  BY <1>1, <1>2, OrdersKept
<1>4. call'.step = "done" => call'.id \in DOMAIN orders'
  BY <1>1, <1>3, CallStepId DEF TimeInv
<1>5. Grows(db.sale_tx, db'.sale_tx) /\ Grows(db.buy_tx, db'.buy_tx)
  BY <1>1, TableStep
<1>6. /\ create_time'["sale"] = Stamped(create_time["sale"], db'.sale_tx)
      /\ create_time'["buy"] = Stamped(create_time["buy"], db'.buy_tx)
  BY <1>2 DEF StampRows, Sides
<1>7. /\ IsTable(db.sale_tx) /\ IsTable(db'.sale_tx)
      /\ IsTable(db.buy_tx) /\ IsTable(db'.buy_tx)
  BY DEF IInv, DbInv, DbShape
<1>8. /\ RowTimes(db'.sale_tx, create_time'["sale"], DOMAIN orders', accepted_at', ahead, now)
      /\ db'.sale_tx = db.sale_tx => create_time'["sale"] = create_time["sale"]
  BY <1>3, <1>5, <1>6, <1>7, RowsStep DEF TimeInv, SameOrders
<1>9. /\ RowTimes(db'.buy_tx, create_time'["buy"], DOMAIN orders', accepted_at', ahead, now)
      /\ db'.buy_tx = db.buy_tx => create_time'["buy"] = create_time["buy"]
  BY <1>3, <1>5, <1>6, <1>7, RowsStep DEF TimeInv, SameOrders
<1>10. OldEnough'
  <2>1. CASE pc' = "cancel"
    <3>1. db' = db /\ side \in {"sale", "buy"}
      BY <2>1, ComesToCancel DEF IInv, ListInv, Sides
    <3>2. create_time'[side] = create_time[side]
      BY <1>8, <1>9, <3>1
    <3> QED
      BY <2>1, <3>1, <3>2, OldEnoughSafe
  <2> QED
    BY <2>1 DEF OldEnough
<1> QED
  BY <1>2, <1>3, <1>4, <1>8, <1>9, <1>10 DEF TimeInv

LEMMA TimeTick ==
  ASSUME IInv, TimeInv, Tick \/ UNCHANGED pacedvars
  PROVE  TimeInv'
<1>1. /\ UNCHANGED <<vars, ahead, create_time, accepted_at>>
      /\ now' = now \/ now' = now + 1
  BY DEF Tick, pacedvars, clocks
<1>2. /\ orders' = orders /\ call' = call /\ db' = db /\ pc' = pc
      /\ side' = side /\ todo' = todo /\ ahead' = ahead
      /\ create_time' = create_time /\ accepted_at' = accepted_at
  BY <1>1 DEF vars, apivars, dbvars, gridvars
<1>3. now \in Int /\ ahead \in Int /\ now' \in Int /\ now' >= now
  BY <1>1 DEF TimeInv
<1>4. OrderTimes'
  BY <1>2, <1>3 DEF TimeInv, OrderTimes
<1>5. ASSUME NEW rows, NEW times,
             RowTimes(rows, times, DOMAIN orders, accepted_at, ahead, now)
      PROVE  RowTimes(rows, times, DOMAIN orders, accepted_at, ahead, now')
  BY <1>3, <1>5 DEF RowTimes
<1>6. /\ RowTimes(db.sale_tx, create_time["sale"], DOMAIN orders, accepted_at, ahead, now')
      /\ RowTimes(db.buy_tx, create_time["buy"], DOMAIN orders, accepted_at, ahead, now')
  BY <1>5 DEF TimeInv
<1>7. OldEnough'
  <2> SUFFICES ASSUME pc = "cancel", ahead <= 0, NEW i \in todo, IsNext(i)
               PROVE  now' - create_time[side][i] >= OrderCancelSeconds
    BY <1>2 DEF OldEnough, IsNext
  <2>1. i \in DOMAIN Table /\ side \in {"sale", "buy"}
    BY DEF IInv, ListInv, Settling, Sides
  <2>2. create_time[side][i] \in Int
    BY <2>1 DEF TimeInv, RowTimes, Table
  <2>3. now - create_time[side][i] >= OrderCancelSeconds
    BY DEF TimeInv, OldEnough
  <2> QED
    BY <1>3, <2>2, <2>3, SecondsAssumption
<1> QED
  BY <1>2, <1>3, <1>4, <1>6, <1>7 DEF TimeInv

-----------------------------------------------------------------------------
(* The theorem.                                                            *)

LEMMA TimeInit == ASSUME PacedInit PROVE TimeInv
<1>1. /\ now = StartTime /\ ahead \in Skews /\ accepted_at = <<>> /\ pc = "new_sale"
      /\ create_time = [s \in Sides |-> <<>>] /\ orders = <<>> /\ call = Idle
      /\ db.sale_tx = <<>> /\ db.buy_tx = <<>>
  BY DEF PacedInit, Init, ApiInit, DbInit
<1>2. IsTable(<<>>) /\ DOMAIN <<>> = {}
  BY DEF IsTable
<1>3. now \in Int /\ ahead \in Int
  BY <1>1, ClockAssumption
<1>4. create_time["sale"] = <<>> /\ create_time["buy"] = <<>>
  BY <1>1 DEF Sides
<1>5. OrderTimes
  BY <1>1, <1>2 DEF OrderTimes
<1>6. /\ RowTimes(db.sale_tx, create_time["sale"], DOMAIN orders, accepted_at, ahead, now)
      /\ RowTimes(db.buy_tx, create_time["buy"], DOMAIN orders, accepted_at, ahead, now)
  BY <1>1, <1>2, <1>4 DEF RowTimes
<1>7. OldEnough /\ call.step # "done"
  BY <1>1 DEF OldEnough, Idle
<1> QED
  BY <1>3, <1>5, <1>6, <1>7 DEF TimeInv

LEMMA NotEarlyStep ==
  ASSUME IInv, TimeInv, [PacedNext]_pacedvars, ahead <= 0,
         NEW o \in DOMAIN orders, CancelAsked(o)
  PROVE  now - accepted_at[o] >= OrderCancelSeconds + ahead
<1>1. [Next]_vars
  BY BoxRefines
<1>2. IsTable(orders)
  BY DEF TimeInv, OrderTimes
<1>3. orders[o].state = "submitted" /\ orders'[o].state = "canceling"
  BY DEF CancelAsked
<1>4. ~ Accepts
  <2> SUFFICES ASSUME NEW r, orders' = Append(orders, r) PROVE FALSE
    BY DEF Accepts
  <2>1. /\ IsTable(Append(orders, r)) /\ Len(Append(orders, r)) = Len(orders) + 1
        /\ DOMAIN Append(orders, r) = DOMAIN orders \cup {Len(orders) + 1}
        /\ Append(orders, r)[Len(orders) + 1] = r
        /\ \A i \in DOMAIN orders : Append(orders, r)[i] = orders[i]
    BY <1>2, AppendLast, Zenon
  <2>2. orders'[o] = orders[o]
    BY <2>1, Zenon
  <2> QED
    BY <1>3, <2>2
<1>5. Moves
  <2>1. orders' # orders
    BY <1>3
  <2> QED
    BY <1>1, <1>4, <2>1, OrdersStep
<1>6. Asked(o)
  <2>0. PICK i \in DOMAIN orders :
          \E r : /\ orders' = [orders EXCEPT ![i] = r]
                 /\ r.state = "canceling" => orders[i].state = "canceling" \/ Asked(i)
    BY <1>5 DEF Moves
  <2>1. PICK r :
          /\ orders' = [orders EXCEPT ![i] = r]
          /\ r.state = "canceling" => orders[i].state = "canceling" \/ Asked(i)
    BY <2>0
  <2>2. i = o /\ orders'[o] = r
    BY <1>2, <1>3, <2>1, SetRow
  <2> QED
    BY <1>3, <2>1, <2>2
<1>7. PICK j \in todo : IsNext(j) /\ o = Table[j].order_id /\ pc = "cancel"
  BY <1>6 DEF Asked
<1>8. j \in DOMAIN Table /\ side \in {"sale", "buy"}
  BY <1>7 DEF IInv, ListInv, Settling, Sides
<1>9. /\ create_time[side][j] \in Int
      /\ accepted_at[o] + ahead <= create_time[side][j]
  BY <1>7, <1>8 DEF TimeInv, RowTimes, Table
<1>10. now - create_time[side][j] >= OrderCancelSeconds
  BY <1>7 DEF TimeInv, OldEnough
<1>11. now \in Int /\ ahead \in Int /\ accepted_at[o] \in Int
  BY DEF TimeInv, OrderTimes
<1> QED
  BY <1>9, <1>10, <1>11, SecondsAssumption

(* The times are in order: an order is accepted, then recorded, then read, *)
(* then compared with the clock, then asked to be cancelled.               *)
THEOREM TimeInvariance == PacedSpec => [](IInv /\ TimeInv)
<1>1. PacedInit => IInv /\ TimeInv
  BY InitSafe, TimeInit DEF PacedInit
<1>2. IInv /\ TimeInv /\ [PacedNext]_pacedvars => (IInv /\ TimeInv)'
  <2> SUFFICES ASSUME IInv, TimeInv, [PacedNext]_pacedvars
               PROVE  IInv' /\ TimeInv'
    OBVIOUS
  <2>1. IInv'
    BY BoxRefines, NextSafe
  <2>2. PacedStep \/ Tick \/ UNCHANGED pacedvars
    BY DEF PacedNext
  <2> QED
    BY <2>1, <2>2, TimeStep, TimeTick
<1> QED
  BY <1>1, <1>2, PTL DEF PacedSpec

(* No order is asked to be cancelled sooner after its acceptance than      *)
(* order_cancel_seconds says, whatever the options, however far the        *)
(* database's clock is behind, and through any failures and restarts.      *)
THEOREM NotEarly == PacedSpec => CancelNotEarly
<1>1. IInv /\ TimeInv /\ [PacedNext]_pacedvars
      => [ahead <= 0 =>
            \A o \in DOMAIN orders :
              CancelAsked(o) => now - accepted_at[o] >= OrderCancelSeconds + ahead
         ]_pacedvars
  BY NotEarlyStep
<1> QED
  BY <1>1, TimeInvariance, PTL DEF PacedSpec, CancelNotEarly

-----------------------------------------------------------------------------
(* The inductive invariant of the cooldowns.                               *)

(* The orders of side s that were accepted in the window from a on.        *)
InWindow(s, a) ==
  {j \in DOMAIN accepted_at :
     /\ orders[j].side = s
     /\ a <= accepted_at[j]
     /\ accepted_at[j] < a + Window(s)}

(* The posts of side s that may yet arrive.                                *)
Pending(s) == {req \in inflight : req.side = s}

(* The loop of side s has segments ahead, or is placing an order.          *)
Busy(s) == side = s /\ (pc = "call" \/ (pc = "scan" /\ todo # {}))

(* How many orders of side s a window that began at a can still get        *)
(* without a failure.  An order that new_order returns is in it already.   *)
Returning(s) == IF Busy(s) /\ call.step = "done" THEN 1 ELSE 0

Room(s, a) ==
  IF last_time[s] < a THEN Batch(s) - Returning(s)
  ELSE IF Busy(s) THEN Batch(s) - count - Returning(s)
  ELSE 0

Budget(s) == Batch(s) * (1 + faults)

Now(s, a) == a <= now /\ now < a + Window(s)

Load(s, a) ==
  Cardinality(InWindow(s, a)) + Cardinality(Pending(s)) + Room(s, a)

(* What has come in a window is within the budget, and while it lasts, so  *)
(* is what can come.                                                       *)
RateOf(s, a) ==
  /\ Cardinality(InWindow(s, a)) <= Budget(s)
  /\ Now(s, a) => Load(s, a) <= Budget(s)

RateInv == \A s \in Sides : \A a \in Nat \ {0} : RateOf(s, a)

(* The round has yet to come to the loop of side s.                        *)
Before(s) ==
  \/ pc \notin {"timer", "down", "scan", "call"}
  \/ pc \in {"scan", "call"} /\ side = "sale" /\ s = "buy"

(* A round begins no sooner than the interval after the last order, unless *)
(* that is forgotten.                                                      *)
Rested(s) ==
  /\ last_time[s] <= now
  /\ pc = "timer" => last_time[s] + Interval <= due
  /\ pc = "down" => last_time[s] = 0
  /\ Before(s) => last_time[s] = 0 \/ last_time[s] + Interval <= now

OrderSides ==
  /\ \A o \in DOMAIN orders : accepted_at[o] >= 1
  /\ IsFiniteSet(inflight)
  /\ \A s \in Sides : Cardinality(Pending(s)) <= faults

LoopInv ==
  /\ now \in Nat \ {0} /\ due \in Int /\ faults \in Nat /\ count \in Nat
  /\ last_time \in [Sides -> Nat]
  /\ pc = "call" => call.req.side = side
  /\ call.step # "idle" => pc = "call"
  /\ Busy(side) => count < Batch(side)

PaceInv ==
  /\ LoopInv /\ OrderSides
  /\ \A s \in Sides : Rested(s)

-----------------------------------------------------------------------------
LEMMA MaxOfTwo ==
  ASSUME NEW m \in Int, NEW n \in Int
  PROVE  Max({m, n}) \in {m, n} /\ Max({m, n}) >= m /\ Max({m, n}) >= n
<1>1. \E x \in {m, n} : \A y \in {m, n} : x >= y
  BY m >= n \/ n >= m
<1>2. LET x == CHOOSE x \in {m, n} : \A y \in {m, n} : x >= y
      IN  x \in {m, n} /\ \A y \in {m, n} : x >= y
  BY <1>1
<1> QED
  BY <1>2 DEF Max

LEMMA Options ==
  ASSUME NEW s \in Sides
  PROVE  /\ Batch(s) \in Nat \ {0} /\ Window(s) \in Int
         /\ Batch(s) >= IF s = "sale" THEN EveryMaxSale ELSE EveryMaxBuy
         /\ Window(s) = Interval \/ Window(s) = SleepSeconds[s]
         /\ Window(s) >= Interval /\ Window(s) >= SleepSeconds[s]
<1> DEFINE every == IF s = "sale" THEN EveryMaxSale ELSE EveryMaxBuy
<1>1. every \in Int /\ SleepSeconds[s] \in Int /\ Interval \in Int
  BY OptionsAssumption, SecondsAssumption
<1>2. Batch(s) = Max({1, every}) /\ Window(s) = Max({SleepSeconds[s], Interval})
  BY DEF Batch, Window
<1> HIDE DEF every
<1>3. 1 \in Int /\ every \in Int /\ SleepSeconds[s] \in Int /\ Interval \in Int
  BY <1>1
<1>4. Max({1, every}) \in {1, every} /\ Max({1, every}) >= 1 /\ Max({1, every}) >= every
  BY <1>3, MaxOfTwo, Zenon
<1>5. /\ Max({SleepSeconds[s], Interval}) \in {SleepSeconds[s], Interval}
      /\ Max({SleepSeconds[s], Interval}) >= SleepSeconds[s]
      /\ Max({SleepSeconds[s], Interval}) >= Interval
  BY <1>3, MaxOfTwo, Zenon
<1>6. Batch(s) \in Nat \ {0} /\ Batch(s) >= every
  BY <1>1, <1>2, <1>4
<1>7. /\ Window(s) = Interval \/ Window(s) = SleepSeconds[s]
      /\ Window(s) >= Interval /\ Window(s) >= SleepSeconds[s] /\ Window(s) \in Int
  BY <1>1, <1>2, <1>5
<1> QED
  BY <1>6, <1>7 DEF every

(* A failure is worth a batch.                                             *)
LEMMA BudgetGrows ==
  ASSUME NEW b \in Nat \ {0}, NEW f \in Nat
  PROVE  /\ b * (1 + f) \in Nat
         /\ b * (1 + (f + 1)) = b * (1 + f) + b
         /\ b + f <= b * (1 + f)
<1>1. b * (1 + f) = b + b * f /\ b * (1 + (f + 1)) = b + b * f + b /\ b * f \in Nat
  OBVIOUS
<1>2. f <= b * f
  <2>1. PICK c \in Nat : b = c + 1
    <3>1. b - 1 \in Nat /\ b = (b - 1) + 1
      OBVIOUS
    <3> QED
      BY <3>1
  <2>2. b * f = c * f + f /\ c * f \in Nat
    BY <2>1
  <2> QED
    BY <2>2
<1> QED
  BY <1>1, <1>2

(* A side that wakes up in a later round does so in a later window.        *)
LEMMA WakesLate ==
  ASSUME PaceInv, NEW s \in Sides, Awake(s), Before(s), last_time[s] # 0
  PROVE  last_time[s] + Window(s) <= now
<1>1. now \in Nat /\ last_time[s] \in Nat /\ last_time[s] <= now
      /\ last_time[s] + Interval <= now
  BY DEF PaceInv, LoopInv, Rested
<1>2. Minus(now, last_time[s]) = now - last_time[s]
  BY <1>1 DEF Minus
<1>3. now - last_time[s] >= Unsigned(SleepSeconds[s])
  BY <1>2 DEF Awake
<1>4. /\ SleepSeconds[s] \in Int /\ Interval \in Int /\ Width \in Nat
      /\ -Width < SleepSeconds[s]
  BY SecondsAssumption, ClockAssumption
<1>5. CASE SleepSeconds[s] >= 0
  <2>1. now - last_time[s] >= SleepSeconds[s]
    BY <1>3, <1>5 DEF Unsigned
  <2> QED
    BY <1>1, <1>4, <2>1, Options
<1>6. CASE SleepSeconds[s] < 0
  <2>1. CASE Window(s) = Interval
    BY <1>1, <2>1
  <2>2. CASE Window(s) = SleepSeconds[s]
    BY <1>1, <1>6, <2>2, <1>4
  <2> QED
    BY <2>1, <2>2, Options
<1> QED
  BY <1>4, <1>5, <1>6

-----------------------------------------------------------------------------
(* What a step does to the orders, and to what is counted of them.         *)

KeepsOrders ==
  /\ DOMAIN orders' = DOMAIN orders /\ accepted_at' = accepted_at
  /\ \A o \in DOMAIN orders : orders'[o].side = orders[o].side

AddsOrder(s) ==
  LET n == Len(orders) + 1 IN
  /\ DOMAIN orders' = DOMAIN orders \cup {n} /\ n \notin DOMAIN orders
  /\ DOMAIN accepted_at' = DOMAIN accepted_at \cup {n}
  /\ orders'[n].side = s /\ accepted_at'[n] = now
  /\ \A o \in DOMAIN orders : /\ orders'[o] = orders[o]
                              /\ accepted_at'[o] = accepted_at[o]

LEMMA SidesKept ==
  ASSUME TimeInv, StampOrders, orders' = orders \/ Moves
  PROVE  KeepsOrders
<1>1. IsTable(orders) /\ Len(orders) \in Nat
  BY DEF TimeInv, OrderTimes, IsTable
<1>2. CASE Moves
  <2>1. PICK i \in DOMAIN orders :
          \E r : orders' = [orders EXCEPT ![i] = r] /\ r.side = orders[i].side
    BY <1>2 DEF Moves
  <2>2. PICK r : orders' = [orders EXCEPT ![i] = r] /\ r.side = orders[i].side
    BY <2>1
  <2>3. /\ IsTable(orders') /\ DOMAIN orders' = DOMAIN orders /\ orders'[i] = r
        /\ \A j \in DOMAIN orders : j # i => orders'[j] = orders[j]
    BY <1>1, <2>2, SetRow
  <2>4. Len(orders') = Len(orders)
    BY <1>1, <2>3, TableLength
  <2>5. accepted_at' = accepted_at
    BY <1>1, <2>4 DEF StampOrders
  <2> QED
    BY <2>2, <2>3, <2>5 DEF KeepsOrders
<1>3. CASE orders' = orders
  <2>1. accepted_at' = accepted_at
    BY <1>1, <1>3 DEF StampOrders
  <2> QED
    BY <1>3, <2>1 DEF KeepsOrders
<1> QED
  BY <1>2, <1>3

LEMMA OrderAdded ==
  ASSUME TimeInv, StampOrders, NEW req, Accept(req)
  PROVE  AddsOrder(req.side)
<1> DEFINE r == [cid |-> req.cid, side |-> req.side, seg |-> req.seg,
                 number |-> req.number, price |-> req.price,
                 deals |-> 0, paid |-> 0, state |-> "submitted"]
<1>1. IsTable(orders) /\ IsTable(accepted_at) /\ Len(accepted_at) = Len(orders)
  BY DEF TimeInv, OrderTimes
<1>2. orders' = Append(orders, r) /\ r.side = req.side
  BY DEF Accept
<1> HIDE DEF r
<1>3. /\ IsTable(Append(orders, r)) /\ Len(Append(orders, r)) = Len(orders) + 1
      /\ DOMAIN Append(orders, r) = DOMAIN orders \cup {Len(orders) + 1}
      /\ Append(orders, r)[Len(orders) + 1] = r
      /\ \A i \in DOMAIN orders : Append(orders, r)[i] = orders[i]
  BY <1>1, AppendLast, Zenon
<1>4. /\ Len(orders') = Len(orders) + 1
      /\ DOMAIN orders' = DOMAIN orders \cup {Len(orders) + 1}
      /\ orders'[Len(orders) + 1] = r
      /\ \A i \in DOMAIN orders : orders'[i] = orders[i]
  BY <1>2, <1>3, Zenon
<1>5. Len(orders) \in Nat /\ DOMAIN orders = 1 .. Len(orders)
      /\ DOMAIN accepted_at = DOMAIN orders
  BY <1>1 DEF IsTable
<1>6. Len(orders) + 1 \notin DOMAIN orders /\ Len(orders') > Len(orders)
  BY <1>4, <1>5
<1>7. accepted_at' = Append(accepted_at, now)
  BY <1>6, Zenon DEF StampOrders
<1>8. IsTable(accepted_at) /\ Len(accepted_at) = Len(orders)
  BY <1>1
<1>9. /\ DOMAIN accepted_at' = DOMAIN accepted_at \cup {Len(orders) + 1}
      /\ accepted_at'[Len(orders) + 1] = now
      /\ \A i \in DOMAIN accepted_at : accepted_at'[i] = accepted_at[i]
  <2> DEFINE u == Append(accepted_at, now)
  <2>1. /\ IsTable(u) /\ Len(u) = Len(accepted_at) + 1
        /\ DOMAIN u = DOMAIN accepted_at \cup {Len(accepted_at) + 1}
        /\ u[Len(accepted_at) + 1] = now
        /\ \A i \in DOMAIN accepted_at : u[i] = accepted_at[i]
    BY <1>8, AppendLast, Zenon
  <2>2. accepted_at' = u
    BY <1>7
  <2> HIDE DEF u
  <2> QED
    BY <1>8, <2>1, <2>2
<1> QED
  BY <1>2, <1>4, <1>5, <1>6, <1>9 DEF AddsOrder

(* The sets that are counted are finite.                                   *)
LEMMA CountedSets ==
  ASSUME TimeInv, PaceInv, NEW s \in Sides, NEW a
  PROVE  /\ DOMAIN accepted_at = DOMAIN orders
         /\ IsFiniteSet(InWindow(s, a)) /\ Cardinality(InWindow(s, a)) \in Nat
         /\ IsFiniteSet(Pending(s)) /\ Cardinality(Pending(s)) \in Nat
<1>1. DOMAIN accepted_at = 1 .. Len(accepted_at) /\ Len(accepted_at) \in Nat
      /\ DOMAIN accepted_at = DOMAIN orders
  BY DEF TimeInv, OrderTimes, IsTable
<1>2. IsFiniteSet(DOMAIN accepted_at)
  BY <1>1, FS_Interval
<1>3. IsFiniteSet(InWindow(s, a))
  BY <1>2, FS_Subset DEF InWindow
<1>4. IsFiniteSet(Pending(s))
  BY FS_Subset DEF Pending, PaceInv, OrderSides
<1> QED
  BY <1>1, <1>3, <1>4, FS_CardinalityType

LEMMA WindowKept ==
  ASSUME TimeInv, KeepsOrders, NEW s \in Sides, NEW a
  PROVE  InWindow(s, a)' = InWindow(s, a)
<1>1. DOMAIN accepted_at = DOMAIN orders
  BY DEF TimeInv, OrderTimes, IsTable
<1> QED
  BY <1>1 DEF InWindow, KeepsOrders, Window

LEMMA WindowAdds ==
  ASSUME TimeInv, PaceInv, NEW t, AddsOrder(t), NEW s \in Sides, NEW a \in Int
  PROVE  Cardinality(InWindow(s, a)') = Cardinality(InWindow(s, a)) +
                                         IF t = s /\ Now(s, a) THEN 1 ELSE 0
<1> DEFINE n == Len(orders) + 1
<1>1. /\ DOMAIN accepted_at' = DOMAIN accepted_at \cup {n} /\ n \notin DOMAIN accepted_at
      /\ orders'[n].side = t /\ accepted_at'[n] = now
      /\ \A o \in DOMAIN accepted_at : orders'[o] = orders[o]
                                       /\ accepted_at'[o] = accepted_at[o]
  BY CountedSets DEF AddsOrder
<1> HIDE DEF n
<1>2. n \notin InWindow(s, a) /\ IsFiniteSet(InWindow(s, a))
      /\ Cardinality(InWindow(s, a)) \in Nat
  BY <1>1, CountedSets DEF InWindow
<1>3. CASE t = s /\ Now(s, a)
  <2>1. InWindow(s, a)' = InWindow(s, a) \cup {n}
    BY <1>1, <1>3 DEF InWindow, Now, Window
  <2>2. Cardinality(InWindow(s, a) \cup {n}) = Cardinality(InWindow(s, a)) + 1
    BY <1>2, FS_AddElement
  <2> QED
    BY <1>3, <2>1, <2>2
<1>4. CASE ~ (t = s /\ Now(s, a))
  <2>1. InWindow(s, a)' = InWindow(s, a)
    BY <1>1, <1>4 DEF InWindow, Now, Window
  <2> QED
    BY <1>2, <1>4, <2>1
<1> QED
  BY <1>3, <1>4

LEMMA PendingAdds ==
  ASSUME TimeInv, PaceInv, NEW req, inflight' = inflight \cup {req}, NEW s \in Sides
  PROVE  /\ IsFiniteSet(inflight')
         /\ Cardinality(Pending(s)') \in Nat
         /\ Cardinality(Pending(s)') <= Cardinality(Pending(s)) +
                                          IF req.side = s THEN 1 ELSE 0
<1>1. /\ IsFiniteSet(inflight) /\ IsFiniteSet(Pending(s))
      /\ Cardinality(Pending(s)) \in Nat
  BY CountedSets DEF PaceInv, OrderSides
<1>2. IsFiniteSet(inflight')
  BY <1>1, FS_AddElement
<1>3. CASE req.side = s
  <2>1. Pending(s)' = Pending(s) \cup {req}
    BY <1>3 DEF Pending
  <2>2. Cardinality(Pending(s) \cup {req}) = Cardinality(Pending(s))
        \/ Cardinality(Pending(s) \cup {req}) = Cardinality(Pending(s)) + 1
    BY <1>1, FS_AddElement
  <2> QED
    BY <1>1, <1>2, <1>3, <2>1, <2>2
<1>4. CASE req.side # s
  <2>1. Pending(s)' = Pending(s)
    BY <1>4 DEF Pending
  <2> QED
    BY <1>1, <1>2, <1>4, <2>1
<1> QED
  BY <1>3, <1>4

LEMMA PendingLess ==
  ASSUME TimeInv, PaceInv, inflight' \subseteq inflight, NEW s \in Sides
  PROVE  /\ IsFiniteSet(inflight')
         /\ Cardinality(Pending(s)') \in Nat
         /\ Cardinality(Pending(s)') <= Cardinality(Pending(s))
<1>1. IsFiniteSet(inflight) /\ IsFiniteSet(Pending(s))
  BY CountedSets DEF PaceInv, OrderSides
<1>2. Pending(s)' \subseteq Pending(s)
  BY DEF Pending
<1> QED
  BY <1>1, <1>2, FS_Subset, FS_CardinalityType

LEMMA PendingArrives ==
  ASSUME TimeInv, PaceInv, NEW req \in inflight, inflight' = inflight \ {req},
         NEW s \in Sides, req.side = s
  PROVE  Cardinality(Pending(s)') = Cardinality(Pending(s)) - 1
<1>1. IsFiniteSet(Pending(s)) /\ req \in Pending(s)
  BY CountedSets DEF Pending
<1>2. Pending(s)' = Pending(s) \ {req}
  BY DEF Pending
<1> QED
  BY <1>1, <1>2, FS_RemoveElement

-----------------------------------------------------------------------------
(* What may still come, and what a step adds to it.                        *)

LEMMA RoomBounds ==
  ASSUME PaceInv, NEW s \in Sides, NEW a
  PROVE  /\ Room(s, a) \in Int /\ 0 <= Room(s, a) /\ Room(s, a) <= Batch(s)
         /\ side = s /\ call.step = "post" => 1 <= Room(s, a)
<1>1. Batch(s) \in Nat \ {0} /\ count \in Nat
  BY Options DEF PaceInv, LoopInv
<1>2. Busy(s) => count < Batch(s)
  BY DEF Busy, PaceInv, LoopInv
<1>3. Returning(s) = 0 \/ (Returning(s) = 1 /\ Busy(s) /\ call.step = "done")
  BY DEF Returning
<1>4. side = s /\ call.step = "post" => Busy(s)
  BY DEF Busy, PaceInv, LoopInv
<1>5. CASE last_time[s] < a
  BY <1>1, <1>3, <1>5 DEF Room
<1>6. CASE ~ (last_time[s] < a)
  BY <1>1, <1>2, <1>3, <1>4, <1>6 DEF Room
<1> QED
  BY <1>5, <1>6

LEMMA RoomBoundsNext ==
  ASSUME PaceInv', NEW s \in Sides, NEW a
  PROVE  Room(s, a)' \in Int /\ 0 <= Room(s, a)' /\ Room(s, a)' <= Batch(s)
<1>1. Batch(s) \in Nat \ {0} /\ count' \in Nat
  BY Options DEF PaceInv, LoopInv
<1>2. Busy(s)' => count' < Batch(s)
  BY DEF Busy, PaceInv, LoopInv, Batch
<1>3. Returning(s)' = 0 \/ (Returning(s)' = 1 /\ Busy(s)')
  BY DEF Returning
<1>4. Room(s, a)' = IF last_time'[s] < a THEN Batch(s) - Returning(s)'
                    ELSE IF Busy(s)' THEN Batch(s) - count' - Returning(s)'
                    ELSE 0
  BY DEF Room, Batch
<1> QED
  BY <1>1, <1>2, <1>3, <1>4

(* A failure pays for a batch, and nothing else adds to the load.          *)
Pays(s, a) ==
  /\ Cardinality(InWindow(s, a)') \in Nat /\ Cardinality(Pending(s)') \in Nat
  /\ Cardinality(InWindow(s, a)') = Cardinality(InWindow(s, a)) \/ Now(s, a)
  /\ \/ faults' = faults /\ (Now(s, a) => Load(s, a)' <= Load(s, a))
     \/ faults' = faults + 1 /\ (Now(s, a) => Load(s, a)' <= Load(s, a) + Batch(s))

LEMMA RateStep ==
  ASSUME TimeInv, PaceInv, PaceInv', now' = now, NEW s \in Sides, NEW a \in Nat,
         RateOf(s, a), Pays(s, a)
  PROVE  RateOf(s, a)'
<1> DEFINE n == Cardinality(InWindow(s, a))
           n2 == Cardinality(InWindow(s, a)')
           l == Load(s, a)
           l2 == Load(s, a)'
           b == Batch(s)
           m == Budget(s)
           m2 == Budget(s)'
<1>1. n \in Nat /\ n2 \in Nat /\ b \in Nat \ {0} /\ faults \in Nat
  BY CountedSets, Options DEF Pays, PaceInv, LoopInv
<1>2. l \in Int /\ l2 \in Int /\ n <= l /\ n2 <= l2
  <2>1. Cardinality(Pending(s)) \in Nat /\ Cardinality(Pending(s)') \in Nat
    BY CountedSets DEF Pays
  <2>2. Room(s, a) \in Int /\ 0 <= Room(s, a) /\ Room(s, a)' \in Int /\ 0 <= Room(s, a)'
    BY RoomBounds, RoomBoundsNext
  <2> QED
    BY <1>1, <2>1, <2>2 DEF Load
<1>3. m = b * (1 + faults) /\ m2 = b * (1 + faults')
  BY DEF Budget, Batch
<1>4. /\ m \in Nat
      /\ (m2 = m /\ faults' = faults) \/ (m2 = m + b /\ faults' = faults + 1)
  <2>1. faults' = faults \/ faults' = faults + 1
    BY DEF Pays
  <2> HIDE DEF b, m, m2
  <2>2. b * (1 + faults) \in Nat /\ b * (1 + (faults + 1)) = b * (1 + faults) + b
    BY <1>1, BudgetGrows
  <2> QED
    BY <1>3, <2>1, <2>2
<1>5. Now(s, a)' <=> Now(s, a)
  BY DEF Now, Window
<1>6. /\ n <= m /\ (Now(s, a) => l <= m)
      /\ (n2 = n \/ Now(s, a))
      /\ \/ faults' = faults /\ (Now(s, a) => l2 <= l)
         \/ faults' = faults + 1 /\ (Now(s, a) => l2 <= l + b)
  BY DEF RateOf, Pays
<1>7. faults' = faults => faults' # faults + 1
  BY <1>1
<1> HIDE DEF n, n2, l, l2, b, m, m2
<1>8. n2 <= m2 /\ (Now(s, a) => l2 <= m2)
  BY <1>1, <1>2, <1>4, <1>6, <1>7
<1> QED
  BY <1>5, <1>8 DEF RateOf, n2, l2, m2

-----------------------------------------------------------------------------
(* How a step moves the loop.                                              *)

(* The loop waits, or its call goes on.                                    *)
Stays ==
  /\ UNCHANGED <<pc, side, todo, count, last_time, due>>
  /\ call'.req = call.req /\ (call'.step # "idle" => call.step # "idle")
  /\ faults' = faults \/ faults' = faults + 1

(* It calls new_order.                                                     *)
Places ==
  /\ pc = "scan" /\ todo # {} /\ pc' = "call"
  /\ call'.step = "post" /\ call'.req.side = side
  /\ UNCHANGED <<side, count, last_time, due, orders, inflight, faults>>

(* The order it placed is recorded.                                        *)
Records ==
  /\ pc = "call" /\ call.step = "done" /\ pc' = "scan"
  /\ side' = side /\ count' = count + 1 /\ call'.step = "idle"
  /\ todo' # {} => count' < IF side = "sale" THEN EveryMaxSale ELSE EveryMaxBuy
  /\ last_time' = [last_time EXCEPT ![side] = now]
  /\ UNCHANGED <<due, orders, inflight, faults>>

(* It begins with the segments of a side.                                  *)
Begins ==
  /\ side' \in Sides /\ Before(side') /\ (todo' # {} => Awake(side'))
  /\ side' = "sale" => Before("buy")
  /\ pc # "call" /\ pc' = "scan" /\ count' = 0
  /\ call.step = "idle" /\ call'.step = "idle"
  /\ UNCHANGED <<last_time, due, orders, inflight, faults>>

(* It is at another place of the round, or the round is over.              *)
Elsewhere ==
  /\ pc' \notin {"scan", "call"} /\ call'.step = "idle" /\ count' \in {0, count}
  /\ faults' = faults \/ faults' = faults + 1
  /\ call.step = "done" => faults' = faults + 1
  /\ pc' = "timer" => pc # "timer" /\ due' = now + Interval /\ last_time' = last_time
  /\ pc' = "down" => last_time' = NeverPlaced /\ faults' = faults + 1
  /\ pc' \notin {"timer", "down"} =>
       /\ last_time' = last_time
       /\ \/ pc \notin {"timer", "down", "scan", "call"}
          \/ pc = "timer" /\ now >= due
          \/ pc = "down"

LEMMA RestStep ==
  ASSUME IInv, PaceInv, PacedStep,
         ~ (CallStep \/ Exchange \/ PlaceSale \/ PlaceBuy \/ PacedInsert
            \/ PacedGetSold \/ PacedStartBuying)
  PROVE  Elsewhere
<1>1. call.step # "idle" => pc = "call"
  BY DEF PaceInv, LoopInv
<1>2. CASE PacedCrash
  BY <1>1, <1>2 DEF PacedCrash, Crash, Elsewhere, RoundOver, Fault, Idle, NeverPlaced
<1>3. /\ PacedCrash \/ last_time' = last_time
      /\ pc # "timer" /\ pc' = "timer" => due' = now + Interval
  BY DEF PacedStep, Keep, ArmTimer
<1>4. CASE ~ PacedCrash /\ (CallThrows \/ InsertFails)
  <2>1. pc = "call" /\ pc' = "timer" /\ call' = Idle /\ count' = 0
    BY <1>4 DEF CallThrows, InsertFails, EndCall, ThrowRound, RoundOver
  <2>2. /\ faults' = faults \/ faults' = faults + 1
        /\ call.step = "done" => faults' = faults + 1
    BY <1>4 DEF CallThrows, InsertFails, Fault, NoFault
  <2> QED
    BY <1>3, <1>4, <2>1, <2>2 DEF Elsewhere, Idle
<1>5. CASE ~ PacedCrash /\ EndRound
  <2>1. pc = "scan" /\ pc' = "timer" /\ call' = call /\ count' = 0 /\ faults' = faults
    BY <1>5 DEF EndRound, LoopEnds, RoundOver, NoFault, apivars
  <2> QED
    BY <1>1, <1>3, <1>5, <2>1 DEF Elsewhere
<1>6. CASE ~ PacedCrash /\ (PacedTimer \/ Restart)
  <2>1. /\ pc' = "new_sale" /\ call' = call /\ count' = count /\ faults' = faults
        /\ (pc = "timer" /\ now >= due) \/ pc = "down"
    BY <1>6 DEF PacedTimer, Timer, Restart, NoFault, apivars, gridvars
  <2> QED
    BY <1>1, <1>3, <1>6, <2>1 DEF Elsewhere
<1>7. CASE /\ ~ PacedCrash
           /\ \/ GetNewSales \/ GetNewBuys \/ BuyList \/ SettleClosed
              \/ Cancel \/ CancelThrows \/ Deliver \/ Delivered \/ NotDeliverable
              \/ DealingSegs \/ QueryFails \/ SettleFails \/ CancelFails \/ DeliverFails
              \/ PacedSettleOpen \/ PacedSettleExpired \/ PacedAsleep
              \/ PacedQueryPrice \/ PacedPriceFails
  <2>1. /\ pc \in {"new_sale", "new_buy", "settle", "cancel", "deliver", "price", "sold"}
        /\ pc' \in {"new_buy", "settle", "cancel", "deliver", "price", "sold", "timer"}
    BY <1>7 DEF GetNewSales, GetNewBuys, BuyList, SettleClosed, Cancel, CancelThrows,
       Deliver, Delivered, NotDeliverable, DealingSegs, QueryFails, SettleFails,
       CancelFails, DeliverFails, PacedSettleOpen, SettleOpen, PacedSettleExpired,
       SettleExpired, PacedAsleep, Asleep, PacedQueryPrice, QueryPrice,
       PacedPriceFails, PriceFails, Goto, Continue, ThrowRound, ThrowSettling
  <2>2. count' = count \/ count' = 0
    BY <1>7 DEF GetNewSales, GetNewBuys, BuyList, SettleClosed, Cancel, CancelThrows,
       Deliver, Delivered, NotDeliverable, DealingSegs, QueryFails, SettleFails,
       CancelFails, DeliverFails, PacedSettleOpen, SettleOpen, PacedSettleExpired,
       SettleExpired, PacedAsleep, Asleep, PacedQueryPrice, QueryPrice,
       PacedPriceFails, PriceFails, Goto, Continue, ThrowRound, ThrowSettling,
       RoundOver, gridvars
  <2>3. faults' = faults \/ faults' = faults + 1
    BY <1>7 DEF GetNewSales, GetNewBuys, BuyList, SettleClosed, Cancel, CancelThrows,
       Deliver, Delivered, NotDeliverable, DealingSegs, QueryFails, SettleFails,
       CancelFails, DeliverFails, PacedSettleOpen, SettleOpen, PacedSettleExpired,
       SettleExpired, PacedAsleep, Asleep, PacedQueryPrice, QueryPrice,
       PacedPriceFails, PriceFails, Fault, NoFault
  <2>4. call' = call
    BY <1>7 DEF GetNewSales, GetNewBuys, BuyList, SettleClosed, Cancel, CancelThrows,
       Deliver, Delivered, NotDeliverable, DealingSegs, QueryFails, SettleFails,
       CancelFails, DeliverFails, PacedSettleOpen, SettleOpen, PacedSettleExpired,
       SettleExpired, PacedAsleep, Asleep, PacedQueryPrice, QueryPrice,
       PacedPriceFails, PriceFails, CancelAccepted, CancelRefused, apivars
  <2> QED
    BY <1>1, <1>3, <1>7, <2>1, <2>2, <2>3, <2>4 DEF Elsewhere
<1> QED
  BY <1>2, <1>4, <1>5, <1>6, <1>7 DEF PacedStep, Timeless, Reads

LEMMA StayStep ==
  ASSUME IInv, PaceInv, PacedStep, CallStep \/ Exchange
  PROVE  Stays
<1>1. last_time' = last_time /\ (pc' = pc => due' = due)
  <2>1. ~ PacedInsert /\ ~ PacedCrash
    <3>1. CASE CallStep
      <4>1. pc' = "call" /\ pc = "call" /\ count' = count /\ count \in Nat
        BY <3>1 DEF CallStep, gridvars, PaceInv, LoopInv
      <4> QED
        BY <4>1 DEF PacedInsert, Insert, PacedCrash, Crash
    <3>2. CASE Exchange
      <4>1. pc' = pc
        BY <3>2 DEF Exchange
      <4> QED
        BY <4>1 DEF PacedInsert, Insert, PacedCrash, Crash
    <3> QED
      BY <3>1, <3>2
  <2> QED
    BY <2>1 DEF PacedStep, Keep, ArmTimer
<1>2. CASE CallStep
  <2>1. pc = "call" /\ pc' = pc /\ UNCHANGED <<side, todo, count>>
    BY <1>2 DEF CallStep, gridvars
  <2>2. call = [step |-> call.step, req |-> call.req, id |-> call.id]
    BY <2>1 DEF IInv, CallInv
  <2>3. \E step \in {"throw", "ask", "done"} : \E id :
          call' = [call EXCEPT !.step = step, !.id = id]
    <3>1. CASE PostAnswered \/ AskFound
      BY <3>1 DEF PostAnswered, AskFound, Return
    <3>2. CASE PostRefused \/ PostUnreadable \/ PostUnanswered \/ AskNotFound \/ AskUnanswered
      <4>1. PICK step \in {"throw", "ask"} : call' = [call EXCEPT !.step = step]
        BY <3>2 DEF PostRefused, PostUnreadable, PostUnanswered, AskNotFound,
           AskUnanswered, Throw
      <4>2. call' = [call EXCEPT !.step = step, !.id = call.id]
        BY <2>2, <4>1
      <4> QED
        BY <4>2
    <3> QED
      BY <1>2, <3>1, <3>2 DEF CallStep
  <2>4. call'.req = call.req
    BY <2>2, <2>3
  <2>5. call.step # "idle"
    BY <1>2 DEF CallStep, PostAnswered, AskFound, PostRefused, PostUnreadable,
       PostUnanswered, AskNotFound, AskUnanswered
  <2>6. faults' = faults \/ faults' = faults + 1
    BY <1>2 DEF CallStep, Fault, NoFault
  <2> QED
    BY <1>1, <2>1, <2>4, <2>5, <2>6 DEF Stays
<1>3. CASE Exchange
  <2>1. call' = call /\ pc' = pc /\ UNCHANGED <<side, todo, count, faults>>
    BY <1>3 DEF Exchange, FillStep, Fill, FinishCancel, ArriveLate, DropLate, gridvars
  <2> QED
    BY <1>1, <2>1 DEF Stays
<1> QED
  BY <1>2, <1>3

LEMMA PlaceStep ==
  ASSUME IInv, PaceInv, PacedStep, PlaceSale \/ PlaceBuy
  PROVE  Places
<1>1. /\ pc = "scan" /\ pc' = "call" /\ UNCHANGED <<side, count, orders, inflight, faults>>
  BY DEF PlaceSale, PlaceBuy, new_order, NoFault
<1>2. todo # {}
  BY DEF PlaceSale, PlaceBuy, Sellable, Buyable
<1>3. call'.step = "post" /\ call'.req.side = side
  BY DEF PlaceSale, PlaceBuy, new_order
<1>4. last_time' = last_time /\ due' = due
  BY <1>1 DEF PacedStep, Keep, ArmTimer, PacedInsert, Insert, PacedCrash, Crash
<1> QED
  BY <1>1, <1>2, <1>3, <1>4 DEF Places

LEMMA InsertStep ==
  ASSUME IInv, PaceInv, PacedStep, PacedInsert
  PROVE  Records
<1>1. /\ pc = "call" /\ call.step = "done" /\ pc' = "scan" /\ side' = side
      /\ count' = count + 1 /\ call' = Idle
      /\ UNCHANGED <<orders, inflight, faults>>
      /\ last_time' = [last_time EXCEPT ![side] = now]
  BY DEF PacedInsert, Insert, EndCall, NoFault, TakeTime
<1>2. todo' # {} => ~ (count' >= IF side = "sale" THEN EveryMaxSale ELSE EveryMaxBuy)
  BY DEF PacedInsert, Insert
<1>3. due' = due
  BY <1>1 DEF PacedStep, Keep, ArmTimer
<1>4. count' \in Nat /\ EveryMaxSale \in Int /\ EveryMaxBuy \in Int
  BY <1>1, OptionsAssumption DEF PaceInv, LoopInv
<1> QED
  BY <1>1, <1>2, <1>3, <1>4 DEF Records, Idle

LEMMA BeginStep ==
  ASSUME IInv, PaceInv, PacedStep, PacedGetSold \/ PacedStartBuying
  PROVE  Begins
<1>1. pc' = "scan" /\ count' = 0 /\ UNCHANGED <<orders, inflight, call, faults>>
  BY DEF PacedGetSold, GetSold, PacedStartBuying, StartBuying, StartLoop, apivars, NoFault
<1>2. pc \in {"sold", "scan"}
  BY DEF PacedGetSold, GetSold, PacedStartBuying, StartBuying, LoopEnds
<1>3. last_time' = last_time /\ due' = due
  BY <1>1, <1>2 DEF PacedStep, Keep, ArmTimer, PacedInsert, Insert, PacedCrash, Crash
<1>4. call.step = "idle" /\ call'.step = "idle"
  BY <1>1, <1>2 DEF PaceInv, LoopInv
<1>5. CASE PacedGetSold
  <2>1. pc = "sold" /\ side' = "sale" /\ (todo' # {} => Awake("sale"))
    BY <1>5 DEF PacedGetSold, GetSold, StartLoop, Enters
  <2> QED
    BY <1>1, <1>2, <1>3, <1>4, <2>1 DEF Begins, Before, Sides
<1>6. CASE PacedStartBuying
  <2>1. pc = "scan" /\ side = "sale" /\ side' = "buy" /\ (todo' # {} => Awake("buy"))
    BY <1>6 DEF PacedStartBuying, StartBuying, LoopEnds, StartLoop, Enters
  <2> QED
    BY <1>1, <1>2, <1>3, <1>4, <2>1 DEF Begins, Before, Sides
<1> QED
  BY <1>5, <1>6

LEMMA LoopMoves ==
  ASSUME IInv, PaceInv, PacedStep
  PROVE  Stays \/ Places \/ Records \/ Begins \/ Elsewhere
BY StayStep, PlaceStep, InsertStep, BeginStep, RestStep

(* The locals that the loop counts with.                                   *)
LEMMA LoopStep ==
  ASSUME IInv, PaceInv, PacedStep
  PROVE  LoopInv'
<1>1. now' = now /\ (due' = due \/ due' = now + Interval) /\ LoopInv
  BY DEF PacedStep, Keep, ArmTimer, PaceInv
<1>2. now' \in Nat \ {0} /\ due' \in Int
  BY <1>1, SecondsAssumption DEF LoopInv
<1>3. side \in Sides
  BY DEF IInv, ListInv
<1>4. CASE Stays
  <2>1. faults' \in Nat /\ count' \in Nat /\ last_time' \in [Sides -> Nat]
    BY <1>1, <1>4 DEF Stays, LoopInv
  <2>2. /\ pc' = "call" => call'.req.side = side'
        /\ call'.step # "idle" => pc' = "call"
    BY <1>1, <1>4 DEF Stays, LoopInv
  <2>3. Busy(side)' => count' < Batch(side)'
    BY <1>1, <1>4 DEF Stays, LoopInv, Busy, Batch
  <2> QED
    BY <1>2, <1>4, <2>1, <2>2, <2>3 DEF LoopInv, Busy, Batch, Stays
<1>5. CASE Places
  <2>1. Busy(side)
    BY <1>5 DEF Places, Busy
  <2>2. count' < Batch(side')
    BY <1>1, <1>5, <2>1 DEF Places, LoopInv
  <2> QED
    BY <1>1, <1>2, <1>5, <2>2 DEF Places, LoopInv, Batch
<1>6. CASE Records
  <2>1. PICK every \in Int : /\ every <= Batch(side)
                             /\ todo' # {} => count' < every
    <3> DEFINE every == IF side = "sale" THEN EveryMaxSale ELSE EveryMaxBuy
    <3>1. Batch(side) >= every /\ Batch(side) \in Nat
      BY <1>3, Options
    <3>2. every \in Int /\ (todo' # {} => count' < every)
      BY <1>6, OptionsAssumption DEF Records
    <3> QED
      BY <3>1, <3>2
  <2>2. count' < Batch(side) \/ todo' = {}
    <3>1. Batch(side) \in Nat /\ count' \in Nat
      BY <1>1, <1>3, <1>6, Options DEF LoopInv, Records
    <3> QED
      BY <2>1, <3>1
  <2>3. last_time' \in [Sides -> Nat] /\ count' \in Nat
    <3>1. /\ last_time \in [Sides -> Nat] /\ now \in Nat /\ count \in Nat
          /\ last_time' = [last_time EXCEPT ![side] = now] /\ count' = count + 1
      BY <1>1, <1>6 DEF LoopInv, Records
    <3> QED
      BY <1>3, <3>1
  <2>4. Busy(side)' => count' < Batch(side')
    <3>1. side' = side /\ pc' = "scan"
      BY <1>6 DEF Records
    <3>2. Busy(side)' => todo' # {}
      BY <3>1 DEF Busy
    <3> QED
      BY <2>2, <3>1, <3>2
  <2> QED
    BY <1>1, <1>2, <1>6, <2>3, <2>4 DEF LoopInv, Records, Busy, Batch
<1>7. CASE Begins
  <2>1. Batch(side') \in Nat \ {0}
    BY <1>7, Options DEF Begins
  <2>2. count' < Batch(side')
    BY <1>7, <2>1 DEF Begins
  <2> QED
    BY <1>1, <1>2, <1>7, <2>2 DEF LoopInv, Begins, Batch
<1>8. CASE Elsewhere
  <2>1. last_time' \in [Sides -> Nat]
    BY <1>1, <1>8 DEF Elsewhere, LoopInv, NeverPlaced
  <2>2. count' \in Nat /\ faults' \in Nat
    BY <1>1, <1>8 DEF Elsewhere, LoopInv
  <2> QED
    BY <1>2, <1>8, <2>1, <2>2 DEF LoopInv, Elsewhere, Busy
<1> QED
  BY <1>4, <1>5, <1>6, <1>7, <1>8, LoopMoves

(* A cooldown is over only after the interval of the rounds.               *)
LEMMA RestedStep ==
  ASSUME IInv, PaceInv, PacedStep, NEW s \in Sides
  PROVE  Rested(s)'
<1>1. /\ now' = now /\ now \in Nat /\ last_time \in [Sides -> Nat] /\ Rested(s)
      /\ side \in Sides /\ Interval \in Int
  BY SecondsAssumption DEF PacedStep, Keep, PaceInv, LoopInv, IInv, ListInv
<1>2. CASE Stays
  BY <1>1, <1>2 DEF Stays, Rested, Before
<1>3. CASE Places
  BY <1>1, <1>3 DEF Places, Rested, Before
<1>4. CASE Records
  <2>1. s = side => last_time'[s] = now /\ ~ Before(s)'
    BY <1>1, <1>4 DEF Records, Before
  <2>2. s # side => last_time'[s] = last_time[s] /\ (Before(s)' => Before(s))
    BY <1>1, <1>4 DEF Records, Before
  <2>3. pc' = "scan"
    BY <1>4 DEF Records
  <2> QED
    BY <1>1, <2>1, <2>2, <2>3 DEF Rested
<1>5. CASE Begins
  <2>1. Before(s)' => Before(s)
    BY <1>5 DEF Begins, Before
  <2> QED
    BY <1>1, <1>5, <2>1 DEF Begins, Rested
<1>6. CASE Elsewhere
  <2>1. CASE pc' = "down"
    <3>1. last_time'[s] = 0 /\ ~ Before(s)'
      BY <1>6, <2>1 DEF Elsewhere, NeverPlaced, Before
    <3> QED
      BY <1>1, <2>1, <3>1 DEF Rested
  <2>2. CASE pc' = "timer"
    <3>1. last_time'[s] = last_time[s] /\ due' = now + Interval /\ ~ Before(s)'
      BY <1>6, <2>2 DEF Elsewhere, Before
    <3> QED
      BY <1>1, <2>2, <3>1 DEF Rested
  <2>3. CASE pc' \notin {"timer", "down"}
    <3>1. /\ last_time'[s] = last_time[s]
          /\ \/ pc \notin {"timer", "down", "scan", "call"}
             \/ pc = "timer" /\ now >= due
             \/ pc = "down"
      BY <1>6, <2>3 DEF Elsewhere
    <3>2. last_time[s] = 0 \/ last_time[s] + Interval <= now
      <4>1. CASE pc = "timer" /\ now >= due
        <5>1. last_time[s] + Interval <= due /\ due \in Int
          BY <1>1, <4>1 DEF Rested, PaceInv, LoopInv
        <5> QED
          BY <1>1, <4>1, <5>1
      <4> QED
        BY <1>1, <3>1, <4>1 DEF Rested, Before
    <3> QED
      BY <1>1, <2>3, <3>1, <3>2 DEF Rested
  <2> QED
    BY <2>1, <2>2, <2>3
<1> QED
  BY <1>2, <1>3, <1>4, <1>5, <1>6, LoopMoves

-----------------------------------------------------------------------------
(* What is counted, step by step.                                          *)

Quiet == KeepsOrders /\ inflight' \subseteq inflight

(* A post gets no answer, or its sender dies.                              *)
Leaves ==
  /\ call.step = "post" /\ faults' = faults + 1
  /\ KeepsOrders /\ inflight' = inflight \cup {call.req}

(* A post is executed.                                                     *)
Takes ==
  /\ call.step = "post" /\ (call'.step = "done" \/ faults' = faults + 1)
  /\ AddsOrder(call.req.side) /\ inflight' = inflight

Arrives ==
  \E req \in inflight : /\ AddsOrder(req.side) /\ inflight' = inflight \ {req}
                        /\ call' = call /\ faults' = faults

LEMMA CountsStaying ==
  ASSUME IInv, TimeInv, PaceInv, PacedStep, CallStep \/ Exchange
  PROVE  \/ Quiet /\ (call' = call \/ call.step # "done")
         \/ Leaves \/ Takes \/ Arrives
<1>1. StampOrders
  BY DEF PacedStep, Keep
<1>2. CASE CallStep
  <2>1. CASE PostAnswered
    <3>1. Accept(call.req) /\ call.step = "post" /\ inflight' = inflight
      BY <2>1 DEF PostAnswered
    <3>2. AddsOrder(call.req.side)
      BY <1>1, <3>1, OrderAdded
    <3>3. call'.step = "done"
      <4>1. call = [step |-> call.step, req |-> call.req, id |-> call.id]
        BY <1>2 DEF CallStep, IInv, CallInv
      <4>2. call' = [call EXCEPT !.step = "done", !.id = Len(orders) + 1]
        BY <2>1 DEF PostAnswered, Return
      <4> QED
        BY <4>1, <4>2
    <3> QED
      BY <3>1, <3>2, <3>3 DEF Takes
  <2>2. CASE (PostUnreadable \/ PostUnanswered) /\ Fault
    <3>1. call.step = "post" /\ PostLeft /\ faults' = faults + 1
      BY <2>2 DEF PostUnreadable, PostUnanswered, Fault
    <3>2. CASE Accept(call.req) /\ UNCHANGED inflight
      BY <1>1, <3>1, <3>2, OrderAdded DEF Takes
    <3>3. CASE inflight' = inflight \cup {call.req} /\ UNCHANGED orders
      BY <1>1, <3>1, <3>3, SidesKept DEF Leaves
    <3> QED
      BY <3>1, <3>2, <3>3 DEF PostLeft
  <2>3. CASE PostRefused \/ AskFound \/ AskNotFound \/ AskUnanswered
    <3>1. orders' = orders /\ inflight' = inflight /\ call.step # "done"
      BY <2>3 DEF PostRefused, AskFound, AskNotFound, AskUnanswered
    <3> QED
      BY <1>1, <3>1, SidesKept DEF Quiet
  <2> QED
    BY <1>2, <2>1, <2>2, <2>3 DEF CallStep
<1>3. CASE Exchange
  <2>1. faults' = faults
    BY <1>3 DEF Exchange
  <2>2. CASE FillStep \/ \E i \in DOMAIN orders : FinishCancel(i)
    <3>1. inflight' = inflight /\ call' = call
      BY <2>2 DEF FillStep, Fill, FinishCancel
    <3> QED
      BY <1>1, <2>2, <3>1, ExchangeMoves, SidesKept DEF Quiet
  <2>3. CASE \E req \in inflight : ArriveLate(req)
    BY <1>1, <2>1, <2>3, OrderAdded DEF ArriveLate, Arrives
  <2>4. CASE \E req \in inflight : DropLate(req)
    <3>1. orders' = orders /\ inflight' \subseteq inflight /\ call' = call
      BY <2>4 DEF DropLate
    <3> QED
      BY <1>1, <3>1, SidesKept DEF Quiet
  <2> QED
    BY <1>3, <2>2, <2>3, <2>4 DEF Exchange
<1> QED
  BY <1>2, <1>3

LEMMA CountsResting ==
  ASSUME IInv, TimeInv, PaceInv, PacedStep, ~ (CallStep \/ Exchange)
  PROVE  \/ KeepsOrders /\ inflight' = inflight
         \/ Leaves
<1>1. StampOrders
  BY DEF PacedStep, Keep
<1>2. CASE PacedCrash
  <2>1. orders' = orders /\ faults' = faults + 1
    BY <1>2 DEF PacedCrash, Crash, Fault
  <2>2. KeepsOrders
    BY <1>1, <2>1, SidesKept
  <2> QED
    BY <1>2, <2>1, <2>2 DEF PacedCrash, Crash, Leaves
<1>3. CASE Cancel \/ CancelFails
  <2>1. inflight' = inflight
    BY <1>3 DEF Cancel, CancelFails, CancelAccepted, apivars
  <2> QED
    BY <1>1, <1>3, <2>1, CancelMoves, SidesKept
<1>4. CASE ~ (PacedCrash \/ Cancel \/ CancelFails)
  <2>1. orders' = orders /\ inflight' = inflight
    BY <1>4 DEF PacedStep, Timeless, Reads, GetNewSales, GetNewBuys, BuyList,
       SettleClosed, CancelThrows, CancelRefused, Deliver, Delivered, NotDeliverable,
       DealingSegs, PlaceSale, PlaceBuy, new_order, CallThrows, EndCall, EndRound,
       Restart, QueryFails, SettleFails, DeliverFails, InsertFails, PacedSettleOpen,
       SettleOpen, PacedSettleExpired, SettleExpired, PacedAsleep, Asleep,
       PacedQueryPrice, QueryPrice, PacedPriceFails, PriceFails, PacedGetSold, GetSold,
       PacedStartBuying, StartBuying, PacedTimer, Timer, PacedInsert, Insert, apivars
  <2> QED
    BY <1>1, <2>1, SidesKept
<1> QED
  BY <1>2, <1>3, <1>4

LEMMA FaultsGrow ==
  ASSUME IInv, PaceInv, PacedStep
  PROVE  faults' = faults \/ faults' = faults + 1
BY LoopMoves DEF Stays, Places, Records, Begins, Elsewhere

(* No more posts are on their way than there were failures.                *)
LEMMA SidesStep ==
  ASSUME IInv, TimeInv, PaceInv, PacedStep
  PROVE  OrderSides'
<1>1. Quiet \/ Leaves \/ Takes \/ Arrives
  BY CountsStaying, CountsResting DEF Quiet
<1>2. /\ now \in Nat \ {0} /\ faults \in Nat
      /\ \A o \in DOMAIN orders : accepted_at[o] >= 1
      /\ \A s \in Sides : Cardinality(Pending(s)) <= faults
  BY DEF PaceInv, LoopInv, OrderSides
<1>3. \A o \in DOMAIN orders' : accepted_at'[o] >= 1
  <2>1. CASE KeepsOrders
    BY <1>2, <2>1 DEF KeepsOrders
  <2>2. ASSUME NEW t, AddsOrder(t)
        PROVE  \A o \in DOMAIN orders' : accepted_at'[o] >= 1
    BY <1>2, <2>2 DEF AddsOrder
  <2> QED
    BY <1>1, <2>1, <2>2 DEF Quiet, Leaves, Takes, Arrives
<1>4. CASE inflight' \subseteq inflight
  <2>1. ASSUME NEW s \in Sides
        PROVE  IsFiniteSet(inflight') /\ Cardinality(Pending(s)') <= faults'
    <3>1. /\ IsFiniteSet(inflight') /\ Cardinality(Pending(s)') \in Nat
          /\ Cardinality(Pending(s)') <= Cardinality(Pending(s))
      BY <1>4, PendingLess
    <3>2. Cardinality(Pending(s)) \in Nat
      BY CountedSets
    <3> QED
      BY <1>2, <3>1, <3>2, FaultsGrow
  <2> QED
    BY <1>3, <2>1 DEF OrderSides, Sides
<1>5. CASE Leaves
  <2>1. ASSUME NEW s \in Sides
        PROVE  IsFiniteSet(inflight') /\ Cardinality(Pending(s)') <= faults'
    <3>1. inflight' = inflight \cup {call.req} /\ faults' = faults + 1
      BY <1>5 DEF Leaves
    <3>2. /\ IsFiniteSet(inflight') /\ Cardinality(Pending(s)') \in Nat
          /\ Cardinality(Pending(s)') <= Cardinality(Pending(s)) +
                                           IF call.req.side = s THEN 1 ELSE 0
      BY <3>1, PendingAdds
    <3>3. Cardinality(Pending(s)) \in Nat
      BY CountedSets
    <3> QED
      BY <1>2, <3>1, <3>2, <3>3
  <2> QED
    BY <1>3, <2>1 DEF OrderSides, Sides
<1> QED
  BY <1>1, <1>4, <1>5 DEF Quiet, Takes, Arrives

LEMMA PaceStep ==
  ASSUME IInv, TimeInv, PaceInv, PacedStep
  PROVE  PaceInv'
BY LoopStep, SidesStep, RestedStep DEF PaceInv, Sides

-----------------------------------------------------------------------------
(* Each kind of step pays for what it adds.                                *)

LEMMA StayingRoom ==
  ASSUME PaceInv, Stays, NEW s \in Sides, NEW a
  PROVE  Room(s, a)' = Room(s, a) + Returning(s) - Returning(s)'
<1>1. (Busy(s)' <=> Busy(s)) /\ last_time' = last_time /\ count' = count /\ count \in Nat
  BY DEF Stays, Busy, PaceInv, LoopInv
<1>2. Returning(s) \in {0, 1} /\ Returning(s)' \in {0, 1} /\ Batch(s) \in Nat
  BY Options DEF Returning
<1>3. ~ Busy(s) => Returning(s) = 0 /\ Returning(s)' = 0
  BY <1>1 DEF Returning
<1> QED
  BY <1>1, <1>2, <1>3 DEF Room, Batch

(* What a step does to the load that adds no order and leaves no post.     *)
LEMMA QuietPays ==
  ASSUME TimeInv, PaceInv, PaceInv', Quiet, NEW s \in Sides, NEW a \in Nat,
         \/ faults' = faults /\ (Now(s, a) => Room(s, a)' <= Room(s, a))
         \/ faults' = faults + 1 /\ (Now(s, a) => Room(s, a)' <= Room(s, a) + Batch(s))
  PROVE  Pays(s, a)
<1>1. Cardinality(InWindow(s, a)') = Cardinality(InWindow(s, a))
  BY WindowKept DEF Quiet
<1>2. /\ Cardinality(Pending(s)') \in Nat
      /\ Cardinality(Pending(s)') <= Cardinality(Pending(s))
  BY PendingLess DEF Quiet
<1>3. Cardinality(InWindow(s, a)) \in Nat /\ Cardinality(Pending(s)) \in Nat
  BY CountedSets
<1>4. Room(s, a) \in Int /\ Room(s, a)' \in Int /\ Batch(s) \in Nat
  BY RoomBounds, RoomBoundsNext, Options
<1>5. Load(s, a)' = Cardinality(InWindow(s, a)') + Cardinality(Pending(s)') + Room(s, a)'
  BY DEF Load
<1> QED
  BY <1>1, <1>2, <1>3, <1>4, <1>5 DEF Pays, Load

LEMMA StayingPays ==
  ASSUME IInv, TimeInv, PaceInv, PaceInv', PacedStep, CallStep \/ Exchange,
         NEW s \in Sides, NEW a \in Nat
  PROVE  Pays(s, a)
<1> DEFINE n == Cardinality(InWindow(s, a))
           n2 == Cardinality(InWindow(s, a)')
           p == Cardinality(Pending(s))
           p2 == Cardinality(Pending(s)')
           r == Room(s, a)
           r2 == Room(s, a)'
           b == Batch(s)
<1>1. Stays /\ (faults' = faults \/ faults' = faults + 1)
  BY StayStep, FaultsGrow
<1>2. r2 = r + Returning(s) - Returning(s)'
  BY <1>1, StayingRoom
<1>3. /\ Returning(s) = 0 \/ (Returning(s) = 1 /\ call.step = "done")
      /\ Returning(s)' \in {0, 1}
      /\ call' = call => Returning(s)' = Returning(s)
  BY <1>1 DEF Returning, Stays, Busy
<1>4. n \in Nat /\ p \in Nat /\ r \in Int /\ b \in Nat \ {0}
  BY CountedSets, RoomBounds, Options
<1>5. r2 \in Int /\ r2 <= r + 1 /\ (call' = call \/ call.step # "done" => r2 <= r)
  BY <1>2, <1>3, <1>4
<1>6. Load(s, a) = n + p + r /\ Load(s, a)' = n2 + p2 + r2
  BY DEF Load
<1>7. call.step = "post" => pc = "call" /\ call.req.side = side
  BY DEF PaceInv, LoopInv
<1> HIDE DEF n, n2, p, p2, r, r2, b
<1>8. CASE Quiet /\ (call' = call \/ call.step # "done")
  <2>1. \/ faults' = faults /\ r2 <= r
        \/ faults' = faults + 1 /\ r2 <= r + b
    BY <1>1, <1>4, <1>5, <1>8
  <2> QED
    BY <1>8, <2>1, QuietPays DEF r, r2, b
<1>9. CASE Leaves
  <2>1. n2 = n
    BY <1>9, WindowKept DEF Leaves, n, n2
  <2>2. p2 \in Nat /\ p2 <= p + IF call.req.side = s THEN 1 ELSE 0
    BY <1>9, PendingAdds DEF Leaves, p, p2
  <2>3. p2 <= p + 1 /\ r2 <= r /\ faults' = faults + 1
    BY <1>4, <1>5, <1>9, <2>2 DEF Leaves
  <2>4. n2 + p2 + r2 <= n + p + r + b
    BY <1>4, <1>5, <2>1, <2>2, <2>3
  <2> QED
    BY <1>4, <1>6, <2>1, <2>2, <2>3, <2>4 DEF Pays, n, n2, p2, b
<1>10. CASE Takes
  <2>1. n2 = n + IF call.req.side = s /\ Now(s, a) THEN 1 ELSE 0
    BY <1>10, WindowAdds DEF Takes, n, n2
  <2>2. p2 \in Nat /\ p2 <= p
    BY <1>10, PendingLess DEF Takes, p, p2
  <2>3. call'.step = "done" /\ call.req.side = s => r2 = r - 1
    <3> SUFFICES ASSUME call'.step = "done", call.req.side = s PROVE r2 = r - 1
      OBVIOUS
    <3>1. pc' = "call" /\ side' = s /\ call.step = "post"
      BY <1>1, <1>7, <1>10 DEF Takes, Stays
    <3>2. Returning(s)' = 1 /\ Returning(s) = 0
      BY <3>1 DEF Returning, Busy
    <3> QED
      BY <1>2, <1>4, <3>2
  <2>4. r2 <= r /\ (call'.step = "done" \/ faults' = faults + 1)
    BY <1>5, <1>10 DEF Takes
  <2>5. CASE ~ (call.req.side = s /\ Now(s, a))
    <3>1. n2 = n /\ n2 + p2 + r2 <= n + p + r /\ n2 + p2 + r2 <= n + p + r + b
      BY <1>4, <1>5, <2>1, <2>2, <2>4, <2>5
    <3> QED
      BY <1>1, <1>4, <1>6, <2>2, <3>1 DEF Pays, n, n2, p2, b
  <2>6. CASE call.req.side = s /\ Now(s, a)
    <3>1. n2 = n + 1
      BY <2>1, <2>6
    <3>2. /\ n2 + p2 + r2 <= n + p + r + b
          /\ faults' = faults + 1 \/ n2 + p2 + r2 <= n + p + r
      BY <1>4, <1>5, <2>2, <2>3, <2>4, <2>6, <3>1
    <3>3. n2 \in Nat
      BY <1>4, <3>1
    <3> QED
      BY <1>1, <1>6, <2>2, <2>6, <3>2, <3>3 DEF Pays, n2, p2, b
  <2> QED
    BY <2>5, <2>6
<1>11. CASE Arrives
  <2>1. PICK req \in inflight : /\ AddsOrder(req.side) /\ inflight' = inflight \ {req}
                                /\ call' = call /\ faults' = faults
    BY <1>11 DEF Arrives
  <2>2. n2 = n + IF req.side = s /\ Now(s, a) THEN 1 ELSE 0
    BY <2>1, WindowAdds DEF n, n2
  <2>3. p2 \in Nat /\ p2 <= p
    BY <2>1, PendingLess DEF p, p2
  <2>4. req.side = s => p2 = p - 1
    BY <2>1, PendingArrives DEF p, p2
  <2>5. r2 <= r
    BY <1>5, <2>1
  <2>6. n2 + p2 + r2 <= n + p + r /\ n2 \in Nat /\ (n2 = n \/ Now(s, a))
    BY <1>4, <1>5, <2>2, <2>3, <2>4, <2>5
  <2> QED
    BY <1>6, <2>1, <2>3, <2>6 DEF Pays, n, n2, p2
<1> QED
  BY <1>8, <1>9, <1>10, <1>11, CountsStaying

LEMMA RestingRoom ==
  ASSUME IInv, PaceInv, PaceInv', PacedStep, ~ (CallStep \/ Exchange),
         NEW s \in Sides, NEW a \in Nat \ {0}
  PROVE  \/ faults' = faults /\ (Now(s, a) => Room(s, a)' <= Room(s, a))
         \/ faults' = faults + 1
<1> DEFINE r == Room(s, a)
           r2 == Room(s, a)'
           b == Batch(s)
<1>1. /\ r \in Int /\ 0 <= r /\ r2 \in Int /\ b \in Nat \ {0}
      /\ now \in Nat /\ count \in Nat /\ last_time[s] \in Nat
  BY RoomBounds, RoomBoundsNext, Options DEF PaceInv, LoopInv
<1>2. /\ last_time[s] < a => r = b - Returning(s)
      /\ ~ (last_time[s] < a) /\ Busy(s) => r = b - count - Returning(s)
  BY DEF Room
<1>3. /\ last_time'[s] < a => r2 = b - Returning(s)'
      /\ ~ (last_time'[s] < a) /\ Busy(s)' => r2 = b - count' - Returning(s)'
      /\ ~ (last_time'[s] < a) /\ ~ Busy(s)' => r2 = 0
  BY DEF Room, Batch
<1>4. call.step # "idle" => pc = "call"
  BY DEF PaceInv, LoopInv
<1> HIDE DEF r, r2, b
<1>5. CASE Places
  <2>1. (Busy(s)' <=> Busy(s)) /\ Returning(s) = 0 /\ Returning(s)' = 0
    BY <1>4, <1>5 DEF Places, Busy, Returning
  <2>2. last_time' = last_time /\ count' = count /\ faults' = faults
    BY <1>5 DEF Places
  <2>3. r2 <= r
    BY <1>1, <1>2, <1>3, <2>1, <2>2
  <2> QED
    BY <2>2, <2>3 DEF r, r2
<1>6. CASE Records
  <2>1. faults' = faults /\ side' = side /\ Returning(s)' = 0
    BY <1>6 DEF Records, Returning
  <2>2. CASE s = side
    <3>1. Busy(s) /\ Returning(s) = 1
      BY <1>6, <2>2 DEF Records, Busy, Returning
    <3>2. last_time'[s] = now /\ count' = count + 1
      BY <1>6, <2>2 DEF Records, PaceInv, LoopInv
    <3>3. a <= now => r2 <= r
      BY <1>1, <1>2, <1>3, <2>1, <3>1, <3>2
    <3> QED
      BY <2>1, <3>3 DEF Now, r, r2
  <2>3. CASE s # side
    <3>1. ~ Busy(s) /\ ~ Busy(s)' /\ Returning(s) = 0
      BY <2>1, <2>3 DEF Busy, Returning
    <3>2. last_time'[s] = last_time[s]
      BY <1>6, <2>3 DEF Records, PaceInv, LoopInv
    <3>3. r2 <= r
      BY <1>1, <1>2, <1>3, <2>1, <3>1, <3>2
    <3> QED
      BY <2>1, <3>3 DEF r, r2
  <2> QED
    BY <2>2, <2>3
<1>7. CASE Begins
  <2>1. /\ faults' = faults /\ last_time' = last_time
        /\ Returning(s) = 0 /\ Returning(s)' = 0
    BY <1>7 DEF Begins, Returning
  <2>2. CASE last_time[s] < a
    <3>1. r2 <= r
      BY <1>1, <1>2, <1>3, <2>1, <2>2
    <3> QED
      BY <2>1, <3>1 DEF r, r2
  <2>3. CASE ~ (last_time[s] < a) /\ ~ Busy(s)'
    <3>1. r2 <= r
      BY <1>1, <1>3, <2>1, <2>3
    <3> QED
      BY <2>1, <3>1 DEF r, r2
  <2>4. CASE ~ (last_time[s] < a) /\ Busy(s)'
    <3>1. side' = s /\ todo' # {}
      BY <1>7, <2>4 DEF Begins, Busy
    <3>2. Awake(s) /\ Before(s) /\ last_time[s] # 0
      BY <1>1, <1>7, <2>4, <3>1 DEF Begins
    <3>3. last_time[s] + Window(s) <= now
      BY <3>2, WakesLate
    <3>4. ~ Now(s, a)
      BY <1>1, <2>4, <3>3, Options DEF Now
    <3> QED
      BY <2>1, <3>4
  <2> QED
    BY <2>2, <2>3, <2>4
<1>8. CASE Elsewhere /\ faults' # faults + 1
  <2>1. faults' = faults /\ last_time' = last_time
    BY <1>8 DEF Elsewhere
  <2>2. ~ Busy(s)' /\ Returning(s)' = 0 /\ Returning(s) = 0
    BY <1>8 DEF Elsewhere, Busy, Returning
  <2>3. r2 <= r
    BY <1>1, <1>2, <1>3, <2>1, <2>2
  <2> QED
    BY <2>1, <2>3 DEF r, r2
<1> QED
  BY <1>5, <1>6, <1>7, <1>8, PlaceStep, InsertStep, BeginStep, RestStep

LEMMA RestingPays ==
  ASSUME IInv, TimeInv, PaceInv, PaceInv', PacedStep, ~ (CallStep \/ Exchange),
         NEW s \in Sides, NEW a \in Nat \ {0}
  PROVE  Pays(s, a)
<1> DEFINE n == Cardinality(InWindow(s, a))
           n2 == Cardinality(InWindow(s, a)')
           p == Cardinality(Pending(s))
           p2 == Cardinality(Pending(s)')
           r == Room(s, a)
           r2 == Room(s, a)'
           b == Batch(s)
<1>1. /\ n \in Nat /\ p \in Nat /\ r \in Int /\ 0 <= r /\ r2 \in Int /\ r2 <= b
      /\ b \in Nat \ {0}
      /\ side = s /\ call.step = "post" => 1 <= r
  BY CountedSets, RoomBounds, RoomBoundsNext, Options
<1>2. Load(s, a) = n + p + r /\ Load(s, a)' = n2 + p2 + r2
  BY DEF Load
<1> HIDE DEF n, n2, p, p2, r, r2, b
<1>3. CASE Quiet
  <2>1. r2 <= r + b
    BY <1>1
  <2>2. \/ faults' = faults /\ (Now(s, a) => Room(s, a)' <= Room(s, a))
        \/ faults' = faults + 1
    BY RestingRoom
  <2>3. Room(s, a)' <= Room(s, a) + Batch(s)
    BY <2>1 DEF r, r2, b
  <2>4. a \in Nat
    OBVIOUS
  <2> QED
    BY <1>3, <2>2, <2>3, <2>4, QuietPays
<1>4. CASE Leaves
  <2>1. n2 = n
    BY <1>4, WindowKept DEF Leaves, n, n2
  <2>2. p2 \in Nat /\ p2 <= p + IF call.req.side = s THEN 1 ELSE 0
    BY <1>4, PendingAdds DEF Leaves, p, p2
  <2>3. call.req.side = s => 1 <= r
    BY <1>1, <1>4 DEF Leaves, PaceInv, LoopInv
  <2>4. n2 + p2 + r2 <= n + p + r + b
    BY <1>1, <2>1, <2>2, <2>3
  <2>5. faults' = faults + 1
    BY <1>4 DEF Leaves
  <2> QED
    BY <1>1, <1>2, <2>1, <2>2, <2>4, <2>5 DEF Pays, n, n2, p2, b
<1> QED
  BY <1>3, <1>4, CountsResting DEF Quiet

-----------------------------------------------------------------------------
(* The theorems about the rate.                                            *)

LEMMA PaceInit == ASSUME PacedInit PROVE PaceInv /\ RateInv
<1>1. /\ now = StartTime /\ due = 0 /\ last_time = NeverPlaced /\ accepted_at = <<>>
      /\ pc = "new_sale" /\ side = "sale" /\ count = 0 /\ faults = 0
      /\ orders = <<>> /\ inflight = {} /\ call = Idle
  BY DEF PacedInit, Init, ApiInit, RoundInit
<1>2. LoopInv
  BY <1>1, ClockAssumption DEF LoopInv, Busy, NeverPlaced, Idle
<1>3. IsFiniteSet({}) /\ Cardinality({}) = 0
  BY FS_EmptySet
<1>4. \A s \in Sides : Pending(s) = {}
  BY <1>1 DEF Pending
<1>5. OrderSides
  <2>1. DOMAIN orders = {} /\ faults = 0
    BY <1>1
  <2>2. IsFiniteSet(inflight)
    BY <1>1, <1>3
  <2>3. \A s \in Sides : Cardinality(Pending(s)) = 0
    BY <1>3, <1>4, Zenon
  <2>4. \A s \in Sides : Cardinality(Pending(s)) <= faults
    BY <2>1, <2>3
  <2> QED
    BY <2>1, <2>2, <2>4 DEF OrderSides
<1>6. ASSUME NEW s \in Sides PROVE Rested(s)
  <2>1. last_time[s] = 0
    BY <1>1 DEF NeverPlaced
  <2>2. 0 <= now
    BY <1>1, ClockAssumption
  <2> QED
    BY <1>1, <2>1, <2>2 DEF Rested
<1>7. ASSUME NEW s \in Sides, NEW a \in Nat \ {0} PROVE RateOf(s, a)
  <2>1. InWindow(s, a) = {}
    BY <1>1 DEF InWindow
  <2>2. Batch(s) \in Nat \ {0} /\ Budget(s) = Batch(s)
    BY <1>1, Options DEF Budget
  <2>3. Room(s, a) \in Int /\ Room(s, a) <= Batch(s)
    <3>1. PaceInv
      BY <1>2, <1>5, <1>6 DEF PaceInv
    <3> QED
      BY <3>1, RoomBounds
  <2> QED
    BY <1>3, <1>4, <2>1, <2>2, <2>3 DEF RateOf, Load
<1> QED
  BY <1>2, <1>5, <1>6, <1>7 DEF PaceInv, RateInv

(* A second later the windows that end are over, and one begins: nothing   *)
(* has come in it yet, and what is on its way is paid for.                 *)
LEMMA RateTick ==
  ASSUME TimeInv, PaceInv, Tick, NEW s \in Sides, NEW a \in Nat \ {0}, RateOf(s, a)
  PROVE  RateOf(s, a)'
<1>1. now' = now + 1 /\ UNCHANGED <<vars, last_time, accepted_at>>
  BY DEF Tick
<1>2. /\ orders' = orders /\ inflight' = inflight /\ call' = call /\ faults' = faults
      /\ pc' = pc /\ side' = side /\ todo' = todo /\ count' = count
      /\ last_time' = last_time /\ accepted_at' = accepted_at
  BY <1>1 DEF vars, apivars, gridvars
<1> DEFINE n == Cardinality(InWindow(s, a))
           p == Cardinality(Pending(s))
           r == Room(s, a)
           b == Batch(s)
           m == Budget(s)
<1>3. InWindow(s, a)' = InWindow(s, a) /\ Pending(s)' = Pending(s)
  BY <1>2 DEF InWindow, Pending, Window
<1>4. Budget(s)' = m /\ Room(s, a)' = r
  BY <1>2 DEF Budget, Batch, Room, Busy, Returning
<1>5. Load(s, a)' = n + p + r /\ Load(s, a) = n + p + r
  BY <1>3, <1>4 DEF Load
<1>6. n \in Nat /\ p \in Nat /\ r \in Int /\ r <= b /\ b \in Nat \ {0} /\ p <= faults
      /\ faults \in Nat /\ now \in Nat /\ Window(s) \in Int
  BY CountedSets, RoomBounds, Options DEF PaceInv, LoopInv, OrderSides
<1>7. m \in Nat /\ b + faults <= m
  BY <1>6, BudgetGrows DEF Budget
<1>8. Now(s, a)' => Now(s, a) \/ now < a
  BY <1>1, <1>6 DEF Now, Window
<1>9. now < a => n = 0
  <2> SUFFICES ASSUME now < a PROVE n = 0
    OBVIOUS
  <2>1. \A j \in DOMAIN accepted_at : accepted_at[j] \in Int /\ accepted_at[j] <= now
    BY CountedSets DEF TimeInv, OrderTimes
  <2>2. InWindow(s, a) = {}
    BY <1>6, <2>1 DEF InWindow
  <2> QED
    BY <2>2, FS_EmptySet
<1>10. n <= m /\ (Now(s, a) => n + p + r <= m)
  BY <1>5 DEF RateOf
<1> HIDE DEF n, p, r, b, m
<1>11. Now(s, a)' => n + p + r <= m
  BY <1>6, <1>7, <1>8, <1>9, <1>10
<1>12. Cardinality(InWindow(s, a)') <= m /\ (Now(s, a)' => Load(s, a)' <= m)
  BY <1>3, <1>5, <1>10, <1>11 DEF n
<1> QED
  BY <1>4, <1>12 DEF RateOf

LEMMA PaceTick ==
  ASSUME TimeInv, PaceInv, Tick
  PROVE  PaceInv'
<1>1. now' = now + 1 /\ UNCHANGED <<vars, due, last_time, accepted_at>>
  BY DEF Tick
<1>2. /\ orders' = orders /\ inflight' = inflight /\ call' = call /\ faults' = faults
      /\ pc' = pc /\ side' = side /\ todo' = todo /\ count' = count /\ due' = due
      /\ last_time' = last_time /\ accepted_at' = accepted_at
  BY <1>1 DEF vars, apivars, gridvars
<1>3. now \in Nat \ {0}
  BY DEF PaceInv, LoopInv
<1>4. LoopInv'
  BY <1>1, <1>2, <1>3 DEF PaceInv, LoopInv, Busy, Batch
<1>5. OrderSides'
  BY <1>2 DEF PaceInv, OrderSides, Pending
<1>6. ASSUME NEW s \in Sides PROVE Rested(s)'
  BY <1>1, <1>2, <1>3, SecondsAssumption DEF PaceInv, LoopInv, Rested, Before
<1> QED
  BY <1>4, <1>5, <1>6 DEF PaceInv, Sides

LEMMA RateKept ==
  ASSUME IInv, TimeInv, PaceInv, RateInv, [PacedNext]_pacedvars
  PROVE  PaceInv' /\ RateInv'
<1>1. CASE PacedStep
  <2>1. PaceInv'
    BY <1>1, PaceStep
  <2>2. ASSUME NEW s \in Sides, NEW a \in Nat \ {0} PROVE RateOf(s, a)'
    <3>1. Pays(s, a)
      BY <1>1, <2>1, StayingPays, RestingPays
    <3>2. now' = now
      BY <1>1 DEF PacedStep, Keep
    <3>3. RateOf(s, a) /\ a \in Nat
      BY DEF RateInv
    <3> QED
      BY <2>1, <3>1, <3>2, <3>3, RateStep
  <2> QED
    BY <2>1, <2>2 DEF RateInv, Sides
<1>2. CASE Tick
  <2>1. PaceInv'
    BY <1>2, PaceTick
  <2>2. ASSUME NEW s \in Sides, NEW a \in Nat \ {0} PROVE RateOf(s, a)'
    <3>1. RateOf(s, a)
      BY DEF RateInv
    <3> QED
      BY <1>2, <3>1, RateTick
  <2> QED
    BY <2>1, <2>2 DEF RateInv, Sides
<1>3. CASE UNCHANGED pacedvars
  <2>1. /\ orders' = orders /\ inflight' = inflight /\ call' = call /\ faults' = faults
        /\ pc' = pc /\ side' = side /\ todo' = todo /\ count' = count /\ due' = due
        /\ last_time' = last_time /\ accepted_at' = accepted_at /\ now' = now
    BY <1>3 DEF pacedvars, clocks, vars, apivars, gridvars
  <2>2. LoopInv'
    BY <2>1 DEF PaceInv, LoopInv, Busy, Batch
  <2>3. OrderSides'
    BY <2>1 DEF PaceInv, OrderSides, Pending
  <2>4. \A s \in Sides : Rested(s)'
    BY <2>1 DEF PaceInv, Rested, Before
  <2>5. PaceInv'
    BY <2>2, <2>3, <2>4 DEF PaceInv, Sides
  <2>6. ASSUME NEW s \in Sides, NEW a \in Nat \ {0} PROVE RateOf(s, a)'
    <3>1. InWindow(s, a)' = InWindow(s, a) /\ Pending(s)' = Pending(s)
      BY <2>1 DEF InWindow, Pending, Window
    <3>2. Budget(s)' = Budget(s) /\ Room(s, a)' = Room(s, a) /\ Now(s, a)' = Now(s, a)
      BY <2>1 DEF Budget, Batch, Room, Busy, Returning, Now, Window
    <3>3. Load(s, a)' = Load(s, a)
      BY <3>1, <3>2 DEF Load
    <3>4. RateOf(s, a)
      BY DEF RateInv
    <3> QED
      BY <3>1, <3>2, <3>3, <3>4 DEF RateOf
  <2> QED
    BY <2>5, <2>6 DEF RateInv, Sides
<1> QED
  BY <1>1, <1>2, <1>3 DEF PacedNext

(* What has been accepted in any window of a side's cooldown, what is on   *)
(* its way to the exchange, and what the loop may yet place in it, fit the *)
(* batch of the side and one more for every failure.                       *)
THEOREM RateInvariance == PacedSpec => [](PaceInv /\ RateInv)
<1>1. PacedInit => PaceInv /\ RateInv
  BY PaceInit
<1>2. IInv /\ TimeInv /\ PaceInv /\ RateInv /\ [PacedNext]_pacedvars
      => (PaceInv /\ RateInv)'
  BY RateKept
<1> QED
  BY <1>1, <1>2, TimeInvariance, PTL DEF PacedSpec

(* The exchange accepts no more orders of a side within its cooldown than  *)
(* every_max_sale_counts or every_max_buy_counts, and as many again for    *)
(* every failure, whatever the segments, the quotes and the options,       *)
(* however many orders and failures, and whatever the database's clock.    *)
THEOREM RateIsLimited == PacedSpec => []RateLimited
<1>1. TimeInv /\ PaceInv /\ RateInv => RateLimited
  <2> SUFFICES ASSUME TimeInv, PaceInv, RateInv,
                      NEW s \in Sides, NEW i \in DOMAIN accepted_at
               PROVE  Cardinality(InWindow(s, accepted_at[i])) <= Budget(s)
    BY DEF RateLimited, InWindow, Budget
  <2>1. i \in DOMAIN orders
    BY CountedSets
  <2>2. accepted_at[i] \in Nat \ {0}
    BY <2>1 DEF TimeInv, OrderTimes, PaceInv, OrderSides
  <2> QED
    BY <2>2 DEF RateInv, RateOf
<1> QED
  BY <1>1, RateInvariance, TimeInvariance, PTL

=============================================================================

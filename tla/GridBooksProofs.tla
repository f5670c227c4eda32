---------------------------- MODULE GridBooksProofs ----------------------------
(***************************************************************************)
(* The books agree: what the database says of an order is what the         *)
(* exchange did, for every grid, every market and any number of failures;  *)
(* and what the segments sell and buy stays within what the books allow.   *)
(* The proofs about the two plugins on their own are used here as they     *)
(* are: the loop is shown to be a client of both.                          *)
(***************************************************************************)
EXTENDS GridTradeProofs, SumTheorems, FunctionTheorems

(* What the exchange can report of a closed order.                         *)
LegalResults == {res \in OrderResults : IsClosing(res)}

Rows == MaxOrders + MaxFaults

Client == INSTANCE TradeDbProofs WITH
  Results <- LegalResults, Numbers <- Nat, MaxSales <- Rows, MaxBuys <- Rows

Api == INSTANCE TradeApiProofs WITH Requests <- {}, MaxCalls <- 0

-----------------------------------------------------------------------------
(* The definitions of an instance are those of the module.                 *)

LEMMA SameStatuses ==
  /\ Client!order_processing = 0 /\ Api!order_processing = 0
  /\ Client!order_untrade_closed = 3 /\ Api!order_untrade_closed = 3
BY DEF Client!order_processing, Api!order_processing,
   Client!order_untrade_closed, Api!order_untrade_closed

LEMMA SameResults ==
  /\ Client!OrderResults = OrderResults /\ Api!OrderResults = OrderResults
  /\ \A res : Client!IsClosing(res) <=> IsClosing(res)
  /\ \A res : Api!IsClosing(res) <=> IsClosing(res)
BY SameStatuses DEF Client!OrderResults, Api!OrderResults, OrderResults,
   Client!IsClosing, Api!IsClosing, IsClosing, order_processing,
   order_untrade_closed

LEMMA SameStatus == \A i : Api!get_order_status(i) = get_order_status(i)
<1>1. \A state : Api!order_status(state) = order_status(state)
  BY DEF Api!order_status, order_status, Api!order_complet_closed,
     order_complet_closed, Api!order_portion_closed, order_portion_closed,
     Api!order_untrade_closed, order_untrade_closed, Api!order_processing,
     order_processing
<1> QED
  BY <1>1 DEF Api!get_order_status, get_order_status

LEMMA ClientAssumptions ==
  /\ Client!FeeIsFreeAssumption /\ Client!NaNAssumption
  /\ Client!ResultsAssumption /\ Client!NumbersAssumption
<1>1. Client!FeeIsFreeAssumption /\ Client!NaNAssumption /\ Client!NumbersAssumption
  BY FeeIsFreeAssumption, NaNAssumption 
<1>2. LegalResults \subseteq OrderResults /\ \A res \in LegalResults : IsClosing(res)
  BY DEF LegalResults
<1>3. LegalResults \subseteq Client!OrderResults /\ \A res \in LegalResults : Client!IsClosing(res)
  BY <1>2, SameResults
<1> QED
  BY <1>1, <1>3 

LEMMA ApiAssumptions ==
  /\ Api!FeeIsFreeAssumption /\ Api!NaNAssumption /\ Api!TickAssumption
  /\ Api!FeeAssumption /\ Api!GainsAssumption /\ Api!RequestsAssumption
BY FeeIsFreeAssumption, NaNAssumption, TickAssumption, FeeAssumption, GainsAssumption

(* What get_order_status says of a closed order can be delivered.          *)
LEMMA StatusIsLegal ==
  ASSUME Api!AInv, NEW i \in DOMAIN orders,
         get_order_status(i).status # order_processing
  PROVE  get_order_status(i) \in LegalResults
<1>1. Api!get_order_status(i).status # Api!order_processing
  BY SameStatus, SameStatuses DEF order_processing
<1>2. /\ Api!get_order_status(i) \in Api!OrderResults
      /\ Api!IsClosing(Api!get_order_status(i))
  BY <1>1, Api!ClosingResult, ApiAssumptions
<1> QED
  BY <1>2, SameStatus, SameResults DEF LegalResults

-----------------------------------------------------------------------------
(* The inductive invariant, on top of the loop's and the two plugins'.     *)

Labels == {"new_sale", "new_buy", "settle", "cancel", "deliver", "price",
           "sold", "scan", "call", "timer", "down"}

(* The locals of a round.                                                  *)
RoundInv ==
  /\ pc \in Labels /\ faults \in 0 .. MaxFaults
  /\ ~ (Settling \/ Placing) => todo = {}
  /\ Settling => todo \subseteq IF side = "sale" THEN sellings ELSE buyings
  /\ dealing_segs \subseteq Segs
  /\ price \in Quotes \cup {NoQuote} /\ depth \in Int /\ count \in Nat
  /\ sold_list = IF Placing THEN delivered_sale_array ELSE {}
  /\ IF pc = "deliver" THEN txn.op = side ELSE txn.op = "none"
  /\ call.step # "idle" <=> pc = "call"
  /\ pc = "call" => call.req.side = side

(* A row that is still to be settled is still open.                        *)
TodoInv ==
  /\ pc = "new_buy" => sellings \subseteq OpenSales
  /\ Settling /\ side = "sale" => /\ todo \subseteq OpenSales
                                  /\ buyings \subseteq OpenBuys
  /\ Settling /\ side = "buy" => todo \subseteq OpenBuys

(* Each row tells of an order of its own, which is not the one that is     *)
(* being placed.                                                           *)
RowsTell(rows, s) ==
  /\ \A i \in DOMAIN rows :
       /\ rows[i].order_id \in DOMAIN orders
       /\ orders[rows[i].order_id].side = s
       /\ orders[rows[i].order_id].seg = rows[i].seg_id
       /\ pc = "call" => orders[rows[i].order_id].cid # call.req.cid
  /\ \A i, j \in DOMAIN rows : rows[i].order_id = rows[j].order_id => i = j

RowsInv == RowsTell(db.sale_tx, "sale") /\ RowsTell(db.buy_tx, "buy")

(* What an open transaction delivers is what the exchange says of a closed *)
(* order, and will always say.                                             *)
DealInv ==
  /\ txn.op = "sale" =>
       LET res == get_order_status(db.sale_tx[txn.tx.id].order_id) IN
       /\ res.status # order_processing
       /\ txn.tx = complete_sale_order(txn.tx.id, res)
  /\ txn.op = "buy" =>
       LET res == get_order_status(db.buy_tx[txn.tx.id].order_id) IN
       /\ res.status # order_processing
       /\ txn.tx = complete_buy_order(txn.tx.id, res)

(* Orders that no row tells of: each has cost a failure, and so has each   *)
(* post on its way, but for the order that is just being recorded.         *)
Lost ==
  {o \in DOMAIN orders :
     /\ \A i \in DOMAIN db.sale_tx : db.sale_tx[i].order_id # o
     /\ \A i \in DOMAIN db.buy_tx : db.buy_tx[i].order_id # o}

Doing(step) == IF call.step = step THEN 1 ELSE 0

CountInv ==
  /\ Cardinality(Lost) + Cardinality(inflight) <= faults + Doing("done")
  /\ Len(orders) + Doing("post") + Cardinality(inflight) <= MaxOrders + faults

PluginsInv == Client!IInv /\ Client!WInv /\ Client!VInv /\ Api!AInv

BooksInv ==
  /\ PluginsInv
  /\ RoundInv /\ TodoInv /\ RowsInv /\ DealInv /\ CountInv
  /\ ClosedRowsAreFinal

-----------------------------------------------------------------------------
(* The loop is a client of the database.                                   *)

LEMMA SameDbInit == DbInit => Client!DbInit
BY DEF DbInit, Client!DbInit, NoTxn, Client!NoTxn

LEMMA SameUnspent ==
  /\ \A row : Client!Unspent(row) <=> Unspent(row)
  /\ Client!delivered_sale_array = delivered_sale_array
<1>1. \A row : Client!Unspent(row) <=> Unspent(row)
  BY DEF Unspent, Client!Unspent, db_tx_complet_closed,
     Client!db_tx_complet_closed, db_tx_portion_closed,
     Client!db_tx_portion_closed, db_tx_unused, Client!db_tx_unused,
     db_tx_portion_used, Client!db_tx_portion_used
<1> QED
  BY <1>1 DEF delivered_sale_array, Client!delivered_sale_array

LEMMA SameSpend ==
  \A row, remain : Client!Spend(row, remain) = Spend(row, remain)
BY DEF Spend, Client!Spend, UsedUp, Client!UsedUp, Quotient, Client!Quotient,
   db_tx_complet_used, Client!db_tx_complet_used, db_tx_portion_used,
   Client!db_tx_portion_used

LEMMA SameStatement == Statement => Client!Statement
<1>1. update_sale_tx => Client!update_sale_tx
  BY DEF update_sale_tx, Client!update_sale_tx, SqlNumber, Client!SqlNumber
<1>2. insert_sale_history => Client!insert_sale_history
  BY DEF insert_sale_history, Client!insert_sale_history, HistoryRow,
     Client!HistoryRow
<1>3. update_buy_tx => Client!update_buy_tx
  BY DEF update_buy_tx, Client!update_buy_tx
<1>4. insert_buy_history => Client!insert_buy_history
  BY DEF insert_buy_history, Client!insert_buy_history, HistoryRow,
     Client!HistoryRow, Spends, Client!Spends, db_tx_portion_closed,
     Client!db_tx_portion_closed, db_tx_complet_closed,
     Client!db_tx_complet_closed
<1>5. select_unspent => Client!select_unspent
  BY SameUnspent DEF select_unspent, Client!select_unspent
<1>6. use_sale_tx => Client!use_sale_tx
  BY SameSpend DEF use_sale_tx, Client!use_sale_tx, SqlNumber,
     Client!SqlNumber, StillToPay, Client!StillToPay
<1> QED
  BY <1>1, <1>2, <1>3, <1>4, <1>5, <1>6 DEF Statement, Client!Statement

LEMMA SameEnd == (Commit => Client!Commit) /\ (Rollback => Client!Rollback)
BY DEF Commit, Client!Commit, Rollback, Client!Rollback, NoTxn, Client!NoTxn

LEMMA SameBegin ==
  ASSUME NEW id, NEW res
  PROVE  /\ begin_deliver_sale(id, res) => Client!begin_deliver_sale(id, res)
         /\ begin_deliver_buy(id, res) => Client!begin_deliver_buy(id, res)
BY DEF begin_deliver_sale, Client!begin_deliver_sale, begin_deliver_buy,
   Client!begin_deliver_buy, NoTxn, Client!NoTxn, complete_sale_order,
   Client!complete_sale_order, complete_buy_order, Client!complete_buy_order,
   net_amount, Client!net_amount, charged_fee, Client!charged_fee, Quotient,
   Client!Quotient, db_tx_unused, Client!db_tx_unused

LEMMA SameInsert ==
  ASSUME NEW seg, NEW oid, NEW amount
  PROVE  /\ add_new_sale_tx(seg, oid) => Client!add_new_sale_tx(seg, oid)
         /\ add_new_buy_tx(seg, oid, amount)
              => Client!add_new_buy_tx(seg, oid, amount)
BY DEF add_new_sale_tx, Client!add_new_sale_tx, add_new_buy_tx,
   Client!add_new_buy_tx, NewSaleRow, Client!NewSaleRow, NewBuyRow,
   Client!NewBuyRow, db_tx_processing, Client!db_tx_processing, db_tx_unused,
   Client!db_tx_unused

LEMMA SameTables == Client!Tables = Tables
BY DEF Tables, Client!Tables, SaleRows, Client!SaleRows, BuyRows,
   Client!BuyRows, HistoryRows, Client!HistoryRows

(* What the client's invariant says of the rows.                           *)
LEMMA TypedRows ==
  ASSUME Client!IInv
  PROVE  /\ db \in Tables
         /\ \A i \in DOMAIN db.sale_tx : db.sale_tx[i] \in SaleRows
         /\ \A i \in DOMAIN db.buy_tx : db.buy_tx[i] \in BuyRows
         /\ \A i \in DOMAIN db.sale_tx : /\ ValidNumbers[i] \in Int
                                         /\ FreeAmounts[i] \in Nat
         /\ \A S : S \subseteq DOMAIN db.sale_tx => IsFiniteSet(S)
<1>1. db \in Tables
  BY SameTables DEF Client!IInv
<1>2. /\ \A i \in DOMAIN db.sale_tx : db.sale_tx[i] \in SaleRows
      /\ \A i \in DOMAIN db.buy_tx : db.buy_tx[i] \in BuyRows
      /\ Len(db.sale_tx) \in Nat /\ DOMAIN db.sale_tx = 1 .. Len(db.sale_tx)
  BY <1>1 DEF Tables
<1>3. ASSUME NEW i \in DOMAIN db.sale_tx
      PROVE  ValidNumbers[i] \in Int /\ FreeAmounts[i] \in Nat
  <2>1. Client!RowOK(db.sale_tx[i])
    BY DEF Client!IInv, Client!RowsOK
  <2>2. db.sale_tx[i].free_buy_amount \in Int /\ db.sale_tx[i].free_buy_amount >= 0
    BY <1>2, <2>1 DEF Client!RowOK, Client!Balanced, SaleRows
  <2>3. db.sale_tx[i].valid_sale_number \in Int
    BY <1>2 DEF SaleRows
  <2> QED
    BY <2>2, <2>3 DEF ValidNumbers, FreeAmounts
<1>4. ASSUME NEW S, S \subseteq DOMAIN db.sale_tx
      PROVE  IsFiniteSet(S)
  <2>1. IsFiniteSet(1 .. Len(db.sale_tx))
    BY <1>2, FS_Interval
  <2> QED
    BY <1>2, <1>4, <2>1, FS_Subset
<1> QED
  BY <1>1, <1>2, <1>3, <1>4

LEMMA SoldTyped ==
  ASSUME Client!IInv, sold_list \subseteq DOMAIN db.sale_tx, NEW s
  PROVE  get_sold_number(s) \in Int /\ get_free_amount(s) \in Nat
<1>1. /\ SoldIn(s) \subseteq DOMAIN db.sale_tx
      /\ IsFiniteSet(SoldIn(s))
  BY TypedRows DEF SoldIn
<1>2. \A i \in SoldIn(s) : ValidNumbers[i] \in Int
  BY <1>1, TypedRows
<1>3. \A i \in SoldIn(s) : FreeAmounts[i] \in Nat
  BY <1>1, TypedRows
<1> QED
  BY <1>1, <1>2, <1>3, SumInt, SumNat DEF get_sold_number, get_free_amount

LEMMA TypedOrders ==
  ASSUME Api!AInv
  PROVE  /\ orders \in Seq(Api!Book)
         /\ Len(orders) \in Nat /\ DOMAIN orders = 1 .. Len(orders)
         /\ \A i \in DOMAIN orders : orders[i] \in Api!Book
         /\ IsFiniteSet(inflight) /\ Cardinality(inflight) \in Nat
<1>1. orders \in Seq(Api!Book) /\ IsFiniteSet(inflight)
  BY DEF Api!AInv, Api!BookInv, Api!IsFiniteSet, IsFiniteSet
<1>2. Len(orders) \in Nat /\ DOMAIN orders = 1 .. Len(orders)
      /\ \A i \in DOMAIN orders : orders[i] \in Api!Book
  BY <1>1
<1> QED
  BY <1>1, <1>2, FS_CardinalityType

(* A table with a row for each of some orders is shorter than the book.    *)
LEMMA FewRows ==
  ASSUME NEW rows, Len(rows) \in Nat, DOMAIN rows = 1 .. Len(rows),
         NEW n \in Nat, NEW o \in 1 .. n,
         \A i \in DOMAIN rows : /\ rows[i].order_id \in 1 .. n
                                /\ rows[i].order_id # o,
         \A i, j \in DOMAIN rows : rows[i].order_id = rows[j].order_id => i = j
  PROVE  Len(rows) < n
<1> DEFINE T == (1 .. n) \ {o}
           f == [i \in 1 .. Len(rows) |-> rows[i].order_id]
<1>1. f \in Injection(1 .. Len(rows), T)
  BY DEF Injection, IsInjective
<1>2. IsFiniteSet(1 .. n) /\ Cardinality(1 .. n) = n
  BY FS_Interval
<1>3. IsFiniteSet(T) /\ Cardinality(T) = n - 1
  BY <1>2, FS_RemoveElement
<1>4. Cardinality(1 .. Len(rows)) = Len(rows)
  BY FS_Interval
<1> HIDE DEF T, f
<1>5. Cardinality(1 .. Len(rows)) <= Cardinality(T)
  BY <1>1, <1>3, FS_Injection
<1> QED
  BY <1>3, <1>4, <1>5

(* The order that is being recorded has no row yet.                        *)
LEMMA NotTold ==
  ASSUME BooksInv, pc = "call", call.step = "done"
  PROVE  /\ call.id \in DOMAIN orders /\ Api!IsOf(orders[call.id], call.req)
         /\ \A i \in DOMAIN db.sale_tx : db.sale_tx[i].order_id # call.id
         /\ \A i \in DOMAIN db.buy_tx : db.buy_tx[i].order_id # call.id
<1>1. /\ call.id \in DOMAIN orders /\ Api!IsOf(orders[call.id], call.req)
      /\ orders[call.id].cid = call.req.cid
  BY DEF BooksInv, PluginsInv, Api!AInv, Api!CallInv, Api!IsOf
<1> QED
  BY <1>1 DEF BooksInv, RowsInv, RowsTell

LEMMA OrdersBounded ==
  ASSUME BooksInv
  PROVE  Len(orders) \in 0 .. Rows /\ DOMAIN orders = 1 .. Len(orders)
<1>1. /\ Len(orders) \in Nat /\ DOMAIN orders = 1 .. Len(orders)
      /\ Cardinality(inflight) \in Nat
  BY TypedOrders DEF BooksInv, PluginsInv
<1>2. /\ Doing("post") \in Nat
      /\ Len(orders) + Doing("post") + Cardinality(inflight) <= MaxOrders + faults
      /\ faults \in 0 .. MaxFaults
  BY DEF BooksInv, CountInv, RoundInv, Doing
<1> QED
  BY <1>1, <1>2, BoundsAssumption DEF Rows

LEMMA InsertByClient ==
  ASSUME IInv, BooksInv, pc = "call", call.step = "done", InsertRow
  PROVE  Client!DbNext
<1> DEFINE s == call.req.seg
<1>1. /\ call.id \in DOMAIN orders
      /\ \A i \in DOMAIN db.sale_tx : db.sale_tx[i].order_id # call.id
      /\ \A i \in DOMAIN db.buy_tx : db.buy_tx[i].order_id # call.id
  BY NotTold
<1>2. Len(orders) \in 0 .. Rows /\ DOMAIN orders = 1 .. Len(orders)
  BY OrdersBounded
<1>3. call.id \in OrderIds /\ s \in Segs
  BY <1>1, <1>2, BoundsAssumption DEF Rows, IInv, CallInv
<1>4. Client!Fresh(call.id)
  BY <1>1 DEF Client!Fresh
<1>5. Len(db.sale_tx) < Rows /\ Len(db.buy_tx) < Rows
  <2>1. /\ Len(db.sale_tx) \in Nat /\ DOMAIN db.sale_tx = 1 .. Len(db.sale_tx)
        /\ Len(db.buy_tx) \in Nat /\ DOMAIN db.buy_tx = 1 .. Len(db.buy_tx)
    BY DEF IInv, DbInv, DbShape, IsTable
  <2>2. /\ \A i \in DOMAIN db.sale_tx : db.sale_tx[i].order_id \in 1 .. Len(orders)
        /\ \A i, j \in DOMAIN db.sale_tx :
             db.sale_tx[i].order_id = db.sale_tx[j].order_id => i = j
        /\ \A i \in DOMAIN db.buy_tx : db.buy_tx[i].order_id \in 1 .. Len(orders)
        /\ \A i, j \in DOMAIN db.buy_tx :
             db.buy_tx[i].order_id = db.buy_tx[j].order_id => i = j
    BY <1>2 DEF BooksInv, RowsInv, RowsTell
  <2> DEFINE n == Len(orders)
             o == call.id
  <2>0. n \in Nat /\ o \in 1 .. n
    BY <1>1, <1>2
  <2>3. Len(db.sale_tx) < n
    <3> DEFINE rows == db.sale_tx
    <3>1. \A i \in DOMAIN rows : /\ rows[i].order_id \in 1 .. n
                                 /\ rows[i].order_id # o
      BY <1>1, <2>2
    <3>2. Len(rows) \in Nat /\ DOMAIN rows = 1 .. Len(rows)
      BY <2>1
    <3>3. \A i, j \in DOMAIN rows : rows[i].order_id = rows[j].order_id => i = j
      BY <2>2
    <3> HIDE DEF n, o, rows
    <3>4. Len(rows) < n
      BY <2>0, <3>1, <3>2, <3>3, FewRows
    <3> QED
      BY <3>4 DEF rows
  <2>4. Len(db.buy_tx) < n
    <3> DEFINE rows == db.buy_tx
    <3>1. \A i \in DOMAIN rows : /\ rows[i].order_id \in 1 .. n
                                 /\ rows[i].order_id # o
      BY <1>1, <2>2
    <3>2. Len(rows) \in Nat /\ DOMAIN rows = 1 .. Len(rows)
      BY <2>1
    <3>3. \A i, j \in DOMAIN rows : rows[i].order_id = rows[j].order_id => i = j
      BY <2>2
    <3> HIDE DEF n, o, rows
    <3>4. Len(rows) < n
      BY <2>0, <3>1, <3>2, <3>3, FewRows
    <3> QED
      BY <3>4 DEF rows
  <2> QED
    BY <1>2, <2>1, <2>3, <2>4, BoundsAssumption DEF Rows
<1>6. CASE side = "sale"
  <2>1. add_new_sale_tx(s, call.id)
    BY <1>6 DEF InsertRow
  <2>2. Client!add_new_sale_tx(s, call.id)
    BY <2>1, SameInsert
  <2>3. Client!NewSale
    BY <1>3, <1>4, <1>5, <2>2 DEF Client!NewSale
  <2> QED
    BY <2>3 DEF Client!DbNext
<1>7. CASE side # "sale"
  <2>1. add_new_buy_tx(s, call.id, get_free_amount(s))
    BY <1>7 DEF InsertRow
  <2>2. get_free_amount(s) \in Nat
    <3>1. sold_list \subseteq DOMAIN db.sale_tx
      BY DEF BooksInv, RoundInv, Placing, delivered_sale_array
    <3> QED
      BY <3>1, SoldTyped DEF BooksInv, PluginsInv
  <2>3. Client!add_new_buy_tx(s, call.id, get_free_amount(s))
    BY <2>1, SameInsert
  <2>4. Client!NewBuy
    BY <1>3, <1>4, <1>5, <2>2, <2>3 DEF Client!NewBuy
  <2> QED
    BY <2>4 DEF Client!DbNext
<1> QED
  BY <1>6, <1>7

(* A closing of a row that is read as open, with what the exchange says.   *)
LEMMA CloseByClient ==
  ASSUME IInv, BooksInv, SettleClosed
  PROVE  /\ Client!DbNext /\ UNCHANGED <<db, work>>
         /\ txn'.op = side
         /\ txn'.op = "sale" =>
              LET res == get_order_status(db.sale_tx[txn'.tx.id].order_id) IN
              /\ res.status # order_processing
              /\ txn'.tx = complete_sale_order(txn'.tx.id, res)
         /\ txn'.op = "buy" =>
              LET res == get_order_status(db.buy_tx[txn'.tx.id].order_id) IN
              /\ res.status # order_processing
              /\ txn'.tx = complete_buy_order(txn'.tx.id, res)
<1>1. PICK i \in todo :
        /\ get_order_status(Table[i].order_id).status # order_processing
        /\ IF side = "sale"
           THEN begin_deliver_sale(i, get_order_status(Table[i].order_id))
           ELSE begin_deliver_buy(i, get_order_status(Table[i].order_id))
  BY DEF SettleClosed
<1> DEFINE res == get_order_status(Table[i].order_id)
<1>2. pc = "settle" /\ side \in {"sale", "buy"}
  BY DEF SettleClosed, IInv, ListInv, Sides
<1>3. IF side = "sale" THEN i \in OpenSales ELSE i \in OpenBuys
  BY <1>2 DEF BooksInv, TodoInv, Settling
<1>4. Table[i].order_id \in DOMAIN orders
  BY <1>2, <1>3 DEF Table, BooksInv, RowsInv, RowsTell, OpenSales, OpenBuys
<1>5. res \in LegalResults
  BY <1>1, <1>4, StatusIsLegal DEF BooksInv, PluginsInv
<1>6. CASE side = "sale"
  <2>1. begin_deliver_sale(i, res) /\ Table = db.sale_tx
    BY <1>1, <1>6 DEF Table
  <2>2. i \in Client!new_sale_array
    <3>1. i \in DOMAIN db.sale_tx /\ db.sale_tx[i].status = db_tx_processing
      BY <1>3, <1>6 DEF OpenSales
    <3>2. db.sale_tx[i].use_status = db_tx_unused
      BY <3>1 DEF IInv, DbInv, DbShape, SaleShape
    <3> QED
      BY <3>1, <3>2 DEF Client!new_sale_array, Client!db_tx_processing,
         db_tx_processing, Client!db_tx_unused, db_tx_unused
  <2>3. Client!CloseSale
    BY <1>5, <2>1, <2>2, SameBegin DEF Client!CloseSale
  <2>4. /\ txn'.op = "sale" /\ txn'.tx = complete_sale_order(i, res)
        /\ UNCHANGED <<db, work>>
    BY <2>1 DEF begin_deliver_sale, NoTxn
  <2>5. txn'.tx.id = i
    BY <2>4 DEF complete_sale_order
  <2> QED
    BY <1>1, <1>6, <2>1, <2>3, <2>4, <2>5 DEF Client!DbNext
<1>7. CASE side = "buy"
  <2>1. begin_deliver_buy(i, res) /\ Table = db.buy_tx
    BY <1>1, <1>7 DEF Table
  <2>2. i \in Client!new_buy_array
    BY <1>3, <1>7 DEF OpenBuys, Client!new_buy_array,
       Client!db_tx_processing, db_tx_processing
  <2>3. Client!CloseBuy
    BY <1>5, <2>1, <2>2, SameBegin DEF Client!CloseBuy
  <2>4. /\ txn'.op = "buy" /\ txn'.tx = complete_buy_order(i, res)
        /\ UNCHANGED <<db, work>>
    BY <2>1 DEF begin_deliver_buy, NoTxn
  <2>5. txn'.tx.id = i
    BY <2>4 DEF complete_buy_order
  <2> QED
    BY <1>1, <1>7, <2>1, <2>3, <2>4, <2>5 DEF Client!DbNext
<1> QED
  BY <1>2, <1>6, <1>7

-----------------------------------------------------------------------------
(* The loop is a client of the exchange.                                   *)

LEMMA SameApiInit == ApiInit => Api!ApiInit
BY DEF ApiInit, Api!ApiInit, Idle, Api!Idle, NoRequest, Api!NoRequest

LEMMA SameFreshCid == Api!FreshCid = FreshCid
<1>1. Api!Cardinality(inflight) = Cardinality(inflight)
  BY DEF Cardinality, Api!Cardinality
<1> QED
  BY <1>1 DEF FreshCid, Api!FreshCid

LEMMA SameNewOrder ==
  ASSUME NEW s, NEW seg, NEW num, NEW den, NEW p, new_order(s, seg, num, den, p)
  PROVE  Api!new_order(s, seg, num, den, p)
BY SameFreshCid DEF new_order, Api!new_order, Fmt4, Api!Fmt4

LEMMA SameAccept == ASSUME NEW req, Accept(req) PROVE Api!Accept(req)
BY DEF Accept, Api!Accept

LEMMA SameCallStep == CallStep => Api!NewOrderStep
<1>1. PostAnswered => Api!PostAnswered
  BY SameAccept DEF PostAnswered, Api!PostAnswered, Return, Api!Return
<1>2. PostLeft => Api!PostLeft
  BY SameAccept DEF PostLeft, Api!PostLeft
<1>3. PostRefused => Api!PostRefused
  BY DEF PostRefused, Api!PostRefused, Throw, Api!Throw
<1>4. PostUnreadable => Api!PostUnreadable
  BY <1>2 DEF PostUnreadable, Api!PostUnreadable, Throw, Api!Throw
<1>5. PostUnanswered => Api!PostUnanswered
  BY <1>2 DEF PostUnanswered, Api!PostUnanswered
<1>6. AskFound => Api!AskFound
  BY DEF AskFound, Api!AskFound, Placed, Api!Placed, Return, Api!Return
<1>7. AskNotFound => Api!AskNotFound
  BY DEF AskNotFound, Api!AskNotFound, Placed, Api!Placed, Throw, Api!Throw
<1>8. AskUnanswered => Api!AskUnanswered
  BY DEF AskUnanswered, Api!AskUnanswered, Throw, Api!Throw
<1> QED
  BY <1>1, <1>3, <1>4, <1>5, <1>6, <1>7, <1>8 DEF CallStep, Api!NewOrderStep

LEMMA SameLate ==
  ASSUME NEW req
  PROVE  /\ ArriveLate(req) => Api!ArriveLate(req)
         /\ DropLate(req) => Api!DropLate(req)
BY SameAccept DEF ArriveLate, Api!ArriveLate, DropLate, Api!DropLate

(* The steps by what they do to the exchange and to the call.              *)
OrderMoves ==
  /\ \/ FillStep
     \/ \E i \in DOMAIN orders : FinishCancel(i) \/ CancelAccepted(i)

Ending == CallThrows \/ Insert \/ InsertFails \/ Crash

CallEnds ==
  /\ call' = Idle /\ orders' = orders
  /\ inflight' = IF call.step = "post" THEN inflight \cup {call.req}
                                       ELSE inflight

Late == \E req \in inflight : ArriveLate(req) \/ DropLate(req)

LEMMA TodoOrder ==
  ASSUME IInv, BooksInv, Settling, NEW i \in todo
  PROVE  Table[i].order_id \in DOMAIN orders
<1>1. side \in {"sale", "buy"}
  BY DEF IInv, ListInv, Sides
<1>2. IF side = "sale" THEN i \in OpenSales ELSE i \in OpenBuys
  BY <1>1 DEF BooksInv, TodoInv
<1> QED
  BY <1>1, <1>2 DEF Table, BooksInv, RowsInv, RowsTell, OpenSales, OpenBuys

LEMMA ApiSteps ==
  ASSUME IInv, BooksInv, [Next]_vars
  PROVE  \/ UNCHANGED apivars
         \/ OrderMoves
         \/ CallStep
         \/ PlaceSale \/ PlaceBuy
         \/ Ending
         \/ Late
<1>1. CASE Cancel \/ CancelFails
  <2>1. /\ Settling
        /\ UNCHANGED apivars \/ \E i \in todo : CancelAccepted(Table[i].order_id)
    BY <1>1 DEF Cancel, CancelFails, Settling
  <2> QED
    BY <2>1, TodoOrder DEF OrderMoves
<1>2. CASE Exchange
  BY <1>2 DEF Exchange, OrderMoves, Late
<1>3. CASE CallThrows \/ Insert \/ InsertFails \/ Crash
  BY <1>3 DEF Ending
<1>4. CASE CallStep \/ PlaceSale \/ PlaceBuy
  BY <1>4
<1>5. CASE \/ GetNewSales \/ GetNewBuys \/ BuyList
           \/ SettleClosed \/ SettleOpen \/ SettleExpired \/ CancelThrows
           \/ Deliver \/ Delivered \/ NotDeliverable
           \/ DealingSegs \/ Asleep \/ QueryPrice \/ GetSold
           \/ StartBuying \/ EndRound \/ Timer \/ Restart
           \/ QueryFails \/ SettleFails \/ DeliverFails \/ PriceFails
           \/ UNCHANGED vars
  BY <1>5 DEF GetNewSales, GetNewBuys, BuyList, SettleClosed, SettleOpen,
     SettleExpired, CancelThrows, CancelRefused, Deliver, Delivered,
     NotDeliverable, DealingSegs, Asleep, QueryPrice, GetSold, StartBuying,
     EndRound, Timer, Restart, QueryFails, SettleFails, DeliverFails,
     PriceFails, vars
<1> QED
  BY <1>1, <1>2, <1>3, <1>4, <1>5 DEF Next, Round, Failure

(* The orders of the book stay; what is closed does not change.            *)
KeptAs(o, r) ==
  /\ r.cid = o.cid /\ r.side = o.side /\ r.seg = o.seg /\ r.number = o.number
  /\ o.deals <= r.deals
  /\ o.state \notin Working => r = o

OrdersKept ==
  /\ DOMAIN orders \subseteq DOMAIN orders'
  /\ \A i \in DOMAIN orders : KeptAs(orders[i], orders'[i])

LEMMA SameOrdersKept ==
  ASSUME Api!AInv, orders' = orders
  PROVE  OrdersKept
<1>1. \A i \in DOMAIN orders : orders[i].deals \in Nat
  BY TypedOrders DEF Api!Book
<1> QED
  BY <1>1 DEF OrdersKept, KeptAs

LEMMA MovesSafe ==
  ASSUME IInv, BooksInv, OrderMoves
  PROVE  /\ Api!AInv' /\ OrdersKept /\ DOMAIN orders' = DOMAIN orders
         /\ UNCHANGED <<inflight, call>>
<1>1. Api!AInv
  BY DEF BooksInv, PluginsInv
<1>2. Api!Moves /\ UNCHANGED <<inflight, call>>
  <2>1. CASE FillStep
    <3>1. PICK i \in DOMAIN orders, gain \in Gains :
            \E n \in 1 .. (orders[i].number - orders[i].deals) : Fill(i, n, gain)
      BY <2>1 DEF FillStep
    <3>2. PICK n \in 1 .. (orders[i].number - orders[i].deals) : Fill(i, n, gain)
      BY <3>1
    <3>3. Api!Fill(i, n, gain)
      BY <3>2 DEF Fill, Api!Fill, IsWorking, Api!IsWorking, Working,
         Api!Working, DealPrice, Api!DealPrice
    <3>4. n \in 1 .. orders[i].number
      BY <1>1, <3>2, TypedOrders DEF Api!Book
    <3>5. Api!Moves
      BY <1>1, <3>3, <3>4, Api!FillMoves, ApiAssumptions
    <3> QED
      BY <3>2, <3>5 DEF Fill
  <2>2. CASE \E i \in DOMAIN orders : CancelAccepted(i)
    <3>1. PICK i \in DOMAIN orders : CancelAccepted(i)
      BY <2>2
    <3>2. /\ orders[i].state \in Api!Working
          /\ orders' = [orders EXCEPT ![i].state = "canceling"]
          /\ UNCHANGED <<inflight, call>>
      BY <3>1 DEF CancelAccepted, IsWorking, Working, Api!Working
    <3>3. "canceling" \in Api!Working \cup {"partial-canceled", "canceled"}
      BY DEF Api!Working
    <3>4. Api!Moves
      BY <1>1, <3>2, <3>3, Api!StateMoves, ApiAssumptions
    <3> QED
      BY <3>2, <3>4
  <2>3. CASE \E i \in DOMAIN orders : FinishCancel(i)
    <3>1. PICK i \in DOMAIN orders : FinishCancel(i)
      BY <2>3
    <3>2. /\ orders[i].state \in Api!Working
          /\ UNCHANGED <<inflight, call>>
      BY <3>1 DEF FinishCancel, Api!Working
    <3>3. PICK state \in {"partial-canceled", "canceled"} :
            /\ orders' = [orders EXCEPT ![i].state = state]
            /\ state = "partial-canceled" => orders[i].deals > 0
            /\ state = "canceled" => ~ (orders[i].deals > 0)
      BY <3>1 DEF FinishCancel
    <3>4. state \in Api!Working \cup {"partial-canceled", "canceled"}
      BY <3>3
    <3>5. Api!Moves
      BY <1>1, <3>2, <3>3, <3>4, Api!StateMoves, ApiAssumptions
    <3> QED
      BY <3>2, <3>5
  <2> QED
    BY <2>1, <2>2, <2>3 DEF OrderMoves
<1>3. Api!AInv'
  BY <1>1, <1>2, Api!MoveSafe, ApiAssumptions
<1>4. /\ DOMAIN orders' = DOMAIN orders
      /\ \A j \in DOMAIN orders :
           /\ orders'[j].cid = orders[j].cid
           /\ orders'[j].number = orders[j].number
           /\ orders[j].deals <= orders'[j].deals
           /\ \A req : Api!IsOf(orders[j], req) => Api!IsOf(orders'[j], req)
           /\ orders[j].state \notin Api!Working => orders'[j] = orders[j]
  BY <1>1, <1>2, Api!Moved, ApiAssumptions
<1>5. ASSUME NEW j \in DOMAIN orders
      PROVE  KeptAs(orders[j], orders'[j])
  <2>1. Api!IsOf(orders'[j], orders[j])
    BY <1>4 DEF Api!IsOf
  <2> QED
    BY <1>4, <2>1 DEF Api!IsOf, KeptAs, Working, Api!Working
<1> QED
  BY <1>2, <1>3, <1>4, <1>5 DEF OrdersKept

(* A post reaches the exchange.                                            *)
LEMMA AcceptKeeps ==
  ASSUME Api!AInv, NEW req, Accept(req)
  PROVE  /\ OrdersKept
         /\ DOMAIN orders' = DOMAIN orders \cup {Len(orders) + 1}
         /\ Len(orders) + 1 \notin DOMAIN orders
         /\ Len(orders') = Len(orders) + 1
<1>1. /\ orders \in Seq(Api!Book) /\ Len(orders) \in Nat
      /\ DOMAIN orders = 1 .. Len(orders)
      /\ \A i \in DOMAIN orders : orders[i].deals \in Nat
  BY TypedOrders DEF Api!Book
<1>2. PICK r : orders' = Append(orders, r)
  BY DEF Accept
<1> DEFINE S == Api!Book \cup {r}
<1>3. orders \in Seq(S) /\ r \in S
  BY <1>1
<1> HIDE DEF S
<1>4. /\ Len(orders') = Len(orders) + 1
      /\ orders' \in Seq(S)
      /\ \A i \in 1 .. Len(orders) : orders'[i] = orders[i]
  BY <1>2, <1>3, AppendProperties
<1>5. DOMAIN orders' = 1 .. Len(orders) + 1
  BY <1>1, <1>4
<1>6. \A i \in DOMAIN orders : orders'[i] = orders[i]
  BY <1>1, <1>4
<1> QED
  BY <1>1, <1>4, <1>5, <1>6 DEF OrdersKept, KeptAs

(* The prices of the round's orders.                                       *)
LEMMA PricesTyped ==
  ASSUME price \in Quotes
  PROVE  sale_price \in Nat /\ buy_price \in Nat \ {0}
<1> DEFINE bid == price.bid
           ask == price.ask
<1>1. bid \in Nat /\ ask \in Nat \ {0}
  BY QuotesAssumption
<1>2. ASSUME NEW p \in Nat
      PROVE  premium(p) \in Nat /\ premium(p) <= p
  <2>1. PremiumPermille \in Nat /\ PremiumPermille <= 1000
    BY OptionsAssumption
  <2>2. p * PremiumPermille \in Nat /\ p * PremiumPermille <= p * 1000
    BY <1>2, <2>1
  <2> DEFINE x == p * PremiumPermille
  <2> HIDE DEF x
  <2>3. x \in Nat /\ x <= p * 1000
    BY <2>2 DEF x
  <2>4. x \div 1000 \in Nat /\ x \div 1000 <= p
    BY <1>2, <2>3
  <2> QED
    BY <2>4 DEF premium, x
<1>3. premium(bid) \in Nat /\ premium(bid) <= bid /\ premium(ask) \in Nat
  BY <1>1, <1>2
<1> QED
  BY <1>1, <1>3 DEF sale_price, buy_price

(* The loop asks for an order in a segment.                                *)
LEMMA Places ==
  ASSUME IInv, BooksInv, PlaceSale \/ PlaceBuy
  PROVE  /\ \E s \in Segs :
              /\ IF side = "sale"
                 THEN /\ new_sale_num(s) \in Nat
                      /\ new_order("sale", s, new_sale_num(s), 1, sale_price)
                      /\ depth' = depth - new_sale_num(s)
                 ELSE /\ new_order("buy", s, get_free_amount(s), buy_price, buy_price)
                      /\ depth' = depth - get_free_amount(s)
         /\ todo' \subseteq todo /\ pc = "scan" /\ pc' = "call"
         /\ price \in Quotes /\ todo \subseteq Segs
         /\ sold_list = delivered_sale_array
         /\ \A s : get_sold_number(s) \in Int /\ get_free_amount(s) \in Nat
         /\ UNCHANGED <<side, sellings, buyings, dealing_segs, price, sold_list,
                        count, dbvars, faults>>
         /\ Len(orders) < MaxOrders
<1>1. pc = "scan" /\ pc' = "call" /\ Placing
  BY DEF PlaceSale, PlaceBuy, Placing
<1>2. price \in Quotes /\ todo \subseteq Segs
  BY <1>1 DEF IInv, CallInv
<1>3. /\ UNCHANGED <<side, sellings, buyings, dealing_segs, price, sold_list,
                     count, dbvars, faults>>
      /\ todo' \subseteq todo /\ Len(orders) < MaxOrders
  BY DEF PlaceSale, PlaceBuy, NoFault
<1>4. /\ sold_list = delivered_sale_array
      /\ sold_list \subseteq DOMAIN db.sale_tx
  BY <1>1 DEF BooksInv, RoundInv, delivered_sale_array
<1>5. \A s : get_sold_number(s) \in Int /\ get_free_amount(s) \in Nat
  BY <1>4, SoldTyped DEF BooksInv, PluginsInv
<1>6. CASE PlaceSale
  <2>1. PICK s \in Sellable :
          /\ new_order("sale", s, new_sale_num(s), 1, sale_price)
          /\ depth' = depth - new_sale_num(s)
    BY <1>6 DEF PlaceSale
  <2>2. s \in Segs /\ new_sale_num(s) > 0 /\ side = "sale"
    BY <1>2, <1>6 DEF Sellable, PlaceSale
  <2>3. SaleNumber[s] \in Nat /\ get_sold_number(s) \in Int
    BY <1>5, <2>2, TacticsAssumption
  <2>4. new_sale_num(s) \in Nat
    BY <2>2, <2>3 DEF new_sale_num
  <2> QED
    BY <1>1, <1>2, <1>3, <1>4, <1>5, <2>1, <2>2, <2>4
<1>7. CASE PlaceBuy
  <2>1. PICK s \in Buyable :
          /\ new_order("buy", s, get_free_amount(s), buy_price, buy_price)
          /\ depth' = depth - get_free_amount(s)
    BY <1>7 DEF PlaceBuy
  <2>2. s \in Segs /\ side = "buy"
    BY <1>2, <1>7 DEF Buyable, PlaceBuy
  <2> QED
    BY <1>1, <1>2, <1>3, <1>4, <1>5, <2>1, <2>2
<1> QED
  BY <1>6, <1>7

LEMMA PlacesSafe ==
  ASSUME IInv, BooksInv, PlaceSale \/ PlaceBuy
  PROVE  /\ Api!AInv' /\ UNCHANGED <<orders, inflight>>
         /\ call'.step = "post" /\ call'.req.side = side
         /\ \A i \in DOMAIN orders : orders[i].cid # call'.req.cid
         /\ side = "sale" =>
              call'.req.number \in Fmt4(new_sale_num(call'.req.seg), 1, NumTick)
<1>1. Api!AInv
  BY DEF BooksInv, PluginsInv
<1>2. PICK s \in Segs :
        IF side = "sale"
        THEN /\ new_sale_num(s) \in Nat
             /\ new_order("sale", s, new_sale_num(s), 1, sale_price)
        ELSE new_order("buy", s, get_free_amount(s), buy_price, buy_price)
  BY Places
<1>3. /\ sale_price \in Nat /\ buy_price \in Nat /\ buy_price \in Nat \ {0}
      /\ 1 \in Nat \ {0} /\ s \in Int
      /\ get_free_amount(s) \in Nat
  BY Places, PricesTyped, TacticsAssumption
<1>4. "sale" \in Api!Sides /\ "buy" \in Api!Sides /\ side \in {"sale", "buy"}
  BY DEF Api!Sides, IInv, ListInv, Sides
<1>5. \A num, den, tick : Api!Fmt4(num, den, tick) = Fmt4(num, den, tick)
  BY DEF Api!Fmt4, Fmt4
<1>6. CASE side = "sale"
  <2>1. Api!new_order("sale", s, new_sale_num(s), 1, sale_price)
    BY <1>2, <1>6, SameNewOrder
  <2>2. /\ Api!AInv'
        /\ call'.step = "post" /\ call'.req.side = "sale" /\ call'.req.seg = s
        /\ call'.req.number \in Api!Fmt4(new_sale_num(s), 1, NumTick)
        /\ \A i \in DOMAIN orders : orders[i].cid # call'.req.cid
        /\ UNCHANGED <<orders, inflight>>
    BY <1>1, <1>2, <1>3, <1>4, <1>6, <2>1, Api!BeginCallSafe, ApiAssumptions
  <2> QED
    BY <1>5, <1>6, <2>2
<1>7. CASE side = "buy"
  <2>1. Api!new_order("buy", s, get_free_amount(s), buy_price, buy_price)
    BY <1>2, <1>7, SameNewOrder
  <2>2. /\ Api!AInv'
        /\ call'.step = "post" /\ call'.req.side = "buy"
        /\ \A i \in DOMAIN orders : orders[i].cid # call'.req.cid
        /\ UNCHANGED <<orders, inflight>>
    BY <1>1, <1>3, <1>4, <2>1, Api!BeginCallSafe, ApiAssumptions
  <2> QED
    BY <1>7, <2>2
<1> QED
  BY <1>4, <1>6, <1>7

LEMMA EndingEnds == Ending => CallEnds
BY DEF Ending, CallThrows, Insert, InsertFails, Crash, EndCall, CallEnds

(* A step of the call in progress: the exchange takes the post, the post    *)
(* stays on its way, or the call is over.                                  *)
PostTaken ==
  /\ call.step = "post" /\ Accept(call.req) /\ inflight' = inflight
  /\ \/ call'.step = "done"
     \/ call'.step \in {"ask", "throw"} /\ faults' = faults + 1

PostPending ==
  /\ call.step = "post" /\ orders' = orders
  /\ inflight' = inflight \cup {call.req}
  /\ call'.step \in {"ask", "throw"} /\ faults' = faults + 1

CallOver ==
  /\ UNCHANGED <<orders, inflight>>
  /\ call.step \in {"post", "ask"} /\ call'.step \in {"done", "throw"}

LEMMA CallStepEffect ==
  ASSUME IInv, BooksInv, CallStep
  PROVE  /\ Api!AInv' /\ OrdersKept /\ call'.req = call.req
         /\ pc = "call" /\ UNCHANGED <<pc, gridvars, dbvars>>
         /\ faults' \in {faults, faults + 1}
         /\ PostTaken \/ PostPending \/ CallOver
<1>1. Api!AInv
  BY DEF BooksInv, PluginsInv
<1>2. Api!AInv'
  BY <1>1, SameCallStep, Api!NewOrderSafe, ApiAssumptions
<1>3. /\ pc = "call" /\ UNCHANGED <<pc, gridvars, dbvars>>
      /\ faults' \in {faults, faults + 1}
  BY DEF CallStep, Fault, NoFault
<1>4. call = [step |-> call.step, req |-> call.req, id |-> call.id]
  BY <1>3 DEF IInv, CallInv
<1>5. ASSUME Throw PROVE call'.req = call.req /\ call'.step = "throw"
  BY <1>4, <1>5 DEF Throw
<1>6. ASSUME NEW id, Return(id) PROVE call'.req = call.req /\ call'.step = "done"
  BY <1>4, <1>6 DEF Return
<1>7. call'.req = call.req /\ (PostTaken \/ PostPending \/ CallOver)
  <2>1. CASE (PostUnreadable \/ PostUnanswered) /\ Fault
    <3>1. call'.req = call.req /\ call'.step \in {"ask", "throw"}
      <4>1. CASE PostUnreadable
        BY <1>5, <4>1 DEF PostUnreadable
      <4>2. CASE PostUnanswered
        <5>1. call' = [call EXCEPT !.step = "ask"]
          BY <4>2 DEF PostUnanswered
        <5> QED
          BY <1>4, <5>1
      <4> QED
        BY <2>1, <4>1, <4>2
    <3>2. call.step = "post" /\ PostLeft /\ faults' = faults + 1
      BY <2>1 DEF PostUnreadable, PostUnanswered, Fault
    <3> QED
      BY <3>1, <3>2 DEF PostLeft, PostTaken, PostPending
  <2>2. CASE PostAnswered
    BY <1>6, <2>2 DEF PostAnswered, PostTaken
  <2>3. CASE PostRefused \/ AskNotFound \/ AskUnanswered
    BY <1>5, <2>3 DEF PostRefused, AskNotFound, AskUnanswered, CallOver
  <2>4. CASE AskFound
    BY <1>6, <2>4 DEF AskFound, CallOver
  <2> QED
    BY <2>1, <2>2, <2>3, <2>4 DEF CallStep
<1>8. OrdersKept
  BY <1>1, <1>7, AcceptKeeps, SameOrdersKept DEF PostTaken, PostPending, CallOver
<1> QED
  BY <1>2, <1>3, <1>7, <1>8

LEMMA ApiStep ==
  ASSUME IInv, BooksInv, [Next]_vars
  PROVE  Api!AInv' /\ OrdersKept
<1>1. Api!AInv
  BY DEF BooksInv, PluginsInv
<1>2. CASE UNCHANGED apivars
  <2>1. Api!AInv'
    BY <1>1, <1>2 DEF apivars, Api!AInv, Api!BookInv, Api!OneOrderPerCall,
       Api!CallInv, Api!IsFiniteSet
  <2> QED
    BY <1>1, <1>2, <2>1, SameOrdersKept DEF apivars
<1>3. CASE OrderMoves
  BY <1>3, MovesSafe
<1>4. CASE CallStep
  BY <1>4, CallStepEffect
<1>5. CASE PlaceSale \/ PlaceBuy
  BY <1>1, <1>5, PlacesSafe, SameOrdersKept
<1>6. CASE Ending
  <2>1. CallEnds /\ call' = Api!Idle
    BY <1>6, EndingEnds DEF CallEnds, Idle, Api!Idle, NoRequest, Api!NoRequest
  <2>2. Api!AInv'
    BY <1>1, <2>1, Api!EndCallSafe, ApiAssumptions DEF CallEnds
  <2> QED
    BY <1>1, <2>1, <2>2, SameOrdersKept DEF CallEnds
<1>7. CASE Late
  <2>1. PICK req \in inflight : ArriveLate(req) \/ DropLate(req)
    BY <1>7 DEF Late
  <2>2. Api!AInv'
    BY <1>1, <2>1, SameLate, Api!LateSafe, ApiAssumptions
  <2>3. OrdersKept
    BY <1>1, <2>1, AcceptKeeps, SameOrdersKept DEF ArriveLate, DropLate
  <2> QED
    BY <2>2, <2>3
<1> QED
  BY <1>2, <1>3, <1>4, <1>5, <1>6, <1>7, ApiSteps

-----------------------------------------------------------------------------
(* What a step does to the tables.                                         *)

Records == (Insert \/ InsertFails) /\ InsertRow

Ended == (Delivered \/ NotDeliverable \/ DeliverFails \/ Crash) /\ (Commit \/ Rollback)

LEMMA DbSteps ==
  ASSUME [Next]_vars
  PROVE  \/ UNCHANGED dbvars
         \/ SettleClosed \/ Deliver \/ Ended \/ Records
<1>1. CASE Ending
  BY <1>1 DEF Ending, CallThrows, Insert, InsertFails, Crash, Records, Ended
<1>2. CASE Exchange \/ UNCHANGED vars
  BY <1>2 DEF Exchange, vars
<1>3. CASE CallStep \/ PlaceSale \/ PlaceBuy
  BY <1>3 DEF CallStep, PlaceSale, PlaceBuy
<1>4. CASE \/ GetNewSales \/ GetNewBuys \/ BuyList \/ SettleOpen
           \/ SettleExpired \/ CancelThrows \/ Cancel \/ CancelFails
           \/ DealingSegs \/ Asleep \/ QueryPrice \/ GetSold
           \/ StartBuying \/ EndRound \/ Timer \/ Restart
           \/ QueryFails \/ SettleFails \/ PriceFails
  BY <1>4 DEF GetNewSales, GetNewBuys, BuyList, SettleOpen, SettleExpired,
     CancelThrows, Cancel, CancelFails, DealingSegs, Asleep, QueryPrice,
     GetSold, StartBuying, EndRound, Timer, Restart, QueryFails, SettleFails,
     PriceFails
<1>5. CASE Delivered \/ NotDeliverable \/ DeliverFails
  BY <1>5 DEF Delivered, NotDeliverable, DeliverFails, Ended
<1>6. CASE SettleClosed \/ Deliver
  BY <1>6
<1> QED
  BY <1>1, <1>2, <1>3, <1>4, <1>5, <1>6 DEF Next, Round, Failure, Ending

LEMMA RecordsAt ==
  ASSUME Records
  PROVE  pc = "call" /\ call.step = "done" /\ InsertRow /\ CallEnds
BY EndingEnds DEF Records, Insert, InsertFails, Ending

LEMMA ClientStep ==
  ASSUME IInv, BooksInv, [Next]_vars
  PROVE  [Client!DbNext]_dbvars
<1>1. CASE SettleClosed
  BY <1>1, CloseByClient
<1>2. CASE Deliver
  BY <1>2, SameStatement DEF Deliver, Client!DbNext
<1>3. CASE Ended
  BY <1>3, SameEnd DEF Ended, Client!DbNext
<1>4. CASE Records
  BY <1>4, RecordsAt, InsertByClient
<1> QED
  BY <1>1, <1>2, <1>3, <1>4, DbSteps

LEMMA TablesKept ==
  ASSUME IInv, BooksInv, [Next]_vars
  PROVE  Closes(db, db') \/ Records
<1>1. ASSUME db' = db PROVE Closes(db, db')
  BY <1>1 DEF Closes, ClosesOnly
<1>2. CASE Deliver
  BY <1>1, <1>2, StatementSafe DEF Deliver, IInv
<1>3. CASE Ended
  BY <1>1, <1>3, CommitSafe, RollbackSafe DEF Ended, IInv
<1>4. CASE SettleClosed
  BY <1>1, <1>4, CloseByClient
<1> QED
  BY <1>1, <1>2, <1>3, <1>4, DbSteps DEF dbvars

LEMMA PluginsStep ==
  ASSUME IInv, BooksInv, [Next]_vars
  PROVE  PluginsInv'
<1>1. [Client!DbNext]_(Client!dbvars)
  BY ClientStep DEF dbvars, Client!dbvars
<1>2. Client!IInv /\ Client!WInv /\ Client!VInv
  BY DEF BooksInv, PluginsInv
<1>3. Client!IInv'
  BY <1>1, <1>2, Client!NextIInv, ClientAssumptions
<1>4. Client!WInv'
  BY <1>1, <1>2, Client!NextWInv, ClientAssumptions
<1>5. Client!VInv'
  BY <1>1, <1>2, Client!NextVInv, ClientAssumptions
<1> QED
  BY <1>3, <1>4, <1>5, ApiStep DEF PluginsInv

-----------------------------------------------------------------------------
(* The rows tell of orders.                                                *)

(* A row is recorded: what the tables get.                                 *)
LEMMA Recorded ==
  ASSUME IInv, Records
  PROVE  IF side = "sale"
         THEN /\ AddsRow(db.sale_tx, db'.sale_tx, Len(db.sale_tx) + 1,
                         call.req.seg, call.id)
              /\ db'.sale_tx[Len(db.sale_tx) + 1] = NewSaleRow(call.req.seg, call.id)
              /\ db'.buy_tx = db.buy_tx
         ELSE /\ AddsRow(db.buy_tx, db'.buy_tx, Len(db.buy_tx) + 1,
                         call.req.seg, call.id)
              /\ db'.buy_tx[Len(db.buy_tx) + 1] =
                   NewBuyRow(call.req.seg, call.id, get_free_amount(call.req.seg))
              /\ db'.sale_tx = db.sale_tx
<1>1. DbInv /\ call.req.seg \in Segs /\ InsertRow
  BY RecordsAt DEF IInv, CallInv
<1>2. /\ IsTable(db.sale_tx) /\ IsTable(db.buy_tx)
      /\ db = [sale_tx |-> db.sale_tx, buy_tx |-> db.buy_tx,
               sale_history |-> db.sale_history, buy_history |-> db.buy_history]
  BY <1>1 DEF DbInv, DbShape
<1>3. CASE side = "sale"
  <2>1. add_new_sale_tx(call.req.seg, call.id)
    BY <1>1, <1>3 DEF InsertRow
  <2>2. db'.sale_tx = Append(db.sale_tx, NewSaleRow(call.req.seg, call.id))
    BY <1>2, <2>1 DEF add_new_sale_tx
  <2>3. db'.sale_tx[Len(db.sale_tx) + 1] = NewSaleRow(call.req.seg, call.id)
    BY <1>2, <2>2, AppendRow
  <2> QED
    BY <1>1, <1>3, <2>1, <2>3, AddSale
<1>4. CASE side # "sale"
  <2> DEFINE amount == get_free_amount(call.req.seg)
  <2>1. add_new_buy_tx(call.req.seg, call.id, amount)
    BY <1>1, <1>4 DEF InsertRow
  <2> HIDE DEF amount
  <2>2. db'.buy_tx = Append(db.buy_tx, NewBuyRow(call.req.seg, call.id, amount))
    BY <1>2, <2>1 DEF add_new_buy_tx
  <2>3. db'.buy_tx[Len(db.buy_tx) + 1] = NewBuyRow(call.req.seg, call.id, amount)
    BY <1>2, <2>2, AppendRow
  <2>4. /\ AddsRow(db.buy_tx, db'.buy_tx, Len(db.buy_tx) + 1, call.req.seg, call.id)
        /\ db'.sale_tx = db.sale_tx
    BY <1>1, <2>1, AddBuy
  <2> QED
    BY <1>4, <2>3, <2>4 DEF amount
<1> QED
  BY <1>3, <1>4

-----------------------------------------------------------------------------
(* The locals of a round.                                                  *)

LEMMA FaultsStep ==
  ASSUME BooksInv, [Next]_vars
  PROVE  faults' \in 0 .. MaxFaults /\ faults' \in {faults, faults + 1}
<1>1. faults \in 0 .. MaxFaults
  BY DEF BooksInv, RoundInv
<1>2. UNCHANGED faults \/ Fault
  <2>1. CASE Round
    BY <2>1 DEF Round, NoFault, GetNewSales, GetNewBuys, BuyList, SettleClosed,
       SettleOpen, SettleExpired, Cancel, CancelThrows, Deliver, Delivered,
       NotDeliverable, DealingSegs, Asleep, QueryPrice, GetSold, PlaceSale,
       PlaceBuy, CallStep, CallThrows, Insert, StartBuying, EndRound, Timer,
       Restart
  <2>2. CASE Failure
    BY <2>2 DEF Failure, QueryFails, SettleFails, CancelFails, DeliverFails,
       PriceFails, InsertFails, Crash
  <2>3. CASE Exchange \/ UNCHANGED vars
    BY <2>3 DEF Exchange, vars
  <2> QED
    BY <2>1, <2>2, <2>3 DEF Next
<1> QED
  BY <1>1, <1>2, BoundsAssumption DEF Fault

(* A round is over: nothing is held.                                       *)
LEMMA RoundOverSafe ==
  ASSUME RoundOver, pc' \in {"timer", "down", "new_sale"},
         faults' \in 0 .. MaxFaults, txn'.op = "none", call'.step = "idle"
  PROVE  RoundInv'
BY DEF RoundOver, RoundInv, Labels, Settling, Placing, NoQuote

LEMMA SettlingRound ==
  ASSUME IInv, BooksInv, Settles, faults' \in 0 .. MaxFaults
  PROVE  RoundInv'
<1>1. /\ Settling /\ side \in {"sale", "buy"}
      /\ pc' \in {"settle", "cancel", "deliver"}
  BY DEF Settles, BuyList, SettleClosed, SettleOpen, SettleExpired, SettleFails,
         Cancel, CancelThrows, CancelFails, Deliver, Delivered, NotDeliverable,
         DeliverFails, Settling, Continue, Goto, ThrowSettling, IInv, ListInv,
         Sides
<1>2. /\ UNCHANGED <<sellings, buyings, dealing_segs, price, depth, sold_list, count>>
      /\ \/ side' = side /\ todo' \subseteq todo
         \/ side' = "buy" /\ todo' \subseteq buyings
  BY DEF Settles, BuyList, SettleClosed, SettleOpen, SettleExpired, SettleFails,
         Cancel, CancelThrows, CancelFails, Deliver, Delivered, NotDeliverable,
         DeliverFails, Continue, Goto, ThrowSettling, gridvars
<1>3. call.step = "idle" /\ call' = call
  BY <1>1 DEF BooksInv, RoundInv, Settling, Settles, BuyList, SettleClosed,
     SettleOpen, SettleExpired, SettleFails, Cancel, CancelThrows, CancelFails,
     Deliver, Delivered, NotDeliverable, DeliverFails, CancelAccepted,
     CancelRefused, apivars
<1>4. IF pc' = "deliver" THEN txn'.op = side' ELSE txn'.op = "none"
  <2>1. CASE SettleClosed
    <3>1. txn'.op = side /\ pc' = "deliver" /\ side' = side
      BY <2>1, CloseByClient DEF SettleClosed, Goto, gridvars
    <3> QED
      BY <3>1
  <2>2. CASE Deliver
    <3>1. /\ pc = "deliver" /\ pc' = pc /\ side' = side /\ txn.op = side
      BY <2>2 DEF Deliver, gridvars, BooksInv, RoundInv
    <3>2. txn'.op = txn.op
      BY <2>2 DEF IInv, DbInv, TxnShape, Deliver, Statement, update_sale_tx,
         insert_sale_history, update_buy_tx, insert_buy_history,
         select_unspent, use_sale_tx
    <3> QED
      BY <3>1, <3>2
  <2>3. CASE Delivered \/ NotDeliverable \/ DeliverFails
    <3>1. Commit \/ Rollback
      BY <2>3 DEF Delivered, NotDeliverable, DeliverFails
    <3>2. txn'.op = "none" /\ pc' = "settle"
      BY <2>3, <3>1 DEF Delivered, NotDeliverable, DeliverFails, Commit,
         Rollback, NoTxn, Continue, ThrowSettling
    <3> QED
      BY <3>2
  <2>4. CASE \/ BuyList \/ SettleOpen \/ SettleExpired \/ SettleFails
             \/ Cancel \/ CancelThrows \/ CancelFails
    <3>1. /\ pc \in {"settle", "cancel"} /\ pc' \in {"settle", "cancel"}
          /\ txn' = txn
      BY <2>4 DEF BuyList, SettleOpen, SettleExpired, SettleFails, Cancel,
         CancelThrows, CancelFails, Continue, Goto, ThrowSettling, dbvars
    <3> QED
      BY <3>1 DEF BooksInv, RoundInv
  <2> QED
    BY <2>1, <2>2, <2>3, <2>4 DEF Settles
<1>5. RoundInv
  BY DEF BooksInv
<1> QED
  BY <1>1, <1>2, <1>3, <1>4, <1>5 DEF RoundInv, Settling, Placing, Labels

LEMMA RoundStep ==
  ASSUME IInv, BooksInv, [Next]_vars
  PROVE  RoundInv'
<1>0. RoundInv /\ Api!AInv /\ faults' \in 0 .. MaxFaults
  BY FaultsStep DEF BooksInv, PluginsInv
<1>1. CASE QueryFails \/ Asleep \/ PriceFails \/ EndRound
  <2>1. /\ pc \in {"new_sale", "new_buy", "price", "sold", "scan"}
        /\ RoundOver /\ pc' = "timer" /\ UNCHANGED <<dbvars, apivars>>
    BY <1>1 DEF QueryFails, Asleep, PriceFails, EndRound, LoopEnds, ThrowRound
  <2>2. txn'.op = "none" /\ call'.step = "idle"
    BY <1>0, <2>1 DEF RoundInv, dbvars, apivars
  <2> QED
    BY <1>0, <2>1, <2>2, RoundOverSafe
<1>2. CASE CallThrows \/ InsertFails \/ Crash
  <2>1. RoundOver /\ pc' \in {"timer", "down"} /\ call'.step = "idle"
    BY <1>2 DEF CallThrows, InsertFails, Crash, ThrowRound, EndCall, Idle
  <2>2. txn'.op = "none"
    <3>1. CASE Crash
      BY <3>1 DEF Crash, dbvars, Rollback, NoTxn
    <3>2. CASE CallThrows \/ InsertFails
      <4>1. pc = "call" /\ txn' = txn
        BY <3>2 DEF CallThrows, InsertFails, InsertRow, add_new_sale_tx,
           add_new_buy_tx, dbvars
      <4> QED
        BY <1>0, <4>1 DEF RoundInv
    <3> QED
      BY <1>2, <3>1, <3>2
  <2> QED
    BY <1>0, <2>1, <2>2, RoundOverSafe
<1>3. CASE Timer \/ Restart
  <2>1. /\ pc \in {"timer", "down"} /\ pc' = "new_sale"
        /\ UNCHANGED <<gridvars, dbvars, apivars>>
    BY <1>3 DEF Timer, Restart
  <2> QED
    BY <1>0, <2>1 DEF RoundInv, gridvars, dbvars, apivars, Labels, Settling,
       Placing
<1>4. CASE GetNewSales \/ GetNewBuys
  <2>1. /\ pc \in {"new_sale", "new_buy"} /\ side = "sale"
        /\ \/ pc = "new_sale" /\ pc' = "new_buy" /\ todo' = todo
           \/ pc = "new_buy" /\ pc' = "settle" /\ todo' = sellings /\ sellings' = sellings
        /\ UNCHANGED <<side, dealing_segs, price, depth, sold_list, count>>
        /\ UNCHANGED <<txn, call>>
    BY <1>4 DEF GetNewSales, GetNewBuys, IInv, ListInv, dbvars, apivars
  <2> QED
    BY <1>0, <2>1 DEF RoundInv, Labels, Settling, Placing
<1>5. CASE DealingSegs
  <2>1. /\ pc = "settle" /\ todo = {} /\ pc' = "price" /\ todo' = todo
        /\ dealing_segs' = SegsOfLists
        /\ UNCHANGED <<price, depth, sold_list, count, txn, call>>
    BY <1>5 DEF DealingSegs, dbvars, apivars
  <2>2. SegsOfLists \subseteq Segs
    BY DEF SegsOfLists, IInv, ListInv, DbInv, DbShape, SaleShape, BuyShape
  <2> QED
    BY <1>0, <2>1, <2>2 DEF RoundInv, Labels, Settling, Placing
<1>6. CASE QueryPrice
  <2>1. /\ pc = "price" /\ pc' = "sold" /\ price' \in Quotes
        /\ UNCHANGED <<todo, dealing_segs, depth, sold_list, count, txn, call>>
    BY <1>6 DEF QueryPrice, dbvars, apivars
  <2> QED
    BY <1>0, <2>1 DEF RoundInv, Labels, Settling, Placing
<1>7. CASE GetSold \/ StartBuying
  <2>1. /\ pc \in {"sold", "scan"} /\ pc' = "scan" /\ price \in Quotes
        /\ count' = 0
        /\ UNCHANGED <<dealing_segs, price, txn, call, db>>
    BY <1>7 DEF GetSold, StartBuying, LoopEnds, StartLoop, dbvars, apivars,
       IInv, CallInv, Placing
  <2>2. depth' \in Int
    <3>1. depth' = price.bidnum \/ depth' = price.asknum * buy_price
      BY <1>7 DEF GetSold, StartBuying, StartLoop
    <3>2. price.bidnum \in Nat /\ price.asknum \in Nat /\ buy_price \in Nat
      BY <2>1, PricesTyped, QuotesAssumption
    <3>3. price.asknum * buy_price \in Int
      BY <3>2
    <3> QED
      BY <3>1, <3>2, <3>3
  <2>3. sold_list' = delivered_sale_array
    BY <1>0, <1>7 DEF GetSold, StartBuying, LoopEnds, RoundInv, Placing
  <2>4. delivered_sale_array' = delivered_sale_array
    BY <2>1 DEF delivered_sale_array
  <2> QED
    BY <1>0, <2>1, <2>2, <2>3, <2>4 DEF RoundInv, Labels, Settling, Placing
<1>8. CASE PlaceSale \/ PlaceBuy
  <2>1. /\ pc = "scan" /\ pc' = "call"
        /\ UNCHANGED <<side, dealing_segs, price, sold_list, count, dbvars>>
        /\ sold_list = delivered_sale_array
    BY <1>8, Places
  <2>2. call'.step = "post" /\ call'.req.side = side
    BY <1>8, PlacesSafe
  <2>3. depth' \in Int
    <3>1. PICK s \in Segs :
            IF side = "sale"
            THEN new_sale_num(s) \in Nat /\ depth' = depth - new_sale_num(s)
            ELSE depth' = depth - get_free_amount(s)
      BY <1>8, Places
    <3>2. get_free_amount(s) \in Nat /\ depth \in Int
      BY <1>0, <1>8, Places DEF RoundInv
    <3> QED
      BY <3>1, <3>2
  <2>4. delivered_sale_array' = delivered_sale_array /\ txn' = txn
    BY <2>1 DEF delivered_sale_array, dbvars
  <2> QED
    BY <1>0, <2>1, <2>2, <2>3, <2>4 DEF RoundInv, Labels, Settling, Placing
<1>9. CASE CallStep
  <2>1. /\ UNCHANGED <<pc, gridvars, dbvars>> /\ pc = "call"
        /\ call'.step # "idle" /\ call'.req = call.req
    BY <1>9, CallStepEffect DEF PostTaken, PostPending, CallOver
  <2>2. delivered_sale_array' = delivered_sale_array /\ txn' = txn
    BY <2>1 DEF delivered_sale_array, dbvars
  <2> QED
    BY <1>0, <2>1, <2>2 DEF RoundInv, gridvars, Labels, Settling, Placing
<1>10. CASE Insert
  <2>1. /\ pc = "call" /\ pc' = "scan" /\ count' = count + 1
        /\ UNCHANGED <<side, dealing_segs, price, depth, sold_list, txn>>
        /\ call'.step = "idle"
    BY <1>10 DEF Insert, EndCall, Idle, InsertRow, add_new_sale_tx,
       add_new_buy_tx
  <2>2. delivered_sale_array' = delivered_sale_array
    <3>1. Records
      BY <1>10 DEF Records, Insert
    <3>2. CASE side = "sale"
      <4> DEFINE n == Len(db.sale_tx) + 1
      <4>1. /\ DOMAIN db'.sale_tx = DOMAIN db.sale_tx \cup {n}
            /\ \A i \in DOMAIN db.sale_tx : db'.sale_tx[i] = db.sale_tx[i]
            /\ db'.sale_tx[n] = NewSaleRow(call.req.seg, call.id)
        BY <3>1, <3>2, Recorded DEF AddsRow
      <4>2. ~ Unspent(NewSaleRow(call.req.seg, call.id))
        BY DEF Unspent, NewSaleRow, db_tx_processing, db_tx_complet_closed,
           db_tx_portion_closed
      <4> HIDE DEF n
      <4> QED
        BY <4>1, <4>2 DEF delivered_sale_array
    <3>3. CASE side # "sale"
      BY <3>1, <3>3, Recorded DEF delivered_sale_array
    <3> QED
      BY <3>2, <3>3
  <2>3. count' \in Nat
    BY <1>0, <2>1 DEF RoundInv
  <2> QED
    BY <1>0, <2>1, <2>2, <2>3 DEF RoundInv, Labels, Settling, Placing
<1>11. CASE Exchange \/ UNCHANGED vars
  <2>1. UNCHANGED <<gridvars, pc, dbvars>> /\ call' = call
    BY <1>11 DEF Exchange, FillStep, Fill, FinishCancel, ArriveLate, DropLate,
       vars, apivars
  <2>2. delivered_sale_array' = delivered_sale_array /\ txn' = txn
    BY <2>1 DEF delivered_sale_array, dbvars
  <2> QED
    BY <1>0, <2>1, <2>2 DEF RoundInv, gridvars, Labels, Settling, Placing
<1>12. CASE Settles
  BY <1>0, <1>12, SettlingRound
<1> QED
  BY <1>1, <1>2, <1>3, <1>4, <1>5, <1>6, <1>7, <1>8, <1>9, <1>10, <1>11, <1>12
     DEF Next, Round, Failure, Settles

-----------------------------------------------------------------------------
(* The lists of the round.                                                 *)

(* A commit closes one row; what a sale pays changes none of its deals.    *)
SameDeal(p, q) ==
  /\ q.seg_id = p.seg_id /\ q.order_id = p.order_id /\ q.status = p.status
  /\ q.deal_price = p.deal_price /\ q.deal_number = p.deal_number
  /\ q.deal_amount = p.deal_amount

CommitsSale ==
  LET n == txn.tx.id IN
  /\ n \in DOMAIN db.sale_tx
  /\ db'.buy_tx = db.buy_tx
  /\ \A i \in DOMAIN db.sale_tx : i # n => db'.sale_tx[i] = db.sale_tx[i]
  /\ db'.sale_tx[n] = Client!WrittenSale(db.sale_tx[n], txn.tx)

CommitsBuy ==
  LET n == txn.tx.id IN
  /\ n \in DOMAIN db.buy_tx
  /\ \A i \in DOMAIN db.buy_tx : i # n => db'.buy_tx[i] = db.buy_tx[i]
  /\ db'.buy_tx[n] = Client!WrittenBuy(db.buy_tx[n], txn.tx)
  /\ \A i \in DOMAIN db.sale_tx : SameDeal(db.sale_tx[i], db'.sale_tx[i])

LEMMA CommitWrites ==
  ASSUME Client!IInv, Client!WInv, Commit
  PROVE  /\ DOMAIN db'.sale_tx = DOMAIN db.sale_tx
         /\ DOMAIN db'.buy_tx = DOMAIN db.buy_tx
         /\ (txn.op = "sale" /\ CommitsSale) \/ (txn.op = "buy" /\ CommitsBuy)
<1>1. db' = work /\ txn.step = "commit" /\ txn.op \in {"sale", "buy"}
  BY DEF Commit, Client!IInv, Client!TxnOK
<1>2. /\ DOMAIN work.sale_tx = DOMAIN db.sale_tx
      /\ DOMAIN work.buy_tx = DOMAIN db.buy_tx
  BY DEF Client!IInv, Client!SameRows
<1>3. CASE txn.op = "sale"
  <2>1. Client!SaleWritten /\ txn.tx.id \in DOMAIN db.sale_tx
    BY <1>3 DEF Client!WInv, Client!IInv, Client!TxnOK, Client!SaleTxn
  <2> QED
    BY <1>1, <1>2, <1>3, <2>1 DEF Client!SaleWritten, Client!SameBut, CommitsSale
<1>4. CASE txn.op = "buy"
  <2>1. Client!BuyWritten /\ txn.tx.id \in DOMAIN db.buy_tx
    BY <1>4 DEF Client!WInv, Client!IInv, Client!TxnOK, Client!BuyTxn
  <2>2. ASSUME NEW i \in DOMAIN db.sale_tx
        PROVE  SameDeal(db.sale_tx[i], work.sale_tx[i])
    <3>1. \/ work.sale_tx[i] = db.sale_tx[i]
          \/ \E n : Client!PaysOut(db.sale_tx[i], work.sale_tx[i], n)
      BY <1>1, <2>1, <2>2 DEF Client!BuyWritten, Client!BuySpent
    <3> QED
      BY <3>1 DEF SameDeal, Client!PaysOut
  <2>3. CommitsBuy
    BY <1>1, <2>1, <2>2 DEF Client!BuyWritten, Client!SameBut, CommitsBuy
  <2> QED
    BY <1>1, <1>2, <1>4, <2>3
<1> QED
  BY <1>1, <1>3, <1>4

LEMMA DeliveredTodo ==
  ASSUME IInv, BooksInv, Delivered
  PROVE  TodoInv'
<1>1. /\ pc = "deliver" /\ pc' = "settle" /\ todo' = todo \ {txn.tx.id}
      /\ UNCHANGED <<side, buyings>> /\ Commit /\ txn.op = side
  BY DEF Delivered, Continue, BooksInv, RoundInv
<1>2. /\ DOMAIN db'.sale_tx = DOMAIN db.sale_tx
      /\ DOMAIN db'.buy_tx = DOMAIN db.buy_tx
      /\ (txn.op = "sale" /\ CommitsSale) \/ (txn.op = "buy" /\ CommitsBuy)
  BY <1>1, CommitWrites DEF BooksInv, PluginsInv
<1>3. CASE side = "sale"
  <2>1. CommitsSale
    BY <1>1, <1>2, <1>3
  <2>2. OpenSales \ {txn.tx.id} \subseteq OpenSales' /\ OpenBuys' = OpenBuys
    BY <1>2, <2>1 DEF CommitsSale, OpenSales, OpenBuys
  <2>3. todo \subseteq OpenSales /\ buyings \subseteq OpenBuys
    BY <1>1, <1>3 DEF BooksInv, TodoInv, Settling
  <2> QED
    BY <1>1, <1>3, <2>2, <2>3 DEF TodoInv
<1>4. CASE side = "buy"
  <2>1. CommitsBuy
    BY <1>1, <1>2, <1>4
  <2>2. OpenBuys \ {txn.tx.id} \subseteq OpenBuys'
    BY <1>2, <2>1 DEF CommitsBuy, OpenBuys
  <2>3. todo \subseteq OpenBuys
    BY <1>1, <1>4 DEF BooksInv, TodoInv, Settling
  <2> QED
    BY <1>1, <1>4, <2>2, <2>3 DEF TodoInv
<1> QED
  BY <1>1, <1>2, <1>3, <1>4

LEMMA TodoStep ==
  ASSUME IInv, BooksInv, [Next]_vars
  PROVE  TodoInv'
<1>0. TodoInv /\ side \in {"sale", "buy"}
  BY DEF BooksInv, IInv, ListInv, Sides
<1>1. CASE GetNewSales
  <2>1. pc' = "new_buy" /\ sellings' = new_sale_array /\ db' = db
    BY <1>1 DEF GetNewSales, dbvars
  <2> QED
    BY <2>1 DEF TodoInv, new_sale_array, OpenSales, Settling
<1>2. CASE GetNewBuys
  <2>1. /\ pc = "new_buy" /\ pc' = "settle" /\ side = "sale" /\ side' = side
        /\ todo' = sellings /\ buyings' = new_buy_array /\ db' = db
    BY <1>2 DEF GetNewBuys, dbvars, IInv, ListInv
  <2>2. sellings \subseteq OpenSales
    BY <1>0, <2>1 DEF TodoInv
  <2> QED
    BY <2>1, <2>2 DEF TodoInv, new_buy_array, OpenSales, OpenBuys
<1>3. CASE \/ BuyList \/ SettleClosed \/ SettleOpen \/ SettleExpired
           \/ SettleFails \/ Cancel \/ CancelThrows \/ CancelFails \/ Deliver
           \/ NotDeliverable \/ DeliverFails
  <2>1. /\ pc \in {"settle", "cancel", "deliver"}
        /\ pc' \in {"settle", "cancel", "deliver"}
        /\ buyings' = buyings
        /\ \/ side = "sale" /\ side' = "buy" /\ todo' = buyings /\ db' = db
           \/ side' = side /\ todo' \subseteq todo /\ db' = db
           \/ side' = "buy" /\ todo' = {}
    <3>1. CASE BuyList
      BY <3>1 DEF BuyList, dbvars
    <3>2. CASE SettleClosed
      BY <3>2, CloseByClient DEF SettleClosed, Goto, gridvars
    <3>3. CASE SettleOpen \/ SettleExpired \/ Cancel
      BY <3>3 DEF SettleOpen, SettleExpired, Cancel, Continue, Goto, gridvars,
         dbvars
    <3>4. CASE Deliver
      BY <3>4, StatementSafe DEF Deliver, gridvars, IInv
    <3>5. CASE \/ SettleFails \/ CancelThrows \/ CancelFails
               \/ NotDeliverable \/ DeliverFails
      BY <3>5 DEF SettleFails, CancelThrows, CancelFails, NotDeliverable,
         DeliverFails, ThrowSettling
    <3> QED
      BY <1>3, <3>1, <3>2, <3>3, <3>4, <3>5
  <2> QED
    BY <1>0, <2>1 DEF TodoInv, Settling, OpenSales, OpenBuys
<1>4. CASE Delivered
  BY <1>4, DeliveredTodo
<1>5. CASE Exchange \/ UNCHANGED vars
  <2>1. UNCHANGED <<gridvars, pc, dbvars>>
    BY <1>5 DEF Exchange, vars
  <2> QED
    BY <1>0, <2>1 DEF TodoInv, gridvars, dbvars, OpenSales, OpenBuys, Settling
<1>6. CASE \/ QueryFails \/ Asleep \/ PriceFails \/ EndRound \/ CallThrows
           \/ InsertFails \/ Timer \/ Crash \/ Restart \/ DealingSegs
           \/ QueryPrice \/ GetSold \/ PlaceSale \/ PlaceBuy \/ Insert
           \/ StartBuying
  <2>1. pc' \in {"timer", "down", "new_sale", "price", "sold", "scan", "call"}
    BY <1>6 DEF QueryFails, Asleep, PriceFails, EndRound, CallThrows,
       InsertFails, Timer, Crash, Restart, DealingSegs, QueryPrice, GetSold,
       PlaceSale, PlaceBuy, Insert, StartBuying, StartLoop, ThrowRound
  <2> QED
    BY <2>1 DEF TodoInv, Settling
<1>7. CASE CallStep
  <2>1. pc' = "call"
    BY <1>7 DEF CallStep
  <2> QED
    BY <2>1 DEF TodoInv, Settling
<1> QED
  BY <1>1, <1>2, <1>3, <1>4, <1>5, <1>6, <1>7 DEF Next, Round, Failure

-----------------------------------------------------------------------------
(* Each row keeps telling of its order.                                    *)

SameCall ==
  pc' = "call" => \/ pc = "call" /\ call'.req = call.req
                  \/ \A i \in DOMAIN orders : orders[i].cid # call'.req.cid

LEMMA CallCid ==
  ASSUME IInv, BooksInv, [Next]_vars
  PROVE  SameCall
<1>1. SUFFICES ASSUME pc' = "call" PROVE SameCall
  BY DEF SameCall
<1>2. call'.step # "idle"
  BY <1>1, RoundStep DEF RoundInv
<1>3. CASE UNCHANGED call
  BY <1>2, <1>3 DEF SameCall, BooksInv, RoundInv
<1>4. CASE CallStep
  BY <1>4, CallStepEffect DEF SameCall
<1>5. CASE PlaceSale \/ PlaceBuy
  BY <1>5, PlacesSafe DEF SameCall
<1>6. CASE Ending
  BY <1>2, <1>6, EndingEnds DEF CallEnds, Idle
<1>7. CASE Late \/ OrderMoves
  BY <1>3, <1>7, MovesSafe DEF Late, ArriveLate, DropLate
<1> QED
  BY <1>3, <1>4, <1>5, <1>6, <1>7, ApiSteps DEF apivars

(* What RowsTell says of the rows q after the step.                        *)
TellNext(q, s) ==
  /\ \A i \in DOMAIN q :
       /\ q[i].order_id \in DOMAIN orders'
       /\ orders'[q[i].order_id].side = s
       /\ orders'[q[i].order_id].seg = q[i].seg_id
       /\ pc' = "call" => orders'[q[i].order_id].cid # call'.req.cid
  /\ \A i, j \in DOMAIN q : q[i].order_id = q[j].order_id => i = j

LEMMA TellOn ==
  ASSUME NEW p, NEW q, NEW s, RowsTell(p, s), ClosesOnly(p, q),
         OrdersKept, SameCall
  PROVE  TellNext(q, s)
<1>1. ASSUME NEW i \in DOMAIN q
      PROVE  /\ q[i].order_id \in DOMAIN orders'
             /\ orders'[q[i].order_id].side = s
             /\ orders'[q[i].order_id].seg = q[i].seg_id
             /\ pc' = "call" => orders'[q[i].order_id].cid # call'.req.cid
  <2> DEFINE o == p[i].order_id
  <2>1. /\ i \in DOMAIN p /\ q[i].order_id = o /\ q[i].seg_id = p[i].seg_id
    BY DEF ClosesOnly
  <2>2. /\ o \in DOMAIN orders /\ orders[o].side = s
        /\ orders[o].seg = p[i].seg_id
        /\ pc = "call" => orders[o].cid # call.req.cid
    BY <2>1 DEF RowsTell
  <2>3. o \in DOMAIN orders' /\ KeptAs(orders[o], orders'[o])
    BY <2>2 DEF OrdersKept
  <2> QED
    BY <2>1, <2>2, <2>3 DEF KeptAs, SameCall
<1> QED
  BY <1>1 DEF RowsTell, ClosesOnly, TellNext

LEMMA TellNew ==
  ASSUME NEW p, NEW q, NEW n, NEW s, NEW seg, NEW oid, RowsTell(p, s),
         AddsRow(p, q, n, seg, oid), oid \in DOMAIN orders,
         orders[oid].side = s, orders[oid].seg = seg,
         \A i \in DOMAIN p : p[i].order_id # oid,
         orders' = orders, pc' # "call"
  PROVE  TellNext(q, s)
BY DEF RowsTell, AddsRow, TellNext

LEMMA RowsStep ==
  ASSUME IInv, BooksInv, [Next]_vars
  PROVE  RowsInv'
<1>1. OrdersKept /\ SameCall
  BY ApiStep, CallCid
<1>2. RowsTell(db.sale_tx, "sale") /\ RowsTell(db.buy_tx, "buy")
  BY DEF BooksInv, RowsInv
<1>3. CASE Closes(db, db')
  <2>1. ClosesOnly(db.sale_tx, db'.sale_tx) /\ ClosesOnly(db.buy_tx, db'.buy_tx)
    BY <1>3 DEF Closes
  <2>2. TellNext(db'.sale_tx, "sale") /\ TellNext(db'.buy_tx, "buy")
    BY <1>1, <1>2, <2>1, TellOn
  <2> QED
    BY <2>2 DEF RowsInv, RowsTell, TellNext
<1>4. CASE Records
  <2>1. /\ pc = "call" /\ call.step = "done" /\ orders' = orders /\ call' = Idle
    BY <1>4, RecordsAt DEF CallEnds
  <2>2. pc' # "call"
    BY <1>4 DEF Records, Insert, InsertFails, ThrowRound
  <2>3. /\ call.id \in DOMAIN orders
        /\ orders[call.id].side = call.req.side
        /\ orders[call.id].seg = call.req.seg
        /\ \A i \in DOMAIN db.sale_tx : db.sale_tx[i].order_id # call.id
        /\ \A i \in DOMAIN db.buy_tx : db.buy_tx[i].order_id # call.id
    BY <2>1, NotTold DEF Api!IsOf
  <2>4. call.req.side = side /\ side \in {"sale", "buy"}
    BY <2>1 DEF BooksInv, RoundInv, IInv, ListInv, Sides
  <2>5. CASE side = "sale"
    <3>1. /\ AddsRow(db.sale_tx, db'.sale_tx, Len(db.sale_tx) + 1,
                     call.req.seg, call.id)
          /\ db'.buy_tx = db.buy_tx
      BY <1>4, <2>5, Recorded
    <3>2. TellNext(db'.sale_tx, "sale")
      BY <1>2, <2>1, <2>2, <2>3, <2>4, <2>5, <3>1, TellNew
    <3>3. TellNext(db'.buy_tx, "buy")
      BY <1>2, <2>1, <2>2, <3>1 DEF RowsTell, TellNext
    <3> QED
      BY <3>2, <3>3 DEF RowsInv, RowsTell, TellNext
  <2>6. CASE side = "buy"
    <3>1. /\ AddsRow(db.buy_tx, db'.buy_tx, Len(db.buy_tx) + 1,
                     call.req.seg, call.id)
          /\ db'.sale_tx = db.sale_tx
      BY <1>4, <2>6, Recorded
    <3>2. TellNext(db'.buy_tx, "buy")
      BY <1>2, <2>1, <2>2, <2>3, <2>4, <2>6, <3>1, TellNew
    <3>3. TellNext(db'.sale_tx, "sale")
      BY <1>2, <2>1, <2>2, <3>1 DEF RowsTell, TellNext
    <3> QED
      BY <3>2, <3>3 DEF RowsInv, RowsTell, TellNext
  <2> QED
    BY <2>4, <2>5, <2>6
<1> QED
  BY <1>3, <1>4, TablesKept

-----------------------------------------------------------------------------
(* An open transaction delivers the truth.                                 *)

LEMMA ClosedStays ==
  ASSUME OrdersKept, NEW o \in DOMAIN orders,
         get_order_status(o).status # order_processing
  PROVE  orders'[o] = orders[o]
<1>1. orders[o].state \notin Working
  BY DEF get_order_status, order_status, Working
<1> QED
  BY <1>1 DEF OrdersKept, KeptAs

LEMMA DealKept ==
  ASSUME IInv, BooksInv, OrdersKept, db' = db,
         txn'.op = txn.op, txn'.tx = txn.tx
  PROVE  DealInv'
<1>1. ASSUME txn.op = "sale"
      PROVE  LET o == db.sale_tx[txn.tx.id].order_id IN
             /\ orders'[o] = orders[o]
             /\ get_order_status(o).status # order_processing
             /\ txn.tx = complete_sale_order(txn.tx.id, get_order_status(o))
  <2> DEFINE o == db.sale_tx[txn.tx.id].order_id
  <2>1. txn.tx.id \in DOMAIN db.sale_tx
    BY <1>1 DEF IInv, DbInv, TxnShape
  <2>2. o \in DOMAIN orders
    BY <2>1 DEF BooksInv, RowsInv, RowsTell
  <2>3. /\ get_order_status(o).status # order_processing
        /\ txn.tx = complete_sale_order(txn.tx.id, get_order_status(o))
    BY <1>1 DEF BooksInv, DealInv
  <2> QED
    BY <2>2, <2>3, ClosedStays
<1>2. ASSUME txn.op = "buy"
      PROVE  LET o == db.buy_tx[txn.tx.id].order_id IN
             /\ orders'[o] = orders[o]
             /\ get_order_status(o).status # order_processing
             /\ txn.tx = complete_buy_order(txn.tx.id, get_order_status(o))
  <2> DEFINE o == db.buy_tx[txn.tx.id].order_id
  <2>1. txn.tx.id \in DOMAIN db.buy_tx
    BY <1>2 DEF IInv, DbInv, TxnShape
  <2>2. o \in DOMAIN orders
    BY <2>1 DEF BooksInv, RowsInv, RowsTell
  <2>3. /\ get_order_status(o).status # order_processing
        /\ txn.tx = complete_buy_order(txn.tx.id, get_order_status(o))
    BY <1>2 DEF BooksInv, DealInv
  <2> QED
    BY <2>2, <2>3, ClosedStays
<1>3. ASSUME txn'.op = "sale"
      PROVE  LET res == get_order_status(db.sale_tx[txn.tx.id].order_id)' IN
             /\ res.status # order_processing
             /\ txn'.tx = complete_sale_order(txn'.tx.id, res)
  <2> DEFINE o == db.sale_tx[txn.tx.id].order_id
  <2>0. o' = o /\ orders'[o] = orders[o]
    BY <1>1, <1>3
  <2>1. get_order_status(o)' = get_order_status(o)
    <3> HIDE DEF o
    <3> QED
      BY <2>0 DEF get_order_status
  <2> QED
    BY <1>1, <1>3, <2>1
<1>4. ASSUME txn'.op = "buy"
      PROVE  LET res == get_order_status(db.buy_tx[txn.tx.id].order_id)' IN
             /\ res.status # order_processing
             /\ txn'.tx = complete_buy_order(txn'.tx.id, res)
  <2> DEFINE o == db.buy_tx[txn.tx.id].order_id
  <2>0. o' = o /\ orders'[o] = orders[o]
    BY <1>2, <1>4
  <2>1. get_order_status(o)' = get_order_status(o)
    <3> HIDE DEF o
    <3> QED
      BY <2>0 DEF get_order_status
  <2> QED
    BY <1>2, <1>4, <2>1
<1> QED
  BY <1>3, <1>4 DEF DealInv

LEMMA DealStep ==
  ASSUME IInv, BooksInv, [Next]_vars
  PROVE  DealInv'
<1>1. CASE UNCHANGED dbvars
  BY <1>1, ApiStep, DealKept DEF dbvars
<1>2. CASE Deliver
  <2>1. db' = db
    BY <1>2, StatementSafe DEF Deliver, IInv
  <2>2. txn'.op = txn.op /\ txn'.tx = txn.tx
    BY <1>2 DEF IInv, DbInv, TxnShape, Deliver, Statement, update_sale_tx,
       insert_sale_history, update_buy_tx, insert_buy_history,
       select_unspent, use_sale_tx
  <2> QED
    BY <2>1, <2>2, ApiStep, DealKept
<1>3. CASE SettleClosed
  <2>1. orders' = orders /\ db' = db
    BY <1>3, CloseByClient DEF SettleClosed, apivars
  <2>2. \A i : get_order_status(i)' = get_order_status(i)
    BY <2>1 DEF get_order_status
  <2>3. /\ txn'.op = "sale" =>
             LET res == get_order_status(db.sale_tx[txn'.tx.id].order_id) IN
             /\ res.status # order_processing
             /\ txn'.tx = complete_sale_order(txn'.tx.id, res)
        /\ txn'.op = "buy" =>
             LET res == get_order_status(db.buy_tx[txn'.tx.id].order_id) IN
             /\ res.status # order_processing
             /\ txn'.tx = complete_buy_order(txn'.tx.id, res)
    BY <1>3, CloseByClient
  <2> QED
    BY <2>1, <2>3 DEF DealInv, get_order_status
<1>4. CASE Ended
  <2>1. txn'.op = "none"
    BY <1>4 DEF Ended, Commit, Rollback, NoTxn
  <2> QED
    BY <2>1 DEF DealInv
<1>5. CASE Records
  <2>1. txn' = txn /\ pc = "call"
    BY <1>5, RecordsAt DEF InsertRow, add_new_sale_tx, add_new_buy_tx
  <2>2. txn'.op = "none"
    BY <2>1 DEF BooksInv, RoundInv
  <2> QED
    BY <2>2 DEF DealInv
<1> QED
  BY <1>1, <1>2, <1>3, <1>4, <1>5, DbSteps

-----------------------------------------------------------------------------
(* Closed rows are final.                                                  *)

(* What SettledAsDealt says of a row after the step.                       *)
FinalNext(r) ==
  r.status # db_tx_processing =>
    LET o == orders'[r.order_id] IN
    /\ r.status = order_status(o.state)
    /\ r.deal_number = o.deals
    /\ r.deal_amount = o.deals * o.paid

LEMMA SettledStays ==
  ASSUME OrdersKept, NEW row, row.order_id \in DOMAIN orders,
         SettledAsDealt(row), NEW r, r.order_id = row.order_id,
         r.status = row.status, r.deal_number = row.deal_number,
         r.deal_amount = row.deal_amount
  PROVE  FinalNext(r)
<1>1. SUFFICES ASSUME r.status # db_tx_processing PROVE FinalNext(r)
  BY DEF FinalNext
<1>2. /\ r.status = get_order_status(row.order_id).status
      /\ r.deal_number = get_order_status(row.order_id).number
      /\ r.deal_amount = get_order_status(row.order_id).amount
  BY <1>1 DEF SettledAsDealt
<1>3. get_order_status(row.order_id).status # order_processing
  BY <1>1, <1>2 DEF db_tx_processing, order_processing
<1>4. orders'[row.order_id] = orders[row.order_id]
  BY <1>3, ClosedStays
<1> QED
  BY <1>2, <1>4 DEF FinalNext, get_order_status

LEMMA TruthIsWritten ==
  ASSUME OrdersKept, NEW o \in DOMAIN orders,
         get_order_status(o).status # order_processing,
         NEW r, r.order_id = o, r.status = get_order_status(o).status,
         r.deal_number = get_order_status(o).number,
         r.deal_amount = get_order_status(o).amount
  PROVE  FinalNext(r)
<1>1. orders'[o] = orders[o]
  BY ClosedStays
<1> QED
  BY <1>1 DEF FinalNext, get_order_status

LEMMA FinalKept ==
  ASSUME IInv, BooksInv, OrdersKept
  PROVE  /\ \A i \in DOMAIN db.sale_tx : \A r :
              SameDeal(db.sale_tx[i], r) => FinalNext(r)
         /\ \A i \in DOMAIN db.sale_tx : FinalNext(db.sale_tx[i])
         /\ \A i \in DOMAIN db.buy_tx : FinalNext(db.buy_tx[i])
<1>1. /\ \A i \in DOMAIN db.sale_tx : db.sale_tx[i].order_id \in DOMAIN orders
      /\ \A i \in DOMAIN db.buy_tx : db.buy_tx[i].order_id \in DOMAIN orders
      /\ \A i \in DOMAIN db.sale_tx : SettledAsDealt(db.sale_tx[i])
      /\ \A i \in DOMAIN db.buy_tx : SettledAsDealt(db.buy_tx[i])
  BY DEF BooksInv, RowsInv, RowsTell, ClosedRowsAreFinal
<1>2. ASSUME NEW i \in DOMAIN db.sale_tx, NEW r, SameDeal(db.sale_tx[i], r)
      PROVE  FinalNext(r)
  BY <1>1, <1>2, SettledStays DEF SameDeal
<1>3. \A i \in DOMAIN db.sale_tx : FinalNext(db.sale_tx[i])
  BY <1>1, SettledStays
<1>4. \A i \in DOMAIN db.buy_tx : FinalNext(db.buy_tx[i])
  BY <1>1, SettledStays
<1> QED
  BY <1>2, <1>3, <1>4

LEMMA FinalCommit ==
  ASSUME IInv, BooksInv, OrdersKept, Commit
  PROVE  /\ \A i \in DOMAIN db'.sale_tx : FinalNext(db'.sale_tx[i])
         /\ \A i \in DOMAIN db'.buy_tx : FinalNext(db'.buy_tx[i])
<1> DEFINE n == txn.tx.id
<1>1. /\ DOMAIN db'.sale_tx = DOMAIN db.sale_tx
      /\ DOMAIN db'.buy_tx = DOMAIN db.buy_tx
      /\ (txn.op = "sale" /\ CommitsSale) \/ (txn.op = "buy" /\ CommitsBuy)
  BY CommitWrites DEF BooksInv, PluginsInv
<1>2. /\ \A i \in DOMAIN db.sale_tx : db.sale_tx[i] \in SaleRows
      /\ \A i \in DOMAIN db.buy_tx : db.buy_tx[i] \in BuyRows
      /\ \A i \in DOMAIN db.sale_tx : db.sale_tx[i].order_id \in DOMAIN orders
      /\ \A i \in DOMAIN db.buy_tx : db.buy_tx[i].order_id \in DOMAIN orders
  BY TypedRows DEF BooksInv, PluginsInv, RowsInv, RowsTell
<1>3. CASE txn.op = "sale" /\ CommitsSale
  <2> DEFINE row == db.sale_tx[n]
             res == get_order_status(row.order_id)
             r   == db'.sale_tx[n]
  <2>1. /\ res.status # order_processing
        /\ txn.tx = complete_sale_order(n, res)
    BY <1>3 DEF BooksInv, DealInv
  <2>2. /\ row \in SaleRows /\ row.order_id \in DOMAIN orders
        /\ r = Client!WrittenSale(row, txn.tx)
    BY <1>2, <1>3 DEF CommitsSale
  <2>3. /\ r.order_id = row.order_id /\ r.status = txn.tx.status
        /\ r.deal_number = txn.tx.deal_number
        /\ r.deal_amount = txn.tx.deal_amount
    BY <2>2 DEF Client!WrittenSale, SaleRows
  <2>4. /\ txn.tx.status = res.status /\ txn.tx.deal_number = res.number
        /\ txn.tx.deal_amount = res.amount
    BY <2>1 DEF complete_sale_order
  <2>5. FinalNext(r)
    BY <2>1, <2>2, <2>3, <2>4, TruthIsWritten
  <2> QED
    BY <1>1, <1>3, <2>5, FinalKept DEF CommitsSale
<1>4. CASE txn.op = "buy" /\ CommitsBuy
  <2> DEFINE row == db.buy_tx[n]
             res == get_order_status(row.order_id)
             r   == db'.buy_tx[n]
  <2>1. /\ res.status # order_processing
        /\ txn.tx = complete_buy_order(n, res)
    BY <1>4 DEF BooksInv, DealInv
  <2>2. /\ row \in BuyRows /\ row.order_id \in DOMAIN orders
        /\ r = Client!WrittenBuy(row, txn.tx)
    BY <1>2, <1>4 DEF CommitsBuy
  <2>3. /\ r.order_id = row.order_id /\ r.status = txn.tx.status
        /\ r.deal_number = txn.tx.deal_number
        /\ r.deal_amount = txn.tx.deal_amount
    BY <2>2 DEF Client!WrittenBuy, BuyRows
  <2>4. /\ txn.tx.status = res.status /\ txn.tx.deal_number = res.number
        /\ txn.tx.deal_amount = res.amount
    BY <2>1 DEF complete_buy_order
  <2>5. FinalNext(r)
    BY <2>1, <2>2, <2>3, <2>4, TruthIsWritten
  <2> QED
    BY <1>1, <1>4, <2>5, FinalKept DEF CommitsBuy
<1> QED
  BY <1>1, <1>3, <1>4

LEMMA FinalStep ==
  ASSUME IInv, BooksInv, [Next]_vars
  PROVE  ClosedRowsAreFinal'
<1>1. OrdersKept
  BY ApiStep
<1>2. /\ \A i \in DOMAIN db'.sale_tx : FinalNext(db'.sale_tx[i])
      /\ \A i \in DOMAIN db'.buy_tx : FinalNext(db'.buy_tx[i])
  <2>1. CASE db' = db
    BY <1>1, <2>1, FinalKept
  <2>2. CASE Records
    <3>1. CASE side = "sale"
      <4>1. /\ AddsRow(db.sale_tx, db'.sale_tx, Len(db.sale_tx) + 1,
                       call.req.seg, call.id)
            /\ db'.sale_tx[Len(db.sale_tx) + 1] = NewSaleRow(call.req.seg, call.id)
            /\ db'.buy_tx = db.buy_tx
        BY <2>2, <3>1, Recorded
      <4>2. FinalNext(NewSaleRow(call.req.seg, call.id))
        BY DEF FinalNext, NewSaleRow
      <4> QED
        BY <1>1, <4>1, <4>2, FinalKept DEF AddsRow
    <3>2. CASE side # "sale"
      <4> DEFINE new == NewBuyRow(call.req.seg, call.id, get_free_amount(call.req.seg))
      <4>1. /\ AddsRow(db.buy_tx, db'.buy_tx, Len(db.buy_tx) + 1,
                       call.req.seg, call.id)
            /\ db'.buy_tx[Len(db.buy_tx) + 1] = new
            /\ db'.sale_tx = db.sale_tx
        BY <2>2, <3>2, Recorded
      <4>2. FinalNext(new)
        BY DEF FinalNext, NewBuyRow
      <4> HIDE DEF new
      <4> QED
        BY <1>1, <4>1, <4>2, FinalKept DEF AddsRow
    <3> QED
      BY <3>1, <3>2
  <2>3. CASE Commit
    BY <1>1, <2>3, FinalCommit
  <2>4. CASE Deliver \/ SettleClosed \/ Rollback
    <3>1. db' = db
      BY <2>4, StatementSafe, CloseByClient DEF Deliver, IInv, Rollback
    <3> QED
      BY <2>1, <3>1
  <2> QED
    BY <2>1, <2>2, <2>3, <2>4, DbSteps DEF dbvars, Ended
<1> QED
  BY <1>2 DEF FinalNext, ClosedRowsAreFinal, SettledAsDealt, get_order_status

-----------------------------------------------------------------------------
(* Orders without a row.                                                   *)

LEMMA CountsTyped ==
  ASSUME BooksInv
  PROVE  /\ IsFiniteSet(Lost) /\ Cardinality(Lost) \in Nat
         /\ IsFiniteSet(inflight) /\ Cardinality(inflight) \in Nat
         /\ Len(orders) \in Nat /\ DOMAIN orders = 1 .. Len(orders)
         /\ faults \in Nat
<1>1. /\ Len(orders) \in Nat /\ DOMAIN orders = 1 .. Len(orders)
      /\ IsFiniteSet(inflight) /\ Cardinality(inflight) \in Nat
  BY TypedOrders DEF BooksInv, PluginsInv
<1>2. IsFiniteSet(1 .. Len(orders))
  BY <1>1, FS_Interval
<1>3. IsFiniteSet(Lost)
  BY <1>1, <1>2, FS_Subset DEF Lost
<1>4. faults \in Nat
  BY BoundsAssumption DEF BooksInv, RoundInv
<1> QED
  BY <1>1, <1>3, <1>4, FS_CardinalityType

(* A row that is closed tells of the same order.                           *)
LEMMA LostCloses ==
  ASSUME IInv, BooksInv, Closes(db, db'), OrdersKept
  PROVE  Lost' = Lost \cup (DOMAIN orders' \ DOMAIN orders)
<1>1. /\ DOMAIN db'.sale_tx = DOMAIN db.sale_tx
      /\ DOMAIN db'.buy_tx = DOMAIN db.buy_tx
      /\ \A i \in DOMAIN db.sale_tx :
           db'.sale_tx[i].order_id = db.sale_tx[i].order_id
      /\ \A i \in DOMAIN db.buy_tx :
           db'.buy_tx[i].order_id = db.buy_tx[i].order_id
  BY DEF Closes, ClosesOnly
<1>2. /\ \A i \in DOMAIN db.sale_tx : db.sale_tx[i].order_id \in DOMAIN orders
      /\ \A i \in DOMAIN db.buy_tx : db.buy_tx[i].order_id \in DOMAIN orders
      /\ DOMAIN orders \subseteq DOMAIN orders'
  BY DEF BooksInv, RowsInv, RowsTell, OrdersKept
<1> QED
  BY <1>1, <1>2 DEF Lost

LEMMA LostRecords ==
  ASSUME IInv, BooksInv, Records
  PROVE  Lost' = Lost \ {call.id} /\ call.id \in Lost
<1>1. pc = "call" /\ call.step = "done" /\ orders' = orders
  BY RecordsAt DEF CallEnds
<1>2. call.id \in Lost
  BY <1>1, NotTold DEF Lost
<1>3. CASE side = "sale"
  <2>1. /\ AddsRow(db.sale_tx, db'.sale_tx, Len(db.sale_tx) + 1,
                   call.req.seg, call.id)
        /\ db'.buy_tx = db.buy_tx
    BY <1>3, Recorded
  <2> QED
    BY <1>1, <1>2, <2>1 DEF AddsRow, Lost
<1>4. CASE side # "sale"
  <2>1. /\ AddsRow(db.buy_tx, db'.buy_tx, Len(db.buy_tx) + 1,
                   call.req.seg, call.id)
        /\ db'.sale_tx = db.sale_tx
    BY <1>4, Recorded
  <2> QED
    BY <1>1, <1>2, <2>1 DEF AddsRow, Lost
<1> QED
  BY <1>3, <1>4

(* A post reaches the exchange: one more order without a row.              *)
LEMMA LostAccepts ==
  ASSUME IInv, BooksInv, Closes(db, db'), NEW req, Accept(req)
  PROVE  /\ Cardinality(Lost') = Cardinality(Lost) + 1
         /\ Len(orders') = Len(orders) + 1
<1> DEFINE n == Len(orders) + 1
<1>1. /\ OrdersKept /\ DOMAIN orders' = DOMAIN orders \cup {n}
      /\ n \notin DOMAIN orders /\ Len(orders') = n
  BY AcceptKeeps DEF BooksInv, PluginsInv
<1>2. Lost' = Lost \cup {n} /\ n \notin Lost
  <2>1. Lost' = Lost \cup (DOMAIN orders' \ DOMAIN orders)
    BY <1>1, LostCloses
  <2> QED
    BY <1>1, <2>1 DEF Lost
<1> HIDE DEF n
<1>3. Cardinality(Lost') = Cardinality(Lost) + 1
  BY <1>2, CountsTyped, FS_AddElement
<1> QED
  BY <1>1, <1>3 DEF n

LEMMA LostSame ==
  ASSUME IInv, BooksInv, Closes(db, db'), OrdersKept,
         DOMAIN orders' = DOMAIN orders
  PROVE  Lost' = Lost
BY LostCloses DEF Lost

LEMMA SameLength ==
  ASSUME BooksInv, Api!AInv', DOMAIN orders' = DOMAIN orders
  PROVE  Len(orders') = Len(orders)
<1>1. Len(orders) \in Nat /\ DOMAIN orders = 1 .. Len(orders)
  BY CountsTyped
<1>2. orders' \in Seq(Api!Book)
  BY DEF Api!AInv, Api!BookInv
<1>3. Len(orders') \in Nat /\ DOMAIN orders' = 1 .. Len(orders')
  BY <1>2
<1> QED
  BY <1>1, <1>3

(* A set with at most one more member.                                     *)
LEMMA OneMore ==
  ASSUME NEW S, IsFiniteSet(S), NEW x
  PROVE  Cardinality(S \cup {x}) \in {Cardinality(S), Cardinality(S) + 1}
<1>1. Cardinality(S \cup {x}) = IF x \in S THEN Cardinality(S) ELSE Cardinality(S) + 1
  BY FS_AddElement
<1> QED
  BY <1>1

LEMMA CountStep ==
  ASSUME IInv, BooksInv, [Next]_vars
  PROVE  CountInv'
<1> DEFINE lost == Cardinality(Lost)
           fly  == Cardinality(inflight)
           n    == Len(orders)
           done == Doing("done")
           post == Doing("post")
<1>1. /\ lost \in Nat /\ fly \in Nat /\ n \in Nat /\ faults \in Nat
      /\ MaxOrders \in Nat
      /\ lost + fly <= faults + done
      /\ n + post + fly <= MaxOrders + faults
      /\ faults' = faults \/ faults' = faults + 1
  BY CountsTyped, FaultsStep, BoundsAssumption DEF BooksInv, CountInv
<1>2. IsFiniteSet(inflight) /\ Api!AInv' /\ OrdersKept
  BY CountsTyped, ApiStep
<1>0. /\ done = IF call.step = "done" THEN 1 ELSE 0
      /\ post = IF call.step = "post" THEN 1 ELSE 0
      /\ done' = IF call'.step = "done" THEN 1 ELSE 0
      /\ post' = IF call'.step = "post" THEN 1 ELSE 0
  BY DEF Doing
<1> HIDE DEF lost, fly, n, done, post
<1>3. SUFFICES /\ lost' + fly' <= faults' + done'
               /\ n' + post' + fly' <= MaxOrders + faults'
  BY DEF CountInv, lost, fly, n, done, post
<1>4. CASE Records
  <2>1. /\ call.step = "done" /\ call'.step = "idle" /\ orders' = orders
        /\ inflight' = inflight
    BY <1>4, RecordsAt DEF CallEnds, Idle
  <2>2. lost' = lost - 1
    <3>1. Lost' = Lost \ {call.id} /\ call.id \in Lost /\ IsFiniteSet(Lost)
      BY <1>4, LostRecords, CountsTyped
    <3>2. Cardinality(Lost \ {call.id}) = Cardinality(Lost) - 1
      BY <3>1, FS_RemoveElement
    <3> QED
      BY <3>1, <3>2 DEF lost
  <2>3. fly' = fly /\ n' = n
    BY <2>1 DEF fly, n
  <2> QED
    BY <1>0, <1>1, <2>1, <2>2, <2>3
<1>5. CASE ~ Records
  <2>1. Closes(db, db')
    BY <1>5, TablesKept
  <2>2. ASSUME DOMAIN orders' = DOMAIN orders PROVE lost' = lost /\ n' = n
    BY <1>2, <2>1, <2>2, LostSame, SameLength DEF lost, n
  <2>3. ASSUME NEW req, Accept(req) PROVE lost' = lost + 1 /\ n' = n + 1
    BY <2>1, <2>3, LostAccepts DEF lost, n
  <2>4. CASE UNCHANGED apivars
    <3>1. lost' = lost /\ n' = n /\ fly' = fly /\ call' = call
      BY <2>2, <2>4 DEF apivars, fly
    <3> QED
      BY <1>0, <1>1, <3>1
  <2>5. CASE OrderMoves
    <3>1. lost' = lost /\ n' = n /\ fly' = fly /\ call' = call
      BY <2>2, <2>5, MovesSafe DEF fly
    <3> QED
      BY <1>0, <1>1, <3>1
  <2>6. CASE CallStep
    <3>1. PostTaken \/ PostPending \/ CallOver
      BY <2>6, CallStepEffect
    <3>2. CASE PostTaken
      <4>1. lost' = lost + 1 /\ n' = n + 1 /\ fly' = fly
        BY <2>3, <3>2 DEF PostTaken, fly
      <4> QED
        BY <1>0, <1>1, <3>2, <4>1 DEF PostTaken
    <3>3. CASE PostPending
      <4>1. lost' = lost /\ n' = n
        BY <2>2, <3>3 DEF PostPending
      <4>2. fly' = fly \/ fly' = fly + 1
        <5>1. inflight' = inflight \cup {call.req} /\ IsFiniteSet(inflight \cup {call.req})
          BY <1>2, <3>3, FS_AddElement DEF PostPending
        <5> QED
          BY <1>2, <5>1, OneMore, FS_CardinalityType DEF fly
      <4>3. /\ done = 0 /\ post = 1 /\ done' = 0 /\ post' = 0
            /\ faults' = faults + 1
        BY <1>0, <3>3 DEF PostPending
      <4> QED
        BY <1>1, <4>1, <4>2, <4>3
    <3>4. CASE CallOver
      <4>1. lost' = lost /\ n' = n /\ fly' = fly
        BY <2>2, <3>4 DEF CallOver, fly
      <4> QED
        BY <1>0, <1>1, <3>4, <4>1 DEF CallOver
    <3> QED
      BY <3>1, <3>2, <3>3, <3>4
  <2>7. CASE PlaceSale \/ PlaceBuy
    <3>1. /\ UNCHANGED <<orders, inflight>> /\ call'.step = "post"
          /\ pc = "scan" /\ Len(orders) < MaxOrders
      BY <2>7, PlacesSafe, Places
    <3>2. call.step = "idle"
      BY <3>1 DEF BooksInv, RoundInv
    <3>3. lost' = lost /\ n' = n /\ fly' = fly /\ n < MaxOrders
      BY <2>2, <3>1 DEF fly, n
    <3> QED
      BY <1>0, <1>1, <3>1, <3>2, <3>3
  <2>8. CASE Ending
    <3>1. CallEnds /\ call'.step = "idle"
      BY <2>8, EndingEnds DEF CallEnds, Idle
    <3>2. lost' = lost /\ n' = n
      BY <2>2, <3>1 DEF CallEnds
    <3>3. CASE CallThrows
      <4>1. call.step = "throw" /\ fly' = fly
        BY <3>1, <3>3 DEF CallThrows, CallEnds, fly
      <4> QED
        BY <1>0, <1>1, <3>1, <3>2, <4>1
    <3>4. CASE InsertFails \/ Crash
      <4>1. faults' = faults + 1
        BY <3>4 DEF InsertFails, Crash, Fault
      <4>2. CASE call.step = "post"
        <5>1. inflight' = inflight \cup {call.req} /\ IsFiniteSet(inflight \cup {call.req})
          BY <1>2, <3>1, <4>2, FS_AddElement DEF CallEnds
        <5>2. fly' = fly \/ fly' = fly + 1
          BY <1>2, <5>1, OneMore, FS_CardinalityType DEF fly
        <5>3. done = 0 /\ post = 1 /\ done' = 0 /\ post' = 0
          BY <1>0, <3>1, <4>2
        <5> QED
          BY <1>1, <3>2, <4>1, <5>2, <5>3
      <4>3. CASE call.step # "post"
        <5>1. fly' = fly
          BY <3>1, <4>3 DEF CallEnds, fly
        <5> QED
          BY <1>0, <1>1, <3>1, <3>2, <4>1, <4>3, <5>1
      <4> QED
        BY <4>2, <4>3
    <3>5. CASE Insert
      BY <1>5, <3>5 DEF Records, Insert
    <3> QED
      BY <2>8, <3>3, <3>4, <3>5 DEF Ending
  <2>9. CASE Late
    <3>1. PICK req \in inflight : ArriveLate(req) \/ DropLate(req)
      BY <2>9 DEF Late
    <3>2. inflight' = inflight \ {req} /\ call' = call
      BY <3>1 DEF ArriveLate, DropLate
    <3>3. fly' = fly - 1
      BY <1>2, <3>2, FS_RemoveElement DEF fly
    <3>4. \/ lost' = lost + 1 /\ n' = n + 1
          \/ lost' = lost /\ n' = n
      BY <2>2, <2>3, <3>1 DEF ArriveLate, DropLate
    <3> QED
      BY <1>0, <1>1, <3>2, <3>3, <3>4
  <2> QED
    BY <2>4, <2>5, <2>6, <2>7, <2>8, <2>9, ApiSteps
<1> QED
  BY <1>4, <1>5

-----------------------------------------------------------------------------
(* The invariant holds.                                                    *)

LEMMA BooksInit ==
  ASSUME Init
  PROVE  BooksInv
<1>1. /\ DbInit /\ ApiInit /\ RoundInit /\ pc = "new_sale" /\ faults = 0
  BY DEF Init
<1>2. /\ DOMAIN db.sale_tx = {} /\ DOMAIN db.buy_tx = {} /\ txn = NoTxn
      /\ orders = <<>> /\ DOMAIN orders = {} /\ inflight = {} /\ call = Idle
  BY <1>1 DEF DbInit, ApiInit
<1>3. PluginsInv
  <2>1. Client!IInv /\ Client!WInv /\ Client!VInv
    BY <1>1, SameDbInit, Client!InitIInv, Client!InitWInv, Client!InitVInv,
       ClientAssumptions
  <2>2. Api!AInv
    BY <1>1, SameApiInit, Api!AInit, ApiAssumptions
  <2> QED
    BY <2>1, <2>2 DEF PluginsInv
<1>4. RoundInv
  <2>1. faults \in 0 .. MaxFaults /\ depth \in Int /\ count \in Nat
    BY <1>1, BoundsAssumption DEF RoundInit
  <2> QED
    BY <1>1, <1>2, <2>1 DEF RoundInv, RoundInit, Labels, Settling, Placing,
       NoTxn, Idle
<1>5. TodoInv
  BY <1>1 DEF TodoInv, Settling
<1>6. RowsInv /\ ClosedRowsAreFinal
  BY <1>2 DEF RowsInv, RowsTell, ClosedRowsAreFinal
<1>7. DealInv
  BY <1>2 DEF DealInv, NoTxn
<1>8. CountInv
  <2>1. Lost = {}
    BY <1>2 DEF Lost
  <2>2. Cardinality({}) = 0
    BY FS_EmptySet
  <2>3. Len(orders) = 0 /\ Doing("post") = 0 /\ Doing("done") = 0
    BY <1>2 DEF Doing, Idle
  <2> QED
    BY <1>1, <1>2, <2>1, <2>2, <2>3, BoundsAssumption DEF CountInv
<1> QED
  BY <1>3, <1>4, <1>5, <1>6, <1>7, <1>8 DEF BooksInv

LEMMA BooksStep ==
  ASSUME IInv, BooksInv, [Next]_vars
  PROVE  BooksInv'
BY PluginsStep, RoundStep, TodoStep, RowsStep, DealStep, CountStep, FinalStep
   DEF BooksInv

-----------------------------------------------------------------------------
(* The theorems.                                                           *)

(* The books, the exchange and the locals of the round agree: the          *)
(* inductive invariant of this module, in every reachable state.           *)
THEOREM BooksInvariance == Spec => []BooksInv
<1>1. Init => BooksInv
  BY BooksInit
<1>2. IInv /\ BooksInv /\ [Next]_vars => BooksInv'
  BY BooksStep
<1> QED
  BY <1>1, <1>2, LoopInvariance, PTL DEF Spec

(* Every variable of the loop keeps the values its declaration promises,   *)
(* the row ids kept over a round stay ids of rows, and no transaction and  *)
(* no call outlives the place of the loop that opened it.                  *)
THEOREM GridTypeCorrect == Spec => []GridTypeOK
<1>1. IInv /\ BooksInv => GridTypeOK
  <2> SUFFICES ASSUME IInv, BooksInv PROVE GridTypeOK
    OBVIOUS
  <2>1. db \in Tables
    BY TypedRows DEF BooksInv, PluginsInv
  <2>2. /\ side \in Sides
        /\ sellings \subseteq DOMAIN db.sale_tx /\ buyings \subseteq DOMAIN db.buy_tx
        /\ Placing => todo \subseteq Segs
    BY DEF IInv, ListInv, CallInv
  <2>3. RoundInv
    BY DEF BooksInv
  <2>4. todo \subseteq IF pc \in {"scan", "call"} THEN Segs
                      ELSE IF side = "sale" THEN sellings ELSE buyings
    BY <2>2, <2>3 DEF RoundInv, Placing
  <2>5. txn.op # "none" <=> pc = "deliver"
    BY <2>2, <2>3 DEF RoundInv, Sides
  <2>6. sold_list \subseteq delivered_sale_array
    BY <2>3 DEF RoundInv
  <2>7. pc \in {"new_sale", "new_buy", "settle", "cancel", "deliver", "price",
                "sold", "scan", "call", "timer", "down"}
    BY <2>3 DEF RoundInv, Labels
  <2> QED
    BY <2>1, <2>2, <2>3, <2>4, <2>5, <2>6, <2>7 DEF GridTypeOK, RoundInv
<1> QED
  BY <1>1, BooksInvariance, LoopInvariance, PTL

(* A closed row of the database says what its order finally traded at the  *)
(* exchange, after any failed calls, failed commits and crashes.           *)
THEOREM ClosedFinal == Spec => []ClosedRowsAreFinal
<1>1. BooksInv => ClosedRowsAreFinal
  BY DEF BooksInv
<1> QED
  BY <1>1, BooksInvariance, PTL

(* An order at the exchange that no row tells of has cost a failure: as    *)
(* long as no call fails and the program does not die, there is none.      *)
THEOREM OrphansCost == Spec => []OrphansNeedFaults
<1>1. BooksInv => OrphansNeedFaults
  <2> SUFFICES ASSUME BooksInv PROVE OrphansNeedFaults
    OBVIOUS
  <2>1. /\ IsFiniteSet(Lost) /\ Cardinality(Lost) \in Nat
        /\ Cardinality(inflight) \in Nat /\ faults \in Nat
        /\ Cardinality(Lost) + Cardinality(inflight) <= faults + Doing("done")
    BY CountsTyped DEF BooksInv, CountInv
  <2>2. Orphans \subseteq Lost
    BY DEF Orphans, Lost
  <2>3. CASE call.step # "done"
    <3>1. Cardinality(Orphans) \in Nat /\ Cardinality(Orphans) <= Cardinality(Lost)
      BY <2>1, <2>2, FS_Subset, FS_CardinalityType
    <3>2. Doing("done") = 0
      BY <2>3 DEF Doing
    <3> QED
      BY <2>1, <3>1, <3>2 DEF OrphansNeedFaults
  <2>4. CASE call.step = "done"
    <3> DEFINE S == Lost \ {call.id}
    <3>1. pc = "call"
      BY <2>4 DEF BooksInv, RoundInv
    <3>2. /\ call.id \in DOMAIN orders /\ orders[call.id].cid = call.req.cid
          /\ call.id \in Lost
      BY <2>4, <3>1, NotTold DEF Lost, Api!IsOf
    <3>3. Orphans \subseteq S
      BY <2>2, <3>2 DEF Orphans
    <3>4. IsFiniteSet(S) /\ Cardinality(S) = Cardinality(Lost) - 1
      BY <2>1, <3>2, FS_RemoveElement
    <3> HIDE DEF S
    <3>5. Cardinality(Orphans) \in Nat /\ Cardinality(Orphans) <= Cardinality(S)
      BY <3>3, <3>4, FS_Subset, FS_CardinalityType
    <3>6. Doing("done") = 1
      BY <2>4 DEF Doing
    <3> QED
      BY <2>1, <3>4, <3>5, <3>6 DEF OrphansNeedFaults
  <2> QED
    BY <2>3, <2>4
<1> QED
  BY <1>1, BooksInvariance, PTL

(* The loop is a client of the database as TradeDbSpec describes it: fresh *)
(* ids, closings of rows it has read as open, one transaction at a time.   *)
(* So all that is proved of the plugin holds of the program.               *)
THEOREM ClientOfDatabase == Spec => Client!DbSpec
<1>1. Init => Client!DbInit
  BY SameDbInit DEF Init
<1>2. IInv /\ BooksInv /\ [Next]_vars => [Client!DbNext]_(Client!dbvars)
  BY ClientStep DEF dbvars, Client!dbvars
<1> QED
  BY <1>1, <1>2, LoopInvariance, BooksInvariance, PTL DEF Spec, Client!DbSpec

(* The program as a whole implements the segment ledger, and keeps the     *)
(* books of every sale balanced, recorded and valued.                      *)
THEOREM ProgramKeepsLedger ==
  Spec => /\ Client!LedgerSpec
          /\ []Client!SaleRowBalance
          /\ []Client!ClosedIffHistory
          /\ []Client!ValidStandsForFree
<1>1. Client!DbSpec => Client!LedgerSpec
  BY Client!ImplementsLedger, ClientAssumptions
<1>2. Client!DbSpec => []Client!SaleRowBalance
  BY Client!Balance, ClientAssumptions
<1>3. Client!DbSpec => []Client!ClosedIffHistory
  BY Client!ClosedRecorded, ClientAssumptions
<1>4. Client!DbSpec => []Client!ValidStandsForFree
  BY Client!ValidForFree, ClientAssumptions
<1> QED
  BY <1>1, <1>2, <1>3, <1>4, ClientOfDatabase, PTL

(* One call of new_order never places two orders, and the id it returns is *)
(* that of its own order, in the whole program: also when the program has  *)
(* died in a call and its post arrives in the middle of a later one.       *)
THEOREM ProgramPlacesOnce ==
  Spec => [](Api!OneOrderPerCall /\ Api!ReturnsItsOwnOrder)
<1>1. BooksInv => Api!OneOrderPerCall /\ Api!ReturnsItsOwnOrder
  <2> SUFFICES ASSUME BooksInv
               PROVE  Api!OneOrderPerCall /\ Api!ReturnsItsOwnOrder
    OBVIOUS
  <2>1. Api!AInv
    BY DEF BooksInv, PluginsInv
  <2>2. Api!OneOrderPerCall
    BY <2>1 DEF Api!AInv, Api!BookInv
  <2>3. Api!ReturnsItsOwnOrder
    BY <2>1 DEF Api!AInv, Api!CallInv, Api!Calls, Api!Posts, Api!IsOf,
       Api!ReturnsItsOwnOrder
  <2> QED
    BY <2>2, <2>3
<1> QED
  BY <1>1, BooksInvariance, PTL

-----------------------------------------------------------------------------
(* What a commit leaves of the sales of a segment.                         *)

(* Row q is row p, or what a buy of segment s has left of it.              *)
Charged(p, q, s) ==
  \/ q = p
  \/ /\ Unspent(p) /\ p.seg_id = s /\ SameDeal(p, q)
     /\ q.free_buy_amount <= p.free_buy_amount

LEMMA CommitCharges ==
  ASSUME Client!IInv, Client!WInv, Commit
  PROVE  LET n == txn.tx.id IN
         /\ txn.op = "sale" => n \in OpenSales
         /\ txn.op = "buy" =>
              /\ n \in OpenBuys
              /\ \A i \in DOMAIN db.sale_tx :
                   Charged(db.sale_tx[i], db'.sale_tx[i], db.buy_tx[n].seg_id)
<1> DEFINE n == txn.tx.id
           seg == db.buy_tx[n].seg_id
           rows == db.sale_tx
<1>1. db' = work /\ txn.step = "commit" /\ txn.op \in {"sale", "buy"}
  BY DEF Commit, Client!IInv, Client!TxnOK
<1>2. ASSUME txn.op = "sale" PROVE n \in OpenSales
  BY <1>2 DEF Client!WInv, Client!SaleWritten, Client!IInv, Client!TxnOK,
              Client!SaleTxn, OpenSales, db_tx_processing, Client!db_tx_processing
<1>3. CASE txn.op = "buy"
  <2>1. /\ n \in DOMAIN db.buy_tx /\ Client!BuyWritten
        /\ \E res \in LegalResults : txn.tx = Client!complete_buy_order(n, res)
    BY <1>3 DEF Client!WInv, Client!IInv, Client!TxnOK, Client!BuyTxn
  <2>2. n \in OpenBuys
    BY <2>1 DEF Client!BuyWritten, OpenBuys, db_tx_processing,
                Client!db_tx_processing
  <2>3. txn.tx.deal_amount \in Int
    BY <2>1 DEF Client!complete_buy_order, LegalResults, OrderResults
  <2>4. Client!GoodRows(rows)
    BY SameTables DEF Client!IInv, Client!RowsOK, Client!GoodRows,
                      Client!Tables, Client!SaleRows
  <2>5. ASSUME NEW i \in DOMAIN rows
        PROVE  Charged(rows[i], work.sale_tx[i], seg)
    <3> DEFINE paid == Client!Paid(rows, seg, txn.tx.deal_amount, i)
    <3>1. CASE work.sale_tx[i] = rows[i]
      BY <3>1 DEF Charged
    <3>2. CASE work.sale_tx[i] # rows[i]
      <4>1. /\ i \in Client!Asked(rows, seg)
            /\ Client!PaysOut(rows[i], work.sale_tx[i], paid)
        BY <1>1, <2>1, <3>2 DEF Client!BuyWritten, Client!BuySpent
      <4>2. paid \in Int /\ paid >= 0
        BY <2>3, <2>4, Client!PaidInt, ClientAssumptions
      <4>3. rows[i].free_buy_amount \in Int
        BY TypedRows DEF SaleRows
      <4> HIDE DEF paid
      <4>4. /\ work.sale_tx[i].free_buy_amount <= rows[i].free_buy_amount
            /\ SameDeal(rows[i], work.sale_tx[i])
        BY <4>1, <4>2, <4>3 DEF Client!PaysOut, SameDeal
      <4>5. Unspent(rows[i]) /\ rows[i].seg_id = seg
        BY <4>1, SameUnspent DEF Client!Asked
      <4> QED
        BY <4>4, <4>5 DEF Charged
    <3> QED
      BY <3>1, <3>2
  <2> QED
    BY <1>1, <1>3, <2>2, <2>5
<1> QED
  BY <1>1, <1>2, <1>3

-----------------------------------------------------------------------------
(* The money and the coins of a segment, as the rows count them.           *)

SoldRows(rows, s) == {i \in DOMAIN rows : Unspent(rows[i]) /\ rows[i].seg_id = s}

Valids(rows) == [i \in DOMAIN rows |-> rows[i].valid_sale_number]

FreeIn(rows, s) == SumFunctionOnSet([i \in DOMAIN rows |-> rows[i].free_buy_amount],
                                    SoldRows(rows, s))

ValidIn(rows, s) == SumFunctionOnSet(Valids(rows), SoldRows(rows, s))

(* BuyBacked, of any tables.                                               *)
Backed(sales, buys) ==
  \A j \in DOMAIN buys :
    buys[j].status = db_tx_processing =>
      buys[j].buy_amount = FreeIn(sales, buys[j].seg_id)

LEMMA BackedNow == BuyBacked <=> Backed(db.sale_tx, db.buy_tx)
<1>1. ASSUME NEW s
      PROVE  delivered_sale_array \cap SalesOf(s) = SoldRows(db.sale_tx, s)
  BY DEF delivered_sale_array, SalesOf, SoldRows
<1> QED
  BY <1>1 DEF BuyBacked, Backed, OpenBuys, FreeIn, FreeAmounts

LEMMA BackedNext == BuyBacked' <=> Backed(db'.sale_tx, db'.buy_tx)
<1>1. ASSUME NEW s
      PROVE  delivered_sale_array' \cap SalesOf(s)' = SoldRows(db'.sale_tx, s)
  BY DEF delivered_sale_array, SalesOf, SoldRows
<1> QED
  BY <1>1 DEF BuyBacked, Backed, OpenBuys, FreeIn, FreeAmounts

(* The loop sums up the same rows while it places orders.                  *)
LEMMA PlacingSums ==
  ASSUME sold_list = delivered_sale_array, NEW s
  PROVE  /\ get_free_amount(s) = FreeIn(db.sale_tx, s)
         /\ get_sold_number(s) = ValidIn(db.sale_tx, s)
<1>1. SoldIn(s) = SoldRows(db.sale_tx, s)
  BY DEF SoldIn, SoldRows, delivered_sale_array
<1> QED
  BY <1>1 DEF get_free_amount, get_sold_number, FreeIn, ValidIn, FreeAmounts,
              ValidNumbers, Valids

(* Rows of the segment that stay as they are, and new ones without a deal, *)
(* leave its sums alone.                                                   *)
Untouched(p, q, s) ==
  /\ DOMAIN p \subseteq DOMAIN q
  /\ \A i \in DOMAIN p : /\ q[i].seg_id = p[i].seg_id
                         /\ p[i].seg_id = s => q[i] = p[i]
  /\ \A i \in DOMAIN q \ DOMAIN p : q[i].status = db_tx_processing

LEMMA UntouchedSums ==
  ASSUME NEW p, NEW q, NEW s, IsFiniteSet(DOMAIN p), Untouched(p, q, s)
  PROVE  /\ SoldRows(q, s) = SoldRows(p, s)
         /\ FreeIn(q, s) = FreeIn(p, s)
         /\ ValidIn(q, s) = ValidIn(p, s)
<1>1. ASSUME NEW i \in DOMAIN q \ DOMAIN p
      PROVE  ~ Unspent(q[i])
  BY DEF Untouched, Unspent, db_tx_processing, db_tx_complet_closed,
         db_tx_portion_closed
<1>2. SoldRows(q, s) = SoldRows(p, s)
  BY <1>1 DEF SoldRows, Untouched
<1>3. IsFiniteSet(SoldRows(p, s))
  BY FS_Subset DEF SoldRows
<1>4. \A i \in SoldRows(p, s) : i \in DOMAIN p /\ i \in DOMAIN q /\ q[i] = p[i]
  BY DEF SoldRows, Untouched
<1>5. FreeIn(q, s) = FreeIn(p, s)
  <2> DEFINE f == [i \in DOMAIN p |-> p[i].free_buy_amount]
             g == [i \in DOMAIN q |-> q[i].free_buy_amount]
  <2>1. \A i \in SoldRows(p, s) : g[i] = f[i]
    BY <1>4
  <2> HIDE DEF f, g
  <2>2. SumFunctionOnSet(g, SoldRows(p, s)) = SumFunctionOnSet(f, SoldRows(p, s))
    BY <1>3, <2>1, SumSame
  <2> QED
    BY <1>2, <2>2 DEF FreeIn, f, g
<1>6. ValidIn(q, s) = ValidIn(p, s)
  <2>1. \A i \in SoldRows(p, s) : Valids(q)[i] = Valids(p)[i]
    BY <1>4 DEF Valids
  <2>2. SumFunctionOnSet(Valids(q), SoldRows(p, s))
          = SumFunctionOnSet(Valids(p), SoldRows(p, s))
    BY <1>3, <2>1, SumSame
  <2> QED
    BY <1>2, <2>2 DEF ValidIn
<1> QED
  BY <1>2, <1>5, <1>6

-----------------------------------------------------------------------------
(* An open buy stays backed.                                               *)

LEMMA CommitUntouched ==
  ASSUME IInv, BooksInv, Commit, NEW s,
         txn.op = "sale" => db.sale_tx[txn.tx.id].seg_id # s,
         txn.op = "buy" => db.buy_tx[txn.tx.id].seg_id # s
  PROVE  Untouched(db.sale_tx, db'.sale_tx, s)
<1> DEFINE n == txn.tx.id
<1>1. /\ DOMAIN db'.sale_tx = DOMAIN db.sale_tx
      /\ (txn.op = "sale" /\ CommitsSale) \/ (txn.op = "buy" /\ CommitsBuy)
  BY CommitWrites DEF BooksInv, PluginsInv
<1>2. CASE txn.op = "sale" /\ CommitsSale
  <2>1. n \in OpenSales /\ db.sale_tx[n] \in SaleRows
    BY <1>2, CommitCharges, TypedRows DEF BooksInv, PluginsInv, OpenSales
  <2>2. db'.sale_tx[n].seg_id = db.sale_tx[n].seg_id
    BY <1>2, <2>1 DEF CommitsSale, Client!WrittenSale, SaleRows
  <2> QED
    BY <1>1, <1>2, <2>1, <2>2 DEF CommitsSale, Untouched
<1>3. CASE txn.op = "buy" /\ CommitsBuy
  <2>1. \A i \in DOMAIN db.sale_tx :
          Charged(db.sale_tx[i], db'.sale_tx[i], db.buy_tx[n].seg_id)
    BY <1>3, CommitCharges DEF BooksInv, PluginsInv
  <2> QED
    BY <1>1, <1>3, <2>1 DEF Charged, SameDeal, Untouched
<1> QED
  BY <1>1, <1>2, <1>3

LEMMA BackedCommit ==
  ASSUME IInv, BooksInv, BuyBacked, Commit
  PROVE  BuyBacked'
<1> DEFINE n == txn.tx.id
<1>1. /\ DOMAIN db'.buy_tx = DOMAIN db.buy_tx
      /\ (txn.op = "sale" /\ CommitsSale) \/ (txn.op = "buy" /\ CommitsBuy)
      /\ txn.op = "sale" => n \in OpenSales
      /\ txn.op = "buy" => n \in OpenBuys
      /\ IsFiniteSet(DOMAIN db.sale_tx)
  BY CommitWrites, CommitCharges, TypedRows DEF BooksInv, PluginsInv
<1>2. txn.op = "buy" => db'.buy_tx[n].status # db_tx_processing
  <2>1. ASSUME txn.op = "buy"
        PROVE  /\ txn.tx.status # db_tx_processing /\ CommitsBuy
               /\ n \in DOMAIN db.buy_tx /\ db.buy_tx[n] \in BuyRows
    BY <1>1, <2>1, TypedRows
       DEF IInv, DbInv, TxnShape, OpenBuys, BooksInv, PluginsInv
  <2> QED
    BY <2>1 DEF CommitsBuy, Client!WrittenBuy, BuyRows
<1>3. ASSUME NEW j \in DOMAIN db'.buy_tx,
             db'.buy_tx[j].status = db_tx_processing
      PROVE  db'.buy_tx[j].buy_amount = FreeIn(db'.sale_tx, db'.buy_tx[j].seg_id)
  <2> DEFINE s == db.buy_tx[j].seg_id
  <2>1. db'.buy_tx[j] = db.buy_tx[j] /\ (txn.op = "buy" => j # n)
    BY <1>1, <1>2, <1>3 DEF CommitsSale, CommitsBuy
  <2>2. j \in OpenBuys
    BY <1>1, <1>3, <2>1 DEF OpenBuys
  <2>3. /\ txn.op = "sale" => db.sale_tx[n].seg_id # s
        /\ txn.op = "buy" => db.buy_tx[n].seg_id # s
    BY <1>1, <2>1, <2>2 DEF IInv, OnePendingPerSegment
  <2>4. Untouched(db.sale_tx, db'.sale_tx, s)
    BY <2>3, CommitUntouched
  <2>5. FreeIn(db'.sale_tx, s) = FreeIn(db.sale_tx, s)
    BY <1>1, <2>4, UntouchedSums
  <2>6. db.buy_tx[j].buy_amount = FreeIn(db.sale_tx, s)
    BY <2>2, BackedNow DEF Backed, OpenBuys
  <2> QED
    BY <2>1, <2>5, <2>6
<1> QED
  BY <1>3, BackedNext DEF Backed

LEMMA BackedRecord ==
  ASSUME IInv, BooksInv, BuyBacked, Records
  PROVE  BuyBacked'
<1>1. /\ pc = "call" /\ sold_list = delivered_sale_array
      /\ IsFiniteSet(DOMAIN db.sale_tx)
  BY RecordsAt, TypedRows DEF BooksInv, PluginsInv, RoundInv, Placing
<1>2. Backed(db.sale_tx, db.buy_tx)
  BY BackedNow
<1>3. CASE side = "sale"
  <2>1. /\ AddsRow(db.sale_tx, db'.sale_tx, Len(db.sale_tx) + 1,
                   call.req.seg, call.id)
        /\ db'.sale_tx[Len(db.sale_tx) + 1] = NewSaleRow(call.req.seg, call.id)
        /\ db'.buy_tx = db.buy_tx
    BY <1>3, Recorded
  <2>2. \A s : Untouched(db.sale_tx, db'.sale_tx, s)
    BY <2>1 DEF AddsRow, NewSaleRow, Untouched
  <2>3. \A s : FreeIn(db'.sale_tx, s) = FreeIn(db.sale_tx, s)
    BY <1>1, <2>2, UntouchedSums
  <2> QED
    BY <1>2, <2>1, <2>3, BackedNext DEF Backed
<1>4. CASE side # "sale"
  <2> DEFINE n == Len(db.buy_tx) + 1
  <2>1. /\ AddsRow(db.buy_tx, db'.buy_tx, n, call.req.seg, call.id)
        /\ db'.buy_tx[n] =
             NewBuyRow(call.req.seg, call.id, get_free_amount(call.req.seg))
        /\ db'.sale_tx = db.sale_tx
    BY <1>4, Recorded
  <2>2. get_free_amount(call.req.seg) = FreeIn(db.sale_tx, call.req.seg)
    BY <1>1, PlacingSums
  <2>3. db'.buy_tx[n].buy_amount = FreeIn(db.sale_tx, db'.buy_tx[n].seg_id)
    BY <2>1, <2>2 DEF NewBuyRow
  <2> HIDE DEF n
  <2> QED
    BY <1>2, <2>1, <2>3, BackedNext DEF Backed, AddsRow
<1> QED
  BY <1>3, <1>4

LEMMA BackedStep ==
  ASSUME IInv, BooksInv, BuyBacked, [Next]_vars
  PROVE  BuyBacked'
<1>1. ASSUME db' = db PROVE BuyBacked'
  BY <1>1, BackedNow, BackedNext
<1>2. CASE UNCHANGED dbvars
  BY <1>1, <1>2 DEF dbvars
<1>3. CASE SettleClosed \/ Deliver
  BY <1>1, <1>3, CloseByClient DEF Deliver, Statement, update_sale_tx,
     insert_sale_history, update_buy_tx, insert_buy_history, select_unspent,
     use_sale_tx
<1>4. CASE Ended
  BY <1>1, <1>4, BackedCommit DEF Ended, Rollback
<1>5. CASE Records
  BY <1>5, BackedRecord
<1> QED
  BY <1>2, <1>3, <1>4, <1>5, DbSteps

-----------------------------------------------------------------------------
(* The coins of a segment.                                                 *)

OpenRows(rows, s) ==
  {i \in DOMAIN rows : rows[i].status = db_tx_processing /\ rows[i].seg_id = s}

(* The numbers of the orders os that rows tell of.                         *)
Ordered(rows, os) == [i \in DOMAIN rows |-> os[rows[i].order_id].number]

OpenIn(rows, os, s) == SumFunctionOnSet(Ordered(rows, os), OpenRows(rows, s))

WithinOf(n, s) == 2 * n <= 2 * SaleNumber[s] + NumTick

(* NeverOversold, of any tables and orders.                                *)
Within(rows, os) ==
  \A s \in Segs : WithinOf(ValidIn(rows, s) + OpenIn(rows, os, s), s)

(* The order being placed fits in what its segment has left.               *)
AskInv ==
  pc = "call" /\ side = "sale" =>
    WithinOf(ValidIn(db.sale_tx, call.req.seg) + call.req.number, call.req.seg)

LEMMA WithinNow == NeverOversold <=> Within(db.sale_tx, orders)
<1>1. ASSUME NEW s
      PROVE  /\ delivered_sale_array \cap SalesOf(s) = SoldRows(db.sale_tx, s)
             /\ OpenSales \cap SalesOf(s) = OpenRows(db.sale_tx, s)
  BY DEF delivered_sale_array, SalesOf, SoldRows, OpenSales, OpenRows
<1> QED
  BY <1>1 DEF NeverOversold, Within, WithinOf, ValidIn, Valids, ValidNumbers,
              OpenIn, Ordered

LEMMA WithinNext == NeverOversold' <=> Within(db'.sale_tx, orders')
<1>1. ASSUME NEW s
      PROVE  /\ delivered_sale_array' \cap SalesOf(s)' = SoldRows(db'.sale_tx, s)
             /\ OpenSales' \cap SalesOf(s)' = OpenRows(db'.sale_tx, s)
  BY DEF delivered_sale_array, SalesOf, SoldRows, OpenSales, OpenRows
<1> QED
  BY <1>1 DEF NeverOversold, Within, WithinOf, ValidIn, Valids, ValidNumbers,
              OpenIn, Ordered

(* The sums are numbers.                                                   *)
LEMMA SumsTyped ==
  ASSUME BooksInv, NEW s \in Segs
  PROVE  /\ ValidIn(db.sale_tx, s) \in Int /\ OpenIn(db.sale_tx, orders, s) \in Int
         /\ SaleNumber[s] \in Nat /\ NumTick \in Nat
         /\ IsFiniteSet(DOMAIN db.sale_tx)
         /\ \A i \in DOMAIN db.sale_tx :
              /\ db.sale_tx[i].order_id \in DOMAIN orders
              /\ orders[db.sale_tx[i].order_id].number \in Nat
              /\ db.sale_tx[i].valid_sale_number \in Int
<1> DEFINE rows == db.sale_tx
<1>1. /\ \A i \in DOMAIN rows : rows[i] \in SaleRows
      /\ \A S : S \subseteq DOMAIN rows => IsFiniteSet(S)
      /\ \A i \in DOMAIN rows : rows[i].order_id \in DOMAIN orders
      /\ \A i \in DOMAIN orders : orders[i] \in Api!Book
  BY TypedRows, TypedOrders DEF BooksInv, PluginsInv, RowsInv, RowsTell
<1>2. \A i \in DOMAIN rows : /\ orders[rows[i].order_id].number \in Nat
                             /\ rows[i].valid_sale_number \in Int
  BY <1>1 DEF SaleRows, Api!Book
<1>3. /\ SoldRows(rows, s) \subseteq DOMAIN rows
      /\ OpenRows(rows, s) \subseteq DOMAIN rows
  BY DEF SoldRows, OpenRows
<1>4. ValidIn(rows, s) \in Int
  <2>1. \A i \in SoldRows(rows, s) : Valids(rows)[i] \in Int
    BY <1>2, <1>3 DEF Valids
  <2> QED
    BY <1>1, <1>3, <2>1, SumInt DEF ValidIn
<1>5. OpenIn(rows, orders, s) \in Int
  <2>1. \A i \in OpenRows(rows, s) : Ordered(rows, orders)[i] \in Int
    BY <1>2, <1>3 DEF Ordered
  <2> QED
    BY <1>1, <1>3, <2>1, SumInt DEF OpenIn
<1>6. SaleNumber[s] \in Nat /\ NumTick \in Nat
  BY TacticsAssumption, TickAssumption
<1> QED
  BY <1>1, <1>2, <1>4, <1>5, <1>6

(* The exchange does not change how many coins an order is for.            *)
LEMMA OpenKept ==
  ASSUME OrdersKept, NEW rows, IsFiniteSet(DOMAIN rows),
         \A i \in DOMAIN rows : rows[i].order_id \in DOMAIN orders, NEW s
  PROVE  OpenIn(rows, orders', s) = OpenIn(rows, orders, s)
<1>1. IsFiniteSet(OpenRows(rows, s))
  BY FS_Subset DEF OpenRows
<1>2. \A i \in OpenRows(rows, s) : Ordered(rows, orders')[i] = Ordered(rows, orders)[i]
  BY DEF OpenRows, Ordered, OrdersKept, KeptAs
<1> QED
  BY <1>1, <1>2, SumSame DEF OpenIn

LEMMA WithinKept ==
  ASSUME OrdersKept, NEW rows, IsFiniteSet(DOMAIN rows),
         \A i \in DOMAIN rows : rows[i].order_id \in DOMAIN orders,
         Within(rows, orders)
  PROVE  Within(rows, orders')
BY OpenKept DEF Within

(* Rows of a segment that stay, and no new one.                            *)
LEMMA UntouchedOpen ==
  ASSUME NEW p, NEW q, NEW s, NEW os, IsFiniteSet(DOMAIN p), Untouched(p, q, s),
         \A i \in DOMAIN q \ DOMAIN p : q[i].seg_id # s
  PROVE  OpenIn(q, os, s) = OpenIn(p, os, s)
<1>1. OpenRows(q, s) = OpenRows(p, s)
  BY DEF OpenRows, Untouched
<1>2. IsFiniteSet(OpenRows(p, s))
  BY FS_Subset DEF OpenRows
<1>3. \A i \in OpenRows(p, s) : Ordered(q, os)[i] = Ordered(p, os)[i]
  BY DEF OpenRows, Ordered, Untouched
<1>4. SumFunctionOnSet(Ordered(q, os), OpenRows(p, s))
        = SumFunctionOnSet(Ordered(p, os), OpenRows(p, s))
  BY <1>2, <1>3, SumSame
<1> QED
  BY <1>1, <1>4 DEF OpenIn

-----------------------------------------------------------------------------
(* Recording a sale.                                                       *)

LEMMA WithinRecord ==
  ASSUME IInv, BooksInv, Within(db.sale_tx, orders), AskInv, Records
  PROVE  Within(db'.sale_tx, orders)
<1> DEFINE p == db.sale_tx
           q == db'.sale_tx
           t == call.req.seg
           n == Len(p) + 1
<1>1. pc = "call" /\ call.step = "done"
  BY RecordsAt
<1>2. CASE side # "sale"
  BY <1>2, Recorded
<1>3. CASE side = "sale"
  <2>1. /\ AddsRow(p, q, n, t, call.id) /\ q[n] = NewSaleRow(t, call.id)
    BY <1>3, Recorded
  <2>2. /\ call.id \in DOMAIN orders
        /\ orders[call.id].number = call.req.number
        /\ orders[call.id].number \in Nat
    BY <1>1, NotTold, TypedOrders DEF Api!IsOf, Api!Book, BooksInv, PluginsInv
  <2> HIDE DEF p, q, n
  <2>3. ASSUME NEW s \in Segs
        PROVE  /\ ValidIn(q, s) = ValidIn(p, s)
               /\ ValidIn(p, s) \in Int /\ IsFiniteSet(DOMAIN p)
               /\ Untouched(p, q, s)
    <3>1. Untouched(p, q, s)
      BY <2>1 DEF AddsRow, NewSaleRow, Untouched
    <3>2. IsFiniteSet(DOMAIN p) /\ ValidIn(p, s) \in Int
      BY <2>3, SumsTyped DEF p
    <3> QED
      BY <3>1, <3>2, UntouchedSums
  <2>4. ASSUME NEW s \in Segs, s # t
        PROVE  OpenIn(q, orders, s) = OpenIn(p, orders, s)
    BY <2>1, <2>3, <2>4, UntouchedOpen DEF AddsRow
  <2>5. t \in Segs => OpenIn(q, orders, t) = call.req.number
    <3>1. ASSUME NEW i \in OpenSales PROVE p[i].seg_id # t
      BY <1>1, <1>3, <3>1 DEF IInv, SalesInv, CallInv, Placing, Passed, p
    <3>2. OpenRows(q, t) = {n}
      BY <2>1, <3>1 DEF OpenRows, AddsRow, NewSaleRow, OpenSales, p
    <3>3. Ordered(q, orders)[n] = call.req.number
      BY <2>1, <2>2 DEF Ordered, AddsRow
    <3>4. SumFunctionOnSet(Ordered(q, orders), {n}) = Ordered(q, orders)[n]
      <4>1. Ordered(q, orders)[n] \in Int
        BY <2>2, <3>3
      <4> QED
        BY <4>1, SumOne, Zenon
    <3> QED
      BY <3>2, <3>3, <3>4 DEF OpenIn
  <2>6. ASSUME NEW s \in Segs
        PROVE  WithinOf(ValidIn(q, s) + OpenIn(q, orders, s), s)
    <3>1. CASE s = t
      BY <1>1, <1>3, <2>3, <2>5, <3>1 DEF AskInv, p
    <3>2. CASE s # t
      BY <2>3, <2>4, <3>2 DEF Within, p
    <3> QED
      BY <3>1, <3>2
  <2> QED
    BY <2>6 DEF Within, q
<1> QED
  BY <1>2, <1>3

-----------------------------------------------------------------------------
(* Closing a row.                                                          *)

(* Rows whose sums are numbers, and whose coins stand for their money.     *)
Rated(rows) ==
  /\ IsFiniteSet(DOMAIN rows)
  /\ \A i \in DOMAIN rows :
       /\ rows[i] \in SaleRows /\ rows[i].free_buy_amount \in Nat
       /\ Client!ValidRow(rows[i])

LEMMA RatedNow == BooksInv => Rated(db.sale_tx)
<1>1. SUFFICES ASSUME BooksInv PROVE Rated(db.sale_tx)
  OBVIOUS
<1>2. \A i \in DOMAIN db.sale_tx : Client!ValidRow(db.sale_tx[i])
  BY <1>1 DEF BooksInv, PluginsInv, Client!VInv, Client!ValidRows
<1>3. /\ \A i \in DOMAIN db.sale_tx : db.sale_tx[i] \in SaleRows
      /\ \A i \in DOMAIN db.sale_tx : FreeAmounts[i] \in Nat
      /\ IsFiniteSet(DOMAIN db.sale_tx)
  BY <1>1, TypedRows DEF BooksInv, PluginsInv
<1> QED
  BY <1>2, <1>3 DEF Rated, FreeAmounts

LEMMA RatedNext ==
  ASSUME BooksInv, PluginsInv', DOMAIN db'.sale_tx = DOMAIN db.sale_tx
  PROVE  Rated(db'.sale_tx)
<1>1. \A i \in DOMAIN db'.sale_tx : Client!ValidRow(db'.sale_tx[i])
  BY DEF PluginsInv, Client!VInv, Client!ValidRows
<1>2. db' \in Tables
  BY SameTables DEF PluginsInv, Client!IInv
<1>3. \A i \in DOMAIN db'.sale_tx : db'.sale_tx[i] \in SaleRows
  BY <1>2 DEF Tables
<1>4. \A i \in DOMAIN db'.sale_tx : db'.sale_tx[i].free_buy_amount >= 0
  BY DEF PluginsInv, Client!IInv, Client!RowsOK, Client!RowOK, Client!Balanced
<1>5. \A i \in DOMAIN db'.sale_tx : db'.sale_tx[i].free_buy_amount \in Nat
  BY <1>3, <1>4 DEF SaleRows
<1>6. IsFiniteSet(DOMAIN db'.sale_tx)
  BY TypedRows DEF BooksInv, PluginsInv
<1> QED
  BY <1>1, <1>3, <1>5, <1>6 DEF Rated

(* A sale that has been charged stands for no more coins than before.      *)
LEMMA ChargedStandsForLess ==
  ASSUME NEW p \in SaleRows, NEW q \in SaleRows, NEW s, Charged(p, q, s),
         p.free_buy_amount \in Nat, q.free_buy_amount \in Nat,
         Client!ValidRow(p), Client!ValidRow(q), Unspent(p)
  PROVE  /\ p.valid_sale_number \in Nat
         /\ q.valid_sale_number \in Int
         /\ q.valid_sale_number <= p.valid_sale_number
<1> DEFINE free  == p.free_buy_amount
           less  == q.free_buy_amount
           rate  == p.deal_price
           coins == Client!Quotient(free, rate)
<1>1. p.valid_sale_number = coins
  BY DEF Unspent, Client!ValidRow, db_tx_complet_closed, db_tx_portion_closed,
         Client!db_tx_processing
<1>2. rate \in Nat /\ p.valid_sale_number \in Int /\ q.valid_sale_number \in Int
  BY DEF SaleRows
<1>3. rate > 0
  BY <1>1, <1>2, NaNAssumption DEF Client!Quotient
<1>4. coins \in Nat
  <2>1. 2 * free + rate \in Nat /\ 2 * rate \in Nat /\ 2 * rate > 0
    BY <1>2, <1>3
  <2>2. (2 * free + rate) \div (2 * rate) \in Nat
    BY <2>1
  <2> QED
    BY <1>3, <2>2 DEF Client!Quotient
<1>5. CASE q = p
  BY <1>1, <1>4, <1>5
<1>6. CASE SameDeal(p, q) /\ less <= free
  <2>1. q.valid_sale_number = Client!Quotient(less, rate)
    <3>1. p.status # 0 /\ q.status = p.status /\ q.deal_price = p.deal_price
      BY <1>6 DEF Unspent, SameDeal, db_tx_complet_closed, db_tx_portion_closed
    <3> QED
      BY <3>1 DEF Client!ValidRow, Client!db_tx_processing
  <2>2. Client!Quotient(less, rate) <= coins
    BY <1>2, <1>3, <1>6, Client!QuotientMonotone, ClientAssumptions
  <2> QED
    BY <1>1, <1>2, <1>4, <2>1, <2>2
<1> QED
  BY <1>5, <1>6 DEF Charged

LEMMA ChargedSums ==
  ASSUME NEW p, NEW q, NEW seg, NEW s, NEW os, Rated(p), Rated(q),
         DOMAIN q = DOMAIN p,
         \A i \in DOMAIN p : Charged(p[i], q[i], seg)
  PROVE  ValidIn(q, s) <= ValidIn(p, s) /\ OpenIn(q, os, s) = OpenIn(p, os, s)
<1> DEFINE S == SoldRows(p, s)
           T == SoldRows(q, s)
<1>1. \A i \in DOMAIN p : /\ q[i] = p[i] \/ SameDeal(p[i], q[i])
                          /\ Unspent(q[i]) => Unspent(p[i])
  BY DEF Charged
<1>2. T \subseteq S /\ S \subseteq DOMAIN p /\ IsFiniteSet(S) /\ IsFiniteSet(T)
  <2>1. T \subseteq S /\ S \subseteq DOMAIN p
    BY <1>1 DEF SoldRows, SameDeal
  <2> QED
    BY <2>1, FS_Subset DEF Rated
<1>3. \A i \in S : /\ p[i].valid_sale_number \in Nat
                   /\ q[i].valid_sale_number \in Int
                   /\ q[i].valid_sale_number <= p[i].valid_sale_number
  BY <1>2, ChargedStandsForLess DEF Rated, SoldRows
<1>4. /\ \A i \in S : Valids(p)[i] \in Nat
      /\ \A i \in T : /\ Valids(q)[i] \in Int /\ Valids(p)[i] \in Int
                      /\ Valids(q)[i] <= Valids(p)[i]
  BY <1>2, <1>3 DEF Valids
<1> HIDE DEF S, T
<1>5. SumFunctionOnSet(Valids(q), T) <= SumFunctionOnSet(Valids(p), T)
  BY <1>2, <1>4, SumMonotone
<1>6. SumFunctionOnSet(Valids(p), T) <= SumFunctionOnSet(Valids(p), S)
  BY <1>2, <1>4, SumSubset
<1>7. /\ SumFunctionOnSet(Valids(q), T) \in Int
      /\ SumFunctionOnSet(Valids(p), T) \in Int
      /\ SumFunctionOnSet(Valids(p), S) \in Int
  <2>1. /\ \A i \in S : Valids(p)[i] \in Int
        /\ \A i \in T : Valids(q)[i] \in Int
        /\ \A i \in T : Valids(p)[i] \in Int
    BY <1>4
  <2> QED
    BY <1>2, <2>1, SumInt
<1>8. ValidIn(q, s) <= ValidIn(p, s)
  BY <1>5, <1>6, <1>7 DEF ValidIn, S, T
<1>9. OpenRows(q, s) = OpenRows(p, s)
  BY <1>1 DEF OpenRows, SameDeal
<1>10. \A i \in OpenRows(p, s) : Ordered(q, os)[i] = Ordered(p, os)[i]
  BY <1>1 DEF OpenRows, Ordered, SameDeal
<1>11. IsFiniteSet(OpenRows(p, s))
  BY FS_Subset DEF OpenRows, Rated
<1>12. OpenIn(q, os, s) = OpenIn(p, os, s)
  BY <1>9, <1>10, <1>11, SumSame DEF OpenIn
<1> QED
  BY <1>8, <1>12

(* The one open sale of segment t closes: what it was ordered for is now   *)
(* what it sold, at most.                                                  *)
LEMMA SoldAsOrdered ==
  ASSUME NEW p, NEW q, NEW os, NEW t, NEW n \in DOMAIN p, Rated(p), Rated(q),
         DOMAIN q = DOMAIN p, OpenRows(p, t) = {n}, q[n].seg_id = t,
         \A i \in DOMAIN p : i # n => q[i] = p[i],
         q[n].status # db_tx_processing,
         NEW number, number \in Nat, number = os[p[n].order_id].number,
         q[n].deal_number <= number
  PROVE  ValidIn(q, t) + OpenIn(q, os, t) <= ValidIn(p, t) + OpenIn(p, os, t)
<1> DEFINE S == SoldRows(p, t)
           sold == SumFunctionOnSet(Valids(p), S)
<1>1. p[n].status = db_tx_processing /\ n \in DOMAIN q
  BY DEF OpenRows
<1>2. n \notin S /\ S \subseteq DOMAIN p /\ IsFiniteSet(S)
  <2>1. n \notin S /\ S \subseteq DOMAIN p
    BY <1>1 DEF SoldRows, Unspent, db_tx_processing, db_tx_complet_closed,
                db_tx_portion_closed
  <2> QED
    BY <2>1, FS_Subset DEF Rated
<1>3. SoldRows(q, t) = IF Unspent(q[n]) THEN S \cup {n} ELSE S
  BY <1>1, <1>2 DEF SoldRows
<1>4. OpenIn(q, os, t) = 0
  <2>1. OpenRows(q, t) = {}
    BY DEF OpenRows
  <2> QED
    BY <2>1, SumEmpty DEF OpenIn
<1>5. OpenIn(p, os, t) = number
  <2>1. Ordered(p, os)[n] = number
    BY DEF Ordered
  <2>2. Ordered(p, os)[n] \in Int
    BY <2>1
  <2>3. SumFunctionOnSet(Ordered(p, os), {n}) = Ordered(p, os)[n]
    BY <2>2, SumOne, Zenon
  <2> QED
    BY <2>1, <2>3 DEF OpenIn
<1>6. q[n].valid_sale_number \in Int /\ q[n].valid_sale_number <= number
  <2>1. q[n] \in SaleRows /\ Client!ValidRow(q[n]) /\ q[n].status # 0
    BY <1>1 DEF Rated, db_tx_processing
  <2>2. q[n].valid_sale_number <= q[n].deal_number
    BY <2>1 DEF Client!ValidRow, Client!db_tx_processing
  <2> QED
    BY <2>1, <2>2 DEF SaleRows
<1>7. /\ \A i \in S : Valids(q)[i] = Valids(p)[i]
      /\ \A i \in S : Valids(q)[i] \in Int
      /\ Valids(q)[n] = q[n].valid_sale_number
  <2>1. \A i \in S : i \in DOMAIN p /\ i # n
    BY <1>2
  <2> QED
    BY <1>1, <2>1 DEF Valids, Rated, SaleRows
<1> HIDE DEF S
<1>8. SumFunctionOnSet(Valids(q), S) = sold /\ sold \in Int
  <2>1. SumFunctionOnSet(Valids(q), S) = sold
    BY <1>2, <1>7, SumSame
  <2>2. SumFunctionOnSet(Valids(q), S) \in Int
    BY <1>2, <1>7, SumInt
  <2> QED
    BY <2>1, <2>2
<1>9. ValidIn(p, t) = sold
  BY DEF ValidIn, S
<1> HIDE DEF sold
<1>10. CASE Unspent(q[n])
  <2>1. SumFunctionOnSet(Valids(q), S \cup {n})
          = SumFunctionOnSet(Valids(q), S) + Valids(q)[n]
    BY <1>2, <1>6, <1>7, SumAdd
  <2>2. ValidIn(q, t) = sold + q[n].valid_sale_number
    BY <1>3, <1>7, <1>8, <1>10, <2>1 DEF ValidIn
  <2> QED
    BY <1>4, <1>5, <1>6, <1>8, <1>9, <2>2
<1>11. CASE ~ Unspent(q[n])
  <2>1. ValidIn(q, t) = sold
    BY <1>3, <1>8, <1>11 DEF ValidIn
  <2> QED
    BY <1>4, <1>5, <1>8, <1>9, <2>1
<1> QED
  BY <1>10, <1>11

LEMMA WithinCommit ==
  ASSUME IInv, BooksInv, PluginsInv', Within(db.sale_tx, orders), Commit
  PROVE  Within(db'.sale_tx, orders)
<1> DEFINE p == db.sale_tx
           q == db'.sale_tx
           n == txn.tx.id
<1>1. /\ DOMAIN q = DOMAIN p
      /\ (txn.op = "sale" /\ CommitsSale) \/ (txn.op = "buy" /\ CommitsBuy)
      /\ txn.op = "sale" => n \in OpenSales
      /\ txn.op = "buy" =>
           \A i \in DOMAIN p : Charged(p[i], q[i], db.buy_tx[n].seg_id)
  BY CommitWrites, CommitCharges DEF BooksInv, PluginsInv
<1>2. Rated(p) /\ Rated(q)
  BY <1>1, RatedNow, RatedNext
<1>3. SUFFICES ASSUME NEW s \in Segs
               PROVE  WithinOf(ValidIn(q, s) + OpenIn(q, orders, s), s)
  BY DEF Within
<1>4. /\ ValidIn(p, s) \in Int /\ OpenIn(p, orders, s) \in Int
      /\ SaleNumber[s] \in Nat /\ NumTick \in Nat
  BY SumsTyped
<1>5. WithinOf(ValidIn(p, s) + OpenIn(p, orders, s), s)
  BY DEF Within
<1>6. ValidIn(q, s) \in Int /\ OpenIn(q, orders, s) \in Int
  <2>1. /\ SoldRows(q, s) \subseteq DOMAIN q /\ OpenRows(q, s) \subseteq DOMAIN q
        /\ IsFiniteSet(SoldRows(q, s)) /\ IsFiniteSet(OpenRows(q, s))
    BY <1>2, FS_Subset DEF SoldRows, OpenRows, Rated
  <2>2. \A i \in SoldRows(q, s) : Valids(q)[i] \in Int
    BY <1>2, <2>1 DEF Valids, Rated, SaleRows
  <2>3. \A i \in OpenRows(q, s) : Ordered(q, orders)[i] \in Int
    <3>1. \A i \in DOMAIN p : q[i].order_id = p[i].order_id
      <4>1. CASE txn.op = "sale" /\ CommitsSale
        <5>1. n \in DOMAIN p /\ p[n] \in SaleRows
          BY <1>2, <4>1 DEF CommitsSale, Rated
        <5>2. q[n].order_id = p[n].order_id
          BY <4>1, <5>1 DEF CommitsSale, Client!WrittenSale, SaleRows
        <5> QED
          BY <4>1, <5>2 DEF CommitsSale
      <4>2. CASE txn.op = "buy" /\ CommitsBuy
        BY <4>2 DEF CommitsBuy, SameDeal
      <4> QED
        BY <1>1, <4>1, <4>2
    <3>2. \A i \in DOMAIN p : orders[p[i].order_id].number \in Nat
      BY SumsTyped
    <3> QED
      BY <1>1, <2>1, <3>1, <3>2 DEF Ordered
  <2> QED
    BY <2>1, <2>2, <2>3, SumInt DEF ValidIn, OpenIn
<1>7. CASE txn.op = "buy"
  <2>1. ValidIn(q, s) <= ValidIn(p, s) /\ OpenIn(q, orders, s) = OpenIn(p, orders, s)
    BY <1>1, <1>2, <1>7, ChargedSums
  <2> QED
    BY <1>4, <1>5, <1>6, <2>1 DEF WithinOf
<1>8. CASE txn.op = "sale"
  <2> DEFINE t == p[n].seg_id
             o == p[n].order_id
  <2>1. n \in OpenSales /\ n \in DOMAIN p /\ CommitsSale /\ p[n] \in SaleRows
    BY <1>1, <1>2, <1>8 DEF OpenSales, Rated
  <2>2. CASE s # t
    <3>1. Untouched(p, q, s)
      BY <1>8, <2>2, CommitUntouched
    <3>2. OpenIn(q, orders, s) = OpenIn(p, orders, s) /\ ValidIn(q, s) = ValidIn(p, s)
      BY <1>1, <1>2, <3>1, UntouchedOpen, UntouchedSums DEF Rated
    <3> QED
      BY <1>5, <3>2
  <2>3. CASE s = t
    <3>1. OpenRows(p, t) = {n}
      BY <2>1 DEF OpenRows, OpenSales, IInv, OnePendingPerSegment
    <3>2. /\ q[n].seg_id = t /\ q[n].status = txn.tx.status
          /\ q[n].deal_number = txn.tx.deal_number
      BY <2>1 DEF CommitsSale, Client!WrittenSale, SaleRows
    <3>3. /\ txn.tx.deal_number = orders[o].deals
          /\ txn.tx.status # db_tx_processing
      <4> DEFINE res == get_order_status(o)
      <4>1. /\ res.status # order_processing
            /\ txn.tx = complete_sale_order(n, res)
        BY <1>8 DEF BooksInv, DealInv
      <4>2. res.number = orders[o].deals
        BY DEF get_order_status
      <4> HIDE DEF res
      <4> QED
        BY <4>1, <4>2 DEF complete_sale_order, order_processing, db_tx_processing
    <3>4. /\ orders[o].deals <= orders[o].number /\ orders[o].number \in Nat
      <4>1. o \in DOMAIN orders /\ orders[o].number \in Nat
        BY <2>1, SumsTyped
      <4> QED
        BY <4>1 DEF BooksInv, PluginsInv, Api!AInv, Api!BookInv, Api!Consistent
    <3>5. ValidIn(q, t) + OpenIn(q, orders, t) <= ValidIn(p, t) + OpenIn(p, orders, t)
      BY <1>1, <1>2, <2>1, <3>1, <3>2, <3>3, <3>4, SoldAsOrdered DEF CommitsSale
    <3> QED
      BY <1>4, <1>5, <1>6, <2>3, <3>5 DEF WithinOf
  <2> QED
    BY <2>2, <2>3
<1> QED
  BY <1>1, <1>7, <1>8

-----------------------------------------------------------------------------
(* Asking for a sale.                                                      *)

(* The number of the order is what the segment has left, but for the       *)
(* rounding.                                                               *)
LEMMA Rounded ==
  ASSUME NEW a \in Int, NEW tick \in Nat \ {0}, NEW y \in Fmt4(a, 1, tick)
  PROVE  y \in Int /\ 2 * y <= 2 * a + tick /\ 2 * y >= 2 * a - tick
<1> DEFINE low == (a \div (1 * tick)) * tick
<1>1. 1 * tick = tick
  OBVIOUS
<1>2. a \div tick \in Int
  OBVIOUS
<1>3. low \in Int
  BY <1>1, <1>2
<1>4. y \in {low, low + tick} /\ 2 * (a - y * 1) \in -(tick * 1) .. tick * 1
  BY DEF Fmt4
<1> HIDE DEF low
<1>5. y \in Int
  BY <1>3, <1>4
<1>6. 2 * (a - y) >= -tick /\ 2 * (a - y) <= tick
  BY <1>4, <1>5
<1> QED
  BY <1>5, <1>6

LEMMA AskPlace ==
  ASSUME IInv, BooksInv, [Next]_vars, PlaceSale
  PROVE  AskInv'
<1> DEFINE s == call'.req.seg
           n == call'.req.number
           sold == ValidIn(db.sale_tx, s)
<1>1. /\ pc' = "call" /\ side = "sale" /\ side' = side /\ db' = db
      /\ sold_list = delivered_sale_array
  BY Places DEF PlaceSale, dbvars
<1>2. s \in Segs
  BY <1>1, NextSafe DEF IInv, CallInv
<1>3. n \in Fmt4(new_sale_num(s), 1, NumTick)
  BY <1>1, PlacesSafe
<1>4. new_sale_num(s) = SaleNumber[s] - sold
  BY <1>1, PlacingSums DEF new_sale_num
<1>5. sold \in Int /\ SaleNumber[s] \in Nat /\ NumTick \in Nat \ {0}
  BY <1>2, SumsTyped, TickAssumption
<1> HIDE DEF s, n, sold
<1>6. n \in Int /\ 2 * n <= 2 * (SaleNumber[s] - sold) + NumTick
  BY <1>3, <1>4, <1>5, Rounded
<1>7. 2 * (sold + n) <= 2 * SaleNumber[s] + NumTick
  BY <1>5, <1>6
<1> QED
  BY <1>1, <1>7 DEF AskInv, WithinOf, s, n, sold

(* While the call is in progress nothing else happens to it.               *)
LEMMA InCall ==
  ASSUME IInv, BooksInv, [Next]_vars, pc = "call", pc' = "call"
  PROVE  UNCHANGED <<side, db>> /\ call'.req = call.req
<1>1. UNCHANGED <<side, db>>
  BY DEF Next, Round, Failure, Exchange, GetNewSales, GetNewBuys, BuyList,
         SettleClosed, SettleOpen, SettleExpired, Cancel, CancelThrows, Deliver,
         Delivered, NotDeliverable, DealingSegs, Asleep, QueryPrice, GetSold,
         PlaceSale, PlaceBuy, CallStep, CallThrows, Insert, StartBuying,
         EndRound, LoopEnds, Timer, Restart, QueryFails, SettleFails,
         CancelFails, DeliverFails, PriceFails, InsertFails, Crash, ThrowRound,
         vars, gridvars, dbvars
<1>2. call'.step # "idle"
  BY RoundStep DEF RoundInv
<1>3. call'.req = call.req
  <2>1. CASE UNCHANGED call
    BY <2>1
  <2>2. CASE CallStep
    BY <2>2, CallStepEffect
  <2>3. CASE PlaceSale \/ PlaceBuy
    BY <2>3 DEF PlaceSale, PlaceBuy
  <2>4. CASE Ending
    BY <1>2, <2>4, EndingEnds DEF CallEnds, Idle
  <2>5. CASE Late \/ OrderMoves
    BY <2>1, <2>5, MovesSafe DEF Late, ArriveLate, DropLate
  <2> QED
    BY <2>1, <2>2, <2>3, <2>4, <2>5, ApiSteps DEF apivars
<1> QED
  BY <1>1, <1>3

(* A call begins where an order is placed.                                 *)
LEMMA CallBegins ==
  ASSUME [Next]_vars, pc # "call", pc' = "call"
  PROVE  PlaceSale \/ PlaceBuy
BY DEF Next, Round, Failure, Exchange, GetNewSales, GetNewBuys, BuyList,
       SettleClosed, SettleOpen, SettleExpired, Cancel, CancelThrows, Deliver,
       Delivered, NotDeliverable, DealingSegs, Asleep, QueryPrice, GetSold,
       StartLoop, CallStep, CallThrows, Insert, StartBuying,
       EndRound, LoopEnds, Timer, Restart, QueryFails, SettleFails,
       CancelFails, DeliverFails, PriceFails, InsertFails, Crash, ThrowRound,
       ThrowSettling, Continue, Goto, vars

LEMMA AskStep ==
  ASSUME IInv, BooksInv, AskInv, [Next]_vars
  PROVE  AskInv'
<1>1. CASE pc' # "call"
  BY <1>1 DEF AskInv
<1>2. CASE pc = "call" /\ pc' = "call"
  BY <1>2, InCall DEF AskInv
<1>3. CASE PlaceSale
  BY <1>3, AskPlace
<1>4. CASE PlaceBuy
  BY <1>4 DEF PlaceBuy, AskInv
<1> QED
  BY <1>1, <1>2, <1>3, <1>4, CallBegins

LEMMA WithinStep ==
  ASSUME IInv, BooksInv, NeverOversold, AskInv, [Next]_vars
  PROVE  NeverOversold'
<1>1. Within(db.sale_tx, orders)
  BY WithinNow
<1>2. OrdersKept /\ PluginsInv'
  BY ApiStep, PluginsStep
<1>3. Within(db'.sale_tx, orders)
  <2>1. ASSUME db' = db PROVE Within(db'.sale_tx, orders)
    BY <1>1, <2>1
  <2>2. CASE UNCHANGED dbvars
    BY <2>1, <2>2 DEF dbvars
  <2>3. CASE SettleClosed \/ Deliver
    BY <2>1, <2>3, CloseByClient DEF Deliver, Statement, update_sale_tx,
       insert_sale_history, update_buy_tx, insert_buy_history, select_unspent,
       use_sale_tx
  <2>4. CASE Ended
    BY <1>1, <1>2, <2>1, <2>4, WithinCommit DEF Ended, Rollback
  <2>5. CASE Records
    BY <1>1, <2>5, WithinRecord
  <2> QED
    BY <2>2, <2>3, <2>4, <2>5, DbSteps
<1>4. /\ IsFiniteSet(DOMAIN db'.sale_tx)
      /\ \A i \in DOMAIN db'.sale_tx : db'.sale_tx[i].order_id \in DOMAIN orders
  <2>1. /\ IsFiniteSet(DOMAIN db.sale_tx)
        /\ \A i \in DOMAIN db.sale_tx : db.sale_tx[i].order_id \in DOMAIN orders
    BY TypedRows DEF BooksInv, PluginsInv, RowsInv, RowsTell
  <2>2. CASE Closes(db, db')
    BY <2>1, <2>2 DEF Closes, ClosesOnly
  <2>3. CASE Records
    <3>1. call.id \in DOMAIN orders
      BY <2>3, RecordsAt, NotTold
    <3>2. CASE side = "sale"
      <4>1. AddsRow(db.sale_tx, db'.sale_tx, Len(db.sale_tx) + 1,
                    call.req.seg, call.id)
        BY <2>3, <3>2, Recorded
      <4>2. IsFiniteSet(DOMAIN db'.sale_tx)
        BY <2>1, <4>1, FS_AddElement DEF AddsRow
      <4> QED
        BY <2>1, <3>1, <4>1, <4>2 DEF AddsRow
    <3>3. CASE side # "sale"
      BY <2>1, <2>3, <3>3, Recorded
    <3> QED
      BY <3>2, <3>3
  <2> QED
    BY <2>2, <2>3, TablesKept
<1> QED
  BY <1>2, <1>3, <1>4, WithinKept, WithinNext

-----------------------------------------------------------------------------
(* The theorems about the segments.                                        *)

SalesInit == BuyBacked /\ NeverOversold /\ AskInv

LEMMA InitSales == Init => SalesInit
<1>1. SUFFICES ASSUME Init PROVE SalesInit
  OBVIOUS
<1>2. DOMAIN db.sale_tx = {} /\ DOMAIN db.buy_tx = {} /\ pc = "new_sale"
  BY <1>1 DEF Init, DbInit
<1>3. BuyBacked
  BY <1>2, BackedNow DEF Backed
<1>4. AskInv
  BY <1>2 DEF AskInv
<1>5. ASSUME NEW s \in Segs
      PROVE  WithinOf(ValidIn(db.sale_tx, s) + OpenIn(db.sale_tx, orders, s), s)
  <2>1. SoldRows(db.sale_tx, s) = {} /\ OpenRows(db.sale_tx, s) = {}
    BY <1>2 DEF SoldRows, OpenRows
  <2>2. ValidIn(db.sale_tx, s) = 0 /\ OpenIn(db.sale_tx, orders, s) = 0
    BY <2>1, SumEmpty DEF ValidIn, OpenIn
  <2>3. SaleNumber[s] \in Nat /\ NumTick \in Nat
    BY TacticsAssumption, TickAssumption
  <2> QED
    BY <2>2, <2>3 DEF WithinOf
<1>6. NeverOversold
  BY <1>5, WithinNow DEF Within
<1> QED
  BY <1>3, <1>4, <1>6 DEF SalesInit

(* The proceeds that an open buy was computed from are all still there     *)
(* when it is settled, whatever rounds, failures and crashes pass between. *)
THEOREM BuysBacked == Spec => []BuyBacked
<1>1. Init => BuyBacked
  BY InitSales DEF SalesInit
<1>2. IInv /\ BooksInv /\ BuyBacked /\ [Next]_vars => BuyBacked'
  BY BackedStep
<1> QED
  BY <1>1, <1>2, LoopInvariance, BooksInvariance, PTL DEF Spec

(* What a segment has sold and not bought back, as its rows count it, and  *)
(* what its open sale can still sell, is at most its sale_number and half  *)
(* a tick of rounding.                                                     *)
THEOREM NotOversold == Spec => []NeverOversold
<1>1. Init => NeverOversold /\ AskInv
  BY InitSales DEF SalesInit
<1>2. IInv /\ BooksInv /\ NeverOversold /\ AskInv /\ [Next]_vars
        => NeverOversold' /\ AskInv'
  BY WithinStep, AskStep
<1> QED
  BY <1>1, <1>2, LoopInvariance, BooksInvariance, PTL DEF Spec

-----------------------------------------------------------------------------
(* The prices of a segment's orders.                                       *)

(* Twice the dearest price a segment can buy at.                           *)
Dearest(s) == 2 * HighestBuy(s) + PriceTick

(* What is asked for keeps to the prices of the configuration, but for     *)
(* premium and rounding.                                                   *)
Priced(r) ==
  IF r.side = "sale" THEN 2 * r.price >= 2 * LowestSale(r.seg) - PriceTick
                     ELSE 2 * r.price <= Dearest(r.seg)

(* The exchange deals at the limit price or better.                        *)
Traded(o) ==
  o.deals > 0 => IF o.side = "sale" THEN o.paid >= o.price ELSE o.paid <= o.price

PriceInv ==
  /\ \A i \in DOMAIN orders : Priced(orders[i]) /\ Traded(orders[i])
  /\ \A req \in inflight : Priced(req)
  /\ call.step # "idle" => Priced(call.req)

(* The premium changes neither the order of prices nor their sign.         *)
LEMMA PremiumKeepsOrder ==
  ASSUME NEW a \in Nat, NEW b \in Nat, a <= b
  PROVE  /\ premium(a) \in Nat /\ premium(a) <= a
         /\ a - premium(a) <= b - premium(b)
         /\ a + premium(a) <= b + premium(b)
<1> DEFINE P == PremiumPermille
           x == a * P
           y == b * P
<1>1. P \in Nat /\ P <= 1000
  BY OptionsAssumption
<1>2. x \in Nat /\ y \in Nat
  BY <1>1
<1>3. x <= 1000 * a
  BY <1>1
<1>4. x <= y
  BY <1>1
<1>5. y <= x + 1000 * (b - a)
  <2> DEFINE c == b - a
  <2>1. c \in Nat /\ b = a + c
    OBVIOUS
  <2>2. (a + c) * P = a * P + c * P
    BY <1>1, <2>1
  <2>3. c * P <= 1000 * c
    BY <1>1, <2>1
  <2>4. c * P \in Nat
    BY <1>1, <2>1
  <2> QED
    BY <1>2, <2>1, <2>2, <2>3, <2>4
<1>6. premium(a) = x \div 1000 /\ premium(b) = y \div 1000
  BY DEF premium
<1> HIDE DEF x, y
<1> QED
  BY <1>2, <1>3, <1>4, <1>5, <1>6

LEMMA PlacedPrice ==
  ASSUME IInv, BooksInv, PlaceSale \/ PlaceBuy
  PROVE  Priced(call'.req)
<1>1. price \in Quotes /\ todo \subseteq Segs
  BY Places
<1>2. price.bid \in Nat /\ price.ask \in Nat
  BY <1>1, QuotesAssumption
<1>3. PriceTick \in Nat \ {0}
  BY TickAssumption
<1>4. CASE PlaceSale
  <2>1. PICK s \in Sellable : new_order("sale", s, new_sale_num(s), 1, sale_price)
    BY <1>4 DEF PlaceSale
  <2>2. s \in Segs /\ price.bid >= SalePrice[s] /\ SalePrice[s] \in Nat
    BY <1>1, TacticsAssumption DEF Sellable
  <2>3. PICK n \in Fmt4(new_sale_num(s), 1, NumTick),
             p \in Fmt4(sale_price, 1, PriceTick) :
          call'.req = [cid |-> FreshCid, side |-> "sale", seg |-> s,
                       number |-> n, price |-> p]
    BY <2>1 DEF new_order
  <2>4. sale_price >= LowestSale(s) /\ sale_price \in Int /\ LowestSale(s) \in Int
    <3>1. /\ SalePrice[s] - premium(SalePrice[s]) <= price.bid - premium(price.bid)
          /\ premium(SalePrice[s]) \in Nat
      BY <1>2, <2>2, PremiumKeepsOrder
    <3>2. premium(price.bid) \in Nat
      BY <1>2, PremiumKeepsOrder
    <3> QED
      BY <1>2, <2>2, <3>1, <3>2 DEF LowestSale, sale_price
  <2>5. p \in Int /\ 2 * p >= 2 * sale_price - PriceTick
    BY <1>3, <2>4, Rounded
  <2>6. 2 * p >= 2 * LowestSale(s) - PriceTick
    BY <1>3, <2>4, <2>5
  <2> QED
    BY <2>3, <2>6 DEF Priced
<1>5. CASE PlaceBuy
  <2>1. PICK s \in Buyable : new_order("buy", s, get_free_amount(s), buy_price, buy_price)
    BY <1>5 DEF PlaceBuy
  <2>2. s \in Segs /\ price.ask <= BuyPrice[s] /\ BuyPrice[s] \in Nat
    BY <1>1, TacticsAssumption DEF Buyable
  <2>3. PICK n \in Fmt4(get_free_amount(s), buy_price, NumTick),
             p \in Fmt4(buy_price, 1, PriceTick) :
          call'.req = [cid |-> FreshCid, side |-> "buy", seg |-> s,
                       number |-> n, price |-> p]
    BY <2>1 DEF new_order
  <2>4. buy_price <= HighestBuy(s) /\ buy_price \in Int /\ HighestBuy(s) \in Int
    <3>1. /\ price.ask + premium(price.ask) <= BuyPrice[s] + premium(BuyPrice[s])
          /\ premium(price.ask) \in Nat
      BY <1>2, <2>2, PremiumKeepsOrder
    <3>2. premium(BuyPrice[s]) \in Nat
      BY <2>2, PremiumKeepsOrder
    <3> QED
      BY <1>2, <2>2, <3>1, <3>2 DEF HighestBuy, buy_price
  <2>5. p \in Int /\ 2 * p <= 2 * buy_price + PriceTick
    BY <1>3, <2>4, Rounded
  <2>6. 2 * p <= 2 * HighestBuy(s) + PriceTick
    BY <1>3, <2>4, <2>5
  <2> QED
    BY <2>3, <2>6 DEF Priced, Dearest
<1> QED
  BY <1>4, <1>5

(* A step of the exchange on one order.                                    *)
LEMMA MovedPrice ==
  ASSUME BooksInv, OrderMoves, NEW j \in DOMAIN orders,
         Priced(orders[j]), Traded(orders[j])
  PROVE  Priced(orders'[j]) /\ Traded(orders'[j])
<1>1. /\ orders \in Seq(Api!Book) /\ DOMAIN orders = 1 .. Len(orders)
      /\ \A i \in DOMAIN orders : orders[i] \in Api!Book
  BY TypedOrders DEF BooksInv, PluginsInv
<1> DEFINE o == orders[j]
           r == orders'[j]
<1>2. /\ r.side = o.side /\ r.seg = o.seg /\ r.price = o.price
      /\ \/ r.deals = o.deals /\ r.paid = o.paid
         \/ \E gain \in Gains : r.paid = DealPrice(o, gain)
  <2>1. CASE \E i \in DOMAIN orders : FinishCancel(i) \/ CancelAccepted(i)
    <3>1. PICK i \in DOMAIN orders : FinishCancel(i) \/ CancelAccepted(i)
      BY <2>1
    <3>2. PICK state : orders' = [orders EXCEPT ![i].state = state]
      BY <3>1 DEF FinishCancel, CancelAccepted
    <3> QED
      BY <1>1, <3>2 DEF Api!Book
  <2>2. CASE FillStep
    <3>1. PICK i \in DOMAIN orders, gain \in Gains :
            \E n \in 1 .. (orders[i].number - orders[i].deals) : Fill(i, n, gain)
      BY <2>2 DEF FillStep
    <3>2. PICK n : Fill(i, n, gain)
      BY <3>1
    <3>3. PICK deals, state :
            orders' = [orders EXCEPT ![i].deals = deals,
                                     ![i].paid = DealPrice(orders[i], gain),
                                     ![i].state = state]
      BY <3>2 DEF Fill
    <3>4. CASE i # j
      BY <1>1, <3>3, <3>4
    <3>5. CASE i = j
      <4>1. r = [o EXCEPT !.deals = deals, !.paid = DealPrice(o, gain),
                          !.state = state]
        BY <1>1, <3>3, <3>5
      <4> QED
        BY <1>1, <4>1 DEF Api!Book
    <3> QED
      BY <3>4, <3>5
  <2> QED
    BY <2>1, <2>2 DEF OrderMoves
<1>3. Priced(r)
  BY <1>2 DEF Priced
<1>4. Traded(r)
  <2>1. o.price \in Int
    BY <1>1 DEF Api!Book
  <2>2. ASSUME NEW gain \in Gains, r.paid = DealPrice(o, gain)
        PROVE  Traded(r)
    <3>1. gain \in Nat
      BY GainsAssumption
    <3> HIDE DEF o, r
    <3> QED
      BY <1>2, <2>1, <2>2, <3>1 DEF Traded, DealPrice
  <2>3. CASE r.deals = o.deals /\ r.paid = o.paid
    <3> HIDE DEF o, r
    <3>1. Traded(o)
      BY DEF o
    <3> QED
      BY <1>2, <2>3, <3>1 DEF Traded
  <2> QED
    BY <1>2, <2>2, <2>3
<1> QED
  BY <1>3, <1>4

(* A new order of the book has its request's price, and no deal.           *)
LEMMA AcceptedPrice ==
  ASSUME BooksInv, PriceInv, NEW req, Priced(req), Accept(req)
  PROVE  \A i \in DOMAIN orders' : Priced(orders'[i]) /\ Traded(orders'[i])
<1> DEFINE n == Len(orders) + 1
           r == [cid |-> req.cid, side |-> req.side, seg |-> req.seg,
                 number |-> req.number, price |-> req.price,
                 deals |-> 0, paid |-> 0, state |-> "submitted"]
<1>1. orders' = Append(orders, r)
  BY DEF Accept
<1>2. orders \in Seq(Api!Book) /\ Len(orders) \in Nat /\ DOMAIN orders = 1 .. Len(orders)
  BY TypedOrders DEF BooksInv, PluginsInv
<1>3. Priced(r) /\ Traded(r)
  BY DEF Priced, Traded
<1> DEFINE S == Api!Book \cup {r}
<1> HIDE DEF r
<1>4. orders \in Seq(S) /\ r \in S
  BY <1>2
<1> HIDE DEF S
<1>5. /\ orders' \in Seq(S) /\ Len(orders') = n /\ orders'[n] = r
      /\ \A i \in 1 .. Len(orders) : orders'[i] = orders[i]
  BY <1>1, <1>4, AppendProperties
<1>6. DOMAIN orders' = 1 .. n
  BY <1>5
<1> QED
  BY <1>2, <1>3, <1>5, <1>6 DEF PriceInv

LEMMA PriceStep ==
  ASSUME IInv, BooksInv, PriceInv, [Next]_vars
  PROVE  PriceInv'
<1> DEFINE Good(os) == \A i \in DOMAIN os : Priced(os[i]) /\ Traded(os[i])
<1>1. /\ Good(orders) /\ \A req \in inflight : Priced(req)
      /\ call.step # "idle" => Priced(call.req)
  BY DEF PriceInv
<1>2. SUFFICES /\ Good(orders') /\ \A req \in inflight' : Priced(req)
               /\ call'.step # "idle" => Priced(call'.req)
  BY DEF PriceInv, Priced, Traded, Dearest, HighestBuy, LowestSale, premium
<1> HIDE DEF Good
<1>3. CASE UNCHANGED apivars
  BY <1>1, <1>3 DEF apivars
<1>4. CASE OrderMoves
  <2>1. DOMAIN orders' = DOMAIN orders /\ UNCHANGED <<inflight, call>>
    BY <1>4, MovesSafe
  <2>2. Good(orders')
    BY <1>1, <1>4, <2>1, MovedPrice DEF Good
  <2> QED
    BY <1>1, <2>1, <2>2
<1>5. CASE CallStep
  <2>1. call'.req = call.req /\ (PostTaken \/ PostPending \/ CallOver)
    BY <1>5, CallStepEffect
  <2>2. call.step # "idle" /\ Priced(call.req)
    BY <1>1, <2>1 DEF PostTaken, PostPending, CallOver
  <2>3. Good(orders') /\ \A req \in inflight' : Priced(req)
    <3>1. CASE PostTaken
      BY <1>1, <2>2, <3>1, AcceptedPrice DEF PostTaken, Good
    <3>2. CASE PostPending \/ CallOver
      BY <1>1, <2>2, <3>2 DEF PostPending, CallOver
    <3> QED
      BY <2>1, <3>1, <3>2
  <2> QED
    BY <2>1, <2>2, <2>3
<1>6. CASE PlaceSale \/ PlaceBuy
  BY <1>1, <1>6, PlacedPrice, PlacesSafe
<1>7. CASE Ending
  <2>1. CallEnds
    BY <1>7, EndingEnds
  <2> QED
    BY <1>1, <2>1 DEF CallEnds, Idle
<1>8. CASE Late
  <2>1. PICK req \in inflight : ArriveLate(req) \/ DropLate(req)
    BY <1>8 DEF Late
  <2>2. Good(orders')
    BY <1>1, <2>1, AcceptedPrice DEF ArriveLate, DropLate, Good
  <2>3. inflight' \subseteq inflight /\ call' = call
    BY <2>1 DEF ArriveLate, DropLate
  <2> QED
    BY <1>1, <2>2, <2>3
<1> QED
  BY <1>3, <1>4, <1>5, <1>6, <1>7, <1>8, ApiSteps

-----------------------------------------------------------------------------
(* The proceeds of a segment's sales.                                      *)

(* A closed row was sold at the price its order o dealt at, and all its    *)
(* proceeds but the fee are used or free.                                  *)
SoldAt(row, o) ==
  row.status # db_tx_processing =>
    /\ row.deal_price = o.paid
    /\ (1000 - FeeRate) * row.deal_amount
         <= 1000 * (row.used_buy_amount + row.free_buy_amount)

RowsSold(rows, os) ==
  \A i \in DOMAIN rows : SoldAt(rows[i], os[rows[i].order_id])

(* What complete_sale_order computes.                                      *)
LEMMA NetOfFee ==
  ASSUME BooksInv, NEW o \in DOMAIN orders
  PROVE  LET res == get_order_status(o) IN
         /\ res.amount \in Nat /\ net_amount(res) \in Nat
         /\ (1000 - FeeRate) * res.amount <= 1000 * net_amount(res)
<1> DEFINE res == get_order_status(o)
           a == orders[o].deals * orders[o].paid
           x == a * FeePermille
<1>1. orders[o].deals \in Nat /\ orders[o].paid \in Nat
  BY TypedOrders DEF BooksInv, PluginsInv, Api!Book
<1>2. a \in Nat /\ FeePermille \in 0 .. 999
  BY <1>1, FeeAssumption
<1>3. res.amount = a /\ res.fee = x \div 1000
  BY DEF get_order_status
<1> HIDE DEF res, a
<1>4. x \in Nat /\ x <= 1000 * a /\ (1000 - FeePermille) * a = 1000 * a - x
  BY <1>2
<1> HIDE DEF x
<1>5. /\ x \div 1000 \in Nat /\ x \div 1000 <= a
      /\ 1000 * a - x <= 1000 * (a - x \div 1000)
  BY <1>2, <1>4
<1>6. CASE FeeIsFree
  BY <1>2, <1>3, <1>6 DEF net_amount, charged_fee, FeeRate, res
<1>7. CASE ~ FeeIsFree
  BY <1>2, <1>3, <1>4, <1>5, <1>7 DEF net_amount, charged_fee, FeeRate, res
<1> QED
  BY <1>6, <1>7 DEF res

(* What a committed buy leaves of the sales: those of its segment have     *)
(* paid their part of its cost, or nothing was asked of them.              *)
LEMMA CommitPays ==
  ASSUME Client!IInv, Client!WInv, Commit, txn.op = "buy"
  PROVE  LET rows == db.sale_tx
             seg  == db.buy_tx[txn.tx.id].seg_id
         IN
         /\ Client!GoodRows(rows)
         /\ Client!Asked(rows, seg) = SoldRows(rows, seg)
         /\ \A i \in DOMAIN rows \ SoldRows(rows, seg) : db'.sale_tx[i] = rows[i]
         /\ \/ db'.sale_tx = rows
            \/ \A i \in SoldRows(rows, seg) :
                 Client!PaysOut(rows[i], db'.sale_tx[i],
                                Client!Paid(rows, seg, txn.tx.deal_amount, i))
<1> DEFINE rows == db.sale_tx
           seg  == db.buy_tx[txn.tx.id].seg_id
<1>1. db' = work /\ txn.step = "commit"
  BY DEF Commit
<1>2. Client!BuySpent
  BY DEF Client!WInv, Client!BuyWritten
<1>3. Client!GoodRows(rows)
  BY SameTables DEF Client!IInv, Client!RowsOK, Client!GoodRows,
                    Client!Tables, Client!SaleRows
<1>4. Client!Asked(rows, seg) = SoldRows(rows, seg)
  BY SameUnspent DEF Client!Asked, SoldRows
<1>5. /\ \A i \in DOMAIN rows \ Client!Asked(rows, seg) : db'.sale_tx[i] = rows[i]
      /\ \/ db'.sale_tx = rows
         \/ \A i \in Client!Asked(rows, seg) :
              Client!PaysOut(rows[i], db'.sale_tx[i],
                             Client!Paid(rows, seg, txn.tx.deal_amount, i))
  BY <1>1, <1>2 DEF Client!BuySpent
<1> QED
  BY <1>3, <1>4, <1>5

(* A row and its order after a step that changes neither its deals nor the *)
(* sum of what is used and free.                                           *)
LEMMA SoldStays ==
  ASSUME OrdersKept, NEW p, p.order_id \in DOMAIN orders, SettledAsDealt(p),
         SoldAt(p, orders[p.order_id]), NEW q, SameDeal(p, q),
         q.used_buy_amount + q.free_buy_amount
           = p.used_buy_amount + p.free_buy_amount
  PROVE  SoldAt(q, orders'[q.order_id])
<1>1. SUFFICES ASSUME q.status # db_tx_processing
               PROVE  SoldAt(q, orders'[q.order_id])
  BY DEF SoldAt
<1>2. p.status = get_order_status(p.order_id).status /\ p.status # db_tx_processing
  BY <1>1 DEF SettledAsDealt, SameDeal
<1>3. orders'[p.order_id] = orders[p.order_id]
  BY <1>2, ClosedStays DEF order_processing, db_tx_processing
<1> QED
  BY <1>2, <1>3 DEF SoldAt, SameDeal

LEMMA SoldCommit ==
  ASSUME IInv, BooksInv, OrdersKept, RowsSold(db.sale_tx, orders), Commit
  PROVE  RowsSold(db'.sale_tx, orders')
<1> DEFINE n == txn.tx.id
           p == db.sale_tx
           q == db'.sale_tx
<1>1. /\ DOMAIN q = DOMAIN p
      /\ (txn.op = "sale" /\ CommitsSale) \/ (txn.op = "buy" /\ CommitsBuy)
  BY CommitWrites DEF BooksInv, PluginsInv
<1>2. /\ \A i \in DOMAIN p : p[i] \in SaleRows /\ p[i].order_id \in DOMAIN orders
      /\ \A i \in DOMAIN p : SettledAsDealt(p[i]) /\ SoldAt(p[i], orders[p[i].order_id])
  BY TypedRows DEF BooksInv, PluginsInv, RowsInv, RowsTell, ClosedRowsAreFinal,
                   RowsSold
<1>3. ASSUME NEW i \in DOMAIN p, q[i] = p[i]
      PROVE  SoldAt(q[i], orders'[q[i].order_id])
  BY <1>2, <1>3, SoldStays DEF SameDeal
<1>4. CASE txn.op = "sale" /\ CommitsSale
  <2> DEFINE o == p[n].order_id
             res == get_order_status(o)
  <2>1. n \in DOMAIN p /\ q[n] = Client!WrittenSale(p[n], txn.tx)
    BY <1>4 DEF CommitsSale
  <2>2. res.status # order_processing /\ txn.tx = complete_sale_order(n, res)
    BY <1>4 DEF BooksInv, DealInv
  <2>3. /\ q[n].order_id = o /\ q[n].deal_price = txn.tx.deal_price
        /\ q[n].deal_amount = txn.tx.deal_amount
        /\ q[n].used_buy_amount = txn.tx.used_buy_amount
        /\ q[n].free_buy_amount = txn.tx.free_buy_amount
    BY <1>2, <2>1 DEF Client!WrittenSale, SaleRows
  <2>4. /\ txn.tx.deal_price = orders[o].paid /\ txn.tx.deal_amount = res.amount
        /\ txn.tx.used_buy_amount = 0
        /\ txn.tx.free_buy_amount = net_amount(res)
    <3>1. res.price = orders[o].paid
      BY DEF get_order_status
    <3> HIDE DEF res
    <3> QED
      BY <2>2, <3>1 DEF complete_sale_order
  <2>5. o \in DOMAIN orders /\ orders'[o] = orders[o]
    BY <1>2, <2>1, <2>2, ClosedStays
  <2>6. /\ net_amount(res) \in Nat
        /\ (1000 - FeeRate) * res.amount <= 1000 * net_amount(res)
    BY <2>5, NetOfFee
  <2> HIDE DEF res, o
  <2>7. SoldAt(q[n], orders'[q[n].order_id])
    BY <2>3, <2>4, <2>5, <2>6 DEF SoldAt
  <2> QED
    BY <1>1, <1>3, <1>4, <2>7 DEF CommitsSale, RowsSold
<1>5. CASE txn.op = "buy" /\ CommitsBuy
  <2> DEFINE seg == db.buy_tx[n].seg_id
             paid(i) == Client!Paid(p, seg, txn.tx.deal_amount, i)
  <2>1. /\ Client!GoodRows(p)
        /\ \A i \in DOMAIN p \ SoldRows(p, seg) : q[i] = p[i]
        /\ q = p \/ \A i \in SoldRows(p, seg) : Client!PaysOut(p[i], q[i], paid(i))
    BY <1>5, CommitPays DEF BooksInv, PluginsInv
  <2>2. txn.tx.deal_amount \in Int
    <3>1. /\ n \in DOMAIN db.buy_tx
          /\ txn.tx = complete_buy_order(n, get_order_status(db.buy_tx[n].order_id))
      BY <1>5 DEF BooksInv, DealInv, CommitsBuy
    <3>2. db.buy_tx[n].order_id \in DOMAIN orders
      BY <3>1 DEF BooksInv, RowsInv, RowsTell
    <3> DEFINE res == get_order_status(db.buy_tx[n].order_id)
    <3>3. res.amount \in Nat
      BY <3>2, NetOfFee
    <3> HIDE DEF res
    <3>4. txn.tx.deal_amount = res.amount
      BY <3>1 DEF complete_buy_order, res
    <3> QED
      BY <3>3, <3>4
  <2>3. ASSUME NEW i \in SoldRows(p, seg), Client!PaysOut(p[i], q[i], paid(i))
        PROVE  SoldAt(q[i], orders'[q[i].order_id])
    <3>1. i \in DOMAIN p
      BY DEF SoldRows
    <3>2. paid(i) \in Int
      BY <2>1, <2>2, <3>1, Client!PaidInt, ClientAssumptions
    <3>3. /\ p[i].used_buy_amount \in Int /\ p[i].free_buy_amount \in Int
      BY <1>2, <3>1 DEF SaleRows
    <3>4. /\ q[i].used_buy_amount = p[i].used_buy_amount + paid(i)
          /\ q[i].free_buy_amount = p[i].free_buy_amount - paid(i)
      BY <2>3 DEF Client!PaysOut
    <3> HIDE DEF paid
    <3>5. q[i].used_buy_amount + q[i].free_buy_amount
            = p[i].used_buy_amount + p[i].free_buy_amount
      BY <3>2, <3>3, <3>4
    <3>6. SameDeal(p[i], q[i])
      BY <1>5, <3>1 DEF CommitsBuy
    <3> QED
      BY <1>2, <3>1, <3>5, <3>6, SoldStays
  <2> HIDE DEF paid
  <2>4. \A i \in DOMAIN p : SoldAt(q[i], orders'[q[i].order_id])
    BY <1>3, <2>1, <2>3
  <2> QED
    BY <1>1, <2>4 DEF RowsSold
<1> QED
  BY <1>1, <1>4, <1>5

LEMMA SoldStep ==
  ASSUME IInv, BooksInv, RowsSold(db.sale_tx, orders), [Next]_vars
  PROVE  RowsSold(db'.sale_tx, orders')
<1>1. OrdersKept
  BY ApiStep
<1>2. \A i \in DOMAIN db.sale_tx : SoldAt(db.sale_tx[i], orders'[db.sale_tx[i].order_id])
  BY <1>1, SoldStays DEF SameDeal, BooksInv, RowsInv, RowsTell,
                         ClosedRowsAreFinal, RowsSold
<1>3. ASSUME db'.sale_tx = db.sale_tx PROVE RowsSold(db'.sale_tx, orders')
  BY <1>2, <1>3 DEF RowsSold
<1>4. CASE UNCHANGED dbvars
  BY <1>3, <1>4 DEF dbvars
<1>5. CASE SettleClosed \/ Deliver
  BY <1>3, <1>5, CloseByClient DEF Deliver, Statement, update_sale_tx,
     insert_sale_history, update_buy_tx, insert_buy_history, select_unspent,
     use_sale_tx
<1>6. CASE Ended
  BY <1>1, <1>3, <1>6, SoldCommit DEF Ended, Rollback
<1>7. CASE Records
  <2>1. CASE side = "sale"
    <3>1. /\ AddsRow(db.sale_tx, db'.sale_tx, Len(db.sale_tx) + 1,
                     call.req.seg, call.id)
          /\ db'.sale_tx[Len(db.sale_tx) + 1] = NewSaleRow(call.req.seg, call.id)
      BY <1>7, <2>1, Recorded
    <3>2. \A o : SoldAt(NewSaleRow(call.req.seg, call.id), o)
      BY DEF SoldAt, NewSaleRow
    <3> QED
      BY <1>2, <3>1, <3>2 DEF AddsRow, RowsSold
  <2>2. CASE side # "sale"
    BY <1>3, <1>7, <2>2, Recorded
  <2> QED
    BY <2>1, <2>2
<1> QED
  BY <1>4, <1>5, <1>6, <1>7, DbSteps

-----------------------------------------------------------------------------
(* What the buys of a segment spent of it.                                 *)

RowsOf(rows, s) == {i \in DOMAIN rows : rows[i].seg_id = s}

Uses(rows) == [i \in DOMAIN rows |-> rows[i].used_buy_amount]

UsedIn(rows, s) == SumFunctionOnSet(Uses(rows), RowsOf(rows, s))

ClosedRows(rows, s) ==
  {j \in RowsOf(rows, s) : rows[j].status # db_tx_processing}

Bought(rows) == [j \in DOMAIN rows |-> rows[j].deal_number]

BoughtIn(rows, s) == SumFunctionOnSet(Bought(rows), ClosedRows(rows, s))

(* No coin that a segment bought back cost more than its dearest price.    *)
SpentWithin(sales, buys) ==
  \A s \in Segs : 2 * UsedIn(sales, s) <= Dearest(s) * BoughtIn(buys, s)

LEMMA SameSum ==
  ASSUME NEW f, NEW S
  PROVE  Client!SumFunctionOnSet(f, S) = SumFunctionOnSet(f, S)
BY DEF Client!SumFunctionOnSet, SumFunctionOnSet, Client!FoldFunctionOnSet,
       FoldFunctionOnSet, Client!MapThenFoldSet, MapThenFoldSet

(* Rows that use what they used, and new ones that use nothing.            *)
LEMMA UsedSame ==
  ASSUME NEW p, NEW q, NEW s, IsFiniteSet(DOMAIN q), DOMAIN p \subseteq DOMAIN q,
         \A i \in DOMAIN p :
           /\ q[i].seg_id = p[i].seg_id
           /\ p[i].seg_id = s => /\ p[i].used_buy_amount \in Int
                                 /\ q[i].used_buy_amount = p[i].used_buy_amount,
         \A i \in DOMAIN q \ DOMAIN p : q[i].used_buy_amount = 0
  PROVE  UsedIn(q, s) = UsedIn(p, s)
<1> DEFINE S == RowsOf(p, s)
           T == RowsOf(q, s)
<1>1. /\ S \subseteq T /\ S \subseteq DOMAIN p /\ T \subseteq DOMAIN q
      /\ IsFiniteSet(T) /\ IsFiniteSet(S)
  <2>1. S \subseteq T /\ S \subseteq DOMAIN p /\ T \subseteq DOMAIN q
    BY DEF RowsOf
  <2> QED
    BY <2>1, FS_Subset
<1>2. /\ \A i \in S : Uses(q)[i] = Uses(p)[i] /\ Uses(q)[i] \in Int
      /\ \A i \in T \ S : Uses(q)[i] = 0
  <2>1. \A i \in S : i \in DOMAIN p /\ i \in DOMAIN q /\ p[i].seg_id = s
    BY DEF RowsOf
  <2>2. \A i \in T \ S : i \in DOMAIN q \ DOMAIN p
    BY DEF RowsOf
  <2> HIDE DEF S, T
  <2> QED
    BY <2>1, <2>2 DEF Uses
<1>3. \A i \in T : Uses(q)[i] \in Int
  BY <1>2
<1> HIDE DEF S, T
<1>4. SumFunctionOnSet(Uses(q), T) = SumFunctionOnSet(Uses(q), S)
  BY <1>1, <1>2, <1>3, SumZeroes
<1>5. SumFunctionOnSet(Uses(q), S) = SumFunctionOnSet(Uses(p), S)
  BY <1>1, <1>2, SumSame
<1> QED
  BY <1>4, <1>5 DEF UsedIn, S, T

LEMMA BoughtSame ==
  ASSUME NEW p, NEW q, NEW s, IsFiniteSet(DOMAIN p), Untouched(p, q, s)
  PROVE  BoughtIn(q, s) = BoughtIn(p, s)
<1>1. ClosedRows(q, s) = ClosedRows(p, s)
  BY DEF ClosedRows, RowsOf, Untouched
<1>2. IsFiniteSet(ClosedRows(p, s))
  <2>1. ClosedRows(p, s) \subseteq DOMAIN p
    BY DEF ClosedRows, RowsOf
  <2> QED
    BY <2>1, FS_Subset
<1>3. \A i \in ClosedRows(p, s) : Bought(q)[i] = Bought(p)[i]
  BY DEF ClosedRows, RowsOf, Untouched, Bought
<1> QED
  BY <1>1, <1>2, <1>3, SumSame DEF BoughtIn

(* The rows that a commit finds.                                           *)
LEMMA BoughtTyped ==
  ASSUME BooksInv
  PROVE  /\ IsFiniteSet(DOMAIN db.sale_tx) /\ IsFiniteSet(DOMAIN db.buy_tx)
         /\ \A i \in DOMAIN db.sale_tx :
              /\ db.sale_tx[i] \in SaleRows
              /\ db.sale_tx[i].used_buy_amount \in Nat
              /\ db.sale_tx[i].free_buy_amount \in Nat
              /\ db.sale_tx[i].status = db_tx_processing =>
                   db.sale_tx[i].used_buy_amount = 0
         /\ \A j \in DOMAIN db.buy_tx : db.buy_tx[j] \in BuyRows
         /\ \A s : UsedIn(db.sale_tx, s) \in Int /\ BoughtIn(db.buy_tx, s) \in Nat
<1>1. /\ \A i \in DOMAIN db.sale_tx : db.sale_tx[i] \in SaleRows
      /\ \A j \in DOMAIN db.buy_tx : db.buy_tx[j] \in BuyRows
      /\ Len(db.sale_tx) \in Nat /\ DOMAIN db.sale_tx = 1 .. Len(db.sale_tx)
      /\ Len(db.buy_tx) \in Nat /\ DOMAIN db.buy_tx = 1 .. Len(db.buy_tx)
  BY TypedRows DEF BooksInv, PluginsInv, Tables
<1>2. IsFiniteSet(DOMAIN db.sale_tx) /\ IsFiniteSet(DOMAIN db.buy_tx)
  BY <1>1, FS_Interval
<1>3. ASSUME NEW i \in DOMAIN db.sale_tx
      PROVE  /\ db.sale_tx[i].used_buy_amount \in Nat
             /\ db.sale_tx[i].free_buy_amount \in Nat
             /\ db.sale_tx[i].status = db_tx_processing =>
                  db.sale_tx[i].used_buy_amount = 0
  <2> DEFINE row == db.sale_tx[i]
  <2>1. Client!RowOK(row) /\ row \in SaleRows
    BY <1>1 DEF BooksInv, PluginsInv, Client!IInv, Client!RowsOK
  <2>2. row.status = 0 => row.used_buy_amount = 0
    BY <2>1 DEF Client!RowOK, Client!UseStatusAgrees, Client!db_tx_processing
  <2> QED
    BY <2>1, <2>2 DEF Client!RowOK, Client!Balanced, SaleRows, db_tx_processing
<1>4. ASSUME NEW s
      PROVE  UsedIn(db.sale_tx, s) \in Int /\ BoughtIn(db.buy_tx, s) \in Nat
  <2>1. /\ RowsOf(db.sale_tx, s) \subseteq DOMAIN db.sale_tx
        /\ ClosedRows(db.buy_tx, s) \subseteq DOMAIN db.buy_tx
    BY DEF RowsOf, ClosedRows
  <2>2. IsFiniteSet(RowsOf(db.sale_tx, s)) /\ IsFiniteSet(ClosedRows(db.buy_tx, s))
    BY <1>2, <2>1, FS_Subset
  <2>3. \A i \in RowsOf(db.sale_tx, s) : Uses(db.sale_tx)[i] \in Int
    BY <1>3, <2>1 DEF Uses
  <2>4. \A j \in ClosedRows(db.buy_tx, s) : Bought(db.buy_tx)[j] \in Nat
    BY <1>1, <2>1 DEF Bought, BuyRows
  <2> QED
    BY <2>2, <2>3, <2>4, SumInt, SumNat DEF UsedIn, BoughtIn
<1> QED
  BY <1>1, <1>2, <1>3, <1>4

(* A buy that is committed draws its cost, at most, from the sales.        *)
LEMMA CommitUses ==
  ASSUME BooksInv, Commit, txn.op = "buy", NEW amount \in Nat,
         amount = txn.tx.deal_amount, DOMAIN db'.sale_tx = DOMAIN db.sale_tx
  PROVE  LET t == db.buy_tx[txn.tx.id].seg_id IN
         /\ UsedIn(db'.sale_tx, t) \in Int
         /\ UsedIn(db'.sale_tx, t) <= UsedIn(db.sale_tx, t) + amount
<1> DEFINE p == db.sale_tx
           q == db'.sale_tx
           t == db.buy_tx[txn.tx.id].seg_id
           A == SoldRows(p, t)
           S == RowsOf(p, t)
           paid == [i \in DOMAIN p |-> Client!Paid(p, t, amount, i)]
           part == [i \in DOMAIN p |-> IF i \in A THEN paid[i] ELSE 0]
<1>1. /\ Client!GoodRows(p) /\ Client!Asked(p, t) = A
      /\ \A i \in DOMAIN p \ A : q[i] = p[i]
      /\ q = p \/ \A i \in A : Client!PaysOut(p[i], q[i], Client!Paid(p, t, amount, i))
  BY CommitPays DEF BooksInv, PluginsInv
<1>2. /\ A \subseteq S /\ S \subseteq DOMAIN p
      /\ IsFiniteSet(A) /\ IsFiniteSet(S) /\ UsedIn(p, t) \in Int
      /\ \A i \in DOMAIN p : p[i].used_buy_amount \in Nat
  <2>1. A \subseteq S /\ S \subseteq DOMAIN p
    BY DEF SoldRows, RowsOf
  <2> QED
    BY <2>1, BoughtTyped, FS_Subset
<1>3. CASE q = p
  BY <1>2, <1>3
<1>4. CASE \A i \in A : Client!PaysOut(p[i], q[i], Client!Paid(p, t, amount, i))
  <2>1. \A i \in A : paid[i] \in Int
    <3>1. ASSUME NEW i \in A PROVE Client!Paid(p, t, amount, i) \in Int
      BY <1>1, <1>2, Client!PaidInt, ClientAssumptions
    <3> HIDE DEF A
    <3> QED
      BY <1>2, <3>1
  <2>2. SumFunctionOnSet(paid, A) <= amount
    <3>1. Client!SumFunctionOnSet([i \in DOMAIN p |-> Client!Paid(p, t, amount, i)],
                                  Client!Asked(p, t)) <= amount
      BY <1>1, Client!PaidTogether, ClientAssumptions
    <3> QED
      BY <1>1, <3>1, SameSum
  <2>3. RowsOf(q, t) = S
    BY <1>1, <1>4 DEF RowsOf, Client!PaysOut
  <2>4. \A i \in S : /\ Uses(p)[i] \in Int /\ part[i] \in Int
                     /\ Uses(q)[i] = Uses(p)[i] + part[i]
    <3>1. ASSUME NEW i \in S
          PROVE  /\ Uses(p)[i] \in Int /\ part[i] \in Int
                 /\ Uses(q)[i] = Uses(p)[i] + part[i]
      <4>1. i \in DOMAIN p /\ i \in DOMAIN q /\ p[i].used_buy_amount \in Int
        BY <1>2
      <4>2. Uses(p)[i] = p[i].used_buy_amount /\ Uses(q)[i] = q[i].used_buy_amount
        BY <4>1 DEF Uses
      <4>3. CASE i \in A
        <5>1. q[i].used_buy_amount = p[i].used_buy_amount + paid[i]
          BY <1>4, <4>1, <4>3 DEF Client!PaysOut
        <5>2. part[i] = paid[i] /\ paid[i] \in Int
          BY <2>1, <4>1, <4>3
        <5> QED
          BY <4>1, <4>2, <5>1, <5>2
      <4>4. CASE i \notin A
        <5>1. q[i] = p[i] /\ part[i] = 0
          BY <1>1, <4>1, <4>4
        <5> QED
          BY <4>1, <4>2, <5>1
      <4> QED
        BY <4>3, <4>4
    <3> HIDE DEF part, S, A, paid
    <3> QED
      BY <3>1
  <2>5. \A i \in A : part[i] = paid[i]
    BY <1>2
  <2>6. \A i \in S \ A : part[i] = 0
    BY <1>2
  <2> HIDE DEF part, paid, A, S
  <2>7. /\ SumFunctionOnSet(Uses(p), S) \in Int /\ SumFunctionOnSet(part, S) \in Int
        /\ SumFunctionOnSet(Uses(q), S)
             = SumFunctionOnSet(Uses(p), S) + SumFunctionOnSet(part, S)
    BY <1>2, <2>4, SumPlus
  <2>8. SumFunctionOnSet(part, S) = SumFunctionOnSet(part, A)
    <3>1. \A i \in S : part[i] \in Int
      BY <2>4
    <3> QED
      BY <1>2, <2>6, <3>1, SumZeroes
  <2>9. SumFunctionOnSet(part, A) = SumFunctionOnSet(paid, A)
    BY <1>2, <2>5, SumSame
  <2>10. UsedIn(p, t) = SumFunctionOnSet(Uses(p), S)
         /\ UsedIn(q, t) = SumFunctionOnSet(Uses(q), S)
    BY <2>3 DEF UsedIn, S
  <2> QED
    BY <1>2, <2>2, <2>7, <2>8, <2>9, <2>10
<1> QED
  BY <1>1, <1>3, <1>4

(* The dearest price is a positive number.                                 *)
LEMMA DearestTyped ==
  ASSUME NEW s \in Segs
  PROVE  Dearest(s) \in Nat \ {0}
<1>1. BuyPrice[s] \in Nat /\ PriceTick \in Nat \ {0}
  BY TacticsAssumption, TickAssumption
<1>2. premium(BuyPrice[s]) \in Nat
  BY <1>1, PremiumKeepsOrder
<1>3. HighestBuy(s) \in Nat
  BY <1>1, <1>2 DEF HighestBuy
<1> HIDE DEF HighestBuy
<1> QED
  BY <1>1, <1>3 DEF Dearest

(* A closed buy cost its segment at most the dearest price a coin.         *)
LEMMA BuyCosts ==
  ASSUME BooksInv, PriceInv, Commit, txn.op = "buy", CommitsBuy
  PROVE  LET n == txn.tx.id
             t == db.buy_tx[n].seg_id
         IN
         /\ n \in DOMAIN db.buy_tx /\ t \in Segs
         /\ db.buy_tx[n].status = db_tx_processing
         /\ db'.buy_tx[n].status # db_tx_processing /\ db'.buy_tx[n].seg_id = t
         /\ db'.buy_tx[n].deal_number \in Nat /\ txn.tx.deal_amount \in Nat
         /\ 2 * txn.tx.deal_amount <= Dearest(t) * db'.buy_tx[n].deal_number
<1> DEFINE n == txn.tx.id
           row == db.buy_tx[n]
           o == row.order_id
           t == row.seg_id
           res == get_order_status(o)
<1>1. /\ n \in DOMAIN db.buy_tx /\ row \in BuyRows
      /\ row.status = db_tx_processing
  <2>1. n \in OpenBuys
    BY CommitCharges DEF BooksInv, PluginsInv
  <2> QED
    BY <2>1, TypedRows DEF BooksInv, PluginsInv, OpenBuys
<1>2. /\ o \in DOMAIN orders /\ orders[o].side = "buy" /\ orders[o].seg = t
      /\ t \in Segs
  BY <1>1 DEF BooksInv, RowsInv, RowsTell, BuyRows
<1>3. res.status # order_processing /\ txn.tx = complete_buy_order(n, res)
  BY DEF BooksInv, DealInv
<1>4. /\ res.number = orders[o].deals
      /\ res.amount = orders[o].deals * orders[o].paid
  BY DEF get_order_status
<1>5. db'.buy_tx[n] = Client!WrittenBuy(row, txn.tx)
  BY DEF CommitsBuy
<1> HIDE DEF res
<1>6. /\ txn.tx.deal_number = res.number /\ txn.tx.deal_amount = res.amount
      /\ txn.tx.status = res.status
  BY <1>3 DEF complete_buy_order
<1> HIDE DEF row
<1>7. /\ db'.buy_tx[n].status = res.status /\ db'.buy_tx[n].seg_id = t
      /\ db'.buy_tx[n].deal_number = res.number
  BY <1>1, <1>5, <1>6 DEF Client!WrittenBuy, BuyRows
<1>8. /\ orders[o].deals \in Nat /\ orders[o].paid \in Nat /\ orders[o].price \in Nat
      /\ Api!Consistent(orders[o])
  <2>1. orders[o] \in Api!Book /\ Api!Consistent(orders[o])
    BY <1>2, TypedOrders DEF BooksInv, PluginsInv, Api!AInv, Api!BookInv
  <2> QED
    BY <2>1 DEF Api!Book
<1>9. /\ 2 * orders[o].price <= Dearest(t)
      /\ orders[o].deals > 0 => orders[o].paid <= orders[o].price
  BY <1>2 DEF PriceInv, Priced, Traded
<1>10. Dearest(t) \in Nat
  BY <1>2, DearestTyped
<1> DEFINE deals == orders[o].deals
           paid == orders[o].paid
           T == Dearest(t)
<1>11. deals * paid \in Nat /\ 2 * (deals * paid) <= T * deals
  <2>1. deals \in Nat /\ paid \in Nat /\ T \in Nat
    BY <1>8, <1>10
  <2>2. deals > 0 => 2 * paid <= T
    BY <1>8, <1>9, <1>10
  <2> HIDE DEF deals, paid, T
  <2>3. CASE deals = 0
    BY <2>1, <2>3
  <2>4. CASE deals > 0
    <3>1. (2 * paid) * deals <= T * deals
      BY <2>1, <2>2, <2>4
    <3> QED
      BY <2>1, <3>1
  <2> QED
    BY <2>1, <2>3, <2>4
<1> HIDE DEF T
<1>12. db'.buy_tx[n].status # db_tx_processing
  BY <1>3, <1>7 DEF order_processing, db_tx_processing
<1> QED
  BY <1>1, <1>2, <1>4, <1>6, <1>7, <1>8, <1>11, <1>12 DEF T, row

LEMMA SpentCommit ==
  ASSUME IInv, BooksInv, PriceInv, SpentWithin(db.sale_tx, db.buy_tx), Commit
  PROVE  SpentWithin(db'.sale_tx, db'.buy_tx)
<1> DEFINE n == txn.tx.id
           p == db.sale_tx
           q == db'.sale_tx
           b == db.buy_tx
           c == db'.buy_tx
<1>1. /\ DOMAIN q = DOMAIN p /\ DOMAIN c = DOMAIN b
      /\ (txn.op = "sale" /\ CommitsSale) \/ (txn.op = "buy" /\ CommitsBuy)
  BY CommitWrites DEF BooksInv, PluginsInv
<1>2. /\ IsFiniteSet(DOMAIN p) /\ IsFiniteSet(DOMAIN b)
      /\ \A i \in DOMAIN p : p[i] \in SaleRows /\ p[i].used_buy_amount \in Int
      /\ \A j \in DOMAIN b : b[j] \in BuyRows
  BY BoughtTyped
<1>3. CASE txn.op = "sale" /\ CommitsSale
  <2>1. n \in DOMAIN p /\ p[n].status = db_tx_processing
    <3>1. n \in OpenSales
      BY <1>3, CommitCharges DEF BooksInv, PluginsInv
    <3> QED
      BY <3>1 DEF OpenSales
  <2>2. p[n].used_buy_amount = 0
    BY <2>1, BoughtTyped
  <2>3. q[n] = Client!WrittenSale(p[n], txn.tx)
    BY <1>3 DEF CommitsSale
  <2>4. txn.tx.used_buy_amount = 0
    <3> DEFINE res == get_order_status(p[n].order_id)
    <3>1. txn.tx = complete_sale_order(n, res)
      BY <1>3 DEF BooksInv, DealInv
    <3> HIDE DEF res
    <3> QED
      BY <3>1 DEF complete_sale_order
  <2>5. q[n].seg_id = p[n].seg_id /\ q[n].used_buy_amount = 0
    BY <1>2, <2>1, <2>3, <2>4 DEF Client!WrittenSale, SaleRows
  <2>6. \A i \in DOMAIN p : /\ q[i].seg_id = p[i].seg_id
                            /\ p[i].used_buy_amount \in Int
                            /\ q[i].used_buy_amount = p[i].used_buy_amount
    BY <1>2, <1>3, <2>2, <2>5 DEF CommitsSale
  <2>7. c = b
    BY <1>3 DEF CommitsSale
  <2>8. \A s : UsedIn(q, s) = UsedIn(p, s)
    BY <1>1, <1>2, <2>6, UsedSame
  <2> QED
    BY <2>7, <2>8 DEF SpentWithin
<1>4. CASE txn.op = "buy" /\ CommitsBuy
  <2> DEFINE t == b[n].seg_id
             cost == txn.tx.deal_amount
             deals == c[n].deal_number
  <2>1. /\ n \in DOMAIN b /\ t \in Segs
        /\ b[n].status = db_tx_processing
        /\ c[n].status # db_tx_processing /\ c[n].seg_id = t
        /\ deals \in Nat /\ cost \in Nat
        /\ 2 * cost <= Dearest(t) * deals
    BY <1>4, BuyCosts
  <2>2. \A j \in DOMAIN b : j # n => c[j] = b[j]
    BY <1>4 DEF CommitsBuy
  <2>3. ASSUME NEW s \in Segs, s # t
        PROVE  2 * UsedIn(q, s) <= Dearest(s) * BoughtIn(c, s)
    <3>1. Untouched(p, q, s)
      BY <1>4, <2>3, CommitUntouched
    <3>2. UsedIn(q, s) = UsedIn(p, s)
      <4>1. \A i \in DOMAIN p :
              /\ q[i].seg_id = p[i].seg_id
              /\ p[i].seg_id = s => /\ p[i].used_buy_amount \in Int
                                    /\ q[i].used_buy_amount = p[i].used_buy_amount
        BY <1>2, <3>1 DEF Untouched
      <4> QED
        BY <1>1, <1>2, <4>1, UsedSame
    <3>3. Untouched(b, c, s)
      BY <1>1, <2>1, <2>2, <2>3 DEF Untouched
    <3>4. BoughtIn(c, s) = BoughtIn(b, s)
      BY <1>2, <3>3, BoughtSame
    <3> QED
      BY <3>2, <3>4 DEF SpentWithin
  <2>4. 2 * UsedIn(q, t) <= Dearest(t) * BoughtIn(c, t)
    <3> DEFINE S == ClosedRows(b, t)
    <3>1. /\ n \notin S /\ S \subseteq DOMAIN b /\ IsFiniteSet(S)
      <4>1. n \notin S /\ S \subseteq DOMAIN b
        BY <2>1 DEF ClosedRows, RowsOf
      <4> QED
        BY <1>2, <4>1, FS_Subset
    <3>2. ClosedRows(c, t) = S \cup {n}
      BY <1>1, <2>1, <2>2 DEF ClosedRows, RowsOf
    <3>3. /\ \A j \in S : Bought(c)[j] = Bought(b)[j] /\ Bought(b)[j] \in Int
          /\ Bought(c)[n] = deals
      <4>1. \A j \in S : j \in DOMAIN b /\ j # n
        BY <3>1
      <4> HIDE DEF S
      <4> QED
        BY <1>1, <1>2, <2>1, <2>2, <4>1 DEF Bought, BuyRows
    <3> HIDE DEF S
    <3>4. SumFunctionOnSet(Bought(c), S \cup {n})
            = SumFunctionOnSet(Bought(c), S) + Bought(c)[n]
      <4>1. \A j \in S : Bought(c)[j] \in Int
        BY <3>3
      <4>2. Bought(c)[n] \in Int
        BY <2>1, <3>3
      <4> QED
        BY <3>1, <4>1, <4>2, SumAdd
    <3>5. SumFunctionOnSet(Bought(c), S) = SumFunctionOnSet(Bought(b), S)
      BY <3>1, <3>3, SumSame
    <3>6. BoughtIn(c, t) = BoughtIn(b, t) + deals
      BY <3>2, <3>3, <3>4, <3>5 DEF BoughtIn, S
    <3>7. UsedIn(q, t) \in Int /\ UsedIn(q, t) <= UsedIn(p, t) + cost
      BY <1>1, <1>4, <2>1, CommitUses
    <3>8. UsedIn(p, t) \in Int /\ BoughtIn(b, t) \in Int /\ Dearest(t) \in Int
      BY <2>1, BoughtTyped, DearestTyped
    <3>9. 2 * UsedIn(p, t) <= Dearest(t) * BoughtIn(b, t)
      BY <2>1 DEF SpentWithin
    <3> DEFINE T == Dearest(t)
               x == BoughtIn(b, t)
               u == UsedIn(p, t)
               v == UsedIn(q, t)
    <3>10. v \in Int /\ u \in Int /\ x \in Int /\ T \in Int /\ v <= u + cost
           /\ cost \in Int /\ deals \in Int
           /\ 2 * u <= T * x /\ 2 * cost <= T * deals
      BY <2>1, <3>7, <3>8, <3>9
    <3> HIDE DEF T, x, u, v, t, deals, cost
    <3>11. T * (x + deals) = T * x + T * deals
      BY <3>10
    <3>12. 2 * v <= T * (x + deals)
      BY <3>10, <3>11
    <3> QED
      BY <3>6, <3>12 DEF T, x, v
  <2> QED
    BY <2>3, <2>4 DEF SpentWithin
<1> QED
  BY <1>1, <1>3, <1>4

LEMMA SpentStep ==
  ASSUME IInv, BooksInv, PriceInv, SpentWithin(db.sale_tx, db.buy_tx), [Next]_vars
  PROVE  SpentWithin(db'.sale_tx, db'.buy_tx)
<1>1. ASSUME db' = db PROVE SpentWithin(db'.sale_tx, db'.buy_tx)
  BY <1>1
<1>2. CASE UNCHANGED dbvars
  BY <1>1, <1>2 DEF dbvars
<1>3. CASE SettleClosed \/ Deliver
  BY <1>1, <1>3, CloseByClient DEF Deliver, Statement, update_sale_tx,
     insert_sale_history, update_buy_tx, insert_buy_history, select_unspent,
     use_sale_tx
<1>4. CASE Ended
  BY <1>1, <1>4, SpentCommit DEF Ended, Rollback
<1>5. CASE Records
  <2>1. /\ IsFiniteSet(DOMAIN db.sale_tx) /\ IsFiniteSet(DOMAIN db.buy_tx)
        /\ \A i \in DOMAIN db.sale_tx : db.sale_tx[i].used_buy_amount \in Int
    BY BoughtTyped
  <2>2. CASE side = "sale"
    <3> DEFINE n == Len(db.sale_tx) + 1
    <3>1. /\ AddsRow(db.sale_tx, db'.sale_tx, n, call.req.seg, call.id)
          /\ db'.sale_tx[n] = NewSaleRow(call.req.seg, call.id)
          /\ db'.buy_tx = db.buy_tx
      BY <1>5, <2>2, Recorded
    <3>2. db'.sale_tx[n].used_buy_amount = 0
      BY <3>1 DEF NewSaleRow
    <3> HIDE DEF n
    <3>3. /\ DOMAIN db.sale_tx \subseteq DOMAIN db'.sale_tx
          /\ IsFiniteSet(DOMAIN db'.sale_tx)
          /\ \A i \in DOMAIN db.sale_tx : db'.sale_tx[i] = db.sale_tx[i]
          /\ \A i \in DOMAIN db'.sale_tx \ DOMAIN db.sale_tx :
               db'.sale_tx[i].used_buy_amount = 0
      <4>1. DOMAIN db'.sale_tx = DOMAIN db.sale_tx \cup {n}
        BY <3>1 DEF AddsRow
      <4>2. IsFiniteSet(DOMAIN db'.sale_tx)
        BY <2>1, <4>1, FS_AddElement
      <4> QED
        BY <3>1, <3>2, <4>1, <4>2 DEF AddsRow
    <3>4. \A s : UsedIn(db'.sale_tx, s) = UsedIn(db.sale_tx, s)
      BY <2>1, <3>3, UsedSame
    <3> QED
      BY <3>1, <3>4 DEF SpentWithin
  <2>3. CASE side # "sale"
    <3> DEFINE n == Len(db.buy_tx) + 1
    <3>1. /\ AddsRow(db.buy_tx, db'.buy_tx, n, call.req.seg, call.id)
          /\ db'.buy_tx[n] =
               NewBuyRow(call.req.seg, call.id, get_free_amount(call.req.seg))
          /\ db'.sale_tx = db.sale_tx
      BY <1>5, <2>3, Recorded
    <3>2. db'.buy_tx[n].status = db_tx_processing
      BY <3>1 DEF NewBuyRow
    <3> HIDE DEF n
    <3>3. \A s : Untouched(db.buy_tx, db'.buy_tx, s)
      BY <3>1, <3>2 DEF AddsRow, Untouched
    <3>4. \A s : BoughtIn(db'.buy_tx, s) = BoughtIn(db.buy_tx, s)
      BY <2>1, <3>3, BoughtSame
    <3> QED
      BY <3>1, <3>4 DEF SpentWithin
  <2> QED
    BY <2>2, <2>3
<1> QED
  BY <1>2, <1>3, <1>4, <1>5, DbSteps

-----------------------------------------------------------------------------
(* A segment that earns is not short.                                      *)

(* The coins of a row's order that its proceeds do not buy back, as the    *)
(* dearest price T counts them: price p, d coins sold of which v are still *)
(* counted, u and f of the proceeds used and free, k of 1000 kept.         *)
LEMMA SalePays ==
  ASSUME NEW T \in Nat, NEW p \in Nat, NEW d \in Nat, NEW v \in Nat,
         NEW u \in Nat, NEW f \in Nat, NEW k \in 0 .. 1000,
         T <= 2 * p, k * (d * p) <= 1000 * (u + f), 2 * (v * p) >= 2 * f - p
  PROVE  T * (2 * (k * d) - 2000 * v - 1000) <= 4000 * u
<1> DEFINE e == k * d
           x == 2 * e - 2000 * v - 1000
<1>1. e \in Nat /\ k \in Nat
  OBVIOUS
<1>2. k * (d * p) = e * p
  BY <1>1
<1> HIDE DEF e
<1>3. x \in Int
  BY <1>1
<1>4. p * x = 2 * (e * p) - 2000 * (v * p) - 1000 * p
  BY <1>1
<1>5. e * p \in Int /\ v * p \in Int
  BY <1>1
<1>6. p * x <= 2000 * u
  <2> DEFINE a == e * p
             b == v * p
  <2>1. a <= 1000 * (u + f) /\ 2 * b >= 2 * f - p /\ a \in Int /\ b \in Int
    BY <1>2, <1>5
  <2> HIDE DEF a, b
  <2>2. 2 * a - 2000 * b - 1000 * p <= 2000 * u
    BY <2>1
  <2> QED
    BY <1>4, <2>2 DEF a, b
<1> HIDE DEF x
<1>7. CASE x >= 0
  <2>1. T * x <= (2 * p) * x
    BY <1>3, <1>7
  <2>2. (2 * p) * x = 2 * (p * x)
    BY <1>3
  <2>3. T * x <= 4000 * u
    BY <1>3, <1>6, <2>1, <2>2
  <2> QED
    BY <2>3 DEF x, e
<1>8. CASE x < 0
  <2>1. T * x <= 0
    BY <1>3, <1>8
  <2>2. T * x <= 4000 * u
    BY <1>3, <2>1
  <2> QED
    BY <2>2 DEF x, e
<1> QED
  BY <1>3, <1>7, <1>8

(* What NeverOversold counts of a row: what it stands for, or can sell.    *)
Stands(row) == IF Unspent(row) THEN row.valid_sale_number ELSE 0
Waits(row, o) == IF row.status = db_tx_processing THEN o.number ELSE 0

(* The free money of a closed row is what its rounded coins stand for.     *)
LEMMA StandsFor ==
  ASSUME NEW row \in SaleRows, row.status # db_tx_processing,
         Client!ValidRow(row), Client!RowOK(row),
         NEW p \in Nat, row.deal_price = p,
         row.status = order_untrade_closed => p = 0
  PROVE  LET f == row.free_buy_amount
             v == Stands(row)
         IN
         /\ f \in Nat /\ v \in Nat
         /\ p > 0 => 2 * (v * p) >= 2 * f - p
         /\ p = 0 => v = 0
<1> DEFINE f == row.free_buy_amount
           w == row.valid_sale_number
<1>1. f \in Nat /\ w \in Int /\ row.status \in 0 .. 3 /\ row.use_status \in 0 .. 2
  BY DEF SaleRows, Client!RowOK, Client!Balanced
<1>2. CASE Unspent(row)
  <2>1. w = Client!Quotient(f, p)
    BY DEF Client!ValidRow, Client!db_tx_processing, db_tx_processing
  <2>2. p > 0
    BY <1>1, <2>1, NaNAssumption DEF Client!Quotient
  <2>3. w = (2 * f + p) \div (2 * p)
    BY <2>1, <2>2 DEF Client!Quotient
  <2> DEFINE a == 2 * f + p
             b == 2 * p
  <2>4. a \in Nat /\ b \in Nat \ {0}
    BY <1>1, <2>2
  <2>5. w \in Nat /\ b * w > a - b
    <3>1. w = a \div b
      BY <2>3
    <3> HIDE DEF a, b, w
    <3>2. w \in Nat
      BY <2>4, <3>1
    <3>3. b * w > a - b
      BY <2>4, <3>1
    <3> QED
      BY <3>2, <3>3
  <2>6. b * w = 2 * (w * p)
    BY <2>5
  <2>7. w * p \in Nat
    BY <2>5
  <2> DEFINE m == w * p
  <2>8. 2 * m > a - b /\ m \in Nat
    BY <2>5, <2>6, <2>7
  <2> HIDE DEF m
  <2>9. 2 * m >= 2 * f - p
    BY <1>1, <2>8
  <2> QED
    BY <1>1, <1>2, <2>2, <2>5, <2>9 DEF Stands, m
<1>3. CASE ~ Unspent(row)
  <2>1. p > 0 => f = 0
    <3>1. SUFFICES ASSUME p > 0 PROVE f = 0
      OBVIOUS
    <3>2. row.status \in {db_tx_complet_closed, db_tx_portion_closed}
      BY <1>1, <3>1 DEF order_untrade_closed, db_tx_processing,
         db_tx_complet_closed, db_tx_portion_closed
    <3>3. row.use_status = db_tx_complet_used
      BY <1>1, <1>3, <3>2 DEF Unspent, db_tx_unused, db_tx_portion_used,
         db_tx_complet_used
    <3> QED
      BY <3>3 DEF Client!RowOK, Client!UseStatusAgrees, db_tx_complet_used,
         Client!db_tx_complet_used
  <2>2. Stands(row) = 0
    BY <1>3 DEF Stands
  <2>3. p > 0 => 0 >= 2 * f - p
    BY <2>1
  <2> QED
    BY <1>1, <2>2, <2>3
<1> QED
  BY <1>2, <1>3

LEMMA RowPays ==
  ASSUME BooksInv, PriceInv, RowsSold(db.sale_tx, orders), NEW s \in Segs,
         Earns(s), NEW i \in SalesOf(s)
  PROVE  LET row == db.sale_tx[i]
             o   == orders[row.order_id]
         IN
         /\ o.deals \in Nat /\ Stands(row) \in Nat /\ Waits(row, o) \in Nat
         /\ row.used_buy_amount \in Nat
         /\ Dearest(s) * (2 * ((1000 - FeeRate) * o.deals) - 2000 * Stands(row)
                            - 2000 * Waits(row, o) - 1000)
              <= 4000 * row.used_buy_amount
<1> DEFINE row == db.sale_tx[i]
           o == orders[row.order_id]
           T == Dearest(s)
           k == 1000 - FeeRate
           d == o.deals
           u == row.used_buy_amount
           f == row.free_buy_amount
<1>1. /\ i \in DOMAIN db.sale_tx /\ row \in SaleRows
      /\ row.used_buy_amount \in Nat /\ row.seg_id = s
  BY BoughtTyped DEF SalesOf
<1>2. /\ row.order_id \in DOMAIN orders /\ o.side = "sale" /\ o.seg = s
  BY <1>1 DEF BooksInv, RowsInv, RowsTell
<1>3. /\ d \in Nat /\ o.paid \in Nat /\ o.price \in Nat /\ o.number \in Nat
      /\ Api!Consistent(o)
  <2>1. o \in Api!Book /\ Api!Consistent(o)
    BY <1>2, TypedOrders DEF BooksInv, PluginsInv, Api!AInv, Api!BookInv
  <2> QED
    BY <2>1 DEF Api!Book
<1>4. T \in Nat \ {0} /\ k \in 0 .. 1000
  <2>1. k \in 0 .. 1000
    BY FeeAssumption DEF FeeRate
  <2> QED
    BY <2>1, DearestTyped
<1>5. Client!ValidRow(row) /\ Client!RowOK(row)
  BY <1>1 DEF BooksInv, PluginsInv, Client!VInv, Client!ValidRows,
              Client!IInv, Client!RowsOK
<1>6. CASE row.status = db_tx_processing
  <2>1. Stands(row) = 0 /\ Waits(row, o) = o.number
    BY <1>6 DEF Stands, Waits, Unspent, db_tx_processing, db_tx_complet_closed,
                db_tx_portion_closed
  <2>2. d <= o.number
    BY <1>3 DEF Api!Consistent
  <2> DEFINE w == o.number
             e == k * d
  <2>3. /\ e \in Nat /\ e <= 1000 * d
        /\ T \in Nat /\ w \in Nat /\ d \in Nat /\ d <= w /\ u \in Nat
    <3>1. k \in Nat /\ k <= 1000 /\ d \in Nat
      BY <1>3, <1>4
    <3> HIDE DEF k, d
    <3>2. k * d \in Nat /\ k * d <= 1000 * d
      BY <3>1
    <3> QED
      BY <1>1, <1>3, <1>4, <2>2, <3>1, <3>2
  <2> HIDE DEF T, w, e, d, u
  <2>4. T * (2 * e - 2000 * 0 - 2000 * w - 1000) <= 4000 * u
    <3> DEFINE x == 2 * e - 2000 * 0 - 2000 * w - 1000
    <3>1. x \in Int /\ x <= 0
      BY <2>3
    <3> HIDE DEF x
    <3>2. T * x <= 0
      BY <2>3, <3>1
    <3>3. T * x <= 4000 * u
      BY <2>3, <3>1, <3>2
    <3> QED
      BY <3>3 DEF x
  <2> QED
    BY <2>1, <2>3, <2>4 DEF T, w, e, d, u
<1>7. CASE row.status # db_tx_processing
  <2> DEFINE p == o.paid
             v == Stands(row)
             res == get_order_status(row.order_id)
  <2>1. /\ row.deal_price = p
        /\ k * row.deal_amount <= 1000 * (u + f)
    BY <1>1, <1>7 DEF RowsSold, SoldAt
  <2>2. row.status = res.status /\ row.deal_amount = d * p
    <3>1. SettledAsDealt(row)
      BY <1>1 DEF BooksInv, ClosedRowsAreFinal
    <3>2. res.amount = d * p
      BY DEF get_order_status
    <3> HIDE DEF res
    <3>3. row.status = res.status /\ row.deal_amount = res.amount
      BY <1>7, <3>1 DEF SettledAsDealt, res
    <3> QED
      BY <3>2, <3>3
  <2>3. row.status = order_untrade_closed => p = 0
    <3>1. res.status # order_processing
      BY <1>7, <2>2 DEF order_processing, db_tx_processing
    <3>2. IsClosing(res)
      BY <1>2, <3>1, StatusIsLegal DEF LegalResults, BooksInv, PluginsInv
    <3>3. res.price = p
      BY DEF get_order_status
    <3> HIDE DEF res
    <3> QED
      BY <2>2, <3>2, <3>3 DEF IsClosing
  <2>4. p \in Nat
    BY <1>3
  <2> HIDE DEF res, p
  <2>5. /\ f \in Nat /\ v \in Nat
        /\ p > 0 => 2 * (v * p) >= 2 * f - p
        /\ p = 0 => v = 0
    BY <1>1, <1>5, <1>7, <2>1, <2>3, <2>4, StandsFor
  <2>6. Waits(row, o) = 0
    BY <1>7 DEF Waits
  <2>7. T * (2 * (k * d) - 2000 * v - 1000) <= 4000 * u
    <3>1. CASE p > 0
      <4>1. T <= 2 * p
        <5>1. d > 0
          BY <1>3, <3>1 DEF Api!Consistent, p
        <5>2. p >= o.price /\ 2 * o.price >= 2 * LowestSale(s) - PriceTick
          BY <1>2, <5>1 DEF PriceInv, Priced, Traded, p
        <5>3. /\ HighestBuy(s) \in Int /\ LowestSale(s) \in Int /\ PriceTick \in Int
          <6>1. /\ SalePrice[s] \in Nat /\ BuyPrice[s] \in Nat
            BY TacticsAssumption
          <6>2. premium(SalePrice[s]) \in Nat /\ premium(BuyPrice[s]) \in Nat
            BY <6>1, PremiumKeepsOrder
          <6> QED
            BY <6>1, <6>2, TickAssumption DEF HighestBuy, LowestSale
        <5>4. HighestBuy(s) + PriceTick <= LowestSale(s)
          BY DEF Earns
        <5> HIDE DEF o
        <5> QED
          BY <1>3, <2>4, <5>2, <5>3, <5>4 DEF Dearest, o
      <4>2. T \in Nat /\ d \in Nat /\ u \in Nat
        BY <1>1, <1>3, <1>4
      <4>3. k * (d * p) <= 1000 * (u + f)
        BY <2>1, <2>2
      <4>4. 2 * (v * p) >= 2 * f - p
        BY <2>5, <3>1
      <4> HIDE DEF T, k, d, u, f, v
      <4> QED
        BY <1>4, <2>4, <2>5, <4>1, <4>2, <4>3, <4>4, SalePays
    <3>2. CASE p = 0
      <4>1. d = 0 /\ v = 0
        BY <1>3, <2>5, <3>2 DEF Api!Consistent, p
      <4>2. T \in Nat /\ u \in Nat /\ k \in Nat
        BY <1>1, <1>4
      <4> HIDE DEF T, k, d, u, v
      <4>3. k * d = 0
        BY <4>1, <4>2
      <4>4. T * (0 - 1000) <= 4000 * u
        BY <4>2
      <4> QED
        BY <4>1, <4>3, <4>4
    <3> QED
      BY <2>4, <3>1, <3>2
  <2> DEFINE e == k * d
             w == Waits(row, o)
  <2>8. T * (2 * e - 2000 * v - 2000 * w - 1000) <= 4000 * u
    <3>1. e \in Nat /\ T \in Nat
      BY <1>3, <1>4
    <3> HIDE DEF T, e, v, u
    <3>2. 2 * e - 2000 * v - 2000 * 0 - 1000 = 2 * e - 2000 * v - 1000
      BY <2>5, <3>1
    <3> QED
      BY <2>6, <2>7, <3>2 DEF e
  <2> QED
    BY <1>1, <1>3, <2>5, <2>6, <2>8
<1> QED
  BY <1>6, <1>7

(* Terms that are within T times their part of what is used sum up to no   *)
(* more than the buys gave back for it: c times D for the coins sold, l    *)
(* times V and W for those the rows still count, h for each row.           *)
LEMMA SalesPaid ==
  ASSUME NEW S, IsFiniteSet(S), NEW T \in Nat \ {0},
         NEW c \in Int, NEW l \in Int, NEW h \in Int,
         NEW D, NEW V, NEW W, NEW U, NEW back \in Int,
         \A i \in S : D[i] \in Int /\ V[i] \in Int /\ W[i] \in Int,
         \A i \in S : U[i] \in Int,
         \A i \in S : Taken(T, (Taken(c, D[i]) + Taken(l, V[i]))
                                + (Taken(l, W[i]) + Taken(h, 1))) <= Taken(4000, U[i]),
         2 * SumFunctionOnSet(U, S) <= Taken(T, back)
  PROVE  /\ SumFunctionOnSet(D, S) \in Int /\ SumFunctionOnSet(V, S) \in Int
         /\ SumFunctionOnSet(W, S) \in Int /\ Cardinality(S) \in Nat
         /\ (Taken(c, SumFunctionOnSet(D, S)) + Taken(l, SumFunctionOnSet(V, S)))
              + (Taken(l, SumFunctionOnSet(W, S)) + Taken(h, Cardinality(S)))
              <= 2000 * back
<1> DEFINE x == [i \in S |-> (Taken(c, D[i]) + Taken(l, V[i]))
                               + (Taken(l, W[i]) + Taken(h, 1))]
           a == SumFunctionOnSet(x, S)
           b == SumFunctionOnSet(U, S)
<1>1. \A i \in S : x[i] = (Taken(c, D[i]) + Taken(l, V[i]))
                           + (Taken(l, W[i]) + Taken(h, 1))
  OBVIOUS
<1>2. \A i \in S : x[i] \in Int
  BY DEF Taken
<1>3. \A i \in S : Taken(T, x[i]) <= Taken(4000, U[i])
  BY <1>1
<1> HIDE DEF x
<1>4. /\ SumFunctionOnSet(D, S) \in Int /\ SumFunctionOnSet(V, S) \in Int
      /\ SumFunctionOnSet(W, S) \in Int /\ Cardinality(S) \in Nat
      /\ a = (Taken(c, SumFunctionOnSet(D, S)) + Taken(l, SumFunctionOnSet(V, S)))
               + (Taken(l, SumFunctionOnSet(W, S)) + Taken(h, Cardinality(S)))
  <2>1. \A i \in S : D[i] \in Int /\ V[i] \in Int /\ W[i] \in Int
    OBVIOUS
  <2> QED
    BY <1>1, <2>1, SumParts
<1>5. a \in Int /\ b \in Int /\ T * a <= 4000 * b
  <2>1. T \in Int /\ 4000 \in Int
    OBVIOUS
  <2>2. \A i \in S : U[i] \in Int
    OBVIOUS
  <2>3. a \in Int /\ b \in Int /\ Taken(T, a) <= Taken(4000, b)
    BY <1>2, <1>3, <2>1, <2>2, SumCompare
  <2> QED
    BY <2>3 DEF Taken
<1>6. 2 * b <= T * back
  BY DEF Taken
<1> HIDE DEF a, b
<1>7. T * a <= T * (2000 * back)
  <2>1. T * (2000 * back) = 2000 * (T * back) /\ T * back \in Int /\ T * a \in Int
    BY <1>5
  <2> QED
    BY <1>5, <1>6, <2>1
<1>8. a <= 2000 * back
  <2> DEFINE e == 2000 * back
  <2>1. e \in Int /\ T * a <= T * e /\ a \in Int
    BY <1>5, <1>7
  <2> HIDE DEF e
  <2>2. a <= e
    BY <2>1, CancelFactor
  <2> QED
    BY <2>2 DEF e
<1> QED
  BY <1>4, <1>8

LEMMA EarnsEnough ==
  ASSUME IInv, BooksInv, NeverOversold, PriceInv, RowsSold(db.sale_tx, orders),
         SpentWithin(db.sale_tx, db.buy_tx), NEW s \in Segs, Earns(s)
  PROVE  LET out == SumFunctionOnSet(SaleDeals, SalesOf(s))
             in  == SumFunctionOnSet(BuyDeals, BuysOf(s))
         IN  2 * ((1000 - FeeRate) * out - 1000 * in) <=
               1000 * (2 * SaleNumber[s] + NumTick + Cardinality(SalesOf(s)))
<1> DEFINE S == SalesOf(s)
           rows == db.sale_tx
           D == SaleDeals
           V == [i \in DOMAIN rows |-> Stands(rows[i])]
           W == [i \in DOMAIN rows |-> Waits(rows[i], orders[rows[i].order_id])]
           U == Uses(rows)
           T == Dearest(s)
           k == 1000 - FeeRate
           back == BoughtIn(db.buy_tx, s)
<1>1. /\ S = RowsOf(rows, s) /\ S \subseteq DOMAIN rows /\ IsFiniteSet(S)
      /\ IsFiniteSet(DOMAIN db.buy_tx)
  <2>1. S = RowsOf(rows, s) /\ S \subseteq DOMAIN rows
    BY DEF SalesOf, RowsOf
  <2> QED
    BY <2>1, BoughtTyped, FS_Subset
<1>2. T \in Nat \ {0} /\ k \in Nat /\ back \in Int
  <2>1. k \in Nat
    BY FeeAssumption DEF FeeRate
  <2>2. back \in Nat
    BY BoughtTyped
  <2> QED
    BY <2>1, <2>2, DearestTyped
<1>3. \A i \in S : /\ D[i] \in Int /\ V[i] \in Int /\ W[i] \in Int /\ U[i] \in Int
                   /\ V[i] \in Nat /\ W[i] \in Nat
                   /\ T * (2 * (k * D[i]) - 2000 * V[i] - 2000 * W[i] - 1000)
                        <= 4000 * U[i]
  <2>1. ASSUME NEW i \in S
        PROVE  /\ D[i] \in Nat /\ V[i] \in Nat /\ W[i] \in Nat /\ U[i] \in Nat
               /\ T * (2 * (k * D[i]) - 2000 * V[i] - 2000 * W[i] - 1000)
                    <= 4000 * U[i]
    <3>1. i \in DOMAIN rows
      BY <1>1
    <3>2. /\ D[i] = orders[rows[i].order_id].deals /\ V[i] = Stands(rows[i])
          /\ W[i] = Waits(rows[i], orders[rows[i].order_id])
          /\ U[i] = rows[i].used_buy_amount
      BY <3>1 DEF SaleDeals, Uses
    <3> HIDE DEF D, V, W, U, T, k
    <3> QED
      BY <3>2, RowPays DEF T, k
  <2> HIDE DEF D, V, W, U, T, k, S
  <2> QED
    BY <2>1
<1>4. 2 * SumFunctionOnSet(U, S) <= T * back
  BY <1>1 DEF SpentWithin, UsedIn
<1>5. SumFunctionOnSet(V, S) = ValidIn(rows, s)
  <2> DEFINE A == SoldRows(rows, s)
  <2>1. /\ A \subseteq S
        /\ \A i \in S \ A : V[i] = 0
        /\ \A i \in A : V[i] = Valids(rows)[i]
    BY <1>1 DEF SoldRows, RowsOf, Stands, Valids
  <2>2. IsFiniteSet(A)
    BY <1>1, <2>1, FS_Subset
  <2>3. ASSUME NEW i \in S PROVE V[i] \in Int
    <3> HIDE DEF D, V, W, U, T, k, S
    <3> QED
      BY <1>3
  <2> HIDE DEF V, S, A
  <2>4. SumFunctionOnSet(V, S) = SumFunctionOnSet(V, A)
    BY <1>1, <2>1, <2>3, SumZeroes
  <2>5. SumFunctionOnSet(V, A) = SumFunctionOnSet(Valids(rows), A)
    BY <2>1, <2>2, SumSame
  <2> QED
    BY <2>4, <2>5 DEF ValidIn, A
<1>6. SumFunctionOnSet(W, S) = OpenIn(rows, orders, s)
  <2> DEFINE A == OpenRows(rows, s)
  <2>1. /\ A \subseteq S
        /\ \A i \in S \ A : W[i] = 0
        /\ \A i \in A : W[i] = Ordered(rows, orders)[i]
    BY <1>1 DEF OpenRows, RowsOf, Waits, Ordered
  <2>2. IsFiniteSet(A)
    BY <1>1, <2>1, FS_Subset
  <2>3. ASSUME NEW i \in S PROVE W[i] \in Int
    <3> HIDE DEF D, V, W, U, T, k, S
    <3> QED
      BY <1>3
  <2> HIDE DEF W, S, A
  <2>4. SumFunctionOnSet(W, S) = SumFunctionOnSet(W, A)
    BY <1>1, <2>1, <2>3, SumZeroes
  <2>5. SumFunctionOnSet(W, A) = SumFunctionOnSet(Ordered(rows, orders), A)
    BY <2>1, <2>2, SumSame
  <2> QED
    BY <2>4, <2>5 DEF OpenIn, A
<1>7. /\ ValidIn(rows, s) \in Int /\ OpenIn(rows, orders, s) \in Int
      /\ 2 * (ValidIn(rows, s) + OpenIn(rows, orders, s))
           <= 2 * SaleNumber[s] + NumTick
      /\ SaleNumber[s] \in Nat /\ NumTick \in Nat
  BY SumsTyped, WithinNow DEF Within, WithinOf
<1>8. /\ SumFunctionOnSet(BuyDeals, BuysOf(s)) \in Nat
      /\ back <= SumFunctionOnSet(BuyDeals, BuysOf(s))
  <2> DEFINE B == BuysOf(s)
             C == ClosedRows(db.buy_tx, s)
  <2>1. /\ C \subseteq B /\ B \subseteq DOMAIN db.buy_tx
        /\ IsFiniteSet(B) /\ IsFiniteSet(C)
    <3>1. C \subseteq B /\ B \subseteq DOMAIN db.buy_tx
      BY DEF ClosedRows, RowsOf, BuysOf
    <3> QED
      BY <1>1, <3>1, FS_Subset
  <2>2. \A j \in B : BuyDeals[j] \in Nat
    <3>1. \A j \in DOMAIN db.buy_tx : db.buy_tx[j].order_id \in DOMAIN orders
      BY DEF BooksInv, RowsInv, RowsTell
    <3>2. \A o \in DOMAIN orders : orders[o].deals \in Nat
      BY TypedOrders DEF BooksInv, PluginsInv, Api!Book
    <3> QED
      BY <2>1, <3>1, <3>2 DEF BuyDeals
  <2>3. \A j \in C : Bought(db.buy_tx)[j] = BuyDeals[j]
    <3>1. ASSUME NEW j \in C PROVE Bought(db.buy_tx)[j] = BuyDeals[j]
      <4> DEFINE row == db.buy_tx[j]
                 res == get_order_status(row.order_id)
      <4>1. j \in DOMAIN db.buy_tx /\ row.status # db_tx_processing
        BY DEF ClosedRows, RowsOf
      <4>2. SettledAsDealt(row)
        BY <4>1 DEF BooksInv, ClosedRowsAreFinal
      <4>3. res.number = orders[row.order_id].deals
        BY DEF get_order_status
      <4> HIDE DEF res
      <4>4. row.deal_number = res.number
        BY <4>1, <4>2 DEF SettledAsDealt, res
      <4> QED
        BY <4>1, <4>3, <4>4 DEF Bought, BuyDeals
    <3> QED
      BY <3>1
  <2> HIDE DEF B, C
  <2>4. SumFunctionOnSet(Bought(db.buy_tx), C) = SumFunctionOnSet(BuyDeals, C)
    BY <2>1, <2>3, SumSame
  <2>5. SumFunctionOnSet(BuyDeals, C) <= SumFunctionOnSet(BuyDeals, B)
    BY <2>1, <2>2, SumSubset
  <2>6. SumFunctionOnSet(BuyDeals, B) \in Nat
    BY <2>1, <2>2, SumNat
  <2> QED
    BY <2>4, <2>5, <2>6 DEF BoughtIn, B, C
<1> DEFINE out == SumFunctionOnSet(D, S)
           in == SumFunctionOnSet(BuyDeals, BuysOf(s))
           v == SumFunctionOnSet(V, S)
           w == SumFunctionOnSet(W, S)
           n == Cardinality(S)
<1> HIDE DEF D, V, W, U, T, k, back, S
<1>9. /\ out \in Int /\ n \in Nat
      /\ 2 * (k * out) - 2000 * v - 2000 * w - 1000 * n <= 2000 * back
  <2> DEFINE c == 2 * k
             l == 0 - 2000
             h == 0 - 1000
  <2>1. c \in Int /\ l \in Int /\ h \in Int
    BY <1>2
  <2>2. ASSUME NEW i \in S
        PROVE  Taken(T, (Taken(c, D[i]) + Taken(l, V[i]))
                          + (Taken(l, W[i]) + Taken(h, 1))) <= Taken(4000, U[i])
    <3> DEFINE d == D[i]
               m == V[i]
               q == W[i]
    <3>1. /\ d \in Int /\ m \in Int /\ q \in Int
          /\ T * (2 * (k * d) - 2000 * m - 2000 * q - 1000) <= 4000 * U[i]
      BY <1>3
    <3> HIDE DEF d, m, q
    <3>2. (2 * k) * d = 2 * (k * d) /\ k * d \in Int
      BY <1>2, <3>1
    <3>3. (c * d + l * m) + (l * q + h * 1) = 2 * (k * d) - 2000 * m - 2000 * q - 1000
      BY <3>1, <3>2
    <3> QED
      BY <3>1, <3>3 DEF d, m, q, Taken
  <2>3. /\ \A i \in S : D[i] \in Int /\ V[i] \in Int /\ W[i] \in Int
        /\ \A i \in S : U[i] \in Int
    BY <1>3
  <2>4. c * out = 2 * (k * out) /\ c = 2 * k /\ l = 0 - 2000 /\ h = 0 - 1000
    <3>1. out \in Int
      BY <1>1, <2>3, SumInt
    <3> HIDE DEF out
    <3> QED
      BY <1>2, <3>1
  <2> HIDE DEF c, l, h
  <2>5. 2 * SumFunctionOnSet(U, S) <= Taken(T, back)
    BY <1>4 DEF Taken
  <2>6. /\ out \in Int /\ v \in Int /\ w \in Int /\ n \in Nat
        /\ (Taken(c, out) + Taken(l, v)) + (Taken(l, w) + Taken(h, n))
             <= 2000 * back
    BY <1>1, <1>2, <2>1, <2>2, <2>3, <2>5, SalesPaid
  <2> HIDE DEF out, v, w, n
  <2> QED
    BY <1>2, <2>4, <2>6 DEF Taken
<1>10. /\ v \in Int /\ w \in Int /\ 2 * (v + w) <= 2 * SaleNumber[s] + NumTick
       /\ in \in Nat /\ back <= in
  BY <1>5, <1>6, <1>7, <1>8
<1> HIDE DEF out, in, v, w, n
<1>11. 2 * (k * out - 1000 * in) <= 1000 * (2 * SaleNumber[s] + NumTick + n)
  <2> DEFINE e == k * out
             m == SaleNumber[s]
  <2>1. e \in Int /\ m \in Nat
    BY <1>2, <1>7, <1>9
  <2> HIDE DEF e, m
  <2>2. 2 * (e - 1000 * in) <= 1000 * (2 * m + NumTick + n)
    BY <1>2, <1>7, <1>9, <1>10, <2>1 DEF e, m
  <2> QED
    BY <2>2 DEF e, m
<1> QED
  BY <1>11 DEF out, in, n, D, S, k

-----------------------------------------------------------------------------
(* The theorems about the coins that are out.                              *)

(* Prices keep to the configuration, sales keep their proceeds, and buys   *)
(* spend them on coins.                                                    *)
CoinsInv ==
  /\ PriceInv /\ RowsSold(db.sale_tx, orders)
  /\ SpentWithin(db.sale_tx, db.buy_tx)

LEMMA CoinsInit == Init => CoinsInv
<1>1. SUFFICES ASSUME Init PROVE CoinsInv
  OBVIOUS
<1>2. /\ DOMAIN db.sale_tx = {} /\ DOMAIN db.buy_tx = {}
      /\ DOMAIN orders = {} /\ inflight = {} /\ call.step = "idle"
  BY <1>1 DEF Init, DbInit, ApiInit, Idle
<1>3. ASSUME NEW s \in Segs
      PROVE  2 * UsedIn(db.sale_tx, s) <= Dearest(s) * BoughtIn(db.buy_tx, s)
  <2>1. RowsOf(db.sale_tx, s) = {} /\ ClosedRows(db.buy_tx, s) = {}
    BY <1>2 DEF RowsOf, ClosedRows
  <2>2. UsedIn(db.sale_tx, s) = 0 /\ BoughtIn(db.buy_tx, s) = 0
    BY <2>1, SumEmpty DEF UsedIn, BoughtIn
  <2>3. Dearest(s) \in Nat
    BY DearestTyped
  <2> QED
    BY <2>2, <2>3
<1> QED
  BY <1>2, <1>3 DEF CoinsInv, PriceInv, RowsSold, SpentWithin

LEMMA CoinsStep ==
  ASSUME IInv, BooksInv, CoinsInv, [Next]_vars
  PROVE  CoinsInv'
<1>1. /\ PriceInv' /\ RowsSold(db'.sale_tx, orders')
      /\ SpentWithin(db'.sale_tx, db'.buy_tx)
  BY PriceStep, SoldStep, SpentStep DEF CoinsInv
<1>2. RowsSold(db.sale_tx, orders)' /\ SpentWithin(db.sale_tx, db.buy_tx)'
  BY <1>1 DEF RowsSold, SoldAt, SpentWithin, UsedIn, BoughtIn, RowsOf, ClosedRows,
              Uses, Bought, Dearest, HighestBuy, premium
<1> QED
  BY <1>1, <1>2 DEF CoinsInv

(* What the segment's sales and buys really cost: no order is asked for    *)
(* outside the prices of its segment, a closed sale keeps all its proceeds *)
(* but the fee, used or free, and what was used of them bought coins at    *)
(* the dearest price or better.                                            *)
THEOREM CoinsKept == Spec => []CoinsInv
<1>1. Init => CoinsInv
  BY CoinsInit
<1>2. IInv /\ BooksInv /\ CoinsInv /\ [Next]_vars => CoinsInv'
  BY CoinsStep
<1> QED
  BY <1>1, <1>2, LoopInvariance, BooksInvariance, PTL DEF Spec

(* The coins that the exchange has sold for a segment and not bought back, *)
(* the fee's part apart, are at most its sale_number, half a tick and half *)
(* a unit for each sale, whatever fails on the way and whether rows are    *)
(* settled or not, if the segment's prices earn.                           *)
THEOREM NotShort == Spec => []NeverShort
<1>1. IInv /\ BooksInv /\ NeverOversold /\ CoinsInv => NeverShort
  <2> SUFFICES ASSUME IInv, BooksInv, NeverOversold, CoinsInv PROVE NeverShort
    OBVIOUS
  <2> QED
    BY EarnsEnough DEF CoinsInv, NeverShort
<1> QED
  BY <1>1, LoopInvariance, BooksInvariance, NotOversold, CoinsKept, PTL

=============================================================================

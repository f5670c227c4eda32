----------------------------- MODULE TradeDbProofs -----------------------------
(***************************************************************************)
(* Proofs about the database plugin, for every set of segments, order ids  *)
(* and results, and without the bounds of the TLC run.                     *)
(***************************************************************************)
EXTENDS TradeDbSpec, SumTheorems, SequenceTheorems, TLAPS

-----------------------------------------------------------------------------
(* The inductive invariant.                                                *)

RowOK(row) == Balanced(row) /\ UseStatusAgrees(row)

RowsOK(tables) == \A i \in DOMAIN tables.sale_tx : RowOK(tables.sale_tx[i])

(* The connection of the open transaction sees the rows that are committed *)
SameRows ==
  /\ DOMAIN work.sale_tx = DOMAIN db.sale_tx
  /\ DOMAIN work.buy_tx = DOMAIN db.buy_tx

Steps == {"none", "update", "history", "select", "use", "commit"}

(* What deliver_sale_tx was called with, and the step it has reached       *)
SaleTxn ==
  /\ txn.step \in {"update", "history", "commit"}
  /\ txn.tx.id \in DOMAIN db.sale_tx
  /\ \E res \in Results : txn.tx = complete_sale_order(txn.tx.id, res)

(* A row that update_buy_status has still to visit is as it was selected   *)
BuyTxn ==
  /\ txn.step \in {"update", "history", "select", "use", "commit"}
  /\ txn.tx.id \in DOMAIN db.buy_tx
  /\ \E res \in Results : txn.tx = complete_buy_order(txn.tx.id, res)
  /\ txn.step \in {"update", "history", "select"} =>
       work.sale_tx = db.sale_tx
  /\ txn.step = "select" => Spends(txn.tx)
  /\ txn.step = "use" =>
       /\ txn.remain \in Int /\ txn.remain > 0
       /\ txn.list \subseteq delivered_sale_array
       /\ \A i \in txn.list : work.sale_tx[i] = db.sale_tx[i]

TxnOK ==
  /\ txn \in [op: {"none", "sale", "buy"}, step: Steps, tx: {txn.tx},
              list: {txn.list}, remain: {txn.remain}]
  /\ txn.op = "none" => work = db /\ txn.step = "none"
  /\ txn.op = "sale" => SaleTxn
  /\ txn.op = "buy" => BuyTxn

IInv ==
  /\ db \in Tables /\ work \in Tables
  /\ RowsOK(db) /\ RowsOK(work)
  /\ SameRows
  /\ TxnOK

-----------------------------------------------------------------------------
(* Facts about the tables.                                                 *)

(* Replacing one sale by another row of the table changes nothing else.    *)
LEMMA SetSaleRow ==
  ASSUME NEW t \in Tables, NEW i \in DOMAIN t.sale_tx, NEW row \in SaleRows,
         NEW u, u = [t EXCEPT !.sale_tx[i] = row]
  PROVE  /\ u \in Tables
         /\ DOMAIN u.sale_tx = DOMAIN t.sale_tx
         /\ u.buy_tx = t.buy_tx
         /\ u.sale_tx[i] = row
         /\ \A j \in DOMAIN t.sale_tx : j # i => u.sale_tx[j] = t.sale_tx[j]
<1>1. t.sale_tx \in Seq(SaleRows)
  BY DEF Tables
<1>2. /\ [t.sale_tx EXCEPT ![i] = row] \in Seq(SaleRows)
      /\ DOMAIN [t.sale_tx EXCEPT ![i] = row] = DOMAIN t.sale_tx
  BY <1>1
<1>3. u = [t EXCEPT !.sale_tx = [t.sale_tx EXCEPT ![i] = row]]
  OBVIOUS
<1> QED
  BY <1>1, <1>2, <1>3 DEF Tables

(* The same for a buy.                                                     *)
LEMMA SetBuyRow ==
  ASSUME NEW t \in Tables, NEW i \in DOMAIN t.buy_tx, NEW row \in BuyRows,
         NEW u, u = [t EXCEPT !.buy_tx[i] = row]
  PROVE  /\ u \in Tables
         /\ DOMAIN u.buy_tx = DOMAIN t.buy_tx
         /\ u.sale_tx = t.sale_tx
<1>1. t.buy_tx \in Seq(BuyRows)
  BY DEF Tables
<1>2. /\ [t.buy_tx EXCEPT ![i] = row] \in Seq(BuyRows)
      /\ DOMAIN [t.buy_tx EXCEPT ![i] = row] = DOMAIN t.buy_tx
  BY <1>1
<1>3. u = [t EXCEPT !.buy_tx = [t.buy_tx EXCEPT ![i] = row]]
  OBVIOUS
<1> QED
  BY <1>1, <1>2, <1>3 DEF Tables

(* Appending a row of a table.                                             *)
LEMMA AppendSaleRow ==
  ASSUME NEW t \in Tables, NEW row \in SaleRows,
         NEW u, u = [t EXCEPT !.sale_tx = Append(@, row)]
  PROVE  /\ u \in Tables
         /\ u.buy_tx = t.buy_tx
         /\ DOMAIN t.sale_tx \subseteq DOMAIN u.sale_tx
         /\ \A j \in DOMAIN u.sale_tx :
              u.sale_tx[j] = IF j \in DOMAIN t.sale_tx THEN t.sale_tx[j]
                                                       ELSE row
<1>1. t.sale_tx \in Seq(SaleRows)
  BY DEF Tables
<1>2. Append(t.sale_tx, row) \in Seq(SaleRows)
  BY <1>1
<1>3. u.sale_tx = Append(t.sale_tx, row) /\ u.buy_tx = t.buy_tx
  BY DEF Tables
<1>4. u \in Tables
  BY <1>2 DEF Tables
<1>5. /\ DOMAIN t.sale_tx = 1 .. Len(t.sale_tx)
      /\ DOMAIN u.sale_tx = 1 .. (Len(t.sale_tx) + 1)
      /\ Len(t.sale_tx) \in Nat
  BY <1>1, <1>3
<1>6. \A j \in 1 .. (Len(t.sale_tx) + 1) :
        u.sale_tx[j] = IF j \in 1 .. Len(t.sale_tx) THEN t.sale_tx[j] ELSE row
  BY <1>1, <1>3, <1>5
<1> QED
  BY <1>3, <1>4, <1>5, <1>6

(* The same for a buy.                                                     *)
LEMMA AppendBuyRow ==
  ASSUME NEW t \in Tables, NEW row \in BuyRows,
         NEW u, u = [t EXCEPT !.buy_tx = Append(@, row)]
  PROVE  /\ u \in Tables
         /\ u.sale_tx = t.sale_tx
         /\ DOMAIN t.buy_tx \subseteq DOMAIN u.buy_tx
<1>1. t.buy_tx \in Seq(BuyRows)
  BY DEF Tables
<1>2. Append(t.buy_tx, row) \in Seq(BuyRows)
  BY <1>1
<1>3. u.buy_tx = Append(t.buy_tx, row) /\ u.sale_tx = t.sale_tx
  BY DEF Tables
<1>4. u \in Tables
  BY <1>2 DEF Tables
<1>5. /\ DOMAIN t.buy_tx = 1 .. Len(t.buy_tx)
      /\ DOMAIN u.buy_tx = 1 .. (Len(t.buy_tx) + 1)
      /\ Len(t.buy_tx) \in Nat
  BY <1>1, <1>3
<1> QED
  BY <1>3, <1>4, <1>5

-----------------------------------------------------------------------------
(* Facts about the rows.                                                   *)

(* A value the database takes is a number.                                 *)
LEMMA QuotientInt ==
  ASSUME NEW a \in Nat, NEW b \in Nat, SqlNumber(Quotient(a, b))
  PROVE  Quotient(a, b) \in Int
<1>1. b > 0
  BY DEF SqlNumber, Quotient
<1> QED
  BY <1>1 DEF Quotient

(* The transaction of a sale that the database takes: proceeds and a fee   *)
(* that share the amount of the deal.                                      *)
LEMMA SaleTransaction ==
  ASSUME NEW id, NEW res \in Results,
         NEW tx, tx = complete_sale_order(id, res),
         SqlNumber(tx.valid_sale_number)
  PROVE  /\ tx.id = id
         /\ tx.deal_number \in Nat /\ tx.deal_price \in Nat
         /\ tx.deal_fee \in Nat /\ tx.deal_amount \in Nat
         /\ tx.history_fee \in Nat
         /\ tx.valid_sale_number \in Int
         /\ tx.status \in 0..3 /\ tx.status # db_tx_processing
         /\ tx.use_status \in 0..2 /\ tx.use_status = db_tx_unused
         /\ tx.used_buy_amount = 0
         /\ tx.free_buy_amount \in Nat /\ tx.free_buy_amount > 0
         /\ tx.free_buy_amount + tx.deal_fee = tx.deal_amount
<1>1. res \in OrderResults /\ IsClosing(res)
  BY ResultsAssumption
<1>2. /\ res.status \in 0..3 /\ res.price \in Nat /\ res.number \in Nat
      /\ res.amount \in Nat /\ res.fee \in Nat
  BY <1>1 DEF OrderResults
<1>3. SqlNumber(Quotient(net_amount(res), res.price))
  BY DEF complete_sale_order
<1>4. res.price > 0
  BY <1>2, <1>3 DEF SqlNumber, Quotient
<1>5. res.status # order_processing /\ res.fee < res.amount
  BY <1>1, <1>4 DEF IsClosing
<1>6. /\ charged_fee(res) \in Nat
      /\ net_amount(res) \in Nat /\ net_amount(res) > 0
      /\ net_amount(res) + charged_fee(res) = res.amount
  BY <1>2, <1>5, FeeIsFreeAssumption DEF charged_fee, net_amount
<1>7. Quotient(net_amount(res), res.price) \in Int
  BY <1>2, <1>3, <1>6, QuotientInt
<1>8. /\ tx.id = id /\ tx.history_fee = res.fee
      /\ tx.deal_number = res.number /\ tx.deal_price = res.price
      /\ tx.deal_fee = charged_fee(res) /\ tx.deal_amount = res.amount
      /\ tx.used_buy_amount = 0 /\ tx.free_buy_amount = net_amount(res)
      /\ tx.valid_sale_number = Quotient(net_amount(res), res.price)
      /\ tx.status = res.status /\ tx.use_status = db_tx_unused
  BY DEF complete_sale_order
<1> QED
  BY <1>2, <1>5, <1>6, <1>7, <1>8
  DEF order_processing, db_tx_processing, db_tx_unused

(* What update_buy_status takes from an unspent sale of which money is     *)
(* asked.                                                                  *)
LEMMA SpendOK ==
  ASSUME NEW old \in SaleRows, RowOK(old), Unspent(old),
         NEW remain \in Int, remain > 0,
         NEW new, new = Spend(old, remain), SqlNumber(new.valid_sale_number)
  PROVE  /\ new.used_buy_amount \in Int /\ new.used_buy_amount > 0
         /\ new.free_buy_amount \in Nat /\ new.valid_sale_number \in Int
         /\ new.used_buy_amount + new.free_buy_amount + old.deal_fee
              = old.deal_amount
         /\ new.use_status \in {db_tx_portion_used, db_tx_complet_used}
         /\ new.use_status = db_tx_complet_used <=> new.free_buy_amount = 0
<1> DEFINE left == old.free_buy_amount - remain
           free == IF UsedUp(left) THEN 0 ELSE left
           used == old.used_buy_amount + old.free_buy_amount - free
           use  == IF UsedUp(left) THEN db_tx_complet_used
                                   ELSE db_tx_portion_used
<1>1. /\ new.used_buy_amount = used
      /\ new.free_buy_amount = free
      /\ new.valid_sale_number = Quotient(free, old.deal_price)
      /\ new.use_status = use
  BY DEF Spend
<1>2. /\ old.used_buy_amount \in Int /\ old.free_buy_amount \in Int
      /\ old.deal_price \in Nat /\ old.deal_fee \in Nat
      /\ old.deal_amount \in Nat /\ old.status \in 0..3
      /\ old.use_status \in 0..2
  BY DEF SaleRows
<1>3. /\ old.used_buy_amount >= 0 /\ old.free_buy_amount > 0
      /\ old.used_buy_amount + old.free_buy_amount + old.deal_fee
           = old.deal_amount
  BY <1>2 DEF RowOK, Balanced, UseStatusAgrees, Unspent, db_tx_complet_closed,
     db_tx_portion_closed, db_tx_processing, db_tx_unused, db_tx_portion_used,
     db_tx_complet_used
<1>4. /\ free \in Nat /\ used \in Int /\ used > 0
      /\ used + free = old.used_buy_amount + old.free_buy_amount
      /\ use = db_tx_complet_used <=> free = 0
      /\ use \in {db_tx_complet_used, db_tx_portion_used}
  BY <1>2, <1>3 DEF UsedUp, db_tx_complet_used, db_tx_portion_used
<1>5. Quotient(free, old.deal_price) \in Int
  BY <1>1, <1>2, <1>4, QuotientInt
<1> HIDE DEF left, free, used, use
<1> QED
  BY <1>1, <1>2, <1>3, <1>4, <1>5

(* The row that it writes.                                                 *)
LEMMA SpentRowOK ==
  ASSUME NEW old \in SaleRows, old.status # db_tx_processing,
         NEW used \in Int, NEW free \in Nat, NEW valid \in Int,
         NEW use \in {db_tx_portion_used, db_tx_complet_used}, NEW row,
         used > 0, used + free + old.deal_fee = old.deal_amount,
         use = db_tx_complet_used <=> free = 0,
         row = [old EXCEPT !.used_buy_amount = used, !.free_buy_amount = free,
                           !.valid_sale_number = valid, !.use_status = use]
  PROVE  row \in SaleRows /\ RowOK(row)
<1>a. use \in 0..2 /\ free \in Int
  BY DEF db_tx_portion_used, db_tx_complet_used
<1>1. row \in SaleRows
  BY <1>a DEF SaleRows
<1>2. /\ row.used_buy_amount = used /\ row.free_buy_amount = free
      /\ row.use_status = use /\ row.status = old.status
      /\ row.deal_fee = old.deal_fee /\ row.deal_amount = old.deal_amount
  BY DEF SaleRows
<1> QED
  BY <1>1, <1>2
  DEF RowOK, Balanced, UseStatusAgrees, db_tx_processing, db_tx_unused,
      db_tx_portion_used, db_tx_complet_used

(* The row that update_buy_tx writes.                                      *)
LEMMA ClosedBuyRowOK ==
  ASSUME NEW old \in BuyRows, NEW number \in Nat, NEW fee \in Nat,
         NEW amount \in Nat, NEW status \in 0..3, NEW row,
         row = [old EXCEPT !.deal_number = number, !.deal_fee = fee,
                           !.deal_amount = amount, !.status = status]
  PROVE  row \in BuyRows
BY DEF BuyRows

(* The transaction of a buy.                                               *)
LEMMA BuyTransaction ==
  ASSUME NEW id, NEW res \in Results,
         NEW tx, tx = complete_buy_order(id, res)
  PROVE  /\ tx.id = id
         /\ tx.deal_number \in Nat /\ tx.deal_fee \in Nat
         /\ tx.history_fee \in Nat /\ tx.deal_amount \in Nat
         /\ tx.status \in 0..3
<1>1. res \in OrderResults
  BY ResultsAssumption
<1>2. /\ res.status \in 0..3 /\ res.number \in Nat
      /\ res.amount \in Nat /\ res.fee \in Nat
  BY <1>1 DEF OrderResults
<1>3. charged_fee(res) \in Nat
  BY <1>2 DEF charged_fee
<1> QED
  BY <1>2, <1>3 DEF complete_buy_order

(* What the invariant says of a single row.                                *)
LEMMA RowOfTable ==
  ASSUME NEW t \in Tables
  PROVE  /\ \A i \in DOMAIN t.sale_tx : t.sale_tx[i] \in SaleRows /\ i \in Nat
         /\ \A i \in DOMAIN t.buy_tx : t.buy_tx[i] \in BuyRows /\ i \in Nat
<1>1. t.sale_tx \in Seq(SaleRows) /\ t.buy_tx \in Seq(BuyRows)
  BY DEF Tables
<1> QED
  BY <1>1

-----------------------------------------------------------------------------
(* The invariant holds initially, and every step preserves it.             *)

LEMMA InitIInv == DbInit => IInv
<1> SUFFICES ASSUME DbInit PROVE IInv
  OBVIOUS
<1>1. db \in Tables /\ work \in Tables
  BY DEF DbInit, Tables
<1>2. RowsOK(db) /\ RowsOK(work) /\ SameRows
  BY DEF DbInit, RowsOK, SameRows
<1>3. TxnOK
  BY DEF DbInit, TxnOK, NoTxn, Steps
<1> QED
  BY <1>1, <1>2, <1>3 DEF IInv

LEMMA NewSaleStep == IInv /\ NewSale => IInv'
<1> SUFFICES ASSUME IInv,
                    NEW seg \in Segs, NEW oid \in OrderIds,
                    add_new_sale_tx(seg, oid)
             PROVE  IInv'
  BY DEF NewSale
<1> DEFINE row == NewSaleRow(seg, oid)
<1>2. row \in SaleRows
  BY DEF NewSaleRow, SaleRows, db_tx_processing, db_tx_unused
<1>3. RowOK(row)
  BY DEF NewSaleRow, RowOK, Balanced, UseStatusAgrees, db_tx_processing,
     db_tx_unused, db_tx_portion_used, db_tx_complet_used
<1>4. /\ db' = [db EXCEPT !.sale_tx = Append(@, row)] /\ work' = db'
      /\ txn' = txn /\ txn.op = "none"
  BY DEF add_new_sale_tx
<1> HIDE DEF row
<1>5. db \in Tables /\ RowsOK(db)
  BY DEF IInv
<1>6. /\ db' \in Tables
      /\ \A j \in DOMAIN db'.sale_tx :
           db'.sale_tx[j] = IF j \in DOMAIN db.sale_tx THEN db.sale_tx[j]
                                                       ELSE row
  BY <1>2, <1>4, <1>5, AppendSaleRow
<1>7. RowsOK(db')
  BY <1>3, <1>5, <1>6 DEF RowsOK
<1>8. TxnOK'
  BY <1>4 DEF IInv, TxnOK
<1> QED
  BY <1>4, <1>6, <1>7, <1>8 DEF IInv, SameRows

LEMMA NewBuyStep == IInv /\ NewBuy => IInv'
<1> SUFFICES ASSUME IInv,
                    NEW seg \in Segs, NEW oid \in OrderIds,
                    NEW amount \in Numbers,
                    add_new_buy_tx(seg, oid, amount)
             PROVE  IInv'
  BY DEF NewBuy
<1> DEFINE row == NewBuyRow(seg, oid, amount)
<1>1. amount \in Nat
  BY NumbersAssumption
<1>2. row \in BuyRows
  BY <1>1 DEF NewBuyRow, BuyRows, db_tx_processing
<1>3. /\ db' = [db EXCEPT !.buy_tx = Append(@, row)] /\ work' = db'
      /\ txn' = txn /\ txn.op = "none"
  BY DEF add_new_buy_tx
<1> HIDE DEF row
<1>4. db \in Tables /\ RowsOK(db)
  BY DEF IInv
<1>5. db' \in Tables /\ db'.sale_tx = db.sale_tx
  BY <1>2, <1>3, <1>4, AppendBuyRow
<1>6. RowsOK(db')
  BY <1>4, <1>5 DEF RowsOK
<1>7. TxnOK'
  BY <1>3 DEF IInv, TxnOK
<1> QED
  BY <1>3, <1>5, <1>6, <1>7 DEF IInv, SameRows

LEMMA CloseStep == IInv /\ (CloseSale \/ CloseBuy) => IInv'
<1> SUFFICES ASSUME IInv, CloseSale \/ CloseBuy PROVE IInv'
  OBVIOUS
<1>1. db' = db /\ work' = work /\ work = db
  BY DEF CloseSale, CloseBuy, begin_deliver_sale, begin_deliver_buy, IInv, TxnOK
<1>2. CASE CloseSale
  <2>1. PICK id \in new_sale_array, res \in Results : begin_deliver_sale(id, res)
    BY <1>2 DEF CloseSale
  <2>2. txn' = [op |-> "sale", step |-> "update",
                tx |-> complete_sale_order(id, res), list |-> {}, remain |-> 0]
    BY <2>1 DEF begin_deliver_sale, NoTxn
  <2>3. complete_sale_order(id, res).id = id /\ id \in DOMAIN db.sale_tx
    BY DEF complete_sale_order, new_sale_array
  <2>4. SaleTxn'
    BY <1>1, <2>2, <2>3 DEF SaleTxn
  <2>5. TxnOK'
    BY <2>2, <2>4 DEF TxnOK, Steps
  <2> QED
    BY <1>1, <2>5 DEF IInv, SameRows
<1>3. CASE CloseBuy
  <2>1. PICK id \in new_buy_array, res \in Results : begin_deliver_buy(id, res)
    BY <1>3 DEF CloseBuy
  <2>2. txn' = [op |-> "buy", step |-> "update",
                tx |-> complete_buy_order(id, res), list |-> {}, remain |-> 0]
    BY <2>1 DEF begin_deliver_buy, NoTxn
  <2>3. complete_buy_order(id, res).id = id /\ id \in DOMAIN db.buy_tx
    BY DEF complete_buy_order, new_buy_array
  <2>4. BuyTxn'
    BY <1>1, <2>2, <2>3 DEF BuyTxn
  <2>5. TxnOK'
    BY <2>2, <2>4 DEF TxnOK, Steps
  <2> QED
    BY <1>1, <2>5 DEF IInv, SameRows
<1> QED
  BY <1>2, <1>3

(* A statement moves the transaction on and leaves its record alone.       *)
LEMMA NextStatement ==
  ASSUME TxnOK, NEW s \in Steps, NEW l, NEW r,
         txn' = [txn EXCEPT !.list = l, !.remain = r, !.step = s]
  PROVE  /\ txn' \in [op: {"none", "sale", "buy"}, step: Steps, tx: {txn'.tx},
                      list: {txn'.list}, remain: {txn'.remain}]
         /\ txn'.op = txn.op /\ txn'.tx = txn.tx /\ txn'.step = s
         /\ txn'.list = l /\ txn'.remain = r
BY DEF TxnOK

(* The same of a statement that only sets the step.                        *)
LEMMA NextStep ==
  ASSUME TxnOK, NEW s \in Steps, txn' = [txn EXCEPT !.step = s]
  PROVE  /\ txn' \in [op: {"none", "sale", "buy"}, step: Steps, tx: {txn'.tx},
                      list: {txn'.list}, remain: {txn'.remain}]
         /\ txn'.op = txn.op /\ txn'.tx = txn.tx /\ txn'.step = s
         /\ txn'.list = txn.list /\ txn'.remain = txn.remain
BY DEF TxnOK

LEMMA UpdateSaleStep == IInv /\ update_sale_tx => IInv'
<1> SUFFICES ASSUME IInv, update_sale_tx PROVE IInv'
  OBVIOUS
<1> DEFINE tx  == txn.tx
           i   == tx.id
           old == work.sale_tx[i]
           row == [old EXCEPT !.deal_number = tx.deal_number,
                              !.deal_price = tx.deal_price,
                              !.deal_fee = tx.deal_fee,
                              !.deal_amount = tx.deal_amount,
                              !.used_buy_amount = tx.used_buy_amount,
                              !.free_buy_amount = tx.free_buy_amount,
                              !.valid_sale_number = tx.valid_sale_number,
                              !.status = tx.status,
                              !.use_status = tx.use_status]
<1>1. /\ txn.op = "sale" /\ SqlNumber(tx.valid_sale_number)
      /\ work' = [work EXCEPT !.sale_tx[i] = row]
      /\ txn' = [txn EXCEPT !.step = "history"]
      /\ db' = db
  BY DEF update_sale_tx
<1>2. /\ SaleTxn /\ SameRows /\ TxnOK
      /\ work \in Tables /\ RowsOK(work) /\ db \in Tables /\ RowsOK(db)
  BY <1>1 DEF IInv, TxnOK
<1>3. i \in DOMAIN work.sale_tx /\ old \in SaleRows
  BY <1>2, RowOfTable DEF SaleTxn, SameRows
<1>4. PICK res \in Results : tx = complete_sale_order(i, res)
  BY <1>2 DEF SaleTxn
<1>5. row \in SaleRows /\ RowOK(row)
  <2> DEFINE n == tx.deal_number        p == tx.deal_price
             f == tx.deal_fee           m == tx.deal_amount
             u == tx.used_buy_amount    r == tx.free_buy_amount
             v == tx.valid_sale_number  s == tx.status
             t == tx.use_status
  <2>1. /\ n \in Nat /\ p \in Nat /\ f \in Nat /\ m \in Nat /\ v \in Int
        /\ s \in 0..3 /\ s # db_tx_processing
        /\ t \in 0..2 /\ t = db_tx_unused
        /\ u \in Int /\ u = 0 /\ r \in Int /\ r > 0 /\ r + f = m
    <3> HIDE DEF tx, i
    <3> QED
      BY <1>1, <1>4, SaleTransaction
  <2>2. row = [old EXCEPT !.deal_number = n, !.deal_price = p, !.deal_fee = f,
                          !.deal_amount = m, !.used_buy_amount = u,
                          !.free_buy_amount = r, !.valid_sale_number = v,
                          !.status = s, !.use_status = t]
    OBVIOUS
  <2> HIDE DEF n, p, f, m, u, r, v, s, t, tx, i, old, row
  <2>3. row \in SaleRows
    BY <1>3, <2>1, <2>2 DEF SaleRows
  <2>4. /\ row.deal_fee = f /\ row.deal_amount = m
        /\ row.used_buy_amount = u /\ row.free_buy_amount = r
        /\ row.status = s /\ row.use_status = t
    BY <1>3, <2>2 DEF SaleRows
  <2> QED
    BY <2>1, <2>3, <2>4
    DEF RowOK, Balanced, UseStatusAgrees, db_tx_processing, db_tx_unused,
        db_tx_portion_used, db_tx_complet_used
<1> HIDE DEF row
<1>6. /\ work' \in Tables
      /\ DOMAIN work'.sale_tx = DOMAIN work.sale_tx
      /\ work'.buy_tx = work.buy_tx
      /\ work'.sale_tx[i] = row
      /\ \A j \in DOMAIN work.sale_tx : j # i => work'.sale_tx[j] = work.sale_tx[j]
  BY <1>1, <1>2, <1>3, <1>5, SetSaleRow
<1>7. RowsOK(work')
  BY <1>2, <1>5, <1>6 DEF RowsOK
<1>8. /\ txn' \in [op: {"none", "sale", "buy"}, step: Steps, tx: {txn'.tx},
                   list: {txn'.list}, remain: {txn'.remain}]
      /\ txn'.op = "sale" /\ txn'.tx = tx /\ txn'.step = "history"
  BY <1>1, <1>2, NextStep DEF Steps
<1>9. SaleTxn'
  BY <1>1, <1>2, <1>8 DEF SaleTxn
<1>10. TxnOK'
  BY <1>8, <1>9 DEF TxnOK
<1> QED
  BY <1>1, <1>2, <1>6, <1>7, <1>10 DEF IInv, SameRows

(* The record of a closing is a row of the history table.                  *)
LEMMA HistoryRowOK ==
  ASSUME NEW row, row.order_id \in OrderIds,
         NEW tx, tx.id \in Nat, tx.deal_number \in Nat, tx.history_fee \in Nat,
         tx.deal_amount \in Nat, tx.status \in 0..3
  PROVE  HistoryRow(row, tx) \in HistoryRows
BY DEF HistoryRow, HistoryRows

(* A record added to a history table.                                      *)
LEMMA AddHistory ==
  ASSUME NEW t \in Tables, NEW h \in HistoryRows, NEW u,
         \/ u = [t EXCEPT !.sale_history = @ \cup {h}]
         \/ u = [t EXCEPT !.buy_history = @ \cup {h}]
  PROVE  u \in Tables /\ u.sale_tx = t.sale_tx /\ u.buy_tx = t.buy_tx
BY DEF Tables

LEMMA SaleHistoryStep == IInv /\ insert_sale_history => IInv'
<1> SUFFICES ASSUME IInv, insert_sale_history PROVE IInv'
  OBVIOUS
<1> DEFINE tx  == txn.tx
           h   == HistoryRow(work.sale_tx[tx.id], tx)
<1>1. /\ txn.op = "sale"
      /\ work' = [work EXCEPT !.sale_history = @ \cup {h}]
      /\ txn' = [txn EXCEPT !.step = "commit"]
      /\ db' = db
  BY DEF insert_sale_history
<1>2. /\ SaleTxn /\ SameRows /\ TxnOK
      /\ work \in Tables /\ RowsOK(work) /\ db \in Tables /\ RowsOK(db)
  BY <1>1 DEF IInv, TxnOK
<1>3. tx.id \in Nat /\ work.sale_tx[tx.id].order_id \in OrderIds
  <2>1. tx.id \in DOMAIN work.sale_tx
    BY <1>2 DEF SaleTxn, SameRows
  <2>2. tx.id \in Nat /\ work.sale_tx[tx.id] \in SaleRows
    BY <1>2, <2>1, RowOfTable
  <2> QED
    BY <2>2 DEF SaleRows
<1>4. PICK res \in Results : tx = complete_sale_order(tx.id, res)
  BY <1>2 DEF SaleTxn
<1>5. /\ tx.deal_number \in Nat /\ tx.history_fee \in Nat
      /\ tx.deal_amount \in Nat /\ tx.status \in 0..3
  <2>1. res \in OrderResults
    BY ResultsAssumption
  <2> HIDE DEF tx
  <2> QED
    BY <1>4, <2>1 DEF complete_sale_order, OrderResults
<1> HIDE DEF tx
<1>6. h \in HistoryRows
  BY <1>3, <1>5, HistoryRowOK
<1> HIDE DEF h
<1>7. work' \in Tables /\ work'.sale_tx = work.sale_tx /\ work'.buy_tx = work.buy_tx
  BY <1>1, <1>2, <1>6, AddHistory
<1>8. /\ txn' \in [op: {"none", "sale", "buy"}, step: Steps, tx: {txn'.tx},
                   list: {txn'.list}, remain: {txn'.remain}]
      /\ txn'.op = "sale" /\ txn'.tx = txn.tx /\ txn'.step = "commit"
  BY <1>1, <1>2, NextStep DEF Steps
<1>9. SaleTxn'
  BY <1>1, <1>2, <1>8 DEF SaleTxn
<1>10. TxnOK'
  BY <1>8, <1>9 DEF TxnOK
<1> QED
  BY <1>1, <1>2, <1>7, <1>10 DEF IInv, SameRows, RowsOK

LEMMA UpdateBuyStep == IInv /\ update_buy_tx => IInv'
<1> SUFFICES ASSUME IInv, update_buy_tx PROVE IInv'
  OBVIOUS
<1> DEFINE tx  == txn.tx
           i   == tx.id
           old == work.buy_tx[i]
           n == tx.deal_number  f == tx.deal_fee
           m == tx.deal_amount  s == tx.status
           row == [old EXCEPT !.deal_number = n, !.deal_fee = f,
                              !.deal_amount = m, !.status = s]
<1>1. /\ txn.op = "buy" /\ txn.step = "update"
      /\ work' = [work EXCEPT !.buy_tx[i] = row]
      /\ txn' = [txn EXCEPT !.step = "history"]
      /\ db' = db
  BY DEF update_buy_tx
<1>2. /\ BuyTxn /\ SameRows /\ TxnOK
      /\ work \in Tables /\ RowsOK(work) /\ db \in Tables /\ RowsOK(db)
  BY <1>1 DEF IInv, TxnOK
<1>3. i \in DOMAIN work.buy_tx /\ old \in BuyRows
  BY <1>2, RowOfTable DEF BuyTxn, SameRows
<1>4. PICK res \in Results : tx = complete_buy_order(i, res)
  BY <1>2 DEF BuyTxn
<1>5. n \in Nat /\ f \in Nat /\ m \in Nat /\ s \in 0..3
  <2> HIDE DEF tx, i
  <2> QED
    BY <1>4, BuyTransaction
<1>6. row \in BuyRows
  <2> HIDE DEF n, f, m, s, tx, i, old
  <2> QED
    BY <1>3, <1>5, ClosedBuyRowOK
<1> HIDE DEF row
<1>7. /\ work' \in Tables
      /\ DOMAIN work'.buy_tx = DOMAIN work.buy_tx
      /\ work'.sale_tx = work.sale_tx
  BY <1>1, <1>2, <1>3, <1>6, SetBuyRow
<1>8. /\ txn' \in [op: {"none", "sale", "buy"}, step: Steps, tx: {txn'.tx},
                   list: {txn'.list}, remain: {txn'.remain}]
      /\ txn'.op = "buy" /\ txn'.tx = tx /\ txn'.step = "history"
  BY <1>1, <1>2, NextStep DEF Steps
<1>9. BuyTxn'
  BY <1>1, <1>2, <1>7, <1>8 DEF BuyTxn
<1>10. TxnOK'
  BY <1>8, <1>9 DEF TxnOK
<1> QED
  BY <1>1, <1>2, <1>7, <1>10 DEF IInv, SameRows, RowsOK

LEMMA BuyHistoryStep == IInv /\ insert_buy_history => IInv'
<1> SUFFICES ASSUME IInv, insert_buy_history PROVE IInv'
  OBVIOUS
<1> DEFINE tx   == txn.tx
           h    == HistoryRow(work.buy_tx[tx.id], tx)
           step == IF Spends(tx) THEN "select" ELSE "commit"
<1>1. /\ txn.op = "buy" /\ txn.step = "history"
      /\ work' = [work EXCEPT !.buy_history = @ \cup {h}]
      /\ txn' = [txn EXCEPT !.step = step]
      /\ db' = db
  BY DEF insert_buy_history
<1>2. /\ BuyTxn /\ SameRows /\ TxnOK
      /\ work \in Tables /\ RowsOK(work) /\ db \in Tables /\ RowsOK(db)
  BY <1>1 DEF IInv, TxnOK
<1>3. tx.id \in Nat /\ work.buy_tx[tx.id].order_id \in OrderIds
  <2>1. tx.id \in DOMAIN work.buy_tx
    BY <1>2 DEF BuyTxn, SameRows
  <2>2. tx.id \in Nat /\ work.buy_tx[tx.id] \in BuyRows
    BY <1>2, <2>1, RowOfTable
  <2> QED
    BY <2>2 DEF BuyRows
<1>4. PICK res \in Results : tx = complete_buy_order(tx.id, res)
  BY <1>2 DEF BuyTxn
<1>5. /\ tx.deal_number \in Nat /\ tx.history_fee \in Nat
      /\ tx.deal_amount \in Nat /\ tx.status \in 0..3
  <2> HIDE DEF tx
  <2> QED
    BY <1>4, BuyTransaction
<1>6. h \in HistoryRows
  <2> HIDE DEF tx
  <2> QED
    BY <1>3, <1>5, HistoryRowOK
<1> HIDE DEF h
<1>7. work' \in Tables /\ work'.sale_tx = work.sale_tx /\ work'.buy_tx = work.buy_tx
  BY <1>1, <1>2, <1>6, AddHistory
<1>8. step \in Steps /\ step \in {"select", "commit"}
      /\ (step = "select" => Spends(txn.tx))
  BY DEF Steps
<1> HIDE DEF step
<1>9. /\ txn' \in [op: {"none", "sale", "buy"}, step: Steps, tx: {txn'.tx},
                   list: {txn'.list}, remain: {txn'.remain}]
      /\ txn'.op = "buy" /\ txn'.tx = txn.tx /\ txn'.step = step
  BY <1>1, <1>2, <1>8, NextStep
<1>10. BuyTxn'
  BY <1>1, <1>2, <1>7, <1>8, <1>9 DEF BuyTxn
<1>11. TxnOK'
  BY <1>9, <1>10 DEF TxnOK
<1> QED
  BY <1>1, <1>2, <1>7, <1>11 DEF IInv, SameRows, RowsOK

LEMMA SelectStep == IInv /\ select_unspent => IInv'
<1> SUFFICES ASSUME IInv, select_unspent PROVE IInv'
  OBVIOUS
<1> DEFINE seg  == work.buy_tx[txn.tx.id].seg_id
           list == {i \in delivered_sale_array : db.sale_tx[i].seg_id = seg}
           step == IF list = {} THEN "commit" ELSE "use"
<1>1. /\ txn.op = "buy" /\ txn.step = "select"
      /\ txn' = [txn EXCEPT !.list = list, !.remain = txn.tx.deal_amount,
                            !.step = step]
      /\ db' = db /\ work' = work
  BY DEF select_unspent
<1>2. BuyTxn /\ SameRows /\ TxnOK
  BY <1>1 DEF IInv, TxnOK
<1>3. list \subseteq delivered_sale_array /\ delivered_sale_array' = delivered_sale_array
  BY <1>1 DEF delivered_sale_array
<1>4. step \in {"commit", "use"} /\ step \in Steps
  BY DEF Steps
<1> HIDE DEF list, step
<1>5. /\ txn' \in [op: {"none", "sale", "buy"}, step: Steps, tx: {txn'.tx},
                   list: {txn'.list}, remain: {txn'.remain}]
      /\ txn'.op = "buy" /\ txn'.tx = txn.tx /\ txn'.step = step
      /\ txn'.list = list /\ txn'.remain = txn.tx.deal_amount
  BY <1>1, <1>2, <1>4, NextStatement
<1>6. txn.tx.deal_amount \in Int /\ txn.tx.deal_amount > 0
  <2>1. PICK res \in Results : txn.tx = complete_buy_order(txn.tx.id, res)
    BY <1>2 DEF BuyTxn
  <2>2. Spends(txn.tx)
    BY <1>1, <1>2 DEF BuyTxn
  <2> DEFINE tx == txn.tx
  <2> HIDE DEF tx
  <2>3. tx.deal_amount \in Nat
    BY <2>1, BuyTransaction DEF tx
  <2> QED
    BY <2>2, <2>3 DEF Spends, tx
<1>7. BuyTxn'
  BY <1>1, <1>2, <1>3, <1>4, <1>5, <1>6 DEF BuyTxn
<1>8. TxnOK'
  BY <1>5, <1>7 DEF TxnOK
<1> QED
  BY <1>1, <1>8 DEF IInv, SameRows, RowsOK

(* The row that use_sale_tx visits is as it was when it was selected, so   *)
(* what it writes there is computed from what it overwrites.               *)
LEMMA UseStep == IInv /\ use_sale_tx => IInv'
<1> SUFFICES ASSUME IInv, use_sale_tx PROVE IInv'
  OBVIOUS
<1>1. PICK i \in txn.list :
        LET new    == Spend(db.sale_tx[i], txn.remain)
            remain == txn.remain - db.sale_tx[i].free_buy_amount
            list   == txn.list \ {i}
        IN
        /\ SqlNumber(new.valid_sale_number)
        /\ work' = [work EXCEPT !.sale_tx[i] =
             [@ EXCEPT !.used_buy_amount = new.used_buy_amount,
                       !.free_buy_amount = new.free_buy_amount,
                       !.valid_sale_number = new.valid_sale_number,
                       !.use_status = new.use_status]]
        /\ txn' = [txn EXCEPT !.list = list, !.remain = remain,
                     !.step = IF StillToPay(remain, list) THEN "use"
                                                          ELSE "commit"]
  BY DEF use_sale_tx
<1> DEFINE old    == work.sale_tx[i]
           new    == Spend(db.sale_tx[i], txn.remain)
           remain == txn.remain - db.sale_tx[i].free_buy_amount
           list   == txn.list \ {i}
           step   == IF StillToPay(remain, list) THEN "use" ELSE "commit"
           used  == new.used_buy_amount    free == new.free_buy_amount
           valid == new.valid_sale_number  use  == new.use_status
           row == [old EXCEPT !.used_buy_amount = used,
                              !.free_buy_amount = free,
                              !.valid_sale_number = valid,
                              !.use_status = use]
<1>2. /\ txn.op = "buy" /\ txn.step = "use" /\ db' = db
      /\ SqlNumber(valid)
      /\ work' = [work EXCEPT !.sale_tx[i] = row]
      /\ txn' = [txn EXCEPT !.list = list, !.remain = remain, !.step = step]
  BY <1>1 DEF use_sale_tx
<1>3. /\ BuyTxn /\ SameRows /\ TxnOK
      /\ work \in Tables /\ RowsOK(work) /\ db \in Tables /\ RowsOK(db)
  BY <1>2 DEF IInv, TxnOK
<1>4. /\ txn.remain \in Int /\ txn.remain > 0
      /\ i \in DOMAIN db.sale_tx /\ i \in DOMAIN work.sale_tx
      /\ old = db.sale_tx[i] /\ Unspent(old)
  BY <1>2, <1>3 DEF BuyTxn, SameRows, delivered_sale_array
<1>5. old \in SaleRows /\ RowOK(old) /\ old.status # db_tx_processing
  BY <1>3, <1>4, RowOfTable
  DEF RowsOK, Unspent, db_tx_complet_closed, db_tx_portion_closed,
      db_tx_processing
<1>6. /\ used \in Int /\ used > 0 /\ free \in Nat /\ valid \in Int
      /\ used + free + old.deal_fee = old.deal_amount
      /\ use \in {db_tx_portion_used, db_tx_complet_used}
      /\ use = db_tx_complet_used <=> free = 0
  <2>1. new = Spend(old, txn.remain)
    BY <1>4
  <2> HIDE DEF old, new
  <2> QED
    BY <1>2, <1>4, <1>5, <2>1, SpendOK
<1>7. row \in SaleRows /\ RowOK(row)
  <2> HIDE DEF used, free, valid, use, old
  <2> QED
    BY <1>5, <1>6, SpentRowOK
<1> HIDE DEF row
<1>8. /\ work' \in Tables
      /\ DOMAIN work'.sale_tx = DOMAIN work.sale_tx
      /\ work'.buy_tx = work.buy_tx
      /\ work'.sale_tx[i] = row
      /\ \A j \in DOMAIN work.sale_tx :
           j # i => work'.sale_tx[j] = work.sale_tx[j]
  BY <1>2, <1>3, <1>4, <1>7, SetSaleRow
<1>9. RowsOK(work')
  BY <1>3, <1>7, <1>8 DEF RowsOK
<1>10. remain \in Int /\ (step = "use" => remain > 0) /\ step \in {"use", "commit"}
  <2>1. db.sale_tx[i].free_buy_amount \in Int
    BY <1>4, <1>5 DEF SaleRows
  <2> QED
    BY <1>4, <2>1 DEF StillToPay
<1> HIDE DEF step, remain
<1>11. /\ txn' \in [op: {"none", "sale", "buy"}, step: Steps, tx: {txn'.tx},
                    list: {txn'.list}, remain: {txn'.remain}]
       /\ txn'.op = "buy" /\ txn'.tx = txn.tx /\ txn'.step = step
       /\ txn'.list = list /\ txn'.remain = remain
  BY <1>2, <1>3, <1>10, NextStatement DEF Steps
<1>12. /\ list \subseteq delivered_sale_array
       /\ delivered_sale_array' = delivered_sale_array
       /\ \A j \in list : work'.sale_tx[j] = db.sale_tx[j]
  <2>1. txn.list \subseteq delivered_sale_array
    BY <1>2, <1>3 DEF BuyTxn
  <2>2. \A j \in list : j # i /\ j \in DOMAIN work.sale_tx
    BY <1>3, <2>1 DEF delivered_sale_array, SameRows
  <2> QED
    BY <1>2, <1>3, <1>8, <2>1, <2>2 DEF BuyTxn, delivered_sale_array
<1>13. BuyTxn'
  BY <1>2, <1>3, <1>10, <1>11, <1>12 DEF BuyTxn
<1>14. TxnOK'
  BY <1>11, <1>13 DEF TxnOK
<1> QED
  BY <1>2, <1>3, <1>8, <1>9, <1>14 DEF IInv, SameRows

LEMMA EndStep == IInv /\ (Commit \/ Rollback) => IInv'
<1> SUFFICES ASSUME IInv, Commit \/ Rollback PROVE IInv'
  OBVIOUS
<1>1. /\ db' = work' /\ txn' = NoTxn
      /\ db' = work \/ db' = db
  BY DEF Commit, Rollback
<1>2. TxnOK'
  BY <1>1 DEF TxnOK, NoTxn, Steps
<1> QED
  BY <1>1, <1>2 DEF IInv, SameRows

LEMMA NextIInv == IInv /\ [DbNext]_dbvars => IInv'
<1> SUFFICES ASSUME IInv, [DbNext]_dbvars PROVE IInv'
  OBVIOUS
<1>1. CASE NewSale
  BY <1>1, NewSaleStep
<1>2. CASE NewBuy
  BY <1>2, NewBuyStep
<1>3. CASE CloseSale \/ CloseBuy
  BY <1>3, CloseStep
<1>4. CASE update_sale_tx
  BY <1>4, UpdateSaleStep
<1>5. CASE insert_sale_history
  BY <1>5, SaleHistoryStep
<1>6. CASE update_buy_tx
  BY <1>6, UpdateBuyStep
<1>7. CASE insert_buy_history
  BY <1>7, BuyHistoryStep
<1>8. CASE select_unspent
  BY <1>8, SelectStep
<1>9. CASE use_sale_tx
  BY <1>9, UseStep
<1>10. CASE Commit \/ Rollback
  BY <1>10, EndStep
<1>11. CASE UNCHANGED dbvars
  BY <1>11 DEF dbvars, IInv, TxnOK, SaleTxn, BuyTxn, SameRows,
     delivered_sale_array
<1> QED
  BY <1>1, <1>2, <1>3, <1>4, <1>5, <1>6, <1>7, <1>8, <1>9, <1>10, <1>11
  DEF DbNext, Statement

-----------------------------------------------------------------------------
(* The theorems.                                                           *)

(* The rows the connection of the transaction sees and those committed     *)
(* balance in every reachable state, and an open transaction works on rows *)
(* as it has read them.                                                    *)
THEOREM Invariance == DbSpec => []IInv
BY InitIInv, NextIInv, PTL DEF DbSpec

(* Whatever the exchange reports, the tables hold rows of table.sql, in    *)
(* particular no NaN.                                                      *)
THEOREM TypeCorrect == DbSpec => []DbTypeOK
<1>1. IInv => DbTypeOK
  BY DEF IInv, TxnOK, Steps, DbTypeOK
<1> QED
  BY <1>1, Invariance, PTL

(* deliver_sale_tx and update_buy_status never create or lose proceeds: in *)
(* every committed row what is used, what is free and the fee are the      *)
(* amount of the deal.                                                     *)
THEOREM Balance == DbSpec => []SaleRowBalance
<1>1. IInv => SaleRowBalance
  BY DEF IInv, RowsOK, RowOK, SaleRowBalance
<1> QED
  BY <1>1, Invariance, PTL

(* The use_status that the queries select by agrees with the amounts.      *)
THEOREM UseStatus == DbSpec => []UseStatusTellsTruth
<1>1. IInv => UseStatusTellsTruth
  BY DEF IInv, RowsOK, RowOK, UseStatusTellsTruth
<1> QED
  BY <1>1, Invariance, PTL

-----------------------------------------------------------------------------
(* The closing of an order in two tables, the order's own and its history: *)
(* they agree whenever something is committed, for tables of any length    *)
(* and a Rollback before any statement.                                    *)
(*                                                                         *)
(* The inductive invariant, on top of IInv.  The two kinds of orders are   *)
(* alike in it: rows is sale_tx or buy_tx, history the table of its        *)
(* records.                                                                *)

HistoryOK(rows, history) ==
  /\ \A i \in DOMAIN rows : Recorded(rows[i], i, history)
  /\ \A h \in history : h.tx_id \in DOMAIN rows

(* Between the UPDATE and the INSERT the row of the transaction is closed  *)
(* without a record, and holds what the record will hold.                  *)
HalfClosed(rows, history, tx) ==
  /\ \A i \in DOMAIN rows : i # tx.id => Recorded(rows[i], i, history)
  /\ \A h \in history : h.tx_id \in DOMAIN rows /\ h.tx_id # tx.id
  /\ rows[tx.id].deal_number = tx.deal_number
  /\ rows[tx.id].deal_amount = tx.deal_amount
  /\ rows[tx.id].status = tx.status
  /\ tx.status # db_tx_processing

WorkHistory(op, rows, history) ==
  /\ txn.op = op /\ txn.step = "update" =>
       rows[txn.tx.id].status = db_tx_processing
  /\ IF txn.op = op /\ txn.step = "history"
     THEN HalfClosed(rows, history, txn.tx)
     ELSE HistoryOK(rows, history)

HInv ==
  /\ HistoryOK(db.sale_tx, db.sale_history)
  /\ HistoryOK(db.buy_tx, db.buy_history)
  /\ WorkHistory("sale", work.sale_tx, work.sale_history)
  /\ WorkHistory("buy", work.buy_tx, work.buy_history)

-----------------------------------------------------------------------------
(* Facts about a table and its history.                                    *)

(* A new order has no record.                                              *)
LEMMA NewRowRecorded ==
  ASSUME NEW rows, NEW history, HistoryOK(rows, history),
         NEW row, row.status = db_tx_processing,
         NEW new, DOMAIN rows \subseteq DOMAIN new,
         \A j \in DOMAIN new :
           new[j] = IF j \in DOMAIN rows THEN rows[j] ELSE row
  PROVE  HistoryOK(new, history)
<1>1. ASSUME NEW j \in DOMAIN new, j \notin DOMAIN rows
      PROVE  Recorded(new[j], j, history)
  <2>1. {h \in history : h.tx_id = j} = {}
    BY <1>1 DEF HistoryOK
  <2> QED
    BY <1>1, <2>1 DEF Recorded
<1>2. ASSUME NEW j \in DOMAIN rows
      PROVE  Recorded(new[j], j, history)
  BY <1>2 DEF HistoryOK
<1>3. \A h \in history : h.tx_id \in DOMAIN new
  BY DEF HistoryOK
<1> QED
  BY <1>1, <1>2, <1>3 DEF HistoryOK

(* The UPDATE closes a row that has no record yet.                         *)
LEMMA CloseRow ==
  ASSUME NEW rows, NEW history, HistoryOK(rows, history),
         NEW tx, tx.id \in DOMAIN rows, tx.status # db_tx_processing,
         rows[tx.id].status = db_tx_processing,
         NEW new, DOMAIN new = DOMAIN rows,
         \A j \in DOMAIN rows : j # tx.id => new[j] = rows[j],
         new[tx.id].deal_number = tx.deal_number,
         new[tx.id].deal_amount = tx.deal_amount,
         new[tx.id].status = tx.status
  PROVE  HalfClosed(new, history, tx)
<1>1. {h \in history : h.tx_id = tx.id} = {}
  BY DEF HistoryOK, Recorded
<1> QED
  BY <1>1 DEF HistoryOK, HalfClosed

(* The INSERT adds the one record of the row.                              *)
LEMMA AddRecord ==
  ASSUME NEW rows, NEW history, NEW tx, tx.id \in DOMAIN rows,
         HalfClosed(rows, history, tx),
         NEW h, h = HistoryRow(rows[tx.id], tx)
  PROVE  HistoryOK(rows, history \cup {h})
<1>1. /\ h.tx_id = tx.id /\ h.order_id = rows[tx.id].order_id
      /\ h.deal_number = tx.deal_number /\ h.deal_amount = tx.deal_amount
      /\ h.status = tx.status
  BY DEF HistoryRow
<1>2. Recorded(rows[tx.id], tx.id, history \cup {h})
  <2>1. {g \in history \cup {h} : g.tx_id = tx.id} = {h}
    BY <1>1 DEF HalfClosed
  <2> QED
    BY <1>1, <2>1 DEF HalfClosed, Recorded
<1>3. ASSUME NEW i \in DOMAIN rows, i # tx.id
      PROVE  Recorded(rows[i], i, history \cup {h})
  <2>1. {g \in history \cup {h} : g.tx_id = i} = {g \in history : g.tx_id = i}
    BY <1>1, <1>3
  <2>2. Recorded(rows[i], i, history)
    BY <1>3 DEF HalfClosed
  <2> QED
    BY <2>1, <2>2 DEF Recorded
<1>4. \A g \in history \cup {h} : g.tx_id \in DOMAIN rows
  BY <1>1 DEF HalfClosed
<1> QED
  BY <1>2, <1>3, <1>4 DEF HistoryOK

(* update_buy_status leaves the columns alone that the record repeats.     *)
LEMMA UsedRowRecorded ==
  ASSUME NEW rows, NEW history, HistoryOK(rows, history),
         NEW i \in DOMAIN rows,
         NEW new, DOMAIN new = DOMAIN rows,
         \A j \in DOMAIN rows : j # i => new[j] = rows[j],
         new[i].order_id = rows[i].order_id,
         new[i].deal_number = rows[i].deal_number,
         new[i].deal_amount = rows[i].deal_amount,
         new[i].status = rows[i].status
  PROVE  HistoryOK(new, history)
<1>1. Recorded(new[i], i, history)
  BY DEF HistoryOK, Recorded
<1> QED
  BY <1>1 DEF HistoryOK

(* A row is written or appended to one table and the histories stay.       *)
LEMMA HistoriesStay ==
  ASSUME NEW t \in Tables, NEW rows, NEW u,
         \/ u = [t EXCEPT !.sale_tx = rows]
         \/ u = [t EXCEPT !.buy_tx = rows]
  PROVE  u.sale_history = t.sale_history /\ u.buy_history = t.buy_history
BY DEF Tables

(* AppendBuyRow says nothing of the rows themselves.                       *)
LEMMA AppendedBuyRow ==
  ASSUME NEW t \in Tables, NEW row \in BuyRows,
         NEW u, u = [t EXCEPT !.buy_tx = Append(@, row)]
  PROVE  /\ DOMAIN t.buy_tx \subseteq DOMAIN u.buy_tx
         /\ \A j \in DOMAIN u.buy_tx :
              u.buy_tx[j] = IF j \in DOMAIN t.buy_tx THEN t.buy_tx[j] ELSE row
<1>1. t.buy_tx \in Seq(BuyRows)
  BY DEF Tables
<1>2. u.buy_tx = Append(t.buy_tx, row)
  BY DEF Tables
<1>3. /\ DOMAIN t.buy_tx = 1 .. Len(t.buy_tx)
      /\ DOMAIN u.buy_tx = 1 .. (Len(t.buy_tx) + 1)
      /\ Len(t.buy_tx) \in Nat
  BY <1>1, <1>2
<1>4. \A j \in 1 .. (Len(t.buy_tx) + 1) :
        u.buy_tx[j] = IF j \in 1 .. Len(t.buy_tx) THEN t.buy_tx[j] ELSE row
  BY <1>1, <1>2, <1>3
<1> QED
  BY <1>3, <1>4

(* Nor does SetBuyRow.                                                     *)
LEMMA WrittenBuyRow ==
  ASSUME NEW t \in Tables, NEW i \in DOMAIN t.buy_tx, NEW row,
         NEW u, u = [t EXCEPT !.buy_tx[i] = row]
  PROVE  /\ DOMAIN u.buy_tx = DOMAIN t.buy_tx
         /\ u.buy_tx[i] = row
         /\ \A j \in DOMAIN t.buy_tx : j # i => u.buy_tx[j] = t.buy_tx[j]
         /\ u.sale_tx = t.sale_tx
<1>1. u = [t EXCEPT !.buy_tx = [t.buy_tx EXCEPT ![i] = row]]
  OBVIOUS
<1>2. u.buy_tx = [t.buy_tx EXCEPT ![i] = row] /\ u.sale_tx = t.sale_tx
  BY <1>1 DEF Tables
<1>3. t.buy_tx \in Seq(BuyRows)
  BY DEF Tables
<1> QED
  BY <1>2, <1>3

-----------------------------------------------------------------------------
(* The invariant holds initially, and every step preserves it.             *)

LEMMA InitHInv == DbInit => HInv
BY DEF DbInit, NoTxn, HInv, WorkHistory, HistoryOK

(* No transaction is open and all connections see the same tables.         *)
LEMMA AtRest ==
  ASSUME work' = db', txn'.op = "none",
         HistoryOK(db'.sale_tx, db'.sale_history),
         HistoryOK(db'.buy_tx, db'.buy_history)
  PROVE  HInv'
BY DEF HInv, WorkHistory

LEMMA NewSaleHistory == IInv /\ HInv /\ NewSale => HInv'
<1> SUFFICES ASSUME IInv, HInv,
                    NEW seg \in Segs, NEW oid \in OrderIds,
                    add_new_sale_tx(seg, oid)
             PROVE  HInv'
  BY DEF NewSale
<1> DEFINE row == NewSaleRow(seg, oid)
<1>1. row \in SaleRows /\ row.status = db_tx_processing
  BY DEF NewSaleRow, SaleRows, db_tx_processing, db_tx_unused
<1>2. /\ db' = [db EXCEPT !.sale_tx = Append(@, row)] /\ work' = db'
      /\ txn' = txn /\ txn.op = "none"
  BY DEF add_new_sale_tx
<1> HIDE DEF row
<1>3. db \in Tables
  BY DEF IInv
<1>4. /\ db'.buy_tx = db.buy_tx
      /\ DOMAIN db.sale_tx \subseteq DOMAIN db'.sale_tx
      /\ \A j \in DOMAIN db'.sale_tx :
           db'.sale_tx[j] = IF j \in DOMAIN db.sale_tx THEN db.sale_tx[j]
                                                       ELSE row
  BY <1>1, <1>2, <1>3, AppendSaleRow
<1>5. db'.sale_history = db.sale_history /\ db'.buy_history = db.buy_history
  BY <1>2, <1>3, HistoriesStay
<1>6. HistoryOK(db'.sale_tx, db'.sale_history)
  BY <1>1, <1>4, <1>5, NewRowRecorded DEF HInv
<1>7. HistoryOK(db'.buy_tx, db'.buy_history)
  BY <1>4, <1>5 DEF HInv
<1> QED
  BY <1>2, <1>6, <1>7, AtRest

LEMMA NewBuyHistory == IInv /\ HInv /\ NewBuy => HInv'
<1> SUFFICES ASSUME IInv, HInv,
                    NEW seg \in Segs, NEW oid \in OrderIds,
                    NEW amount \in Numbers,
                    add_new_buy_tx(seg, oid, amount)
             PROVE  HInv'
  BY DEF NewBuy
<1> DEFINE row == NewBuyRow(seg, oid, amount)
<1>1. row \in BuyRows /\ row.status = db_tx_processing
  BY NumbersAssumption DEF NewBuyRow, BuyRows, db_tx_processing
<1>2. /\ db' = [db EXCEPT !.buy_tx = Append(@, row)] /\ work' = db'
      /\ txn' = txn /\ txn.op = "none"
  BY DEF add_new_buy_tx
<1> HIDE DEF row
<1>3. db \in Tables
  BY DEF IInv
<1>4. /\ DOMAIN db.buy_tx \subseteq DOMAIN db'.buy_tx
      /\ \A j \in DOMAIN db'.buy_tx :
           db'.buy_tx[j] = IF j \in DOMAIN db.buy_tx THEN db.buy_tx[j] ELSE row
  BY <1>1, <1>2, <1>3, AppendedBuyRow
<1>5. db'.sale_tx = db.sale_tx
  BY <1>1, <1>2, <1>3, AppendBuyRow
<1>6. db'.sale_history = db.sale_history /\ db'.buy_history = db.buy_history
  BY <1>2, <1>3, HistoriesStay
<1>7. HistoryOK(db'.buy_tx, db'.buy_history)
  BY <1>1, <1>4, <1>6, NewRowRecorded DEF HInv
<1>8. HistoryOK(db'.sale_tx, db'.sale_history)
  BY <1>5, <1>6 DEF HInv
<1> QED
  BY <1>2, <1>7, <1>8, AtRest

(* A transaction begins on the tables as committed, at a row it has read   *)
(* as processing.                                                          *)
LEMMA CloseHistory == IInv /\ HInv /\ (CloseSale \/ CloseBuy) => HInv'
<1> SUFFICES ASSUME IInv, HInv, CloseSale \/ CloseBuy PROVE HInv'
  OBVIOUS
<1>1. db' = db /\ work' = work /\ work = db
  BY DEF CloseSale, CloseBuy, begin_deliver_sale, begin_deliver_buy, IInv, TxnOK
<1>2. CASE CloseSale
  <2>1. PICK id \in new_sale_array, res \in Results : begin_deliver_sale(id, res)
    BY <1>2 DEF CloseSale
  <2>2. txn'.op = "sale" /\ txn'.step = "update" /\ txn'.tx.id = id
    BY <2>1 DEF begin_deliver_sale, complete_sale_order, NoTxn
  <2>3. db.sale_tx[id].status = db_tx_processing
    BY DEF new_sale_array
  <2> QED
    BY <1>1, <2>2, <2>3 DEF HInv, WorkHistory
<1>3. CASE CloseBuy
  <2>1. PICK id \in new_buy_array, res \in Results : begin_deliver_buy(id, res)
    BY <1>3 DEF CloseBuy
  <2>2. txn'.op = "buy" /\ txn'.step = "update" /\ txn'.tx.id = id
    BY <2>1 DEF begin_deliver_buy, complete_buy_order, NoTxn
  <2>3. db.buy_tx[id].status = db_tx_processing
    BY DEF new_buy_array
  <2> QED
    BY <1>1, <2>2, <2>3 DEF HInv, WorkHistory
<1> QED
  BY <1>2, <1>3

(* The row an UPDATE of a sale writes.                                     *)
LEMMA WrittenSaleRow ==
  ASSUME NEW t \in Tables, NEW i \in DOMAIN t.sale_tx, NEW row,
         NEW u, u = [t EXCEPT !.sale_tx[i] = row]
  PROVE  /\ DOMAIN u.sale_tx = DOMAIN t.sale_tx
         /\ u.sale_tx[i] = row
         /\ \A j \in DOMAIN t.sale_tx : j # i => u.sale_tx[j] = t.sale_tx[j]
         /\ u.buy_tx = t.buy_tx
<1>1. u = [t EXCEPT !.sale_tx = [t.sale_tx EXCEPT ![i] = row]]
  OBVIOUS
<1>2. u.sale_tx = [t.sale_tx EXCEPT ![i] = row] /\ u.buy_tx = t.buy_tx
  BY <1>1 DEF Tables
<1>3. t.sale_tx \in Seq(SaleRows)
  BY DEF Tables
<1> QED
  BY <1>2, <1>3

LEMMA UpdateSaleHistory == IInv /\ HInv /\ update_sale_tx => HInv'
<1> SUFFICES ASSUME IInv, HInv, update_sale_tx PROVE HInv'
  OBVIOUS
<1> DEFINE tx  == txn.tx
           i   == tx.id
           old == work.sale_tx[i]
           n == tx.deal_number        p == tx.deal_price
           f == tx.deal_fee           m == tx.deal_amount
           u == tx.used_buy_amount    r == tx.free_buy_amount
           v == tx.valid_sale_number  s == tx.status
           t == tx.use_status
           row == [old EXCEPT !.deal_number = n, !.deal_price = p,
                              !.deal_fee = f, !.deal_amount = m,
                              !.used_buy_amount = u, !.free_buy_amount = r,
                              !.valid_sale_number = v, !.status = s,
                              !.use_status = t]
<1>1. /\ txn.op = "sale" /\ txn.step = "update" /\ db' = db
      /\ work' = [work EXCEPT !.sale_tx[i] = row]
      /\ txn' = [txn EXCEPT !.step = "history"]
      /\ SqlNumber(v)
  BY DEF update_sale_tx
<1>2. SaleTxn /\ SameRows /\ TxnOK /\ work \in Tables
  BY <1>1 DEF IInv, TxnOK
<1>3. i \in DOMAIN work.sale_tx /\ old \in SaleRows
  BY <1>2, RowOfTable DEF SaleTxn, SameRows
<1>4. s # db_tx_processing
  <2>1. PICK res \in Results : tx = complete_sale_order(i, res)
    BY <1>2 DEF SaleTxn
  <2> HIDE DEF tx, i
  <2> QED
    BY <1>1, <2>1, SaleTransaction
<1>5. row.deal_number = n /\ row.deal_amount = m /\ row.status = s
  <2> HIDE DEF n, p, f, m, u, r, v, s, t, old
  <2> QED
    BY <1>3 DEF SaleRows
<1> HIDE DEF row
<1>6. /\ DOMAIN work'.sale_tx = DOMAIN work.sale_tx
      /\ work'.sale_tx[i] = row
      /\ \A j \in DOMAIN work.sale_tx :
           j # i => work'.sale_tx[j] = work.sale_tx[j]
      /\ work'.buy_tx = work.buy_tx
  BY <1>1, <1>2, <1>3, WrittenSaleRow
<1>7. /\ work'.sale_history = work.sale_history
      /\ work'.buy_history = work.buy_history
  BY <1>1, <1>2, HistoriesStay
<1>8. txn'.op = "sale" /\ txn'.tx = tx /\ txn'.step = "history"
  BY <1>1, <1>2, NextStep DEF Steps
<1>9. HalfClosed(work'.sale_tx, work.sale_history, tx)
  <2>1. /\ HistoryOK(work.sale_tx, work.sale_history)
        /\ old.status = db_tx_processing
    BY <1>1 DEF HInv, WorkHistory
  <2> HIDE DEF tx
  <2> QED
    BY <1>3, <1>4, <1>5, <1>6, <2>1, CloseRow
<1> QED
  BY <1>1, <1>6, <1>7, <1>8, <1>9 DEF HInv, WorkHistory

LEMMA UpdateBuyHistory == IInv /\ HInv /\ update_buy_tx => HInv'
<1> SUFFICES ASSUME IInv, HInv, update_buy_tx PROVE HInv'
  OBVIOUS
<1> DEFINE tx  == txn.tx
           i   == tx.id
           old == work.buy_tx[i]
           n == tx.deal_number  f == tx.deal_fee
           m == tx.deal_amount  s == tx.status
           row == [old EXCEPT !.deal_number = n, !.deal_fee = f,
                              !.deal_amount = m, !.status = s]
<1>1. /\ txn.op = "buy" /\ txn.step = "update" /\ db' = db
      /\ work' = [work EXCEPT !.buy_tx[i] = row]
      /\ txn' = [txn EXCEPT !.step = "history"]
  BY DEF update_buy_tx
<1>2. BuyTxn /\ SameRows /\ TxnOK /\ work \in Tables
  BY <1>1 DEF IInv, TxnOK
<1>3. i \in DOMAIN work.buy_tx /\ old \in BuyRows
  BY <1>2, RowOfTable DEF BuyTxn, SameRows
<1>4. s # db_tx_processing
  <2>1. PICK res \in Results : tx = complete_buy_order(i, res)
    BY <1>2 DEF BuyTxn
  <2>2. IsClosing(res)
    BY ResultsAssumption
  <2> HIDE DEF tx, i
  <2> QED
    BY <2>1, <2>2
    DEF complete_buy_order, IsClosing, order_processing, db_tx_processing
<1>5. row.deal_number = n /\ row.deal_amount = m /\ row.status = s
  <2> HIDE DEF n, f, m, s, old
  <2> QED
    BY <1>3 DEF BuyRows
<1> HIDE DEF row
<1>6. /\ DOMAIN work'.buy_tx = DOMAIN work.buy_tx
      /\ work'.buy_tx[i] = row
      /\ \A j \in DOMAIN work.buy_tx : j # i => work'.buy_tx[j] = work.buy_tx[j]
      /\ work'.sale_tx = work.sale_tx
  BY <1>1, <1>2, <1>3, WrittenBuyRow
<1>7. /\ work'.sale_history = work.sale_history
      /\ work'.buy_history = work.buy_history
  BY <1>1, <1>2, HistoriesStay
<1>8. txn'.op = "buy" /\ txn'.tx = tx /\ txn'.step = "history"
  BY <1>1, <1>2, NextStep DEF Steps
<1>9. HalfClosed(work'.buy_tx, work.buy_history, tx)
  <2>1. /\ HistoryOK(work.buy_tx, work.buy_history)
        /\ old.status = db_tx_processing
    BY <1>1 DEF HInv, WorkHistory
  <2> HIDE DEF tx
  <2> QED
    BY <1>3, <1>4, <1>5, <1>6, <2>1, CloseRow
<1> QED
  BY <1>1, <1>6, <1>7, <1>8, <1>9 DEF HInv, WorkHistory

(* The INSERT into either history table.                                   *)
LEMMA InsertHistory ==
  IInv /\ HInv /\ (insert_sale_history \/ insert_buy_history) => HInv'
<1> SUFFICES ASSUME IInv, HInv, insert_sale_history \/ insert_buy_history
             PROVE  HInv'
  OBVIOUS
<1> DEFINE tx == txn.tx
<1>1. SameRows /\ TxnOK /\ work \in Tables
  BY DEF IInv
<1>2. CASE insert_sale_history
  <2> DEFINE h == HistoryRow(work.sale_tx[tx.id], tx)
  <2>1. /\ txn.op = "sale" /\ txn.step = "history" /\ db' = db
        /\ work' = [work EXCEPT !.sale_history = @ \cup {h}]
        /\ txn' = [txn EXCEPT !.step = "commit"]
    BY <1>2 DEF insert_sale_history
  <2>2. txn'.op = "sale" /\ txn'.step = "commit"
    BY <1>1, <2>1, NextStep DEF Steps
  <2>3. tx.id \in DOMAIN work.sale_tx
    BY <1>1, <2>1 DEF TxnOK, SaleTxn, SameRows
  <2>4. HalfClosed(work.sale_tx, work.sale_history, tx)
    BY <2>1 DEF HInv, WorkHistory
  <2>5. HistoryOK(work.sale_tx, work.sale_history \cup {h})
    <3> HIDE DEF tx
    <3> QED
      BY <2>3, <2>4, AddRecord
  <2> HIDE DEF h
  <2>6. /\ work'.sale_tx = work.sale_tx /\ work'.buy_tx = work.buy_tx
        /\ work'.sale_history = work.sale_history \cup {h}
        /\ work'.buy_history = work.buy_history
    BY <1>1, <2>1 DEF Tables
  <2> QED
    BY <2>1, <2>2, <2>5, <2>6 DEF HInv, WorkHistory
<1>3. CASE insert_buy_history
  <2> DEFINE h    == HistoryRow(work.buy_tx[tx.id], tx)
             step == IF Spends(tx) THEN "select" ELSE "commit"
  <2>1. /\ txn.op = "buy" /\ txn.step = "history" /\ db' = db
        /\ work' = [work EXCEPT !.buy_history = @ \cup {h}]
        /\ txn' = [txn EXCEPT !.step = step]
    BY <1>3 DEF insert_buy_history
  <2>2. step \in {"select", "commit"} /\ step \in Steps
    BY DEF Steps
  <2> HIDE DEF step
  <2>3. txn'.op = "buy" /\ txn'.step = step
    BY <1>1, <2>1, <2>2, NextStep
  <2>4. tx.id \in DOMAIN work.buy_tx
    BY <1>1, <2>1 DEF TxnOK, BuyTxn, SameRows
  <2>5. HalfClosed(work.buy_tx, work.buy_history, tx)
    BY <2>1 DEF HInv, WorkHistory
  <2>6. HistoryOK(work.buy_tx, work.buy_history \cup {h})
    <3> HIDE DEF tx
    <3> QED
      BY <2>4, <2>5, AddRecord
  <2> HIDE DEF h
  <2>7. /\ work'.sale_tx = work.sale_tx /\ work'.buy_tx = work.buy_tx
        /\ work'.buy_history = work.buy_history \cup {h}
        /\ work'.sale_history = work.sale_history
    BY <1>1, <2>1 DEF Tables
  <2> QED
    BY <2>1, <2>2, <2>3, <2>6, <2>7 DEF HInv, WorkHistory
<1> QED
  BY <1>2, <1>3

LEMMA SelectHistory == IInv /\ HInv /\ select_unspent => HInv'
<1> SUFFICES ASSUME IInv, HInv, select_unspent PROVE HInv'
  OBVIOUS
<1> DEFINE seg  == work.buy_tx[txn.tx.id].seg_id
           list == {i \in delivered_sale_array : db.sale_tx[i].seg_id = seg}
           step == IF list = {} THEN "commit" ELSE "use"
<1>1. /\ txn.op = "buy" /\ txn.step = "select"
      /\ txn' = [txn EXCEPT !.list = list, !.remain = txn.tx.deal_amount,
                            !.step = step]
      /\ db' = db /\ work' = work
  BY DEF select_unspent
<1>2. step \in {"commit", "use"} /\ step \in Steps
  BY DEF Steps
<1> HIDE DEF list, step
<1>3. txn'.op = "buy" /\ txn'.step = step
  BY <1>1, <1>2, NextStatement DEF IInv
<1> QED
  BY <1>1, <1>2, <1>3 DEF HInv, WorkHistory

LEMMA UseHistory == IInv /\ HInv /\ use_sale_tx => HInv'
<1> SUFFICES ASSUME IInv, HInv, use_sale_tx PROVE HInv'
  OBVIOUS
<1>1. PICK i \in txn.list :
        LET new    == Spend(db.sale_tx[i], txn.remain)
            remain == txn.remain - db.sale_tx[i].free_buy_amount
            list   == txn.list \ {i}
        IN
        /\ work' = [work EXCEPT !.sale_tx[i] =
             [@ EXCEPT !.used_buy_amount = new.used_buy_amount,
                       !.free_buy_amount = new.free_buy_amount,
                       !.valid_sale_number = new.valid_sale_number,
                       !.use_status = new.use_status]]
        /\ txn' = [txn EXCEPT !.list = list, !.remain = remain,
                     !.step = IF StillToPay(remain, list) THEN "use"
                                                          ELSE "commit"]
  BY DEF use_sale_tx
<1> DEFINE old    == work.sale_tx[i]
           new    == Spend(db.sale_tx[i], txn.remain)
           remain == txn.remain - db.sale_tx[i].free_buy_amount
           list   == txn.list \ {i}
           step   == IF StillToPay(remain, list) THEN "use" ELSE "commit"
           used  == new.used_buy_amount    free == new.free_buy_amount
           valid == new.valid_sale_number  use  == new.use_status
           row == [old EXCEPT !.used_buy_amount = used,
                              !.free_buy_amount = free,
                              !.valid_sale_number = valid,
                              !.use_status = use]
<1>2. /\ txn.op = "buy" /\ txn.step = "use" /\ db' = db
      /\ work' = [work EXCEPT !.sale_tx[i] = row]
      /\ txn' = [txn EXCEPT !.list = list, !.remain = remain, !.step = step]
  BY <1>1 DEF use_sale_tx
<1>3. BuyTxn /\ SameRows /\ TxnOK /\ work \in Tables
  BY <1>2 DEF IInv, TxnOK
<1>4. i \in DOMAIN work.sale_tx /\ old \in SaleRows
  BY <1>2, <1>3, RowOfTable DEF BuyTxn, SameRows, delivered_sale_array
<1>5. /\ row.order_id = old.order_id /\ row.status = old.status
      /\ row.deal_number = old.deal_number /\ row.deal_amount = old.deal_amount
  <2> HIDE DEF used, free, valid, use, old
  <2> QED
    BY <1>4 DEF SaleRows
<1> HIDE DEF row
<1>6. /\ DOMAIN work'.sale_tx = DOMAIN work.sale_tx
      /\ work'.sale_tx[i] = row
      /\ \A j \in DOMAIN work.sale_tx :
           j # i => work'.sale_tx[j] = work.sale_tx[j]
      /\ work'.buy_tx = work.buy_tx
  BY <1>2, <1>3, <1>4, WrittenSaleRow
<1>7. /\ work'.sale_history = work.sale_history
      /\ work'.buy_history = work.buy_history
  BY <1>2, <1>3, HistoriesStay
<1>8. step \in {"use", "commit"} /\ step \in Steps
  BY DEF Steps
<1> HIDE DEF step, remain, list
<1>9. txn'.op = "buy" /\ txn'.step = step
  BY <1>2, <1>3, <1>8, NextStatement
<1>10. HistoryOK(work'.sale_tx, work.sale_history)
  <2>1. HistoryOK(work.sale_tx, work.sale_history)
    BY <1>2 DEF HInv, WorkHistory
  <2> QED
    BY <1>4, <1>5, <1>6, <2>1, UsedRowRecorded
<1>11. HistoryOK(work.buy_tx, work.buy_history)
  BY <1>2 DEF HInv, WorkHistory
<1> QED
  BY <1>2, <1>6, <1>7, <1>8, <1>9, <1>10, <1>11 DEF HInv, WorkHistory

LEMMA EndHistory == IInv /\ HInv /\ (Commit \/ Rollback) => HInv'
<1> SUFFICES ASSUME HInv, Commit \/ Rollback PROVE HInv'
  OBVIOUS
<1>1. work' = db' /\ txn'.op = "none"
  BY DEF Commit, Rollback, NoTxn
<1>2. CASE Commit
  BY <1>1, <1>2, AtRest DEF HInv, WorkHistory, Commit
<1>3. CASE Rollback
  BY <1>1, <1>3, AtRest DEF HInv, Rollback
<1> QED
  BY <1>2, <1>3

LEMMA NextHInv == IInv /\ HInv /\ [DbNext]_dbvars => HInv'
<1> SUFFICES ASSUME IInv, HInv, [DbNext]_dbvars PROVE HInv'
  OBVIOUS
<1>1. CASE NewSale
  BY <1>1, NewSaleHistory
<1>2. CASE NewBuy
  BY <1>2, NewBuyHistory
<1>3. CASE CloseSale \/ CloseBuy
  BY <1>3, CloseHistory
<1>4. CASE update_sale_tx
  BY <1>4, UpdateSaleHistory
<1>5. CASE update_buy_tx
  BY <1>5, UpdateBuyHistory
<1>6. CASE insert_sale_history \/ insert_buy_history
  BY <1>6, InsertHistory
<1>7. CASE select_unspent
  BY <1>7, SelectHistory
<1>8. CASE use_sale_tx
  BY <1>8, UseHistory
<1>9. CASE Commit \/ Rollback
  BY <1>9, EndHistory
<1>10. CASE UNCHANGED dbvars
  BY <1>10 DEF dbvars, HInv, WorkHistory
<1> QED
  BY <1>1, <1>2, <1>3, <1>4, <1>5, <1>6, <1>7, <1>8, <1>9, <1>10
  DEF DbNext, Statement

-----------------------------------------------------------------------------
(* The theorems.                                                           *)

(* In every reachable state the committed tables and their histories       *)
(* agree, and so do those the transaction sees, but for the row it has     *)
(* closed and not yet recorded.                                            *)
THEOREM HistoryInvariance == DbSpec => []HInv
BY InitHInv, NextHInv, Invariance, PTL DEF DbSpec

(* deliver_sale_tx and deliver_buy_tx close an order and record it         *)
(* together or not at all, and the record tells the order's deals.         *)
THEOREM ClosedRecorded == DbSpec => []ClosedIffHistory
<1>1. HInv => ClosedIffHistory
  BY DEF HInv, HistoryOK, ClosedIffHistory
<1> QED
  BY <1>1, HistoryInvariance, PTL

-----------------------------------------------------------------------------
(* valid_sale_number, the coins that new_order counts as sold and not yet  *)
(* bought back: it keeps up with the money, for all prices, numbers and    *)
(* fees, and for any number of buys that draw on one sale.                 *)
(*                                                                         *)
(* The inductive invariant, on top of IInv: the rows of an open            *)
(* transaction are as good as those committed.                             *)

ValidRow(row) ==
  row.status # db_tx_processing =>
    /\ row.valid_sale_number = Quotient(row.free_buy_amount, row.deal_price)
    /\ row.valid_sale_number <= row.deal_number

ValidRows(rows) == \A i \in DOMAIN rows : ValidRow(rows[i])

VInv == ValidRows(db.sale_tx) /\ ValidRows(work.sale_tx)

-----------------------------------------------------------------------------
(* Facts about the quotient.                                               *)

(* Less money buys no more coins, rounded as they are.                     *)
LEMMA QuotientMonotone ==
  ASSUME NEW a \in Nat, NEW b \in Nat, a <= b, NEW p \in Nat, p > 0
  PROVE  Quotient(a, p) <= Quotient(b, p)
<1> DEFINE x == 2 * a + p  y == 2 * b + p  d == 2 * p
<1>1. x \in Nat /\ y \in Nat /\ x <= y /\ d \in Nat /\ d > 0
  OBVIOUS
<1>2. Quotient(a, p) = x \div d /\ Quotient(b, p) = y \div d
  BY DEF Quotient
<1> HIDE DEF x, y, d
<1>3. x \div d <= y \div d
  BY <1>1
<1> QED
  BY <1>2, <1>3

(* What n coins brought buys at most n back.                               *)
LEMMA QuotientOfAmount ==
  ASSUME NEW p \in Nat, p > 0, NEW n \in Nat, NEW a \in Nat, a <= p * n
  PROVE  Quotient(a, p) <= n
<1>1. (2 * a + p) \div (2 * p) <= n
  OBVIOUS
<1> QED
  BY <1>1 DEF Quotient

-----------------------------------------------------------------------------
(* Facts about the rows.                                                   *)

(* What complete_sale_order computes of a closed sale.                     *)
LEMMA SaleTransactionValid ==
  ASSUME NEW id, NEW res \in Results,
         NEW tx, tx = complete_sale_order(id, res),
         SqlNumber(tx.valid_sale_number)
  PROVE  /\ tx.valid_sale_number = Quotient(tx.free_buy_amount, tx.deal_price)
         /\ tx.valid_sale_number <= tx.deal_number
<1>1. res \in OrderResults /\ IsClosing(res)
  BY ResultsAssumption
<1>2. /\ res.price \in Nat /\ res.number \in Nat
      /\ res.amount \in Nat /\ res.fee \in Nat
  BY <1>1 DEF OrderResults
<1>3. /\ tx.valid_sale_number = Quotient(net_amount(res), res.price)
      /\ tx.free_buy_amount = net_amount(res)
      /\ tx.deal_price = res.price /\ tx.deal_number = res.number
  BY DEF complete_sale_order
<1>4. res.price > 0
  BY <1>2, <1>3 DEF SqlNumber, Quotient
<1>5. res.fee < res.amount /\ res.amount = res.price * res.number
  BY <1>1, <1>4 DEF IsClosing
<1>6. net_amount(res) \in Nat /\ net_amount(res) <= res.price * res.number
  BY <1>2, <1>5, FeeIsFreeAssumption DEF charged_fee, net_amount
<1> QED
  BY <1>2, <1>3, <1>4, <1>6, QuotientOfAmount

(* What update_buy_status computes of a sale it takes money from.          *)
LEMMA SpendValid ==
  ASSUME NEW old \in SaleRows, RowOK(old), Unspent(old), ValidRow(old),
         NEW remain \in Int, remain > 0,
         NEW new, new = Spend(old, remain), SqlNumber(new.valid_sale_number)
  PROVE  /\ new.valid_sale_number
              = Quotient(new.free_buy_amount, old.deal_price)
         /\ new.valid_sale_number <= old.deal_number
<1>1. /\ new.free_buy_amount \in Nat
      /\ new.valid_sale_number = Quotient(new.free_buy_amount, old.deal_price)
      /\ new.free_buy_amount <= old.free_buy_amount
  <2>1. /\ old.free_buy_amount \in Int
        /\ old.free_buy_amount >= 0
    BY DEF SaleRows, RowOK, Balanced
  <2>2. new.free_buy_amount = IF UsedUp(old.free_buy_amount - remain) THEN 0
                              ELSE old.free_buy_amount - remain
    BY DEF Spend
  <2> QED
    BY <2>1, <2>2 DEF Spend, UsedUp
<1>2. /\ old.free_buy_amount \in Nat /\ old.deal_price \in Nat
      /\ old.deal_number \in Nat /\ old.valid_sale_number \in Int
      /\ old.status # db_tx_processing
  BY DEF SaleRows, RowOK, Balanced, Unspent, db_tx_complet_closed,
     db_tx_portion_closed, db_tx_processing
<1>3. old.deal_price > 0
  BY <1>1, <1>2 DEF SqlNumber, Quotient
<1>4. Quotient(new.free_buy_amount, old.deal_price)
        <= Quotient(old.free_buy_amount, old.deal_price)
  BY <1>1, <1>2, <1>3, QuotientMonotone
<1>5. new.valid_sale_number <= old.valid_sale_number
  BY <1>1, <1>2, <1>4 DEF ValidRow
<1>6. new.valid_sale_number \in Int
  BY <1>1, <1>2, QuotientInt
<1>7. old.valid_sale_number <= old.deal_number
  BY <1>2 DEF ValidRow
<1> QED
  BY <1>1, <1>2, <1>5, <1>6, <1>7

(* A good row in the place of another keeps the table good.                *)
LEMMA SetValidRow ==
  ASSUME NEW t \in Tables, ValidRows(t.sale_tx),
         NEW i \in DOMAIN t.sale_tx, NEW row, ValidRow(row),
         NEW u, u = [t EXCEPT !.sale_tx[i] = row]
  PROVE  ValidRows(u.sale_tx)
<1>1. u = [t EXCEPT !.sale_tx = [t.sale_tx EXCEPT ![i] = row]]
  OBVIOUS
<1>2. u.sale_tx = [t.sale_tx EXCEPT ![i] = row]
  BY <1>1 DEF Tables
<1>3. t.sale_tx \in Seq(SaleRows)
  BY DEF Tables
<1> QED
  BY <1>2, <1>3 DEF ValidRows

-----------------------------------------------------------------------------
(* The invariant holds initially, and every step preserves it.             *)

LEMMA InitVInv == DbInit => VInv
BY DEF DbInit, VInv, ValidRows

LEMMA NewSaleValid == IInv /\ VInv /\ NewSale => VInv'
<1> SUFFICES ASSUME IInv, VInv,
                    NEW seg \in Segs, NEW oid \in OrderIds,
                    add_new_sale_tx(seg, oid)
             PROVE  VInv'
  BY DEF NewSale
<1> DEFINE row == NewSaleRow(seg, oid)
<1>1. row \in SaleRows /\ ValidRow(row)
  BY DEF NewSaleRow, SaleRows, ValidRow, db_tx_processing, db_tx_unused
<1>2. db' = [db EXCEPT !.sale_tx = Append(@, row)] /\ work' = db'
  BY DEF add_new_sale_tx
<1> HIDE DEF row
<1>3. \A j \in DOMAIN db'.sale_tx :
        db'.sale_tx[j] = IF j \in DOMAIN db.sale_tx THEN db.sale_tx[j] ELSE row
  BY <1>1, <1>2, AppendSaleRow DEF IInv
<1> QED
  BY <1>1, <1>2, <1>3 DEF VInv, ValidRows

LEMMA NewBuyValid == IInv /\ VInv /\ NewBuy => VInv'
<1> SUFFICES ASSUME IInv, VInv,
                    NEW seg \in Segs, NEW oid \in OrderIds,
                    NEW amount \in Numbers,
                    add_new_buy_tx(seg, oid, amount)
             PROVE  VInv'
  BY DEF NewBuy
<1>1. db'.sale_tx = db.sale_tx /\ work' = db'
  BY DEF add_new_buy_tx, IInv, Tables
<1> QED
  BY <1>1 DEF VInv

LEMMA UpdateSaleValid == IInv /\ VInv /\ update_sale_tx => VInv'
<1> SUFFICES ASSUME IInv, VInv, update_sale_tx PROVE VInv'
  OBVIOUS
<1> DEFINE tx  == txn.tx
           i   == tx.id
           old == work.sale_tx[i]
           n == tx.deal_number        p == tx.deal_price
           f == tx.deal_fee           m == tx.deal_amount
           u == tx.used_buy_amount    r == tx.free_buy_amount
           v == tx.valid_sale_number  s == tx.status
           t == tx.use_status
           row == [old EXCEPT !.deal_number = n, !.deal_price = p,
                              !.deal_fee = f, !.deal_amount = m,
                              !.used_buy_amount = u, !.free_buy_amount = r,
                              !.valid_sale_number = v, !.status = s,
                              !.use_status = t]
<1>1. /\ txn.op = "sale" /\ db' = db /\ SqlNumber(v)
      /\ work' = [work EXCEPT !.sale_tx[i] = row]
  BY DEF update_sale_tx
<1>2. SaleTxn /\ SameRows /\ work \in Tables
  BY <1>1 DEF IInv, TxnOK
<1>3. i \in DOMAIN work.sale_tx /\ old \in SaleRows
  BY <1>2, RowOfTable DEF SaleTxn, SameRows
<1>4. v = Quotient(r, p) /\ v <= n
  <2>1. PICK res \in Results : tx = complete_sale_order(i, res)
    BY <1>2 DEF SaleTxn
  <2> HIDE DEF tx, i
  <2> QED
    BY <1>1, <2>1, SaleTransactionValid
<1>5. ValidRow(row)
  <2> HIDE DEF n, p, f, m, u, r, v, s, t, old
  <2>1. /\ row.valid_sale_number = v /\ row.free_buy_amount = r
        /\ row.deal_price = p /\ row.deal_number = n
    BY <1>3 DEF SaleRows
  <2> QED
    BY <1>4, <2>1 DEF ValidRow
<1> HIDE DEF row
<1>6. ValidRows(work'.sale_tx)
  BY <1>1, <1>2, <1>3, <1>5, SetValidRow DEF VInv
<1> QED
  BY <1>1, <1>6 DEF VInv

LEMMA UseValid == IInv /\ VInv /\ use_sale_tx => VInv'
<1> SUFFICES ASSUME IInv, VInv, use_sale_tx PROVE VInv'
  OBVIOUS
<1>1. PICK i \in txn.list :
        LET new == Spend(db.sale_tx[i], txn.remain) IN
        /\ SqlNumber(new.valid_sale_number)
        /\ work' = [work EXCEPT !.sale_tx[i] =
             [@ EXCEPT !.used_buy_amount = new.used_buy_amount,
                       !.free_buy_amount = new.free_buy_amount,
                       !.valid_sale_number = new.valid_sale_number,
                       !.use_status = new.use_status]]
  BY DEF use_sale_tx
<1> DEFINE old == work.sale_tx[i]
           new == Spend(db.sale_tx[i], txn.remain)
           used  == new.used_buy_amount    free == new.free_buy_amount
           valid == new.valid_sale_number  use  == new.use_status
           row == [old EXCEPT !.used_buy_amount = used,
                              !.free_buy_amount = free,
                              !.valid_sale_number = valid,
                              !.use_status = use]
<1>2. /\ txn.op = "buy" /\ txn.step = "use" /\ db' = db
      /\ SqlNumber(valid)
      /\ work' = [work EXCEPT !.sale_tx[i] = row]
  BY <1>1 DEF use_sale_tx
<1>3. BuyTxn /\ SameRows /\ work \in Tables /\ RowsOK(work)
  BY <1>2 DEF IInv, TxnOK
<1>4. /\ txn.remain \in Int /\ txn.remain > 0
      /\ i \in DOMAIN work.sale_tx
      /\ old = db.sale_tx[i] /\ Unspent(old)
  BY <1>2, <1>3 DEF BuyTxn, SameRows, delivered_sale_array
<1>5. old \in SaleRows /\ RowOK(old) /\ ValidRow(old)
  BY <1>3, <1>4, RowOfTable DEF RowsOK, VInv, ValidRows
<1>6. valid = Quotient(free, old.deal_price) /\ valid <= old.deal_number
  <2>1. new = Spend(old, txn.remain)
    BY <1>4
  <2> HIDE DEF old, new
  <2> QED
    BY <1>2, <1>4, <1>5, <2>1, SpendValid
<1>7. ValidRow(row)
  <2> HIDE DEF used, free, valid, use, old
  <2>1. /\ row.valid_sale_number = valid /\ row.free_buy_amount = free
        /\ row.deal_price = old.deal_price /\ row.deal_number = old.deal_number
    BY <1>5 DEF SaleRows
  <2> QED
    BY <1>6, <2>1 DEF ValidRow
<1> HIDE DEF row
<1>8. ValidRows(work'.sale_tx)
  BY <1>2, <1>3, <1>4, <1>7, SetValidRow DEF VInv
<1> QED
  BY <1>2, <1>8 DEF VInv

(* The steps that write no sale.                                           *)
LEMMA OtherValid ==
  ASSUME IInv, VInv,
         \/ CloseSale \/ CloseBuy
         \/ update_buy_tx \/ insert_sale_history \/ insert_buy_history
         \/ select_unspent \/ Commit \/ Rollback \/ UNCHANGED dbvars
  PROVE  VInv'
<1>1. work \in Tables
  BY DEF IInv
<1>2. CASE CloseSale \/ CloseBuy \/ select_unspent \/ UNCHANGED dbvars
  <2>1. db' = db /\ work' = work
    BY <1>2 DEF CloseSale, CloseBuy, begin_deliver_sale, begin_deliver_buy,
       select_unspent, dbvars
  <2> QED
    BY <2>1 DEF VInv
<1>3. CASE update_buy_tx \/ insert_sale_history \/ insert_buy_history
  <2>1. db' = db /\ work'.sale_tx = work.sale_tx
    BY <1>1, <1>3 DEF update_buy_tx, insert_sale_history, insert_buy_history,
       Tables
  <2> QED
    BY <2>1 DEF VInv
<1>4. CASE Commit \/ Rollback
  BY <1>4 DEF Commit, Rollback, VInv
<1> QED
  BY <1>2, <1>3, <1>4

LEMMA NextVInv == IInv /\ VInv /\ [DbNext]_dbvars => VInv'
BY NewSaleValid, NewBuyValid, UpdateSaleValid, UseValid, OtherValid
DEF DbNext, Statement

-----------------------------------------------------------------------------
(* The theorems.                                                           *)

(* The rows that are committed, and those that the transaction has         *)
(* written, count as sold what their money is worth.                       *)
THEOREM ValidInvariance == DbSpec => []VInv
BY InitVInv, NextVInv, Invariance, PTL DEF DbSpec

(* valid_sale_number of a closed sale always stands for the money that is  *)
(* free, and is never more than was sold, for every price, number and fee. *)
THEOREM ValidForFree == DbSpec => []ValidStandsForFree
<1>1. VInv => ValidStandsForFree
  BY DEF VInv, ValidRows, ValidRow, ValidStandsForFree
<1> QED
  BY <1>1, ValidInvariance, PTL

-----------------------------------------------------------------------------
(* The ledger.                                                             *)
(*                                                                         *)
(* What an open transaction has written, statement by statement: the row   *)
(* it closes, and, for a buy, what the sales of its segment pay.           *)

WrittenSale(row, tx) ==
  [row EXCEPT !.deal_number = tx.deal_number,
              !.deal_price = tx.deal_price,
              !.deal_fee = tx.deal_fee,
              !.deal_amount = tx.deal_amount,
              !.used_buy_amount = tx.used_buy_amount,
              !.free_buy_amount = tx.free_buy_amount,
              !.valid_sale_number = tx.valid_sale_number,
              !.status = tx.status,
              !.use_status = tx.use_status]

WrittenBuy(row, tx) ==
  [row EXCEPT !.deal_number = tx.deal_number,
              !.deal_fee = tx.deal_fee,
              !.deal_amount = tx.deal_amount,
              !.status = tx.status]

(* The sales a buy in segment seg draws on, and what is left to pay of its *)
(* amount when the turn of sale i comes.                                   *)
Asked(rows, seg) ==
  {i \in DOMAIN rows : Unspent(rows[i]) /\ rows[i].seg_id = seg}

Money(rows) == [i \in DOMAIN rows |-> rows[i].free_buy_amount]

Owed(rows, seg, amount, i) ==
  amount - SumFunctionOnSet(Money(rows), {j \in Asked(rows, seg) : j < i})

Share(free, owed) ==
  IF owed <= 0 THEN 0 ELSE IF free <= owed THEN free ELSE owed

Paid(rows, seg, amount, i) ==
  Share(rows[i].free_buy_amount, Owed(rows, seg, amount, i))

(* The sales that have not had their turn are newer than those that had.   *)
InTurn(rows, seg, list) ==
  /\ list \subseteq Asked(rows, seg)
  /\ \A k \in Asked(rows, seg) \ list, j \in list : k < j

Remaining(rows, seg, amount, list) ==
  amount - SumFunctionOnSet(Money(rows), Asked(rows, seg) \ list)

IsOldest(i, list) == i \in list /\ \A j \in list : i <= j

GoodRows(rows) ==
  rows \in Seq(SaleRows) /\ \A i \in DOMAIN rows : RowOK(rows[i])

(* Row new is row old after it has paid n.                                 *)
PaysOut(old, new, n) ==
  /\ new.used_buy_amount = old.used_buy_amount + n
  /\ new.free_buy_amount = old.free_buy_amount - n
  /\ new.seg_id = old.seg_id /\ new.order_id = old.order_id
  /\ new.status = old.status /\ new.deal_price = old.deal_price
  /\ new.deal_number = old.deal_number /\ new.deal_amount = old.deal_amount

SameBut(p, q, n) == \A i \in DOMAIN p : i # n => q[i] = p[i]

SaleWritten ==
  LET n == txn.tx.id IN
  /\ db.sale_tx[n].status = db_tx_processing
  /\ work.buy_tx = db.buy_tx
  /\ SameBut(db.sale_tx, work.sale_tx, n)
  /\ IF txn.step = "update"
     THEN work.sale_tx = db.sale_tx
     ELSE work.sale_tx[n] = WrittenSale(db.sale_tx[n], txn.tx)

(* The rows of the segment that update_buy_status has been through, oldest *)
(* first, have paid; the others are as they were.                          *)
BuySpent ==
  LET seg    == db.buy_tx[txn.tx.id].seg_id
      amount == txn.tx.deal_amount
      rows   == db.sale_tx
      Settled(S) == \A i \in S : PaysOut(rows[i], work.sale_tx[i],
                                         Paid(rows, seg, amount, i))
  IN
  /\ \A i \in DOMAIN rows \ Asked(rows, seg) : work.sale_tx[i] = rows[i]
  /\ txn.step \in {"update", "history", "select"} => work.sale_tx = rows
  /\ txn.step = "use" =>
       /\ Spends(txn.tx)
       /\ InTurn(rows, seg, txn.list)
       /\ \A i \in txn.list : work.sale_tx[i] = rows[i]
       /\ Settled(Asked(rows, seg) \ txn.list)
       /\ txn.remain = Remaining(rows, seg, amount, txn.list)
  /\ txn.step = "commit" =>
       IF Spends(txn.tx) THEN Settled(Asked(rows, seg))
                         ELSE work.sale_tx = rows

BuyWritten ==
  LET n == txn.tx.id IN
  /\ db.buy_tx[n].status = db_tx_processing
  /\ SameBut(db.buy_tx, work.buy_tx, n)
  /\ IF txn.step = "update"
     THEN work.buy_tx = db.buy_tx
     ELSE work.buy_tx[n] = WrittenBuy(db.buy_tx[n], txn.tx)
  /\ BuySpent

WInv ==
  /\ txn.op = "sale" => SaleWritten
  /\ txn.op = "buy" => BuyWritten

-----------------------------------------------------------------------------
(* Facts about the amounts.                                                *)

LEMMA AskedRows ==
  ASSUME NEW rows, GoodRows(rows), NEW seg, NEW S, S \subseteq Asked(rows, seg)
  PROVE  /\ IsFiniteSet(S) /\ S \subseteq Nat /\ S \subseteq DOMAIN rows
         /\ \A i \in DOMAIN rows : Money(rows)[i] = rows[i].free_buy_amount
         /\ \A i \in DOMAIN rows : Money(rows)[i] \in Nat
<1> USE DEF GoodRows
<1>1. DOMAIN rows = 1 .. Len(rows) /\ Len(rows) \in Nat
  OBVIOUS
<1>2. IsFiniteSet(1 .. Len(rows))
  BY <1>1, FS_Interval
<1>3. S \subseteq 1 .. Len(rows)
  BY <1>1 DEF Asked
<1>4. IsFiniteSet(S)
  BY <1>2, <1>3, FS_Subset
<1>5. \A i \in DOMAIN rows : rows[i].free_buy_amount \in Nat
  <2>1. \A i \in DOMAIN rows : rows[i] \in SaleRows
    OBVIOUS
  <2> QED
    BY <2>1 DEF SaleRows, RowOK, Balanced
<1> QED
  BY <1>1, <1>3, <1>4, <1>5 DEF Money

(* The sales before the oldest that is left are those that had their turn. *)
LEMMA TurnOf ==
  ASSUME NEW rows, GoodRows(rows), NEW seg, NEW amount \in Int,
         NEW list, InTurn(rows, seg, list), NEW i, IsOldest(i, list)
  PROVE  /\ Owed(rows, seg, amount, i) = Remaining(rows, seg, amount, list)
         /\ InTurn(rows, seg, list \ {i})
         /\ Remaining(rows, seg, amount, list \ {i})
              = Remaining(rows, seg, amount, list) - rows[i].free_buy_amount
<1> DEFINE A == Asked(rows, seg)
           V == A \ list
           f == Money(rows)
           remain == amount - SumFunctionOnSet(f, V)
<1>1. /\ IsFiniteSet(V) /\ A \subseteq Nat /\ A \subseteq DOMAIN rows
      /\ \A k \in A : f[k] \in Nat /\ f[k] = rows[k].free_buy_amount
  BY AskedRows
<1>2. /\ list \subseteq A /\ \A k \in V, j \in list : k < j
      /\ Remaining(rows, seg, amount, list) = remain
      /\ Remaining(rows, seg, amount, list \ {i})
           = amount - SumFunctionOnSet(f, A \ (list \ {i}))
  BY DEF InTurn, Remaining
<1>3. Owed(rows, seg, amount, i)
        = amount - SumFunctionOnSet(f, {j \in A : j < i})
  BY DEF Owed
<1> HIDE DEF A, f
<1>a. i \in A /\ i \in list /\ \A j \in A : j \in Nat
  BY <1>1, <1>2 DEF IsOldest
<1>b. \A j \in list : i <= j
  BY DEF IsOldest
<1>4. {j \in A : j < i} = V
  <2>1. ASSUME NEW j \in A PROVE j < i <=> j \in V
    BY <1>a, <1>b, <1>2
  <2> QED
    BY <2>1
<1>5. ASSUME NEW k \in A \ (list \ {i}), NEW j \in list \ {i} PROVE k < j
  <2>1. CASE k = i
    BY <1>a, <1>b, <1>2, <2>1
  <2>2. CASE k \in V
    BY <1>2, <2>2
  <2> QED
    BY <2>1, <2>2
<1>6. A \ (list \ {i}) = V \cup {i} /\ i \notin V
  BY <1>2, <1>a
<1>c. (\A x \in V : f[x] \in Int) /\ f[i] \in Int
  BY <1>1, <1>a
<1> HIDE DEF V
<1>7. SumFunctionOnSet(f, V \cup {i}) = SumFunctionOnSet(f, V) + f[i]
  BY <1>1, <1>6, <1>c, SumAdd
<1>8. SumFunctionOnSet(f, V) \in Int /\ f[i] \in Int
  BY <1>1, <1>c, SumInt
<1>9. amount - SumFunctionOnSet(f, A \ (list \ {i}))
        = remain - rows[i].free_buy_amount
  <2>1. SumFunctionOnSet(f, A \ (list \ {i})) = SumFunctionOnSet(f, V) + f[i]
    BY <1>6, <1>7
  <2>2. ASSUME NEW x \in Int, NEW y \in Int
        PROVE  amount - (x + y) = (amount - x) - y
    OBVIOUS
  <2> QED
    BY <1>1, <1>a, <1>8, <2>1, <2>2
<1>10. InTurn(rows, seg, list \ {i})
  BY <1>2, <1>5 DEF InTurn, A
<1> QED
  BY <1>2, <1>3, <1>4, <1>9, <1>10

(* Once nothing remains to be paid, the sales that are left pay nothing.   *)
LEMMA NothingOwed ==
  ASSUME NEW rows, GoodRows(rows), NEW seg, NEW amount \in Int,
         NEW list, InTurn(rows, seg, list),
         Remaining(rows, seg, amount, list) <= 0, NEW i \in list
  PROVE  Paid(rows, seg, amount, i) = 0
<1> DEFINE A == Asked(rows, seg)
           V == A \ list
           W == {j \in A : j < i}
           f == Money(rows)
<1>1. V \subseteq W
  BY DEF InTurn
<1>2. IsFiniteSet(V) /\ IsFiniteSet(W)
      /\ \A k \in W : f[k] \in Nat /\ f[k] \in Int
  BY AskedRows
<1>3. SumFunctionOnSet(f, V) <= SumFunctionOnSet(f, W)
  BY <1>1, <1>2, SumSubset
<1>4. SumFunctionOnSet(f, V) \in Int /\ SumFunctionOnSet(f, W) \in Int
  BY <1>1, <1>2, SumInt
<1>5. Owed(rows, seg, amount, i) = amount - SumFunctionOnSet(f, W)
  BY DEF Owed
<1>6. amount - SumFunctionOnSet(f, V) <= 0
  BY DEF Remaining
<1> HIDE DEF V, W, f
<1>7. Owed(rows, seg, amount, i) <= 0
  BY <1>3, <1>4, <1>5, <1>6
<1> QED
  BY <1>7 DEF Paid, Share

(* What update_buy_status writes to a row is what the row has to pay.      *)
LEMMA SpendPays ==
  ASSUME NEW old \in SaleRows, RowOK(old), NEW remain \in Int, remain > 0,
         NEW new, new = Spend(old, remain)
  PROVE  /\ new.used_buy_amount
              = old.used_buy_amount + Share(old.free_buy_amount, remain)
         /\ new.free_buy_amount
              = old.free_buy_amount - Share(old.free_buy_amount, remain)
<1>1. old.free_buy_amount \in Int /\ old.used_buy_amount \in Int
  BY DEF SaleRows
<1> DEFINE x == old.free_buy_amount  y == old.used_buy_amount
           free == IF x - remain <= 0 THEN 0 ELSE x - remain
<1>2. new.free_buy_amount = free /\ new.used_buy_amount = y + x - free
  BY DEF Spend, UsedUp
<1>3. Share(x, remain) = IF x <= remain THEN x ELSE remain
  BY DEF Share
<1> HIDE DEF x, y
<1>4. x \in Int /\ y \in Int
  BY <1>1 DEF x, y
<1>5. y + x - free = y + Share(x, remain) /\ free = x - Share(x, remain)
  BY <1>3, <1>4
<1> QED
  BY <1>2, <1>5 DEF x, y

-----------------------------------------------------------------------------
(* The invariant holds initially, and every step preserves it.             *)

LEMMA InitWInv == DbInit => WInv
BY DEF DbInit, WInv, NoTxn

LEMMA InsertWritten == (NewSale \/ NewBuy) => WInv'
BY DEF NewSale, NewBuy, add_new_sale_tx, add_new_buy_tx, WInv

LEMMA EndWritten == (Commit \/ Rollback) => WInv'
BY DEF Commit, Rollback, WInv, NoTxn

LEMMA BeginWritten == IInv /\ (CloseSale \/ CloseBuy) => WInv'
<1> SUFFICES ASSUME IInv, CloseSale \/ CloseBuy PROVE WInv'
  OBVIOUS
<1>1. work = db
  BY DEF IInv, TxnOK, CloseSale, CloseBuy, begin_deliver_sale, begin_deliver_buy
<1>2. CASE CloseSale
  <2>1. PICK id \in new_sale_array, res \in Results :
          begin_deliver_sale(id, res)
    BY <1>2 DEF CloseSale
  <2>2. /\ txn'.op = "sale" /\ txn'.step = "update" /\ txn'.tx.id = id
        /\ db' = db /\ work' = work
    BY <2>1 DEF begin_deliver_sale, NoTxn, complete_sale_order
  <2>3. db.sale_tx[id].status = db_tx_processing
    BY DEF new_sale_array
  <2> QED
    BY <1>1, <2>2, <2>3 DEF WInv, SaleWritten, SameBut
<1>3. CASE CloseBuy
  <2>1. PICK id \in new_buy_array, res \in Results :
          begin_deliver_buy(id, res)
    BY <1>3 DEF CloseBuy
  <2>2. /\ txn'.op = "buy" /\ txn'.step = "update" /\ txn'.tx.id = id
        /\ db' = db /\ work' = work
    BY <2>1 DEF begin_deliver_buy, NoTxn, complete_buy_order
  <2>3. db.buy_tx[id].status = db_tx_processing
    BY DEF new_buy_array
  <2>4. BuySpent'
    BY <1>1, <2>2 DEF BuySpent
  <2>5. BuyWritten'
    BY <1>1, <2>2, <2>3, <2>4 DEF BuyWritten, SameBut
  <2> QED
    BY <2>2, <2>5 DEF WInv
<1> QED
  BY <1>2, <1>3

LEMMA UpdateSaleWritten == IInv /\ WInv /\ update_sale_tx => WInv'
<1> SUFFICES ASSUME IInv, WInv, update_sale_tx PROVE WInv'
  OBVIOUS
<1> DEFINE n == txn.tx.id
           row == WrittenSale(work.sale_tx[n], txn.tx)
<1>1. /\ txn.op = "sale" /\ txn.step = "update" /\ db' = db
      /\ work' = [work EXCEPT !.sale_tx[n] = row]
      /\ txn' = [txn EXCEPT !.step = "history"]
  BY DEF update_sale_tx, WrittenSale
<1>2. SaleWritten /\ SaleTxn /\ TxnOK /\ work \in Tables /\ SameRows
  BY <1>1 DEF WInv, IInv, TxnOK
<1>3. txn'.op = "sale" /\ txn'.tx = txn.tx /\ txn'.step = "history"
  BY <1>1, <1>2, NextStep DEF TxnOK, Steps
<1>4. /\ work.sale_tx = db.sale_tx /\ work.buy_tx = db.buy_tx
      /\ db.sale_tx[n].status = db_tx_processing
  BY <1>1, <1>2 DEF SaleWritten
<1>5. work' = [work EXCEPT !.sale_tx = [work.sale_tx EXCEPT ![n] = row]]
  BY <1>1
<1>6. /\ work'.sale_tx = [work.sale_tx EXCEPT ![n] = row]
      /\ work'.buy_tx = work.buy_tx
  BY <1>2, <1>5 DEF Tables
<1>7. n \in DOMAIN db.sale_tx /\ work.sale_tx \in Seq(SaleRows)
  BY <1>2 DEF SaleTxn, Tables
<1> HIDE DEF row
<1>8. /\ work'.sale_tx[n] = row
      /\ SameBut(db.sale_tx, work'.sale_tx, n)
  BY <1>4, <1>6, <1>7 DEF SameBut
<1>9. row = WrittenSale(db.sale_tx[n], txn.tx)
  BY <1>4 DEF row
<1> HIDE DEF n
<1>10. SaleWritten'
  BY <1>1, <1>3, <1>4, <1>6, <1>8, <1>9 DEF SaleWritten, n
<1> QED
  BY <1>3, <1>10 DEF WInv

LEMMA UpdateBuyWritten == IInv /\ WInv /\ update_buy_tx => WInv'
<1> SUFFICES ASSUME IInv, WInv, update_buy_tx PROVE WInv'
  OBVIOUS
<1> DEFINE n == txn.tx.id
           row == WrittenBuy(work.buy_tx[n], txn.tx)
<1>1. /\ txn.op = "buy" /\ txn.step = "update" /\ db' = db
      /\ work' = [work EXCEPT !.buy_tx[n] = row]
      /\ txn' = [txn EXCEPT !.step = "history"]
  BY DEF update_buy_tx, WrittenBuy
<1>2. BuyWritten /\ BuyTxn /\ TxnOK /\ work \in Tables /\ SameRows
  BY <1>1 DEF WInv, IInv, TxnOK
<1>3. txn'.op = "buy" /\ txn'.tx = txn.tx /\ txn'.step = "history"
  BY <1>1, <1>2, NextStep DEF TxnOK, Steps
<1>4. /\ work.sale_tx = db.sale_tx /\ work.buy_tx = db.buy_tx
      /\ db.buy_tx[n].status = db_tx_processing
  BY <1>1, <1>2 DEF BuyWritten, BuyTxn
<1>5. work' = [work EXCEPT !.buy_tx = [work.buy_tx EXCEPT ![n] = row]]
  BY <1>1
<1>6. /\ work'.buy_tx = [work.buy_tx EXCEPT ![n] = row]
      /\ work'.sale_tx = work.sale_tx
  BY <1>2, <1>5 DEF Tables
<1>7. n \in DOMAIN db.buy_tx /\ work.buy_tx \in Seq(BuyRows)
  BY <1>2 DEF BuyTxn, Tables
<1> HIDE DEF row
<1>8. /\ work'.buy_tx[n] = row
      /\ SameBut(db.buy_tx, work'.buy_tx, n)
  BY <1>4, <1>6, <1>7 DEF SameBut
<1>9. row = WrittenBuy(db.buy_tx[n], txn.tx)
  BY <1>4 DEF row
<1>10. BuySpent'
  BY <1>1, <1>3, <1>4, <1>6 DEF BuySpent
<1> HIDE DEF n
<1>11. BuyWritten'
  BY <1>1, <1>3, <1>4, <1>8, <1>9, <1>10 DEF BuyWritten, n
<1> QED
  BY <1>3, <1>11 DEF WInv

LEMMA SaleHistoryWritten == IInv /\ WInv /\ insert_sale_history => WInv'
<1> SUFFICES ASSUME IInv, WInv, insert_sale_history PROVE WInv'
  OBVIOUS
<1>1. /\ txn.op = "sale" /\ txn.step = "history" /\ db' = db
      /\ txn' = [txn EXCEPT !.step = "commit"]
      /\ \E h : work' = [work EXCEPT !.sale_history = h]
  BY DEF insert_sale_history
<1>2. SaleWritten /\ TxnOK /\ work \in Tables
  BY <1>1 DEF WInv, IInv
<1>3. txn'.op = "sale" /\ txn'.tx = txn.tx /\ txn'.step = "commit"
  BY <1>1, <1>2, NextStep DEF Steps
<1>4. work'.sale_tx = work.sale_tx /\ work'.buy_tx = work.buy_tx
  BY <1>1, <1>2 DEF Tables
<1>5. SaleWritten'
  BY <1>1, <1>2, <1>3, <1>4 DEF SaleWritten
<1> QED
  BY <1>3, <1>5 DEF WInv

LEMMA BuyHistoryWritten == IInv /\ WInv /\ insert_buy_history => WInv'
<1> SUFFICES ASSUME IInv, WInv, insert_buy_history PROVE WInv'
  OBVIOUS
<1> DEFINE step == IF Spends(txn.tx) THEN "select" ELSE "commit"
<1>1. /\ txn.op = "buy" /\ txn.step = "history" /\ db' = db
      /\ txn' = [txn EXCEPT !.step = step]
      /\ \E h : work' = [work EXCEPT !.buy_history = h]
  BY DEF insert_buy_history
<1>2. BuyWritten /\ BuySpent /\ BuyTxn /\ TxnOK /\ work \in Tables
  BY <1>1 DEF WInv, IInv, TxnOK, BuyWritten
<1>3. /\ step \in Steps /\ step \in {"select", "commit"}
      /\ step = "commit" => ~ Spends(txn.tx)
  BY DEF Steps
<1> HIDE DEF step
<1>4. txn'.op = "buy" /\ txn'.tx = txn.tx /\ txn'.step = step
  BY <1>1, <1>2, <1>3, NextStep
<1>5. work'.sale_tx = work.sale_tx /\ work'.buy_tx = work.buy_tx
  BY <1>1, <1>2 DEF Tables
<1>6. work.sale_tx = db.sale_tx
  BY <1>1, <1>2 DEF BuyTxn
<1>7. BuySpent'
  BY <1>1, <1>3, <1>4, <1>5, <1>6 DEF BuySpent
<1>8. BuyWritten'
  BY <1>1, <1>2, <1>3, <1>4, <1>5, <1>7 DEF BuyWritten
<1> QED
  BY <1>4, <1>8 DEF WInv

LEMMA SelectWritten == IInv /\ WInv /\ select_unspent => WInv'
<1> SUFFICES ASSUME IInv, WInv, select_unspent PROVE WInv'
  OBVIOUS
<1> DEFINE seg  == db.buy_tx[txn.tx.id].seg_id
           list == {i \in delivered_sale_array :
                      db.sale_tx[i].seg_id = work.buy_tx[txn.tx.id].seg_id}
           step == IF list = {} THEN "commit" ELSE "use"
           amount == txn.tx.deal_amount
<1>1. /\ txn.op = "buy" /\ txn.step = "select" /\ db' = db /\ work' = work
      /\ txn' = [txn EXCEPT !.list = list, !.remain = amount, !.step = step]
  BY DEF select_unspent
<1>2. BuyWritten /\ BuySpent /\ BuyTxn /\ TxnOK
  BY <1>1 DEF WInv, IInv, TxnOK, BuyWritten
<1>3. /\ step \in Steps /\ step \in {"use", "commit"}
      /\ step = "commit" => list = {}
  BY DEF Steps
<1> HIDE DEF step
<1>4. /\ txn'.op = "buy" /\ txn'.tx = txn.tx /\ txn'.step = step
      /\ txn'.list = list /\ txn'.remain = amount
  BY <1>1, <1>2, <1>3, NextStatement
<1>5. list = Asked(db.sale_tx, seg)
  <2>1. work.buy_tx[txn.tx.id] = WrittenBuy(db.buy_tx[txn.tx.id], txn.tx)
    BY <1>1, <1>2 DEF BuyWritten
  <2>2. db.buy_tx[txn.tx.id] \in BuyRows
    BY <1>2, RowOfTable DEF IInv, BuyTxn
  <2>3. work.buy_tx[txn.tx.id].seg_id = seg
    BY <2>1, <2>2 DEF WrittenBuy, BuyRows
  <2> QED
    BY <2>3 DEF delivered_sale_array, Asked
<1> HIDE DEF list
<1>6. work.sale_tx = db.sale_tx /\ Spends(txn.tx)
  BY <1>1, <1>2 DEF BuyTxn
<1>8. Asked(db.sale_tx, seg) \ list = {} /\ list \subseteq Asked(db.sale_tx, seg)
  BY <1>5
<1>7. /\ amount = Remaining(db.sale_tx, seg, amount, list)
      /\ InTurn(db.sale_tx, seg, list)
  <2>1. amount \in Int
    BY <1>2, BuyTransaction DEF BuyTxn
  <2>2. SumFunctionOnSet(Money(db.sale_tx), Asked(db.sale_tx, seg) \ list) = 0
    BY <1>8, SumEmpty
  <2> HIDE DEF amount, seg, list
  <2>3. InTurn(db.sale_tx, seg, list)
    BY <1>8 DEF InTurn
  <2> QED
    BY <2>1, <2>2, <2>3 DEF Remaining
<1> HIDE DEF amount
<1>9. BuySpent'
  <2>1. CASE step = "use"
    BY <1>1, <1>4, <1>5, <1>6, <1>7, <1>8, <2>1 DEF BuySpent, amount
  <2>2. CASE step = "commit"
    BY <1>1, <1>3, <1>4, <1>5, <1>6, <2>2 DEF BuySpent
  <2> QED
    BY <1>3, <2>1, <2>2
<1>10. BuyWritten'
  BY <1>1, <1>2, <1>3, <1>4, <1>9 DEF BuyWritten
<1> QED
  BY <1>4, <1>10 DEF WInv

(* The oldest sale that is left pays what it has to.                       *)
LEMMA UseWritten == IInv /\ WInv /\ use_sale_tx => WInv'
<1> SUFFICES ASSUME IInv, WInv, use_sale_tx PROVE WInv'
  OBVIOUS
<1>1. PICK i \in txn.list :
        LET new    == Spend(db.sale_tx[i], txn.remain)
            remain == txn.remain - db.sale_tx[i].free_buy_amount
            list   == txn.list \ {i}
        IN
        /\ \A j \in txn.list : i <= j
        /\ SqlNumber(new.valid_sale_number)
        /\ work' = [work EXCEPT !.sale_tx[i] =
             [@ EXCEPT !.used_buy_amount = new.used_buy_amount,
                       !.free_buy_amount = new.free_buy_amount,
                       !.valid_sale_number = new.valid_sale_number,
                       !.use_status = new.use_status]]
        /\ txn' = [txn EXCEPT !.list = list, !.remain = remain,
                     !.step = IF StillToPay(remain, list) THEN "use"
                                                          ELSE "commit"]
  BY DEF use_sale_tx
<1> DEFINE seg    == db.buy_tx[txn.tx.id].seg_id
           amount == txn.tx.deal_amount
           rows   == db.sale_tx
           A      == Asked(rows, seg)
           old    == rows[i]
           new    == Spend(old, txn.remain)
           remain == txn.remain - old.free_buy_amount
           list   == txn.list \ {i}
           step   == IF StillToPay(remain, list) THEN "use" ELSE "commit"
           row == [work.sale_tx[i] EXCEPT
                     !.used_buy_amount = new.used_buy_amount,
                     !.free_buy_amount = new.free_buy_amount,
                     !.valid_sale_number = new.valid_sale_number,
                     !.use_status = new.use_status]
<1>2. /\ txn.op = "buy" /\ txn.step = "use" /\ db' = db
      /\ SqlNumber(new.valid_sale_number)
      /\ work' = [work EXCEPT !.sale_tx[i] = row]
      /\ txn' = [txn EXCEPT !.list = list, !.remain = remain, !.step = step]
      /\ \A j \in txn.list : i <= j
  BY <1>1 DEF use_sale_tx
<1>3. /\ BuyTxn /\ SameRows /\ TxnOK /\ BuyWritten /\ BuySpent
      /\ work \in Tables /\ db \in Tables /\ RowsOK(db)
  BY <1>2 DEF IInv, TxnOK, WInv, BuyWritten
<1>4. /\ txn.remain \in Int /\ txn.remain > 0
      /\ Spends(txn.tx) /\ InTurn(rows, seg, txn.list)
      /\ txn.list \subseteq A
      /\ \A j \in txn.list : work.sale_tx[j] = rows[j]
      /\ \A k \in A \ txn.list :
           PaysOut(rows[k], work.sale_tx[k], Paid(rows, seg, amount, k))
      /\ txn.remain = Remaining(rows, seg, amount, txn.list)
      /\ \A k \in DOMAIN rows \ A : work.sale_tx[k] = rows[k]
  BY <1>2, <1>3 DEF BuyTxn, BuySpent, InTurn
<1>5. /\ rows \in Seq(SaleRows) /\ GoodRows(rows)
      /\ amount \in Int /\ A \subseteq DOMAIN rows
  <2>1. amount \in Int
    BY <1>3, BuyTransaction DEF BuyTxn
  <2> QED
    BY <1>3, <2>1 DEF Tables, RowsOK, Asked, GoodRows
<1>6. /\ Owed(rows, seg, amount, i) = txn.remain
      /\ InTurn(rows, seg, list)
      /\ remain = Remaining(rows, seg, amount, list)
  <2>1. IsOldest(i, txn.list)
    BY <1>2 DEF IsOldest
  <2> HIDE DEF rows, seg, amount
  <2> QED
    BY <1>4, <1>5, <2>1, TurnOf
<1>7. old \in SaleRows /\ RowOK(old) /\ i \in DOMAIN rows
      /\ work.sale_tx[i] = old /\ i \in A
  BY <1>4, <1>5 DEF GoodRows
<1>8. PaysOut(old, row, Paid(rows, seg, amount, i))
  <2>1. /\ new.used_buy_amount
              = old.used_buy_amount + Share(old.free_buy_amount, txn.remain)
        /\ new.free_buy_amount
              = old.free_buy_amount - Share(old.free_buy_amount, txn.remain)
    BY <1>4, <1>7, SpendPays
  <2>2. Paid(rows, seg, amount, i) = Share(old.free_buy_amount, txn.remain)
    BY <1>6 DEF Paid
  <2> HIDE DEF new, old
  <2>3. row = [old EXCEPT !.used_buy_amount = new.used_buy_amount,
                          !.free_buy_amount = new.free_buy_amount,
                          !.valid_sale_number = new.valid_sale_number,
                          !.use_status = new.use_status]
    BY <1>7
  <2> HIDE DEF row
  <2> QED
    BY <1>7, <2>1, <2>2, <2>3 DEF SaleRows, PaysOut
<1> HIDE DEF row
<1>9. /\ work'.sale_tx = [work.sale_tx EXCEPT ![i] = row]
      /\ work'.buy_tx = work.buy_tx
  <2>1. work' = [work EXCEPT !.sale_tx = [work.sale_tx EXCEPT ![i] = row]]
    BY <1>2
  <2> QED
    BY <1>3, <2>1 DEF Tables
<1>10. /\ work'.sale_tx[i] = row
       /\ \A k \in DOMAIN rows : k # i => work'.sale_tx[k] = work.sale_tx[k]
  <2>1. DOMAIN work.sale_tx = DOMAIN rows
    BY <1>3 DEF SameRows
  <2> QED
    BY <1>3, <1>7, <1>9, <2>1 DEF Tables
<1>11. /\ \A k \in DOMAIN rows \ A : work'.sale_tx[k] = rows[k]
       /\ \A k \in list : work'.sale_tx[k] = rows[k]
       /\ \A k \in A \ list :
            PaysOut(rows[k], work'.sale_tx[k], Paid(rows, seg, amount, k))
  <2>1. \A k \in A \ list : k = i \/ (k # i /\ k \in A \ txn.list)
    OBVIOUS
  <2>2. list \subseteq DOMAIN rows /\ A \ txn.list \subseteq DOMAIN rows
    BY <1>4, <1>5
  <2> HIDE DEF A, rows, old
  <2> QED
    BY <1>4, <1>7, <1>8, <1>10, <2>1, <2>2 DEF old
<1>12. step \in {"use", "commit"} /\ (step = "commit" => list = {} \/ ~ (remain > 0))
  BY DEF StillToPay
<1>13. remain \in Int
  BY <1>4, <1>7 DEF SaleRows
<1> HIDE DEF step, remain
<1>14. /\ txn'.op = "buy" /\ txn'.tx = txn.tx /\ txn'.step = step
       /\ txn'.list = list /\ txn'.remain = remain
  BY <1>2, <1>3, <1>12, NextStatement DEF Steps
<1>15. list \subseteq A
  BY <1>4
<1>16. BuySpent'
  <2>1. CASE step = "use"
    <3>1. /\ txn'.step = "use" /\ list = txn'.list /\ remain = txn'.remain
          /\ Spends(txn'.tx)
          /\ seg = (db.buy_tx[txn.tx.id].seg_id)' /\ rows = (db.sale_tx)'
          /\ amount = (txn.tx.deal_amount)'
      BY <1>2, <1>4, <1>14, <2>1
    <3> HIDE DEF list, seg, amount, rows
    <3> QED
      BY <1>6, <1>11, <1>15, <3>1 DEF BuySpent
  <2>2. CASE step = "commit"
    <3>1. \A k \in list :
            PaysOut(rows[k], work'.sale_tx[k], Paid(rows, seg, amount, k))
      <4> SUFFICES ASSUME NEW k \in list
                   PROVE  PaysOut(rows[k], work'.sale_tx[k],
                                  Paid(rows, seg, amount, k))
        OBVIOUS
      <4>1. remain <= 0
        BY <1>12, <1>13, <2>2
      <4>2. Paid(rows, seg, amount, k) = 0
        BY <1>5, <1>6, <1>15, <4>1, NothingOwed
      <4>3. work'.sale_tx[k] = rows[k] /\ rows[k] \in SaleRows
        BY <1>5, <1>11, <1>15
      <4> QED
        BY <4>2, <4>3 DEF PaysOut, SaleRows
    <3>2. \A k \in A :
            PaysOut(rows[k], work'.sale_tx[k], Paid(rows, seg, amount, k))
      BY <1>11, <3>1
    <3>4. /\ txn'.step = "commit" /\ Spends(txn'.tx)
          /\ seg = (db.buy_tx[txn.tx.id].seg_id)' /\ rows = (db.sale_tx)'
          /\ amount = (txn.tx.deal_amount)'
      BY <1>2, <1>4, <1>14, <2>2
    <3> HIDE DEF seg, amount, rows
    <3> QED
      BY <1>11, <3>2, <3>4 DEF BuySpent
  <2> QED
    BY <1>12, <2>1, <2>2
<1>17. BuyWritten'
  BY <1>2, <1>3, <1>9, <1>12, <1>14, <1>16 DEF BuyWritten
<1> QED
  BY <1>14, <1>17 DEF WInv

LEMMA NextWInv == IInv /\ WInv /\ [DbNext]_dbvars => WInv'
<1> SUFFICES ASSUME IInv, WInv, [DbNext]_dbvars PROVE WInv'
  OBVIOUS
<1>1. CASE UNCHANGED dbvars
  BY <1>1 DEF dbvars, WInv, SaleWritten, BuyWritten, BuySpent
<1> QED
  BY <1>1, InsertWritten, BeginWritten, UpdateSaleWritten, SaleHistoryWritten,
     UpdateBuyWritten, BuyHistoryWritten, SelectWritten, UseWritten, EndWritten
  DEF DbNext, Statement

-----------------------------------------------------------------------------
(* A commit is one step of the ledger.                                     *)

LEMMA WrittenIsClosed ==
  ASSUME NEW row \in SaleRows, NEW id, NEW res \in Results,
         NEW tx, tx = complete_sale_order(id, res)
  PROVE  LedgerSale(WrittenSale(row, tx))
           = [seg |-> row.seg_id,
              order |-> Ledger!Closed(net_amount(res), HasDeals(tx))]
<1> DEFINE new == WrittenSale(row, tx)
<1>1. /\ new.seg_id = row.seg_id /\ new.status = tx.status
      /\ new.used_buy_amount = tx.used_buy_amount
      /\ new.free_buy_amount = tx.free_buy_amount
  BY DEF WrittenSale, SaleRows
<1>2. /\ tx.used_buy_amount = 0 /\ tx.free_buy_amount = net_amount(res)
      /\ tx.status = res.status
  BY DEF complete_sale_order
<1>3. res.status # db_tx_processing /\ net_amount(res) \in Int
  BY ResultsAssumption
  DEF OrderResults, IsClosing, net_amount, charged_fee, order_processing,
      db_tx_processing
<1> HIDE DEF new
<1>4. LedgerSale(new) = [seg |-> row.seg_id,
                         order |-> [amount |-> net_amount(res), spent |-> 0,
                                    closed |-> TRUE, deals |-> HasDeals(tx)]]
  <2>1. /\ new.used_buy_amount + new.free_buy_amount = net_amount(res)
        /\ new.used_buy_amount = 0
        /\ (new.status # db_tx_processing) = TRUE
        /\ HasDeals(new) = HasDeals(tx)
    BY <1>1, <1>2, <1>3 DEF HasDeals
  <2> QED
    BY <1>1, <2>1, Zenon DEF LedgerSale
<1> QED
  BY <1>4 DEF new, Ledger!Closed

LEMMA CommitSaleLedger ==
  ASSUME IInv, WInv, Commit, txn.op = "sale"
  PROVE  Ledger!Next
<1> DEFINE n == txn.tx.id
           rows == db.sale_tx
<1>1. SaleWritten /\ SaleTxn /\ SameRows /\ txn.step = "commit" /\ db' = work
  BY DEF WInv, IInv, TxnOK, Commit
<1>2. PICK res \in Results : txn.tx = complete_sale_order(n, res)
  BY <1>1 DEF SaleTxn
<1> DEFINE amount == net_amount(res)
           deals == HasDeals(txn.tx)
<1>3. /\ n \in DOMAIN rows /\ rows[n] \in SaleRows
      /\ rows[n].status = db_tx_processing
      /\ DOMAIN work.sale_tx = DOMAIN rows
      /\ work.buy_tx = db.buy_tx
      /\ \A i \in DOMAIN rows : i # n => work.sale_tx[i] = rows[i]
      /\ work.sale_tx[n] = WrittenSale(rows[n], txn.tx)
  BY <1>1, RowOfTable DEF SaleTxn, SaleWritten, SameRows, SameBut, IInv
<1>4. LedgerSale(work.sale_tx[n])
        = [seg |-> rows[n].seg_id, order |-> Ledger!Closed(amount, deals)]
  BY <1>2, <1>3, WrittenIsClosed
<1> DEFINE old == [i \in DOMAIN rows |-> LedgerSale(rows[i])]
           new == [i \in DOMAIN work.sale_tx |-> LedgerSale(work.sale_tx[i])]
           order == Ledger!Closed(amount, deals)
<1>5. [old[n] EXCEPT !.order = order] = [seg |-> rows[n].seg_id, order |-> order]
  BY <1>3 DEF LedgerSale
<1>6. new = [old EXCEPT ![n].order = order]
  <2> HIDE DEF order
  <2>1. new[n] = [old[n] EXCEPT !.order = order]
    BY <1>3, <1>4, <1>5 DEF order
  <2>2. \A i \in DOMAIN rows : i # n => new[i] = old[i]
    BY <1>3
  <2>3. DOMAIN new = DOMAIN old /\ n \in DOMAIN old
    BY <1>3
  <2>4. new = [i \in DOMAIN old |-> new[i]]
    BY <1>3
  <2> HIDE DEF new
  <2>5. \A i \in DOMAIN old :
          new[i] = [old EXCEPT ![n].order = order][i]
    BY <2>1, <2>2, <2>3
  <2>6. new = [i \in DOMAIN old |-> [old EXCEPT ![n].order = order][i]]
    BY <2>4, <2>5
  <2> HIDE DEF old
  <2> QED
    BY <2>6
<1>7. ~ old[n].order.closed
  BY <1>3 DEF LedgerSale
<1>8. /\ amount \in {r.amount : r \in Results}
                     \cup {r.amount - r.fee : r \in Results}
      /\ deals \in BOOLEAN
  <2>1. res.amount - 0 = res.amount
    BY ResultsAssumption DEF OrderResults
  <2> QED
    BY <2>1 DEF net_amount, charged_fee, HasDeals
<1>9. Ledger!CloseSale(n, amount, deals)
  BY <1>1, <1>3, <1>6, <1>7 DEF Ledger!CloseSale
<1> HIDE DEF amount, deals, old, new, order
<1>10. n \in DOMAIN [i \in DOMAIN db.sale_tx |-> LedgerSale(db.sale_tx[i])]
  BY <1>3
<1> QED
  BY <1>8, <1>9, <1>10 DEF Ledger!Next

LEMMA InsertLedger ==
  ASSUME IInv, NewSale \/ NewBuy
  PROVE  Ledger!Next
<1> DEFINE Sales(rows) == [i \in DOMAIN rows |-> LedgerSale(rows[i])]
           Buys(rows) == [i \in DOMAIN rows |-> LedgerBuy(rows[i])]
<1>1. db \in Tables
  BY DEF IInv
<1>2. CASE NewSale
  <2>1. PICK seg \in Segs, oid \in OrderIds : add_new_sale_tx(seg, oid)
    BY <1>2 DEF NewSale
  <2> DEFINE row == NewSaleRow(seg, oid)
  <2>2. /\ db'.sale_tx = Append(db.sale_tx, row)
        /\ db'.buy_tx = db.buy_tx
    BY <1>1, <2>1 DEF add_new_sale_tx, Tables
  <2>3. LedgerSale(row) = [seg |-> seg, order |-> Ledger!Open]
    <3>1. /\ row.seg_id = seg /\ row.used_buy_amount = 0
          /\ row.used_buy_amount + row.free_buy_amount = 0
          /\ row.status = 0
      BY DEF NewSaleRow, db_tx_processing
    <3> HIDE DEF row
    <3>2. (row.status # db_tx_processing) = FALSE /\ HasDeals(row) = FALSE
      BY <3>1 DEF HasDeals, db_tx_processing, db_tx_portion_closed,
         db_tx_complet_closed
    <3> QED
      BY <3>1, <3>2, Zenon DEF LedgerSale, Ledger!Open
  <2>4. row \in SaleRows /\ db.sale_tx \in Seq(SaleRows)
    BY <1>1 DEF Tables, NewSaleRow, SaleRows, db_tx_processing, db_tx_unused
  <2> HIDE DEF row
  <2>5. Sales(Append(db.sale_tx, row))
          = Append(Sales(db.sale_tx), LedgerSale(row))
    <3> DEFINE Q == {LedgerSale(r) : r \in SaleRows}
               p == db.sale_tx
               q == Append(p, row)
    <3>1. /\ q \in Seq(SaleRows) /\ Len(q) = Len(p) + 1
          /\ \A i \in 1 .. Len(p) : q[i] = p[i]
          /\ q[Len(p) + 1] = row
      BY <2>4, AppendProperties
    <3> HIDE DEF q
    <3>2. /\ Sales(p) \in Seq(Q) /\ Len(Sales(p)) = Len(p)
          /\ Sales(q) \in Seq(Q) /\ Len(Sales(q)) = Len(q)
          /\ \A i \in 1 .. Len(p) : Sales(p)[i] = LedgerSale(p[i])
          /\ \A i \in 1 .. Len(q) : Sales(q)[i] = LedgerSale(q[i])
      <4>1. ASSUME NEW t \in Seq(SaleRows)
            PROVE  /\ Sales(t) \in Seq(Q) /\ Len(Sales(t)) = Len(t)
                   /\ \A i \in 1 .. Len(t) : Sales(t)[i] = LedgerSale(t[i])
        <5>1. DOMAIN t = 1 .. Len(t) /\ Len(t) \in Nat
          OBVIOUS
        <5>2. \A i \in 1 .. Len(t) : LedgerSale(t[i]) \in Q
          BY <5>1
        <5> HIDE DEF Q
        <5> QED
          BY <5>1, <5>2
      <4> HIDE DEF Q, Sales
      <4> QED
        BY <2>4, <3>1, <4>1
    <3>3. LedgerSale(row) \in Q /\ Len(p) \in Nat
      BY <2>4
    <3> HIDE DEF Q, Sales
    <3> DEFINE a == Append(Sales(p), LedgerSale(row))
    <3>4. /\ a \in Seq(Q) /\ Len(a) = Len(p) + 1
          /\ \A i \in 1 .. Len(p) : a[i] = Sales(p)[i]
          /\ a[Len(p) + 1] = LedgerSale(row)
      BY <3>2, <3>3, AppendProperties
    <3> HIDE DEF a
    <3>5. \A i \in 1 .. Len(p) + 1 : Sales(q)[i] = a[i]
      BY <3>1, <3>2, <3>3, <3>4
    <3>6. Sales(q) = a
      BY <3>1, <3>2, <3>4, <3>5, SeqEqual
    <3> QED
      BY <3>6 DEF a, q
  <2>6. Ledger!OpenSale(seg)
    BY <2>2, <2>3, <2>5 DEF Ledger!OpenSale
  <2> QED
    BY <2>6 DEF Ledger!Next
<1>3. CASE NewBuy
  <2>1. PICK seg \in Segs, oid \in OrderIds, amount \in Numbers :
          add_new_buy_tx(seg, oid, amount)
    BY <1>3 DEF NewBuy
  <2> DEFINE row == NewBuyRow(seg, oid, amount)
  <2>2. /\ db'.buy_tx = Append(db.buy_tx, row)
        /\ db'.sale_tx = db.sale_tx
    BY <1>1, <2>1 DEF add_new_buy_tx, Tables
  <2>3. LedgerBuy(row) = [seg |-> seg, order |-> Ledger!Open]
    <3>1. /\ row.seg_id = seg /\ row.deal_amount = 0 /\ row.status = 0
      BY DEF NewBuyRow, db_tx_processing
    <3> HIDE DEF row
    <3>2. (row.status # db_tx_processing) = FALSE /\ HasDeals(row) = FALSE
      BY <3>1 DEF HasDeals, db_tx_processing, db_tx_portion_closed,
         db_tx_complet_closed
    <3> QED
      BY <3>1, <3>2, Zenon DEF LedgerBuy, Ledger!Open
  <2>4. row \in BuyRows /\ db.buy_tx \in Seq(BuyRows)
    BY <1>1, NumbersAssumption DEF Tables, NewBuyRow, BuyRows, db_tx_processing
  <2> HIDE DEF row
  <2>5. Buys(Append(db.buy_tx, row)) = Append(Buys(db.buy_tx), LedgerBuy(row))
    <3> DEFINE Q == {LedgerBuy(r) : r \in BuyRows}
               p == db.buy_tx
               q == Append(p, row)
    <3>1. /\ q \in Seq(BuyRows) /\ Len(q) = Len(p) + 1
          /\ \A i \in 1 .. Len(p) : q[i] = p[i]
          /\ q[Len(p) + 1] = row
      BY <2>4, AppendProperties
    <3> HIDE DEF q
    <3>2. /\ Buys(p) \in Seq(Q) /\ Len(Buys(p)) = Len(p)
          /\ Buys(q) \in Seq(Q) /\ Len(Buys(q)) = Len(q)
          /\ \A i \in 1 .. Len(p) : Buys(p)[i] = LedgerBuy(p[i])
          /\ \A i \in 1 .. Len(q) : Buys(q)[i] = LedgerBuy(q[i])
      <4>1. ASSUME NEW t \in Seq(BuyRows)
            PROVE  /\ Buys(t) \in Seq(Q) /\ Len(Buys(t)) = Len(t)
                   /\ \A i \in 1 .. Len(t) : Buys(t)[i] = LedgerBuy(t[i])
        <5>1. DOMAIN t = 1 .. Len(t) /\ Len(t) \in Nat
          OBVIOUS
        <5>2. \A i \in 1 .. Len(t) : LedgerBuy(t[i]) \in Q
          BY <5>1
        <5> HIDE DEF Q
        <5> QED
          BY <5>1, <5>2
      <4> HIDE DEF Q, Buys
      <4> QED
        BY <2>4, <3>1, <4>1
    <3>3. LedgerBuy(row) \in Q /\ Len(p) \in Nat
      BY <2>4
    <3> HIDE DEF Q, Buys
    <3> DEFINE a == Append(Buys(p), LedgerBuy(row))
    <3>4. /\ a \in Seq(Q) /\ Len(a) = Len(p) + 1
          /\ \A i \in 1 .. Len(p) : a[i] = Buys(p)[i]
          /\ a[Len(p) + 1] = LedgerBuy(row)
      BY <3>2, <3>3, AppendProperties
    <3> HIDE DEF a
    <3>5. \A i \in 1 .. Len(p) + 1 : Buys(q)[i] = a[i]
      BY <3>1, <3>2, <3>3, <3>4
    <3>6. Buys(q) = a
      BY <3>1, <3>2, <3>4, <3>5, SeqEqual
    <3> QED
      BY <3>6 DEF a, q
  <2>6. Ledger!OpenBuy(seg)
    BY <2>2, <2>3, <2>5 DEF Ledger!OpenBuy
  <2> QED
    BY <2>6 DEF Ledger!Next
<1> QED
  BY <1>2, <1>3

(* The rows that the queries select are those with proceeds left.          *)
LEMMA LedgerUnspent ==
  ASSUME IInv, NEW seg
  PROVE  Ledger!Unspent(seg) = Asked(db.sale_tx, seg)
<1> DEFINE rows == db.sale_tx
           sales == [i \in DOMAIN rows |-> LedgerSale(rows[i])]
<1>1. ASSUME NEW i \in DOMAIN rows
      PROVE  (/\ sales[i].seg = seg /\ sales[i].order.deals
              /\ sales[i].order.spent < sales[i].order.amount)
               <=> Unspent(rows[i]) /\ rows[i].seg_id = seg
  <2> DEFINE row == rows[i]
  <2>1. row \in SaleRows /\ RowOK(row)
    BY RowOfTable DEF IInv, RowsOK
  <2> HIDE DEF row
  <2>2. /\ row.used_buy_amount \in Int /\ row.free_buy_amount \in Int
        /\ row.free_buy_amount >= 0 /\ row.use_status \in 0..2
    BY <2>1 DEF SaleRows, RowOK, Balanced
  <2>3. row.used_buy_amount < row.used_buy_amount + row.free_buy_amount
          <=> row.free_buy_amount > 0
    BY <2>2
  <2>4. HasDeals(row) /\ row.free_buy_amount > 0 <=> Unspent(row)
    BY <2>1, <2>2
    DEF HasDeals, Unspent, RowOK, UseStatusAgrees, db_tx_processing,
        db_tx_portion_closed, db_tx_complet_closed, db_tx_unused,
        db_tx_portion_used, db_tx_complet_used
  <2>5. /\ sales[i].seg = row.seg_id
        /\ sales[i].order.deals = HasDeals(row)
        /\ sales[i].order.spent = row.used_buy_amount
        /\ sales[i].order.amount = row.used_buy_amount + row.free_buy_amount
    BY Zenon DEF LedgerSale, row
  <2> HIDE DEF sales
  <2> QED
    BY <2>3, <2>4, <2>5 DEF row
<1>2. Ledger!Unspent(seg)
        = {i \in DOMAIN rows : /\ sales[i].seg = seg /\ sales[i].order.deals
                               /\ sales[i].order.spent < sales[i].order.amount}
  BY DEF Ledger!Unspent
<1> HIDE DEF sales
<1> QED
  BY <1>1, <1>2 DEF Asked

(* The operators of the library, as the instance of the ledger has them.   *)
LEMMA LedgerSum ==
  ASSUME NEW f, NEW S
  PROVE  Ledger!SumFunctionOnSet(f, S) = SumFunctionOnSet(f, S)
BY DEF SumFunctionOnSet, FoldFunctionOnSet, MapThenFoldSet,
   Ledger!SumFunctionOnSet, Ledger!FoldFunctionOnSet, Ledger!MapThenFoldSet

LEMMA LedgerMaxMin ==
  ASSUME NEW x \in Int, NEW y \in Int
  PROVE  /\ Ledger!Max({x, y}) = IF x >= y THEN x ELSE y
         /\ Ledger!Min({x, y}) = IF x <= y THEN x ELSE y
BY DEF Ledger!Max, Ledger!Min

(* What the ledger lets a sale pay is what update_buy_status takes.        *)
LEMMA LedgerPays ==
  ASSUME IInv, NEW amount \in Int, NEW i \in DOMAIN db.sale_tx, NEW seg,
         seg = db.sale_tx[i].seg_id
  PROVE  Ledger!Pays(i, amount) = Paid(db.sale_tx, seg, amount, i)
<1> DEFINE rows == db.sale_tx
           sales == [j \in DOMAIN rows |-> LedgerSale(rows[j])]
           lefts == [j \in DOMAIN sales
                       |-> sales[j].order.amount - sales[j].order.spent]
           before == {j \in Asked(rows, seg) : j < i}
           sum == SumFunctionOnSet(Money(rows), before)
           free == rows[i].free_buy_amount
<1>1. GoodRows(rows)
  BY DEF IInv, GoodRows, RowsOK, Tables
<1>2. \A j \in DOMAIN rows : lefts[j] = rows[j].free_buy_amount
  <2> SUFFICES ASSUME NEW j \in DOMAIN rows
               PROVE  lefts[j] = rows[j].free_buy_amount
    OBVIOUS
  <2>1. rows[j] \in SaleRows
    BY <1>1 DEF GoodRows
  <2>2. /\ sales[j].order.amount
              = rows[j].used_buy_amount + rows[j].free_buy_amount
        /\ sales[j].order.spent = rows[j].used_buy_amount
    BY DEF LedgerSale
  <2> HIDE DEF sales
  <2>3. /\ rows[j].used_buy_amount \in Int /\ rows[j].free_buy_amount \in Int
        /\ j \in DOMAIN sales
    BY <2>1 DEF SaleRows, sales
  <2> QED
    BY <2>2, <2>3
<1>3. /\ IsFiniteSet(before) /\ before \subseteq DOMAIN rows
      /\ \A j \in DOMAIN rows : /\ Money(rows)[j] = rows[j].free_buy_amount
                                /\ Money(rows)[j] \in Nat
  BY <1>1, AskedRows
<1>4. SumFunctionOnSet(lefts, before) = sum
  <2>1. \A j \in before : lefts[j] = Money(rows)[j]
    BY <1>2, <1>3
  <2> HIDE DEF lefts, before
  <2> QED
    BY <1>3, <2>1, SumSame
<1>5. sum \in Int
  <2>1. \A j \in before : Money(rows)[j] \in Int
    BY <1>3
  <2> HIDE DEF before
  <2> QED
    BY <1>3, <2>1, SumInt
<1>6. Ledger!LeftBefore(i) = sum
  <2>1. sales[i].seg = seg
    BY DEF LedgerSale
  <2>2. Ledger!Unspent(sales[i].seg) = Asked(rows, seg)
    BY <2>1, LedgerUnspent
  <2>3. Ledger!LeftBefore(i)
          = SumFunctionOnSet(lefts, {j \in Ledger!Unspent(sales[i].seg) : j < i})
    <3>1. Ledger!LeftBefore(i)
            = Ledger!SumFunctionOnSet(
                [j \in DOMAIN sales |-> Ledger!Left(j)],
                {j \in Ledger!Unspent(sales[i].seg) : j < i})
      BY Zenon DEF Ledger!LeftBefore
    <3>2. \A j \in DOMAIN sales :
            Ledger!Left(j) = sales[j].order.amount - sales[j].order.spent
      BY Zenon DEF Ledger!Left
    <3> HIDE DEF sales
    <3>3. [j \in DOMAIN sales |-> Ledger!Left(j)] = lefts
      BY <3>2
    <3> QED
      BY <3>1, <3>3, LedgerSum, Zenon
  <2> QED
    BY <1>4, <2>2, <2>3
<1>7. Ledger!Left(i) = free /\ free \in Nat
  <2>1. Ledger!Left(i) = lefts[i]
    BY DEF Ledger!Left
  <2> QED
    BY <1>2, <1>3, <2>1
<1> HIDE DEF free, sum
<1> DEFINE owed == amount - sum
           least == Ledger!Min({free, owed})
<1>8. Ledger!Pays(i, amount) = Ledger!Max({0, least})
  BY <1>6, <1>7, Zenon DEF Ledger!Pays
<1>9. Paid(rows, seg, amount, i) = Share(free, owed)
  BY Zenon DEF Paid, Owed, free, sum
<1>a. owed \in Int /\ free \in Int /\ free >= 0 /\ 0 \in Int
  BY <1>5, <1>7
<1> HIDE DEF owed
<1>10. least = IF free <= owed THEN free ELSE owed
  BY <1>a, LedgerMaxMin
<1>11. least \in Int
  BY <1>a, <1>10
<1> HIDE DEF least
<1>12. Ledger!Max({0, least}) = IF 0 >= least THEN 0 ELSE least
  BY <1>a, <1>11, LedgerMaxMin
<1> QED
  BY <1>a, <1>8, <1>9, <1>10, <1>12 DEF Share

LEMMA PaidInt ==
  ASSUME NEW rows, GoodRows(rows), NEW seg, NEW amount \in Int,
         NEW i \in DOMAIN rows
  PROVE  /\ Paid(rows, seg, amount, i) \in Int
         /\ Paid(rows, seg, amount, i) >= 0
         /\ amount <= 0 => Paid(rows, seg, amount, i) = 0
<1> DEFINE S == {j \in Asked(rows, seg) : j < i}
           sum == SumFunctionOnSet(Money(rows), S)
           free == rows[i].free_buy_amount
<1>1. /\ IsFiniteSet(S) /\ S \subseteq DOMAIN rows
      /\ \A j \in DOMAIN rows : /\ Money(rows)[j] = rows[j].free_buy_amount
                                /\ Money(rows)[j] \in Nat
  BY AskedRows
<1>2. sum \in Nat
  <2>1. \A j \in S : Money(rows)[j] \in Nat
    BY <1>1
  <2> HIDE DEF S
  <2> QED
    BY <1>1, <2>1, SumNat
<1>3. free \in Nat
  BY <1>1
<1>4. Paid(rows, seg, amount, i) = Share(free, amount - sum)
  BY Zenon DEF Paid, Owed
<1> HIDE DEF sum, free
<1> QED
  BY <1>2, <1>3, <1>4 DEF Share

(* All the sales of a segment together pay a buy its cost at most.         *)
LEMMA PaidTogether ==
  ASSUME NEW rows, GoodRows(rows), NEW seg, NEW amount \in Nat
  PROVE  SumFunctionOnSet([i \in DOMAIN rows |-> Paid(rows, seg, amount, i)],
                          Asked(rows, seg)) <= amount
<1> DEFINE A == Asked(rows, seg)
           f == Money(rows)
           g == [i \in DOMAIN rows |-> Paid(rows, seg, amount, i)]
           T == {m \in Nat : \E i \in A : g[i] # 0 /\ m = Len(rows) - i}
<1>1. /\ IsFiniteSet(A) /\ A \subseteq DOMAIN rows /\ A \subseteq Nat
      /\ \A i \in A : f[i] \in Nat /\ f[i] = rows[i].free_buy_amount
  BY AskedRows
<1>2. \A i \in A : g[i] = Share(f[i], Owed(rows, seg, amount, i))
  BY <1>1 DEF Paid
<1>3. ASSUME NEW i \in A
      PROVE  /\ g[i] \in Nat
             /\ g[i] <= f[i]
  <2>1. g[i] \in Int /\ g[i] >= 0
    BY <1>1, PaidInt
  <2>2. Owed(rows, seg, amount, i) \in Int
    <3> DEFINE S == {j \in A : j < i}
    <3>1. S \subseteq A /\ IsFiniteSet(S)
      BY <1>1, FS_Subset
    <3>2. \A j \in S : f[j] \in Int
      BY <1>1, <3>1
    <3> HIDE DEF S, f
    <3>3. SumFunctionOnSet(f, S) \in Int
      BY <3>1, <3>2, SumInt
    <3> QED
      BY <3>3 DEF Owed, S, f
  <2>3. f[i] \in Nat /\ g[i] = Share(f[i], Owed(rows, seg, amount, i))
    BY <1>1, <1>2
  <2> HIDE DEF f, g
  <2> QED
    BY <2>1, <2>2, <2>3 DEF Share
<1>4. DOMAIN rows = 1 .. Len(rows) /\ Len(rows) \in Nat
  BY DEF GoodRows
<1> HIDE DEF g
<1>5. CASE T = {}
  <2>1. \A i \in A : g[i] = 0
    BY <1>1, <1>4, <1>5
  <2>2. SumFunctionOnSet(g, A) = 0
    <3>1. \A i \in A : g[i] \in Int
      BY <1>3
    <3>2. \A i \in A \ {} : g[i] = 0
      BY <2>1
    <3>3. SumFunctionOnSet(g, A) = SumFunctionOnSet(g, {})
      BY <1>1, <3>1, <3>2, SumZeroes
    <3> QED
      BY <3>3, SumEmpty
  <2> QED
    BY <2>2 DEF g
<1>6. CASE T # {}
  <2>1. PICK m \in T : \A n \in T : m <= n
    <3>1. T \in SUBSET Nat
      OBVIOUS
    <3> HIDE DEF T
    <3> QED
      BY <1>6, <3>1, LeastNumber
  <2>2. PICK i \in A : g[i] # 0 /\ m = Len(rows) - i
    OBVIOUS
  <2> DEFINE V == {j \in A : j < i}
             owed == amount - SumFunctionOnSet(f, V)
  <2>3. \A j \in A : j > i => g[j] = 0
    <3>1. ASSUME NEW j \in A, j > i, g[j] # 0 PROVE FALSE
      <4>1. Len(rows) - j \in T
        BY <1>1, <1>4, <3>1
      <4>2. i \in Nat /\ j \in Nat
        BY <1>1
      <4> HIDE DEF T
      <4> QED
        BY <1>4, <2>1, <2>2, <3>1, <4>1, <4>2
    <3> QED
      BY <3>1
  <2>4. /\ IsFiniteSet(V) /\ V \subseteq A /\ i \notin V
        /\ \A j \in A \ (V \cup {i}) : g[j] = 0
    <3>1. \A j \in A \ (V \cup {i}) : j > i
      BY <1>1
    <3> QED
      BY <1>1, <2>3, <3>1, FS_Subset
  <2>5. SumFunctionOnSet(g, A) = SumFunctionOnSet(g, V) + g[i]
    <3>1. \A j \in A : g[j] \in Int
      BY <1>3
    <3>2. SumFunctionOnSet(g, A) = SumFunctionOnSet(g, V \cup {i})
      <4>1. V \cup {i} \subseteq A
        BY <2>4
      <4> HIDE DEF V
      <4> QED
        BY <1>1, <2>4, <3>1, <4>1, SumZeroes
    <3>3. SumFunctionOnSet(g, V \cup {i}) = SumFunctionOnSet(g, V) + g[i]
      <4>1. \A j \in V : g[j] \in Int
        BY <2>4, <3>1
      <4> HIDE DEF V
      <4> QED
        BY <2>4, <3>1, <4>1, SumAdd
    <3> QED
      BY <3>2, <3>3
  <2>6. /\ SumFunctionOnSet(g, V) <= SumFunctionOnSet(f, V)
        /\ SumFunctionOnSet(g, V) \in Int /\ SumFunctionOnSet(f, V) \in Int
    <3>1. \A j \in V : f[j] \in Int /\ g[j] \in Int /\ g[j] <= f[j]
      BY <1>1, <1>3, <2>4
    <3>2. \A j \in V : f[j] \in Int
      BY <3>1
    <3>3. \A j \in V : g[j] \in Int
      BY <3>1
    <3> HIDE DEF V, f
    <3> QED
      BY <2>4, <3>1, <3>2, <3>3, SumMonotone, SumInt
  <2>7. g[i] = Share(f[i], owed)
    <3>1. g[i] = Share(f[i], Owed(rows, seg, amount, i))
      BY <1>2
    <3>2. Owed(rows, seg, amount, i) = owed
      BY Zenon DEF Owed
    <3> QED
      BY <3>1, <3>2
  <2>8. f[i] \in Nat
    BY <1>1
  <2> DEFINE p == SumFunctionOnSet(g, V)
             q == SumFunctionOnSet(f, V)
  <2>9. p <= q /\ p \in Int /\ q \in Int /\ g[i] = Share(f[i], amount - q)
    BY <2>6, <2>7
  <2> HIDE DEF p, q, f
  <2>10. p + g[i] <= amount
    BY <2>2, <2>8, <2>9 DEF Share
  <2> QED
    BY <2>5, <2>10 DEF p, g
<1> QED
  BY <1>5, <1>6

(* A row that has paid, and one that has nothing to pay, in the ledger.    *)
LEMMA LedgerPaysOut ==
  ASSUME NEW old \in SaleRows, NEW new, NEW n \in Int, PaysOut(old, new, n)
  PROVE  LedgerSale(new) = [LedgerSale(old) EXCEPT !.order.spent = @ + n]
<1>1. /\ old.used_buy_amount \in Int /\ old.free_buy_amount \in Int
      /\ new.used_buy_amount = old.used_buy_amount + n
      /\ new.free_buy_amount = old.free_buy_amount - n
      /\ new.seg_id = old.seg_id /\ new.status = old.status
  BY DEF SaleRows, PaysOut
<1>2. new.used_buy_amount + new.free_buy_amount
        = old.used_buy_amount + old.free_buy_amount
  BY <1>1
<1>3. HasDeals(new) = HasDeals(old)
  BY <1>1 DEF HasDeals
<1> DEFINE a == old.used_buy_amount + old.free_buy_amount
           c == (old.status # db_tx_processing)
           d == HasDeals(old)
           o == [amount |-> a, spent |-> old.used_buy_amount, closed |-> c,
                 deals |-> d]
<1>4. LedgerSale(old) = [seg |-> old.seg_id, order |-> o]
  BY Zenon DEF LedgerSale
<1>5. LedgerSale(new)
        = [seg |-> old.seg_id,
           order |-> [amount |-> a, spent |-> old.used_buy_amount + n,
                      closed |-> c, deals |-> d]]
  BY <1>1, <1>2, <1>3, Zenon DEF LedgerSale
<1> HIDE DEF a, c, d
<1>6. [o EXCEPT !.spent = @ + n]
        = [amount |-> a, spent |-> old.used_buy_amount + n, closed |-> c,
           deals |-> d]
  OBVIOUS
<1>7. [LedgerSale(old) EXCEPT !.order.spent = @ + n]
        = [seg |-> old.seg_id, order |-> [o EXCEPT !.spent = @ + n]]
  <2> DEFINE L == LedgerSale(old)
  <2>1. [L EXCEPT !.order.spent = @ + n]
          = [L EXCEPT !.order = [L.order EXCEPT !.spent = L.order.spent + n]]
    OBVIOUS
  <2>2. L.order = o
    BY <1>4
  <2> HIDE DEF o, L
  <2>3. [L EXCEPT !.order = [o EXCEPT !.spent = o.spent + n]]
          = [seg |-> old.seg_id, order |-> [o EXCEPT !.spent = o.spent + n]]
    BY <1>4 DEF L
  <2> QED
    BY <2>1, <2>2, <2>3 DEF L
<1> QED
  BY <1>5, <1>6, <1>7

LEMMA CommitBuyLedger ==
  ASSUME IInv, WInv, Commit, txn.op = "buy"
  PROVE  Ledger!Next
<1> DEFINE n == txn.tx.id
           rows == db.sale_tx
           brows == db.buy_tx
           seg == brows[n].seg_id
<1>1. /\ BuyWritten /\ BuySpent /\ BuyTxn /\ SameRows
      /\ txn.step = "commit" /\ db' = work
  BY DEF WInv, IInv, TxnOK, Commit, BuyWritten
<1>2. PICK res \in Results : txn.tx = complete_buy_order(n, res)
  BY <1>1 DEF BuyTxn
<1> DEFINE amount == txn.tx.deal_amount
           deals == HasDeals(txn.tx)
<1>3. /\ n \in DOMAIN brows /\ brows[n] \in BuyRows
      /\ brows[n].status = db_tx_processing
      /\ DOMAIN work.sale_tx = DOMAIN rows /\ DOMAIN work.buy_tx = DOMAIN brows
      /\ \A i \in DOMAIN brows : i # n => work.buy_tx[i] = brows[i]
      /\ work.buy_tx[n] = WrittenBuy(brows[n], txn.tx)
  BY <1>1, RowOfTable DEF BuyTxn, BuyWritten, SameRows, SameBut, IInv
<1>4. /\ amount = res.amount /\ amount \in Nat /\ txn.tx.status = res.status
      /\ txn.tx.status # db_tx_processing
      /\ deals => txn.tx.status \in {db_tx_portion_closed, db_tx_complet_closed}
      /\ Spends(txn.tx) => deals
  BY <1>2, ResultsAssumption
  DEF complete_buy_order, OrderResults, IsClosing, order_processing,
      db_tx_processing, HasDeals, Spends
<1> DEFINE order == Ledger!Closed(amount, deals)
           oldb == [i \in DOMAIN brows |-> LedgerBuy(brows[i])]
           newb == [i \in DOMAIN work.buy_tx |-> LedgerBuy(work.buy_tx[i])]
<1>5. newb = [oldb EXCEPT ![n].order = order]
  <2>1. LedgerBuy(work.buy_tx[n]) = [seg |-> seg, order |-> order]
    <3> DEFINE new == WrittenBuy(brows[n], txn.tx)
    <3>1. /\ new.seg_id = seg /\ new.status = txn.tx.status
          /\ new.deal_amount = amount
      BY <1>3 DEF WrittenBuy, BuyRows
    <3>2. (new.status # db_tx_processing) = TRUE /\ HasDeals(new) = deals
      BY <1>4, <3>1 DEF HasDeals
    <3> HIDE DEF new
    <3>3. LedgerBuy(new) = [seg |-> seg, order |-> order]
      BY <3>1, <3>2, Zenon DEF LedgerBuy, Ledger!Closed
    <3> QED
      BY <1>3, <3>3 DEF new
  <2>2. [oldb[n] EXCEPT !.order = order] = [seg |-> seg, order |-> order]
    BY <1>3 DEF LedgerBuy
  <2> HIDE DEF order
  <2>3. newb[n] = [oldb[n] EXCEPT !.order = order]
    BY <1>3, <2>1, <2>2
  <2>4. \A i \in DOMAIN brows : i # n => newb[i] = oldb[i]
    BY <1>3
  <2>5. DOMAIN newb = DOMAIN oldb /\ n \in DOMAIN oldb
    BY <1>3
  <2>6. newb = [i \in DOMAIN oldb |-> newb[i]]
    BY <1>3
  <2> HIDE DEF newb
  <2>7. \A i \in DOMAIN oldb : newb[i] = [oldb EXCEPT ![n].order = order][i]
    BY <2>3, <2>4, <2>5
  <2>8. newb = [i \in DOMAIN oldb |-> [oldb EXCEPT ![n].order = order][i]]
    BY <2>6, <2>7
  <2> HIDE DEF oldb
  <2> QED
    BY <2>8
<1> DEFINE olds == [i \in DOMAIN rows |-> LedgerSale(rows[i])]
           news == [i \in DOMAIN work.sale_tx |-> LedgerSale(work.sale_tx[i])]
           Turn_(i) == IF deals /\ i \in Ledger!Unspent(seg)
                       THEN [olds[i] EXCEPT
                               !.order.spent = @ + Ledger!Pays(i, amount)]
                       ELSE olds[i]
<1>6. ASSUME NEW i \in DOMAIN rows PROVE news[i] = Turn_(i)
  <2> DEFINE old == rows[i]  new == work.sale_tx[i]
             paid == Paid(rows, seg, amount, i)
  <2>1. news[i] = LedgerSale(new) /\ olds[i] = LedgerSale(old)
    BY <1>3
  <2>2. i \in Ledger!Unspent(seg) <=> i \in Asked(rows, seg)
    BY LedgerUnspent
  <2>3. old \in SaleRows /\ GoodRows(rows)
    BY RowOfTable DEF IInv, GoodRows, RowsOK, Tables
  <2>4. CASE i \notin Asked(rows, seg)
    BY <1>1, <2>1, <2>2, <2>4 DEF BuySpent
  <2>5. CASE i \in Asked(rows, seg) /\ ~ deals
    <3>1. work.sale_tx = rows
      BY <1>1, <1>4, <2>5 DEF BuySpent
    <3> QED
      BY <2>1, <2>5, <3>1
  <2>6. CASE i \in Asked(rows, seg) /\ deals
    <3>1. Ledger!Pays(i, amount) = paid
      <4>1. rows[i].seg_id = seg /\ amount \in Int
        BY <1>4, <2>6 DEF Asked
      <4> HIDE DEF amount, seg
      <4> QED
        BY <4>1, LedgerPays
    <3>2. PaysOut(old, new, paid)
      <4>1. CASE Spends(txn.tx)
        BY <1>1, <2>6, <4>1 DEF BuySpent
      <4>2. CASE ~ Spends(txn.tx)
        <5>1. work.sale_tx = rows
          BY <1>1, <4>2 DEF BuySpent
        <5>2. amount <= 0 /\ amount \in Int
          BY <1>4, <2>6, <4>2 DEF Spends
        <5>3. paid = 0
          <6> HIDE DEF amount, seg
          <6> QED
            BY <2>3, <5>2, PaidInt
        <5> QED
          BY <2>3, <5>1, <5>3 DEF PaysOut, SaleRows
      <4> QED
        BY <4>1, <4>2
    <3>3. paid \in Int
      <4>1. amount \in Int
        BY <1>4
      <4> HIDE DEF amount, seg
      <4> QED
        BY <2>3, <4>1, PaidInt
    <3>4. LedgerSale(new) = [LedgerSale(old) EXCEPT !.order.spent = @ + paid]
      <4> HIDE DEF paid, old, new
      <4> QED
        BY <2>3, <3>2, <3>3, LedgerPaysOut DEF old
    <3> HIDE DEF olds, news, amount, deals, paid, old, new
    <3> QED
      BY <2>1, <2>2, <2>6, <3>1, <3>4
  <2> QED
    BY <2>4, <2>5, <2>6
<1>7. ~ oldb[n].order.closed
  BY <1>3 DEF LedgerBuy
<1>8. /\ amount \in {r.amount : r \in Results}
                     \cup {r.amount - r.fee : r \in Results}
      /\ deals \in BOOLEAN
  BY <1>4 DEF HasDeals
<1>9. news = [i \in DOMAIN olds |-> Turn_(i)]
  <2>1. DOMAIN news = DOMAIN rows /\ DOMAIN olds = DOMAIN rows
    BY <1>3
  <2>2. news = [i \in DOMAIN news |-> news[i]]
    OBVIOUS
  <2> HIDE DEF news, olds, Turn_
  <2> QED
    BY <1>6, <2>1, <2>2
<1>10. Ledger!CloseBuy(n, amount, deals)
  <2>1. /\ [i \in DOMAIN db'.sale_tx |-> LedgerSale(db'.sale_tx[i])] = news
        /\ [i \in DOMAIN db'.buy_tx |-> LedgerBuy(db'.buy_tx[i])] = newb
    BY <1>1
  <2>2. oldb[n].seg = seg
    BY <1>3 DEF LedgerBuy
  <2> HIDE DEF news, newb, amount, deals, order
  <2> QED
    BY <1>5, <1>7, <1>9, <2>1, <2>2, Zenon DEF Ledger!CloseBuy, order
<1> HIDE DEF amount, deals
<1>11. n \in DOMAIN [i \in DOMAIN db.buy_tx |-> LedgerBuy(db.buy_tx[i])]
  BY <1>3
<1> QED
  BY <1>8, <1>10, <1>11 DEF Ledger!Next

LEMMA LedgerInit == DbInit => Ledger!Init
BY DEF DbInit, Ledger!Init

(* Every other step is none of the ledger's.                               *)
LEMMA LedgerStep ==
  IInv /\ WInv /\ [DbNext]_dbvars => [Ledger!Next]_(Ledger!vars)
<1> SUFFICES ASSUME IInv, WInv, [DbNext]_dbvars
             PROVE  [Ledger!Next]_(Ledger!vars)
  OBVIOUS
<1>1. CASE NewSale \/ NewBuy
  BY <1>1, InsertLedger
<1>2. CASE Commit
  <2>1. txn.op = "sale" \/ txn.op = "buy"
    BY <1>2 DEF IInv, TxnOK, Commit
  <2> QED
    BY <1>2, <2>1, CommitSaleLedger, CommitBuyLedger
<1>3. CASE db' = db
  BY <1>3 DEF Ledger!vars
<1>4. \/ NewSale \/ NewBuy \/ Commit
      \/ db' = db
  BY DEF DbNext, Statement, CloseSale, CloseBuy, begin_deliver_sale,
     begin_deliver_buy, update_sale_tx, insert_sale_history, update_buy_tx,
     insert_buy_history, select_unspent, use_sale_tx, Rollback, dbvars
<1> QED
  BY <1>1, <1>2, <1>3, <1>4

-----------------------------------------------------------------------------
(* The theorems.                                                           *)

(* An open transaction has written what it should, statement by statement, *)
(* up to the step it has reached.                                          *)
THEOREM WrittenInvariance == DbSpec => []WInv
BY InitWInv, NextWInv, Invariance, PTL DEF DbSpec

(* The statements of deliver_sale_tx and deliver_buy_tx, the reads on      *)
(* another connection, the failures and the rollbacks implement the ledger *)
(* of the segments, for every set of segments, results and sizes: each     *)
(* closing takes effect at once, and a buy spends the proceeds of its own  *)
(* segment, oldest sale first.                                             *)
THEOREM ImplementsLedger == DbSpec => LedgerSpec
<1>1. LedgerSpec <=> Ledger!Init /\ [][Ledger!Next]_(Ledger!vars)
  BY DEF LedgerSpec, Ledger!Spec
<1> QED
  BY <1>1, LedgerInit, LedgerStep, Invariance, WrittenInvariance, PTL
  DEF DbSpec

=============================================================================

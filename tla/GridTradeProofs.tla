---------------------------- MODULE GridTradeProofs ----------------------------
(***************************************************************************)
(* A segment never has two open orders in the database, for every grid,    *)
(* every market and any number of orders and failures.                     *)
(***************************************************************************)
EXTENDS GridProperties, SequenceTheorems, TLAPS

-----------------------------------------------------------------------------
(* The inductive invariant: the tables.                                    *)

IsTable(q) ==
  /\ Len(q) \in Nat /\ DOMAIN q = 1 .. Len(q)
  /\ q = [i \in 1 .. Len(q) |-> q[i]]

SaleShape(row) ==
  /\ {"seg_id", "order_id", "deal_number", "deal_amount", "status",
      "use_status"} \subseteq DOMAIN row
  /\ row.seg_id \in Segs
  /\ row.status = db_tx_processing => row.use_status = db_tx_unused

BuyShape(row) ==
  /\ {"seg_id", "order_id", "deal_number", "deal_amount", "status"}
       \subseteq DOMAIN row
  /\ row.seg_id \in Segs

(* What the proof needs of a record of tables; the columns of numbers may  *)
(* hold anything.                                                          *)
DbShape(t) ==
  /\ t = [sale_tx |-> t.sale_tx, buy_tx |-> t.buy_tx,
          sale_history |-> t.sale_history, buy_history |-> t.buy_history]
  /\ IsTable(t.sale_tx) /\ IsTable(t.buy_tx)
  /\ \A i \in DOMAIN t.sale_tx : SaleShape(t.sale_tx[i])
  /\ \A i \in DOMAIN t.buy_tx : BuyShape(t.buy_tx[i])

(* Rows q are rows p, some of them closed.                                 *)
ClosesOnly(p, q) ==
  /\ DOMAIN q = DOMAIN p
  /\ \A i \in DOMAIN p : /\ q[i].seg_id = p[i].seg_id
                         /\ q[i].order_id = p[i].order_id
  /\ \A i \in DOMAIN p : q[i].status = db_tx_processing =>
                           p[i].status = db_tx_processing

TxnShape ==
  /\ txn = [op |-> txn.op, step |-> txn.step, tx |-> txn.tx,
            list |-> txn.list, remain |-> txn.remain]
  /\ txn.op \in {"none", "sale", "buy"}
  /\ txn.op = "none" => work = db
  /\ txn.op = "sale" => /\ txn.tx.id \in DOMAIN db.sale_tx
                        /\ txn.tx.status # db_tx_processing
                        /\ txn.tx.use_status = db_tx_unused
  /\ txn.op = "buy" => /\ txn.tx.id \in DOMAIN db.buy_tx
                       /\ txn.tx.status # db_tx_processing
                       /\ txn.step = "use" => txn.list \subseteq delivered_sale_array

(* A transaction only closes rows.                                         *)
DbInv ==
  /\ DbShape(db) /\ DbShape(work)
  /\ ClosesOnly(db.sale_tx, work.sale_tx)
  /\ ClosesOnly(db.buy_tx, work.buy_tx)
  /\ TxnShape

-----------------------------------------------------------------------------
(* The inductive invariant: the loop.                                      *)

Settling == pc \in {"settle", "cancel", "deliver"}
Placing  == pc \in {"scan", "call"}

(* The lists of a round are rows of the tables, and only "deliver" has a   *)
(* transaction open.                                                       *)
ListInv ==
  /\ side \in Sides
  /\ pc \in {"new_sale", "new_buy", "timer", "down"} => side = "sale"
  /\ txn.op # "none" => pc = "deliver"
  /\ sellings \subseteq DOMAIN db.sale_tx /\ buyings \subseteq DOMAIN db.buy_tx
  /\ Settling => todo \subseteq DOMAIN Table

(* No order is opened between the two queries and the end of settling.     *)
SeenInv ==
  /\ pc = "new_buy" \/ Settling => OpenSales \subseteq sellings
  /\ Settling => OpenBuys \subseteq buyings

HighEnough(s) == price.bid >= SalePrice[s]
LowEnough(s)  == price.ask <= BuyPrice[s]

(* The loop has passed segment s, and is not just placing an order there.  *)
Passed(s) == s \notin todo /\ (pc = "call" => s # call.req.seg)

(* The segments of the open rows: those of the lists, and those the loops  *)
(* have come by since, which the quote tells apart.                        *)
SalesInv ==
  \A i \in OpenSales :
    LET s == db.sale_tx[i].seg_id IN
    /\ pc \in {"price", "sold"} => s \in dealing_segs
    /\ Placing => \/ s \in dealing_segs
                  \/ HighEnough(s) /\ (side = "sale" => Passed(s))

BuysInv ==
  \A j \in OpenBuys :
    LET s == db.buy_tx[j].seg_id IN
    /\ pc \in {"price", "sold"} => s \in dealing_segs
    /\ Placing => \/ s \in dealing_segs
                  \/ side = "buy" /\ LowEnough(s) /\ Passed(s)

(* What the loops ask of a segment before they place an order there.       *)
CallInv ==
  /\ pc = "sold" \/ Placing => price \in Quotes
  /\ Placing => todo \subseteq Segs
  /\ pc = "call" =>
       /\ call = [step |-> call.step, req |-> call.req, id |-> call.id]
       /\ call.req.seg \in Segs \ (dealing_segs \cup todo)
       /\ IF side = "sale" THEN HighEnough(call.req.seg)
                           ELSE LowEnough(call.req.seg)

IInv ==
  /\ DbInv
  /\ ListInv /\ SeenInv
  /\ SalesInv /\ BuysInv /\ CallInv
  /\ OnePendingPerSegment

-----------------------------------------------------------------------------
(* Facts about tables.                                                     *)

LEMMA TableIsSeq ==
  ASSUME NEW q, IsTable(q), NEW S, \A i \in DOMAIN q : q[i] \in S
  PROVE  q \in Seq(S)
<1>1. q \in [1 .. Len(q) -> S]
  BY DEF IsTable
<1> QED
  BY <1>1, SeqDef DEF IsTable

(* A table with a row appended.                                            *)
LEMMA AppendRow ==
  ASSUME NEW q, IsTable(q), NEW row
  PROVE  /\ IsTable(Append(q, row))
         /\ DOMAIN Append(q, row) = DOMAIN q \cup {Len(q) + 1}
         /\ Len(q) + 1 \notin DOMAIN q
         /\ Append(q, row)[Len(q) + 1] = row
         /\ \A i \in DOMAIN q : Append(q, row)[i] = q[i]
<1> DEFINE r == Append(q, row)
           S == {q[i] : i \in DOMAIN q} \cup {row}
<1>1. q \in Seq(S)
  BY TableIsSeq
<1>2. row \in S
  OBVIOUS
<1> HIDE DEF S
<1>3. /\ r \in Seq(S) /\ Len(r) = Len(q) + 1
      /\ \A i \in 1 .. Len(q) : r[i] = q[i]
      /\ r[Len(q) + 1] = row
  BY <1>1, <1>2
<1> HIDE DEF r
<1>4. r \in [1 .. Len(r) -> S] /\ Len(r) \in Nat
  BY <1>3, LenProperties
<1>5. DOMAIN r = 1 .. Len(r) /\ r = [i \in 1 .. Len(r) |-> r[i]]
  BY <1>4
<1>6. Len(q) \in Nat /\ DOMAIN q = 1 .. Len(q)
  BY DEF IsTable
<1>7. 1 .. Len(q) + 1 = 1 .. Len(q) \cup {Len(q) + 1} /\ Len(q) + 1 \notin 1 .. Len(q)
  BY <1>6
<1>8. IsTable(r)
  BY <1>4, <1>5 DEF IsTable
<1>9. DOMAIN r = DOMAIN q \cup {Len(q) + 1} /\ Len(q) + 1 \notin DOMAIN q
  BY <1>3, <1>5, <1>6, <1>7
<1> QED
  BY <1>3, <1>6, <1>8, <1>9 DEF r

(* A table with a row replaced.                                            *)
LEMMA SetRow ==
  ASSUME NEW q, IsTable(q), NEW i \in DOMAIN q, NEW row, NEW r,
         r = [q EXCEPT ![i] = row]
  PROVE  /\ IsTable(r)
         /\ DOMAIN r = DOMAIN q
         /\ r[i] = row
         /\ \A j \in DOMAIN q : j # i => r[j] = q[j]
<1>1. DOMAIN r = DOMAIN q /\ r[i] = row
      /\ \A j \in DOMAIN q : j # i => r[j] = q[j]
  BY DEF IsTable
<1>2. Len(q) \in Nat /\ DOMAIN q = 1 .. Len(q)
  BY DEF IsTable
<1>3. r = [j \in 1 .. Len(q) |-> r[j]]
  BY <1>1, <1>2
<1>4. Len(r) = Len(q)
  BY <1>2, <1>3
<1> QED
  BY <1>1, <1>2, <1>3, <1>4 DEF IsTable

-----------------------------------------------------------------------------
(* The steps of the database.                                              *)

Closes(t, u) == /\ ClosesOnly(t.sale_tx, u.sale_tx)
                /\ ClosesOnly(t.buy_tx, u.buy_tx)

LEMMA UpdateSale ==
  ASSUME DbInv, update_sale_tx
  PROVE  DbInv' /\ UNCHANGED db
<1> DEFINE n == txn.tx.id
           q == work.sale_tx
           r == work'.sale_tx
           old == q[n]
<1>1. /\ IsTable(q) /\ n \in DOMAIN q
      /\ SaleShape(old) /\ \A i \in DOMAIN q : SaleShape(q[i])
      /\ txn.op = "sale" /\ txn.tx.status # db_tx_processing
  BY DEF DbInv, DbShape, TxnShape, update_sale_tx, ClosesOnly
<1>2. PICK row : /\ row = [old EXCEPT !.deal_number = txn.tx.deal_number,
                                     !.deal_price = txn.tx.deal_price,
                                     !.deal_fee = txn.tx.deal_fee,
                                     !.deal_amount = txn.tx.deal_amount,
                                     !.used_buy_amount = txn.tx.used_buy_amount,
                                     !.free_buy_amount = txn.tx.free_buy_amount,
                                     !.valid_sale_number = txn.tx.valid_sale_number,
                                     !.status = txn.tx.status,
                                     !.use_status = txn.tx.use_status]
                 /\ work' = [work EXCEPT !.sale_tx[n] = row]
  BY DEF update_sale_tx
<1>3. /\ r = [q EXCEPT ![n] = row]
      /\ work' = [sale_tx |-> r, buy_tx |-> work.buy_tx,
                  sale_history |-> work.sale_history,
                  buy_history |-> work.buy_history]
  BY <1>2 DEF DbInv, DbShape
<1>4. SaleShape(row) /\ row.status # db_tx_processing
      /\ row.seg_id = old.seg_id /\ row.order_id = old.order_id
  BY <1>1, <1>2 DEF SaleShape
<1>5. /\ IsTable(r) /\ DOMAIN r = DOMAIN q /\ r[n] = row
      /\ \A j \in DOMAIN q : j # n => r[j] = q[j]
  <2> HIDE DEF q, r, n
  <2> QED
    BY <1>1, <1>3, SetRow
<1>6. \A i \in DOMAIN r : SaleShape(r[i])
  BY <1>1, <1>4, <1>5
<1>7. DbShape(work')
  BY <1>3, <1>5, <1>6 DEF DbInv, DbShape
<1>8. ClosesOnly(db.sale_tx, r)
  BY <1>1, <1>4, <1>5 DEF DbInv, ClosesOnly
<1>9. txn' = [txn EXCEPT !.step = "history"] /\ db' = db
  BY DEF update_sale_tx
<1>10. TxnShape'
  BY <1>1, <1>9 DEF DbInv, TxnShape, delivered_sale_array
<1> QED
  BY <1>3, <1>7, <1>8, <1>9, <1>10 DEF DbInv

LEMMA UpdateBuy ==
  ASSUME DbInv, update_buy_tx
  PROVE  DbInv' /\ UNCHANGED db
<1> DEFINE n == txn.tx.id
           q == work.buy_tx
           r == work'.buy_tx
           old == q[n]
<1>1. /\ IsTable(q) /\ n \in DOMAIN q
      /\ BuyShape(old) /\ \A i \in DOMAIN q : BuyShape(q[i])
      /\ txn.op = "buy" /\ txn.tx.status # db_tx_processing
  BY DEF DbInv, DbShape, TxnShape, update_buy_tx, ClosesOnly
<1>2. PICK row : /\ row = [old EXCEPT !.deal_number = txn.tx.deal_number,
                                     !.deal_fee = txn.tx.deal_fee,
                                     !.deal_amount = txn.tx.deal_amount,
                                     !.status = txn.tx.status]
                 /\ work' = [work EXCEPT !.buy_tx[n] = row]
  BY DEF update_buy_tx
<1>3. /\ r = [q EXCEPT ![n] = row]
      /\ work' = [sale_tx |-> work.sale_tx, buy_tx |-> r,
                  sale_history |-> work.sale_history,
                  buy_history |-> work.buy_history]
  BY <1>2 DEF DbInv, DbShape
<1>4. BuyShape(row) /\ row.status # db_tx_processing
      /\ row.seg_id = old.seg_id /\ row.order_id = old.order_id
  BY <1>1, <1>2 DEF BuyShape
<1>5. /\ IsTable(r) /\ DOMAIN r = DOMAIN q /\ r[n] = row
      /\ \A j \in DOMAIN q : j # n => r[j] = q[j]
  <2> HIDE DEF q, r, n
  <2> QED
    BY <1>1, <1>3, SetRow
<1>6. \A i \in DOMAIN r : BuyShape(r[i])
  BY <1>1, <1>4, <1>5
<1>7. DbShape(work')
  BY <1>3, <1>5, <1>6 DEF DbInv, DbShape
<1>8. ClosesOnly(db.buy_tx, r)
  BY <1>1, <1>4, <1>5 DEF DbInv, ClosesOnly
<1>9. txn' = [txn EXCEPT !.step = "history"] /\ db' = db
  BY DEF update_buy_tx
<1>10. TxnShape'
  BY <1>1, <1>9 DEF DbInv, TxnShape, delivered_sale_array
<1> QED
  BY <1>3, <1>7, <1>8, <1>9, <1>10 DEF DbInv

(* Only the order tables matter here.                                      *)
LEMMA InsertHistory ==
  ASSUME DbInv, insert_sale_history \/ insert_buy_history
  PROVE  DbInv' /\ UNCHANGED db
<1>1. CASE insert_sale_history
  <2>1. /\ work' = [work EXCEPT !.sale_history = work'.sale_history]
        /\ txn' = [txn EXCEPT !.step = "commit"] /\ db' = db
        /\ txn.op = "sale"
    BY <1>1 DEF insert_sale_history, DbInv, DbShape
  <2>2. work' = [sale_tx |-> work.sale_tx, buy_tx |-> work.buy_tx,
                 sale_history |-> work'.sale_history,
                 buy_history |-> work.buy_history]
    BY <2>1 DEF DbInv, DbShape
  <2>3. DbShape(work')
    BY <2>2 DEF DbInv, DbShape
  <2>4. TxnShape'
    BY <2>1 DEF DbInv, TxnShape, delivered_sale_array
  <2> QED
    BY <2>1, <2>2, <2>3, <2>4 DEF DbInv
<1>2. CASE insert_buy_history
  <2>1. /\ work' = [work EXCEPT !.buy_history = work'.buy_history]
        /\ txn' = [txn EXCEPT !.step = txn'.step]
        /\ txn'.step \in {"select", "commit"}
        /\ db' = db /\ txn.op = "buy"
    BY <1>2 DEF insert_buy_history, DbInv, DbShape, TxnShape
  <2>2. work' = [sale_tx |-> work.sale_tx, buy_tx |-> work.buy_tx,
                 sale_history |-> work.sale_history,
                 buy_history |-> work'.buy_history]
    BY <2>1 DEF DbInv, DbShape
  <2>3. DbShape(work')
    BY <2>2 DEF DbInv, DbShape
  <2>4. TxnShape'
    BY <2>1 DEF DbInv, TxnShape, delivered_sale_array
  <2> QED
    BY <2>1, <2>2, <2>3, <2>4 DEF DbInv
<1> QED
  BY <1>1, <1>2

LEMMA SelectUnspent ==
  ASSUME DbInv, select_unspent
  PROVE  DbInv' /\ UNCHANGED db
<1>1. PICK list : /\ list \subseteq delivered_sale_array
                  /\ txn' = [txn EXCEPT !.list = list,
                               !.remain = txn.tx.deal_amount,
                               !.step = IF list = {} THEN "commit" ELSE "use"]
  BY DEF select_unspent
<1>2. work' = work /\ db' = db /\ txn.op = "buy"
  BY DEF select_unspent
<1>3. TxnShape'
  BY <1>1, <1>2 DEF DbInv, TxnShape, delivered_sale_array
<1> QED
  BY <1>2, <1>3 DEF DbInv

LEMMA UseSale ==
  ASSUME DbInv, use_sale_tx
  PROVE  DbInv' /\ UNCHANGED db
<1> DEFINE new(i) == Spend(db.sale_tx[i], txn.remain)
           remain(i) == txn.remain - db.sale_tx[i].free_buy_amount
           step(i) == IF StillToPay(remain(i), txn.list \ {i}) THEN "use"
                                                               ELSE "commit"
<1>1. PICK i \in txn.list :
        /\ work' = [work EXCEPT !.sale_tx[i] =
             [@ EXCEPT !.used_buy_amount = new(i).used_buy_amount,
                       !.free_buy_amount = new(i).free_buy_amount,
                       !.valid_sale_number = new(i).valid_sale_number,
                       !.use_status = new(i).use_status]]
        /\ txn' = [txn EXCEPT !.list = txn.list \ {i}, !.remain = remain(i),
                              !.step = step(i)]
  BY DEF use_sale_tx
<1> HIDE DEF new, remain, step
<1>2. txn.op = "buy" /\ txn.step = "use" /\ db' = db
  BY DEF use_sale_tx
<1> DEFINE q == work.sale_tx
           r == work'.sale_tx
           old == q[i]
<1>3. /\ IsTable(q) /\ i \in DOMAIN q
      /\ SaleShape(old) /\ \A j \in DOMAIN q : SaleShape(q[j])
      /\ old.status # db_tx_processing
  BY <1>2 DEF DbInv, DbShape, TxnShape, ClosesOnly, delivered_sale_array, Unspent,
              db_tx_processing, db_tx_complet_closed, db_tx_portion_closed
<1>4. PICK row : /\ row = [old EXCEPT !.used_buy_amount = new(i).used_buy_amount,
                                     !.free_buy_amount = new(i).free_buy_amount,
                                     !.valid_sale_number = new(i).valid_sale_number,
                                     !.use_status = new(i).use_status]
                 /\ work' = [work EXCEPT !.sale_tx[i] = row]
  BY <1>1
<1>5. /\ r = [q EXCEPT ![i] = row]
      /\ work' = [sale_tx |-> r, buy_tx |-> work.buy_tx,
                  sale_history |-> work.sale_history,
                  buy_history |-> work.buy_history]
  BY <1>4 DEF DbInv, DbShape
<1>6. SaleShape(row) /\ row.status # db_tx_processing
      /\ row.seg_id = old.seg_id /\ row.order_id = old.order_id
  BY <1>3, <1>4 DEF SaleShape
<1>7. /\ IsTable(r) /\ DOMAIN r = DOMAIN q /\ r[i] = row
      /\ \A j \in DOMAIN q : j # i => r[j] = q[j]
  <2> HIDE DEF q, r
  <2> QED
    BY <1>3, <1>5, SetRow
<1>8. \A j \in DOMAIN r : SaleShape(r[j])
  BY <1>3, <1>6, <1>7
<1>9. DbShape(work')
  BY <1>5, <1>7, <1>8 DEF DbInv, DbShape
<1>10. ClosesOnly(db.sale_tx, r)
  BY <1>3, <1>6, <1>7 DEF DbInv, ClosesOnly
<1>11. TxnShape'
  BY <1>1, <1>2 DEF DbInv, TxnShape, delivered_sale_array
<1> QED
  BY <1>2, <1>5, <1>9, <1>10, <1>11 DEF DbInv

LEMMA StatementSafe ==
  ASSUME DbInv, Statement
  PROVE  DbInv' /\ UNCHANGED db
BY UpdateSale, UpdateBuy, InsertHistory, SelectUnspent, UseSale DEF Statement

LEMMA EmptyTxn ==
  ASSUME DbInv, txn' = NoTxn, work' = db', DbShape(db')
  PROVE  DbInv'
BY DEF DbInv, TxnShape, NoTxn, ClosesOnly

LEMMA CommitSafe ==
  ASSUME DbInv, Commit
  PROVE  DbInv' /\ Closes(db, db')
BY EmptyTxn DEF Commit, DbInv, Closes

LEMMA RollbackSafe ==
  ASSUME DbInv, Rollback
  PROVE  DbInv' /\ UNCHANGED db
BY EmptyTxn DEF Rollback, DbInv

LEMMA BeginSafe ==
  ASSUME DbInv, NEW id, NEW res, res.status # order_processing,
         \/ begin_deliver_sale(id, res) /\ id \in DOMAIN db.sale_tx
         \/ begin_deliver_buy(id, res) /\ id \in DOMAIN db.buy_tx
  PROVE  DbInv' /\ UNCHANGED db
<1>1. work' = work /\ db' = db
  BY DEF begin_deliver_sale, begin_deliver_buy
<1>2. CASE begin_deliver_sale(id, res) /\ id \in DOMAIN db.sale_tx
  <2>1. /\ txn' = [NoTxn EXCEPT !.op = "sale", !.step = "update",
                                !.tx = complete_sale_order(id, res)]
        /\ txn.op = "none"
    BY <1>2 DEF begin_deliver_sale
  <2>2. TxnShape'
    BY <1>1, <1>2, <2>1 DEF DbInv, TxnShape, NoTxn, complete_sale_order,
                           order_processing, db_tx_processing
  <2> QED
    BY <1>1, <2>2 DEF DbInv
<1>3. CASE begin_deliver_buy(id, res) /\ id \in DOMAIN db.buy_tx
  <2>1. /\ txn' = [NoTxn EXCEPT !.op = "buy", !.step = "update",
                                !.tx = complete_buy_order(id, res)]
        /\ txn.op = "none"
    BY <1>3 DEF begin_deliver_buy
  <2>2. TxnShape'
    BY <1>1, <1>3, <2>1 DEF DbInv, TxnShape, NoTxn, complete_buy_order,
                           order_processing, db_tx_processing
  <2> QED
    BY <1>1, <2>2 DEF DbInv
<1> QED
  BY <1>2, <1>3

(* A row is added to one of the tables, and the other stays.               *)
AddsRow(p, q, n, seg, oid) ==
  /\ n \notin DOMAIN p /\ DOMAIN q = DOMAIN p \cup {n}
  /\ q[n].seg_id = seg /\ q[n].order_id = oid
  /\ \A i \in DOMAIN p : q[i] = p[i]

LEMMA AddSale ==
  ASSUME DbInv, NEW seg \in Segs, NEW oid, add_new_sale_tx(seg, oid)
  PROVE  /\ DbInv'
         /\ AddsRow(db.sale_tx, db'.sale_tx, Len(db.sale_tx) + 1, seg, oid)
         /\ db'.buy_tx = db.buy_tx /\ UNCHANGED txn
<1> DEFINE q == db.sale_tx
           r == db'.sale_tx
           n == Len(db.sale_tx) + 1
<1>1. PICK row : /\ row = NewSaleRow(seg, oid)
                 /\ db' = [db EXCEPT !.sale_tx = Append(@, row)]
  BY DEF add_new_sale_tx
<1>2. txn.op = "none" /\ txn' = txn /\ work' = db'
  BY DEF add_new_sale_tx
<1>3. /\ r = Append(q, row)
      /\ db' = [sale_tx |-> r, buy_tx |-> db.buy_tx,
                sale_history |-> db.sale_history,
                buy_history |-> db.buy_history]
  BY <1>1 DEF DbInv, DbShape
<1>4. SaleShape(row) /\ row.seg_id = seg /\ row.order_id = oid
  BY <1>1 DEF SaleShape, NewSaleRow
<1>5. IsTable(q) /\ \A i \in DOMAIN q : SaleShape(q[i])
  BY DEF DbInv, DbShape
<1>6. /\ IsTable(r) /\ DOMAIN r = DOMAIN q \cup {n} /\ n \notin DOMAIN q
      /\ r[n] = row /\ \A i \in DOMAIN q : r[i] = q[i]
  <2>0. r = Append(q, row) /\ IsTable(q)
    BY <1>3, <1>5
  <2> HIDE DEF q, r
  <2>1. /\ IsTable(Append(q, row))
        /\ DOMAIN Append(q, row) = DOMAIN q \cup {Len(q) + 1}
        /\ Len(q) + 1 \notin DOMAIN q
        /\ Append(q, row)[Len(q) + 1] = row
        /\ \A i \in DOMAIN q : Append(q, row)[i] = q[i]
    BY <2>0, AppendRow, Zenon
  <2>2. /\ IsTable(r) /\ DOMAIN r = DOMAIN q \cup {Len(q) + 1}
        /\ Len(q) + 1 \notin DOMAIN q /\ r[Len(q) + 1] = row
        /\ \A i \in DOMAIN q : r[i] = q[i]
    BY <2>0, <2>1, Zenon
  <2> QED
    BY <2>2 DEF q, r
<1> HIDE DEF n
<1>7. \A i \in DOMAIN r : SaleShape(r[i])
  BY <1>4, <1>5, <1>6
<1>8. DbShape(db')
  BY <1>3, <1>6, <1>7 DEF DbInv, DbShape
<1>9. TxnShape'
  BY <1>2 DEF DbInv, TxnShape
<1>10. DbInv'
  BY <1>2, <1>8, <1>9 DEF DbInv, ClosesOnly
<1> QED
  BY <1>2, <1>3, <1>4, <1>6, <1>10 DEF AddsRow, n

LEMMA AddBuy ==
  ASSUME DbInv, NEW seg \in Segs, NEW oid, NEW amount,
         add_new_buy_tx(seg, oid, amount)
  PROVE  /\ DbInv'
         /\ AddsRow(db.buy_tx, db'.buy_tx, Len(db.buy_tx) + 1, seg, oid)
         /\ db'.sale_tx = db.sale_tx /\ UNCHANGED txn
<1> DEFINE q == db.buy_tx
           r == db'.buy_tx
           n == Len(db.buy_tx) + 1
<1>1. PICK row : /\ row = NewBuyRow(seg, oid, amount)
                 /\ db' = [db EXCEPT !.buy_tx = Append(@, row)]
  BY DEF add_new_buy_tx
<1>2. txn.op = "none" /\ txn' = txn /\ work' = db'
  BY DEF add_new_buy_tx
<1>3. /\ r = Append(q, row)
      /\ db' = [sale_tx |-> db.sale_tx, buy_tx |-> r,
                sale_history |-> db.sale_history,
                buy_history |-> db.buy_history]
  BY <1>1 DEF DbInv, DbShape
<1>4. BuyShape(row) /\ row.seg_id = seg /\ row.order_id = oid
  BY <1>1 DEF BuyShape, NewBuyRow
<1>5. IsTable(q) /\ \A i \in DOMAIN q : BuyShape(q[i])
  BY DEF DbInv, DbShape
<1>6. /\ IsTable(r) /\ DOMAIN r = DOMAIN q \cup {n} /\ n \notin DOMAIN q
      /\ r[n] = row /\ \A i \in DOMAIN q : r[i] = q[i]
  <2>0. r = Append(q, row) /\ IsTable(q)
    BY <1>3, <1>5
  <2> HIDE DEF q, r
  <2>1. /\ IsTable(Append(q, row))
        /\ DOMAIN Append(q, row) = DOMAIN q \cup {Len(q) + 1}
        /\ Len(q) + 1 \notin DOMAIN q
        /\ Append(q, row)[Len(q) + 1] = row
        /\ \A i \in DOMAIN q : Append(q, row)[i] = q[i]
    BY <2>0, AppendRow, Zenon
  <2>2. /\ IsTable(r) /\ DOMAIN r = DOMAIN q \cup {Len(q) + 1}
        /\ Len(q) + 1 \notin DOMAIN q /\ r[Len(q) + 1] = row
        /\ \A i \in DOMAIN q : r[i] = q[i]
    BY <2>0, <2>1, Zenon
  <2> QED
    BY <2>2 DEF q, r
<1> HIDE DEF n
<1>7. \A i \in DOMAIN r : BuyShape(r[i])
  BY <1>4, <1>5, <1>6
<1>8. DbShape(db')
  BY <1>3, <1>6, <1>7 DEF DbInv, DbShape
<1>9. TxnShape'
  BY <1>2 DEF DbInv, TxnShape
<1>10. DbInv'
  BY <1>2, <1>8, <1>9 DEF DbInv, ClosesOnly
<1> QED
  BY <1>2, <1>3, <1>4, <1>6, <1>10 DEF AddsRow, n

-----------------------------------------------------------------------------
(* The steps of the loop, by what they do to the invariant.                *)

(* Closing rows opens none.                                                *)
LEMMA ClosingKeeps ==
  ASSUME DbInv, DbInv', Closes(db, db')
  PROVE  /\ DOMAIN db'.sale_tx = DOMAIN db.sale_tx
         /\ DOMAIN db'.buy_tx = DOMAIN db.buy_tx
         /\ OpenSales' \subseteq OpenSales /\ OpenBuys' \subseteq OpenBuys
         /\ \A i \in OpenSales : db'.sale_tx[i].seg_id = db.sale_tx[i].seg_id
         /\ \A j \in OpenBuys : db'.buy_tx[j].seg_id = db.buy_tx[j].seg_id
         /\ OnePendingPerSegment => OnePendingPerSegment'
<1>1. /\ DOMAIN db'.sale_tx = DOMAIN db.sale_tx
      /\ DOMAIN db'.buy_tx = DOMAIN db.buy_tx
  BY DEF Closes, ClosesOnly
<1>2. OpenSales' \subseteq OpenSales /\ OpenBuys' \subseteq OpenBuys
  BY <1>1 DEF Closes, ClosesOnly, OpenSales, OpenBuys
<1>3. /\ \A i \in OpenSales : db'.sale_tx[i].seg_id = db.sale_tx[i].seg_id
      /\ \A j \in OpenBuys : db'.buy_tx[j].seg_id = db.buy_tx[j].seg_id
  BY <1>1 DEF Closes, ClosesOnly, OpenSales, OpenBuys
<1>4. OnePendingPerSegment => OnePendingPerSegment'
  BY <1>2, <1>3 DEF OnePendingPerSegment
<1> QED
  BY <1>1, <1>2, <1>3, <1>4

LEMMA SameDb ==
  ASSUME DbInv, UNCHANGED dbvars
  PROVE  DbInv' /\ Closes(db, db')
BY DEF DbInv, DbShape, TxnShape, delivered_sale_array, dbvars, Closes, ClosesOnly

(* Between two rounds nothing is held.                                     *)
LEMMA RoundEnds ==
  ASSUME DbInv', OnePendingPerSegment', txn'.op = "none", side' = "sale",
         pc' \in {"timer", "down", "new_sale"},
         sellings' \subseteq DOMAIN db'.sale_tx,
         buyings' \subseteq DOMAIN db'.buy_tx
  PROVE  IInv'
BY DEF IInv, ListInv, SeenInv, SalesInv, BuysInv, CallInv, Settling, Placing, Sides

(* While settling rows are closed, and none is opened.                     *)
LEMMA SettlingGoesOn ==
  ASSUME IInv, Settling, Settling', DbInv', Closes(db, db'),
         txn'.op # "none" => pc' = "deliver",
         UNCHANGED <<sellings, buyings>>,
         \/ side' = side /\ todo' \subseteq todo
         \/ side' = "buy" /\ todo' \subseteq buyings
  PROVE  IInv'
<1>1. /\ DOMAIN db'.sale_tx = DOMAIN db.sale_tx
      /\ DOMAIN db'.buy_tx = DOMAIN db.buy_tx
      /\ OpenSales' \subseteq OpenSales /\ OpenBuys' \subseteq OpenBuys
      /\ OnePendingPerSegment'
  BY ClosingKeeps DEF IInv
<1>2. ListInv'
  BY <1>1 DEF IInv, ListInv, Settling, Table, Sides
<1>3. SeenInv'
  BY <1>1 DEF IInv, SeenInv, Settling
<1>4. SalesInv' /\ BuysInv' /\ CallInv'
  BY DEF SalesInv, BuysInv, CallInv, Settling, Placing
<1> QED
  BY <1>1, <1>2, <1>3, <1>4 DEF IInv

(* Nothing happens but at the exchange.                                    *)
LEMMA NothingMoves ==
  ASSUME IInv, UNCHANGED <<dbvars, gridvars, pc>>, UNCHANGED call
  PROVE  IInv'
<1>1. DbInv' /\ db' = db /\ txn' = txn
  BY SameDb DEF IInv, dbvars
<1>2. /\ pc' = pc /\ side' = side /\ todo' = todo /\ price' = price
      /\ sellings' = sellings /\ buyings' = buyings
      /\ dealing_segs' = dealing_segs
  BY DEF gridvars
<1>3. OpenSales' = OpenSales /\ OpenBuys' = OpenBuys
  BY <1>1 DEF OpenSales, OpenBuys
<1>4. ListInv' /\ SeenInv'
  BY <1>1, <1>2, <1>3 DEF IInv, ListInv, SeenInv, Settling, Table
<1>5. SalesInv' /\ BuysInv'
  BY <1>1, <1>2, <1>3 DEF IInv, SalesInv, BuysInv, Placing, HighEnough,
                         LowEnough, Passed
<1>6. CallInv'
  BY <1>2 DEF IInv, CallInv, Placing, HighEnough, LowEnough
<1>7. OnePendingPerSegment'
  BY <1>1, <1>3 DEF IInv, OnePendingPerSegment
<1> QED
  BY <1>1, <1>4, <1>5, <1>6, <1>7 DEF IInv

LEMMA Listing ==
  ASSUME IInv, GetNewSales \/ GetNewBuys \/ DealingSegs
  PROVE  IInv'
<1>1. UNCHANGED dbvars
  BY DEF GetNewSales, GetNewBuys, DealingSegs
<1>2. DbInv' /\ db' = db /\ txn' = txn
  BY <1>1, SameDb DEF IInv, dbvars
<1>3. /\ OpenSales' = OpenSales /\ OpenBuys' = OpenBuys
      /\ OnePendingPerSegment'
  BY <1>2 DEF IInv, OpenSales, OpenBuys, OnePendingPerSegment
<1>4. OpenSales \subseteq new_sale_array /\ OpenBuys = new_buy_array
  BY DEF IInv, DbInv, DbShape, SaleShape, OpenSales, OpenBuys, new_sale_array,
         new_buy_array
<1>5. /\ new_sale_array \subseteq DOMAIN db.sale_tx
      /\ new_buy_array \subseteq DOMAIN db.buy_tx
  BY DEF new_sale_array, new_buy_array
<1>6. txn.op = "none" /\ side \in Sides
  BY DEF IInv, ListInv, GetNewSales, GetNewBuys, DealingSegs
<1>7. CASE GetNewSales
  <2>1. /\ pc = "new_sale" /\ pc' = "new_buy" /\ side' = side
        /\ sellings' = new_sale_array /\ buyings' = buyings
    BY <1>7 DEF GetNewSales
  <2>2. ListInv' /\ SeenInv'
    BY <1>2, <1>3, <1>4, <1>5, <1>6, <2>1 DEF IInv, ListInv, SeenInv, Settling
  <2>3. SalesInv' /\ BuysInv' /\ CallInv'
    BY <2>1 DEF SalesInv, BuysInv, CallInv, Placing
  <2> QED
    BY <1>2, <1>3, <2>2, <2>3 DEF IInv
<1>8. CASE GetNewBuys
  <2>1. /\ pc = "new_buy" /\ pc' = "settle" /\ buyings' = new_buy_array
        /\ sellings' = sellings /\ todo' = sellings /\ side' = side
    BY <1>8 DEF GetNewBuys
  <2>2. side = "sale"
    BY <2>1 DEF IInv, ListInv
  <2>3. ListInv' /\ SeenInv'
    BY <1>2, <1>3, <1>4, <1>5, <1>6, <2>1, <2>2
       DEF IInv, ListInv, SeenInv, Settling, Table
  <2>4. SalesInv' /\ BuysInv' /\ CallInv'
    BY <2>1 DEF SalesInv, BuysInv, CallInv, Placing
  <2> QED
    BY <1>2, <1>3, <2>3, <2>4 DEF IInv
<1>9. CASE DealingSegs
  <2>1. /\ pc = "settle" /\ pc' = "price" /\ dealing_segs' = SegsOfLists
        /\ sellings' = {} /\ buyings' = {} /\ side' = "sale"
    BY <1>9 DEF DealingSegs
  <2>2. ListInv' /\ SeenInv'
    BY <1>2, <1>6, <2>1 DEF IInv, ListInv, SeenInv, Settling, Sides
  <2>3. OpenSales \subseteq sellings /\ OpenBuys \subseteq buyings
    BY <2>1 DEF IInv, SeenInv, Settling
  <2>4. SalesInv' /\ BuysInv'
    BY <1>2, <1>3, <2>1, <2>3 DEF SalesInv, BuysInv, SegsOfLists, Placing
  <2>5. CallInv'
    BY <2>1 DEF CallInv, Placing
  <2> QED
    BY <1>2, <1>3, <2>2, <2>4, <2>5 DEF IInv
<1> QED
  BY <1>7, <1>8, <1>9

Settles ==
  \/ BuyList \/ SettleClosed \/ SettleOpen \/ SettleExpired \/ SettleFails
  \/ Cancel \/ CancelThrows \/ CancelFails
  \/ Deliver \/ Delivered \/ NotDeliverable \/ DeliverFails

LEMMA SettlesSafe ==
  ASSUME IInv, Settles
  PROVE  IInv'
<1> DEFINE Lists == /\ UNCHANGED <<sellings, buyings>>
                    /\ \/ side' = side /\ todo' \subseteq todo
                       \/ side' = "buy" /\ todo' \subseteq buyings
           Step  == /\ DbInv' /\ Closes(db, db')
                    /\ txn'.op # "none" => pc' = "deliver"
<1>1. DbInv
  BY DEF IInv
<1>2. Settling /\ Settling'
  BY DEF Settles, BuyList, SettleClosed, SettleOpen, SettleExpired, SettleFails,
         Cancel, CancelThrows, CancelFails, Deliver, Delivered, NotDeliverable,
         DeliverFails, Settling, Continue, Goto, ThrowSettling
<1>3. Lists
  BY DEF Settles, BuyList, SettleClosed, SettleOpen, SettleExpired, SettleFails,
         Cancel, CancelThrows, CancelFails, Deliver, Delivered, NotDeliverable,
         DeliverFails, Continue, Goto, ThrowSettling, gridvars
<1>4. ASSUME UNCHANGED dbvars, pc # "deliver"
      PROVE  Step
  BY <1>1, <1>4, SameDb DEF IInv, ListInv, dbvars
<1>5. ASSUME db' = db
      PROVE  Closes(db, db')
  BY <1>5 DEF Closes, ClosesOnly
<1>6. Step
  <2>1. CASE SettleClosed
    <3>1. PICK i \in todo :
            /\ get_order_status(Table[i].order_id).status # order_processing
            /\ IF side = "sale"
               THEN begin_deliver_sale(i, get_order_status(Table[i].order_id))
               ELSE begin_deliver_buy(i, get_order_status(Table[i].order_id))
      BY <2>1 DEF SettleClosed
    <3>2. i \in DOMAIN Table /\ pc' = "deliver"
      BY <1>2, <2>1 DEF IInv, ListInv, SettleClosed, Goto
    <3>3. DbInv' /\ UNCHANGED db
      BY <1>1, <3>1, <3>2, BeginSafe DEF Table
    <3> QED
      BY <1>5, <3>2, <3>3
  <2>2. CASE Deliver
    BY <1>1, <1>5, <2>2, StatementSafe DEF Deliver
  <2>3. CASE Delivered \/ NotDeliverable \/ DeliverFails
    <3>1. Commit \/ Rollback
      BY <2>3 DEF Delivered, NotDeliverable, DeliverFails
    <3>2. txn'.op = "none"
      BY <3>1 DEF Commit, Rollback, NoTxn
    <3> QED
      BY <1>1, <1>5, <3>1, <3>2, CommitSafe, RollbackSafe
  <2>4. CASE \/ BuyList \/ SettleOpen \/ SettleExpired \/ SettleFails
             \/ Cancel \/ CancelThrows \/ CancelFails
    BY <1>4, <2>4 DEF BuyList, SettleOpen, SettleExpired, SettleFails, Cancel,
                     CancelThrows, CancelFails
  <2> QED
    BY <2>1, <2>2, <2>3, <2>4 DEF Settles
<1> QED
  BY <1>2, <1>3, <1>6, SettlingGoesOn

(* A row is recorded in a segment that has no open row.                    *)
LEMMA InsertRowSafe ==
  ASSUME IInv, pc = "call", InsertRow
  PROVE  /\ DbInv' /\ txn' = txn /\ OnePendingPerSegment'
         /\ DOMAIN db.sale_tx \subseteq DOMAIN db'.sale_tx
         /\ DOMAIN db.buy_tx \subseteq DOMAIN db'.buy_tx
         /\ \A i \in OpenSales' :
              \/ i \in OpenSales /\ db'.sale_tx[i].seg_id = db.sale_tx[i].seg_id
              \/ side = "sale" /\ db'.sale_tx[i].seg_id = call.req.seg
         /\ \A j \in OpenBuys' :
              \/ j \in OpenBuys /\ db'.buy_tx[j].seg_id = db.buy_tx[j].seg_id
              \/ side = "buy" /\ db'.buy_tx[j].seg_id = call.req.seg
<1> DEFINE s == call.req.seg
<1>1. /\ s \in Segs /\ s \notin dealing_segs /\ price \in Quotes
      /\ IF side = "sale" THEN HighEnough(s) ELSE LowEnough(s)
  BY DEF IInv, CallInv, Placing
<1>2. DbInv /\ OnePendingPerSegment /\ side \in {"sale", "buy"}
  BY DEF IInv, ListInv, Sides
<1>3. /\ \A i \in OpenSales : \/ db.sale_tx[i].seg_id \in dealing_segs
                             \/ /\ HighEnough(db.sale_tx[i].seg_id)
                                /\ side = "sale" => db.sale_tx[i].seg_id # s
      /\ \A j \in OpenBuys : \/ db.buy_tx[j].seg_id \in dealing_segs
                             \/ side = "buy" /\ db.buy_tx[j].seg_id # s
  <2> Placing /\ \A t : Passed(t) => t # s
    BY DEF Placing, Passed
  <2> QED
    BY DEF IInv, SalesInv, BuysInv
<1>4. ~ (HighEnough(s) /\ LowEnough(s))
  <2>1. /\ price.bid \in Nat /\ price.ask \in Nat /\ price.bid <= price.ask
        /\ SalePrice[s] \in Nat /\ BuyPrice[s] \in Nat
        /\ SalePrice[s] > BuyPrice[s]
    BY <1>1, QuotesAssumption, TacticsAssumption
  <2> QED
    BY <2>1 DEF HighEnough, LowEnough
<1>5. /\ \A i \in OpenSales : db.sale_tx[i].seg_id # s
      /\ \A j \in OpenBuys : db.buy_tx[j].seg_id # s
  BY <1>1, <1>2, <1>3, <1>4
<1>6. CASE side = "sale"
  <2>1. /\ DbInv' /\ AddsRow(db.sale_tx, db'.sale_tx, Len(db.sale_tx) + 1, s, call.id)
        /\ db'.buy_tx = db.buy_tx /\ txn' = txn
    BY <1>1, <1>2, <1>6, AddSale DEF InsertRow
  <2>2. \A i \in OpenSales' :
          \/ i \in OpenSales /\ db'.sale_tx[i].seg_id = db.sale_tx[i].seg_id
          \/ i = Len(db.sale_tx) + 1 /\ db'.sale_tx[i].seg_id = s
    BY <2>1 DEF AddsRow, OpenSales
  <2>3. OpenBuys' = OpenBuys
    BY <2>1 DEF OpenBuys
  <2>4. OnePendingPerSegment'
    BY <1>2, <1>5, <2>1, <2>2, <2>3 DEF OnePendingPerSegment
  <2>5. /\ DOMAIN db.sale_tx \subseteq DOMAIN db'.sale_tx
        /\ DOMAIN db.buy_tx \subseteq DOMAIN db'.buy_tx
    BY <2>1 DEF AddsRow
  <2> QED
    BY <1>6, <2>1, <2>2, <2>3, <2>4, <2>5
<1>7. CASE side = "buy"
  <2>1. /\ DbInv' /\ AddsRow(db.buy_tx, db'.buy_tx, Len(db.buy_tx) + 1, s, call.id)
        /\ db'.sale_tx = db.sale_tx /\ txn' = txn
    BY <1>1, <1>2, <1>7, AddBuy DEF InsertRow
  <2>2. \A j \in OpenBuys' :
          \/ j \in OpenBuys /\ db'.buy_tx[j].seg_id = db.buy_tx[j].seg_id
          \/ j = Len(db.buy_tx) + 1 /\ db'.buy_tx[j].seg_id = s
    BY <2>1 DEF AddsRow, OpenBuys
  <2>3. OpenSales' = OpenSales
    BY <2>1 DEF OpenSales
  <2>4. OnePendingPerSegment'
    BY <1>2, <1>5, <2>1, <2>2, <2>3 DEF OnePendingPerSegment
  <2>5. /\ DOMAIN db.sale_tx \subseteq DOMAIN db'.sale_tx
        /\ DOMAIN db.buy_tx \subseteq DOMAIN db'.buy_tx
    BY <2>1 DEF AddsRow
  <2> QED
    BY <1>7, <2>1, <2>2, <2>3, <2>4, <2>5
<1> QED
  BY <1>2, <1>6, <1>7

Ends ==
  \/ QueryFails \/ Asleep \/ PriceFails \/ EndRound \/ CallThrows
  \/ InsertFails \/ Timer \/ Crash \/ Restart

LEMMA EndsSafe ==
  ASSUME IInv, Ends
  PROVE  IInv'
<1>1. /\ pc' \in {"timer", "down", "new_sale"} /\ side' = "sale"
      /\ sellings' \subseteq sellings /\ buyings' \subseteq buyings
  BY DEF Ends, QueryFails, Asleep, PriceFails, EndRound, CallThrows, InsertFails,
         Timer, Crash, Restart, ThrowRound, RoundOver, gridvars, IInv, ListInv
<1>2. CASE \/ QueryFails \/ Asleep \/ PriceFails \/ EndRound \/ CallThrows
           \/ Timer \/ Restart \/ (InsertFails /\ UNCHANGED dbvars)
           \/ (Crash /\ txn.op = "none")
  <2>1. UNCHANGED dbvars /\ txn.op = "none"
    BY <1>2 DEF QueryFails, Asleep, PriceFails, EndRound, LoopEnds, CallThrows,
                InsertFails, Timer, Crash, Restart, IInv, ListInv
  <2>2. DbInv' /\ Closes(db, db') /\ txn' = txn
    BY <2>1, SameDb DEF IInv, dbvars
  <2> QED
    BY <1>1, <2>1, <2>2, ClosingKeeps, RoundEnds DEF IInv, ListInv
<1>3. CASE InsertFails /\ InsertRow
  <2>1. pc = "call" /\ txn.op = "none"
    BY <1>3 DEF InsertFails, IInv, ListInv
  <2> QED
    BY <1>1, <1>3, <2>1, InsertRowSafe, RoundEnds DEF IInv, ListInv
<1>4. CASE Crash /\ txn.op # "none"
  <2>1. Rollback /\ txn'.op = "none"
    BY <1>4 DEF Crash, Rollback, NoTxn
  <2>2. DbInv' /\ Closes(db, db')
    BY <2>1, RollbackSafe DEF IInv, Closes, ClosesOnly
  <2> QED
    BY <1>1, <2>1, <2>2, ClosingKeeps, RoundEnds DEF IInv, ListInv
<1> QED
  BY <1>2, <1>3, <1>4 DEF Ends, InsertFails

(* A loop over the segments starts, or stops at one of them; no row        *)
(* changes.                                                                *)
Scans == QueryPrice \/ GetSold \/ StartBuying \/ PlaceSale \/ PlaceBuy

LEMMA ScansSafe ==
  ASSUME IInv, Scans
  PROVE  IInv'
<1>1. /\ UNCHANGED dbvars /\ txn.op = "none"
      /\ UNCHANGED <<sellings, buyings, dealing_segs>>
  BY DEF Scans, QueryPrice, GetSold, StartBuying, LoopEnds, PlaceSale, PlaceBuy,
         IInv, ListInv
<1>2. DbInv' /\ db' = db /\ txn' = txn
  BY <1>1, SameDb DEF IInv, dbvars
<1>3. /\ OpenSales' = OpenSales /\ OpenBuys' = OpenBuys
      /\ OnePendingPerSegment'
  BY <1>2 DEF IInv, OpenSales, OpenBuys, OnePendingPerSegment
<1>4. pc' \in {"sold", "scan", "call"} /\ side' \in Sides
  BY DEF Scans, QueryPrice, GetSold, StartBuying, StartLoop, PlaceSale, PlaceBuy,
         IInv, ListInv, Sides
<1>5. ListInv' /\ SeenInv'
  BY <1>1, <1>2, <1>4 DEF IInv, ListInv, SeenInv, Settling
<1>6. SalesInv' /\ BuysInv' /\ CallInv'
  <2>1. CASE QueryPrice
    <3>1. pc = "price" /\ pc' = "sold" /\ price' \in Quotes
      BY <2>1 DEF QueryPrice
    <3> QED
      BY <1>1, <1>2, <1>3, <3>1 DEF IInv, SalesInv, BuysInv, CallInv, Placing
  <2>2. CASE GetSold
    <3>1. /\ pc = "sold" /\ pc' = "scan" /\ price' = price
          /\ todo' \subseteq Segs
      BY <2>2 DEF GetSold, StartLoop
    <3> QED
      BY <1>1, <1>2, <1>3, <3>1 DEF IInv, SalesInv, BuysInv, CallInv, Placing
  <2>3. CASE StartBuying
    <3>1. /\ pc = "scan" /\ side = "sale" /\ pc' = "scan" /\ side' = "buy"
          /\ price' = price /\ todo' \subseteq Segs
      BY <2>3 DEF StartBuying, LoopEnds, StartLoop
    <3> QED
      BY <1>1, <1>2, <1>3, <3>1
         DEF IInv, SalesInv, BuysInv, CallInv, Placing, HighEnough
  <2>4. CASE PlaceSale
    <3>1. PICK s \in Sellable :
            /\ new_order("sale", s, new_sale_num(s), 1, sale_price)
            /\ todo' = {t \in todo : t < s}
      BY <2>4 DEF PlaceSale
    <3>2. /\ pc = "scan" /\ side = "sale" /\ pc' = "call" /\ side' = "sale"
          /\ price' = price /\ todo \subseteq Segs /\ price \in Quotes
      BY <2>4 DEF PlaceSale, IInv, CallInv, Placing
    <3>3. /\ s \in todo /\ s \in Segs /\ s \notin dealing_segs /\ HighEnough(s)
          /\ todo' \subseteq todo /\ s \notin todo'
      BY <3>1, <3>2, TacticsAssumption DEF Sellable, HighEnough
    <3>4. /\ call' = [step |-> call'.step, req |-> call'.req, id |-> call'.id]
          /\ call'.req.seg = s
      BY <3>1 DEF new_order
    <3>5. SalesInv' /\ BuysInv'
      BY <1>1, <1>2, <1>3, <3>2, <3>3, <3>4
         DEF IInv, SalesInv, BuysInv, Placing, HighEnough, Passed
    <3>6. CallInv'
      BY <1>1, <3>2, <3>3, <3>4 DEF CallInv, Placing, HighEnough
    <3> QED
      BY <3>5, <3>6
  <2>5. CASE PlaceBuy
    <3>1. PICK s \in Buyable :
            /\ new_order("buy", s, get_free_amount(s), buy_price, buy_price)
            /\ todo' = {t \in todo : t > s}
      BY <2>5 DEF PlaceBuy
    <3>2. /\ pc = "scan" /\ side = "buy" /\ pc' = "call" /\ side' = "buy"
          /\ price' = price /\ todo \subseteq Segs /\ price \in Quotes
      BY <2>5 DEF PlaceBuy, IInv, CallInv, Placing
    <3>3. /\ s \in todo /\ s \in Segs /\ s \notin dealing_segs /\ LowEnough(s)
          /\ todo' \subseteq todo /\ s \notin todo'
      BY <3>1, <3>2, TacticsAssumption DEF Buyable, LowEnough
    <3>4. /\ call' = [step |-> call'.step, req |-> call'.req, id |-> call'.id]
          /\ call'.req.seg = s
      BY <3>1 DEF new_order
    <3>5. SalesInv' /\ BuysInv'
      BY <1>1, <1>2, <1>3, <3>2, <3>3, <3>4
         DEF IInv, SalesInv, BuysInv, Placing, HighEnough, LowEnough, Passed
    <3>6. CallInv'
      BY <1>1, <3>2, <3>3, <3>4 DEF CallInv, Placing, LowEnough
    <3> QED
      BY <3>5, <3>6
  <2> QED
    BY <2>1, <2>2, <2>3, <2>4, <2>5 DEF Scans
<1> QED
  BY <1>2, <1>3, <1>5, <1>6 DEF IInv

LEMMA CallStepSafe ==
  ASSUME IInv, CallStep
  PROVE  IInv'
<1>1. UNCHANGED <<pc, gridvars, dbvars>> /\ pc = "call"
  BY DEF CallStep
<1>2. DbInv' /\ db' = db /\ txn' = txn
  BY <1>1, SameDb DEF IInv, dbvars
<1>3. /\ OpenSales' = OpenSales /\ OpenBuys' = OpenBuys
      /\ OnePendingPerSegment'
  BY <1>2 DEF IInv, OpenSales, OpenBuys, OnePendingPerSegment
<1>4. /\ pc' = pc /\ side' = side /\ todo' = todo /\ price' = price
      /\ sellings' = sellings /\ buyings' = buyings
      /\ dealing_segs' = dealing_segs
  BY <1>1 DEF gridvars
<1>5. call = [step |-> call.step, req |-> call.req, id |-> call.id]
  BY <1>1 DEF IInv, CallInv
<1>6. \/ \E id : call' = [call EXCEPT !.step = "done", !.id = id]
      \/ \E step : call' = [call EXCEPT !.step = step]
  BY DEF CallStep, PostAnswered, PostRefused, PostUnreadable, PostUnanswered,
         AskFound, AskNotFound, AskUnanswered, Return, Throw
<1>7. /\ call' = [step |-> call'.step, req |-> call'.req, id |-> call'.id]
      /\ call'.req = call.req
  BY <1>5, <1>6
<1>8. ListInv' /\ SeenInv'
  BY <1>2, <1>3, <1>4 DEF IInv, ListInv, SeenInv, Settling, Table
<1>9. SalesInv' /\ BuysInv'
  BY <1>2, <1>3, <1>4, <1>7 DEF IInv, SalesInv, BuysInv, Placing, HighEnough,
                               LowEnough, Passed
<1>10. CallInv'
  BY <1>4, <1>7 DEF IInv, CallInv, Placing, HighEnough, LowEnough
<1> QED
  BY <1>2, <1>3, <1>8, <1>9, <1>10 DEF IInv

LEMMA InsertSafe ==
  ASSUME IInv, Insert
  PROVE  IInv'
<1>1. /\ pc = "call" /\ pc' = "scan" /\ InsertRow
      /\ UNCHANGED <<side, sellings, buyings, dealing_segs, price>>
  BY DEF Insert
<1>2. todo' \subseteq todo
  BY DEF Insert
<1> DEFINE s == call.req.seg
<1>3. /\ s \notin todo
      /\ IF side = "sale" THEN HighEnough(s) ELSE LowEnough(s)
      /\ price \in Quotes /\ todo \subseteq Segs
  BY <1>1 DEF IInv, CallInv, Placing
<1>4. /\ DbInv' /\ txn' = txn /\ OnePendingPerSegment'
      /\ DOMAIN db.sale_tx \subseteq DOMAIN db'.sale_tx
      /\ DOMAIN db.buy_tx \subseteq DOMAIN db'.buy_tx
      /\ \A i \in OpenSales' :
           \/ i \in OpenSales /\ db'.sale_tx[i].seg_id = db.sale_tx[i].seg_id
           \/ side = "sale" /\ db'.sale_tx[i].seg_id = s
      /\ \A j \in OpenBuys' :
           \/ j \in OpenBuys /\ db'.buy_tx[j].seg_id = db.buy_tx[j].seg_id
           \/ side = "buy" /\ db'.buy_tx[j].seg_id = s
  BY <1>1, InsertRowSafe
<1>5. ListInv' /\ SeenInv'
  BY <1>1, <1>4 DEF IInv, ListInv, SeenInv, Settling
<1>6. SalesInv'
  BY <1>1, <1>2, <1>3, <1>4 DEF IInv, SalesInv, Placing, HighEnough, Passed
<1>7. BuysInv'
  BY <1>1, <1>2, <1>3, <1>4 DEF IInv, BuysInv, Placing, LowEnough, Passed
<1>8. CallInv'
  BY <1>1, <1>2, <1>3 DEF CallInv, Placing
<1> QED
  BY <1>4, <1>5, <1>6, <1>7, <1>8 DEF IInv

-----------------------------------------------------------------------------
(* The theorem.                                                            *)

LEMMA InitSafe ==
  ASSUME Init
  PROVE  IInv
<1>1. /\ db = [sale_tx |-> <<>>, buy_tx |-> <<>>,
               sale_history |-> {}, buy_history |-> {}]
      /\ work = db /\ txn = NoTxn /\ pc = "new_sale" /\ side = "sale"
      /\ sellings = {} /\ buyings = {}
  BY DEF Init, DbInit, RoundInit
<1>2. IsTable(<<>>) /\ DOMAIN <<>> = {}
  BY DEF IsTable
<1>3. DbInv
  BY <1>1, <1>2 DEF DbInv, DbShape, ClosesOnly, TxnShape, NoTxn
<1>4. OpenSales = {} /\ OpenBuys = {}
  BY <1>1, <1>2 DEF OpenSales, OpenBuys
<1> QED
  BY <1>1, <1>3, <1>4 DEF IInv, ListInv, SeenInv, SalesInv, BuysInv, CallInv,
     OnePendingPerSegment, Settling, Placing, Sides, NoTxn

LEMMA NextSafe ==
  ASSUME IInv, [Next]_vars
  PROVE  IInv'
<1>1. CASE Exchange
  <2>1. UNCHANGED <<dbvars, gridvars, pc>> /\ UNCHANGED call
    BY <1>1 DEF Exchange, FillStep, Fill, FinishCancel, ArriveLate, DropLate
  <2> QED
    BY <2>1, NothingMoves
<1>2. CASE UNCHANGED vars
  BY <1>2, NothingMoves DEF vars, apivars
<1>3. CASE Round \/ Failure
  BY <1>3, Listing, SettlesSafe, ScansSafe, CallStepSafe, InsertSafe, EndsSafe
     DEF Round, Failure, Settles, Scans, Ends
<1> QED
  BY <1>1, <1>2, <1>3 DEF Next

(* The loop never forgets an open row: it is in the lists, its segment is  *)
(* among the dealing segments, or a loop of this round has opened it at a  *)
(* quote that forbids the other side.                                      *)
THEOREM LoopInvariance == Spec => []IInv
<1>1. Init => IInv
  BY InitSafe
<1>2. IInv /\ [Next]_vars => IInv'
  BY NextSafe
<1> QED
  BY <1>1, <1>2, PTL DEF Spec

(* A segment never has two orders open in the database, however many       *)
(* calls fail and whenever the program dies: new_order's dealing_segs,     *)
(* computed once a round, is enough.                                       *)
THEOREM OnePending == Spec => []OnePendingPerSegment
<1>1. IInv => OnePendingPerSegment
  BY DEF IInv
<1> QED
  BY <1>1, LoopInvariance, PTL

=============================================================================

------------------------------- MODULE TradeDb --------------------------------
(***************************************************************************)
(* trade_db_plugin: the ledger of the program in MySQL.                    *)
(*                                                                         *)
(* Two tables hold the orders (sale_tx, buy_tx), two their history.  Rows  *)
(* are created by autocommitted INSERTs; an order is closed ("delivered")  *)
(* by a transaction of several statements, modelled statement by statement *)
(* on a private copy of the tables:                                        *)
(*   db   is what is committed, seen by every other connection;            *)
(*   work is what the connection of the open transaction sees;             *)
(*   txn  holds the locals of deliver_sale_tx / deliver_buy_tx.            *)
(* Every statement may fail and the program may crash at any point of it:  *)
(* both end in Rollback.                                                   *)
(***************************************************************************)
EXTENDS TradeTypes, Sequences

CONSTANTS Segs,      \* the ids of the segments of the grid (seg_id)
          OrderIds   \* the order ids the exchange can hand out

VARIABLES db, work, txn

dbvars == <<db, work, txn>>

-----------------------------------------------------------------------------
(* The tables (table.sql).  Columns that nothing reads back are left out.  *)

SaleRows ==
  [seg_id: Segs, order_id: OrderIds,
   deal_number: Nat, deal_price: Nat, deal_fee: Nat, deal_amount: Nat,
   used_buy_amount: Int, free_buy_amount: Int, valid_sale_number: Int,
   status: 0..3, use_status: 0..2]

(* buy_amount is the money planned for the order, buy_number * buy_price.  *)
BuyRows ==
  [seg_id: Segs, order_id: OrderIds, buy_amount: Nat,
   deal_number: Nat, deal_fee: Nat, deal_amount: Nat, status: 0..3]

HistoryRows ==
  [tx_id: Nat, order_id: OrderIds, deal_number: Nat, deal_fee: Nat,
   deal_amount: Nat, status: 0..3]

Tables ==
  [sale_tx: Seq(SaleRows), buy_tx: Seq(BuyRows),
   sale_history: SUBSET HistoryRows, buy_history: SUBSET HistoryRows]

NewSaleRow(seg, oid) ==
  [seg_id |-> seg, order_id |-> oid,
   deal_number |-> 0, deal_price |-> 0, deal_fee |-> 0, deal_amount |-> 0,
   used_buy_amount |-> 0, free_buy_amount |-> 0, valid_sale_number |-> 0,
   status |-> db_tx_processing, use_status |-> db_tx_unused]

NewBuyRow(seg, oid, amount) ==
  [seg_id |-> seg, order_id |-> oid, buy_amount |-> amount,
   deal_number |-> 0, deal_fee |-> 0, deal_amount |-> 0,
   status |-> db_tx_processing]

(* mutant: two parameters of the INSERT swapped *)
mut_SegAsOrder(row, tx) ==
  [tx_id |-> tx.id, order_id |-> row.seg_id, deal_number |-> tx.deal_number,
   deal_fee |-> tx.history_fee, deal_amount |-> tx.deal_amount,
   status |-> tx.status]

HistoryRow(row, tx) ==
  [tx_id |-> tx.id, order_id |-> row.order_id, deal_number |-> tx.deal_number,
   deal_fee |-> tx.history_fee, deal_amount |-> tx.deal_amount,
   status |-> tx.status]

NoTxn == [op |-> "none", step |-> "none", tx |-> [id |-> 0],
          list |-> {}, remain |-> 0]

DbInit ==
  /\ db = [sale_tx |-> <<>>, buy_tx |-> <<>>,
           sale_history |-> {}, buy_history |-> {}]
  /\ work = db
  /\ txn = NoTxn

-----------------------------------------------------------------------------
(* The queries, on committed rows.                                         *)

(* the rows get_new_sale_array and get_new_buy_array select, by id *)
new_sale_array ==
  {i \in DOMAIN db.sale_tx : /\ db.sale_tx[i].status = db_tx_processing
                             /\ db.sale_tx[i].use_status = db_tx_unused}

new_buy_array ==
  {i \in DOMAIN db.buy_tx : db.buy_tx[i].status = db_tx_processing}

(* a sale with proceeds left to buy back: the WHERE clause shared by       *)
(* get_delivered_sale_array and update_buy_status                          *)
Unspent(row) ==
  /\ row.status \in {db_tx_complet_closed, db_tx_portion_closed}
  /\ row.use_status \in {db_tx_unused, db_tx_portion_used}

delivered_sale_array ==
  {i \in DOMAIN db.sale_tx : Unspent(db.sale_tx[i])}

-----------------------------------------------------------------------------
(* The autocommitted INSERTs.  order_id is UNIQUE in each table.           *)

add_new_sale_tx(seg, oid) ==
  /\ txn.op = "none"
  /\ \A i \in DOMAIN db.sale_tx : db.sale_tx[i].order_id # oid
  /\ db' = [db EXCEPT !.sale_tx = Append(@, NewSaleRow(seg, oid))]
  /\ work' = db'
  /\ UNCHANGED txn

add_new_buy_tx(seg, oid, amount) ==
  /\ txn.op = "none"
  /\ \A i \in DOMAIN db.buy_tx : db.buy_tx[i].order_id # oid
  /\ db' = [db EXCEPT !.buy_tx = Append(@, NewBuyRow(seg, oid, amount))]
  /\ work' = db'
  /\ UNCHANGED txn

-----------------------------------------------------------------------------
(* deliver_sale_tx and deliver_buy_tx, statement by statement.             *)

(* START TRANSACTION for the closing of a row read as processing           *)
begin_deliver_sale(id, res) ==
  /\ txn.op = "none"
  /\ txn' = [NoTxn EXCEPT !.op = "sale", !.step = "update",
                          !.tx = complete_sale_order(id, res)]
  /\ UNCHANGED <<db, work>>

begin_deliver_buy(id, res) ==
  /\ txn.op = "none"
  /\ txn' = [NoTxn EXCEPT !.op = "buy", !.step = "update",
                          !.tx = complete_buy_order(id, res)]
  /\ UNCHANGED <<db, work>>

(* what an UPDATE takes: NaN is an SQL error, after which only Rollback is *)
(* possible                                                                *)
SqlNumber(x) == x # NaN

(* UPDATE sale_tx                                                          *)
update_sale_tx ==
  LET tx == txn.tx IN
  /\ txn.op = "sale" /\ txn.step = "update"
  /\ SqlNumber(tx.valid_sale_number)
  /\ work' = [work EXCEPT !.sale_tx[tx.id] =
       [@ EXCEPT !.deal_number = tx.deal_number,
                 !.deal_price = tx.deal_price,
                 !.deal_fee = tx.deal_fee,
                 !.deal_amount = tx.deal_amount,
                 !.used_buy_amount = tx.used_buy_amount,
                 !.free_buy_amount = tx.free_buy_amount,
                 !.valid_sale_number = tx.valid_sale_number,
                 !.status = tx.status,
                 !.use_status = tx.use_status]]
  /\ txn' = [txn EXCEPT !.step = "history"]
  /\ UNCHANGED db

(* INSERT INTO sale_history, whose order_id is UNIQUE                      *)
insert_sale_history ==
  LET row == HistoryRow(work.sale_tx[txn.tx.id], txn.tx) IN
  /\ txn.op = "sale" /\ txn.step = "history"
  /\ \A h \in work.sale_history : h.order_id # row.order_id
  /\ work' = [work EXCEPT !.sale_history = @ \cup {row}]
  /\ txn' = [txn EXCEPT !.step = "commit"]
  /\ UNCHANGED db

update_buy_tx ==
  LET tx == txn.tx IN
  /\ txn.op = "buy" /\ txn.step = "update"
  /\ work' = [work EXCEPT !.buy_tx[tx.id] =
       [@ EXCEPT !.deal_number = tx.deal_number,
                 !.deal_fee = tx.deal_fee,
                 !.deal_amount = tx.deal_amount,
                 !.status = tx.status]]
  /\ txn' = [txn EXCEPT !.step = "history"]
  /\ UNCHANGED db

(* whether deliver_buy_tx goes on to update_buy_status                     *)
Spends(tx) ==
  /\ tx.status \in {db_tx_portion_closed, db_tx_complet_closed}
  /\ tx.deal_amount > 0

insert_buy_history ==
  LET row == HistoryRow(work.buy_tx[txn.tx.id], txn.tx) IN
  /\ txn.op = "buy" /\ txn.step = "history"
  /\ \A h \in work.buy_history : h.order_id # row.order_id
  /\ work' = [work EXCEPT !.buy_history = @ \cup {row}]
  /\ txn' = [txn EXCEPT !.step = IF Spends(txn.tx) THEN "select" ELSE "commit"]
  /\ UNCHANGED db

(* update_buy_status reads the unspent sales of the segment on a           *)
(* connection of its own, that is, from the committed tables               *)
select_unspent ==
  LET seg  == work.buy_tx[txn.tx.id].seg_id
      list == {i \in delivered_sale_array : db.sale_tx[i].seg_id = seg}
  IN
  /\ txn.op = "buy" /\ txn.step = "select"
  /\ txn' = [txn EXCEPT !.list = list, !.remain = txn.tx.deal_amount,
                        !.step = IF list = {} THEN "commit" ELSE "use"]
  /\ UNCHANGED <<db, work>>

mut_UsedUpBelowZero(left) == left < 0  \* mutant: < for <=
UsedUp(left) == left <= 0

(* mutant: valid_sale_number is not computed again *)
mut_SpendKeepsValid(row, remain) ==
  LET left == row.free_buy_amount - remain
      free == IF UsedUp(left) THEN 0 ELSE left
  IN  [free_buy_amount   |-> free,
       use_status        |-> IF UsedUp(left) THEN db_tx_complet_used
                                             ELSE db_tx_portion_used,
       valid_sale_number |-> row.valid_sale_number,
       used_buy_amount   |-> row.used_buy_amount + row.free_buy_amount - free]

(* what a sale row gets when remain is asked of its proceeds               *)
Spend(row, remain) ==
  LET left == row.free_buy_amount - remain
      free == IF UsedUp(left) THEN 0 ELSE left
  IN  [free_buy_amount   |-> free,
       use_status        |-> IF UsedUp(left) THEN db_tx_complet_used
                                             ELSE db_tx_portion_used,
       valid_sale_number |-> Quotient(free, row.deal_price),
       used_buy_amount   |-> row.used_buy_amount + row.free_buy_amount - free]

mut_StillToPayAlways(remain, list) == list # {}  \* mutant: no break
(* the loop goes on while something remains to be paid and sales are left  *)
StillToPay(remain, list) == remain > 0 /\ list # {}

(* one turn of the loop of update_buy_status, oldest sale first            *)
use_sale_tx ==
  /\ txn.op = "buy" /\ txn.step = "use"
  /\ \E i \in txn.list :
       LET new    == Spend(db.sale_tx[i], txn.remain)
           remain == txn.remain - db.sale_tx[i].free_buy_amount
           list   == txn.list \ {i}
       IN
       /\ \A j \in txn.list : i <= j
       /\ SqlNumber(new.valid_sale_number)
       /\ work' = [work EXCEPT !.sale_tx[i] =
            [@ EXCEPT !.used_buy_amount = new.used_buy_amount,
                      !.free_buy_amount = new.free_buy_amount,
                      !.valid_sale_number = new.valid_sale_number,
                      !.use_status = new.use_status]]
       /\ txn' = [txn EXCEPT !.list = list, !.remain = remain,
                    !.step = IF StillToPay(remain, list) THEN "use"
                                                         ELSE "commit"]
  /\ UNCHANGED db

Commit ==
  /\ txn.op # "none" /\ txn.step = "commit"
  /\ db' = work
  /\ txn' = NoTxn
  /\ UNCHANGED work

(* mutant: the transaction stays open *)
mut_LeftOpen == txn.op # "none" /\ UNCHANGED dbvars

(* mutant: the statements already executed stay *)
mut_NoRollback ==
  /\ txn.op # "none"
  /\ db' = work
  /\ txn' = NoTxn
  /\ UNCHANGED work

(* a statement fails or the connection is lost: the handler of hb_catch    *)
(* rolls back; if the program is gone, the server does                     *)
Rollback ==
  /\ txn.op # "none"
  /\ work' = db
  /\ txn' = NoTxn
  /\ UNCHANGED db

(* the statements of an open transaction *)
Statement ==
  \/ update_sale_tx \/ insert_sale_history
  \/ update_buy_tx \/ insert_buy_history \/ select_unspent \/ use_sale_tx

=============================================================================

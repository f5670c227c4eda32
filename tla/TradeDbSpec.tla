------------------------------ MODULE TradeDbSpec ------------------------------
(***************************************************************************)
(* The database plugin on its own, under a client that keeps to the calls  *)
(* of the grid plugin: it inserts an order with a fresh id, and closes an  *)
(* order it has read as processing with a result of the exchange, one      *)
(* transaction at a time.                                                  *)
(***************************************************************************)
EXTENDS TradeDb, FiniteSetsExt

CONSTANTS Results,   \* the closing results the exchange can report
          Numbers,   \* the money planned for new buys
          MaxSales,  \* bound: rows of sale_tx
          MaxBuys    \* bound: rows of buy_tx

ASSUME ResultsAssumption ==
  /\ Results \subseteq OrderResults
  /\ \A res \in Results : IsClosing(res)
ASSUME NumbersAssumption == Numbers \subseteq Nat

-----------------------------------------------------------------------------
(* An order id the exchange has not handed out yet.                        *)
Fresh(oid) ==
  /\ \A i \in DOMAIN db.sale_tx : db.sale_tx[i].order_id # oid
  /\ \A i \in DOMAIN db.buy_tx : db.buy_tx[i].order_id # oid

NewSale ==
  /\ Len(db.sale_tx) < MaxSales
  /\ \E seg \in Segs, oid \in OrderIds :
       Fresh(oid) /\ add_new_sale_tx(seg, oid)

NewBuy ==
  /\ Len(db.buy_tx) < MaxBuys
  /\ \E seg \in Segs, oid \in OrderIds, amount \in Numbers :
       Fresh(oid) /\ add_new_buy_tx(seg, oid, amount)

CloseSale ==
  \E id \in new_sale_array, res \in Results : begin_deliver_sale(id, res)

CloseBuy ==
  \E id \in new_buy_array, res \in Results : begin_deliver_buy(id, res)

DbNext ==
  \/ NewSale
  \/ NewBuy
  \/ CloseSale
  \/ CloseBuy
  \/ Statement
  \/ Commit
  \/ Rollback

DbSpec == DbInit /\ [][DbNext]_dbvars

-----------------------------------------------------------------------------
(* The committed tables and the connection's view of them hold rows of     *)
(* table.sql; no NaN ever gets into a column.                              *)
DbTypeOK ==
  /\ db \in Tables
  /\ work \in Tables
  /\ txn.op \in {"none", "sale", "buy"}
  /\ txn.step \in {"none", "update", "history", "select", "use", "commit"}

(* table.sql:17: the proceeds of a closed sale are split without remainder *)
(* into what was used, what is free and the fee, whatever closings, buys,  *)
(* failed statements and rollbacks went before; an open one has none.      *)
Balanced(row) ==
  /\ row.used_buy_amount >= 0 /\ row.free_buy_amount >= 0
  /\ row.used_buy_amount + row.free_buy_amount + row.deal_fee
       = row.deal_amount

SaleRowBalance == \A i \in DOMAIN db.sale_tx : Balanced(db.sale_tx[i])

(* use_status, by which the queries select what can still be bought back,  *)
(* agrees with the amounts of the row (update_buy_status sets the two by   *)
(* separate rules): no sale with money left is skipped, and none without   *)
(* is selected.                                                            *)
UseStatusAgrees(row) ==
  /\ row.use_status = db_tx_unused => row.used_buy_amount = 0
  /\ row.use_status = db_tx_portion_used =>
       row.used_buy_amount > 0 /\ row.free_buy_amount > 0
  /\ row.use_status = db_tx_complet_used =>
       row.used_buy_amount > 0 /\ row.free_buy_amount = 0
  /\ row.status = db_tx_processing =>
       row.use_status = db_tx_unused /\ row.deal_amount = 0
  /\ row.status # db_tx_processing /\ row.use_status = db_tx_unused =>
       row.free_buy_amount > 0

UseStatusTellsTruth ==
  \A i \in DOMAIN db.sale_tx : UseStatusAgrees(db.sale_tx[i])

(* An order is closed exactly when the history table has a record of it,   *)
(* and the record tells the same deals: the two statements of a closing    *)
(* take effect together, also when one of them fails.                      *)
Recorded(row, id, history) ==
  LET records == {h \in history : h.tx_id = id} IN
  IF row.status = db_tx_processing
  THEN records = {}
  ELSE \E h \in records :
         /\ records = {h}
         /\ h.order_id = row.order_id
         /\ h.deal_number = row.deal_number
         /\ h.deal_amount = row.deal_amount
         /\ h.status = row.status

ClosedIffHistory ==
  /\ \A i \in DOMAIN db.sale_tx :
       Recorded(db.sale_tx[i], i, db.sale_history)
  /\ \A i \in DOMAIN db.buy_tx : Recorded(db.buy_tx[i], i, db.buy_history)

(* valid_sale_number, which new_order counts as sold, always stands for    *)
(* the money that is free to buy the coins back, at the price they were    *)
(* sold for, and is never more than was sold.                              *)
ValidStandsForFree ==
  \A i \in DOMAIN db.sale_tx :
    LET row == db.sale_tx[i] IN
    row.status # db_tx_processing =>
      /\ row.valid_sale_number = Quotient(row.free_buy_amount, row.deal_price)
      /\ row.valid_sale_number <= row.deal_number

(* Every committed change of the tables is one atomic step of the segment  *)
(* ledger: a buy draws its cost from the proceeds of its own segment,      *)
(* oldest sale first, although the code reads them on one connection and   *)
(* writes them row by row on another.                                      *)
HasDeals(row) == row.status \in {db_tx_portion_closed, db_tx_complet_closed}

LedgerSale(row) ==
  [seg   |-> row.seg_id,
   order |-> [amount |-> row.used_buy_amount + row.free_buy_amount,
              spent  |-> row.used_buy_amount,
              closed |-> row.status # db_tx_processing,
              deals  |-> HasDeals(row)]]

LedgerBuy(row) ==
  [seg   |-> row.seg_id,
   order |-> [amount |-> row.deal_amount,
              spent  |-> 0,
              closed |-> row.status # db_tx_processing,
              deals  |-> HasDeals(row)]]

Ledger == INSTANCE SegmentLedger WITH
  Segments <- Segs,
  Amounts <- {res.amount : res \in Results}
              \cup {res.amount - res.fee : res \in Results},
  sales <- [i \in DOMAIN db.sale_tx |-> LedgerSale(db.sale_tx[i])],
  buys  <- [i \in DOMAIN db.buy_tx |-> LedgerBuy(db.buy_tx[i])]

LedgerSpec == Ledger!Spec

=============================================================================

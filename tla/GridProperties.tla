---------------------------- MODULE GridProperties ----------------------------
(***************************************************************************)
(* What the composed program must do, across the loop, the database and    *)
(* the exchange.                                                           *)
(***************************************************************************)
EXTENDS GridTrade

OpenSales == {i \in DOMAIN db.sale_tx : db.sale_tx[i].status = db_tx_processing}
OpenBuys  == {i \in DOMAIN db.buy_tx : db.buy_tx[i].status = db_tx_processing}

SalesOf(s) == {i \in DOMAIN db.sale_tx : db.sale_tx[i].seg_id = s}
BuysOf(s)  == {i \in DOMAIN db.buy_tx : db.buy_tx[i].seg_id = s}

-----------------------------------------------------------------------------
(* The values the variables of the loop range over; the row ids it keeps   *)
(* from a query are rows, and a transaction is open in "deliver" only.     *)
GridTypeOK ==
  /\ db \in Tables
  /\ pc \in {"new_sale", "new_buy", "settle", "cancel", "deliver", "price",
             "sold", "scan", "call", "timer", "down"}
  /\ side \in Sides
  /\ sellings \subseteq DOMAIN db.sale_tx /\ buyings \subseteq DOMAIN db.buy_tx
  /\ todo \subseteq IF pc \in {"scan", "call"} THEN Segs
                    ELSE IF side = "sale" THEN sellings ELSE buyings
  /\ dealing_segs \subseteq Segs
  /\ price \in Quotes \cup {NoQuote}
  /\ depth \in Int /\ count \in Nat /\ faults \in 0 .. MaxFaults
  /\ sold_list \subseteq delivered_sale_array
  /\ txn.op # "none" <=> pc = "deliver"
  /\ call.step # "idle" <=> pc = "call"

(* A segment never has two orders open in the database, whether they sell  *)
(* or buy: dealing_segs is computed once a round, so what keeps the loops  *)
(* of one round apart is their order and the prices.                       *)
OnePendingPerSegment ==
  /\ \A i, j \in OpenSales :
       db.sale_tx[i].seg_id = db.sale_tx[j].seg_id => i = j
  /\ \A i, j \in OpenBuys :
       db.buy_tx[i].seg_id = db.buy_tx[j].seg_id => i = j
  /\ \A i \in OpenSales, j \in OpenBuys :
       db.sale_tx[i].seg_id # db.buy_tx[j].seg_id

(* What a segment has sold and not bought back, as the ledger counts it,   *)
(* and what its open sale can still sell, stay within the sale_number of   *)
(* its configuration, but for half a tick of rounding.                     *)
NeverOversold ==
  \A s \in Segs :
    LET number == [i \in DOMAIN db.sale_tx |->
                     orders[db.sale_tx[i].order_id].number]
        sold == SumFunctionOnSet(ValidNumbers,
                                 delivered_sale_array \cap SalesOf(s))
        open == SumFunctionOnSet(number, OpenSales \cap SalesOf(s))
    IN  2 * (sold + open) <= 2 * SaleNumber[s] + NumTick

SaleDeals ==
  [i \in DOMAIN db.sale_tx |-> orders[db.sale_tx[i].order_id].deals]
BuyDeals  ==
  [j \in DOMAIN db.buy_tx |-> orders[db.buy_tx[j].order_id].deals]

(* The cheapest a segment sells at and the dearest it buys at, as its      *)
(* configuration has it: new_order takes the premium off the one and adds  *)
(* it to the other.                                                        *)
LowestSale(s) == SalePrice[s] - premium(SalePrice[s])
HighestBuy(s) == BuyPrice[s] + premium(BuyPrice[s])

(* A buy never costs more than a sale brought, also if both are rounded.   *)
Earns(s) == HighestBuy(s) + PriceTick <= LowestSale(s)

(* What is taken from the proceeds, in thousandths.                        *)
FeeRate == IF FeeIsFree THEN 0 ELSE FeePermille

(* In a segment that earns, the coins that are really missing at the       *)
(* exchange - sold, but for the part that paid the fee, and not bought     *)
(* back, whether the rows are settled or not - are at most its             *)
(* sale_number, half a tick of rounding of the order, and half a unit for  *)
(* each sale, whose valid_sale_number is rounded when it is written.       *)
NeverShort ==
  \A s \in Segs :
    LET out == SumFunctionOnSet(SaleDeals, SalesOf(s))
        in  == SumFunctionOnSet(BuyDeals, BuysOf(s))
    IN  Earns(s) =>
          2 * ((1000 - FeeRate) * out - 1000 * in) <=
            1000 * (2 * SaleNumber[s] + NumTick + Cardinality(SalesOf(s)))

(* The proceeds an open buy was computed from are all still there when it  *)
(* is settled, although rounds pass in between.                            *)
BuyBacked ==
  \A j \in OpenBuys :
    LET s == db.buy_tx[j].seg_id IN
    db.buy_tx[j].buy_amount =
      SumFunctionOnSet(FreeAmounts, delivered_sale_array \cap SalesOf(s))

(* A closed row says what its order finally traded at the exchange, also   *)
(* after failed calls, failed commits and crashes: it is closed from a     *)
(* result that cannot change any more, and closed once.                    *)
SettledAsDealt(row) ==
  row.status # db_tx_processing =>
    LET res == get_order_status(row.order_id) IN
    /\ row.status = res.status
    /\ row.deal_number = res.number
    /\ row.deal_amount = res.amount

ClosedRowsAreFinal ==
  /\ \A i \in DOMAIN db.sale_tx : SettledAsDealt(db.sale_tx[i])
  /\ \A i \in DOMAIN db.buy_tx : SettledAsDealt(db.buy_tx[i])

(* An order of the exchange that no row of the database tells of, and that *)
(* is not being recorded right now, costs a failure each: without failures *)
(* there is none.                                                          *)
Orphans ==
  {o \in DOMAIN orders :
     /\ \A i \in DOMAIN db.sale_tx : db.sale_tx[i].order_id # o
     /\ \A i \in DOMAIN db.buy_tx : db.buy_tx[i].order_id # o
     /\ orders[o].cid # call.req.cid}

OrphansNeedFaults == Cardinality(Orphans) <= faults

-----------------------------------------------------------------------------
(* Fairness.  The program goes on: its calls return or time out, and the   *)
(* timer and systemd start it again.  The clock goes on: a row that is     *)
(* visited again and again is at last older than order_cancel_seconds.     *)
(* The exchange completes a cancel.  Nothing is assumed of fills.          *)
Fairness ==
  /\ WF_vars(Round)
  /\ \A s \in Sides : \A i \in 1 .. MaxOrders :
       SF_vars(SettleExpired /\ side = s /\ IsNext(i))
  /\ \A o \in OrderIds :
       WF_vars(o \in DOMAIN orders /\ FinishCancel(o) /\ Exchange)

LiveSpec == Spec /\ Fairness

(* A sale, recorded as row i or later, that was cancelled without a deal.  *)
UntradedSince(i) ==
  \E k \in OpenSales :
    k >= i /\ orders[db.sale_tx[k].order_id].state = "canceled"

(* Every recorded order is closed in the end, whatever exceptions cut      *)
(* rounds short, unless a sale without any deal stands in the way: one     *)
(* that is as old or newer for a sale, any one for a buy.                  *)
EveryOrderSettles ==
  \A i \in 1 .. MaxOrders :
    /\ i \in OpenSales ~> (i \notin OpenSales \/ UntradedSince(i))
    /\ i \in OpenBuys ~> (i \notin OpenBuys \/ UntradedSince(1))

(* The loop survives every exception: it comes back to its timer for ever. *)
LoopSurvives == []<>(pc = "timer")

-----------------------------------------------------------------------------
(* What comments of the repository say, and the code does not do.          *)

(* table.sql:23, trade_db_types.h:41: an order that closes without a deal  *)
(* is a row with status 3.                                                 *)
UntradedSaleIsRecorded ==
  \A i \in 1 .. MaxOrders : i \in OpenSales ~> i \notin OpenSales

(* trade_db_plugin_impl.cpp:88: the buys are read newest first, so that    *)
(* they are not stuck behind old orders.                                   *)
BuysNotStuck ==
  \A i \in 1 .. MaxOrders : i \in OpenBuys ~> i \notin OpenBuys

(* table.sql:3: an order that waits is the only one that executes; read    *)
(* at the exchange, and of one segment only.                               *)
OneWaitingPerSegment ==
  \A i, j \in DOMAIN orders :
    IsWorking(i) /\ IsWorking(j) /\ orders[i].seg = orders[j].seg => i = j

=============================================================================

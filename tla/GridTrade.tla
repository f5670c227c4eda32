------------------------------- MODULE GridTrade -------------------------------
(***************************************************************************)
(* grid_trade_plugin: the loop of the program, one thread over the two     *)
(* other plugins.                                                          *)
(*                                                                         *)
(* A round (deal_loop) first settles the orders in the database            *)
(* (delvier_order::deal), then places new ones in the segments that had no *)
(* open order when the round began (new_order::deal), then arms the timer. *)
(* An exception of a plugin is caught at one of two places: while settling *)
(* it skips the rest of both lists and goes on to new orders, anywhere     *)
(* else it ends the round.                                                 *)
(*                                                                         *)
(* A step is one call of the exchange or one statement of the database,    *)
(* with the code up to the next one.  Between two steps the exchange       *)
(* moves, and the program may die; only the tables and the exchange        *)
(* survive.  Time is not counted here: every comparison with the clock is  *)
(* a free choice.                                                          *)
(*                                                                         *)
(* A segment is its rank in tactics_, a map ordered by the seg_id string.  *)
(***************************************************************************)
EXTENDS TradeDb, TradeApi, FiniteSetsExt

CONSTANTS SalePrice, BuyPrice, SaleNumber, \* tactic_config_type, by segment
          MinNumber,       \* grid-min-number-num
          EveryMaxSale,    \* grid-every-max-sale-counts
          EveryMaxBuy,     \* grid-every-max-buy-counts
          PremiumPermille, \* grid-improve-deliver-premium
          Quotes,          \* what get_price can answer
          Lot,             \* bound: an order is filled in multiples of Lot
          MaxOrders,       \* bound: orders placed
          MaxFaults        \* bound: failed calls and crashes

(* plugin_initialize refuses a segment that buys at or above its sale      *)
(* price, or that sells less than the minimum.                             *)
ASSUME TacticsAssumption ==
  /\ Segs \subseteq Nat
  /\ \A s \in Segs : /\ SalePrice[s] \in Nat
                     /\ BuyPrice[s] \in Nat
                     /\ SaleNumber[s] \in Nat
                     /\ SalePrice[s] > BuyPrice[s]
                     /\ SaleNumber[s] >= MinNumber
(* It looks at no other option: the maxima and the minimum may be zero or  *)
(* below.  A premium that is negative or takes the whole price is not      *)
(* modelled.                                                               *)
ASSUME OptionsAssumption ==
  /\ MinNumber \in Int
  /\ EveryMaxSale \in Int /\ EveryMaxBuy \in Int
  /\ PremiumPermille \in 0..999
(* The best bid of a market is never above its best ask.                   *)
ASSUME QuotesAssumption ==
  /\ Quotes \subseteq [bid: Nat \ {0}, bidnum: Nat, ask: Nat \ {0}, asknum: Nat]
  /\ \A q \in Quotes : q.bid <= q.ask

(* The exchange has an id for every order within the bounds.               *)
ASSUME BoundsAssumption ==
  /\ MaxOrders \in Nat /\ MaxFaults \in Nat
  /\ 1 .. MaxOrders + MaxFaults \subseteq OrderIds

VARIABLES pc,           \* where the loop is
          side,         \* which of the two loops of a phase: "sale" or "buy"
          sellings, buyings, \* the open orders the round began with, by row id
          todo,         \* what the current loop has not reached: rows, segments
          dealing_segs,
          price,        \* the quote of this round
          depth,        \* what is left of the quote's number, see Scan
          sold_list,    \* the delivered sales, by row id
          count,        \* orders placed by the current loop
          faults

gridvars == <<side, sellings, buyings, todo, dealing_segs, price, depth,
              sold_list, count>>
vars == <<dbvars, apivars, gridvars, pc, faults>>

NoQuote == [bid |-> 0, bidnum |-> 0, ask |-> 0, asknum |-> 0]

(* the locals of a round before it begins and after it has ended           *)
RoundInit ==
  /\ side = "sale"
  /\ sellings = {} /\ buyings = {} /\ todo = {}
  /\ dealing_segs = {} /\ price = NoQuote /\ depth = 0
  /\ sold_list = {} /\ count = 0

RoundOver ==
  /\ side' = "sale"
  /\ sellings' = {} /\ buyings' = {} /\ todo' = {}
  /\ dealing_segs' = {} /\ price' = NoQuote /\ depth' = 0
  /\ sold_list' = {} /\ count' = 0

Init ==
  /\ DbInit /\ ApiInit /\ RoundInit
  /\ pc = "new_sale" /\ faults = 0

-----------------------------------------------------------------------------
(* A call that fails, or answers something else than the truth.            *)
Fault == faults < MaxFaults /\ faults' = faults + 1
NoFault == UNCHANGED faults

(* deal_loop's hb_catch: the exception ends the round                      *)
ThrowRound == pc' = "timer" /\ RoundOver

-----------------------------------------------------------------------------
(* delvier_order::deal.                                                    *)

GetNewSales ==
  /\ pc = "new_sale"
  /\ sellings' = new_sale_array
  /\ pc' = "new_buy"
  /\ UNCHANGED <<side, buyings, todo, dealing_segs, price, depth, sold_list,
                 count, dbvars, apivars>> /\ NoFault

GetNewBuys ==
  /\ pc = "new_buy"
  /\ buyings' = new_buy_array
  /\ todo' = sellings
  /\ pc' = "settle"
  /\ UNCHANGED <<side, sellings, dealing_segs, price, depth, sold_list, count,
                 dbvars, apivars>> /\ NoFault

QueryFails ==
  /\ pc \in {"new_sale", "new_buy"}
  /\ ThrowRound
  /\ UNCHANGED <<dbvars, apivars>> /\ Fault

(* mutant: order by id asc *)
mut_OldestFirst(i) == i \in todo /\ \A j \in todo : i <= j

(* the row of the list that is settled next: order by id desc              *)
IsNext(i) == i \in todo /\ \A j \in todo : j <= i

Table == IF side = "sale" THEN db.sale_tx ELSE db.buy_tx

(* the list goes on behind row i                                           *)
Continue(i) ==
  /\ todo' = todo \ {i}
  /\ pc' = "settle"
  /\ UNCHANGED <<side, sellings, buyings, dealing_segs, price, depth,
                 sold_list, count>>

Goto(label) == pc' = label /\ UNCHANGED gridvars

(* the hb_catch of deal: the exception skips what is left of both lists    *)
ThrowSettling ==
  /\ todo' = {} /\ side' = "buy" /\ pc' = "settle"
  /\ UNCHANGED <<sellings, buyings, dealing_segs, price, depth, sold_list,
                 count>>

BuyList ==
  /\ pc = "settle" /\ side = "sale" /\ todo = {}
  /\ side' = "buy" /\ todo' = buyings
  /\ UNCHANGED <<pc, sellings, buyings, dealing_segs, price, depth, sold_list,
                 count, dbvars, apivars>> /\ NoFault

(* get_order_status says that the order is closed: complete_*_order        *)
SettleClosed ==
  /\ pc = "settle"
  /\ \E i \in todo :
       LET res == get_order_status(Table[i].order_id) IN
       /\ IsNext(i)
       /\ res.status # order_processing
       /\ IF side = "sale" THEN begin_deliver_sale(i, res)
                           ELSE begin_deliver_buy(i, res)
  /\ Goto("deliver")
  /\ UNCHANGED apivars /\ NoFault

(* the order is still open, and younger than order_cancel_seconds          *)
SettleOpen ==
  /\ pc = "settle"
  /\ \E i \in todo :
       /\ IsNext(i)
       /\ get_order_status(Table[i].order_id).status = order_processing
       /\ Continue(i)
  /\ UNCHANGED <<dbvars, apivars>> /\ NoFault

(* the order is still open, and older                                      *)
SettleExpired ==
  /\ pc = "settle"
  /\ \E i \in todo :
       /\ IsNext(i)
       /\ get_order_status(Table[i].order_id).status = order_processing
  /\ Goto("cancel")
  /\ UNCHANGED <<dbvars, apivars>> /\ NoFault

SettleFails ==
  /\ pc = "settle" /\ todo # {}
  /\ ThrowSettling
  /\ UNCHANGED <<dbvars, apivars>> /\ Fault

Cancel ==
  /\ pc = "cancel"
  /\ \E i \in todo :
       /\ IsNext(i)
       /\ CancelAccepted(Table[i].order_id)
       /\ Continue(i)
  /\ UNCHANGED dbvars /\ NoFault

(* the order was closed, or a cancel was accepted before                   *)
CancelThrows ==
  /\ pc = "cancel"
  /\ \E i \in todo : IsNext(i) /\ CancelRefused(Table[i].order_id)
  /\ ThrowSettling
  /\ UNCHANGED dbvars /\ NoFault

(* no answer: the cancel may have been executed                            *)
CancelFails ==
  /\ pc = "cancel"
  /\ \/ UNCHANGED apivars
     \/ \E i \in todo : IsNext(i) /\ CancelAccepted(Table[i].order_id)
  /\ ThrowSettling
  /\ UNCHANGED dbvars /\ Fault

(* deliver_sale_tx, deliver_buy_tx                                         *)
Deliver ==
  /\ pc = "deliver"
  /\ Statement
  /\ UNCHANGED <<pc, gridvars, apivars>> /\ NoFault

Delivered ==
  /\ pc = "deliver"
  /\ Commit
  /\ Continue(txn.tx.id)
  /\ UNCHANGED apivars /\ NoFault

(* the database refuses the statement: no fault, it always would           *)
NotDeliverable ==
  /\ pc = "deliver"
  /\ txn.op = "sale" /\ txn.step = "update"
  /\ ~ SqlNumber(txn.tx.valid_sale_number)
  /\ Rollback
  /\ ThrowSettling
  /\ UNCHANGED apivars /\ NoFault

(* a statement fails, or the answer of the commit is lost                  *)
DeliverFails ==
  /\ pc = "deliver"
  /\ Rollback \/ Commit
  /\ ThrowSettling
  /\ UNCHANGED apivars /\ Fault

(* the segments of both lists, settled or not                              *)
mut_SegsOfSales == {db.sale_tx[i].seg_id : i \in sellings}  \* mutant: no buys
mut_SegsOfBuys == {db.buy_tx[i].seg_id : i \in buyings}  \* mutant: no sales
SegsOfLists == {db.sale_tx[i].seg_id : i \in sellings} \cup
               {db.buy_tx[i].seg_id : i \in buyings}

DealingSegs ==
  /\ pc = "settle" /\ side = "buy" /\ todo = {}
  /\ dealing_segs' = SegsOfLists
  /\ sellings' = {} /\ buyings' = {} /\ side' = "sale"
  /\ pc' = "price"
  /\ UNCHANGED <<todo, price, depth, sold_list, count, dbvars, apivars>>
  /\ NoFault

-----------------------------------------------------------------------------
(* new_order::deal.                                                        *)

(* both cooldowns run                                                      *)
Asleep ==
  /\ pc = "price"
  /\ ThrowRound
  /\ UNCHANGED <<dbvars, apivars>> /\ NoFault

QueryPrice ==
  /\ pc = "price"
  /\ \E q \in Quotes : price' = q
  /\ pc' = "sold"
  /\ UNCHANGED <<side, sellings, buyings, todo, dealing_segs, depth, sold_list,
                 count, dbvars, apivars>> /\ NoFault

(* get_price or get_delivered_sale_array throws                            *)
PriceFails ==
  /\ pc \in {"price", "sold"}
  /\ ThrowRound
  /\ UNCHANGED <<dbvars, apivars>> /\ Fault

premium(p) == (p * PremiumPermille) \div 1000
sale_price == price.bid - premium(price.bid)
buy_price  == price.ask + premium(price.ask)

(* A loop over the segments: all of them lie ahead, or none if the         *)
(* cooldown of this side has not run out.  depth is counted in coins while *)
(* selling, in money at the buy price while buying.                        *)
StartLoop(s, number) ==
  /\ side' = s /\ count' = 0 /\ depth' = number /\ pc' = "scan"
  /\ todo' \in {Segs, {}}

GetSold ==
  /\ pc = "sold"
  /\ sold_list' = delivered_sale_array
  /\ StartLoop("sale", price.bidnum)
  /\ UNCHANGED <<sellings, buyings, dealing_segs, price, dbvars, apivars>>
  /\ NoFault

ValidNumbers == [i \in DOMAIN db.sale_tx |-> db.sale_tx[i].valid_sale_number]
FreeAmounts  == [i \in DOMAIN db.sale_tx |-> db.sale_tx[i].free_buy_amount]

SoldIn(s) == {i \in sold_list : db.sale_tx[i].seg_id = s}

get_sold_number(s) == SumFunctionOnSet(ValidNumbers, SoldIn(s))
get_free_amount(s) == SumFunctionOnSet(FreeAmounts, SoldIn(s))

mut_FullNumber(s) == SaleNumber[s]  \* mutant: what is sold is not counted
new_sale_num(s) == SaleNumber[s] - get_sold_number(s)

(* the segments ahead of the loop that none of its continues skips         *)
Sellable ==
  {s \in todo : /\ s \notin dealing_segs
                /\ price.bid >= SalePrice[s]
                /\ new_sale_num(s) > 0
                /\ new_sale_num(s) >= MinNumber}

(* mutant: whatever the price *)
mut_BuyableAtAnyPrice ==
  {s \in todo : /\ s \notin dealing_segs
                /\ get_free_amount(s) >= MinNumber * buy_price}

Buyable ==
  {s \in todo : /\ s \notin dealing_segs
                /\ price.ask <= BuyPrice[s]
                /\ get_free_amount(s) >= MinNumber * buy_price}

(* the loop stops at segment s, and calls the exchange                     *)
PlaceSale ==
  /\ pc = "scan" /\ side = "sale" /\ depth > 0 /\ Len(orders) < MaxOrders
  /\ \E s \in Sellable :
       /\ \A t \in Sellable : t <= s
       /\ new_order("sale", s, new_sale_num(s), 1, sale_price)
       /\ todo' = {t \in todo : t < s}
       /\ depth' = depth - new_sale_num(s)
  /\ pc' = "call"
  /\ UNCHANGED <<side, sellings, buyings, dealing_segs, price, sold_list,
                 count, dbvars>> /\ NoFault

PlaceBuy ==
  /\ pc = "scan" /\ side = "buy" /\ depth > 0 /\ Len(orders) < MaxOrders
  /\ \E s \in Buyable :
       /\ \A t \in Buyable : s <= t
       /\ new_order("buy", s, get_free_amount(s), buy_price, buy_price)
       /\ todo' = {t \in todo : t > s}
       /\ depth' = depth - get_free_amount(s)
  /\ pc' = "call"
  /\ UNCHANGED <<side, sellings, buyings, dealing_segs, price, sold_list,
                 count, dbvars>> /\ NoFault

(* no segment is left to place in, or the quote is exhausted, or the bound *)
LoopEnds ==
  /\ pc = "scan"
  /\ \/ depth <= 0
     \/ (IF side = "sale" THEN Sellable ELSE Buyable) = {}
     \/ Len(orders) >= MaxOrders

StartBuying ==
  /\ LoopEnds /\ side = "sale"
  /\ StartLoop("buy", price.asknum * buy_price)
  /\ UNCHANGED <<sellings, buyings, dealing_segs, price, sold_list, dbvars,
                 apivars>> /\ NoFault

EndRound ==
  /\ LoopEnds /\ side = "buy"
  /\ pc' = "timer" /\ RoundOver
  /\ UNCHANGED <<dbvars, apivars>> /\ NoFault

(* the exchange answers while the loop waits in new_order                  *)
CallStep ==
  /\ pc = "call"
  /\ \/ PostAnswered /\ NoFault
     \/ PostRefused /\ Fault
     \/ PostUnreadable /\ Fault
     \/ PostUnanswered /\ Fault
     \/ AskFound /\ NoFault
     \/ AskNotFound /\ NoFault
     \/ AskUnanswered /\ Fault
  /\ UNCHANGED <<pc, gridvars, dbvars>>

CallThrows ==
  /\ pc = "call" /\ call.step = "throw"
  /\ EndCall
  /\ ThrowRound
  /\ UNCHANGED dbvars /\ NoFault

mut_NotRecorded == UNCHANGED dbvars  \* mutant: no INSERT

(* add_new_sale_tx, add_new_buy_tx: the row of the order just placed       *)
InsertRow ==
  LET req == call.req IN
  IF side = "sale"
  THEN add_new_sale_tx(req.seg, call.id)
  ELSE add_new_buy_tx(req.seg, call.id, get_free_amount(req.seg))

(* ++count >= every_max: nothing more lies ahead of the loop               *)
Insert ==
  /\ pc = "call" /\ call.step = "done"
  /\ InsertRow
  /\ EndCall
  /\ count' = count + 1
  /\ todo' = IF count' >= (IF side = "sale" THEN EveryMaxSale ELSE EveryMaxBuy)
             THEN {} ELSE todo
  /\ pc' = "scan"
  /\ UNCHANGED <<side, sellings, buyings, dealing_segs, price, depth,
                 sold_list>> /\ NoFault

(* the INSERT fails, or its answer is lost                                 *)
InsertFails ==
  /\ pc = "call" /\ call.step = "done"
  /\ InsertRow \/ UNCHANGED dbvars
  /\ EndCall
  /\ ThrowRound
  /\ Fault

-----------------------------------------------------------------------------
(* The timer fires.                                                        *)
Timer ==
  /\ pc = "timer"
  /\ pc' = "new_sale"
  /\ UNCHANGED <<gridvars, dbvars, apivars>> /\ NoFault

(* The program dies; MySQL rolls back, a post without an answer is on its  *)
(* way.                                                                    *)
Crash ==
  /\ pc # "down"
  /\ pc' = "down" /\ RoundOver
  /\ IF txn.op = "none" THEN UNCHANGED dbvars ELSE Rollback
  /\ inflight' = IF call.step = "post" THEN inflight \cup {call.req}
                                       ELSE inflight
  /\ call' = Idle
  /\ UNCHANGED orders /\ Fault

(* systemd restarts it                                                     *)
Restart ==
  /\ pc = "down"
  /\ pc' = "new_sale"
  /\ UNCHANGED <<gridvars, dbvars, apivars>> /\ NoFault

Round ==
  \/ GetNewSales \/ GetNewBuys \/ BuyList
  \/ SettleClosed \/ SettleOpen \/ SettleExpired
  \/ Cancel \/ CancelThrows
  \/ Deliver \/ Delivered \/ NotDeliverable
  \/ DealingSegs \/ Asleep \/ QueryPrice \/ GetSold
  \/ PlaceSale \/ PlaceBuy \/ CallStep \/ CallThrows \/ Insert
  \/ StartBuying \/ EndRound \/ Timer \/ Restart

Failure ==
  \/ QueryFails \/ SettleFails \/ CancelFails \/ DeliverFails
  \/ PriceFails \/ InsertFails \/ Crash

(* n is a whole number of lots, or all that is left                        *)
FillStep ==
  \E i \in DOMAIN orders, gain \in Gains :
    \E n \in 1 .. (orders[i].number - orders[i].deals) :
      /\ n % Lot = 0 \/ n = orders[i].number - orders[i].deals
      /\ Fill(i, n, gain)

Exchange ==
  /\ \/ FillStep
     \/ \E i \in DOMAIN orders : FinishCancel(i)
     \/ \E req \in inflight : ArriveLate(req) \/ DropLate(req)
  /\ UNCHANGED <<dbvars, gridvars, pc, faults>>

Next == Round \/ Failure \/ Exchange

Spec == Init /\ [][Next]_vars

=============================================================================

-------------------------------- MODULE Pacing --------------------------------
(***************************************************************************)
(* The grid with its clocks.  GridTrade leaves every comparison with the   *)
(* time open; here each is made as the code makes it, so that a step of    *)
(* this module is a step of GridTrade that the clock allows, together with *)
(* the times it stores.                                                    *)
(*                                                                         *)
(* There are two clocks.  The program reads the host's; the create_time of *)
(* a row is the database's, ahead of the host's by a number of seconds     *)
(* that may be negative.  Both go on by seconds, between any two steps.    *)
(* Times are uint64_t, and the seconds of the options int: a difference    *)
(* below zero, and an option below zero, become a huge number.             *)
(***************************************************************************)
EXTENDS GridProperties

CONSTANTS Interval,           \* grid-intervals-seconds
          OrderCancelSeconds, \* grid-order-cancel-seconds
          SleepSeconds,       \* grid-sale-sleep-seconds, grid-buy-sleep-seconds
          Width,              \* uint64_t holds 0 .. Width-1
          Skews,              \* by how much the database's clock may be ahead
          StartTime,          \* when the program is started first
          MaxTime             \* bound: the host's clock

ASSUME SecondsAssumption ==
  /\ Interval \in Int /\ OrderCancelSeconds \in Int
  /\ SleepSeconds \in [Sides -> Int]
(* Neither clock comes near the width, or the epoch.                       *)
ASSUME ClockAssumption ==
  /\ Width \in Nat /\ StartTime \in Nat \ {0} /\ MaxTime \in Nat
  /\ Skews \subseteq Int
  /\ \A d \in Skews : StartTime + d >= 0 /\ MaxTime + d < Width
  /\ MaxTime < Width
  /\ -Width < OrderCancelSeconds /\ OrderCancelSeconds < Width
  /\ \A s \in Sides : -Width < SleepSeconds[s] /\ SleepSeconds[s] < Width

VARIABLES now,         \* the host's clock
          ahead,       \* the database's clock is now + ahead
          due,         \* when the timer that is armed fires
          last_time,   \* last_sale_time_, last_buy_time_, by side
          create_time, \* the column create_time, by side and row id
          accepted_at  \* history: when the exchange accepted an order

clocks == <<now, ahead, due, last_time, create_time, accepted_at>>
pacedvars == <<vars, clocks>>

NeverPlaced == [s \in Sides |-> 0]

PacedInit ==
  /\ Init
  /\ now = StartTime /\ ahead \in Skews
  /\ due = 0
  /\ last_time = NeverPlaced
  /\ create_time = [s \in Sides |-> <<>>]
  /\ accepted_at = <<>>

-----------------------------------------------------------------------------
(* a - b in uint64_t, and an int compared with a uint64_t.                 *)
Minus(a, b) == IF a >= b THEN a - b ELSE a - b + Width
Unsigned(n) == IF n >= 0 THEN n ELSE n + Width

mut_OlderThanHalf(i) ==  \* mutant: another option's seconds
  Minus(now, create_time[side][i]) >= Unsigned(OrderCancelSeconds \div 2)

(* row i of the list is to be cancelled if its order is still open         *)
Expired(i) ==
  Minus(now, create_time[side][i]) >= Unsigned(OrderCancelSeconds)

NextExpired == \E i \in todo : IsNext(i) /\ Expired(i)

(* the cooldown of a side has run out                                      *)
Awake(s) == Minus(now, last_time[s]) >= Unsigned(SleepSeconds[s])

BothAsleep == \A s \in Sides : ~ Awake(s)

(* the loop of side s visits the segments, or is left out                  *)
Enters(s) == todo' = IF Awake(s) THEN Segs ELSE {}

-----------------------------------------------------------------------------
(* What a step stores of the time.                                         *)

(* DEFAULT CURRENT_TIMESTAMP of the row that a step inserts                *)
Stamped(times, rows) ==
  IF Len(rows) > Len(times) THEN Append(times, now + ahead) ELSE times

StampRows ==
  create_time' = [s \in Sides |->
    Stamped(create_time[s], IF s = "sale" THEN db'.sale_tx ELSE db'.buy_tx)]

StampOrders ==
  accepted_at' = IF Len(orders') > Len(orders) THEN Append(accepted_at, now)
                                               ELSE accepted_at

(* loop: a timer is armed whenever deal_loop has come to its end           *)
ArmTimer ==
  due' = IF pc # "timer" /\ pc' = "timer" THEN now + Interval ELSE due

Keep == StampRows /\ StampOrders /\ ArmTimer /\ UNCHANGED <<now, ahead>>

(* mutant: the time is not taken *)
mut_NotTimed == UNCHANGED last_time
(* last_sale_time_ = timestamp(), or last_buy_time_                        *)
TakeTime == last_time' = [last_time EXCEPT ![side] = now]

-----------------------------------------------------------------------------
(* The steps that look at a clock.                                         *)

PacedSettleOpen    == SettleOpen /\ ~ NextExpired
PacedSettleExpired == SettleExpired /\ NextExpired
PacedAsleep        == Asleep /\ BothAsleep
PacedQueryPrice    == QueryPrice /\ ~ BothAsleep
PacedPriceFails    == PriceFails /\ (pc = "price" => ~ BothAsleep)
PacedGetSold       == GetSold /\ Enters("sale")
PacedStartBuying   == StartBuying /\ Enters("buy")
PacedTimer         == Timer /\ now >= due

(* The steps that do not.                                                  *)
Timeless ==
  \/ GetNewSales \/ GetNewBuys \/ BuyList \/ SettleClosed
  \/ Cancel \/ CancelThrows \/ Deliver \/ Delivered \/ NotDeliverable
  \/ DealingSegs \/ PlaceSale \/ PlaceBuy \/ CallStep \/ CallThrows
  \/ EndRound \/ Restart
  \/ QueryFails \/ SettleFails \/ CancelFails \/ DeliverFails \/ InsertFails
  \/ Exchange

Reads ==
  \/ PacedSettleOpen \/ PacedSettleExpired
  \/ PacedAsleep \/ PacedQueryPrice \/ PacedPriceFails
  \/ PacedGetSold \/ PacedStartBuying \/ PacedTimer

(* An order is placed and recorded; an exception instead of it leaves the  *)
(* cooldown as it was.                                                     *)
PacedInsert == Insert /\ TakeTime

(* The cooldowns are forgotten with the process.                           *)
PacedCrash == Crash /\ last_time' = NeverPlaced

PacedStep ==
  /\ \/ (Timeless \/ Reads) /\ UNCHANGED last_time
     \/ PacedInsert
     \/ PacedCrash
  /\ Keep

Tick ==
  /\ now < MaxTime
  /\ now' = now + 1
  /\ UNCHANGED <<vars, ahead, due, last_time, create_time, accepted_at>>

PacedNext == PacedStep \/ Tick

PacedSpec == PacedInit /\ [][PacedNext]_pacedvars

-----------------------------------------------------------------------------
(* Orders of one side come in batches, a batch a loop, and a batch has as  *)
(* many as every_max_*_counts says, but one if it says none.  Between two  *)
(* batches lie the cooldown of the side and the interval of the rounds,    *)
(* unless a failure came between: an exception after the post leaves the   *)
(* cooldown where it was, a restart forgets it, and a post can arrive long *)
(* after its call.  So the failures count batches too many.                *)
Window(s) == Max({SleepSeconds[s], Interval})

Batch(s) == Max({1, IF s = "sale" THEN EveryMaxSale ELSE EveryMaxBuy})

RateLimited ==
  \A s \in Sides : \A i \in DOMAIN accepted_at :
    Cardinality({j \in DOMAIN accepted_at :
                   /\ orders[j].side = s
                   /\ accepted_at[i] <= accepted_at[j]
                   /\ accepted_at[j] < accepted_at[i] + Window(s)})
      <= Batch(s) * (1 + faults)

(* The cancel of an order is asked for no sooner after its acceptance than *)
(* order_cancel_seconds says, less what the database's clock is behind:    *)
(* through the row, the list of the round, and a status that was queried   *)
(* after it.  It is false of a clock that is ahead.                        *)
CancelAsked(o) ==
  orders[o].state = "submitted" /\ orders'[o].state = "canceling"

CancelNotEarly ==
  [][ahead <= 0 =>
       \A o \in DOMAIN orders :
         CancelAsked(o) => now - accepted_at[o] >= OrderCancelSeconds + ahead
    ]_pacedvars

-----------------------------------------------------------------------------
(* What a comment of the repository says, and the code does not do.        *)

(* grid_trade_plugin.cpp:16: after commit order, wait seconds to cancel    *)
(* the order; with a database whose clock is ahead of the host's.          *)
WaitsToCancel ==
  [][\A o \in DOMAIN orders :
       CancelAsked(o) => now - accepted_at[o] >= OrderCancelSeconds]_pacedvars

=============================================================================

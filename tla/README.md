# A specification of huobi_trade

huobi_trade is a grid trading bot for the Huobi exchange. The grid is a set of
*segments*; each sells a fixed number of coins when the market is above its
sale price and buys them back, with the proceeds, when the market is below its
buy price. This directory holds TLA+ modules of the program, the TLC
configurations that check them, and proofs about them that TLAPS checks.

## 1. The system

### Components

| component | source | state | operations |
|---|---|---|---|
| grid loop | `grid_trade_plugin_impl.cpp` | the timer | `deal_loop`, `loop`, `start` |
| settling | `delvier_order.cpp` | none between rounds; the two lists of a round | `deal`, `deal_selling_order`, `deal_buying_order`, `complete_sale_order`, `complete_buy_order` |
| placing | `new_order.cpp`, `new_order.h` | `tactics_`, `last_sale_time_`, `last_buy_time_` | `deal`, `add_sale_order`, `add_buy_order`, `query_price`, `get_sold_number`, `get_free_amount` |
| configuration | `grid_trade_plugin.cpp` | `tactics_`, the other options | `plugin_initialize`, `add_tactics` |
| database plugin | `trade_db_plugin_impl.cpp`, `table.sql` | `sale_tx`, `buy_tx`, `sale_history`, `buy_history` in MySQL | three queries, two INSERTs, `deliver_sale_tx`, `deliver_buy_tx` |
| API plugin | `trade_api_plugin_impl.cpp` | `account_id_` | `new_order`, `query_order_id_by_client`, `get_order_status`, `cancell_order`, `get_price`, `get_account` |
| exchange (external) | | its orders | accepts, fills, cancels |
| HTTP, signatures | `http2.h`, `ApiSignature.h` | the buffer of a call | one blocking call; signing of URLs |
| process | `trade.cpp`, `trade.service` | none | start; `Restart=always` |

### How they interact

There is one thread. Every `grid-intervals-seconds` the timer calls
`deal_loop`. A round first settles: it reads the open sales, then the open
buys, asks the exchange for the status of each, closes in the database what
the exchange has closed, and cancels what is too old. The set of segments in
the two lists is `dealing_segs`. Then it places: it reads the quote and the
delivered sales, walks the segments down to sell and up to buy, skips those in
`dealing_segs`, and for each order posts to the exchange and then inserts a
row. All calls are synchronous. Nothing but the database and the exchange
survives the process.

### What is hard

* The database and the exchange are two stores, and no step changes both. An
  order exists before its row does; a row is closed some time after its order.
* Every call can fail, and can have taken effect although it failed: a post
  without an answer may have been executed, be lost, or still be on its way.
* An exception is caught at one of three places (`deliver_*_tx`, `deal` of the
  settling, `deal_loop`), and each skips a different part of the round.
* Closing a buy is a transaction of many statements, one of which reads the
  committed rows on another connection.
* What is sold and bought is computed from rows read earlier in the round, and
  settled rounds later; quotients are rounded three times on the way.
* One of them is 0/0.
* Two clocks are subtracted from one another, the host's and the database's, in
  an unsigned type.
* Options are texts that `atof` reads; a line can be refused after others were
  taken; a process that cannot start is started again, but not for ever.
* A request is signed over a text that the exchange puts together for itself:
  order and encoding have to come to the same. Its answer can be cut short.

### What makes it correct

* Database plugin: the proceeds of a sale are neither created nor lost; a
  closing takes effect at once or not at all; the status columns, by which the
  queries select, agree with the amounts.
* API plugin: a call of `new_order` places at most one order, and returns its
  id; a status that says "closed" is final.
* Grid: a segment has one open order at most; it never has more coins out than
  its `sale_number`; a buy is paid from proceeds that are still there when it
  is settled; a closed row tells what the order traded; the loop survives
  every exception and settles what it has recorded.
* Clocks: a side places a batch in a cooldown; an order is not cancelled early.
* Start: the loop runs with the whole of one file, and only if its lines are what
  the loop needs; it comes up after every end of the process.
* Request: the exchange can verify it; a value is the whole answer to this very
  call; the call ends.

## 2. The modules

| module | models | role |
|---|---|---|
| `TradeTypes` | enumerations, results, `complete_sale_order`, `complete_buy_order` | operators |
| `TradeDb` | `trade_db_plugin_impl.cpp`, `table.sql` | state and actions, one per statement |
| `TradeDbSpec` | the plugin under a client | `DbSpec`, its properties, the refinement mapping |
| `SegmentLedger` | (abstract) what the two tables promise | atomic ledger |
| `SumTheorems` | | facts about the sums over rows that the modules use |
| `TradeDbProofs` | | proofs about `DbSpec`, and that it implements `SegmentLedger` |
| `TradeApi` | `trade_api_plugin_impl.cpp` and the exchange | state and actions, one per request |
| `TradeApiSpec` | the plugin under a client | `ApiSpec` and its properties |
| `TradeApiProofs` | | proofs about `ApiSpec` |
| `GridTrade` | `delvier_order.cpp`, `new_order.cpp`, `grid_trade_plugin_impl.cpp` | the loop over `TradeDb` and `TradeApi` |
| `GridProperties` | | properties of the whole, fairness |
| `GridTradeProofs` | | proofs about `Spec` of `GridTrade` |
| `GridBooksProofs` | | that the loop is a client of both plugins, and what follows for the whole |
| `Pacing` | the clocks of `delvier_order.cpp`, `new_order.cpp`, `grid_trade_plugin_impl.cpp` | the steps of `GridTrade` that the clocks allow |
| `PacingProofs` | | proofs about `PacedSpec`, and that it implements `Spec` |
| `Startup` | `grid_trade_plugin.cpp`, `add_tactics`, `get_account`, the secret key, `trade.service` | from the start of the process to the first round |
| `StartupProofs` | | proofs about `StartupSpec` |
| `ApiRequest` | `ApiSignature.h`, `http2.h`, what the API plugin makes of code and body | one request and its answer |
| `ApiRequestProofs` | | proofs about `ApiRequestSpec` |
| `MCTradeDb`, `MCTradeApi`, `MCGridTrade`, `MCPacing`, `MCStartup`, `MCApiRequest` | | TLC instances |

**TradeDb.** `db` is what is committed; `work` is what the connection of an open
transaction sees; `txn` holds the locals of `deliver_sale_tx` or
`deliver_buy_tx` with the statement that comes next. Outside a transaction
`work = db`. Each statement is one action; `Commit` makes `work` the committed
tables, `Rollback`, possible before every statement, forgets it: it stands for
a failed statement, a lost connection and a dead process alike. The select of
`update_buy_status` reads `db`, not `work`, since `query_sale_tx` opens a
connection of its own. Columns that nothing reads back (`seg_price`,
`sale_number`, `sale_price`, `update_time`) are left out, and `create_time` with the clock; `buy_number * buy_price` is one column.

**TradeApi.** `orders` is the exchange's book of our orders, by order id;
`inflight` the posts that got no answer and may yet arrive; `call` the
`new_order` in progress. `"%.4f"` is modelled by what it does: the nearest
multiple of the tick, either one on a tie, since the tie is decided by the
binary expansion of the double.

**GridTrade.** `pc` is where the one thread is; between two of its steps the
exchange moves. Labels follow the calls: `new_sale`, `new_buy` (the two
queries), `settle`, `cancel`, `deliver`, `price`, `sold`, `scan` (the segment
loops), `call` (inside `new_order`, then the INSERT), `timer`, `down`. The
other variables are the locals of the functions. `ThrowSettling` and
`ThrowRound` are the two handlers. Every failure is an action or disjunct
with the conjunct `Fault`, so that a run can bound them.

**Pacing.** Each step is a step of `GridTrade` conjoined with the comparison
the code makes and the times it stores: `now` is the host's clock, `now + ahead`
the database's, `create_time` the column, `last_time` the two cooldowns, `due`
the timer. `Minus` and `Unsigned` are the arithmetic of `uint64_t`, with its
width as a constant. `Tick` lets a second pass between any two steps, also while
a call waits. `accepted_at` is history: when the exchange took an order.

**Startup.** A process reads the file once (`options`), adds the lines one by
one (`next`, `tactics_`), asks for its account, and runs; `Die` is what is left
of it after an exception or a kill: nothing. The operator may edit the file
(`config`) at any time. A field of a line is a number, `nan`, or a text that is
no number. systemd counts starts and gives up at `Burst`; the end of its
interval may come at any moment. What the loop then does is `GridTrade`.

**ApiRequest.** What `TradeApi` has as one step: `SignedUrl` is the URL with its
parameters as sequences of bytes, and `mac` what its signature stands for, so
that `Verified` says what the exchange finds. Two texts have the same signature
only if they are equal and were signed with the same key. `answer` is what has
yet to come, in pieces, to `sBuffer`; a request can reach the exchange after its
sender gave up. `AnswerEnds` can come before the last piece, with code 0: an
answer whose length was not told.

### Abstractions

* Numbers, prices and amounts are integers in a unit chosen per instance; a
  double quotient that is stored is rounded to it. What doubles lose below the
  eighth decimal of the columns is not modelled.
* An order's deals all have one price, at or better than its limit.
* Time is not counted in `GridTrade`: each comparison with the clock
  (age of an order, the two cooldowns) is a free choice, which includes every
  behaviour of the real clocks, also of clocks that disagree. `Pacing` counts it,
  and `PacedIsGrid` proves that it is one of those behaviours. Both clocks go on
  evenly there: a clock that is set while the program runs is only in `GridTrade`.
* A segment is its rank in the order of the `seg_id` strings.
* The quote is any member of `Quotes`; a bid is never above an ask.
* The segment of an order is kept in `orders` so that properties can speak of
  it; no action of the program reads it.

## 3. What is checked

| run | instance | properties |
|---|---|---|
| `ledger` | 2 segments, 3 sales, 2 buys, fee charged | `DbTypeOK`, `SaleRowBalance`, `UseStatusTellsTruth`, `ClosedIffHistory`, `ValidStandsForFree`, `LedgerSpec` |
| `api` | 2 orders, any number of failures | `ApiTypeOK`, `OneOrderPerCall`, `ReturnsItsOwnOrder`, `ClosingIsFinal`, `CallReturns` |
| `grid_nominal` | 4 orders, no failures, fee charged | `OnePendingPerSegment`, `NeverOversold`, `NeverShort`, `BuyBacked` |
| `grid_faults` | 2 orders, 2 failures | `GridTypeOK`, `OnePendingPerSegment`, `ClosedRowsAreFinal`, `OrphansNeedFaults` |
| `grid_live` | 2 orders, 1 failure, fairness | `EveryOrderSettles`, `LoopSurvives`, `ClientSpec` |
| `pacing` | 3 orders, 1 failure, 5 seconds, database's clock equal or a second behind | `RateLimited`, `CancelNotEarly` |
| `startup` | files of 0 to 2 lines of 11 kinds, 1 edit, 2 starts to give up, fairness | `StartupTypeOK`, `PassesIffSound`, `RunsWhole`, `GridCanRun`, `ComesUp` |
| `request` | 2 calls, answers of 2 pieces, fairness | `ApiRequestTypeOK`, `RequestVerifies`, `ValueIsOwnAnswer`, `CallEnds` |

`LedgerSpec` is the refinement of the database plugin: under the mapping at the
end of `TradeDbSpec` every committed change is one step of `SegmentLedger`,
where a buy takes its cost from the unspent sales of its segment, oldest first,
in one step. `ClientSpec` says that the loop's use of the database is a
behaviour of `DbSpec`: it is what carries the results about the ledger over to
the program.

**Bounds.** In `ledger` the results are chosen so that a buy costs less than,
as much as and more than what one sale has left, spans two sales, and closes
untraded; three sales and two buys are enough for a sale that is spent in two
steps and a buy that spans sales of its own segment and leaves the other's
alone. The tables are full in the end, hence no deadlock check there. In the grid runs two segments overlap (20/10 and
18/12), so that both can sell and both can buy at the same quote; four orders
allow a sale, a partial buy back, and a second sale of the difference, or two
sales and their two buys; numbers are such that the order's number is rounded
up and down. The fee is a tenth of the proceeds, and both segments earn (`Earns`: 18 to 11
and 17 to 13 after the premium), so that `NeverShort` speaks of both. Fills are in lots of `Lot` coins to keep the number of partial
fills small. `MaxFaults` counts failed calls and crashes.

In `pacing` the cooldowns are 3 and 2 seconds, an order is old after 2, a round
comes every second: two rounds fall in a cooldown, and in five seconds a batch, its
cooldown and a second batch, with a failure that costs a cooldown. A buy's
maximum is 0, which means 1. `Width` is 64, far from the clock as 2^64 is, so
that a difference below zero is huge. The clock stops at `MaxTime` and the timer with
it: no deadlock check. In `startup` two lines are enough for every pair of
a sound line, a faulty one and one with a known `seg_id`, in both orders; an edit
while a process reads the old file; a unit that systemd has given up stays as
it is, hence no deadlock check. In `request` the second call can meet what the
first has left: a late request, a buffer. The codes hold all special characters of
base64. The calls are bounded: no deadlock check. In `api` two orders are enough
for a post that arrives while the next call is under way, and for a client id
asked for with another order in the book; the client stops at its bound, hence no
deadlock check. The grid runs check for deadlock.

**Fairness** (`LiveSpec`). Calls return or time out (`http_call_sync` has an
expiry), the timer fires and systemd restarts the process: weak fairness of
`Round`. Clocks advance, so an open order that the loop visits again and again
is some time found too old: strong fairness of `SettleExpired` for each row.
The exchange completes an accepted cancel: weak fairness of `FinishCancel`.
No fairness of fills, of late posts or of failures is assumed.

`StartupLiveSpec`: systemd starts the process or gives it up, and the reading goes
on (weak fairness). That a process which asks for its account again and again
gets it at last is strong fairness of `GetAccount`; it says that the exchange and
the network are not down for ever. `ComesUp` holds only up to "or systemd has given
up": `trade.service` sets `Restart=always` and leaves the default start limit.

`ApiRequestLiveSpec`: seconds pass, libcurl looks at its limit, the caller goes on
(weak fairness). Nothing is owed by the exchange or by the network: with no answer
at all `CallEnds` rests on the limit alone, and is stated for a limit that is not 0.

### What the code does not do

Four runs are expected to be violated; each states a comment of the repository.

| run | the comment | the code |
|---|---|---|
| `untraded` | `table.sql:23`: status 3 is "closed untraded" | `delvier_order.cpp:25` divides 0 by 0, the UPDATE with a NaN fails, the sale stays open for ever and blocks its segment |
| `stuck` | `trade_db_plugin_impl.cpp:88`: not stuck behind old orders | a sale that throws in every round keeps all buys from being looked at |
| `orphan` | `trade_api_plugin_impl.cpp:227`: one query finds a post without an answer | a post that arrives after the query is an order nobody knows of; the segment places another one |
| `early_cancel` | `grid_trade_plugin.cpp:16`: after the order, wait seconds to cancel it | if the database's clock is ahead by more than the interval of the rounds, the unsigned age of a fresh order is close to 2^64 in the next round, and it is cancelled at once, without any failure |

Other comments disagree with the code in plain sight and have no run:

* `new_order.cpp:78` sells "from high to low"; the loop takes the segments in the
  order of their `seg_id` strings, whatever their prices.
* `trade_db_plugin_impl.cpp:72` says that the newest sale is bought back first;
  `update_buy_status` (line 300) charges a buy to the oldest.
* Of the sentence of `table.sql:3` the code keeps only that the same segment does
  not trade while an order waits; and the 5 minutes are 19 seconds by default.
* `trade_db_types.h:35` forgets the fee in used + free = deal amount, which
  `table.sql:17` has.
* The last line of the example in `trade_db_plugin/README.md:10` sells and buys at
  the same price: `plugin_initialize` refuses it.

`EveryOrderSettles` is what remains true of the first two: an order settles
unless a sale that closed untraded stands in front of it.

## 4. What is proved

`TradeDbProofs` proves of `DbSpec`, for all sets of segments, order ids, results and
numbers, and for tables of any length:

* `TypeCorrect`: `[]DbTypeOK`, in particular that no NaN is stored;
* `Balance`: `[]SaleRowBalance`;
* `UseStatus`: `[]UseStatusTellsTruth`;
* `ClosedRecorded`: `[]ClosedIffHistory`;
* `ValidForFree`: `[]ValidStandsForFree`;
* `ImplementsLedger`: `LedgerSpec`, the refinement of `SegmentLedger`.

The assumptions are those of the modules: a result that closes an order has
deals and a fee below their amount, or neither (`ResultsAssumption`), and
numbers are natural (`NumbersAssumption`). None of them is inductive: they
speak of committed rows, and `Commit` makes the rows of `work` committed. The
invariant `IInv` adds that the rows of `work` are good as well, that they are
the same rows, that the record being delivered comes from a result, and, the
heart of it, that while `update_buy_status` runs down its list every row it has
still to visit is in `work` as it was selected, so that writing back a value
computed from the committed row loses nothing; and that something remains to be
paid, without which a row would become "partly used" with nothing used.

The others rest on `IInv` and on an invariant each. `HInv` follows the two
statements of a closing: before the UPDATE the row of the transaction is open in
`work`; between it and the INSERT that row alone is closed without a record, holds
what the record will hold, and no record has its id; at any other time the tables of
`work` agree with their histories as those of `db` do. `VInv` has the property for the
rows of `work` too; a step keeps it because a rounded quotient never grows when
the money shrinks (`QuotientMonotone`), and because what `n` coins brought, less the
fee, is worth at most `n` of them (`QuotientOfAmount`). `WInv` is what the refinement
needs: half-way through `update_buy_status`, what `work` has written and what is left of
the cost, spread over the rows still to visit, come to what the ledger's one step does.
The mapping names the cost each row bears as a sum over the rows before it, so
that two ways of counting have to meet: the loop's, which carries a remainder down the
list, and the ledger's, which asks what the older rows hold.

`SumTheorems` has the facts about sums that this takes. `SumFunctionOnSet` of the community
modules is a fold that takes a set's members in an order of its own; what it computes
is proved here for every finite set by the least set for which it would be wrong (`LeastSet`),
since strict inclusion of finite sets is well-founded. `LeastNumber`, the same for the
naturals, stands for induction over lengths.

`TradeApiProofs` proves of `ApiSpec`, for any number of calls, failures and late posts, all
requests and ticks:

* `ApiTypeCorrect`: `[]ApiTypeOK`; `"%.4f"` puts every number on a tick;
* `OneOrder`: `[]OneOrderPerCall`;
* `OwnOrder`: `[]ReturnsItsOwnOrder`;
* `ClosedForGood`: `ClosingIsFinal`.

The assumptions are that ticks, gains and requests are numbers (`TickAssumption`,
`GainsAssumption`, `RequestsAssumption`), and that `generate_order_id` returns a client id
not used before, which is what `FreshCid` chooses; that there always is one, among as many
numbers as there are orders and posts and one more, is a lemma. `AInv` says that client ids
tell the orders and the posts on their way apart; that the client id of a call which has
yet to post is new to both; and that whatever bears the client id of a call that
asks is its own post, so that the answer to the question is the right one.

`GridTradeProofs` proves of the whole program (`Spec` of `GridTrade`):

* `OnePending`: `[]OnePendingPerSegment`, for every grid and set of quotes, and
  for any number of orders, failed calls, lost answers and crashes.

The assumptions are that every segment sells above the price it buys at, which
`plugin_initialize` enforces (`TacticsAssumption`), and that a bid is never
above an ask (`QuotesAssumption`). The property is far from inductive: it
says nothing of why the two placing loops, which look only at `dealing_segs`,
cannot meet an open row. `IInv` follows an open row through a round:

* while settling, it is in the list of its table, since nothing is inserted
  between the two queries and the end of settling (`SeenInv`);
* after that its segment is in `dealing_segs`, also if the settling was cut
  short by an exception, or else a placing loop of this round inserted it. Then
  the loop has passed the segment, and the quote is at or above the segment's
  sale price for a sale, at or below its buy price for a buy (`SalesInv`,
  `BuysInv`, `CallInv`);
* the two assumptions make the last two exclude each other, so that the buy
  loop does not come to a segment where the sale loop has just sold.

Of the database it needs only that an open row was never used, so that the
queries find it, and that a transaction closes rows and opens none (`DbInv`).
What the columns of numbers hold does not matter. `IInv` also passes TLC on the
instances of `grid_nominal` and `grid_faults`.

`GridBooksProofs` proves of the whole program:

* `ClientOfDatabase`: the loop's use of the database is a behaviour of `DbSpec`, with every
  closing result of the exchange for `Results` and all naturals for `Numbers`;
  `grid_live` checks it on an instance as `ClientSpec`. Hence `ProgramKeepsLedger`: the
  whole program implements the segment ledger, and `SaleRowBalance`, `ClosedIffHistory` and
  `ValidStandsForFree` hold of it;
* `ProgramPlacesOnce`: `OneOrderPerCall` and `ReturnsItsOwnOrder` of the API plugin hold of
  the program, though it may die in a call and its post arrive in a later one;
* `GridTypeCorrect`: `[]GridTypeOK`;
* `ClosedFinal`: `[]ClosedRowsAreFinal`;
* `OrphansCost`: `[]OrphansNeedFaults`;
* `BuysBacked`: `[]BuyBacked`;
* `NotOversold`: `[]NeverOversold`;
* `CoinsKept`: `[]CoinsInv`, and `NotShort`: `[]NeverShort`.

Both plugins' proof modules are instantiated here, so that their inductive
invariants are parts of this one, `BooksInv`, and their lemmas do the plugins' steps.
Its other parts: every row has an order at the exchange of its side and segment, and no two
rows the same order (`RowsInv`); the status a transaction is delivering is the one its order ended with
(`DealInv`); orders without a row are paid for, each by a failure but for the one whose
INSERT is next (`CountInv`); the locals of the round are ids of rows that were
open, or sold, when the list was read (`RoundInv`, `TodoInv`). The last four theorems follow
money and coins through it. `BuyBacked` needs that a
segment has one open buy (`IInv`), that only a buy spends proceeds, and that no sale of a
segment closes between its `get_sold_number` and the INSERT of the buy computed from it.
For `NeverOversold` the order that is being placed counts as well: `AskInv` says that what
the segment has sold and not bought back, with the number asked for, is within
`sale_number` and half a tick from the rounding of `"%.4f"`, and that stays so until
the INSERT, since no row of the segment changes while its call is under way.

`NeverShort` is about what the exchange did, not about what the rows say of it: the
coins its orders of a segment sold, less those they bought. It cannot be true of every
grid. `NeverOversold` counts a sale that is partly bought back by what its free
proceeds are worth at the price it sold at, so a buy at a higher price, or a sale whose
premium goes below the price of the buy, loses coins that no row shows. The property
therefore has a condition, `Earns(s)`: the sale price less the premium is above
the buy price plus the premium, by a tick for the rounding of both. The fee's part of
each sale is left out of the coins that must come back (`FeeRate`). Nothing is asked of
quotes, fills or failures. `CoinsInv` says of the steps in between

* `PriceInv`: an order that is asked for, on its way or at the exchange sells no lower than
  `LowestSale` and buys no higher than `HighestBuy`, but for half a tick of `"%.4f"`,
  because `new_order` looks at the quote before it takes off the premium, and the premium
  keeps the order of prices (`PremiumKeepsOrder`); and the exchange deals at
  that price or better;
* `RowsSold`: a closed sale has the price its order dealt at, and what is used and free
  of its proceeds is all of them but the fee;
* `SpentWithin`: what was used of a segment's sales is at most its dearest price for
  every coin that its closed buys brought. A closing takes the whole cost of a
  buy from the sales of its segment (`PaidTogether` of `TradeDbProofs`), since `BuyBacked`
  has the proceeds that it needs.

Then, for each sale, what it brought is used or free (`RowsSold`), the free part is worth
`valid_sale_number` coins and half a unit at its own price, and the used part, summed over the segment,
bought a coin for every coin's worth at the cheapest price, as `Earns` says that
this is no less than the dearest. `NeverOversold` bounds the `valid_sale_number`s, and
the sum is the property. An open order has its part too: a sale counts with
its whole number in `NeverOversold`, and what an open buy has bought only helps.

`BoundsAssumption`
(there are ids for as many orders as the bounds allow) is the only assumption about the
instance that is not one about the program.

A proof that failed was a finding about the model: `GridTypeOK` typed `todo` by a
CASE with overlapping guards, whose choice between them nothing fixes; it has been made
one condition per label.

`PacingProofs` proves of the grid with its clocks (`PacedSpec`):

* `PacedIsGrid`: it implements `Spec`, since each of its steps is a step of
  `GridTrade` or a stutter; hence `PacedOnePending`, and whatever else is proved of
  `Spec`;
* `NotEarly`: `CancelNotEarly`, for all options, any difference of the clocks, and any
  number of orders, failures and crashes. The assumptions are that the options are
  ints of either sign and the clocks stay clear of zero and of the width
  (`SecondsAssumption`, `ClockAssumption`). A cancel is several steps away from
  what justifies it, and `TimeInv` follows the order through them: the exchange
  accepts it before `new_order` returns its id, so that its row is stamped no
  earlier (`create_time >= accepted_at + ahead`); rows keep their order and
  their stamp; the loop compares the stamp with the host's clock, without going
  below zero since the database is not ahead; and from then on the host's clock only
  goes on, while the loop asks for the cancel of that very row;
* `RateIsLimited`: `[]RateLimited`, for all options (cooldowns, interval and maxima may be
  negative, as `plugin_initialize` checks none of them) and any number of orders, failures and
  crashes. It says of any window as long as a side's cooldown (`Window`, no shorter than the
  interval of the rounds) that the exchange accepted at most a batch in it, and a batch
  more per failure. That is not inductive: a window that is full today says nothing of the
  orders still to come in it. The invariant `RateInv` (`RateInvariance`) bounds, for every
  window that has not ended, the sum `Load` of three things: the orders accepted in it, the posts of the side
  still on their way, and the room that the loop has left, which is a batch if the side
  has placed nothing since the window began, what `count` leaves of the batch while the
  loop is at it, and nothing afterwards. So an order moves from one term to the next, from the room to
  the exchange, and the sum stays. A failure may bring the room back (an exception before
  `last_sale_time_` is stored, a restart that forgets it), and pays for it with a batch; a post that
  outlives its call was counted by the failure of that call, so that never more
  are on their way than there were failures (`OrderSides`). What makes a new batch wait
  for the next window is `Rested` with `WakesLate`: a round begins an interval after
  the last order at the earliest, and the loop goes on only if the cooldown is over (of a
  negative `every_sale_sleep_seconds`, which the code compares as unsigned, the proof
  uses no more than the interval). `ClockAssumption` has the clock start after the epoch: the code takes a
  `last_sale_time_` of 0 for never.

`StartupProofs` proves of `StartupSpec`, for every set of option files, with any number of
lines of any length:

* `Passes`: `[]PassesIffSound`;
* `CanRun`: `[]GridCanRun`, which is the assumption of `GridTrade` about its segments, but
  for `nan`;
* `Whole`: `[]RunsWhole`, and `StartupTypes`: `[]StartupTypeOK`.

`SInv` says that the lines before `next` are those `tactics_` holds, one each, and that
nothing of a process is left when it is down.

`ApiRequestProofs` proves of `ApiRequestSpec`, for any number of calls and pieces, keys,
losses and delays:

* `OwnAnswer`: `[]ValueIsOwnAnswer`. `RInv` says that a number is on its way to the
  exchange at most once and not after it was executed, and that the pieces in
  the buffer, and those yet to come, belong to the call in progress;
* `EscapeLosesNothing`: `escapeURL` writes every char so that two hexadecimal digits
  give its byte back, the negative ones included; and for whole texts
  `EscapedTextComesThrough`: the exchange's decoder reads from what `escapeURL` wrote the
  text that went in, for every text. The encoder flattens a sequence and the decoder is a
  fold; both are unfolded one byte at a time, and `EachSequence` (from `LeastNumber`)
  takes that to every length;
* `SignaturesVerify`: `[]RequestVerifies`: a request signed with the right key verifies, for all
  keys, client ids and times, and for every value a signature may have. The
  assumption (`RequestTextAssumption`) is that keys, client ids and the digits of a time
  are of characters that a URL takes as they are, which the code relies on where it does
  not escape them. `TInv` says that the URL on its way is the one that `SignedUrl` puts
  together, whatever has become of it;
* `RequestTypes`: `[]ApiRequestTypeOK`.

Every safety property that a passing run checks is so proved. Only model-checked is
liveness (`CallReturns`, `EveryOrderSettles`, `LoopSurvives`, `ComesUp`, `CallEnds`): it
is out of the prover's reach, as fairness and ENABLED are.

## 5. What is not modelled

* A premium that is negative or takes the whole price (`OptionsAssumption`), though
  `plugin_initialize` would take it: a sale would have no price, or an order would wait
  beyond the quote it was computed from.
* The start order of the plugins beyond "what a plugin requires comes first"
  (appbase is not in the repository), and the options that are copied into a
  field and used as they are (hosts, names, URLs, the pair).
* libcurl and openssl, whose results are what `ApiRequest` says they can be; the
  header list that `http_call_sync` never frees. The logger and the mail
  plugin, which is looked up and never used.
* The contents of `get_price`'s answer beyond one quote; an empty `bid` or `ask`
  array, which the code dereferences.
* Edits of the segments between runs while their sales wait to be bought back, and
  the collation by which MySQL compares a `seg_id`: the segments of `GridTrade` are
  fixed and distinct.
* Clocks that are set while the program runs, in `Pacing` (`GridTrade` has them).
* The tests: they call a live exchange and database.

## 6. The plan

Done: the ledger, the API plugin, the grid loop over both, the clocks, the start, the
request, and the proofs above. Next: segments that are edited between two runs of the
program, as `Startup` has them, under the ledger.

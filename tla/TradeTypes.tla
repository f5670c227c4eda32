------------------------------ MODULE TradeTypes ------------------------------
(***************************************************************************)
(* The enumerations and records that cross the borders of the three        *)
(* plugins (trade_db_types.h, trade_api_plugin_impl.h) and the conversions *)
(* between them: what the exchange says of an order, and the transaction   *)
(* record that the deliverer makes of it.                                  *)
(*                                                                         *)
(* Numbers of coins, prices and amounts of money are integers: an amount   *)
(* is a number times a price.  One unit of a number is the last decimal    *)
(* that the database keeps.                                                *)
(***************************************************************************)
EXTENDS Integers

CONSTANTS FeeIsFree,   \* grid-fee-is-free: the fee is not charged to the trade
          NaN          \* the IEEE result of 0.0/0.0, not a number

ASSUME FeeIsFreeAssumption == FeeIsFree \in BOOLEAN
ASSUME NaNAssumption == NaN \notin Int

-----------------------------------------------------------------------------
(* enum db_tx_order_status, enum db_tx_use_status, enum trade_order_status *)

db_tx_processing     == 0
db_tx_portion_closed == 1
db_tx_complet_closed == 2
db_tx_untrad_closed  == 3

db_tx_unused       == 0
db_tx_portion_used == 1
db_tx_complet_used == 2

order_processing     == 0
order_portion_closed == 1
order_complet_closed == 2
order_untrade_closed == 3

(***************************************************************************)
(* A double quotient stored in a DECIMAL column: rounded to the column's   *)
(* last decimal, or NaN for 0/0, which is no SQL literal.                  *)
(***************************************************************************)
Quotient(a, b) == IF b = 0 THEN NaN ELSE (2 * a + b) \div (2 * b)

(***************************************************************************)
(* order_result_type: what get_order_status returns.  A legal result of a  *)
(* closed order has deals unless the order is closed untraded; price is    *)
(* the average amount/number, and the fee is a part of the amount.         *)
(***************************************************************************)
OrderResults ==
  [status: 0..3, price: Nat, number: Nat, amount: Nat, fee: Nat]

IsClosing(res) ==
  /\ res.status # order_processing
  /\ res.amount = res.price * res.number
  /\ IF res.status = order_untrade_closed
     THEN res.number = 0 /\ res.price = 0 /\ res.fee = 0
     ELSE res.number > 0 /\ res.price > 0 /\ res.fee < res.amount

-----------------------------------------------------------------------------
(***************************************************************************)
(* delvier_order::complete_sale_order: the sale transaction to deliver.    *)
(* All proceeds are free to buy back; valid_sale_number is what they stand *)
(* for in coins at the deal price.  status is a cast between the two       *)
(* enumerations, which agree number by number.                             *)
(***************************************************************************)
charged_fee(res) == IF FeeIsFree THEN 0 ELSE res.fee

mut_GrossAmount(res) == res.amount  \* mutant: fee not subtracted
net_amount(res) == res.amount - charged_fee(res)

complete_sale_order(id, res) ==
  [id                |-> id,
   deal_price        |-> res.price,
   deal_number       |-> res.number,
   deal_fee          |-> charged_fee(res),
   history_fee       |-> res.fee,
   deal_amount       |-> res.amount,
   used_buy_amount   |-> 0,
   free_buy_amount   |-> net_amount(res),
   valid_sale_number |-> Quotient(net_amount(res), res.price),
   status            |-> res.status,
   use_status        |-> db_tx_unused]

(* delvier_order::complete_buy_order: the buy transaction to deliver.      *)
complete_buy_order(id, res) ==
  [id          |-> id,
   deal_number |-> res.number,
   deal_fee    |-> charged_fee(res),
   history_fee |-> res.fee,
   deal_amount |-> res.amount,
   status      |-> res.status]

=============================================================================

------------------------------- MODULE MCTradeDb -------------------------------
(***************************************************************************)
(* TLC instance of the database plugin: two segments, deals whose amounts  *)
(* meet in every way (a buy smaller than, equal to and larger than a sale, *)
(* a buy that spans two sales), a fee, and an untraded order.              *)
(***************************************************************************)
EXTENDS TradeDbSpec, TLC

CONSTANTS a, b, o1, o2, o3, o4, o5  \* model values

MCSegs == {a, b}
MCOrderIds == {o1, o2, o3, o4, o5}
MCSymmetry == Permutations(MCSegs) \cup Permutations(MCOrderIds)
MCNumbers == {3}

Result(status, price, number, fee) ==
  [status |-> status, price |-> price, number |-> number,
   amount |-> price * number, fee |-> fee]

MCResults ==
  {Result(order_complet_closed, 2, 3, 1),
   Result(order_portion_closed, 3, 1, 0),
   Result(order_untrade_closed, 0, 0, 0)}

=============================================================================

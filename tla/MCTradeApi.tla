------------------------------ MODULE MCTradeApi -------------------------------
(***************************************************************************)
(* TLC instance of the API plugin: a number that is rounded up, one on a   *)
(* tie, and two orders at most.                                            *)
(***************************************************************************)
EXTENDS TradeApiSpec

MCRequests == {[side |-> "sale", num |-> 3, den |-> 1, price |-> 5],
               [side |-> "buy", num |-> 20, den |-> 6, price |-> 6]}
MCGains == {0, 1}

=============================================================================

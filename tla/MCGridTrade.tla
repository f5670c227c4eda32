------------------------------ MODULE MCGridTrade ------------------------------
(***************************************************************************)
(* TLC instances of the grid: two overlapping segments, a market that is   *)
(* high enough for both to sell or low enough for both to buy.             *)
(***************************************************************************)
EXTENDS GridProperties

MCSegs == {1, 2}
MCSalePrice  == <<20, 18>>
MCBuyPrice   == <<10, 12>>
MCSaleNumber == <<6, 6>>

Quote(bid, bidnum, ask, asknum) ==
  [bid |-> bid, bidnum |-> bidnum, ask |-> ask, asknum |-> asknum]

MCQuotes == {Quote(20, 12, 20, 10), Quote(10, 12, 10, 10)}

MCOrderIds == 1 .. MaxOrders + MaxFaults
MCGains == {0}
MCBetterGains == {0, 2}

(* The database plugin's own specification, its client's inputs bounded by *)
(* what two sales and their buys can come to.                              *)
ClosingResult(status, p, n) ==
  [status |-> status, price |-> p, number |-> n, amount |-> p * n,
   fee |-> (p * n * FeePermille) \div 1000]

ClientResults ==
  {res \in {ClosingResult(status, p, n) :
              status \in 1..3, p \in {0, 9, 11, 18, 20}, n \in 0..12} :
     IsClosing(res)}

Client == INSTANCE TradeDbSpec WITH
  Results <- ClientResults, Numbers <- 0..120,
  MaxSales <- MaxOrders, MaxBuys <- MaxOrders

ClientSpec == Client!DbSpec

=============================================================================

------------------------------- MODULE MCPacing -------------------------------
(***************************************************************************)
(* TLC instances of the grid with its clocks: the grid of MCGridTrade, all *)
(* of an order filled at once, and seconds so few that two rounds fit in a *)
(* cooldown.                                                               *)
(***************************************************************************)
EXTENDS Pacing

MCSegs == {1, 2}
MCSalePrice  == <<20, 18>>
MCBuyPrice   == <<10, 12>>
MCSaleNumber == <<6, 6>>

Quote(bid, bidnum, ask, asknum) ==
  [bid |-> bid, bidnum |-> bidnum, ask |-> ask, asknum |-> asknum]

MCQuotes == {Quote(20, 12, 20, 10), Quote(10, 12, 10, 10)}
MCOrderIds == 1 .. MaxOrders + MaxFaults
MCGains == {0}

MCSleepSeconds == [sale |-> 3, buy |-> 2]
MCSkews == {0, -1}
MCAhead == {2}

=============================================================================

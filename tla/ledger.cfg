\* The database plugin under its client, the fee charged to the trade.
SPECIFICATION DbSpec
CONSTANTS
  FeeIsFree = FALSE
  NaN = NaN
  Segs <- MCSegs
  OrderIds <- MCOrderIds
  Results <- MCResults
  Numbers <- MCNumbers
  MaxSales = 3
  MaxBuys = 2
  a = a
  b = b
  o1 = o1
  o2 = o2
  o3 = o3
  o4 = o4
  o5 = o5
SYMMETRY MCSymmetry
INVARIANTS
  DbTypeOK
  SaleRowBalance
  UseStatusTellsTruth
  ClosedIffHistory
  ValidStandsForFree
PROPERTY
  LedgerSpec
\* The client stops when the tables are full and every order is closed.
CHECK_DEADLOCK FALSE

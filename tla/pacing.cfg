\* The clocks agree, or the database's is behind by a second.  The clock of
\* the run stops at MaxTime, and the timer with it.
SPECIFICATION PacedSpec
CHECK_DEADLOCK FALSE
CONSTANTS
  FeeIsFree = TRUE
  NaN = NaN
  Segs <- MCSegs
  OrderIds <- MCOrderIds
  SalePrice <- MCSalePrice
  BuyPrice <- MCBuyPrice
  SaleNumber <- MCSaleNumber
  MinNumber = 2
  EveryMaxSale = 1
  EveryMaxBuy = 0
  PremiumPermille = 100
  Quotes <- MCQuotes
  NumTick = 2
  PriceTick = 1
  FeePermille = 100
  Gains <- MCGains
  Lot = 6
  MaxOrders = 3
  MaxFaults = 1
  Interval = 1
  OrderCancelSeconds = 2
  SleepSeconds <- MCSleepSeconds
  Width = 64
  Skews <- MCSkews
  StartTime = 10
  MaxTime = 15
INVARIANTS
  RateLimited
PROPERTIES
  CancelNotEarly

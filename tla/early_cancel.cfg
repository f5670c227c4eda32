\* The database's clock is ahead of the host's by more than the interval of
\* the rounds, and nothing fails.
SPECIFICATION PacedSpec
CHECK_DEADLOCK FALSE
CONSTANTS
  FeeIsFree = TRUE
  NaN = NaN
  Segs <- MCSegs
  OrderIds <- MCOrderIds
  SalePrice <- MCSalePrice
  BuyPrice <- MCBuyPrice
  SaleNumber <- MCSaleNumber
  MinNumber = 2
  EveryMaxSale = 1
  EveryMaxBuy = 0
  PremiumPermille = 100
  Quotes <- MCQuotes
  NumTick = 2
  PriceTick = 1
  FeePermille = 100
  Gains <- MCGains
  Lot = 6
  MaxOrders = 3
  MaxFaults = 0
  Interval = 1
  OrderCancelSeconds = 2
  SleepSeconds <- MCSleepSeconds
  Width = 64
  Skews <- MCAhead
  StartTime = 10
  MaxTime = 15
PROPERTIES
  WaitsToCancel

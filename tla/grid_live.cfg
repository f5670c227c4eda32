\* The loop makes progress under fairness, one failure included.
SPECIFICATION LiveSpec
CONSTANTS
  FeeIsFree = TRUE
  NaN = NaN
  Segs <- MCSegs
  OrderIds <- MCOrderIds
  SalePrice <- MCSalePrice
  BuyPrice <- MCBuyPrice
  SaleNumber <- MCSaleNumber
  MinNumber = 2
  EveryMaxSale = 4
  EveryMaxBuy = 1
  PremiumPermille = 100
  Quotes <- MCQuotes
  NumTick = 2
  PriceTick = 1
  FeePermille = 100
  Gains <- MCGains
  Lot = 4
  MaxOrders = 2
  MaxFaults = 1
PROPERTIES
  EveryOrderSettles
  LoopSurvives
  ClientSpec

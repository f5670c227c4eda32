\* Four orders, nothing fails: the numbers and the money of the segments.
SPECIFICATION Spec
CONSTANTS
  FeeIsFree = FALSE
  NaN = NaN
  Segs <- MCSegs
  OrderIds <- MCOrderIds
  SalePrice <- MCSalePrice
  BuyPrice <- MCBuyPrice
  SaleNumber <- MCSaleNumber
  MinNumber = 2
  EveryMaxSale = 4
  EveryMaxBuy = 1
  PremiumPermille = 100
  Quotes <- MCQuotes
  NumTick = 2
  PriceTick = 1
  FeePermille = 100
  Gains <- MCBetterGains
  Lot = 4
  MaxOrders = 4
  MaxFaults = 0
INVARIANTS
  OnePendingPerSegment
  NeverOversold
  NeverShort
  BuyBacked

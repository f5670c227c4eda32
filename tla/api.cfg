\* new_order against an exchange that fails as often as it likes.
SPECIFICATION ApiSpec
CONSTANTS
  FeeIsFree = TRUE
  NaN = NaN
  NumTick = 2
  PriceTick = 1
  FeePermille = 2
  Gains <- MCGains
  Requests <- MCRequests
  MaxCalls = 2
INVARIANTS
  ApiTypeOK
  OneOrderPerCall
  ReturnsItsOwnOrder
PROPERTIES
  ClosingIsFinal
  CallReturns
\* The client stops at its bound when every order is closed.
CHECK_DEADLOCK FALSE

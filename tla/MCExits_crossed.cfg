SPECIFICATION Spec
CONSTANTS
  a = a
  b = b
  c = c
  Tickers = {a, b, c}
  Lots <- TheLots
  Owner <- TheOwner
  Ticker <- TheTicker
  Side <- TheSide
  Arb <- TheArb
  Profiles <- Crossed
  MaxSize = 2
  MaxSales = 2
INVARIANTS
  SellOnlyCloses
CHECK_DEADLOCK FALSE

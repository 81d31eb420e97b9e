SPECIFICATION Spec
CONSTANTS
  h = h
  c = c
  Legs <- PairLegs
  HardLeg = h
  Ticker <- MarketPerKey
  YesLegs <- PairLegs
  Count = 1
  MaxAttempts = 2
  MaxRetries = 2
  Threshold = 2
  MaxCrashes = 0
  Flaky = {1, 2}
  Faults = {"lostbuy", "rowwrite", "kswrite", "script", "elsewhere"}
PROPERTIES
  ImplementsAtomicArb
CHECK_DEADLOCK FALSE

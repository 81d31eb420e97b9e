SPECIFICATION FairSpec
CONSTANTS
  h = h
  c = c
  Legs <- PairLegs
  HardLeg = h
  Ticker <- OneMarket
  YesLegs <- BinaryYes
  Count = 1
  MaxAttempts = 2
  MaxRetries = 2
  Threshold = 1
  MaxCrashes = 1
  Flaky = {1}
  Faults = {"lostbuy", "query", "rowwrite", "script", "elsewhere"}
INVARIANTS
  TypeOK
  HardBeforeCheap
  IntentBeforeOrder
  HeldIsVisible
PROPERTIES
  AttemptEnds
  KillSwitchBlocks
CHECK_DEADLOCK FALSE

SPECIFICATION FairSpec
CONSTANTS
  Tickers = {t}
  NoTicker = NoTicker
  Count = 2
  MaxAttempts = 1
  MaxRetries = 2
  ConfirmTicks = 1
  MaxNaked = 2
  Threshold = 1
  CountClean = TRUE
  MaxResumes = 1
  SmallOrphan = 2
  EscalateCount = 2
  MaxCrashes = 1
  Faults = {"lostbuy", "lostsell", "shortbuy", "shortsell", "capture", "elsewhere", "script", "person"}
INVARIANTS
  HeldIsVisible
PROPERTIES
  OrphanStopsMotor
  KillSwitchBlocks
  OnlyTheBreakerLifts
  BreakerHolds
  RepeatedOrphansEscalate
  PauseEnds
CHECK_DEADLOCK FALSE

SPECIFICATION Spec
CONSTANTS
  Tickers = {t}
  NoTicker = NoTicker
  Count = 1
  MaxAttempts = 1
  MaxRetries = 1
  ConfirmTicks = 1
  MaxNaked = 2
  Threshold = 1
  CountClean = TRUE
  MaxResumes = 1
  SmallOrphan = 1
  EscalateCount = 2
  MaxCrashes = 0
  Faults = {"elsewhere", "midway"}
PROPERTIES
  KillSwitchBlocks
CHECK_DEADLOCK FALSE

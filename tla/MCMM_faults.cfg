SPECIFICATION Spec
CONSTANTS
  Tickers = {k, m}
  MaxOrders <- BidsOnly
  Size = 1
  MaxInventory = 1
  MaxOpen = 1
  MaxCrashes = 1
  MaxKills = 1
  Faults = {"place", "again", "cancel", "query"}
INVARIANTS
  CanaryCap
  KillStops
CHECK_DEADLOCK FALSE

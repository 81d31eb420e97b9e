SPECIFICATION FairSpec
CONSTANTS
  Tickers = {k}
  MaxOrders <- BidsFirst
  Size = 2
  MaxInventory = 1
  MaxOpen = 4
  MaxCrashes = 1
  MaxKills = 1
  Faults = {"place", "cancel"}
INVARIANTS
  OneQuotePerSide
  RowsTellTruth
  InventoryCap
PROPERTIES
  FillsKept
  FillsReachInventory
CHECK_DEADLOCK FALSE

SPECIFICATION Spec
CONSTANTS
  Profiles <- MCProfiles
  None = None
  Balances = {92, 96, 100}
  Bids = {4}
  MaxSlots = 3
  MaxCount = 2
  Price <- MCPrice
  Fee = 1
  UnitPct = 10
  RefUnit = 10
  AggregateUnits = 2
  HardCap = 100
  Stop <- MCStop
  MaxRestarts = 1
INVARIANTS
  ExposureBounded
  DailyBudgetHolds
  SmallChangesAddUp
PROPERTIES
  FatalLossLatches
CHECK_DEADLOCK FALSE

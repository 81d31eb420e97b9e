SPECIFICATION Spec
CONSTANTS
  x = x  y = y  z = z  b = b
  RestMarkets = {x, y, z, b}
  EventOf <- TheEvents
  MultiEvents = {"e"}
  Ticks <- TheTicks
  DefaultCount = 100
  Authorised = {1, 2, 4, 10}
  MinEdge = 1
  MinDepth = 2
  MinLegs = 3
  ExecEdge = 15
  MaxEdge = 100
  LotPrices = {81, 87}
  LotSizes = {1, 3}
  MaxLots = 2
  Bids = {84, 90, 96}
  TakeProfit = 90
  Drop = 5
  MinSell = 84
  MaxExits = 2
  Levels <- TheLevels
  Changes <- TheChanges
  MaxLevel = 150
  Fairs = {8, 455, 500}
  Books <- TheBooks
  Multipliers = {1, 2}
  HalfSpread = 2
  EdgeSkew = 1
  Size = 1
  MaxInventory = 2
  JumpRetreat = 10
  Games <- TheGames
  Events <- TheKeys
  GameOf <- TheGameOf
  LastHour = 119
  MaxBets = 1
  Panels <- ThePanels
  MinBooks = 2
  Prices = {38, 44, 58}
  Quotes <- TheQuotes
  Depths = {2, 1000}
  Capital = 3516
  StakePct = {0, 5}
  FeeAtStake = {TRUE, FALSE}
  MinBetEdge = 1
  MaxBetEdge = 15
  MinEntry = 40
INVARIANTS ArbPays LedgerNeverFlatters BookIsReal CleanTellsAll ShadowCap QuoteRests
PROPERTIES BetIsSound ExitsKeepProfit

SPECIFICATION FairSpec
CONSTANTS
  Tickers = {A, B}
  MaxSeq = 3
  Ids <- ThreeIds
  ChunkSize = 2
  BootCap = 1
  BufferCap = 2
  MaxFailures = 2
  MaxFaults = 1
  MaxClosed = 0
  MaxLag = 0
  Faults = {"loss", "silence", "send", "slow"}
PROPERTIES
  BlindIsSeeded
CHECK_DEADLOCK FALSE

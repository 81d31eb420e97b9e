SPECIFICATION Spec
CONSTANTS
  Tickers = {A, B}
  MaxSeq = 3
  Ids <- FourIds
  ChunkSize = 1
  BootCap = 1
  BufferCap = 2
  MaxFailures = 2
  MaxFaults = 2
  MaxClosed = 1
  MaxLag = 1
  Faults = {"loss", "silence", "reject", "send"}
SYMMETRY Permuted
INVARIANTS
  ServedIsTrue
PROPERTIES
  GapBlindsAll
CHECK_DEADLOCK FALSE

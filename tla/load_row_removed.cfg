SPECIFICATION Spec
CONSTANTS
  Keys <- MCKeys
  Absent = Absent
  None = None
  NumPipelines = 1
  Kinds = {"delete"}
  LowWatermark = 1
  MaxLog = 2
  MaxOverlap = 0
  MaxDdl = 0
  OverlappingTransactions = FALSE
  ChunkSize = 1
  PauseAfterChunks = 2
  MaxStops = 0
  RowsMoveBehind = TRUE
  OpenAtWatermark = FALSE
INVARIANT NoRowMissed
CHECK_DEADLOCK FALSE

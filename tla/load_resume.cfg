SPECIFICATION Spec
CONSTANTS
  Keys <- MCKeys
  Absent = Absent
  None = None
  NumPipelines = 1
  Kinds = {"upsert", "delete"}
  LowWatermark = 1
  MaxLog = 2
  MaxOverlap = 0
  MaxDdl = 0
  OverlappingTransactions = FALSE
  ChunkSize = 1
  PauseAfterChunks = 2
  MaxStops = 1
  RowsMoveBehind = FALSE
  OpenAtWatermark = FALSE
INVARIANTS TypeOK HandoffAsAssumed OneRowPerKey ResumesWhereItStopped
PROPERTY ProgressIsKept
CHECK_DEADLOCK FALSE

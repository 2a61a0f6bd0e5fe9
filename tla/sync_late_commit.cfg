SPECIFICATION Spec
CONSTANTS
  Keys = {k1, k2}
  Absent = Absent
  NumPipelines = 1
  Kinds = {"upsert", "delete"}
  LowWatermark = 1
  MaxLog = 2
  MaxOverlap = 1
  MaxDdl = 0
  OverlappingTransactions = TRUE
  QueueCapacity = 2
  MaxAttempts = 2
  MaxCrashes = 1
SYMMETRY KeySymmetry
INVARIANT
  NoGap

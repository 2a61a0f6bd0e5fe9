SPECIFICATION Spec
CONSTANTS
  Keys = {k1, k2}
  Absent = Absent
  NumPipelines = 1
  Kinds = {"upsert", "unappliable"}
  LowWatermark = 1
  MaxLog = 3
  MaxOverlap = 1
  MaxDdl = 1
  OverlappingTransactions = FALSE
  QueueCapacity = 2
  MaxAttempts = 2
  MaxCrashes = 1
SYMMETRY KeySymmetry
INVARIANTS
  TypeOK
  NoGap
  BaseIsReplay
  DrainedMeansEqual
  TargetFollowsBase
PROPERTIES
  NoRedeliveryOfRecorded
  ImplementsOrderedApply

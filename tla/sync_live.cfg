SPECIFICATION FairSpec
CONSTANTS
  Keys = {k1}
  Absent = Absent
  NumPipelines = 2
  Kinds = {"upsert", "delete"}
  LowWatermark = 0
  MaxLog = 2
  MaxOverlap = 1
  MaxDdl = 1
  OverlappingTransactions = FALSE
  QueueCapacity = 1
  MaxAttempts = 2
  MaxCrashes = 1
PROPERTIES
  NoDeliveryWhilePaused
  EveryChangeApplied
  TargetConverges

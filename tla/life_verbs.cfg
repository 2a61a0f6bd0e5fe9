SPECIFICATION LiveSpec
CONSTANTS
  Keys = {k1, k2}
  k1 = k1
  k2 = k2
  Absent = Absent
  NumPipelines = 2
  Transforms = {1}
  Initial = {1}
  Verbs = {"pause", "resume", "apply", "remove"}
  Interleaved = FALSE
  Stops = {"replace"}
  LoadPauses = FALSE
  Redeclares = FALSE
  MaxChanges = 2
  MaxRevision = 2
  MaxVerbs = 3
  MaxCrashes = 1
INVARIANTS TypeOK RunningPipelinesFollowBase BaseIsPrefix DerivedRowsAreCurrent BaseIffReferenced
PROPERTY OnlyRunningPipelinesReceive RunningPipelinesConverge BaseConverges
CHECK_DEADLOCK FALSE

SPECIFICATION Spec
CONSTANTS
  Keys = {k1}
  k1 = k1
  Absent = Absent
  NumPipelines = 2
  Transforms = {}
  Initial = {1}
  Verbs = {"apply"}
  Interleaved = TRUE
  Stops = {}
  LoadPauses = FALSE
  Redeclares = FALSE
  MaxChanges = 1
  MaxRevision = 1
  MaxVerbs = 1
  MaxCrashes = 0
INVARIANTS RunningPipelinesFollowBase
CHECK_DEADLOCK FALSE

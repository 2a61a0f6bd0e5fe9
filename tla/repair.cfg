SPECIFICATION FairSpec
CONSTANTS
  NumKeys = 2
  Absent = Absent
  Damaged = Damaged
  Cycles = {run, sync}
  Budgets = {1, 2}
  Interleaved = FALSE
  MaxChanges = 2
  MaxChecks = 2
  MaxDamage = 1
  MaxFaults = 1
INVARIANTS
  TypeOK
  BaseKeepsRecorded
  DocumentsFollow
PROPERTIES
  AlignmentRestores
  DriftRestores
  EveryChangeRecorded
CHECK_DEADLOCK FALSE

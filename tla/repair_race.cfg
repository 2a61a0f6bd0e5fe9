SPECIFICATION Spec
CONSTANTS
  NumKeys = 2
  Absent = Absent
  Damaged = Damaged
  Cycles = {run}
  Budgets = {2}
  Interleaved = TRUE
  MaxChanges = 2
  MaxChecks = 1
  MaxDamage = 0
  MaxFaults = 0
INVARIANT BaseKeepsRecorded
CHECK_DEADLOCK FALSE

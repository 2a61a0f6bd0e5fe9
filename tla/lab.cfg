SPECIFICATION MCSpec
CONSTANTS
  Runners = {a, b, c}
  Scenarios = {s}
  NoFile = NoFile
  MaxCrashes = 1
  MaxFaults = 1
  MaxOperator = 1
  MaxDisturbances = 2
  WideLimit = 1000000000
  NumberLimit = 10000000
  FloatDigits = 9
INVARIANTS
  OneScenarioAtATime
  ExclusiveCapture
  AppComesBack
  RemovedNamespaceIsGone
  CorrectProductPasses
  CapabilityFaultIsCaught
CHECK_DEADLOCK FALSE
SYMMETRY Symmetry

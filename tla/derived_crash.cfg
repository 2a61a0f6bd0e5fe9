SPECIFICATION Spec
CONSTANTS
  WideLimit = 1000000000
  NumberLimit = 100000
  FloatDigits = 4
  Transforms <- MCTransforms
  Primary = "customers"
  Foreign = "orders"
  KeyField <- MCKeyField
  Rows <- MCRows
  Loads <- InStep
  RowsLoaded = 2
  MaxAttempts = 2
  MaxChanges = 2
  MaxCrashes = 1
INVARIANT DerivedIsEvaluation
CHECK_DEADLOCK FALSE

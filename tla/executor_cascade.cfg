SPECIFICATION Spec
CONSTANTS
  a = a
  b = b
  c = c
  Tables <- ThreeTables
  Plan <- SkipThenCopy
  Skipped = {c}
  NumRows <- Rows
  Keyed = {a}
  Cascade <- AReferencesB
  PlannedRows = 4
  None = none
  BatchSize = 2
  MaxRetries = 1
  StableScans = TRUE
  FaultKinds = {}
  MaxFaults = 0
PROPERTY TruncatesOneTable
CHECK_DEADLOCK FALSE

SPECIFICATION FairSpec
CONSTANTS
  a = a
  b = b
  c = c
  Tables <- ThreeTables
  Plan <- SkipThenCopy
  Skipped = {c}
  NumRows <- Rows
  Keyed = {a}
  Cascade <- NoReferences
  PlannedRows = 4
  None = none
  BatchSize = 2
  MaxRetries = 1
  StableScans = TRUE
  FaultKinds = {"create", "truncate", "fetch", "insert_clean", "insert_partial", "insert_late", "insert_open", "callback", "rerun"}
  MaxFaults = 4
INVARIANTS TypeOK CompletedIsCopied DuplicatesAccounted GivesUpLate CountsAreRight
PROPERTIES KeepsPromise ProgressMovesOn Terminates
CHECK_DEADLOCK FALSE

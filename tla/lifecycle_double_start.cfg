SPECIFICATION Spec
CONSTANTS
  Requests = {r1, r2}
  Slots = {s1}
  TaskIds = {t1, t2}
  NoTask = none
  TotalBatches = 1
  FaultKinds = {}
  MaxFaults = 0
  CommitWins = FALSE
PROPERTY StartedFromPendingOrFailed
CHECK_DEADLOCK FALSE

SPECIFICATION Spec
CONSTANTS
  Requests = {r1}
  Slots = {s1}
  TaskIds = {t1}
  NoTask = none
  TotalBatches = 1
  FaultKinds = {}
  MaxFaults = 0
  CommitWins = FALSE
INVARIANT OutcomePersisted
CHECK_DEADLOCK FALSE

SPECIFICATION Spec
CONSTANTS
  Requests = {r1}
  Slots = {s1, s2}
  TaskIds = {t1, t2, t3}
  NoTask = none
  TotalBatches = 2
  FaultKinds = {"escape", "hard_limit", "revoke_lost"}
  MaxFaults = 2
  CommitWins = FALSE
SYMMETRY Symmetry
INVARIANTS OneCopier CompletedCounts
PROPERTY StartedFromPendingOrFailed
CHECK_DEADLOCK FALSE

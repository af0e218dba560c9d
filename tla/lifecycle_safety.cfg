SPECIFICATION Spec
CONSTANTS
  Requests = {r1}
  Slots = {s1, s2}
  TaskIds = {t1, t2}
  NoTask = none
  TotalBatches = 1
  FaultKinds = {"api_abort", "raise", "escape", "late_error", "worker_lost", "node_crash", "hard_limit", "early_restore", "revoke_lost"}
  MaxFaults = 2
  CommitWins = FALSE
SYMMETRY Symmetry
INVARIANTS TypeOK StatusStamped CompletedWasEarned NoLostTask
CHECK_DEADLOCK FALSE

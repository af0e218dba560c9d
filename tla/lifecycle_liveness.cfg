SPECIFICATION FairSpec
CONSTANTS
  Requests = {r1}
  Slots = {s1}
  TaskIds = {t1, t2}
  NoTask = none
  TotalBatches = 1
  FaultKinds = {"api_abort", "raise", "late_error", "worker_lost", "node_crash", "revoke_lost"}
  MaxFaults = 2
  CommitWins = TRUE
PROPERTIES EveryTaskEnds RunningEnds
CHECK_DEADLOCK FALSE

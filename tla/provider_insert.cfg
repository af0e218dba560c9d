SPECIFICATION Spec
CONSTANTS
  a = a
  b = b
  r1 = r1
  r2 = r2
  r3 = r3
  r4 = r4
  plain = plain
  odd = odd
  Kinds = {"postgres", "mysql", "sqlite"}
  Tables = {a, b}
  Rows = {r1, r2, r3, r4}
  RowClass <- Classes
  Keyed = {a}
  FaultKinds = {"statement", "commit", "late", "disconnect"}
  MaxFaults = 2
  MaxCalls = 3
  None = none
  Empty = empty
  Names = {plain, odd}
  Literal = {plain}
  Dsns = {odd}
  Replaced <- SameText
  urlparse <- FoundIn
INVARIANTS TypeOK InsertContract AckedIsDurable
CHECK_DEADLOCK FALSE

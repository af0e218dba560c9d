SPECIFICATION Spec
CONSTANTS
  t1 = t1
  t2 = t2
  Tables <- Two
  Requested <- OneThenTwiceTheOther
  SourceTables <- Sources
  DestTables <- Destinations
  Kinds <- AcrossKinds
  EstimateAbove = 2
  Estimates = {2, 3, 5}
  RowChars = 16383
  KeyChars = 768
  Missing = missing
  None = none
  FaultKinds = {"source_read", "table_exists", "destination_read"}
  MaxFaults = 2
INVARIANTS TypeOK PlansEveryTable TotalIsExact PlannedRowsAreAccepted
CHECK_DEADLOCK FALSE

SPECIFICATION Spec
CONSTANTS
  Kinds <- Anywhere
  SourceTables <- Sources
  DestTables <- Destinations
  MaxRows = 2
  MaxAttempts = 2
  EstimateAbove = 2
  Estimates = {}
  RowChars = 16383
  KeyChars = 768
  Missing = missing
  None = none
INVARIANTS TypeOK OwnTableStaysPlanned CreatedTableIsFaithful   OwnKindIsCreated
CHECK_DEADLOCK FALSE

SPECIFICATION FairSpec
CONSTANTS
  Batches = {1, 2}
  Items <- ThreeItems
  Keys = {"a", "b"}
  None = None
  AmazonKeyspaces = TRUE
  PageSize = 2
  BatchOf <- BatchOfThree
  KeyOf <- KeyOfThree
  RecordOf <- RecordOfThree
  Exact = {"a", "b", "c", "d"}
  MaxDuplicateRetries = 2
  MaxDbProblemRetries = 2
  FaultKinds = {"crash", "db", "collision"}
  MaxFaults = 2
INVARIANT TypeOK
INVARIANT KeyKept
INVARIANT SecondRowHasReason
INVARIANT IndexLeadsToRow
CHECK_DEADLOCK FALSE
PROPERTY CleanUpEnds

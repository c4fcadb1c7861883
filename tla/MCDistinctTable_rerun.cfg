SPECIFICATION FairSpec
CONSTANTS
  Batches = {1, 2}
  Items <- FourItems
  Keys = {"a", "b", "c", "d"}
  None = None
  AmazonKeyspaces = FALSE
  PageSize = 2
  BatchOf <- BatchOfFour
  KeyOf <- KeyOfFour
  RecordOf <- KeyOfFour
  Exact = {"a", "b", "c", "d"}
  MaxDuplicateRetries = 2
  MaxDbProblemRetries = 2
  FaultKinds = {"crash"}
  MaxFaults = 1
CHECK_DEADLOCK FALSE
PROPERTY CleanUpEnds

SPECIFICATION Spec
CONSTANTS
  Batches = {1, 2}
  Items <- TwoItems
  Keys = {"a"}
  None = None
  AmazonKeyspaces = TRUE
  PageSize = 1
  BatchOf <- BatchOfTwo
  KeyOf <- KeyOfTwo
  RecordOf <- KeyOfTwo
  Exact = {"a", "b", "c", "d"}
  MaxDuplicateRetries = 5
  MaxDbProblemRetries = 5
  FaultKinds = {}
  MaxFaults = 0
INVARIANT RecordsUnique
CHECK_DEADLOCK FALSE

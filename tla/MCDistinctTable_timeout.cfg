SPECIFICATION Spec
CONSTANTS
  Batches = {1}
  Items <- OneItem
  Keys = {"a"}
  None = None
  AmazonKeyspaces = TRUE
  PageSize = 1
  BatchOf <- BatchOfOne
  KeyOf <- KeyOfOne
  RecordOf <- RecordOfOne
  Exact = {"a", "b", "c", "d"}
  MaxDuplicateRetries = 5
  MaxDbProblemRetries = 5
  FaultKinds = {"db"}
  MaxFaults = 1
INVARIANT RecordsUnique
CHECK_DEADLOCK FALSE

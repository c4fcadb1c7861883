SPECIFICATION FairSpec
CONSTANTS
  v1 = v1
  v2 = v2
  Sources <- ManySources
  Uniqueness = {TRUE, FALSE}
  FirstToken = 1
  LastToken = 4
  RowsetSize = 3
  FlushSize = 2
  FieldsOf <- Contents
  KeyOf <- IndexKeys
  Exact = {1, 2, 3}
  HeaderLines = 1
  TagRecords <- Tagging
  Passing = {1, 2, 4}
  Workers = {v1, v2}
  MaxDuplicateRetries = 2
  MaxDbProblemRetries = 2
  None = None
  MaxRead = 4
  FaultKinds = {"read", "eval", "db", "collision", "patience"}
  MaxFaults = 2
INVARIANT WrittenIsExact
INVARIANT QuietWhenReturned
PROPERTY EndsOrHangs

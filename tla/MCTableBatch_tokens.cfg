SPECIFICATION Spec
CONSTANTS
  v1 = v1
  v2 = v2
  Sources <- TwoRows
  Uniqueness = {FALSE}
  FirstToken = 1
  LastToken = 4
  RowsetSize = 1
  FlushSize = 2
  FieldsOf <- Contents
  KeyOf <- IndexKeys
  Exact = {1, 2, 3}
  HeaderLines = 1
  TagRecords <- Tagging
  Passing = {1, 2, 4}
  Workers = {v1, v2}
  MaxDuplicateRetries = 2
  MaxDbProblemRetries = 2
  None = None
  MaxRead = 4
  FaultKinds = {}
  MaxFaults = 0
INVARIANT AllWritten

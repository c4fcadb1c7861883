SPECIFICATION Spec
CONSTANTS
  Jobs <- MCJobs
  FirstToken = 10
  LastToken = 215
  BlockSize = 4
  MaxBlocks = 2
  KeyOf <- MCKeyOf
  Passing <- MCPassing
  FaultKinds = {"create", "read", "eval", "open", "write", "close", "upload"}
  MaxFaults = 0
INVARIANT UploadedIsWhole

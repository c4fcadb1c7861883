\* One batch, one query that times out; the run comes to rest.
SPECIFICATION FairSpec
CONSTANTS
  A = A
  B = B
  w1 = w1
  w2 = w2
  d1 = d1
  d2 = d2
  Batches = {1}
  Nodes = {A}
  NodeOf <- OneOfOne
  Deps <- Alone
  RerunNodes = {A}
  Fallible = {}
  Workers = {w1, w2}
  Daemons = {d1}
  DaemonOf <- OneDaemon
  StopTimes = {}
  FaultKinds = {"timeout"}
  MaxFaults = 1
PROPERTY RunEnds
CHECK_DEADLOCK FALSE

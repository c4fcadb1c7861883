\* One batch, two workers, a lost lease and a crash; the run comes to rest.
SPECIFICATION FairSpec
CONSTANTS
  A = A
  B = B
  w1 = w1
  w2 = w2
  d1 = d1
  d2 = d2
  Batches = {1}
  Nodes = {A}
  NodeOf <- OneOfOne
  Deps <- Alone
  RerunNodes = {A}
  Fallible = {}
  Workers = {w1, w2}
  Daemons = {d1, d2}
  DaemonOf <- TwoDaemons
  StopTimes = {}
  FaultKinds = {"crash", "lease"}
  MaxFaults = 2
PROPERTY NodeStatusHeals
CHECK_DEADLOCK FALSE

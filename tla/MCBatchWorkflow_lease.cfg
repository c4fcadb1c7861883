\* One batch, which may fail, two workers, one fault, a lease lost by a live worker
\* among them, and an operator who may stop the run at any time; the run comes to rest.
SPECIFICATION FairSpec
CONSTANTS
  A = A
  B = B
  w1 = w1
  w2 = w2
  d1 = d1
  d2 = d2
  Batches = {1}
  Nodes = {A}
  NodeOf <- OneOfOne
  Deps <- Alone
  RerunNodes = {A}
  Fallible = {1}
  Workers = {w1, w2}
  Daemons = {d1}
  DaemonOf <- OneDaemon
  StopTimes = {"running", "starting"}
  FaultKinds = {"crash", "connection", "answer", "lease"}
  MaxFaults = 1
PROPERTY NodeStatusHeals
CHECK_DEADLOCK FALSE

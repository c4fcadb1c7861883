\* A node of two batches and a node of one that reads its table, two daemons, one
\* fault of any kind but a lost lease; the run may come to rest.
SPECIFICATION Spec
CONSTANTS
  A = A
  B = B
  w1 = w1
  w2 = w2
  d1 = d1
  d2 = d2
  Batches = {1, 2, 3}
  Nodes = {A, B}
  NodeOf <- TwoOfA
  Deps <- Chain
  RerunNodes = {A, B}
  Fallible = {}
  Workers = {w1, w2}
  Daemons = {d1, d2}
  DaemonOf <- TwoDaemons
  StopTimes = {}
  FaultKinds = {"crash", "connection", "timeout", "answer"}
  MaxFaults = 1
INVARIANT TypeOK
INVARIANT CompleteMeansDone
INVARIANT DataOnce
INVARIANT DependenciesComplete
PROPERTY CompletedDataFrozen
PROPERTY NodeStatusNeverRegresses
SYMMETRY Twins
CHECK_DEADLOCK FALSE

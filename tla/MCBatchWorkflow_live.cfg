\* Two nodes of one batch each, one daemon with two workers, one fault that must be
\* survived; the run comes to rest.
SPECIFICATION FairSpec
CONSTANTS
  A = A
  B = B
  w1 = w1
  w2 = w2
  d1 = d1
  d2 = d2
  Batches = {1, 2}
  Nodes = {A, B}
  NodeOf <- OneEach
  Deps <- Chain
  RerunNodes = {A, B}
  Fallible = {}
  Workers = {w1, w2}
  Daemons = {d1}
  DaemonOf <- OneDaemon
  StopTimes = {}
  FaultKinds = {"crash", "connection", "answer"}
  MaxFaults = 1
PROPERTY RunEnds
PROPERTY MessagesDrain
CHECK_DEADLOCK FALSE

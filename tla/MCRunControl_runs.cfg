\* Two of three calls of StartRun on a script with a manual node; every script of three nodes.
SPECIFICATION Spec
CONSTANTS
  Scripts <- AllScripts
  Operators = {o1, o2, o3, o4}
  MinToken <- Lowest
  MaxToken = 3
  MaxInt16 = 3
  MaxRetries = 2
  FaultKinds = {"db", "broker", "stop"}
  MaxFaults = 1
INVARIANT RunIdsUnique
INVARIANT AffectedIsClosed
INVARIANT StartedAsAsked
INVARIANT ReadsFinishedData
SYMMETRY Same
CHECK_DEADLOCK FALSE

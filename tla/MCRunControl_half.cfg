\* A manual node is started after a StartRun of what it reads failed half-way.
SPECIFICATION Spec
CONSTANTS
  Scripts <- OnlyPair
  Operators = {o1, o2}
  MinToken <- Lowest
  MaxToken = 3
  MaxInt16 = 3
  MaxRetries = 2
  FaultKinds = {"db"}
  MaxFaults = 1
PROPERTY EveryRunEnds
CHECK_DEADLOCK FALSE

\* Messages of one node, one daemon, an operator who deletes; the clock stops at
\* MaxTime, so the broker may come to rest with nothing left to do.
SPECIFICATION Spec
CONSTANTS
  Msgs = {1, 2, 3}
  Consumers = {c1}
  Group <- OneNode
  NoGroup = none
  Prefixes <- NodePrefixes
  MaxMessages = 3
  ReturnDelay = 1
  DeadTimeout = 1
  MaxLag = 1
  MaxTime = 2
  g1 = g1
  g2 = g2
  none = none
PROPERTY DeleteRemovesAll
CHECK_DEADLOCK FALSE

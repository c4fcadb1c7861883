\* Two nodes' messages, two daemons, an operator who deletes those of one node; the
\* clock stops at MaxTime, so the broker may come to rest with nothing left to do.
SPECIFICATION Spec
CONSTANTS
  Msgs = {1, 2, 3}
  Consumers = {c1, c2}
  Group <- TwoNodes
  NoGroup = none
  Prefixes <- OnePrefix
  MaxMessages = 2
  ReturnDelay = 1
  DeadTimeout = 1
  MaxLag = 0
  MaxTime = 2
  g1 = g1
  g2 = g2
  none = none
SYMMETRY ConsumerSymmetry
INVARIANT TypeOK
INVARIANT NothingLostOrDuplicated
INVARIANT QSorted
INVARIANT OwnerFindsItInWip
PROPERTY ImplementsLeaseQueue
CHECK_DEADLOCK FALSE

SPECIFICATION FairSpec
CONSTANTS
  m1 = m1
  m2 = m2
  Messages <- MCMessages
  Doubtful <- MCDoubtful
  Pool = 2
  MqTypes = {"capimq", "amqp"}
  MayStop = TRUE
  None = None
  FaultKinds = {"claim", "answer", "link", "slow", "retry"}
  MaxFaults = 2
INVARIANT ClaimsFitPool
INVARIANT AckedMeansDone
INVARIANT OutIsHeld
PROPERTY Settles
PROPERTY ShutdownEnds

SPECIFICATION FairSpec
CONSTANTS
  None = None
  Conns = {n1, n2, n3}
  Messages = {m1}
INVARIANTS AckedWasProcessed UnackedIsHandled
PROPERTIES Listens Drained
CHECK_DEADLOCK FALSE

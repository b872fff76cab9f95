\* What is left when Run returns.
CONSTANTS
  i1 = i1
  i2 = i2
  w1 = w1
  c1 = c1
  c2 = c2
  c3 = c3
  IoThreads <- TwoIoThreads
  Workers <- OneWorker
  Conns <- TwoConns
  NoConn = NoConn
SPECIFICATION Spec
INVARIANTS
  ConnectionsDeleted
CHECK_DEADLOCK FALSE

\* Two io threads, one worker, three connections, a signal at any moment.
CONSTANTS
  i1 = i1
  i2 = i2
  w1 = w1
  c1 = c1
  c2 = c2
  c3 = c3
  IoThreads <- TwoIoThreads
  Workers <- OneWorker
  Conns <- ThreeConns
  NoConn = NoConn
SPECIFICATION Spec
INVARIANTS
  QuietAtReturn
  StopOrder
  OnePlace
  KeepsAccepting

  
CHECK_DEADLOCK FALSE

\* Two workers, three AddTask calls, Init and Stop at any moment.
CONSTANTS
  w1 = w1
  w2 = w2
  t1 = t1
  t2 = t2
  t3 = t3
  NoTask = NoTask
  Workers <- PoolWorkers
  Tasks <- ThreeTasks
SPECIFICATION Spec
INVARIANTS
  TypeOK
  NoLostWakeup
  TaskInOnePlace
  QuietAfterJoin
PROPERTIES
  AcceptedIsAnswered
  StopReturns
  RefinesQueue

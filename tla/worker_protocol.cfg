\* Two worker threads of one process, every message kind with both outcomes.
CONSTANTS
  w1 = w1
  w2 = w2
  p1 = p1
  p2 = p2
  k1 = k1
  k2 = k2
  none = none
  i0 = i0
  c0 = c0
  IndexPaths <- OnePath
  Contents <- OneContent
  NoKey = none
  Keys <- MCKeys
  Pid <- SamePid
  Workers <- TwoThreads
  Tasks <- AllTasks
  MaxTasks = 3
SPECIFICATION Spec
INVARIANT TypeOK
PROPERTY ImplementsTaskQueue
\* the pool stops once every worker has been sent false
CHECK_DEADLOCK FALSE

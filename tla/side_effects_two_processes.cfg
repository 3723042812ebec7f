\* Two pnpm processes sharing the store, one worker thread each, both
\* adding a built variant of the same package under different keys.
CONSTANTS
  w1 = w1
  w2 = w2
  p1 = p1
  p2 = p2
  k1 = k1
  k2 = k2
  none = none
  i0 = i0
  c0 = c0
  IndexPaths <- OnePath
  Contents <- OneContent
  NoKey = none
  Keys <- MCKeys
  Pid <- DistinctPids
  Workers <- TwoThreads
  Tasks <- KeyedAddDirs
  MaxTasks = 2
SPECIFICATION Spec
INVARIANT SideEffectsRetained
CHECK_DEADLOCK FALSE

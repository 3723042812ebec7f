\* Two git-hosted fetches and an orchestrator's index writes on one worker
\* thread.
CONSTANTS
  w1 = w1
  p1 = p1
  k1 = k1
  k2 = k2
  none = none
  i0 = i0
  ia = ia
  ta = ta
  ib = ib
  c0 = c0
  r1 = r1
  b1 = b1
  r2 = r2
  b2 = b2
  g1 = g1
  g2 = g2
  NoKey = none
  Keys <- MCKeys
  Pid <- OnePid
  Workers <- OneThread
  IndexPaths <- MCIndexPaths
  Contents <- MCContents
  Tasks <- OrchestratorWrites
  GitFetchers <- MCGitFetchers
  FilesIndexFile <- MCFilesIndexFile
  PathTemp <- MCPathTemp
  IgnoreScripts <- MCIgnoreScripts
  RawFiles <- MCRawFiles
  BuiltFiles <- MCBuiltFiles
  MaxTasks = 6
SPECIFICATION GitSpec
INVARIANT SideEffectsRetained
INVARIANT GitIndexMatchesResult
PROPERTY EveryFetchSettles
\* the pool stops once every worker has been sent false
CHECK_DEADLOCK FALSE

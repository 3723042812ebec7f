-------------------------- MODULE MCWorkerHandler --------------------------
EXTENDS WorkerHandler, TLC

CONSTANTS w1, w2, p1, p2, k1, k2, none, i0, c0

\* worker_threads of one pnpm process share process.pid
OneThread == {w1}
TwoThreads == {w1, w2}
SamePid == [w \in {w1, w2} |-> p1]

\* two pnpm processes, one worker thread each, sharing the store
DistinctPids == (w1 :> p1) @@ (w2 :> p2)

MCKeys == {k1, k2}

\* the orchestrator's messages all name one package: one index path, one
\* files map
OnePath == {i0}
OneContent == {c0}

\* every path of handleMessage: each kind once, succeeding and throwing
\* where the outcome changes the path (a throwing add-dir, link,
\* symlinkAllModules and hardLinkDir share the path of a throwing extract
\* or a succeeding hardLinkDir: the reply at once)
AllTasks ==
  {[kind |-> "extract", ok |-> TRUE, key |-> none, file |-> i0, files |-> c0],
   [kind |-> "extract", ok |-> FALSE, key |-> none, file |-> i0, files |-> c0],
   [kind |-> "add-dir", ok |-> TRUE, key |-> k1, file |-> i0, files |-> c0],
   [kind |-> "add-dir", ok |-> TRUE, key |-> none, file |-> i0, files |-> c0],
   [kind |-> "readPkgFromCafs", ok |-> TRUE, key |-> none, file |-> i0, files |-> c0],
   [kind |-> "readPkgFromCafs", ok |-> FALSE, key |-> none, file |-> i0, files |-> c0],
   [kind |-> "link", ok |-> FALSE, key |-> none, file |-> i0, files |-> c0],
   [kind |-> "hardLinkDir", ok |-> TRUE, key |-> none, file |-> i0, files |-> c0]}

\* the add-dir messages of two builds of one package for different
\* side-effects cache keys (two environments), both updating its index
KeyedAddDirs ==
  {[kind |-> "add-dir", ok |-> TRUE, key |-> k1, file |-> i0, files |-> c0],
   [kind |-> "add-dir", ok |-> TRUE, key |-> k2, file |-> i0, files |-> c0]}
=============================================================================

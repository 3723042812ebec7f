------------------------- MODULE MCGitHostedFetch -------------------------
EXTENDS GitHostedFetch, TLC

CONSTANTS w1, p1, k1, k2, none, i0, ia, ta, ib, c0, r1, b1, r2, b2, g1, g2

\* one worker thread: its messages are handled one after the other
OneThread == {w1}
OnePid == w1 :> p1
MCKeys == {k1, k2}

\* i0: a package the orchestrator extracts and builds for two cache keys;
\* ia: a git-hosted package fetched with scripts (temp index ta);
\* ib: one fetched with ignoreScripts (no temp index)
MCIndexPaths == {i0, ia, ta, ib}
MCContents == {c0, r1, b1, r2, b2}
MCGitFetchers == {g1, g2}
MCFilesIndexFile == (g1 :> ia) @@ (g2 :> ib)
MCPathTemp == (ia :> ta) @@ (ib :> ta)
MCIgnoreScripts == (g1 :> FALSE) @@ (g2 :> TRUE)
MCRawFiles == (g1 :> r1) @@ (g2 :> r2)
MCBuiltFiles == (g1 :> b1) @@ (g2 :> b2)

OrchestratorWrites ==
  {[kind |-> "extract", ok |-> TRUE, key |-> none, file |-> i0, files |-> c0],
   [kind |-> "add-dir", ok |-> TRUE, key |-> k1, file |-> i0, files |-> c0],
   [kind |-> "add-dir", ok |-> TRUE, key |-> k2, file |-> i0, files |-> c0]}
=============================================================================

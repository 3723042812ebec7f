--------------------------- MODULE GitHostedFetch ---------------------------
(***************************************************************************)
(* The fetch function of createGitHostedTarballFetcher                     *)
(* (src/fetching/tarball-fetcher/src/gitHostedTarballFetcher.ts) as a      *)
(* client of the worker threads of WorkerHandler.  A git-hosted package is *)
(* fetched into the store under a non-built index path (a pathTemp of its  *)
(* filesIndexFile unless ignoreScripts), then prepared; a package that     *)
(* needs no build has its non-built index renamed onto filesIndexFile, a   *)
(* built one has it unlinked and its prepared directory added to the store *)
(* by an add-dir message that writes filesIndexFile.                       *)
(*                                                                         *)
(* fetchRemoteTarball and addFilesFromDir of @pnpm/worker post a message   *)
(* to a worker thread and resolve with its reply; here a fetcher posts the *)
(* extract or add-dir task itself and waits for replies[id].  The fetcher  *)
(* shares the pool with an orchestrator sending other packages' tasks; the *)
(* pool is shut down only once every fetch has settled.                    *)
(***************************************************************************)
EXTENDS WorkerHandler, FiniteSets

CONSTANTS
  GitFetchers,    \* concurrent fetch calls, one per git-hosted package
  FilesIndexFile, \* fetcher -> opts.filesIndexFile
  PathTemp,       \* path -> the fresh path fastPathTemp(path) returns
  IgnoreScripts,  \* fetcher -> fetcherOpts.ignoreScripts
  RawFiles,       \* fetcher -> the files map of the fetched tarball
  BuiltFiles      \* fetcher -> the files map of the prepared directory

ASSUME FilesIndexFile \in [GitFetchers -> IndexPaths]
ASSUME PathTemp \in [{FilesIndexFile[f] : f \in GitFetchers} -> IndexPaths]
ASSUME \A p \in DOMAIN PathTemp : PathTemp[p] # p
ASSUME IgnoreScripts \in [GitFetchers -> BOOLEAN]
ASSUME RawFiles \in [GitFetchers -> Contents] /\ BuiltFiles \in [GitFetchers -> Contents]

\* message ids kept for the fetchers: an extract and an add-dir each
OrchestratorMax == MaxTasks - 2 * Cardinality(GitFetchers)
ASSUME OrchestratorMax \in Nat

Settled == {"done", "threw"}

VARIABLES
  gpc,   \* fetcher -> where fetch is
  gid,   \* fetcher -> id of the worker message it awaits
  gres   \* fetcher -> the filesIndex fetch resolved with ({} before)

gitVars == <<gpc, gid, gres>>
allVars == <<vars, gitVars>>

\* line 42: the index path fetchRemoteTarball is told to write
nonBuiltIndexFile(f) ==
  IF IgnoreScripts[f] THEN FilesIndexFile[f] ELSE PathTemp[FilesIndexFile[f]]

Awaited(f) == replies[gid[f]] > 0
Succeeded(f) == status[gid[f]] = "success"

\* fetchRemoteTarball with filesIndexFile: nonBuiltIndexFile posts the
\* extract message; the tarball may fail its integrity check
fetchRemoteTarball(f, w) ==
  /\ gpc[f] = "start"
  /\ \E ok \in BOOLEAN :
       SendTask(w, [kind |-> "extract", ok |-> ok, key |-> NoKey,
                    file |-> nonBuiltIndexFile(f), files |-> RawFiles[f]])
  /\ gpc' = [gpc EXCEPT ![f] = "fetching"]
  /\ gid' = [gid EXCEPT ![f] = sent + 1]
  /\ UNCHANGED gres

\* the await of line 46 resumes: an error reply rejects fetch
FetchedRemoteTarball(f) ==
  /\ gpc[f] = "fetching" /\ Awaited(f)
  /\ gpc' = [gpc EXCEPT ![f] = IF Succeeded(f) THEN "prepare" ELSE "threw"]
  /\ UNCHANGED <<vars, gid, gres>>

Resolve(f, files) ==
  /\ gpc' = [gpc EXCEPT ![f] = "done"]
  /\ gres' = [gres EXCEPT ![f] = {files}]

\* prepareGitHostedPkg up to its first index access: cafs.tempDir,
\* importPackage of the fetched files and preparePackage, which rejects
\* (the catch of line 72 rethrows), or says whether the package has to be
\* built.  A package that needs no build keeps its fetched index, renamed
\* when it was written under a temp path; one that has to be built while
\* scripts are ignored is returned unbuilt (ignoredBuild)
prepareGitHostedPkg(f) ==
  /\ gpc[f] = "prepare"
  /\ \/ gpc' = [gpc EXCEPT ![f] = "threw"] /\ UNCHANGED gres
     \/ \E shouldBeBuilt \in BOOLEAN :
          CASE ~shouldBeBuilt /\ nonBuiltIndexFile(f) # FilesIndexFile[f]
                 -> gpc' = [gpc EXCEPT ![f] = "rename"] /\ UNCHANGED gres
            [] nonBuiltIndexFile(f) = FilesIndexFile[f]
                 /\ (~shouldBeBuilt \/ IgnoreScripts[f])
                 -> Resolve(f, RawFiles[f])
            [] OTHER
                 -> gpc' = [gpc EXCEPT ![f] = "unlink"] /\ UNCHANGED gres
  /\ UNCHANGED <<vars, gid>>

\* renameOverwrite(filesIndexFileNonBuilt, filesIndexFile): the fetched
\* index replaces whatever index the package had
renameOverwrite(f) ==
  LET from == nonBuiltIndexFile(f)
      to == FilesIndexFile[f]
  IN
  /\ gpc[f] = "rename"
  /\ indexFile' = [indexFile EXCEPT ![to] = indexFile[from], ![from] = Missing]
  /\ seAdded' = [seAdded EXCEPT ![to] = {}, ![from] = {}]
  /\ Resolve(f, RawFiles[f])
  /\ UNCHANGED <<inbox, msg, sent, stopped, wpc, cur, local, temp, replies,
                 status, gid>>

\* mutant: the unlink of the non-built index left out
unlinkNonBuiltSkipped(f) ==
  /\ gpc[f] = "unlink"
  /\ gpc' = [gpc EXCEPT ![f] = "addDir"]
  /\ UNCHANGED <<vars, gid, gres>>

\* fs.unlink(filesIndexFileNonBuilt), its error ignored
unlinkNonBuilt(f) ==
  /\ gpc[f] = "unlink"
  /\ indexFile' = [indexFile EXCEPT ![nonBuiltIndexFile(f)] = Missing]
  /\ seAdded' = [seAdded EXCEPT ![nonBuiltIndexFile(f)] = {}]
  /\ gpc' = [gpc EXCEPT ![f] = "addDir"]
  /\ UNCHANGED <<inbox, msg, sent, stopped, wpc, cur, local, temp, replies,
                 status, gid, gres>>

\* addFilesFromDir posts an add-dir of the prepared directory, without a
\* side-effects key, writing filesIndexFile
addPreparedFilesFromDir(f, w) ==
  /\ gpc[f] = "addDir"
  /\ \E ok \in BOOLEAN :
       SendTask(w, [kind |-> "add-dir", ok |-> ok, key |-> NoKey,
                    file |-> FilesIndexFile[f], files |-> BuiltFiles[f]])
  /\ gpc' = [gpc EXCEPT ![f] = "adding"]
  /\ gid' = [gid EXCEPT ![f] = sent + 1]
  /\ UNCHANGED gres

\* the await of addFilesFromDir resumes with the reply
AddedPreparedFiles(f) ==
  /\ gpc[f] = "adding" /\ Awaited(f)
  /\ IF Succeeded(f) THEN Resolve(f, BuiltFiles[f])
                     ELSE gpc' = [gpc EXCEPT ![f] = "threw"] /\ UNCHANGED gres
  /\ UNCHANGED <<vars, gid>>

GitFetcher(f) ==
  \/ \E w \in Workers : fetchRemoteTarball(f, w) \/ addPreparedFilesFromDir(f, w)
  \/ FetchedRemoteTarball(f) \/ prepareGitHostedPkg(f) \/ renameOverwrite(f)
  \/ unlinkNonBuilt(f) \/ AddedPreparedFiles(f)

GitInit ==
  /\ Init
  /\ gpc = [f \in GitFetchers |-> "start"]
  /\ gid = [f \in GitFetchers |-> 0]
  /\ gres = [f \in GitFetchers |-> {}]

\* the orchestrator sends other packages' tasks within its share of the
\* ids, and shuts a thread down once the install's fetches have settled
GitNext ==
  \/ /\ sent < OrchestratorMax
     /\ \E w \in Workers : \E t \in Tasks : SendTask(w, t)
     /\ UNCHANGED gitVars
  \/ /\ \A f \in GitFetchers : gpc[f] \in Settled
     /\ \E w \in Workers : SendShutdown(w)
     /\ UNCHANGED gitVars
  \/ \E w \in Workers : Worker(w) /\ UNCHANGED gitVars
  \/ \E f \in GitFetchers : GitFetcher(f)

\* a thread with a message runs it; a fetch whose awaited reply has come
\* is resumed by the event loop
GitSpec == GitInit /\ [][GitNext]_allVars
           /\ \A w \in Workers : WF_allVars(Worker(w) /\ UNCHANGED gitVars)
           /\ \A f \in GitFetchers : WF_allVars(GitFetcher(f))

(***************************************************************************)
(* Properties                                                              *)
(***************************************************************************)
\* A fetch that resolves leaves filesIndexFile listing exactly the files it
\* resolved with (the fetched files when no build ran, the prepared ones
\* after the add-dir), and no non-built index behind under the temp path.
GitIndexMatchesResult ==
  \A f \in GitFetchers :
    gpc[f] = "done" =>
      /\ indexFile[FilesIndexFile[f]].files = gres[f]
      /\ nonBuiltIndexFile(f) # FilesIndexFile[f]
           => indexFile[nonBuiltIndexFile(f)] = Missing

\* Every fetch settles: each worker message it awaits is answered on every
\* path of handleMessage (the catch included), so fetch resolves or rejects.
EveryFetchSettles ==
  \A f \in GitFetchers : <>(gpc[f] \in Settled)

=============================================================================

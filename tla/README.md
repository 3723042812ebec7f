# TLA+ models of pnpm's store worker, git-hosted fetcher, integrity verifier, hard-link replicator, platform check, lockfile filter and lifecycle scripts

This directory holds TLA+ models of the parts of this pnpm tree where
concurrency, shared files or multi-step protocols make bugs hard to test.
Each model is checked with TLC. The sources are under `../src`, and
`../spec.md` describes the intended behaviour.

## 1. The system (inventory)

| Part | Source | State | Operations | Interacts with |
|---|---|---|---|---|
| Worker message handler | `src/worker/src/worker.ts` | a per-thread queue of messages from the pool; the package index files (`*-index.json`); the temp file `<index minus -index.json><pid>`; the module-level `cafsCache` | `handleMessage` for `extract`, `add-dir`, `readPkgFromCafs`, `link`, `symlinkAllModules`, `hardLinkDir` and `false` (exit); `addTarballToStore`, `addFilesFromDir`, `writeJsonFile` | the worker pool (outside `src/`), the content store, the integrity verifier, the hard-link replicator |
| Integrity verifier | `src/store/cafs/src/checkPkgFilesIntegrity.ts` | the store objects (content, size, mtime); `verifiedFilesCache` for one call; `pkgIndex.sideEffects` | `checkPkgFilesIntegrity`, `checkFilesIntegrity`, `verifyFile`, `verifyFileIntegrity`, `checkFile` | called by `readPkgFromCafs` in every worker thread of every pnpm process that shares the store |
| Content store add | `createCafs`, outside `src/` | the store objects | writes an absent object; leaves an existing one alone | the verifier, which may be deleting the same path |
| Hard-link replicator | `src/fs/hard-link-dir/src/index.ts` | the source tree and the destination trees | `hardLinkDir` and `_hardLinkDir`, recursive; `linkOrCopyFile` with EEXIST/ENOENT fallbacks | the worker's `hardLinkDir` message |
| Git-hosted fetcher | `src/fetching/tarball-fetcher/src/gitHostedTarballFetcher.ts` | the temp index file and the final index file | fetch; prepare (build); add-dir of the prepared package; unlink or rename of the temp index | the worker's `add-dir` |
| Lockfile filter | `src/lockfile/filter-lockfile/src/filterLockfileByImportersAndEngine.ts` | the lockfile graph (pure) | `filterLockfileByImportersAndEngine`, `pkgAllDeps`, `toImporterDepPaths` | lockfile consumers |
| Platform check | `src/config/package-is-installable/src/checkPlatform.ts` | pure | `checkPlatform`, `checkList` | the installability check |
| Lifecycle reporter | `src/cli/default-reporter/src/reporterForClient/reportLifecycleScripts.ts` | a per-`stage:depPath` message cache; a Subject per key | one reducer step for each lifecycle log event | the lifecycle runner (through loggers) |
| Lifecycle hooks | `src/exec/lifecycle/src/index.ts`, `src/exec/files-include-install-scripts/src/index.ts` | the package's scripts | `runPostinstallHooks` (preinstall, install with the binding.gyp default, postinstall) | the build step |
| approve-builds | `src/exec/build-commands/src/approveBuilds.ts` | the root package.json or the workspace manifest | `handler`: prompt, merge of the approved and ignored lists, write, rebuild | the CLI; `rebuild` |
| Commands and reporters without shared state | `extendRebuildOptions.ts`, `env.ts`, `recursive.ts`, `reportUpdateCheck.ts`, `reportContext.ts`, `reporterForServer.ts`, `core-loggers`, `retryLoadJsonFile.ts` | one call's options and output | formatting, defaults, dispatch | the CLI |

**Hard behaviours.**
- Worker threads of one process share `process.pid`. Several processes share
  one store.
- Verifiers delete store objects by path after a stat or read taken at an
  earlier step, and nothing locks the path.
- `add-dir` with a side-effects key reads, modifies and rewrites the whole
  index file.
- Every message must get exactly one reply. The pool waits for it, and so
  does a git-hosted fetch, which awaits two replies in turn.
- The verifier must give the right verdict, and must evict corrupt objects
  and drop corrupt side-effects entries.

**Properties per part.**
- *Worker:*
  - a thread is a FIFO task queue: each message answered once, in order,
    none left unanswered, exit only after the earlier ones (refinement);
  - side-effects keys that were reported stored are still in the index.
- *Verifier:*
  - the verdict matches the store;
  - every checked corrupt object is evicted, and nothing else is;
  - exactly the bad side-effects entries are dropped;
  - the verifier terminates;
  - it never throws on a vanished object;
  - no step deletes an intact object.
- *Git-hosted fetcher (composed with the worker):* every fetch settles; a
  fetch that resolves leaves its index listing the files it returned and
  no non-built index behind.
- *Replicator:* the destination mirrors the source, except under `node_modules`.
- *Filter:* the kept packages are exactly the dependency closure.
- *Platform:* `checkList` agrees with its documented meaning (a reference).
- *Reporter:* each key's final message is built from its own run only;
  aggregated output comes in whole blocks per script; every stream shown
  as running is completed.
- *Hooks:* the hooks run are npm's, in npm's order, with the binding.gyp
  default.

## 2. Modules

### `PkgFilesIntegrity` (verifier, with the content store add as environment)
**State.**
- `store`: object → content (`none`, `intact`, `sameSize` corrupt,
  `otherSize` corrupt) and `modified`. `modified` stands for
  `mtimeMs - checkedAt > 100` at line 161.
- `store0`: the store at the start, kept as history.
- `seShape`: the on-disk shape of each side-effects entry. `added` is what
  the checker reads. `flat` is what `worker.ts:215` writes.
- `ver[v]`: the verifier's program counter, the files still to check
  (`Object.entries` order), `verifiedFilesCache`, `allVerified`, the
  side-effects loop state and the result.

**Actions, one per fs call of the code:**

| Action | Code |
|---|---|
| `checkPkgFilesIntegrity` | the entry point |
| `SkipVerified` | the `continue` at line 78 |
| `checkFile` | `statSync`, then `verifyFile`'s decision |
| `RimrafResized` | line 108 |
| `verifyFileIntegrity` | `readFileSync` and the hash check |
| `UnlinkCorrupt` | line 135 |
| `ReadManifestFile` | line 116, not in a try |
| `EndFiles` | the end of a `checkFilesIntegrity` call, and the `delete` at line 56. `verified` is an object, so `if (!verified)` at line 47 never returns: the side-effects entries are checked even when the package's files failed, and `passed` is decided at line 61 |
| `NextSideEffect` | the loop at line 52 |

**The environment.**
- `AddObject`: the CAS add, from the spec. An absent object is written
  intact.
- `Corrupt`: an external change. It always moves the mtime.

Both are bounded by `MaxAdds` and `MaxCorruptions`.

### `WorkerHandler` (worker threads)
**State.**
- Per-thread inboxes of message ids, and the message sent under each id.
- Each thread's handler position: `idle`, `load`, `writeTemp`, `rename`
  or `exited`.
- One index file per path (`filesIndexFile` is a field of each message),
  abstracted to `Missing` or `File(c, ks)`: the files map it lists (one
  content value per package variant) and the set of its side-effects keys.
- The temp file, one per index path and pid (line 322 names it after both).
- The reply count and reply status of each message.
- `seAdded`: the history of keys reported stored.

**Actions.**
- `handleMessage`: the switch. `PostReply` is the reply posted at once by a
  case or by the catch (lines 112-133). `FirstStep` says where each message goes:
  `addTarballToStore` (an integrity mismatch replies at once, lines
  145-167) and `addFilesFromDir` (the key decides between loading the
  index and a plain write, line 202) go on to an index-file step, and the
  other kinds reply at once.
- `LoadSideEffectsIndex`: lines 202-215.
- `readPkgFromCafs`: lines 60-111.
- `WriteTemp`: line 324.
- `RenameIndex`: line 326 and the reply.
- `Exit`: the `false` message.

**Refinement.** `TaskQueue` is the contract the pool relies on: per-thread
FIFO queues, a message answered in one step (`Answer`), `false` ending
the thread (`End`), and weak fairness for each thread. `WorkerHandler`
instantiates it with `queue <- Pending(w)` (the message being handled,
while the handler is in `load`, `writeTemp` or `rename`, stays at the
head of the queue), `answers <- replies` and `exited <-` the threads in
`exited`. Taking a message and the index-file steps are then stutters,
and the reply is `Answer`. A second reply changes `answers` from 1 to 2,
and a message dropped without a reply pops the queue without an answer;
neither is a `TaskQueue` step.
- The pool is the environment. `SendTask` and `SendShutdown` come from the
  spec, because the pool is not under `src/`.

### `GitHostedFetch` (git-hosted fetcher, composed with the worker)
`GitHostedFetch` EXTENDS `WorkerHandler` and adds the `fetch` calls of
`gitHostedTarballFetcher.ts` as clients of the worker threads, beside the
orchestrator's own messages.

**State.** Per fetcher: `gpc` (where `fetch` is), `gid` (the id of the
worker message it awaits) and `gres` (the files it resolved with).
The constants give each fetcher its `filesIndexFile`, `ignoreScripts`,
the `fastPathTemp` of its path, and the files of its tarball and of its
prepared directory.

**Actions.**
- `fetchRemoteTarball`: posts an `extract` writing `nonBuiltIndexFile`
  (lines 42-53); the tarball may fail its integrity check.
- `FetchedRemoteTarball`: the await resumes; an error reply rejects.
- `prepareGitHostedPkg`: `preparePackage` rejects (the catch of line 72
  rethrows), or says whether a build is needed (lines 97-115): no build
  with a temp path goes to the rename, no build at the final path or an
  ignored build resolves with the fetched files, a build goes on to the
  unlink.
- `renameOverwrite` (line 101), `unlinkNonBuilt` (line 119),
  `addPreparedFilesFromDir` (posts an `add-dir` without a side-effects
  key, line 125) and `AddedPreparedFiles` (its reply).

The pool, `fetchRemoteTarball` and `addFilesFromDir` of `@pnpm/worker` are
outside `src/`: a fetcher posts the task itself (`SendTask`) and waits for
`replies[gid]`. The orchestrator keeps `2 * |GitFetchers|` ids free for
the fetchers and shuts the pool down only once every fetch has settled,
as pnpm does at the end of an install.

### `HardLinkDir` (hard-link replicator)
**State.**
- `src`: the source tree, a function from paths (sequences of names up to
  `MaxDepth`) to `none`, `dir`, `file` or `broken` (a dangling symlink).
- `fs[d]`: each destination tree: `none`, `dir`, `file` (not written by
  the replicator), `link` or `copy`. `fs0` keeps the start.
- Per caller `c`: `pc`, the filtered `destDirs`, the recursion `stack` of
  frames `[path, todo]` (the entries of one `readdirSync` not yet visited),
  the current `entry`, the destination index `di` of the link loop, and
  `result`.
- `follows`: whether `link(2)` follows symlinks (macOS) or not (Linux),
  chosen once.

**Actions.**
- `hardLinkDir`: lines 6-11, the filter that drops `src` from `destDirs`.
- `ReadDir`: `readdirSync` of the top frame. ENOENT at the root creates
  every destination (lines 16-24); elsewhere it is an error.
- `NextEntry`: one iteration of the loop of lines 27-42. `node_modules` is
  skipped, a directory is made in every destination and pushed, a file
  goes to the link loop.
- `LinkOrCopyFile`: `linkOrCopyFile` for one destination, with its EEXIST,
  ENOENT (mkdir and retry) and EXDEV (copy) paths, as `LinkOutcome`. A
  dangling symlink is skipped where link(2) follows it, and across devices
  too: the EXDEV fallback's `copyFileSync` follows it into ENOENT, which
  line 48 ignores.
- `EndDir`: the return of one `_hardLinkDir` frame.

Two callers share a destination, so their steps interleave.

### `CheckPlatform` (platform check)
A pure function, so the module is a call harness. Each step picks one
input from a bounded set and records the result, and the invariants compare
it with a reference definition (`Admits`) of what an os/cpu/libc list
means. `Scan` is `checkList`'s nested loop, with the early return and the
`blc` counter, as a RECURSIVE operator. `checkPlatform` adds
`dedupeCurrent`, the `supportedArchitectures` defaults and the unknown-libc
rule.

### `ApproveBuilds` (approve-builds command)
The handler is sequential, so it is another call harness, and it shares the
`call`/`out` variables of `CheckPlatform`: `MCCheckPlatform` instantiates it
and adds `CallApproveBuilds` to the next-state relation (`PolicySpec`). One
step is one whole `handler` call. Its awaited inputs (the packages the last
install ignored, the multiselect's choice or Ctrl+C, the confirmation,
`tryReadProjectManifest`) come from a bounded set with the config's lists.
`out` records:
- which early return was taken: nothing pending, `process.exit(0)` on
  cancel, or the build not confirmed;
- the file written (`WriteLists`, lines 124-140) with its two lists;
- what `rebuild.handler` was called with (`rebuildOpts`). What the rebuild
  finally reads is decided by `extendRebuildOptions.ts:112-117` and
  `getOptionsFromRootManifest`, which is not in this repository (see the
  hazard at that line).
`UpdatedList` is the merge of lines 90-111. `sortUniqueStrings` gives a
sorted list without duplicates, so a list is its set of names.

Inputs (in `MCCheckPlatform`):
- two offered packages, with every selection;
- config lists that are undefined, empty or `{c}`;
- with and without `workspaceDir`;
- a package.json that is absent, has no lists, or has the config's lists.
The offered packages are never already in the config lists (the install
would not have ignored them). When package.json holds a list, the config's
lists are taken to be package.json's (see the `stale_state` hazard at line
95).

### `FilterLockfile` (lockfile filter)
Also a call harness. `filterLockfileByImportersAndEngine` takes a lockfile
(importers with three dependency fields, package snapshots, or no packages
section) and a selection of importer ids.
- `toImporterDepPaths` and `pkgAllDeps` (with `Visit`, one loop iteration)
  are RECURSIVE operators. They thread what the code mutates:
  `importerIdSet`, `pickedPackages`, `opts.skipped`, and the first error.
- `parseDepRefs` is a fold over the refs.
- `toImporterDepPaths` has no visited check. Its depth is bounded by the
  number of importers, because a deeper recursion can only be a cycle,
  which overflows the stack in the code.
- A ref is a `link:` ref to an id or a depPath. `packageIsInstallable` is
  abstracted to a verdict stored in each snapshot.
- The reference `Closure` is the set of packages reachable in the
  dependency graph, from `Graphs!Descendants`.

### `LifecycleReporter` (reportLifecycleScripts)
The reporter, one action per lifecycle log event, in the mode fixed when it
is created.
- `tty` (not appendOnly): `cache` is `lifecycleMessages`, `subj` is the
  state of `lifecycleStreamByDepPath[key]` (`none`, `open`, `completed`),
  `pushed` the streams handed to `lifecyclePushStream`, and `last` the
  message each key's stream delivered last, which is what the terminal
  shows. `ReportToStream` is the body of the `forEach` (lines 78-110):
  make the cache on the first event, render, delete the cache on exit,
  create and push the Subject on the first event, send, complete on exit.
- `renderScriptOutput`, `renderCollapsedScriptOutput` and
  `updateMessageCache` are operators returning the new cache and the
  message. A message is a record of its parts (script line, output lines,
  hidden-line count, status or label), not a string.
- `append` and `aggregate` (appendOnly): `printed` is the printed lines,
  each made by `streamLifecycleOutput`; `buf` is the `buffer()` of each
  `groupBy` group, flushed on the group's exit event.
- A key is `<<actor, stage>>`. A line's text is `<<run, index>>`.

### `LifecycleHooks` (runPostinstallHooks and the scripts' events)
Extends `LifecycleReporter`. Actors are dependencies (built by
`runPostinstallHooks`, collapsed output because their wd is under
`node_modules`) and importers (whose stages come from
`runLifecycleHooksConcurrently`, full output).
- `runPostinstallHooks(d)` reads the manifest (`found = FALSE` returns
  false), applies `checkBindingGyp`, and fixes the stages to run and the
  return value.
- `runLifecycleHook` is not under `src/`; it is modelled from the spec as
  the events it logs: the script line (`LogOutput` at `pos = 0`), each
  output line, then the exit (`LogExit`, any code of `ExitCodes`). A
  non-zero exit rejects and ends the actor's hooks.
- Actors interleave freely, so their events reach the reporter
  interleaved.
- The references `FinalMessage`, `EventsOf` and `NpmStages` state what the
  terminal should show and what npm runs, independently of the code's
  operators.

## 3. Runs

| Run | Expect | What it shows |
|---|---|---|
| `verify_store` | pass | One verifier on any store of 3 objects, while up to 2 objects are re-added and 1 is corrupted. The files are package.json, one other file, and a duplicate entry that exercises the cache. There are 2 side-effects keys that share an object. When nobody touched the store during the call, the verdict, evictions and side-effects pruning match the store (`VerdictMatchesStore`, `CorruptObjectsEvicted`, `SideEffectsVerdict`); in every case no intact object is deleted (`NoIntactObjectEvicted`). The variants' objects are checked and evicted even when the package's own files failed. |
| `verify_flat_side_effects` | violation | Entries in the flat shape are never verified, so a corrupt build variant is kept (`SideEffectsVerdict`). |
| `verify_two_verifiers` | violation | Two verifiers and one re-add. A stale rimraf deletes the intact object just written (`NoIntactObjectEvicted`). |
| `verify_manifest_race` | violation | Another verifier evicts package.json between stat and read, so the verifier throws (`VerifyNeverThrows`). |
| `worker_protocol` | pass | Two threads, 8 messages covering every path, 3 sent. The handler implements `TaskQueue` (`ImplementsTaskQueue`): each message gets exactly one reply, in order, and is always answered. |
| `git_fetch_one_thread` | pass | Two git-hosted fetches (one with scripts, whose non-built index is a temp path; one with `ignoreScripts`) and an orchestrator's two writes of another index share one thread (8,643 states). Every fetch settles (`EveryFetchSettles`); a fetch that resolves leaves `filesIndexFile` listing the files it resolved with and no non-built index behind (`GitIndexMatchesResult`); a side-effects key an add-dir stored stays in its index (`SideEffectsRetained`). |
| `side_effects_two_processes` | violation | Two pnpm processes (distinct pids, one thread each) add build variants of one package under keys `k1` and `k2`. Both load the index before either writes it back, so the second write drops `k1` although both add-dirs replied success (`SideEffectsRetained`, 11 states deep). |
| `hardlink_concurrent` | pass | Two calls, one into `d1` and `d2` (with `src` among its destDirs, `d2` on another device), one into `d1`. Source trees are every well-formed tree of depth 2 over `a` and `node_modules` (362 trees). There are four destination trees and both symlink behaviours. The destination mirrors the source outside `node_modules`, and a call throws only on a real conflict (a non-directory where a directory is needed). |
| `platform_reference` | pass | `checkList` with one value, and with two values and no negation, on every list of up to two elements over the three OS names and `any`, negated or not. `checkPlatform` without supportedArchitectures on every os/cpu/libc combination. Both agree with the reference. In the same run, `approve-builds` on every bounded input records each chosen package as approved and each other offered one as ignored, in whichever file it writes, and keeps the lists' earlier entries (`ApprovalsRecorded`). 4,261 states. |
| `platform_negation_list` | violation | With two supported values, `os: ['!win32']` is refused (`NegationListAdmitsUnnamed`). |
| `filter_lockfile_closure` | violation | A root importer that depends on a package with a snapshot gets no packages at all (`PackagesAreClosure`). |
| `lifecycle_reporting` | pass | One dependency (any of 4 manifests: none, binding.gyp only, preinstall with binding.gyp, install and postinstall; optional or not) and one importer whose install prints 11 lines, with exit codes 0 and 1, into a reporter in each of the three modes. The final message of every exited key is the one built from its own events (`FinalMessageMatchesRun`) and aggregated output is the scripts' blocks in exit order (`AggregatedOutputInBlocks`). |

**Bounds.**
- Each violation needs only the actors and steps in its trace. The traces
  are 6 to 9 steps long.
- The passing runs cover every path:
  - each content state of each object, with `modified` on and off;
  - both values of `readManifest` on package.json;
  - a duplicate entry that hits `verifiedFilesCache`;
  - both side-effects shapes.
- `MaxTasks = 3` lets two threads each hold a message while a third is
  queued. In `git_fetch_one_thread`, `MaxTasks = 6`: two ids per fetcher
  and two for the orchestrator, enough for an `add-dir` with `k1` followed
  by one with `k2` on the same index. Each fetcher takes every branch of
  `prepareGitHostedPkg` with both outcomes of each worker reply.
- Hard links:
  - depth 2 gives a directory inside a directory, a file under it, and
    `node_modules` at both levels;
  - the destination trees include a pre-existing file where a directory
    is needed (the conflict), and a pre-existing directory and file (EEXIST);
  - two callers are enough for the shared-destination interleavings.
- Lists of up to two elements cover a negation next to a plain name, `any`
  next to another element, and two negations.
- The lockfiles have two importers, each of which may link to itself, to
  the other or to a non-importer, and two packages, one of which may depend
  on either importer or package. This covers self-links, link cycles,
  missing snapshots and optional dependencies.
- Lifecycle: 11 output lines cross the ten-line window by one, and a
  failure after them must show all 11. The four manifests cover every
  branch of `runPostinstallHooks` and `checkBindingGyp`. Two actors are
  enough for one script's events to come between another's.

**Fairness.**
- Each verifier and each worker thread is weakly fair.
  - The handler is synchronous: once a message is taken, the thread runs
    it to the reply without yielding.
  - A queued message is taken when the event loop is free.
- Each git-hosted fetch is weakly fair: the event loop resumes an awaiting
  `fetch` once its worker reply has been posted.
- The pool, the adder and the corruption are not fair. They may stop at
  any time.
- Each hard-link caller is weakly fair. `hardLinkDir` is synchronous
  (`*Sync` calls), so a started call runs to its end. Two callers
  interleave only where the worker runs them in different threads.
- Each lifecycle actor is weakly fair, so that every actor reaches its
  end and `exitOrder` is complete: `runLifecycleHook` awaits its child
  process, and the model assumes scripts exit (nothing in the code times
  them out; see the hazard at `index.ts:52`). No liveness property of this
  run depends on it.
- The call harnesses (`CheckPlatform`, `FilterLockfile`) need no fairness.
  They check invariants only.
- `CHECK_DEADLOCK FALSE`:
  - the verifier really stops when its call returns;
  - both hard-link calls really stop when they return;
  - the worker pool really stops after every thread has exited;
  - every lifecycle actor returns or rejects.

## 4. Findings

1. `worker.ts:215` stores the files map flat. `checkPkgFilesIntegrity.ts:52`
   expects `{ added }`, so side-effects entries written by the worker are
   never verified.
2. The verifier's deletions at lines 108 and 135 are not guarded by a lock.
   With two verifiers and an add, an intact object is deleted. The spec
   says the locker must be consulted first.
3. `checkPkgFilesIntegrity.ts:116` reads an unmodified package.json outside
   a try. A concurrent eviction turns a `passed: false` into an error reply.
4. `worker.ts:205-215`: an add-dir with a side-effects key loads the index,
   adds its key and writes the index back with no lock. Two processes
   sharing the store that add variants of one package under different keys
   can both load before either writes, and the later write drops the
   other's key while both reply success. The spec says the store is shared
   by independent processes and its locking must tolerate this.
5. `checkPlatform.ts:104`: `blc` counts every pair of a value and a
   negation, but it is compared with `list.length`. With two supported
   values, a list made only of negations refuses every package.
6. `filterLockfileByImportersAndEngine.ts:158`: after a snapshot is found,
   every depPath that does not start with `link:` is skipped, or throws
   under `failOnMissingDependencies`. `refToRelative` never makes such a
   depPath, so a normal return keeps no packages, and the importers'
   optional dependencies are pruned to their `link:` refs.

Hazards that no run checks are listed in `PROJECT.json` with a note:
- the stale `onlyBuiltDependencies` the rebuild after approve-builds may
  read (`extendRebuildOptions.ts:112`), which depends on code outside the
  repository;
- an empty source directory leaving the hard-link destinations uncreated
  (`index.ts:27`). It is reached in `HardLinkDir`, but the spec does not
  settle it;
- the unbounded recursion of `toImporterDepPaths` on a self-link or a link
  cycle (`filterLockfileByImportersAndEngine.ts:263`);
- a rerun of the same `stage:depPath` posting to a completed Subject
  (`reportLifecycleScripts.ts:102`);
- the unhandled promise of the reporter's `forEach` (line 78);
- an empty-string script counted by the return value but never run
  (`index.ts:59`), and a hung script with no timeout (`index.ts:52`).

## 5. Not modelled, and why

- **Torn writes** of two threads to one temp file. `writeFileSync` is taken
  as atomic; without tearing, the shared temp name only lets one thread
  rename the other's content, which ends as a serial order of the writes.
- **The mtime window** (corruption within 100 ms of `checkedAt`). The spec
  calls the heuristic best-effort.
- **Formatting and option plumbing** (reporters other than the lifecycle
  one, CLI commands, `env`, `listing`, loggers). They hold no state that a
  property could tell apart.
- **A source tree changing during `hardLinkDir`** (the unguarded
  `lstatSync`). The spec gives no behaviour for it.
- **The engine and os checks behind `packageIsInstallable`**, in the
  filter. Only the verdict is modelled. `checkPlatform` is modelled on its
  own.
- **Reporter formatting**: colours, widths, times and line truncation.
  RxJS is taken at version 7 (buffer sees a value before its notifier).
- **A rerun of a lifecycle key**: each key runs once in the model; no
  spec or test says what a rerun should show.
- **`files-include-install-scripts`** and `makeNodeRequireOption`: a
  one-line predicate on file names and a string helper.
- **`extendRebuildOptions`**, `env`: option defaults and Node.js version
  management, which the spec puts out of scope. The one line of
  `extendRebuildOptions` that matters to a property (112, the spread of
  `getOptionsFromRootManifest`) calls code that is not in this repository.
- **Where the config's build lists come from** (pnpm-workspace.yaml or
  package.json) is decided by config reading, outside `approveBuilds`; the
  harness assumes the config's lists equal package.json's whenever it has one.
- **A failed git-hosted fetch's temp index.** A `preparePackage` that
  rejects leaves the non-built index at its temp path. No spec or comment
  says it must be removed, so no property states it; the hazard is listed.
- **`fastPathTemp`** is outside `src/`: the model takes its result as a
  path no other index uses, and the worker's temp names of the two paths as
  distinct.
- **The pool, `createCafs` and `importPackage`.** They are not under
  `src/`. Only their contract is modelled.

## 6. Plan (next modules, in order of importance)

Done: `PkgFilesIntegrity`, `WorkerHandler` (index files per path),
`HardLinkDir`, `CheckPlatform`, `FilterLockfile`, `LifecycleReporter`,
`LifecycleHooks`, the `TaskQueue` refinement of `WorkerHandler`, and
`GitHostedFetch` composed with `WorkerHandler`, and `ApproveBuilds` in the
`CheckPlatform` harness.

The project keeps to 12 runs, so the next steps replace or merge runs.

1. An abstract specification of the git-hosted fetch (a fetch resolves
   with the files its index lists) refined by `GitHostedFetch`.

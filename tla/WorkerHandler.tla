--------------------------- MODULE WorkerHandler ---------------------------
(***************************************************************************)
(* handleMessage of src/worker/src/worker.ts: worker threads taking task   *)
(* messages from their parentPort queue, each handled synchronously to    *)
(* one reply, writing package index files (the filesIndexFile of the     *)
(* message) through writeJsonFile: a temp file named after the index path  *)
(* and process.pid, then optimisticRenameOverwrite onto the index.         *)
(*                                                                         *)
(* Each file-system call is one step.  The store objects and the results  *)
(* of the components a task calls (cafs add, checkPkgFilesIntegrity,       *)
(* importPackage, hardLinkDir, symlinkDependencySync) are abstracted to    *)
(* "succeeds" or "throws", carried by the task as `ok`.  An index file is  *)
(* abstracted to the files it lists (one content value) and the set of its *)
(* side-effects cache keys.                                                *)
(***************************************************************************)
EXTENDS Naturals, Sequences, FiniteSets

CONSTANTS
  Workers,    \* worker threads
  Pid,        \* worker -> process.pid seen by it
  Keys,       \* side-effects cache keys
  NoKey,      \* an addDir message without sideEffectsCacheKey
  IndexPaths, \* filesIndexFile paths
  Contents,   \* what a package's files map can be (one value per variant)
  Tasks,      \* the task messages the orchestrator may send
  MaxTasks    \* bound on the number of messages sent

Kinds == {"extract", "add-dir", "readPkgFromCafs", "link",
          "symlinkAllModules", "hardLinkDir"}

ASSUME NoKey \notin Keys
ASSUME Tasks \subseteq [kind : Kinds, ok : BOOLEAN, key : Keys \cup {NoKey},
                        file : IndexPaths, files : Contents]
ASSUME MaxTasks \in Nat

Shutdown == 0              \* the `false` message (ids start at 1)
Missing  == [exists |-> FALSE, files |-> {}, keys |-> {}]   \* no file on disk
File(c, ks) == [exists |-> TRUE, files |-> {c}, keys |-> ks] \* a written index
Ids == 1..MaxTasks

VARIABLES
  inbox,      \* worker -> queue of message ids (or Shutdown)
  msg,        \* id -> the task sent under that id
  sent,       \* number of messages sent
  stopped,    \* workers the orchestrator has sent `false` to
  wpc,        \* worker -> where its handler is
  cur,        \* worker -> id being handled
  local,      \* worker -> the index it is about to write
  indexFile,  \* path -> Missing or File(its files, its side-effects keys)
  temp,       \* <<path, pid>> -> the temp file `${filePath.slice(0,-11)}${pid}`
  replies,    \* id -> number of postMessage calls for it
  status,     \* id -> status of its last reply
  seAdded     \* path -> keys an add-dir reported stored there since the
              \* last plain write of that index

vars == <<inbox, msg, sent, stopped, wpc, cur, local, indexFile, temp,
          replies, status, seAdded>>

Pids == {Pid[w] : w \in Workers}
Files == {Missing} \cup {File(c, ks) : c \in Contents, ks \in SUBSET Keys}

TypeOK ==
  /\ \A w \in Workers : inbox[w] \in Seq(Ids \cup {Shutdown})
  /\ sent \in 0..MaxTasks /\ stopped \subseteq Workers
  /\ wpc \in [Workers -> {"idle", "load", "writeTemp", "rename", "exited"}]
  /\ cur \in [Workers -> Ids \cup {0}]
  /\ local \in [Workers -> Files]
  /\ indexFile \in [IndexPaths -> Files]
  /\ temp \in [IndexPaths \X Pids -> Files]
  /\ replies \in [Ids -> Nat] /\ status \in [Ids -> {"none", "success", "error"}]
  /\ seAdded \in [IndexPaths -> SUBSET Keys]

Task(w) == msg[cur[w]]
Index(w) == indexFile[Task(w).file]
TempName(w) == <<Task(w).file, Pid[w]>>

\* parentPort.postMessage of the reply to the current message; the handler
\* returns to the event loop
Reply(w, st) ==
  /\ replies' = [replies EXCEPT ![cur[w]] = @ + 1]
  /\ status' = [status EXCEPT ![cur[w]] = st]
  /\ wpc' = [wpc EXCEPT ![w] = "idle"]

(***************************************************************************)
(* Orchestrator                                                            *)
(***************************************************************************)
SendTask(w, t) ==
  /\ sent < MaxTasks /\ w \notin stopped
  /\ sent' = sent + 1
  /\ msg' = [msg EXCEPT ![sent + 1] = t]
  /\ inbox' = [inbox EXCEPT ![w] = Append(@, sent + 1)]
  /\ UNCHANGED <<stopped, wpc, cur, local, indexFile, temp, replies, status,
                 seAdded>>

SendShutdown(w) ==
  /\ w \notin stopped
  /\ stopped' = stopped \cup {w}
  /\ inbox' = [inbox EXCEPT ![w] = Append(@, Shutdown)]
  /\ UNCHANGED <<msg, sent, wpc, cur, local, indexFile, temp, replies, status,
                 seAdded>>

(***************************************************************************)
(* Worker: handleMessage                                                   *)
(***************************************************************************)
\* `false`: parentPort.off and process.exit(0) end the thread
Exit(w) ==
  /\ wpc[w] = "idle" /\ inbox[w] # <<>> /\ Head(inbox[w]) = Shutdown
  /\ inbox' = [inbox EXCEPT ![w] = Tail(@)]
  /\ wpc' = [wpc EXCEPT ![w] = "exited"]
  /\ UNCHANGED <<msg, sent, stopped, cur, local, indexFile, temp, replies,
                 status, seAdded>>

\* addTarballToStore up to its first index access: a tarball whose hash
\* differs from the integrity returns an error reply before anything is
\* written; otherwise its files are added and a plain index is written
addTarballToStore(t) == IF t.ok THEN "writeTemp" ELSE "reply"

\* mutant: `if (sideEffectsCacheKey)` dropped: every add-dir loads the
\* index and stores its files under whatever key it carries
addFilesFromDirNoKeyCheck(t) == IF t.ok THEN "load" ELSE "reply"

\* addFilesFromDir up to its first index access: with a sideEffectsCacheKey
\* the index is loaded to be updated, without one a plain index is written
addFilesFromDir(t) ==
  CASE ~t.ok -> "reply"
  []   t.key # NoKey -> "load"
  []   OTHER -> "writeTemp"

\* the switch on message.type: readPkgFromCafs loads the index, extract
\* and add-dir go on as above, importPackage, symlinkAllModules and
\* hardLinkDir reply with their component's outcome (thrown errors reach
\* the catch, which replies too)
FirstStep(t) ==
  CASE t.kind = "readPkgFromCafs" -> "load"
  []   t.kind = "extract" -> addTarballToStore(t)
  []   t.kind = "add-dir" -> addFilesFromDir(t)
  []   OTHER -> "reply"

\* mutant: the catch block does not post: a thrown add-dir (a failing
\* cafs.addFilesFromDir) is never answered
PostReplyCatchSilent(w, id, t) ==
  /\ IF ~t.ok /\ t.kind = "add-dir"
       THEN UNCHANGED <<replies, status>>
       ELSE /\ replies' = [replies EXCEPT ![id] = @ + 1]
            /\ status' = [status EXCEPT ![id] = IF t.ok THEN "success" ELSE "error"]
  /\ wpc' = [wpc EXCEPT ![w] = "idle"]

\* the reply posted at once, by the case of the switch or by the catch of
\* a thrown error (status: 'error'), and back to the event loop
PostReply(w, id, t) ==
  /\ replies' = [replies EXCEPT ![id] = @ + 1]
  /\ status' = [status EXCEPT ![id] = IF t.ok THEN "success" ELSE "error"]
  /\ wpc' = [wpc EXCEPT ![w] = "idle"]

handleMessage(w) ==
  /\ wpc[w] = "idle" /\ inbox[w] # <<>> /\ Head(inbox[w]) # Shutdown
  /\ inbox' = [inbox EXCEPT ![w] = Tail(@)]
  /\ cur' = [cur EXCEPT ![w] = Head(inbox[w])]
  /\ LET id == Head(inbox[w])
         t == msg[id] IN
       CASE FirstStep(t) = "load"
              -> /\ wpc' = [wpc EXCEPT ![w] = "load"]
                 /\ UNCHANGED <<local, replies, status>>
         [] FirstStep(t) = "writeTemp"
              -> /\ wpc' = [wpc EXCEPT ![w] = "writeTemp"]
                 /\ local' = [local EXCEPT ![w] = File(t.files, {})]
                 /\ UNCHANGED <<replies, status>>
         [] OTHER
              -> PostReply(w, id, t) /\ UNCHANGED local
  /\ UNCHANGED <<msg, sent, stopped, indexFile, temp, seAdded>>

\* mutant: `filesIndex.sideEffects = {}` in place of `?? {}`: the keys
\* already in the index are dropped
LoadSideEffectsIndexDrops(w) ==
  /\ wpc[w] = "load" /\ Task(w).kind = "add-dir"
  /\ local' = [local EXCEPT ![w] =
                 IF Index(w) = Missing THEN File(Task(w).files, {Task(w).key})
                 ELSE File(CHOOSE c \in Index(w).files : TRUE, {Task(w).key})]
  /\ wpc' = [wpc EXCEPT ![w] = "writeTemp"]
  /\ UNCHANGED <<inbox, msg, sent, stopped, cur, indexFile, temp, replies,
                 status, seAdded>>

\* addFilesFromDir with a sideEffectsCacheKey: loadJsonFile(filesIndexFile)
\* (a fresh index built from the added files when the read throws), then
\* sideEffects[key] set on what was read
LoadSideEffectsIndex(w) ==
  /\ wpc[w] = "load" /\ Task(w).kind = "add-dir"
  /\ local' = [local EXCEPT ![w] =
                 IF Index(w) = Missing THEN File(Task(w).files, {Task(w).key})
                 ELSE [Index(w) EXCEPT !.keys = @ \cup {Task(w).key}]]
  /\ wpc' = [wpc EXCEPT ![w] = "writeTemp"]
  /\ UNCHANGED <<inbox, msg, sent, stopped, cur, indexFile, temp, replies,
                 status, seAdded>>

\* mutant: the verified: false reply is posted but the case does not
\* return, so verifying the undefined index throws into the catch, which
\* posts an error reply as well
readPkgFromCafsNoReturn(w) ==
  /\ wpc[w] = "load" /\ Task(w).kind = "readPkgFromCafs"
  /\ replies' = [replies EXCEPT ![cur[w]] = @ + (IF Index(w) = Missing THEN 2 ELSE 1)]
  /\ status' = [status EXCEPT ![cur[w]] =
                  IF Index(w) # Missing /\ Task(w).ok THEN "success" ELSE "error"]
  /\ wpc' = [wpc EXCEPT ![w] = "idle"]
  /\ UNCHANGED <<inbox, msg, sent, stopped, cur, local, indexFile, temp, seAdded>>

\* case 'readPkgFromCafs': loadJsonFile(filesIndexFile); a missing index is
\* a success reply with verified: false and no index, otherwise the reply
\* carries the outcome of checkPkgFilesIntegrity (or of trusting the index),
\* which may throw into the catch
readPkgFromCafs(w) ==
  /\ wpc[w] = "load" /\ Task(w).kind = "readPkgFromCafs"
  /\ Reply(w, IF Index(w) = Missing \/ Task(w).ok THEN "success" ELSE "error")
  /\ UNCHANGED <<inbox, msg, sent, stopped, cur, local, indexFile, temp, seAdded>>

\* writeJsonFile: mkdirSync, then gfs.writeFileSync of the temp named
\* after the index path and the pid
WriteTemp(w) ==
  /\ wpc[w] = "writeTemp"
  /\ temp' = [temp EXCEPT ![TempName(w)] = local[w]]
  /\ wpc' = [wpc EXCEPT ![w] = "rename"]
  /\ UNCHANGED <<inbox, msg, sent, stopped, cur, local, indexFile, replies,
                 status, seAdded>>

\* optimisticRenameOverwrite(temp, filesIndexFile), then the success reply.
\* A temp file already moved by another thread of the same process is an
\* ENOENT that is ignored when the index exists, rethrown otherwise.
RenameIndex(w) ==
  LET p == Task(w).file
      t == temp[TempName(w)]
      ok == t # Missing \/ indexFile[p] # Missing
  IN
  /\ wpc[w] = "rename"
  /\ temp' = [temp EXCEPT ![TempName(w)] = Missing]
  /\ indexFile' = [indexFile EXCEPT ![p] = IF t # Missing THEN t ELSE @]
  /\ Reply(w, IF ok THEN "success" ELSE "error")
  /\ seAdded' = [seAdded EXCEPT ![p] =
                   (IF t.exists /\ t.keys = {} THEN {} ELSE @)
                   \cup (IF ok /\ Task(w).key # NoKey /\ Task(w).kind = "add-dir"
                           THEN {Task(w).key} ELSE {})]
  /\ UNCHANGED <<inbox, msg, sent, stopped, cur, local>>

(***************************************************************************)
(* Specification                                                           *)
(***************************************************************************)
Init ==
  /\ inbox = [w \in Workers |-> <<>>]
  /\ msg = [i \in Ids |-> CHOOSE t \in Tasks : TRUE]
  /\ sent = 0 /\ stopped = {}
  /\ wpc = [w \in Workers |-> "idle"]
  /\ cur = [w \in Workers |-> 0]
  /\ local = [w \in Workers |-> Missing]
  /\ indexFile = [p \in IndexPaths |-> Missing]
  /\ temp = [n \in IndexPaths \X Pids |-> Missing]
  /\ replies = [i \in Ids |-> 0] /\ status = [i \in Ids |-> "none"]
  /\ seAdded = [p \in IndexPaths |-> {}]

Worker(w) ==
  \/ Exit(w) \/ handleMessage(w) \/ LoadSideEffectsIndex(w) \/ readPkgFromCafs(w)
  \/ WriteTemp(w) \/ RenameIndex(w)

Next ==
  \/ \E w \in Workers : \E t \in Tasks : SendTask(w, t)
  \/ \E w \in Workers : SendShutdown(w)
  \/ \E w \in Workers : Worker(w)

\* a worker thread whose queue holds a message runs it to completion
Spec == Init /\ [][Next]_vars /\ \A w \in Workers : WF_vars(Worker(w))


(***************************************************************************)
(* Properties                                                              *)
(***************************************************************************)
(***************************************************************************)
(* Refinement: a worker thread is a TaskQueue                              *)
(***************************************************************************)
\* a message taken by handleMessage and not replied to yet is still the
\* head of the thread's queue as the pool sees it
Busy(w) == wpc[w] \in {"load", "writeTemp", "rename"}
Pending(w) == IF Busy(w) THEN <<cur[w]>> \o inbox[w] ELSE inbox[w]

TQ == INSTANCE TaskQueue WITH
        queue <- [w \in Workers |-> Pending(w)],
        answers <- replies,
        exited <- {w \in Workers : wpc[w] = "exited"}

\* The pool's contract: each thread answers the messages posted to it in
\* order, each with exactly one postMessage on every path of handleMessage
\* (the early return of readPkgFromCafs, the value returned by
\* addTarballToStore and addFilesFromDir, the catch block), never leaves
\* one unanswered, and ends on `false` only after the earlier ones.
ImplementsTaskQueue == TQ!TQSpec

\* A side-effects cache key that an add-dir task reported stored is in the
\* index file, unless a plain index (extract, add-dir without key) has been
\* written since: the build variant is not silently lost.
SideEffectsRetained ==
  \A p \in IndexPaths : seAdded[p] \subseteq indexFile[p].keys

=============================================================================

------------------------- MODULE PkgFilesIntegrity -------------------------
(***************************************************************************)
(* checkPkgFilesIntegrity (src/store/cafs/src/checkPkgFilesIntegrity.ts)   *)
(* run by worker threads against the shared content-addressable store.     *)
(*                                                                         *)
(* Every file-system call (statSync, readFileSync, unlinkSync, rimraf) is  *)
(* one atomic step; the JavaScript between two calls runs in the same      *)
(* step.  Other verifiers (worker threads or pnpm processes sharing the    *)
(* store), an adder writing objects (cafs.addFilesFromTarball) and the     *)
(* environment corrupting objects interleave between those steps.         *)
(*                                                                         *)
(* Data is abstracted to what the algorithm tells apart: an object's       *)
(* content is intact, corrupt with the recorded size, or corrupt with      *)
(* another size; "modified" stands for mtimeMs - checkedAt > 100.          *)
(***************************************************************************)
EXTENDS Naturals, Sequences, FiniteSets, Functions

CONSTANTS
  Objects,           \* store paths returned by getFilePathByModeInCafs
  BaseFiles,         \* pkgIndex.files in Object.entries order: <<[name, obj]>>
  SideEffectFiles,   \* cache key -> files of pkgIndex.sideEffects[key]
  SideEffectShapes,  \* shapes a side-effects entry may have on disk
  ReadManifest,      \* the readManifest argument
  Verifiers,         \* threads running checkPkgFilesIntegrity
  MaxAdds,           \* bound on objects written by the adder
  MaxCorruptions     \* bound on external corruptions during the run

ASSUME BaseFiles \in Seq([name : {"package.json", "other"}, obj : Objects])
ASSUME \A k \in DOMAIN SideEffectFiles : SideEffectFiles[k] \in Seq(Objects)
ASSUME SideEffectShapes \subseteq {"added", "flat"}
ASSUME ReadManifest \in BOOLEAN
ASSUME MaxAdds \in Nat /\ MaxCorruptions \in Nat

SEKeys == DOMAIN SideEffectFiles

VARIABLES
  store,    \* object path -> its state on disk
  store0,   \* the store when the run began (history, never changes)
  seShape,  \* key -> "added" ({added: files}, what the checker reads)
            \*        or "flat" (the files map itself, what worker.ts writes)
  ver,      \* verifier -> its local state
  adds,     \* objects written so far by the adder
  corruptions

vars == <<store, store0, seShape, ver, adds, corruptions>>

(***************************************************************************)
(* Types                                                                   *)
(***************************************************************************)
Contents == {"none", "intact", "sameSize", "otherSize"}
ObjState == [content : Contents, modified : BOOLEAN]
Absent   == [content |-> "none", modified |-> FALSE]

\* Corruption always moves the mtime: mtime-preserving tampering is the
\* documented blind spot of the heuristic and is left out.
InitObjStates ==
  {s \in ObjState : /\ s.content = "none" => ~s.modified
                    /\ s.content \in {"sameSize", "otherSize"} => s.modified}

Todo == [obj : Objects, readFile : BOOLEAN]
PCs == {"idle", "next", "read", "unlink", "rimraf", "readManifest",
        "key", "done"}
Results == {"none", "passed", "failed", "error"}

VerState ==
  [pc : PCs, todo : Seq(Todo), cache : SUBSET Objects, ok : BOOLEAN,
   phase : {"files", "sideEffects"}, key : SEKeys \cup {"none"},
   left : SUBSET SEKeys, kept : SUBSET SEKeys, verified : BOOLEAN,
   result : Results]

IdleVer ==
  [pc |-> "idle", todo |-> <<>>, cache |-> {}, ok |-> TRUE, phase |-> "files",
   key |-> "none", left |-> {}, kept |-> {}, verified |-> FALSE,
   result |-> "none"]

TypeOK ==
  /\ store \in [Objects -> ObjState]
  /\ store0 \in [Objects -> ObjState]
  /\ seShape \in [SEKeys -> SideEffectShapes]
  /\ ver \in [Verifiers -> VerState]
  /\ adds \in 0..MaxAdds /\ corruptions \in 0..MaxCorruptions

(***************************************************************************)
(* Helpers                                                                 *)
(***************************************************************************)
Present(o) == store[o].content # "none"

\* Object.entries(files) with readFile = readManifest && f === 'package.json'
FilesTodo(files, readManifest) ==
  [i \in 1..Len(files) |->
     [obj |-> files[i].obj,
      readFile |-> readManifest /\ files[i].name = "package.json"]]

\* the `added` files of a side-effects entry, as seen by the checker
AddedTodo(k) ==
  [i \in 1..Len(SideEffectFiles[k]) |->
     [obj |-> SideEffectFiles[k][i], readFile |-> FALSE]]

Cur(v) == Head(ver[v].todo)

\* mutant: the file entry (fstat) is cached instead of its store path
SettleCachesEntry(v, passed, pc) ==
  ver' = [ver EXCEPT ![v].todo = Tail(@),
                     ![v].cache = IF passed THEN @ \cup {Cur(v)} ELSE @,
                     ![v].ok = @ /\ passed,
                     ![v].pc = pc]

\* the current file is settled: passed files enter verifiedFilesCache
Settle(v, passed, pc) ==
  ver' = [ver EXCEPT ![v].todo = Tail(@),
                     ![v].cache = IF passed THEN @ \cup {Cur(v).obj} ELSE @,
                     ![v].ok = @ /\ passed,
                     ![v].pc = pc]

Goto(v, pc) == ver' = [ver EXCEPT ![v].pc = pc]

(***************************************************************************)
(* Verifier steps                                                          *)
(***************************************************************************)
\* checkPkgFilesIntegrity: a fresh verifiedFilesCache, then pkgIndex.files
checkPkgFilesIntegrity(v) ==
  /\ ver[v].pc = "idle"
  /\ ver' = [ver EXCEPT ![v] = [IdleVer EXCEPT
                                  !.pc = "next",
                                  !.todo = FilesTodo(BaseFiles, ReadManifest)]]
  /\ UNCHANGED <<store, store0, seShape, adds, corruptions>>

\* if (!readFile && verifiedFilesCache.has(filename)) continue
SkipVerified(v) ==
  /\ ver[v].pc = "next" /\ ver[v].todo # <<>>
  /\ ~Cur(v).readFile /\ Cur(v).obj \in ver[v].cache
  /\ ver' = [ver EXCEPT ![v].todo = Tail(@)]
  /\ UNCHANGED <<store, store0, seShape, adds, corruptions>>

\* mutant: a missing object (statSync ENOENT) counts as verified
checkFileMissingPasses(v) ==
  /\ ver[v].pc = "next" /\ ver[v].todo # <<>>
  /\ Cur(v).readFile \/ Cur(v).obj \notin ver[v].cache
  /\ LET s == store[Cur(v).obj] IN
       CASE s.content = "none"                        -> Settle(v, TRUE, "next")
         [] s.modified /\ s.content = "otherSize"     -> Goto(v, "rimraf")
         [] s.modified                                -> Goto(v, "read")
         [] Cur(v).readFile                           -> Goto(v, "readManifest")
         [] OTHER                                     -> Settle(v, TRUE, "next")
  /\ UNCHANGED <<store, store0, seShape, adds, corruptions>>

\* mutant: the size comparison inverted (=== for !==)
checkFileSizeInverted(v) ==
  /\ ver[v].pc = "next" /\ ver[v].todo # <<>>
  /\ Cur(v).readFile \/ Cur(v).obj \notin ver[v].cache
  /\ LET s == store[Cur(v).obj] IN
       CASE s.content = "none"                        -> Settle(v, FALSE, "next")
         [] s.modified /\ s.content # "otherSize"     -> Goto(v, "rimraf")
         [] s.modified                                -> Goto(v, "read")
         [] Cur(v).readFile                           -> Goto(v, "readManifest")
         [] OTHER                                     -> Settle(v, TRUE, "next")
  /\ UNCHANGED <<store, store0, seShape, adds, corruptions>>

\* verifyFile: checkFile's statSync and the decision taken on its result
checkFile(v) ==
  /\ ver[v].pc = "next" /\ ver[v].todo # <<>>
  /\ Cur(v).readFile \/ Cur(v).obj \notin ver[v].cache
  /\ LET s == store[Cur(v).obj] IN
       CASE s.content = "none"                        -> Settle(v, FALSE, "next")
         [] s.modified /\ s.content = "otherSize"     -> Goto(v, "rimraf")
         [] s.modified                                -> Goto(v, "read")
         [] Cur(v).readFile                           -> Goto(v, "readManifest")
         [] OTHER                                     -> Settle(v, TRUE, "next")
  /\ UNCHANGED <<store, store0, seShape, adds, corruptions>>

\* currentFile.size !== fstat.size: rimraf.sync(filename), not passed
RimrafResized(v) ==
  /\ ver[v].pc = "rimraf"
  /\ store' = [store EXCEPT ![Cur(v).obj] = Absent]
  /\ Settle(v, FALSE, "next")
  /\ UNCHANGED <<store0, seShape, adds, corruptions>>

\* verifyFileIntegrity: readFileSync and ssri.checkData; ENOENT -> not passed
verifyFileIntegrity(v) ==
  /\ ver[v].pc = "read"
  /\ LET c == store[Cur(v).obj].content IN
       CASE c = "none"   -> Settle(v, FALSE, "next")
         [] c = "intact" -> Settle(v, TRUE, "next")
         [] OTHER        -> Goto(v, "unlink")
  /\ UNCHANGED <<store, store0, seShape, adds, corruptions>>

\* checkData failed: gfs.unlinkSync(filename) (ENOENT is caught: not passed)
UnlinkCorrupt(v) ==
  /\ ver[v].pc = "unlink"
  /\ store' = [store EXCEPT ![Cur(v).obj] = Absent]
  /\ Settle(v, FALSE, "next")
  /\ UNCHANGED <<store0, seShape, adds, corruptions>>

\* unmodified package.json with readManifest: readFileSync outside any try,
\* so a file removed since the stat throws out of checkPkgFilesIntegrity
ReadManifestFile(v) ==
  /\ ver[v].pc = "readManifest"
  /\ IF Present(Cur(v).obj)
       THEN Settle(v, TRUE, "next")
       ELSE ver' = [ver EXCEPT ![v].pc = "done", ![v].result = "error"]
  /\ UNCHANGED <<store, store0, seShape, adds, corruptions>>

\* mutant: line 47 tests verified.passed, so a package whose files failed
\* returns before its side-effects entries are checked
EndFilesReturnOnFailure(v) ==
  /\ ver[v].pc = "next" /\ ver[v].todo = <<>>
  /\ IF ver[v].phase = "files"
       THEN IF ver[v].ok
              THEN ver' = [ver EXCEPT ![v].phase = "sideEffects", ![v].pc = "key",
                           ![v].verified = TRUE,
                           ![v].left = SEKeys, ![v].kept = SEKeys]
              ELSE ver' = [ver EXCEPT ![v].pc = "done", ![v].result = "failed"]
       ELSE ver' = [ver EXCEPT ![v].pc = "key",
                    ![v].kept = IF ver[v].ok THEN @ ELSE @ \ {ver[v].key}]
  /\ UNCHANGED <<store, store0, seShape, adds, corruptions>>

\* mutant: a failed side-effects entry is not deleted
EndFilesKeepFailed(v) ==
  /\ ver[v].pc = "next" /\ ver[v].todo = <<>>
  /\ IF ver[v].phase = "files"
       THEN ver' = [ver EXCEPT ![v].phase = "sideEffects", ![v].pc = "key",
                    ![v].verified = ver[v].ok,
                    ![v].left = SEKeys, ![v].kept = SEKeys]
       ELSE ver' = [ver EXCEPT ![v].pc = "key"]
  /\ UNCHANGED <<store, store0, seShape, adds, corruptions>>

\* end of a checkFilesIntegrity call.  After pkgIndex.files its result is
\* kept as `verified`; `if (!verified)` tests that object, which is never
\* falsy, so the side-effects entries are checked whether or not the
\* package's files passed.  A failed side-effects entry is deleted from
\* pkgIndex.sideEffects
EndFiles(v) ==
  /\ ver[v].pc = "next" /\ ver[v].todo = <<>>
  /\ IF ver[v].phase = "files"
       THEN ver' = [ver EXCEPT ![v].phase = "sideEffects", ![v].pc = "key",
                    ![v].verified = ver[v].ok,
                    ![v].left = SEKeys, ![v].kept = SEKeys]
       ELSE ver' = [ver EXCEPT ![v].pc = "key",
                    ![v].kept = IF ver[v].ok THEN @ ELSE @ \ {ver[v].key}]
  /\ UNCHANGED <<store, store0, seShape, adds, corruptions>>

\* for (const [sideEffectName, { added }] of Object.entries(sideEffects)):
\* an entry without `added` is skipped and stays in the index; after the
\* last one, `return verified`: passed is the package files' verdict
NextSideEffect(v) ==
  /\ ver[v].pc = "key"
  /\ IF ver[v].left = {}
       THEN ver' = [ver EXCEPT ![v].pc = "done",
                      ![v].result = IF ver[v].verified THEN "passed" ELSE "failed"]
       ELSE \E k \in ver[v].left :
              ver' = [ver EXCEPT ![v].left = @ \ {k},
                        ![v].key = k, ![v].ok = TRUE,
                        ![v].todo = IF seShape[k] = "added"
                                      THEN AddedTodo(k) ELSE <<>>,
                        ![v].pc = IF seShape[k] = "added" THEN "next" ELSE "key"]
  /\ UNCHANGED <<store, store0, seShape, adds, corruptions>>

(***************************************************************************)
(* The other users of the store                                            *)
(***************************************************************************)
\* cafs add of a file whose object is absent: the object is written intact,
\* with a fresh checkedAt; an existing object is left as it is
AddObject(o) ==
  /\ adds < MaxAdds
  /\ ~Present(o)
  /\ store' = [store EXCEPT ![o] = [content |-> "intact", modified |-> FALSE]]
  /\ adds' = adds + 1
  /\ UNCHANGED <<store0, seShape, ver, corruptions>>

\* accidental external mutation of an object (changes content and mtime)
Corrupt(o) ==
  /\ corruptions < MaxCorruptions
  /\ Present(o)
  /\ \E c \in {"sameSize", "otherSize"} :
       store' = [store EXCEPT ![o] = [content |-> c, modified |-> TRUE]]
  /\ corruptions' = corruptions + 1
  /\ UNCHANGED <<store0, seShape, ver, adds>>

(***************************************************************************)
(* Specification                                                           *)
(***************************************************************************)
Init ==
  /\ store \in [Objects -> InitObjStates]
  /\ store0 = store
  /\ seShape \in [SEKeys -> SideEffectShapes]
  /\ ver = [v \in Verifiers |-> IdleVer]
  /\ adds = 0
  /\ corruptions = 0

Verify(v) ==
  \/ checkPkgFilesIntegrity(v) \/ SkipVerified(v) \/ checkFile(v)
  \/ RimrafResized(v) \/ verifyFileIntegrity(v) \/ UnlinkCorrupt(v)
  \/ ReadManifestFile(v) \/ EndFiles(v) \/ NextSideEffect(v)

Next ==
  \/ \E v \in Verifiers : Verify(v)
  \/ \E o \in Objects : AddObject(o) \/ Corrupt(o)

Spec == Init /\ [][Next]_vars /\ \A v \in Verifiers : WF_vars(Verify(v))


(***************************************************************************)
(* Properties                                                              *)
(***************************************************************************)
Done(v) == ver[v].pc = "done"
BaseObjs == {BaseFiles[i].obj : i \in 1..Len(BaseFiles)}
AddedObjs(k) == Range(SideEffectFiles[k])

\* present and either intact or not touched since checkedAt (initially)
Acceptable0(o) ==
  /\ store0[o].content # "none"
  /\ store0[o].content = "intact" \/ ~store0[o].modified

\* no other store user added or corrupted an object during the call, so
\* store0 is the store the verifier saw
Undisturbed == adds = 0 /\ corruptions = 0

\* objects whose files the finished call looked at: the package's files
\* and the `added` files of every side-effects entry
Checked(v, o) ==
  \/ o \in BaseObjs
  \/ \E k \in SEKeys : seShape[k] = "added" /\ o \in AddedObjs(k)

\* With the store left to the verifier, checkPkgFilesIntegrity reports
\* passed exactly when every object of pkgIndex.files was acceptable,
\* and never throws: verifiedFilesCache and the readManifest bypass never
\* hide a bad file nor fail a good one.
VerdictMatchesStore ==
  \A v \in Verifiers : Done(v) /\ Undisturbed =>
    /\ ver[v].result # "error"
    /\ (ver[v].result = "passed") <=> \A o \in BaseObjs : Acceptable0(o)

\* A finished verification has evicted every corrupt object among the
\* files it checked, not only the first one (the loop in
\* checkFilesIntegrity goes on after a failure), including the build
\* variants' files when the package's own files failed, and nothing else.
CorruptObjectsEvicted ==
  \A v \in Verifiers : Done(v) /\ Undisturbed =>
    \A o \in Objects :
      (store[o].content = "none") <=>
        \/ store0[o].content = "none"
        \/ store0[o].content # "intact" /\ Checked(v, o)

\* The side-effects entries left in pkgIndex are exactly those whose files
\* are all acceptable: a corrupt build variant is dropped, a sound one kept
\* (what readPkgFromCafs hands back with a passed index and the importer
\* then trusts for isBuilt), even when an object is shared between the
\* package's files and a variant and so skipped through verifiedFilesCache.
SideEffectsVerdict ==
  \A v \in Verifiers : Done(v) /\ Undisturbed =>
    ver[v].kept = {k \in SEKeys : \A o \in AddedObjs(k) : Acceptable0(o)}

\* A store object that vanishes under the verifier makes the package fail
\* verification (passed: false, so it is fetched again); checkPkgFilesIntegrity
\* never throws because of it, which readPkgFromCafs would turn into an
\* error reply.
VerifyNeverThrows == \A v \in Verifiers : ver[v].result # "error"

\* No step removes an object whose content is intact: the verifier unlinks
\* (verifyFileIntegrity) or rimrafs (verifyFile) only what is corrupt, even
\* while objects are added to the store between its stat/read and the
\* deletion.
NoIntactObjectEvicted ==
  [][\A o \in Objects :
       store[o].content = "intact" => store'[o].content # "none"]_vars

=============================================================================

---------------------------- MODULE HardLinkDir ----------------------------
(***************************************************************************)
(* hardLinkDir of src/fs/hard-link-dir/src/index.ts: the recursive         *)
(* replication of a source directory into several destinations, run by    *)
(* one or more callers (worker threads handling hardLinkDir messages) at  *)
(* once, possibly into the same destinations.                              *)
(*                                                                         *)
(* A tree is a function from paths (sequences of entry names, at most     *)
(* MaxDepth long, <<>> being the directory itself) to the kind of entry   *)
(* there.  The recursion of _hardLinkDir is an explicit stack of frames   *)
(* (the directory being walked and the readdir entries still to do).      *)
(* Each readdirSync/lstatSync, each mkdir fan-out over destDirs and each  *)
(* linkOrCopyFile call is one step.                                       *)
(***************************************************************************)
EXTENDS Naturals, Sequences, FiniteSets, FiniteSetsExt

CONSTANTS
  Names,                \* entry names readdir may return
  NodeModules,          \* the name "node_modules", skipped
  MaxDepth,             \* depth bound of the trees
  Src,                  \* the src directory
  DestRoots,            \* destination directories (distinct from Src)
  Callers,              \* concurrent hardLinkDir calls
  DestDirs,             \* caller -> the destDirs array it passes
  CrossDevice,          \* dest root -> linkSync fails with EXDEV there
  SrcTrees,             \* possible source trees
  DestTrees             \* possible initial destination trees

ASSUME NodeModules \in Names /\ MaxDepth \in Nat
ASSUME Src \notin DestRoots
ASSUME \A c \in Callers : DestDirs[c] \in Seq(DestRoots \cup {Src})

Paths == UNION {[1..n -> Names] : n \in 0..MaxDepth}
Root == <<>>
Parent(p) == SubSeq(p, 1, Len(p) - 1)
Ancestors(p) == {SubSeq(p, 1, k) : k \in 0..(Len(p) - 1)}
UnderNodeModules(p) == \E i \in 1..Len(p) : p[i] = NodeModules

SrcKinds  == {"none", "dir", "file", "broken"}   \* broken: dangling symlink
DestKinds == {"none", "dir", "file", "link", "copy"} \* file: not ours
FileKinds == {"file", "link", "copy"}

VARIABLES
  src,     \* the source tree (not changed while replicating)
  fs,      \* dest root -> its tree
  fs0,     \* the destination trees when the calls began (history)
  pc,      \* caller -> "idle", "readdir", "loop", "link" or "done"
  dests,   \* caller -> destDirs after dropping the source itself
  stack,   \* caller -> recursion frames [path, todo]
  entry,   \* caller -> the non-directory entry being linked
  di,      \* caller -> index into dests of the next linkOrCopyFile
  result,  \* caller -> "none", "ok" or "error" (an exception escaped)
  follows  \* link(2) resolves a symlink (macOS) or not (Linux)

vars == <<src, fs, fs0, pc, dests, stack, entry, di, result, follows>>

Frame == [path : Paths, todo : SUBSET Names]

TypeOK ==
  /\ src \in [Paths -> SrcKinds]
  /\ fs \in [DestRoots -> [Paths -> DestKinds]]
  /\ pc \in [Callers -> {"idle", "readdir", "loop", "link", "done"}]
  /\ \A c \in Callers : /\ dests[c] \in Seq(DestRoots)
                        /\ stack[c] \in Seq(Frame)
                        /\ Len(stack[c]) <= MaxDepth + 1
  /\ entry \in [Callers -> Paths]
  /\ result \in [Callers -> {"none", "ok", "error"}]

\* a tree whose entries all hang below directories
WellFormed(t, dirKind) ==
  \A p \in Paths \ {Root} : t[p] # "none" => t[Parent(p)] = dirKind

\* mkdirSync(p, {recursive: true}) where it does not throw: the missing
\* directories from the root down to p are created
MkdirP(t, p) ==
  [x \in Paths |-> IF x \in Ancestors(p) \cup {p} /\ t[x] = "none"
                     THEN "dir" ELSE t[x]]

\* a file on the way to p: mkdir and link fail with ENOTDIR (or EEXIST)
FileAbove(t, p) == \E a \in Ancestors(p) : t[a] \in FileKinds

Top(c) == stack[c][Len(stack[c])]
Child(c, n) == Top(c).path \o <<n>>

(***************************************************************************)
(* Steps of one hardLinkDir call                                           *)
(***************************************************************************)
\* mutant: destDirs is not filtered, src stays among the destinations
hardLinkDirNoFilter(c) ==
  /\ pc[c] = "idle"
  /\ IF DestDirs[c] = <<>>
       THEN /\ pc' = [pc EXCEPT ![c] = "done"]
            /\ result' = [result EXCEPT ![c] = "ok"]
            /\ UNCHANGED <<dests, stack>>
       ELSE /\ dests' = [dests EXCEPT ![c] = DestDirs[c]]
            /\ stack' = [stack EXCEPT ![c] = <<[path |-> Root, todo |-> {}]>>]
            /\ pc' = [pc EXCEPT ![c] = "readdir"]
            /\ UNCHANGED result
  /\ UNCHANGED <<follows, src, fs, fs0, entry, di>>

\* hardLinkDir(src, destDirs): return on an empty array, drop any destDir
\* equal to src, then _hardLinkDir(src, destDirs, true)
hardLinkDir(c) ==
  /\ pc[c] = "idle"
  /\ IF DestDirs[c] = <<>>
       THEN /\ pc' = [pc EXCEPT ![c] = "done"]
            /\ result' = [result EXCEPT ![c] = "ok"]
            /\ UNCHANGED <<dests, stack>>
       ELSE /\ dests' = [dests EXCEPT ![c] =
                           SelectSeq(DestDirs[c], LAMBDA d : d # Src)]
            /\ stack' = [stack EXCEPT ![c] = <<[path |-> Root, todo |-> {}]>>]
            /\ pc' = [pc EXCEPT ![c] = "readdir"]
            /\ UNCHANGED result
  /\ UNCHANGED <<follows, src, fs, fs0, entry, di>>

\* readdirSync(src); ENOENT of the top-level src creates every destination
\* (mkdirSync recursive) and returns, any other failure is thrown
ReadDir(c) ==
  LET p == Top(c).path IN
  /\ pc[c] = "readdir"
  /\ IF src[p] = "dir"
       THEN /\ stack' = [stack EXCEPT ![c][Len(stack[c])].todo =
                  {n \in Names : Len(p) < MaxDepth /\ src[p \o <<n>>] # "none"}]
            /\ pc' = [pc EXCEPT ![c] = "loop"]
            /\ UNCHANGED <<fs, result>>
       ELSE /\ pc' = [pc EXCEPT ![c] = "done"]
            /\ UNCHANGED stack
            /\ IF Len(stack[c]) = 1
                 THEN /\ fs' = [d \in DestRoots |->
                                  IF \E i \in DOMAIN dests[c] : dests[c][i] = d
                                    THEN MkdirP(fs[d], Root) ELSE fs[d]]
                      /\ result' = [result EXCEPT ![c] = "ok"]
                 ELSE /\ result' = [result EXCEPT ![c] = "error"]
                      /\ UNCHANGED fs
  /\ UNCHANGED <<follows, src, fs0, dests, entry, di>>

\* if (file === 'node_modules') continue
SkipEntry(n) == n = NodeModules

\* one iteration of `for (const file of files)`: node_modules is skipped;
\* lstatSync; a directory is created in every destination (EEXIST ignored,
\* anything else thrown, the destinations before the failing one already
\* made) and recursed into; any other entry is linked into each destination
NextEntry(c) ==
  /\ pc[c] = "loop" /\ Top(c).todo # {}
  /\ \E n \in Top(c).todo :
       LET q == Child(c, n)
           ds == dests[c]
           rest == [stack[c] EXCEPT ![Len(stack[c])].todo = @ \ {n}]
           bad == {i \in 1..Len(ds) : FileAbove(fs[ds[i]], q)}
           made == {ds[i] : i \in 1..(IF bad = {} THEN Len(ds) ELSE Min(bad) - 1)}
       IN
       CASE SkipEntry(n) ->
              /\ stack' = [stack EXCEPT ![c] = rest]
              /\ UNCHANGED <<fs, pc, result, entry, di>>
         [] src[q] = "dir" /\ bad = {} ->
              /\ fs' = [d \in DestRoots |->
                          IF d \in made THEN MkdirP(fs[d], q) ELSE fs[d]]
              /\ stack' = [stack EXCEPT ![c] =
                             Append(rest, [path |-> q, todo |-> {}])]
              /\ pc' = [pc EXCEPT ![c] = "readdir"]
              /\ UNCHANGED <<result, entry, di>>
         [] src[q] = "dir" ->
              /\ fs' = [d \in DestRoots |->
                          IF d \in made THEN MkdirP(fs[d], q) ELSE fs[d]]
              /\ pc' = [pc EXCEPT ![c] = "done"]
              /\ result' = [result EXCEPT ![c] = "error"]
              /\ UNCHANGED <<stack, entry, di>>
         [] ds = <<>> ->
              /\ stack' = [stack EXCEPT ![c] = rest]
              /\ UNCHANGED <<fs, pc, result, entry, di>>
         [] OTHER ->
              /\ stack' = [stack EXCEPT ![c] = rest]
              /\ entry' = [entry EXCEPT ![c] = q]
              /\ di' = [di EXCEPT ![c] = 1]
              /\ pc' = [pc EXCEPT ![c] = "link"]
              /\ UNCHANGED <<fs, result>>
  /\ UNCHANGED <<follows, src, fs0, dests>>

\* the entries of a directory are done: return to the caller's loop
EndDir(c) ==
  /\ pc[c] = "loop" /\ Top(c).todo = {}
  /\ stack' = [stack EXCEPT ![c] = SubSeq(@, 1, Len(@) - 1)]
  /\ IF Len(stack[c]) = 1
       THEN /\ pc' = [pc EXCEPT ![c] = "done"]
            /\ result' = [result EXCEPT ![c] = "ok"]
       ELSE UNCHANGED <<pc, result>>
  /\ UNCHANGED <<follows, src, fs, fs0, dests, entry, di>>

\* mutant: linkOrCopyFile rethrows EEXIST
LinkOutcomeNoEExist(t, q, d) ==
  CASE FileAbove(t, q)                            -> "error"
    [] t[q] # "none"                              -> "error"
    [] src[q] = "broken" /\ (follows \/ CrossDevice[d]) -> "skip"
    [] CrossDevice[d]                             -> "copy"
    [] OTHER                                      -> "link"

\* mutant: the EXDEV fallback forgets copyFileSync
LinkOutcomeNoCopy(t, q, d) ==
  CASE FileAbove(t, q)                            -> "error"
    [] t[q] # "none"                              -> "skip"
    [] src[q] = "broken" /\ (follows \/ CrossDevice[d]) -> "skip"
    [] CrossDevice[d]                             -> "skip"
    [] OTHER                                      -> "link"

\* Outcome of linkOrCopyFile(srcFile, destFile) on tree t:
\*   "link"/"copy" linkSync (or copyFileSync on EXDEV) made the file;
\*   "skip"        EEXIST, or ENOENT of a dangling symlink (line 48): from
\*                 linkSync where link(2) follows symlinks, else from the
\*                 copyFileSync of the EXDEV fallback, which follows it;
\*   "error"       ENOTDIR/EEXIST from a file on the way, rethrown.
\* A missing parent (ENOENT) is created before the retry.
LinkOutcome(t, q, d) ==
  CASE FileAbove(t, q)                            -> "error"
    [] t[q] # "none"                              -> "skip"
    [] src[q] = "broken" /\ (follows \/ CrossDevice[d]) -> "skip"
    [] CrossDevice[d]                             -> "copy"
    [] OTHER                                      -> "link"

\* one linkOrCopyFile(srcFile, destFile) of `for (const destDir of destDirs)`
LinkOrCopyFile(c) ==
  LET d == dests[c][di[c]]
      q == entry[c]
      out == LinkOutcome(fs[d], q, d)
  IN
  /\ pc[c] = "link"
  /\ fs' = [fs EXCEPT ![d] =
              CASE out \in {"link", "copy"} -> [MkdirP(@, Parent(q)) EXCEPT ![q] = out]
                [] out = "skip" /\ @[q] = "none" -> MkdirP(@, Parent(q))
                [] OTHER -> @]
  /\ IF out = "error"
       THEN /\ pc' = [pc EXCEPT ![c] = "done"]
            /\ result' = [result EXCEPT ![c] = "error"]
            /\ UNCHANGED di
       ELSE /\ di' = [di EXCEPT ![c] = @ + 1]
            /\ pc' = [pc EXCEPT ![c] = IF di[c] = Len(dests[c]) THEN "loop" ELSE "link"]
            /\ UNCHANGED result
  /\ UNCHANGED <<follows, src, fs0, dests, stack, entry>>

(***************************************************************************)
(* Specification                                                           *)
(***************************************************************************)
Init ==
  /\ src \in SrcTrees
  /\ fs \in [DestRoots -> DestTrees]
  /\ fs0 = fs
  /\ pc = [c \in Callers |-> "idle"]
  /\ dests = [c \in Callers |-> <<>>]
  /\ stack = [c \in Callers |-> <<>>]
  /\ entry = [c \in Callers |-> Root]
  /\ di = [c \in Callers |-> 1]
  /\ result = [c \in Callers |-> "none"]
  /\ follows \in BOOLEAN

Step(c) ==
  \/ hardLinkDir(c) \/ ReadDir(c) \/ NextEntry(c) \/ EndDir(c)
  \/ LinkOrCopyFile(c)

Next == \E c \in Callers : Step(c)

Spec == Init /\ [][Next]_vars /\ \A c \in Callers : WF_vars(Step(c))

(***************************************************************************)
(* Properties                                                              *)
(***************************************************************************)
Done == \A c \in Callers : pc[c] = "done"
Targets(c) == {dests[c][i] : i \in DOMAIN dests[c]}

\* what a destination entry must be once src is replicated into it:
\* directories and files of src appear, what was there is never replaced,
\* node_modules and its contents are left alone, a dangling symlink may
\* be missing (link(2) following it) or linked
Mirrored(d, p) ==
  LET was == fs0[d][p] IN
  CASE UnderNodeModules(p) \/ src[p] = "none" -> fs[d][p] = was
    [] was # "none"                          -> fs[d][p] = was
    [] src[p] = "dir"                        -> fs[d][p] = "dir"
    [] src[p] = "file"                       -> fs[d][p] \in {"link", "copy"}
    [] OTHER                                 -> fs[d][p] \in {"none", "link", "copy"}

\* When every call has returned without throwing, each destination below
\* its root holds exactly the mirror of src: no entry lost (also with two
\* calls linking into the same destination and meeting each other's
\* EEXIST), none overwritten, nothing under node_modules.
DestMirrorsSource ==
  Done =>
    \A c \in Callers : result[c] = "ok" => \A d \in Targets(c) :
      \A p \in Paths \ {Root} : Mirrored(d, p)

\* a destination holds a file where src needs a directory to go on
Conflict(d) ==
  \E p \in Paths :
    /\ src[p] # "none" /\ ~UnderNodeModules(p)
    /\ \E a \in Ancestors(p) \ {Root} : fs0[d][a] \in FileKinds

\* A call throws only for a real conflict in a destination: cross-device
\* links, existing entries, missing destination directories, dangling
\* symlinks and a concurrent call into the same destination are all
\* absorbed, as the spec's replicator contract requires.
ThrowsOnlyOnConflict ==
  \A c \in Callers :
    result[c] = "error" => \E d \in Targets(c) : Conflict(d)

=============================================================================

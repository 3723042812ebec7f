--------------------------- MODULE FilterLockfile ---------------------------
(***************************************************************************)
(* filterLockfileByImportersAndEngine of                                   *)
(* src/lockfile/filter-lockfile/src/filterLockfileByImportersAndEngine.ts: *)
(* the packages of a lockfile that the selected importers (workspace       *)
(* projects) need, walking from their dependency refs through the package  *)
(* snapshots and through `link:` refs into further importers.              *)
(*                                                                         *)
(* The function is pure except for the Sets and maps it mutates            *)
(* (importerIdSet, pickedPackages, opts.skipped), so it is a sequence of   *)
(* calls: each step takes a lockfile and a selection from bounded sets and *)
(* records what the call returned.  The recursion of the code is kept:    *)
(* pkgAllDeps and toImporterDepPaths are RECURSIVE operators threading the *)
(* mutated state, and the depth of toImporterDepPaths is bounded by the    *)
(* number of importers, beyond which the code can only be on a cycle and   *)
(* ends in a stack overflow.                                               *)
(*                                                                         *)
(* Data abstraction.  A ref is [kind |-> "link", to |-> id] for            *)
(* `link:<id>` (substring(5) compared with the importer ids as is) or      *)
(* [kind |-> "pkg", to |-> depPath] for what dp.refToRelative makes of any *)
(* other ref.  A dependency field is the set of its refs (names within an  *)
(* importer are distinct, so the spreads of lines 241-247 and 208-213      *)
(* overwrite nothing); the order of Object.entries is one fixed order of   *)
(* that set, and what a call returns does not depend on it.  A snapshot's  *)
(* os/cpu/libc/engines are abstracted to the verdict `installable` of      *)
(* packageIsInstallable.                                                   *)
(***************************************************************************)
EXTENDS Naturals, Sequences, FiniteSets, Graphs

CONSTANTS
  Importers,     \* importer ids of the lockfiles
  LinkTargets,   \* what a `link:` ref may name: importer ids and others
  PkgPaths,      \* depPaths refToRelative makes of registry refs
  LinkDepPaths,  \* the depPaths among them that start with 'link:'
  Absent,        \* no snapshot under a depPath (a model value)
  Lockfiles,     \* lockfiles a call may be given
  Selections,    \* importerIds arguments (sequences of importer ids)
  Include,       \* opts.include: [dependencies, devDependencies,
                 \*                optionalDependencies -> BOOLEAN]
  FailOnMissing, \* opts.failOnMissingDependencies
  IncludeIncompatible \* opts.includeIncompatiblePackages === true

Fields == {"dependencies", "devDependencies", "optionalDependencies"}

\* the recursion depth of toImporterDepPaths that an acyclic chain of
\* link: importers cannot exceed
MaxLinkDepth == Cardinality(Importers)

VARIABLES
  call,   \* the last call: lockfile and importerIds
  out     \* what it returned, or the error it threw

vars == <<call, out>>

(***************************************************************************)
(* The code                                                                *)
(***************************************************************************)
\* the entries of a set of refs, in Object.entries order
Entries(refs) == SetToSeq(refs)

\* parseDepRefs: link: refs to existing importers become importer ids,
\* link: refs to anything else are dropped, other refs become depPaths
parseDepRefs(refs, lf) ==
  FoldLeft(LAMBDA acc, r :
             IF r.kind = "link"
               THEN IF r.to \in DOMAIN lf.importers
                      THEN [acc EXCEPT !.importerIds = Append(@, r.to)]
                      ELSE acc
               ELSE [acc EXCEPT !.depPaths = Append(@, r.to)],
           [depPaths |-> <<>>, importerIds |-> <<>>], refs)

\* the included dependency fields of an importer, merged
ImporterRefs(imp) == UNION {imp[f] : f \in {g \in Fields : Include[g]}}

\* toImporterDepPaths: the depPaths of the given importers and, through
\* their link: refs, of the importers they link to, recursively, adding
\* each linked importer to importerIdSet.  Nothing stops it on a cycle.
RECURSIVE toImporterDepPaths(_, _, _, _)
toImporterDepPaths(lf, importerIds, idSet, depth) ==
  LET refs == UNION {ImporterRefs(lf.importers[importerIds[k]]) :
                       k \in DOMAIN importerIds}
      parsed == parseDepRefs(Entries(refs), lf)
  IN IF parsed.importerIds = <<>>
       THEN [depPaths |-> parsed.depPaths, idSet |-> idSet, overflow |-> FALSE]
     ELSE IF depth = 0
       THEN [depPaths |-> <<>>, idSet |-> idSet, overflow |-> TRUE]
     ELSE LET rest == toImporterDepPaths(lf, parsed.importerIds,
                         idSet \cup Range(parsed.importerIds), depth - 1)
          IN [rest EXCEPT !.depPaths = parsed.depPaths \o @]

\* the refs a snapshot's dependencies lead to (lines 208-213)
SnapshotRefs(snap) ==
  snap.dependencies
    \cup (IF Include.optionalDependencies THEN snap.optionalDependencies
          ELSE {})

\* is the package installable: never below an uninstallable parent,
\* otherwise includeIncompatiblePackages or packageIsInstallable's verdict
Installable(snap, parentIsInstallable) ==
  parentIsInstallable /\ (IncludeIncompatible \/ snap.installable)

\* opts.skipped after the verdict (lines 170-201)
Skip(ctx, d, snap, installable) ==
  IF installable THEN ctx.skipped \ {d}
  ELSE IF snap.optional THEN ctx.skipped \cup {d} ELSE ctx.skipped

\* A missing snapshot, or a depPath that does not start with 'link:',
\* throws under failOnMissingDependencies and is skipped otherwise.
Missing(ctx) == IF FailOnMissing THEN [ctx EXCEPT !.error = "missing"]
                ELSE ctx

\* pkgAllDeps: the loop over depPaths (Visit is one iteration), each one
\* picked with its snapshot and its dependencies walked depth first.
\* ctx is [picked, idSet, skipped, error]; the walk stops at an error.
RECURSIVE pkgAllDeps(_, _, _, _), Visit(_, _, _, _)
pkgAllDeps(lf, ctx, depPaths, parentIsInstallable) ==
  IF ctx.error # "none" \/ depPaths = <<>> THEN ctx
  ELSE pkgAllDeps(lf, Visit(lf, ctx, Head(depPaths), parentIsInstallable),
                  Tail(depPaths), parentIsInstallable)

Visit(lf, ctx, d, parentIsInstallable) ==
  LET snap == lf.packages[d]
      installable == Installable(snap, parentIsInstallable)
      parsed == parseDepRefs(Entries(SnapshotRefs(snap)), lf)
      idSet1 == ctx.idSet \cup Range(parsed.importerIds)
      linked == toImporterDepPaths(lf, parsed.importerIds, idSet1,
                                   MaxLinkDepth)
      ctx1 == [picked |-> ctx.picked \cup {d}, idSet |-> linked.idSet,
               skipped |-> Skip(ctx, d, snap, installable),
               error |-> ctx.error]
  IN CASE d \in ctx.picked -> ctx
     []   snap = Absent -> Missing(ctx)
     []   d \notin LinkDepPaths -> Missing(ctx)
     []   linked.overflow ->
            [ctx1 EXCEPT !.error = "overflow"]
     []   OTHER -> pkgAllDeps(lf, ctx1,
                              parsed.depPaths \o linked.depPaths, installable)

\* filterLockfileByImportersAndEngine: the importers' direct depPaths,
\* the packages picked from them, the importers' optionalDependencies
\* kept when they link or were picked, and the importer ids reached
filterLockfileByImportersAndEngine(lf, importerIds) ==
  LET direct == toImporterDepPaths(lf, importerIds, Range(importerIds),
                                   MaxLinkDepth)
      ctx0 == [picked |-> {}, idSet |-> direct.idSet, skipped |-> {},
               error |-> "none"]
      ctx == IF lf.hasPackages
               THEN pkgAllDeps(lf, ctx0, direct.depPaths, TRUE)
               ELSE ctx0
      keepOptional(imp) ==
        {r \in (IF Include.optionalDependencies
                  THEN imp.optionalDependencies ELSE {}) :
           r.kind = "link" \/ r.to \in ctx.picked}
  IN CASE direct.overflow -> [error |-> "overflow"]
     []   ctx.error # "none" -> [error |-> ctx.error]
     []   OTHER ->
            [error |-> "none", packages |-> ctx.picked,
             optional |-> [i \in DOMAIN lf.importers |->
                             keepOptional(lf.importers[i])],
             selectedImporterIds |-> ctx.idSet, skipped |-> ctx.skipped]

(***************************************************************************)
(* Calls                                                                   *)
(***************************************************************************)
CallFilter ==
  \E lf \in Lockfiles, ids \in Selections :
    /\ call' = [lockfile |-> lf, importerIds |-> ids]
    /\ out' = filterLockfileByImportersAndEngine(lf, ids)

Init == call = "none" /\ out = [error |-> "notCalled"]

Next == CallFilter

Spec == Init /\ [][Next]_vars

(***************************************************************************)
(* Reference: the dependency graph of a lockfile                           *)
(***************************************************************************)
\* an importer points at the targets of its included refs, a package with
\* a snapshot at the targets of its dependencies (and optional ones)
DepGraph(lf) ==
  [node |-> Importers \cup LinkTargets \cup PkgPaths,
   edge |-> UNION {{<<i, r.to>> : r \in ImporterRefs(lf.importers[i])} :
                     i \in DOMAIN lf.importers}
            \cup UNION {{<<p, r.to>> : r \in SnapshotRefs(lf.packages[p])} :
                         p \in {q \in PkgPaths : lf.packages[q] # Absent}}]

\* the packages (with a snapshot) reachable from the selected importers
Closure(lf, ids) ==
  IF ~lf.hasPackages THEN {}
  ELSE {p \in PkgPaths :
          lf.packages[p] # Absent
          /\ \E i \in Range(ids) : p \in Descendants(DepGraph(lf), i)}

Results ==
  [error : {"none"}, packages : SUBSET PkgPaths,
   optional : UNION {[D -> SUBSET [kind : {"link", "pkg"},
                                    to : LinkTargets \cup PkgPaths]] :
                       D \in SUBSET Importers},
   selectedImporterIds : SUBSET Importers, skipped : SUBSET PkgPaths]
  \cup [error : {"notCalled", "missing", "overflow"}]

(***************************************************************************)
(* Properties                                                              *)
(***************************************************************************)
TypeOK == out \in Results

\* pickPkgsWithAllDeps: a filter that returns normally keeps exactly the
\* packages of the lockfile that the selected importers depend on,
\* directly, through other packages or through link: importers; the
\* "No entry for <depPath>" branch is for depPaths without a snapshot.
PackagesAreClosure ==
  out.error = "none" =>
    out.packages = Closure(call.lockfile, call.importerIds)

=============================================================================

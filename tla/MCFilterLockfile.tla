-------------------------- MODULE MCFilterLockfile --------------------------
(***************************************************************************)
(* Lockfiles of a workspace with a root importer "." and a project "a":   *)
(* every importer may depend on a registry package p or q or link to ".", *)
(* "a" or a directory "b" that is no importer, and list q as optional; p's *)
(* snapshot may depend on any of these, q's on nothing.                   *)
(***************************************************************************)
EXTENDS FilterLockfile

MCImporters == {".", "a"}
MCLinkTargets == {".", "a", "b"}
MCPkgPaths == {"p", "q"}

Link(t) == [kind |-> "link", to |-> t]
Pkg(p) == [kind |-> "pkg", to |-> p]

MCRefs == {Link(t) : t \in MCLinkTargets} \cup {Pkg(p) : p \in MCPkgPaths}
RefsUpTo1 == {{}} \cup {{r} : r \in MCRefs}

ImporterShapes ==
  [dependencies : RefsUpTo1, devDependencies : {{}},
   optionalDependencies : {{}, {Pkg("q")}}]

Snapshots(deps) ==
  [dependencies : deps, optionalDependencies : {{}},
   optional : BOOLEAN, installable : BOOLEAN] \cup {Absent}

MCLockfiles ==
  [importers : [MCImporters -> ImporterShapes],
   packages : {f \in [MCPkgPaths -> Snapshots(RefsUpTo1)] :
                 f["q"] \in Snapshots({{}})},
   hasPackages : BOOLEAN]

MCSelections == {<<".">>, <<"a">>, <<".", "a">>}

AllIncluded ==
  [dependencies |-> TRUE, devDependencies |-> TRUE,
   optionalDependencies |-> TRUE]
=============================================================================

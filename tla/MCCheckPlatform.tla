-------------------------- MODULE MCCheckPlatform --------------------------
EXTENDS CheckPlatform

MCNames == {"linux", "darwin", "win32", "x64", "arm64", "glibc", "musl"}

E(n) == [neg |-> FALSE, name |-> n]
N(n) == [neg |-> TRUE, name |-> n]
ElementsOf(ns) == {E(n) : n \in ns} \cup {N(n) : n \in ns}
ListsUpTo2(S) == {<<>>} \cup {<<x>> : x \in S} \cup {<<x, y>> : x, y \in S}
ListsUpTo1(S) == {<<>>} \cup {<<x>> : x \in S}

Os == {"linux", "darwin", "win32"}

\* one or two supported os values against every list of up to two
\* elements, negated or not, 'any' included
MCListInputs ==
  {<<vs, l>> : vs \in {<<v>> : v \in Os} \cup {<<v, w>> : v, w \in Os},
               l \in ListsUpTo2(ElementsOf(Os \cup {Any}))}

\* package fields absent or of at most one element, with and without
\* supportedArchitectures, on linux or win32 with a known or unknown libc
MCPlatformInputs ==
  [wanted : [os : {Undefined} \cup ListsUpTo1(ElementsOf({"linux", "win32", Any})),
             cpu : {Undefined} \cup ListsUpTo1(ElementsOf({"x64", "arm64"})),
             libc : {Undefined} \cup ListsUpTo1(ElementsOf({"glibc", "musl"}))],
   supported : {Undefined,
                [os |-> <<Current, "win32">>, cpu |-> <<Current>>,
                 libc |-> <<Current>>]},
   env : [os : {"linux", "win32"}, cpu : {"x64"}, libc : {"glibc", "unknown"}]]

(***************************************************************************)
(* approve-builds calls in the same harness: a step is a call of either    *)
(* command, recorded in the same call and out                              *)
(***************************************************************************)
CONSTANT Cancel

\* c is never offered: it stands for a package the config already lists
Offered == {"a", "b"}
ConfigLists == {Undefined, {}, {"c"}}
Listed(l) == IF l = Undefined THEN {} ELSE l

\* without a workspace the config's lists are the manifest's; with one,
\* they are the manifest's when its pnpm field has one, else the
\* workspace manifest's
ManifestsFor(o, i, wd) ==
  LET own == [onlyBuilt |-> o, ignoredBuilt |-> i]
      none == [onlyBuilt |-> Undefined, ignoredBuilt |-> Undefined]
  IN CASE o = Undefined /\ i = Undefined -> {Undefined, none}
     []   ~wd -> {own}
     []   OTHER -> {own, Undefined, none}

MCApproveInputs ==
  {in \in [auto : {Undefined} \cup SUBSET Offered,
           selected : {Cancel} \cup SUBSET Offered,
           confirmed : BOOLEAN,
           onlyBuilt : ConfigLists, ignoredBuilt : ConfigLists,
           workspaceDir : BOOLEAN,
           manifest : {Undefined} \cup [onlyBuilt : ConfigLists,
                                        ignoredBuilt : ConfigLists]] :
     /\ in.selected # Cancel => in.selected \subseteq Listed(in.auto)
     /\ in.manifest \in ManifestsFor(in.onlyBuilt, in.ignoredBuilt, in.workspaceDir)}

AB == INSTANCE ApproveBuilds WITH ApproveInputs <- MCApproveInputs

PolicySpec == Init /\ [][Next \/ AB!CallApproveBuilds]_vars

ApprovalsRecorded == AB!ApprovalsRecorded
=============================================================================

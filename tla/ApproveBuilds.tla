--------------------------- MODULE ApproveBuilds ---------------------------
(***************************************************************************)
(* The handler of `pnpm approve-builds`                                    *)
(* (src/exec/build-commands/src/approveBuilds.ts): the packages whose     *)
(* builds the last install ignored are offered in a multiselect prompt;   *)
(* the chosen ones are added to onlyBuiltDependencies and the others to   *)
(* ignoredBuiltDependencies, after a confirmation when something is to be *)
(* built; the lists are written to the root package.json or to the        *)
(* workspace manifest, and the chosen packages are rebuilt.                *)
(*                                                                         *)
(* The handler is sequential: each step of the harness is one call, with  *)
(* the awaited inputs (getAutomaticallyIgnoredBuilds, the two prompts,     *)
(* tryReadProjectManifest) taken from a bounded set, and records where the *)
(* lists were written and what rebuild was called with.  sortUniqueStrings *)
(* makes a sorted list without duplicates, which is determined by its set  *)
(* of elements: lists are sets here.                                       *)
(***************************************************************************)
EXTENDS FiniteSets

CONSTANTS
  Undefined,     \* an absent value (a model value)
  Cancel,        \* the multiselect prompt cancelled (Ctrl+C)
  ApproveInputs  \* the inputs of a call (see below)

VARIABLES
  call,   \* the last input
  out     \* what the handler did

(* An input: auto is getAutomaticallyIgnoredBuilds() (Undefined or a set),  *)
(* selected the multiselect's result (Cancel, or a subset of auto),        *)
(* confirmed the answer to the confirm prompt, onlyBuilt/ignoredBuilt the  *)
(* config's lists (Undefined or a set), workspaceDir whether it is set,    *)
(* manifest the root manifest read (Undefined when there is none, else its *)
(* pnpm.onlyBuiltDependencies and pnpm.ignoredBuiltDependencies).          *)

Listed(l) == IF l = Undefined THEN {} ELSE l

\* mutant: the filter of line 89 left out: every offered package is
\* also added to ignoredBuiltDependencies
IgnoredPackagesUnfiltered(in) == in.auto

\* line 89: the offered packages the user did not choose
IgnoredPackages(in) == in.auto \ in.selected

\* lines 90-111: a list gets the new packages added to the config's, and
\* is left undefined when there are none
UpdatedList(old, new) ==
  CASE new = {} -> Undefined
  []   old = Undefined -> new
  []   OTHER -> old \cup new

\* lines 141-146: rebuild.handler with the updated onlyBuiltDependencies
\* and the chosen packages
rebuildOpts(in) ==
  [pkgs |-> in.selected, onlyBuilt |-> UpdatedList(in.onlyBuilt, in.selected)]

\* lines 124-140: package.json takes the lists when there is no workspace
\* or when its pnpm field already holds one of them (a list not updated
\* keeps its value); otherwise both are passed to updateWorkspaceManifest
WriteLists(in, only, ignored) ==
  LET m == IF in.manifest = Undefined
             THEN [onlyBuilt |-> Undefined, ignoredBuilt |-> Undefined]
             ELSE in.manifest
  IN IF ~in.workspaceDir \/ m.onlyBuilt # Undefined \/ m.ignoredBuilt # Undefined
       THEN [file |-> "manifest",
             onlyBuilt |-> IF only # Undefined THEN only ELSE m.onlyBuilt,
             ignoredBuilt |-> IF ignored # Undefined THEN ignored ELSE m.ignoredBuilt]
       ELSE [file |-> "workspace", onlyBuilt |-> only, ignoredBuilt |-> ignored]

NoWrite == [file |-> "none", onlyBuilt |-> Undefined, ignoredBuilt |-> Undefined]

\* lines 46-147: the handler's early returns (nothing awaiting approval,
\* the prompt cancelled, the build not confirmed), then the write and the
\* rebuild of the chosen packages
handler(in) ==
  CASE in.auto = Undefined \/ in.auto = {}
         -> [result |-> "noPending", write |-> NoWrite, rebuild |-> Undefined]
  []   in.selected = Cancel
         -> [result |-> "exit", write |-> NoWrite, rebuild |-> Undefined]
  []   in.selected # {} /\ ~in.confirmed
         -> [result |-> "declined", write |-> NoWrite, rebuild |-> Undefined]
  []   OTHER
         -> [result |-> "written",
             write |-> WriteLists(in, UpdatedList(in.onlyBuilt, in.selected),
                                  UpdatedList(in.ignoredBuilt, IgnoredPackages(in))),
             rebuild |-> IF in.selected # {} THEN rebuildOpts(in) ELSE Undefined]

CallApproveBuilds ==
  \E in \in ApproveInputs :
    /\ call' = [kind |-> "approve", in |-> in]
    /\ out' = handler(in)

(***************************************************************************)
(* Properties                                                              *)
(***************************************************************************)
\* After a call that writes, the file written lists every package the
\* user chose in onlyBuiltDependencies and not in ignoredBuiltDependencies,
\* every offered package not chosen the other way round, and keeps the
\* packages the config listed before.
ApprovalsRecorded ==
  call.kind = "approve" /\ out.result = "written" =>
    LET in == call.in
        w == out.write
        rest == in.auto \ in.selected
    IN /\ in.selected \subseteq Listed(w.onlyBuilt) \ Listed(w.ignoredBuilt)
       /\ rest \subseteq Listed(w.ignoredBuilt) \ Listed(w.onlyBuilt)
       /\ w.file = "manifest" =>
            Listed(in.onlyBuilt) \subseteq Listed(w.onlyBuilt)
            /\ Listed(in.ignoredBuilt) \subseteq Listed(w.ignoredBuilt)

=============================================================================

-------------------------- MODULE MCLifecycleHooks --------------------------
(***************************************************************************)
(* A dependency d built while an importer r runs its install script.  r's *)
(* script prints eleven lines, one more than the window of the running     *)
(* display; d's install prints one line, its other hooks none.  d's        *)
(* package.json is missing, has only a binding.gyp, a preinstall next to a *)
(* binding.gyp, or install and postinstall scripts.                        *)
(***************************************************************************)
EXTENDS LifecycleHooks

CONSTANTS d, r

MCDeps == {d}
MCImporters == {r}
MCKeys == {d, r} \X {"preinstall", "install", "postinstall"}

MCImporterStages == <<"install">>

MCManifests ==
  {[found |-> FALSE, scripts |-> {}, gyp |-> FALSE],
   [found |-> TRUE, scripts |-> {}, gyp |-> TRUE],
   [found |-> TRUE, scripts |-> {"preinstall"}, gyp |-> TRUE],
   [found |-> TRUE, scripts |-> {"install", "postinstall"}, gyp |-> FALSE]}

MCLineCount == [k \in MCKeys |-> CASE k[1] = r -> 11
                                 []   k[2] = "install" -> 1
                                 []   OTHER -> 0]
=============================================================================

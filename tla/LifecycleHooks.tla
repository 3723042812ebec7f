--------------------------- MODULE LifecycleHooks ---------------------------
(***************************************************************************)
(* runPostinstallHooks of src/exec/lifecycle/src/index.ts, run for the     *)
(* dependencies being built, next to the scripts of workspace importers,   *)
(* all reporting to one reportLifecycleScripts (LifecycleReporter).        *)
(*                                                                         *)
(* Each actor (a dependency or an importer) runs its stages one after the  *)
(* other; the actors run concurrently, so their log events interleave.     *)
(* Running one stage is runLifecycleHook, which is not under src/: it      *)
(* logs the script, then each output line, then the exit code, and a      *)
(* non-zero exit rejects.  A run is <<actor, stage>>, which is also its    *)
(* stage:depPath key in the reporter.                                      *)
(***************************************************************************)
EXTENDS LifecycleReporter, Integers, FiniteSets

CONSTANTS
  Deps,           \* dependencies built with runPostinstallHooks
  ImporterIds,    \* importers whose scripts run through runLifecycleHooksConcurrently
  Manifests,      \* package.json a dependency may have (found = FALSE: none)
  ImporterStages, \* the stages run for an importer, in order
  LineCount,      \* run -> the number of output lines its script prints
  ExitCodes       \* exit codes a script may end with

Actors == Deps \cup ImporterIds

\* the order in which runPostinstallHooks runs the hooks
Stages == <<"preinstall", "install", "postinstall">>

\* deps are built in node_modules (or the store's tmp dir): collapsed output
Collapsed(a) == a \in Deps

VARIABLES
  manifest,  \* dep -> its package.json, as safeReadPackageJsonFromDir reads it
  optional,  \* dep -> whether it is an optional dependency
  hpc,       \* actor -> "start", "running", "returned" or "threw"
  todo,      \* actor -> the stages it has still to run, the current first
  pos,       \* actor -> the number of events logged by its current stage
  result,    \* dep -> what runPostinstallHooks returned ("none" before)
  exited,    \* run -> its exit code, or -1 while it has not exited
  exitOrder  \* the runs in the order they exited

hookVars == <<manifest, optional, hpc, todo, pos, result, exited, exitOrder>>
vars == <<reporterVars, hookVars>>

Runs == Actors \X {Stages[i] : i \in 1..3}

Run(a) == <<a, Head(todo[a])>>

(***************************************************************************)
(* runPostinstallHooks                                                     *)
(***************************************************************************)
\* checkBindingGyp: binding.gyp makes install `node-gyp rebuild`, only when
\* there is neither an install nor a preinstall script
checkBindingGyp(m) ==
  IF "install" \notin m.scripts /\ "preinstall" \notin m.scripts /\ m.gyp
    THEN m.scripts \cup {"install"} ELSE m.scripts

\* read package.json (none: return false), default scripts to {}, apply
\* checkBindingGyp, then run preinstall, install and postinstall when
\* present; the return value says whether any of the three is defined
runPostinstallHooks(d) ==
  LET m == manifest[d]
      scripts == IF m.found THEN checkBindingGyp(m) ELSE {}
      stages == SelectSeq(Stages, LAMBDA st : st \in scripts)
  IN /\ hpc[d] = "start"
     /\ hpc' = [hpc EXCEPT ![d] = IF stages = <<>> THEN "returned" ELSE "running"]
     /\ todo' = [todo EXCEPT ![d] = stages]
     /\ result' = [result EXCEPT ![d] = IF stages # <<>> THEN "true" ELSE "false"]
     /\ UNCHANGED <<manifest, optional, pos, exited, exitOrder, reporterVars>>

\* runLifecycleHooksConcurrently for an importer: its stages in order
runLifecycleHooksConcurrently(i) ==
  /\ hpc[i] = "start"
  /\ hpc' = [hpc EXCEPT ![i] = "running"]
  /\ todo' = [todo EXCEPT ![i] = ImporterStages]
  /\ UNCHANGED <<manifest, optional, pos, result, exited, exitOrder, reporterVars>>

(***************************************************************************)
(* runLifecycleHook: one log event of the current stage                    *)
(***************************************************************************)
Event(a, kind, line, code) ==
  [run |-> Run(a), key |-> Run(a), collapsed |-> Collapsed(a), kind |-> kind,
   line |-> line, code |-> code,
   optional |-> a \in Deps /\ optional[a]]

\* the script line, then the output lines
LogOutput(a) ==
  /\ hpc[a] = "running" /\ pos[a] <= LineCount[Run(a)]
  /\ ReportLifecycle(Event(a, IF pos[a] = 0 THEN "script" ELSE "line",
                           pos[a], 0))
  /\ pos' = [pos EXCEPT ![a] = @ + 1]
  /\ UNCHANGED <<manifest, optional, hpc, todo, result, exited, exitOrder>>

\* the exit: a failure rejects, which ends the actor's hooks; a success
\* goes on to the next stage or returns
LogExit(a) ==
  /\ hpc[a] = "running" /\ pos[a] = LineCount[Run(a)] + 1
  /\ \E code \in ExitCodes :
       /\ ReportLifecycle(Event(a, "exit", 0, code))
       /\ exited' = [exited EXCEPT ![Run(a)] = code]
       /\ exitOrder' = Append(exitOrder, Run(a))
       /\ hpc' = [hpc EXCEPT ![a] = IF code # 0 THEN "threw"
                                     ELSE IF Tail(todo[a]) = <<>> THEN "returned"
                                     ELSE "running"]
  /\ todo' = [todo EXCEPT ![a] = Tail(@)]
  /\ pos' = [pos EXCEPT ![a] = 0]
  /\ UNCHANGED <<manifest, optional, result>>

runLifecycleHook(a) == LogOutput(a) \/ LogExit(a)

(***************************************************************************)
(* Specification                                                           *)
(***************************************************************************)
Init ==
  /\ ReporterInit
  /\ manifest \in [Deps -> Manifests]
  /\ optional \in [Deps -> BOOLEAN]
  /\ hpc = [a \in Actors |-> "start"]
  /\ todo = [a \in Actors |-> <<>>]
  /\ pos = [a \in Actors |-> 0]
  /\ result = [d \in Deps |-> "none"]
  /\ exited = [r \in Runs |-> -1]
  /\ exitOrder = <<>>

Step(a) ==
  \/ a \in Deps /\ runPostinstallHooks(a)
  \/ a \in ImporterIds /\ runLifecycleHooksConcurrently(a)
  \/ runLifecycleHook(a)

Next == \E a \in Actors : Step(a)

\* every started script exits in the end (runLifecycleHook awaits the
\* child process, and nothing else can stop an actor)
Spec == Init /\ [][Next]_vars /\ \A a \in Actors : WF_vars(Step(a))

(***************************************************************************)
(* Reference                                                               *)
(***************************************************************************)
\* the output lines of a run, in order
OutputOf(r) == [i \in 1..LineCount[r] |-> <<r, i>>]

\* the events a run logs, its exit code being code
EventsOf(r, code) ==
  [i \in 1..LineCount[r] + 2 |->
     [run |-> r, key |-> r, collapsed |-> Collapsed(r[1]),
      kind |-> CASE i = 1 -> "script" [] i = LineCount[r] + 2 -> "exit"
               [] OTHER -> "line",
      line |-> IF i = LineCount[r] + 2 THEN 0 ELSE i - 1,
      code |-> IF i = LineCount[r] + 2 THEN code ELSE 0,
      optional |-> r[1] \in Deps /\ optional[r[1]]]]

\* what the terminal should show for a finished run: a label (done, or
\* skipped for an optional dependency) for collapsed output, and on a
\* failure every output line; otherwise the script, at most the last ten
\* lines with a count of the others, and the status
FinalMessage(r, code) ==
  LET out == OutputOf(r)
      n == Len(out)
      failed == [NoMsg EXCEPT !.script = r, !.lines = out, !.status = "failed"]
  IN IF Collapsed(r[1])
       THEN CASE code = 0 -> Label(r, "done")
            []   r[1] \in Deps /\ optional[r[1]] -> Label(r, "skipped")
            []   OTHER -> [failed EXCEPT !.form = "labelFailed", !.label = r]
     ELSE IF code # 0 THEN [failed EXCEPT !.form = "full"]
     ELSE [NoMsg EXCEPT !.form = "full", !.script = r, !.status = "done",
                        !.lines = IF n > Window THEN SubSeq(out, n - Window + 1, n)
                                  ELSE out,
                        !.hidden = IF n > Window THEN n - Window ELSE 0]

(***************************************************************************)
(* Properties                                                              *)
(***************************************************************************)
\* reportLifecycleScripts (not appendOnly): once a script has exited, its
\* key's stream shows its final message, built from this run's events
\* only although other scripts logged in between: the window of the last
\* ten lines, or every line of a failed script.
FinalMessageMatchesRun ==
  mode = "tty" =>
    \A r \in Runs : exited[r] # -1 => last[r] = FinalMessage(r, exited[r])

\* aggregateOutput: the printed log is, script after script in the order
\* they exited, each script's whole output from its script line to its
\* Done or Failed line, never interleaved with another script's lines.
AggregatedOutputInBlocks ==
  mode = "aggregate" =>
    printed = FoldLeft(LAMBDA acc, r : acc \o StreamOutput(EventsOf(r, exited[r])),
                       <<>>, exitOrder)

=============================================================================

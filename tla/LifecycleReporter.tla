------------------------- MODULE LifecycleReporter -------------------------
(***************************************************************************)
(* reportLifecycleScripts of                                               *)
(* src/cli/default-reporter/src/reporterForClient/reportLifecycleScripts.ts *)
(* the part of pnpm's reporter that turns lifecycle log events (a script   *)
(* started, a line of its output, its exit) into what the terminal shows.  *)
(*                                                                         *)
(* Three modes, fixed when the reporter is created:                        *)
(*   "tty"       not appendOnly: a message cache per `stage:depPath` key   *)
(*               and one Subject per key; the consumer shows the last      *)
(*               message of each key's stream in place;                    *)
(*   "append"    appendOnly: every event printed as one line at once;      *)
(*   "aggregate" appendOnly with aggregateOutput: events grouped by key    *)
(*               and buffered until the key's exit event.                  *)
(*                                                                         *)
(* Data abstraction.  A key is a model value per stage:depPath.  An event  *)
(* carries the run that emitted it (which stands for its wd, stage and     *)
(* depPath, so for everything the prefixes and labels are made of), the    *)
(* index of an output line (the line's text is <<run, index>>), the exit   *)
(* code and the optional flag.  Colours, widths, times and truncation of   *)
(* a line are formatting and are left out; the window of the last ten     *)
(* output lines is kept.  RxJS is taken at version 7: a Subject that has   *)
(* completed ignores next(), and buffer() pushes a value before its        *)
(* closing notifier (subscribed after the source) flushes.                 *)
(***************************************************************************)
EXTENDS Naturals, Sequences, SequencesExt

CONSTANTS
  Keys,               \* stage:depPath keys
  Modes,              \* the modes a reporter may be created in
  HideLifecyclePrefix \* opts.hideLifecyclePrefix

\* renderScriptOutput shows the last ten lines of a running script
Window == 10

NoCache == [collapsed |-> FALSE, output |-> <<>>, script |-> <<>>,
            status |-> "none", label |-> <<>>]

VARIABLES
  mode,     \* the mode of this reporter
  cache,    \* lifecycleMessages: key -> message cache or NoCache
  subj,     \* lifecycleStreamByDepPath: key -> "none", "open", "completed"
  pushed,   \* the keys whose streams went to lifecyclePushStream, in order
  last,     \* key -> the last message its stream delivered
  printed,  \* appendOnly: the lines printed so far
  buf       \* aggregateOutput: key -> the events buffered for it

reporterVars == <<mode, cache, subj, pushed, last, printed, buf>>

NoMsg == [form |-> "none", label |-> <<>>, script |-> <<>>,
          lines |-> <<>>, hidden |-> 0, status |-> "none"]

(***************************************************************************)
(* Not appendOnly                                                          *)
(***************************************************************************)
\* the cache made on a key's first event: collapsed when the event's wd is
\* under node_modules or the store's tmp directory
NewCache(e) == [collapsed |-> e.collapsed, output |-> <<>>, script |-> <<>>,
                status |-> "running", label |-> <<>>]

\* updateMessageCache: a script event sets the script line, an exit the
\* status, anything else adds an output line
updateMessageCache(e, c) ==
  CASE e.kind = "script" -> [c EXCEPT !.script = e.run]
  []   e.kind = "exit" ->
         [c EXCEPT !.status = IF e.code = 0 THEN "done" ELSE "failed"]
  []   OTHER -> [c EXCEPT !.output = Append(@, <<e.run, e.line>>)]

Full(c, lines, hidden) ==
  [NoMsg EXCEPT !.form = "full", !.script = c.script, !.lines = lines,
                !.hidden = hidden, !.status = c.status]

\* mutant: the ten-line window applied to a failed script as well
renderScriptOutputWindowAlways(e, c) ==
  LET c1 == updateMessageCache(e, c)
      n == Len(c1.output)
  IN [cache |-> c1,
      msg |-> IF n > Window
                THEN Full(c1, SubSeq(c1.output, n - Window + 1, n), n - Window)
              ELSE Full(c1, c1.output, 0)]

\* renderScriptOutput: a failed exit shows every output line, otherwise
\* more than ten lines are cut to the last ten and a count
renderScriptOutput(e, c) ==
  LET c1 == updateMessageCache(e, c)
      n == Len(c1.output)
  IN [cache |-> c1,
      msg |-> IF e.kind = "exit" /\ e.code # 0 THEN Full(c1, c1.output, 0)
              ELSE IF n > Window
                THEN Full(c1, SubSeq(c1.output, n - Window + 1, n), n - Window)
              ELSE Full(c1, c1.output, 0)]

Label(label, status) ==
  [NoMsg EXCEPT !.form = "label", !.label = label, !.status = status]

\* renderCollapsedScriptOutput: one label line (made from the wd of the
\* key's first event) while running and on success or an optional failure;
\* a failure adds the whole script output
renderCollapsedScriptOutput(e, c) ==
  LET c1 == IF c.label = <<>> THEN [c EXCEPT !.label = e.run] ELSE c
      failed == renderScriptOutput(e, c1)
  IN CASE e.kind # "exit" ->
            [cache |-> updateMessageCache(e, c1), msg |-> Label(c1.label, "running")]
     []   e.code = 0 -> [cache |-> c1, msg |-> Label(c1.label, "done")]
     []   e.optional -> [cache |-> c1, msg |-> Label(c1.label, "skipped")]
     []   OTHER -> [cache |-> failed.cache,
                    msg |-> [failed.msg EXCEPT !.form = "labelFailed",
                                               !.label = c1.label]]

\* the body of log$.lifecycle.forEach: render with the key's cache (made
\* on its first event, deleted on exit), create and push the key's Subject
\* on its first event, send it the message, complete it on exit
ReportToStream(e) ==
  LET k == e.key
      c == IF cache[k] = NoCache THEN NewCache(e) ELSE cache[k]
      r == IF c.collapsed THEN renderCollapsedScriptOutput(e, c)
           ELSE renderScriptOutput(e, c)
      exit == e.kind = "exit"
  IN /\ mode = "tty"
     /\ cache' = [cache EXCEPT ![k] = IF exit THEN NoCache ELSE r.cache]
     /\ pushed' = IF subj[k] = "none" THEN Append(pushed, k) ELSE pushed
     /\ last' = IF subj[k] = "completed" THEN last
                ELSE [last EXCEPT ![k] = r.msg]
     /\ subj' = [subj EXCEPT ![k] = IF exit THEN "completed"
                                    ELSE IF @ = "none" THEN "open" ELSE @]
     /\ UNCHANGED <<mode, printed, buf>>

(***************************************************************************)
(* appendOnly                                                              *)
(***************************************************************************)
\* streamLifecycleOutput: the prefix names the wd and stage (dropped from
\* output lines under hideLifecyclePrefix), then Done, Failed, the script
\* or the line
streamLifecycleOutput(e) ==
  [prefix |-> IF e.kind = "line" /\ HideLifecyclePrefix THEN <<>> ELSE e.run,
   text |-> CASE e.kind = "exit" -> IF e.code = 0 THEN "Done" ELSE "Failed"
           []   e.kind = "script" -> "script"
           []   OTHER -> "line",
   line |-> IF e.kind = "line" THEN <<e.run, e.line>> ELSE <<>>]

StreamOutput(es) == [i \in DOMAIN es |-> streamLifecycleOutput(es[i])]

\* appendOnly without aggregateOutput: each event printed as it comes
ReportAppend(e) ==
  /\ mode = "append"
  /\ printed' = Append(printed, streamLifecycleOutput(e))
  /\ UNCHANGED <<mode, cache, subj, pushed, last, buf>>

\* mutant: the closing notifier sees the exit event before the buffer
\* does (notifier subscribed first), so the exit line opens the next batch
aggregateOutputNotifierFirst(e) ==
  LET k == e.key IN
  /\ mode = "aggregate"
  /\ IF e.kind = "exit"
       THEN /\ printed' = printed \o StreamOutput(buf[k])
            /\ buf' = [buf EXCEPT ![k] = <<e>>]
       ELSE /\ buf' = [buf EXCEPT ![k] = Append(@, e)]
            /\ UNCHANGED printed
  /\ UNCHANGED <<mode, cache, subj, pushed, last>>

\* aggregateOutput: groupBy depPath and stage, buffer until the group's
\* exit event, then print the batch (mergeAll of Rx.from(batch))
aggregateOutput(e) ==
  LET k == e.key
      batch == Append(buf[k], e)
  IN /\ mode = "aggregate"
     /\ IF e.kind = "exit"
          THEN /\ printed' = printed \o StreamOutput(batch)
               /\ buf' = [buf EXCEPT ![k] = <<>>]
          ELSE /\ buf' = [buf EXCEPT ![k] = batch]
               /\ UNCHANGED printed
     /\ UNCHANGED <<mode, cache, subj, pushed, last>>

\* reportLifecycleScripts, one lifecycle log event
ReportLifecycle(e) ==
  ReportToStream(e) \/ ReportAppend(e) \/ aggregateOutput(e)

ReporterInit ==
  /\ mode \in Modes
  /\ cache = [k \in Keys |-> NoCache]
  /\ subj = [k \in Keys |-> "none"]
  /\ pushed = <<>>
  /\ last = [k \in Keys |-> NoMsg]
  /\ printed = <<>>
  /\ buf = [k \in Keys |-> <<>>]

=============================================================================

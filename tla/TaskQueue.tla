----------------------------- MODULE TaskQueue -----------------------------
(***************************************************************************)
(* What the worker pool relies on from a worker thread of                  *)
(* src/worker/src/worker.ts: the messages posted to a thread are answered  *)
(* in the order they were posted, each exactly once, and the `false`       *)
(* message ends the thread only after every message posted before it has   *)
(* been answered.  A thread answers its next message in one step here;     *)
(* WorkerHandler spreads that step over the file-system calls of the      *)
(* handler and is shown to implement this module.                         *)
(***************************************************************************)
EXTENDS Naturals, Sequences

CONSTANTS
  Workers,   \* worker threads
  MaxTasks   \* bound on the number of task messages posted

Shutdown == 0
Ids == 1..MaxTasks

VARIABLES
  queue,     \* worker -> ids posted to it and not answered yet (or Shutdown)
  sent,      \* number of task messages posted
  stopped,   \* workers the pool has posted `false` to
  answers,   \* id -> number of replies posted for it
  exited     \* workers whose thread has ended

tqVars == <<queue, sent, stopped, answers, exited>>

\* the pool posts a task message to a live worker
Post(w) ==
  /\ sent < MaxTasks /\ w \notin stopped
  /\ sent' = sent + 1
  /\ queue' = [queue EXCEPT ![w] = Append(@, sent + 1)]
  /\ UNCHANGED <<stopped, answers, exited>>

\* the pool posts `false`
Stop(w) ==
  /\ w \notin stopped
  /\ stopped' = stopped \cup {w}
  /\ queue' = [queue EXCEPT ![w] = Append(@, Shutdown)]
  /\ UNCHANGED <<sent, answers, exited>>

\* the thread answers the oldest message posted to it
Answer(w) ==
  /\ w \notin exited /\ queue[w] # <<>> /\ Head(queue[w]) # Shutdown
  /\ answers' = [answers EXCEPT ![Head(queue[w])] = 1]
  /\ queue' = [queue EXCEPT ![w] = Tail(@)]
  /\ UNCHANGED <<sent, stopped, exited>>

\* the thread reaches `false`: every earlier message is answered
End(w) ==
  /\ w \notin exited /\ queue[w] # <<>> /\ Head(queue[w]) = Shutdown
  /\ exited' = exited \cup {w}
  /\ queue' = [queue EXCEPT ![w] = Tail(@)]
  /\ UNCHANGED <<sent, stopped, answers>>

TQInit ==
  /\ queue = [w \in Workers |-> <<>>]
  /\ sent = 0 /\ stopped = {}
  /\ answers = [i \in Ids |-> 0]
  /\ exited = {}

TQNext == \E w \in Workers : Post(w) \/ Stop(w) \/ Answer(w) \/ End(w)

\* a thread with a message waiting gets to it
TQSpec == TQInit /\ [][TQNext]_tqVars
          /\ \A w \in Workers : WF_tqVars(Answer(w) \/ End(w))

=============================================================================

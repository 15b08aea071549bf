--------------------------- MODULE PipelineDataflow ---------------------------
(****************************************************************************)
(* What the execution of a pipeline promises, without goroutines, channels, *)
(* counters or attempts: a task starts at the moment its last input         *)
(* settles, a failed fail-early task cancels what has not started and       *)
(* nothing else, and the run is done when no task is active.                *)
(****************************************************************************)
EXTENDS Naturals

CONSTANTS Tasks, Pipelines

VARIABLES
  pipeline,  \* inputs, failEarly and retries of the pipeline, as in Scheduler
  status,    \* [Tasks -> Statuses]
  aborted,   \* a fail-early task has failed
  done       \* the run is over

vars == <<pipeline, status, aborted, done>>

Statuses == {"idle", "active", "value", "error", "suspended", "cancelled"}
Settled == {"value", "error", "cancelled"}

Init ==
  /\ pipeline \in Pipelines
  /\ status = [t \in Tasks |-> IF pipeline.inputs[t] = {} THEN "active" ELSE "idle"]
  /\ aborted = FALSE /\ done = FALSE

Active(t) == ~done /\ status[t] = "active"

\* The tasks that t was the last input to wait for.
Unblocked(t) ==
  {u \in Tasks : /\ status[u] = "idle" /\ t \in pipeline.inputs[u]
                 /\ \A i \in pipeline.inputs[u] \ {t} : status[i] \in Settled}

\* An attempt that will be repeated is no step: the task stays active.
Settle(t, s) ==
  /\ Active(t) /\ ~aborted
  /\ s = "value" \/ (s = "error" /\ t \notin pipeline.failEarly)
  /\ status' = [u \in Tasks |-> IF u = t THEN s ELSE IF u \in Unblocked(t) THEN "active" ELSE status[u]]
  /\ UNCHANGED <<pipeline, aborted, done>>

FailEarly(t) ==
  /\ Active(t) /\ t \in pipeline.failEarly
  /\ status' = [u \in Tasks |-> IF u = t THEN "error" ELSE IF status[u] = "idle" THEN "cancelled" ELSE status[u]]
  /\ aborted' = TRUE
  /\ UNCHANGED <<pipeline, done>>

\* A task awaits data from outside: its dependents stay idle.
Suspend(t) ==
  /\ Active(t)
  /\ status' = [status EXCEPT ![t] = "suspended"]
  /\ UNCHANGED <<pipeline, aborted, done>>

\* What was active when the run aborted comes to its own end; only a task with
\* a retry to cancel may be cancelled.
Drain(t, s) ==
  /\ Active(t) /\ aborted
  /\ s \in {"value", "error"} \/ (s = "cancelled" /\ pipeline.retries[t] > 1)
  /\ status' = [status EXCEPT ![t] = s]
  /\ UNCHANGED <<pipeline, aborted, done>>

Finish ==
  /\ ~done
  /\ \A t \in Tasks : status[t] # "active"
  /\ done' = TRUE
  /\ UNCHANGED <<pipeline, status, aborted>>

Next ==
  \/ \E t \in Tasks : \/ FailEarly(t) \/ Suspend(t)
                      \/ \E s \in Settled : Settle(t, s) \/ Drain(t, s)
  \/ Finish

Spec == Init /\ [][Next]_vars
=============================================================================

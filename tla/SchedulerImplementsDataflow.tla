--------------------- MODULE SchedulerImplementsDataflow ---------------------
(* The refinement mapping from the scheduler to the dataflow specification.  *)
EXTENDS Scheduler

\* A task is active from its first dispatch to its last report, across the
\* goroutines its attempts and back-offs go through.
Status == [t \in Tasks |->
  LET kind == results[t].outcome.kind IN
  IF t \in InFlight THEN "active"
  ELSE IF kind = "none" THEN "idle"
  ELSE IF kind = "pending" THEN "suspended"
  ELSE IF kind = "panic" THEN "error"
  ELSE kind]

Dataflow == INSTANCE PipelineDataflow WITH status <- Status, aborted <- exiting, done <- closed

\* Goroutines, retries and the shared counters implement the dataflow: every
\* step of the scheduler and of its goroutines is a step of PipelineDataflow
\* or leaves the status of every task as it was.
ImplementsDataflow == Dataflow!Spec
=============================================================================

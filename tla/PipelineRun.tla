----------------------------- MODULE PipelineRun -----------------------------
(****************************************************************************)
(* A pipeline run as its caller sees it: the entry points Run, ExecuteRun   *)
(* and ExecuteAndInsertFinishedRun, what runner.run leaves in the Run       *)
(* record after the scheduler stopped, and the resumption of a run that was *)
(* suspended because a task awaited data from outside.                      *)
(****************************************************************************)
EXTENDS Scheduler

CONSTANT MaxCalls  \* bound: how often a run is executed, resumptions included

ASSUME MaxCallsAssumption == MaxCalls \in Nat \ {0}

VARIABLES
  entry,     \* the entry point the caller used
  phase,     \* where its goroutine is
  run,       \* the Run record
  returned,  \* what the call returned
  calls      \* number of calls, at most MaxCalls

callerVars == <<entry, phase, run, returned, calls>>
runVars == <<vars, callerVars>>

Entries == {"Run", "ExecuteRun", "ExecuteAndInsertFinishedRun"}
Phases == {"called", "executing", "returned"}
States == {"running", "suspended", "errored", "completed"}

RunRecords == [taskRuns : [Tasks -> OutcomeType], state : States,
               pending : BOOLEAN, failSilently : BOOLEAN, notified : BOOLEAN]
Returns == [incomplete : BOOLEAN, err : BOOLEAN, results : BOOLEAN]

NewRun == [taskRuns |-> NoPrior, state |-> "running",
           pending |-> FALSE, failSilently |-> FALSE, notified |-> FALSE]
NoReturn == [incomplete |-> FALSE, err |-> FALSE, results |-> FALSE]

RunInit ==
  /\ Init
  /\ entry \in Entries /\ phase = "called" /\ calls = 1
  /\ run = NewRun /\ returned = NoReturn

\* The DOT source does not parse, or a task run names no task of the pipeline.
InitializePipelineFails ==
  /\ phase = "called"
  /\ phase' = "returned"
  /\ returned' = [NoReturn EXCEPT !.err = TRUE]
  /\ UNCHANGED <<vars, entry, run, calls>>

StartRun ==
  /\ phase = "called"
  /\ phase' = "executing"
  /\ UNCHANGED <<vars, entry, run, returned, calls>>

Execute == phase = "executing" /\ Step /\ UNCHANGED callerVars

\* OutputDB and ErrorDB keep of an error only that there is one, with its text.
TaskRunOf(o) == IF Failed(o) THEN [kind |-> "error", by |-> o.by] ELSE o

HasFatalErrors == \E t \in Tasks : Outputs(t) = {} /\ Failed(results[t].outcome)

StateAfter ==
  IF pending THEN "suspended" ELSE IF HasFatalErrors THEN "errored" ELSE "completed"

\* Run returns a nil error for a suspended run, because it wraps the nil error
\* of InitializePipeline; ExecuteRun makes an error of its own.
Reply ==
  [incomplete |-> FALSE,
   err |-> pending /\ entry # "Run",
   results |-> ~pending /\ entry # "Run"]

\* The dispatch loop ended: runner.run fills in the record and the entry point
\* returns.  Only Run notifies, and neither a suspended nor a silent run.
FinishRun ==
  /\ phase = "executing" /\ ~crashed
  /\ closed /\ taskCh = {}
  /\ phase' = "returned"
  /\ run' = [taskRuns |-> [t \in Tasks |-> TaskRunOf(results[t].outcome)],
             state |-> StateAfter, pending |-> pending, failSilently |-> exiting,
             notified |-> run.notified \/ (entry = "Run" /\ ~pending /\ ~exiting)]
  /\ returned' = Reply
  /\ UNCHANGED <<vars, entry, calls>>

\* The caller fills in data for suspended tasks, or for some of them.
SuppliedData == {[kind |-> k, by |-> 0] : k \in {"value", "error", "pending"}}
WithData == {prior \in [Tasks -> SuppliedData \cup {run.taskRuns[t] : t \in Tasks}] :
               \A t \in Tasks : IF run.taskRuns[t].kind = "pending" THEN prior[t] \in SuppliedData
                                ELSE prior[t] = run.taskRuns[t]}

\* newScheduler for a resumption, as NewScheduler is for a new run.
RestartScheduler(prior, base) ==
  /\ pipeline' = pipeline
  /\ dependencies' = InitialDependencies(prior)
  /\ results' = ReconstructResults(prior)
  /\ varsMap' = ReconstructVars(prior, base)
  /\ waiting' = Cardinality(Doable(prior))
  /\ dispatched' = [t \in Tasks |-> IF t \in Doable(prior) THEN 1 ELSE 0]
  /\ taskCh' = {NewMemoryTaskRun(t, 1, 0, results', CopyVars(varsMap', t)) : t \in Doable(prior)}
  /\ pending' = FALSE /\ exiting' = FALSE /\ closed' = FALSE
  /\ UNCHANGED <<running, reports, backoffs, rebuilding, crashed>>

\* Run is called again with the same record.  Its variables start from
\* run.Inputs, the map in which the previous execution stored its results.
Resume ==
  /\ phase = "returned" /\ entry = "Run" /\ run.pending /\ calls < MaxCalls
  /\ phase' = "called" /\ calls' = calls + 1
  /\ returned' = NoReturn
  /\ \E prior \in WithData :
       run' = [run EXCEPT !.taskRuns = prior] /\ RestartScheduler(prior, varsMap)
  /\ UNCHANGED entry

Ended == crashed \/ (phase = "returned" /\ ~(entry = "Run" /\ run.pending /\ calls < MaxCalls))
Idle == Ended /\ UNCHANGED runVars

RunNext == InitializePipelineFails \/ StartRun \/ Execute \/ FinishRun \/ Resume \/ Idle

\* The goroutines are fair, and the caller's goroutine goes on when it can; a
\* caller need not resume a run.
RunFairness ==
  /\ WF_runVars(InitializePipelineFails \/ StartRun \/ FinishRun)
  /\ WF_runVars(Execute /\ SchedulerStep)
  /\ WF_runVars(Execute /\ DispatchStep)
  /\ WF_runVars(Execute /\ TaskStep)
  /\ WF_runVars(Execute /\ RetryStep)

RunSpec == RunInit /\ [][RunNext]_runVars
FairRunSpec == RunSpec /\ RunFairness

-----------------------------------------------------------------------------
(* Properties *)

\* The record and the return value keep their types; what is stored of a task
\* run no longer tells a panic or a cancellation from an error (runner.go:311).
RunTypeOK ==
  /\ \A t \in Tasks : run.taskRuns[t].kind \in {"none", "value", "error", "pending"}
  /\ entry \in Entries /\ phase \in Phases /\ calls \in 1..MaxCalls
  /\ run \in RunRecords /\ returned \in Returns

Returned == phase = "returned" /\ run.state # "running"

\* A run that its first call reports completed ran to its end: no task of it was
\* cancelled and every task that is not a dependency succeeded; a fail-early
\* that leaves nothing suspended always makes the run errored (runner.go:289, 346).
CompletedMeansNothingCut ==
  Returned /\ calls = 1 /\ run.state = "completed" =>
    /\ ~run.failSilently
    /\ \A t \in Tasks : Finished(run.taskRuns[t]) /\ results[t].outcome # Cancelled
    /\ \A t \in pipeline.failEarly : run.taskRuns[t].kind = "value"

\* A run that is not suspended has a finished task run for every task, however
\* often it was suspended before (runner.go:287-324, scheduler.go:113-160).
FinishedMeansComplete ==
  Returned /\ ~run.pending => \A t \in Tasks : Finished(run.taskRuns[t])

\* "skip finished tasks" (scheduler.go:97): what a task run finished with in one
\* call is what every later call of the same run reports for it.
KeepsFinished == \A t \in Tasks : Finished(run.taskRuns[t]) => run'.taskRuns[t] = run.taskRuns[t]
ResumeKeepsFinished == [][KeepsFinished]_runVars

\* The code keeps it for pipelines in which no task fails early.
PlainResumeKeepsFinished == [][pipeline.failEarly = {} => KeepsFinished]_runVars

\* A task run of a resumption sees the same results as if the run had not been
\* suspended, those supplied by the caller included (scheduler.go:113-160).
ResumedRunSeesFinalResults == pipeline.failEarly = {} => DependencyCount /\ InstanceSeesFinalResults

\* An executing call returns, whatever fails, suspends or is retried under it.
CallsReturn == phase = "executing" ~> (phase = "returned" \/ crashed)

\* "we had an error and the task was marked to failEarly" (runner.go:289), as far
\* as the first call goes.
FailSilently == run.failSilently <=> \E t \in pipeline.failEarly : run.taskRuns[t].kind = "error"
FailSilentlyMeansFailEarly == Returned /\ calls = 1 => FailSilently

\* The three together: what the record tells of a call is what happened.
RecordIsTrue == FinishedMeansComplete /\ CompletedMeansNothingCut /\ FailSilentlyMeansFailEarly

-----------------------------------------------------------------------------
(* What the comments say and the code does not keep; see also               *)
(* ResumeKeepsFinished                                                      *)

\* "If incomplete is true, the run is only partially complete and is suspended"
\* (runner.go:35), "a run without async returned as pending" (runner.go:490):
\* the caller of Run is told that its run is suspended.
SuspensionIsReported ==
  Returned /\ run.pending => returned.incomplete \/ returned.err

\* The same as FailSilentlyMeansFailEarly for every call: a resumption forgets a
\* failure before the suspension (scheduler.go:96-101).
FailureIsRemembered == Returned => FailSilently
=============================================================================

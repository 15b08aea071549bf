------------------------------ MODULE Scheduler ------------------------------
(****************************************************************************)
(* The execution of one pipeline: the scheduler goroutine of scheduler.go,  *)
(* the dispatch loop of runner.run (runner.go), one goroutine per task run, *)
(* and one goroutine per retry that is backing off.  They share the         *)
(* channels taskCh and resultCh and, against the intent of the code, the    *)
(* map scheduler.results.                                                   *)
(*                                                                          *)
(* Data is abstracted to what the scheduler tells apart.  An outcome is the *)
(* kind of result a task run reports, together with the number of the       *)
(* dispatch it comes from, so that the result of a failed attempt differs   *)
(* from the result of the next one.                                         *)
(****************************************************************************)
EXTENDS Integers, FiniteSets, PipelineShape

CONSTANTS
  Tasks,      \* the task ids: positions in Pipeline.Tasks, hence topologically sorted
  Pipelines,  \* the pipelines a run may execute
  Outcomes    \* the kinds of result Task.Run may come back with

Kinds == {"none", "value", "error", "panic", "pending", "cancelled"}

\* What the scheduler reads of a parsed pipeline.
IsPipeline(p) == IsPipelineOver(Tasks, p)

ASSUME SchedulerAssumption ==
  /\ Tasks \in SUBSET Nat
  /\ IsFiniteSet(Tasks)
  /\ Outcomes \subseteq {"value", "error", "panic", "pending"}
  /\ \A p \in Pipelines : IsPipeline(p)

VARIABLES
  pipeline,     \* scheduler.pipeline, fixed for the run
  dependencies, \* scheduler.dependencies: inputs a task still waits for
  waiting,      \* scheduler.waiting: task runs that have not reported
  results,      \* scheduler.results; a missing entry is NoEntry
  varsMap,      \* scheduler.vars, restricted to the variables named by tasks
  pending,      \* scheduler.pending
  exiting,      \* scheduler.exiting; also: the context of the retries is cancelled
  closed,       \* scheduler.Run has returned and closed taskCh
  taskCh,       \* task runs sent to taskCh and not received yet
  running,      \* task runs inside executeTaskRun, one goroutine each
  reports,      \* goroutines blocked in scheduler.report, sending to resultCh
  backoffs,     \* retry goroutines waiting in their select
  rebuilding,   \* retry goroutines past the timer, inside newMemoryTaskRun
  dispatched,   \* history: how many runs of each task were sent to taskCh
  crashed       \* the Go runtime stopped the process on a map race

counters == <<dependencies, waiting>>
flags == <<pending, exiting, closed, crashed>>
vars == <<pipeline, counters, results, varsMap, flags,
          taskCh, running, reports, backoffs, rebuilding, dispatched>>

-----------------------------------------------------------------------------
(* Values *)

Absent == [kind |-> "none", by |-> 0]
Cancelled == [kind |-> "cancelled", by |-> 0]
NoEntry == [outcome |-> Absent, attempts |-> 0]

Failed(o) == o.kind \in {"error", "panic", "cancelled"}
Finished(o) == o.kind \notin {"none", "pending"}

OutcomeType == [kind : Kinds, by : Nat]
EntryType == [outcome : OutcomeType, attempts : Nat]
RunType == [task : Tasks, no : Nat, attempts : Nat,
            inputs : [Tasks -> OutcomeType], vars : [Tasks -> OutcomeType]]
ReportType == [task : Tasks, outcome : {o \in OutcomeType : o.kind # "none"}]
BackoffType == [task : Tasks, attempts : Nat, vars : [Tasks -> OutcomeType]]

Inputs(t) == pipeline.inputs[t]
Outputs(t) == {o \in Tasks : t \in Inputs(o)}
Propagating(t) == Inputs(t) \ pipeline.implicit[t]

\* Vars.Copy as task t can observe it: Graph.AddImplicitDependenciesAsEdges
\* made an input of every task that the attributes of t name.
CopyVars(vm, t) == [i \in Tasks |-> IF i \in Inputs(t) THEN vm[i] ELSE Absent]

NewMemoryTaskRun(t, no, attempts, res, copied) ==
  [task |-> t, no |-> no, attempts |-> attempts,
   inputs |-> [i \in Tasks |-> IF i \in Propagating(t) THEN res[i].outcome ELSE Absent],
   vars |-> copied]

\* The runs of the tasks in ts sent to taskCh for the first time.
FirstRunsStale(ts, res, vm) ==  \* mutant: built before the result is stored
  {NewMemoryTaskRun(t, dispatched[t] + 1, 0, results, CopyVars(varsMap, t)) : t \in ts}
FirstRuns(ts, res, vm) ==
  {NewMemoryTaskRun(t, dispatched[t] + 1, 0, res, CopyVars(vm, t)) : t \in ts}

CountDispatch(ts) ==
  [t \in Tasks |-> IF t \in ts THEN dispatched[t] + 1 ELSE dispatched[t]]

-----------------------------------------------------------------------------
(* newScheduler: prior is what run.PipelineTaskRuns holds for each task,    *)
(* Absent everywhere when the run is new; base is what the caller's Vars    *)
(* hold under the names of the tasks.                                       *)

NoPrior == [t \in Tasks |-> Absent]

ReconstructResults(prior) ==
  [t \in Tasks |-> IF Finished(prior[t])
                   THEN [outcome |-> prior[t], attempts |-> 0] ELSE NoEntry]

ReconstructVars(prior, base) ==
  [t \in Tasks |-> IF Finished(prior[t]) THEN prior[t] ELSE base[t]]

InitialDependenciesPropagated(prior) ==  \* mutant: implicit inputs not counted
  [t \in Tasks |-> Cardinality({i \in Propagating(t) : ~Finished(prior[i])})]
InitialDependenciesFull(prior) ==  \* mutant: finished inputs of a resumed run counted
  [t \in Tasks |-> Cardinality(Inputs(t))]
InitialDependencies(prior) ==
  [t \in Tasks |-> Cardinality({i \in Inputs(t) : ~Finished(prior[i])})]

\* Tasks with no unfinished input, the finished ones skipped.
DoableAgain(prior) ==  \* mutant: finished tasks not skipped
  {t \in Tasks : InitialDependencies(prior)[t] = 0}
Doable(prior) ==
  {t \in Tasks : InitialDependencies(prior)[t] = 0 /\ ~Finished(prior[t])}

NewScheduler(prior, base) ==
  /\ dependencies = InitialDependencies(prior)
  /\ results = ReconstructResults(prior)
  /\ varsMap = ReconstructVars(prior, base)
  /\ waiting = Cardinality(Doable(prior))
  /\ dispatched = [t \in Tasks |-> IF t \in Doable(prior) THEN 1 ELSE 0]
  /\ taskCh = {NewMemoryTaskRun(t, 1, 0, results, CopyVars(varsMap, t)) : t \in Doable(prior)}
  /\ running = {} /\ reports = {} /\ backoffs = {} /\ rebuilding = {}
  /\ pending = FALSE /\ exiting = FALSE /\ closed = FALSE /\ crashed = FALSE

Init == pipeline \in Pipelines /\ NewScheduler(NoPrior, NoPrior)

-----------------------------------------------------------------------------
(* The dispatch loop of runner.run and the goroutines it starts *)

DispatchTaskRun(r) ==
  /\ r \in taskCh
  /\ taskCh' = taskCh \ {r}
  /\ running' = running \cup {r}
  /\ UNCHANGED <<pipeline, counters, results, varsMap, flags,
                 reports, backoffs, rebuilding, dispatched>>

\* The goroutine of r is done with executeTaskRun, or recovered its panic,
\* and blocks in scheduler.report.
Report(r, kind) ==
  /\ r \in running
  /\ kind \in Outcomes
  /\ running' = running \ {r}
  /\ reports' = reports \cup {[task |-> r.task, outcome |-> [kind |-> kind, by |-> r.no]]}
  /\ UNCHANGED <<pipeline, counters, results, varsMap, flags,
                 taskCh, backoffs, rebuilding, dispatched>>

TaskReturns(r) == \E kind \in Outcomes \ {"panic"} : Report(r, kind)
TaskPanics(r) == Report(r, "panic")

-----------------------------------------------------------------------------
(* One iteration of the loop of scheduler.Run, by the path it takes *)

\* Attempts as counted for this report: not counted once exiting.
Attempts(t) == IF exiting THEN results[t].attempts ELSE results[t].attempts + 1

Recorded(rep) ==
  [results EXCEPT ![rep.task] = [outcome |-> rep.outcome, attempts |-> Attempts(rep.task)]]

\* vars.Set of the error or of the value.
VarSet(rep) == [varsMap EXCEPT ![rep.task] = rep.outcome]

MarkAll(res) == [t \in Tasks |-> [outcome |-> Cancelled, attempts |-> 0]]  \* mutant: entries overwritten
MarkNone(res) == res  \* mutant: nothing marked
MarkRemaining(res) ==
  [t \in Tasks |-> IF res[t].outcome = Absent
                   THEN [outcome |-> Cancelled, attempts |-> 0] ELSE res[t]]

FailsEarlyUnlessPanic(rep) ==  \* mutant: a panic is not taken for a failure
  rep.outcome.kind = "error" /\ rep.task \in pipeline.failEarly
FailsEarly(rep) == Failed(rep.outcome) /\ rep.task \in pipeline.failEarly
WantsOneMore(rep) ==  \* mutant: off by one
  Failed(rep.outcome) /\ Attempts(rep.task) <= pipeline.retries[rep.task]
WantsRetry(rep) == Failed(rep.outcome) /\ Attempts(rep.task) < pipeline.retries[rep.task]

\* The counter is unsigned and only compared with 0: -1 stands for 2^64 - 1.
DecrementedPropagated(t) ==  \* mutant: implicit outputs left blocked
  [o \in Tasks |-> IF t \in Propagating(o) THEN dependencies[o] - 1 ELSE dependencies[o]]
Decremented(t) ==
  [o \in Tasks |-> IF o \in Outputs(t) THEN dependencies[o] - 1 ELSE dependencies[o]]
NewlyReadyAny(t) == Outputs(t)  \* mutant: one finished input is enough
NewlyReady(t) == {o \in Outputs(t) : Decremented(t)[o] = 0}

Receive(rep) ==
  /\ ~closed /\ waiting > 0
  /\ rep \in reports
  /\ reports' = reports \ {rep}

\* The task run is suspended: it is recorded and its outputs stay blocked.
ReceivePending(rep) ==
  /\ Receive(rep)
  /\ rep.outcome.kind = "pending"
  /\ results' = Recorded(rep)
  /\ pending' = TRUE
  /\ waiting' = waiting - 1
  /\ UNCHANGED <<pipeline, dependencies, varsMap, exiting, closed, crashed,
                 taskCh, running, backoffs, rebuilding, dispatched>>

\* A failEarly task failed, now or before: nothing new is scheduled.
ReceiveExiting(rep) ==
  /\ Receive(rep)
  /\ rep.outcome.kind # "pending"
  /\ exiting \/ FailsEarly(rep)
  /\ varsMap' = VarSet(rep)
  /\ results' = IF FailsEarly(rep) THEN MarkRemaining(Recorded(rep)) ELSE Recorded(rep)
  /\ exiting' = TRUE
  /\ waiting' = waiting - 1
  /\ UNCHANGED <<pipeline, dependencies, pending, closed, crashed,
                 taskCh, running, backoffs, rebuilding, dispatched>>

\* The attempt failed and more are allowed: waiting goes down and up again.
ReceiveForRetry(rep) ==
  /\ Receive(rep)
  /\ rep.outcome.kind # "pending"
  /\ ~exiting /\ ~FailsEarly(rep)
  /\ WantsRetry(rep)
  /\ varsMap' = VarSet(rep)
  /\ results' = Recorded(rep)
  /\ backoffs' = backoffs \cup
       {[task |-> rep.task, attempts |-> Attempts(rep.task), vars |-> CopyVars(VarSet(rep), rep.task)]}
  /\ UNCHANGED <<pipeline, counters, flags, taskCh, running, rebuilding, dispatched>>

\* The result is final, a value or an error: outputs that became ready start.
ReceiveFinal(rep) ==
  /\ Receive(rep)
  /\ rep.outcome.kind # "pending"
  /\ ~exiting /\ ~FailsEarly(rep)
  /\ ~WantsRetry(rep)
  /\ varsMap' = VarSet(rep)
  /\ results' = Recorded(rep)
  /\ dependencies' = Decremented(rep.task)
  /\ taskCh' = taskCh \cup FirstRuns(NewlyReady(rep.task), Recorded(rep), VarSet(rep))
  /\ dispatched' = CountDispatch(NewlyReady(rep.task))
  /\ waiting' = waiting - 1 + Cardinality(NewlyReady(rep.task))
  /\ UNCHANGED <<pipeline, flags, running, backoffs, rebuilding>>

CloseWhenIdle ==  \* mutant: back-offs and reports in flight are forgotten
  /\ ~closed /\ taskCh = {} /\ running = {}
  /\ closed' = TRUE
  /\ UNCHANGED <<pipeline, counters, results, varsMap, pending, exiting, crashed,
                 taskCh, running, reports, backoffs, rebuilding, dispatched>>

CloseTaskCh ==
  /\ ~closed /\ waiting = 0
  /\ closed' = TRUE
  /\ UNCHANGED <<pipeline, counters, results, varsMap, pending, exiting, crashed,
                 taskCh, running, reports, backoffs, rebuilding, dispatched>>

-----------------------------------------------------------------------------
(* The goroutine started for a retry.  Its select may take the timer even   *)
(* when the context is already cancelled.                                   *)

RetryTickerFires(b) ==  \* mutant: the timer is not a one-shot
  /\ b \in backoffs
  /\ rebuilding' = rebuilding \cup {b}
  /\ UNCHANGED <<pipeline, counters, results, varsMap, flags,
                 taskCh, running, reports, backoffs, dispatched>>

RetryTimerFires(b) ==
  /\ b \in backoffs
  /\ backoffs' = backoffs \ {b}
  /\ rebuilding' = rebuilding \cup {b}
  /\ UNCHANGED <<pipeline, counters, results, varsMap, flags,
                 taskCh, running, reports, dispatched>>

RetryCancelledSilently(b) ==  \* mutant: the waiting counter is never decreased
  /\ b \in backoffs
  /\ exiting
  /\ backoffs' = backoffs \ {b}
  /\ UNCHANGED <<pipeline, counters, results, varsMap, flags,
                 taskCh, running, reports, rebuilding, dispatched>>

RetryCancelled(b) ==
  /\ b \in backoffs
  /\ exiting
  /\ backoffs' = backoffs \ {b}
  /\ reports' = reports \cup {[task |-> b.task, outcome |-> Cancelled]}
  /\ UNCHANGED <<pipeline, counters, results, varsMap, flags,
                 taskCh, running, rebuilding, dispatched>>

\* newMemoryTaskRun reads scheduler.results from this goroutine, the
\* variables are those copied when the attempt failed.
RetrySends(b) ==
  /\ b \in rebuilding
  /\ rebuilding' = rebuilding \ {b}
  /\ taskCh' = taskCh \cup
       {NewMemoryTaskRun(b.task, dispatched[b.task] + 1, b.attempts, results, b.vars)}
  /\ dispatched' = CountDispatch({b.task})
  /\ UNCHANGED <<pipeline, counters, results, varsMap, flags,
                 running, reports, backoffs>>

\* The read of scheduler.results overlaps the scheduler's write for a report
\* it is about to receive: the runtime may stop the process ("concurrent map
\* read and map write", which recover does not catch).
MapRace(b) ==
  /\ b \in rebuilding
  /\ Propagating(b.task) # {}
  /\ reports # {} /\ ~closed
  /\ crashed' = TRUE
  /\ UNCHANGED <<pipeline, counters, results, varsMap, pending, exiting, closed,
                 taskCh, running, reports, backoffs, rebuilding, dispatched>>

-----------------------------------------------------------------------------

ReceiveResult ==
  \E rep \in reports :
     ReceivePending(rep) \/ ReceiveExiting(rep) \/ ReceiveForRetry(rep) \/ ReceiveFinal(rep)

SchedulerStep == ReceiveResult \/ CloseTaskCh
DispatchStep == \E r \in taskCh : DispatchTaskRun(r)
TaskStep == \E r \in running : TaskReturns(r) \/ TaskPanics(r)
RetryStep ==
  \/ \E b \in backoffs : RetryTimerFires(b) \/ RetryCancelled(b)
  \/ \E b \in rebuilding : RetrySends(b)
RaceStep == \E b \in rebuilding : MapRace(b)

Step ==
  /\ ~crashed
  /\ SchedulerStep \/ DispatchStep \/ TaskStep \/ RetryStep \/ RaceStep

\* The run is over: the dispatch loop saw taskCh closed and drained.
Over == (closed /\ taskCh = {}) \/ crashed
Terminated == Over /\ UNCHANGED vars

Next == Step \/ Terminated

\* Every goroutine that can move does: the Go runtime schedules them, every
\* Task.Run returns (its context expires), every back-off timer fires.
Fairness ==
  /\ WF_vars(~crashed /\ SchedulerStep)
  /\ WF_vars(~crashed /\ DispatchStep)
  /\ WF_vars(~crashed /\ TaskStep)
  /\ WF_vars(~crashed /\ RetryStep)

Spec == Init /\ [][Next]_vars
FairSpec == Spec /\ Fairness

-----------------------------------------------------------------------------
(* Properties *)

TasksOf(S) == {x.task : x \in S}
\* Tasks with a run queued, executing, reporting, backing off or being rebuilt.
InFlight == TasksOf(taskCh) \cup TasksOf(running) \cup TasksOf(reports)
              \cup TasksOf(backoffs) \cup TasksOf(rebuilding)
\* Tasks whose dependents may not start yet.
Unsettled(t) == t \in InFlight \/ ~Finished(results[t].outcome)

\* Every variable keeps its type; in particular the unsigned dependency
\* counters (scheduler.go:53) never go below zero.
TypeOK ==
  /\ pipeline \in Pipelines
  /\ dependencies \in [Tasks -> Nat]
  /\ waiting \in Nat
  /\ results \in [Tasks -> EntryType]
  /\ varsMap \in [Tasks -> OutcomeType]
  /\ pending \in BOOLEAN /\ exiting \in BOOLEAN /\ closed \in BOOLEAN /\ crashed \in BOOLEAN
  /\ taskCh \subseteq RunType /\ running \subseteq RunType
  /\ reports \subseteq ReportType
  /\ backoffs \subseteq BackoffType /\ rebuilding \subseteq BackoffType
  /\ dispatched \in [Tasks -> Nat]

Distinct(S) == \A x, y \in S : x.task = y.task => x = y
Apart(S, T) == \A x \in S, y \in T : x.task # y.task

\* A task never has two runs in flight, wherever they are: no retry overlaps
\* the attempt it repeats, and no task is scheduled by two of its inputs.
SingleInstance ==
  /\ Distinct(taskCh) /\ Distinct(running) /\ Distinct(reports)
  /\ Distinct(backoffs) /\ Distinct(rebuilding)
  /\ Apart(taskCh, running) /\ Apart(taskCh, reports) /\ Apart(taskCh, backoffs)
  /\ Apart(taskCh, rebuilding) /\ Apart(running, reports) /\ Apart(running, backoffs)
  /\ Apart(running, rebuilding) /\ Apart(reports, backoffs) /\ Apart(reports, rebuilding)
  /\ Apart(backoffs, rebuilding)

\* The waiting counter is the number of task runs that still have to report,
\* across retries and cancelled retries (scheduler.go:174, 225, 236, 268).
WaitingCountsInFlight == waiting = Cardinality(InFlight)

\* "taskCh should never block" (scheduler.go:82): the buffer of one slot per
\* task holds every send, those of the retry goroutines included.
TaskChNeverBlocks == Cardinality(taskCh) <= Cardinality(Tasks)

\* "Normally the scheduler loop doesn't stop until all in progress runs report
\* back" (runner.go:259): once taskCh is closed no goroutine is left that would
\* send to it or block on resultCh.
NoStrayGoroutines == closed => InFlight = {}

\* As long as the run does not exit, a task waits for exactly those of its
\* inputs that have not settled, a retried or suspended input included.
DependencyCount ==
  ~exiting => \A t \in Tasks : dependencies[t] = Cardinality({i \in Inputs(t) : Unsettled(i)})

\* A task is dispatched only when all its inputs have settled, and they stay
\* settled: no late report, retry or cancellation unsettles them again.
StartedAfterInputs ==
  \A t \in Tasks :
     /\ dispatched[t] > 0 => \A i \in Inputs(t) : ~Unsettled(i)
     /\ t \in InFlight \/ (~exiting /\ results[t].outcome # Absent) => dispatched[t] > 0

\* A task run, a retry included, was given the recorded final result of each of
\* its inputs, through its inputs and through its copy of the variables.
InstanceSeesFinalResults ==
  \A r \in taskCh \cup running : \A i \in Inputs(r.task) :
     /\ ~Unsettled(i)
     /\ r.vars[i] = results[i].outcome
     /\ i \in Propagating(r.task) => r.inputs[i] = results[i].outcome

\* What a dependent has been started with is never revised: the result of a
\* task does not change once an output of it was dispatched, whether or not
\* the run exits early in between.
ConsumedResultsFrozen ==
  [][\A t \in Tasks : (\E o \in Outputs(t) : dispatched[o] > 0) => results'[t] = results[t]]_vars

\* When the run ends every task is accounted for: it ran and has a result, or it
\* never ran and was cancelled by a fail-early, or an input of it is suspended.
NothingForgotten ==
  closed => \A t \in Tasks :
     \/ dispatched[t] > 0 /\ results[t].outcome # Absent
     \/ dispatched[t] = 0 /\ exiting /\ results[t].outcome = Cancelled
     \/ /\ dispatched[t] = 0 /\ ~exiting /\ pending /\ results[t].outcome = Absent
        /\ \E i \in Inputs(t) : ~Finished(results[i].outcome)

MaxAttempts(t) == IF pipeline.retries[t] > 1 THEN pipeline.retries[t] ELSE 1

\* A task is dispatched no more often than its retries allow, and a run that did
\* not exit early ends with a failed task only after all its attempts.
RetryBudget ==
  \A t \in Tasks :
     /\ dispatched[t] <= MaxAttempts(t)
     /\ closed /\ ~exiting /\ Failed(results[t].outcome) => dispatched[t] = MaxAttempts(t)

\* The result a run ends with is that of the last attempt, also when it arrives
\* after the fail-early marked the task; the exception is a retry that was
\* cancelled while it backed off, which has attempts left.
LastAttemptWins ==
  closed => \A t \in Tasks : dispatched[t] > 0 =>
     \/ results[t].outcome.by = dispatched[t]
     \/ /\ exiting /\ results[t].outcome = Cancelled
        /\ results[t].attempts = dispatched[t] /\ dispatched[t] < MaxAttempts(t)

\* Every run comes to an end: no report is lost and no counter keeps the
\* scheduler loop waiting, however attempts, retries and a fail-early interleave.
EventuallyOver == <>Over

\* "must Copy() from current goroutine" (scheduler.go:251): the retry goroutine
\* does not share maps with the scheduler.
NoMapRace == ~crashed

\* "only count as an attempt if the job actually ran" (scheduler.go:179): the
\* recorded result of a run that did execute counts that run.
AttemptsCountRuns == \A t \in Tasks : results[t].outcome.by > 0 => results[t].attempts = results[t].outcome.by
=============================================================================

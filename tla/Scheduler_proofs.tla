--------------------------- MODULE Scheduler_proofs ---------------------------
(* Safety of the scheduler, for every set of tasks and every pipeline.       *)
EXTENDS Scheduler, FiniteSetTheorems, WellFoundedInduction, TLAPS

(* Every variable but dependencies has its type for reasons of its own; that *)
(* the dependency counters stay natural needs the rest of the invariant.     *)
TypeInv ==
  /\ pipeline \in Pipelines
  /\ dependencies \in [Tasks -> Int]
  /\ waiting \in Nat
  /\ results \in [Tasks -> EntryType]
  /\ varsMap \in [Tasks -> OutcomeType]
  /\ pending \in BOOLEAN /\ exiting \in BOOLEAN /\ closed \in BOOLEAN /\ crashed \in BOOLEAN
  /\ taskCh \subseteq RunType /\ running \subseteq RunType
  /\ reports \subseteq ReportType
  /\ backoffs \subseteq BackoffType /\ rebuilding \subseteq BackoffType
  /\ dispatched \in [Tasks -> Nat]

(* Sets of tasks are finite. *)
LEMMA FiniteTasks ==
  ASSUME NEW S \in SUBSET Tasks
  PROVE  IsFiniteSet(S) /\ Cardinality(S) \in Nat
<1>1. IsFiniteSet(Tasks)
  BY SchedulerAssumption
<1>2. IsFiniteSet(S)
  BY <1>1, FS_Subset
<1> QED BY <1>2, FS_CardinalityType

(* The fields of a pipeline. *)
LEMMA PipelineFields ==
  ASSUME pipeline \in Pipelines
  PROVE  /\ pipeline.inputs \in [Tasks -> SUBSET Tasks]
         /\ pipeline.implicit \in [Tasks -> SUBSET Tasks]
         /\ pipeline.failEarly \in SUBSET Tasks
         /\ pipeline.retries \in [Tasks -> Nat]
BY SchedulerAssumption DEF IsPipeline, IsPipelineOver

LEMMA ConstantOutcomes ==
  /\ Absent \in OutcomeType
  /\ Cancelled \in {o \in OutcomeType : o.kind # "none"}
  /\ NoEntry \in EntryType
BY DEF Absent, Cancelled, NoEntry, OutcomeType, EntryType, Kinds

(* A task run built from well-typed tables is well typed. *)
LEMMA NewRunType ==
  ASSUME NEW t \in Tasks, NEW no \in Nat, NEW a \in Nat,
         NEW res \in [Tasks -> EntryType], NEW vm \in [Tasks -> OutcomeType]
  PROVE  NewMemoryTaskRun(t, no, a, res, vm) \in RunType
<1>1. \A i \in Tasks : res[i].outcome \in OutcomeType
  BY DEF EntryType
<1>2. Absent \in OutcomeType
  BY ConstantOutcomes
<1> QED BY <1>1, <1>2 DEF NewMemoryTaskRun, RunType

LEMMA CopyVarsType ==
  ASSUME NEW t \in Tasks, NEW vm \in [Tasks -> OutcomeType]
  PROVE  CopyVars(vm, t) \in [Tasks -> OutcomeType]
<1>1. Absent \in OutcomeType
  BY ConstantOutcomes
<1> QED BY <1>1 DEF CopyVars

LEMMA FirstRunsType ==
  ASSUME TypeInv, NEW ts \in SUBSET Tasks,
         NEW res \in [Tasks -> EntryType], NEW vm \in [Tasks -> OutcomeType]
  PROVE  FirstRuns(ts, res, vm) \subseteq RunType
<1> SUFFICES ASSUME NEW t \in ts
             PROVE  NewMemoryTaskRun(t, dispatched[t] + 1, 0, res, CopyVars(vm, t)) \in RunType
  BY DEF FirstRuns
<1>1. CopyVars(vm, t) \in [Tasks -> OutcomeType]
  BY CopyVarsType
<1>2. dispatched[t] + 1 \in Nat /\ 0 \in Nat
  BY DEF TypeInv
<1> QED BY <1>1, <1>2, NewRunType

\* newScheduler was called, with the task runs of prior and the variables of base.
LEMMA NewSchedulerType ==
  ASSUME pipeline \in Pipelines, NEW prior \in [Tasks -> OutcomeType], NEW base \in [Tasks -> OutcomeType],
         NewScheduler(prior, base)
  PROVE  TypeInv
<1> USE DEF NewScheduler
<1>2. results \in [Tasks -> EntryType]
  BY ConstantOutcomes DEF ReconstructResults, EntryType
<1>3. varsMap \in [Tasks -> OutcomeType]
  BY DEF ReconstructVars
<1>4. Doable(prior) \in SUBSET Tasks
  BY DEF Doable
<1>5. waiting \in Nat
  BY <1>4, FiniteTasks
<1>6. dependencies \in [Tasks -> Int]
  <2>1. \A t \in Tasks : {i \in Inputs(t) : ~Finished(prior[i])} \in SUBSET Tasks
    BY PipelineFields DEF Inputs
  <2>2. \A t \in Tasks : Cardinality({i \in Inputs(t) : ~Finished(prior[i])}) \in Nat
    BY <2>1, FiniteTasks
  <2> QED BY <2>2 DEF InitialDependencies
<1>7. taskCh \subseteq RunType
  <2> SUFFICES ASSUME NEW t \in Doable(prior)
               PROVE  NewMemoryTaskRun(t, 1, 0, results, CopyVars(varsMap, t)) \in RunType
    OBVIOUS
  <2>1. t \in Tasks /\ 1 \in Nat /\ 0 \in Nat
    BY <1>4
  <2> QED BY <2>1, <1>2, <1>3, CopyVarsType, NewRunType
<1> QED BY <1>2, <1>3, <1>5, <1>6, <1>7 DEF TypeInv

(* What one iteration of the scheduler loop computes is well typed. *)
LEMMA ReceiveTypes ==
  ASSUME TypeInv, NEW rep \in reports
  PROVE  /\ rep.task \in Tasks /\ rep.outcome \in OutcomeType /\ rep.outcome.kind # "none"
         /\ Attempts(rep.task) \in Nat
         /\ Recorded(rep) \in [Tasks -> EntryType]
         /\ VarSet(rep) \in [Tasks -> OutcomeType]
         /\ Decremented(rep.task) \in [Tasks -> Int]
         /\ NewlyReady(rep.task) \in SUBSET Tasks
<1>1. rep.task \in Tasks /\ rep.outcome \in OutcomeType /\ rep.outcome.kind # "none"
  BY DEF TypeInv, ReportType
<1>2. Attempts(rep.task) \in Nat
  BY <1>1 DEF TypeInv, EntryType, Attempts
<1>3. Recorded(rep) \in [Tasks -> EntryType]
  BY <1>1, <1>2 DEF TypeInv, EntryType, Recorded
<1>4. VarSet(rep) \in [Tasks -> OutcomeType]
  BY <1>1 DEF TypeInv, VarSet
<1>5. Decremented(rep.task) \in [Tasks -> Int]
  BY DEF TypeInv, Decremented
<1>6. NewlyReady(rep.task) \in SUBSET Tasks
  BY DEF NewlyReady, Outputs
<1> QED BY <1>1, <1>2, <1>3, <1>4, <1>5, <1>6

LEMMA MarkRemainingType ==
  ASSUME NEW res \in [Tasks -> EntryType]
  PROVE  MarkRemaining(res) \in [Tasks -> EntryType]
<1>1. [outcome |-> Cancelled, attempts |-> 0] \in EntryType
  BY ConstantOutcomes DEF EntryType
<1> QED BY <1>1 DEF MarkRemaining

LEMMA CountDispatchType ==
  ASSUME TypeInv, NEW ts
  PROVE  CountDispatch(ts) \in [Tasks -> Nat]
BY DEF TypeInv, CountDispatch

LEMMA StepType ==
  ASSUME TypeInv, [Next]_vars
  PROVE  TypeInv'
<1> USE DEF TypeInv, flags, counters
<1>1. ASSUME NEW r \in taskCh, DispatchTaskRun(r)
      PROVE  TypeInv'
  BY <1>1 DEF DispatchTaskRun
<1>2. ASSUME NEW r \in running, NEW kind, Report(r, kind)
      PROVE  TypeInv'
  <2>1. [task |-> r.task, outcome |-> [kind |-> kind, by |-> r.no]] \in ReportType
    BY <1>2, SchedulerAssumption DEF Report, RunType, ReportType, OutcomeType, Kinds
  <2> QED BY <1>2, <2>1 DEF Report
<1>3. ASSUME NEW rep \in reports, ReceivePending(rep)
      PROVE  TypeInv'
  BY <1>3, ReceiveTypes DEF ReceivePending, Receive
<1>4. ASSUME NEW rep \in reports, ReceiveExiting(rep)
      PROVE  TypeInv'
  BY <1>4, ReceiveTypes, MarkRemainingType DEF ReceiveExiting, Receive
<1>5. ASSUME NEW rep \in reports, ReceiveForRetry(rep)
      PROVE  TypeInv'
  <2>1. [task |-> rep.task, attempts |-> Attempts(rep.task),
         vars |-> CopyVars(VarSet(rep), rep.task)] \in BackoffType
    BY ReceiveTypes, CopyVarsType DEF BackoffType
  <2> QED BY <1>5, <2>1, ReceiveTypes DEF ReceiveForRetry, Receive
<1>6. ASSUME NEW rep \in reports, ReceiveFinal(rep)
      PROVE  TypeInv'
  <2>1. Cardinality(NewlyReady(rep.task)) \in Nat
    BY ReceiveTypes, FiniteTasks
  <2>2. waiting' \in Nat
    BY <1>6, <2>1 DEF ReceiveFinal, Receive
  <2>3. taskCh' \subseteq RunType
    BY <1>6, ReceiveTypes, FirstRunsType DEF ReceiveFinal
  <2>4. dispatched' \in [Tasks -> Nat]
    BY <1>6, CountDispatchType DEF ReceiveFinal
  <2> QED BY <1>6, <2>2, <2>3, <2>4, ReceiveTypes DEF ReceiveFinal, Receive
<1>7. ASSUME CloseTaskCh
      PROVE  TypeInv'
  BY <1>7 DEF CloseTaskCh
<1>8. ASSUME NEW b \in backoffs, RetryTimerFires(b)
      PROVE  TypeInv'
  BY <1>8 DEF RetryTimerFires
<1>9. ASSUME NEW b \in backoffs, RetryCancelled(b)
      PROVE  TypeInv'
  <2>1. [task |-> b.task, outcome |-> Cancelled] \in ReportType
    BY ConstantOutcomes DEF BackoffType, ReportType
  <2> QED BY <1>9, <2>1 DEF RetryCancelled
<1>10. ASSUME NEW b \in rebuilding, RetrySends(b)
       PROVE  TypeInv'
  <2>1. b.task \in Tasks /\ b.attempts \in Nat /\ b.vars \in [Tasks -> OutcomeType]
    BY DEF BackoffType
  <2>2. dispatched[b.task] + 1 \in Nat
    BY <2>1
  <2>3. NewMemoryTaskRun(b.task, dispatched[b.task] + 1, b.attempts, results, b.vars) \in RunType
    BY <2>1, <2>2, NewRunType
  <2>4. CountDispatch({b.task}) \in [Tasks -> Nat]
    BY CountDispatchType
  <2> QED BY <1>10, <2>3, <2>4 DEF RetrySends
<1>11. ASSUME NEW b \in rebuilding, MapRace(b)
       PROVE  TypeInv'
  BY <1>11 DEF MapRace
<1>12. CASE UNCHANGED vars
  BY <1>12 DEF vars
<1> QED
  BY <1>1, <1>2, <1>3, <1>4, <1>5, <1>6, <1>7, <1>8, <1>9, <1>10, <1>11, <1>12
  DEF Next, Step, Terminated, SchedulerStep, ReceiveResult, DispatchStep, TaskStep,
      TaskReturns, TaskPanics, RetryStep, RaceStep

-----------------------------------------------------------------------------
(* The inductive invariant.  That the counters are right and that no task has *)
(* two runs in flight depend on each other: a task becomes ready only once    *)
(* because its dependency counter is exact, the counter is exact because no   *)
(* input settles twice, and no input settles twice because it has one run.    *)

\* A task that was dispatched, or has a result from an earlier call of the same
\* run, has no unsettled input.
SettledInputs ==
  \A t \in Tasks :
     /\ dispatched[t] > 0 \/ (~exiting /\ results[t].outcome # Absent) => \A i \in Inputs(t) : ~Unsettled(i)
     /\ t \in InFlight => dispatched[t] > 0

SchedulerInv ==
  /\ TypeInv
  /\ SingleInstance
  /\ WaitingCountsInFlight
  /\ DependencyCount
  /\ SettledInputs
  /\ NoStrayGoroutines

LEMMA FlightFinite ==
  ASSUME TypeInv
  PROVE  InFlight \in SUBSET Tasks /\ IsFiniteSet(InFlight) /\ Cardinality(InFlight) \in Nat
<1>1. InFlight \in SUBSET Tasks
  BY DEF TypeInv, InFlight, TasksOf, RunType, ReportType, BackoffType
<1> QED BY <1>1, FiniteTasks

(* A reporting task waits for nothing and keeps its outputs waiting. *)
LEMMA ReportingInFlight ==
  ASSUME NEW rep \in reports
  PROVE  rep.task \in InFlight /\ Unsettled(rep.task)
BY DEF InFlight, TasksOf, Unsettled

(* The outputs that a settled task makes ready were never started. *)
LEMMA NewlyReadyFresh ==
  ASSUME TypeInv, SettledInputs, ~exiting, NEW rep \in reports,
         NEW u \in NewlyReady(rep.task)
  PROVE  u \in Tasks /\ u \notin InFlight /\ results[u].outcome = Absent /\ dispatched[u] = 0
<1>1. u \in Tasks /\ rep.task \in Inputs(u)
  BY DEF NewlyReady, Outputs
<1>2. Unsettled(rep.task)
  BY ReportingInFlight
<1>3. ~(dispatched[u] > 0)
  BY <1>1, <1>2 DEF SettledInputs
<1>4. dispatched[u] \in Nat
  BY <1>1 DEF TypeInv
<1> QED BY <1>1, <1>2, <1>3, <1>4 DEF SettledInputs

(* How the goroutines' steps change the set of tasks in flight. *)
LEMMA FlightAfterReceive ==
  ASSUME SingleInstance, NEW rep \in reports, reports' = reports \ {rep},
         UNCHANGED <<taskCh, running, backoffs, rebuilding>>
  PROVE  InFlight' = InFlight \ {rep.task} /\ SingleInstance'
<1>1. InFlight' = InFlight \ {rep.task}
  BY DEF SingleInstance, Distinct, Apart, InFlight, TasksOf
<1>2. SingleInstance'
  BY DEF SingleInstance, Distinct, Apart
<1> QED BY <1>1, <1>2

(* There is one first run for each task. *)
LEMMA FirstRunsTasks ==
  ASSUME NEW ts, NEW res, NEW vm
  PROVE  TasksOf(FirstRuns(ts, res, vm)) = ts /\ Distinct(FirstRuns(ts, res, vm))
<1> DEFINE run(t) == NewMemoryTaskRun(t, dispatched[t] + 1, 0, res, CopyVars(vm, t))
<1>1. \A t : run(t).task = t
  BY DEF NewMemoryTaskRun
<1>2. FirstRuns(ts, res, vm) = {run(t) : t \in ts}
  BY DEF FirstRuns
<1> HIDE DEF run
<1> QED BY <1>1, <1>2 DEF TasksOf, Distinct

LEMMA FlightAfterStarts ==
  ASSUME SingleInstance, NEW rep \in reports, ReceiveFinal(rep),
         \A u \in NewlyReady(rep.task) : u \notin InFlight
  PROVE  /\ InFlight' = (InFlight \ {rep.task}) \cup NewlyReady(rep.task)
         /\ SingleInstance'
<1> DEFINE New == FirstRuns(NewlyReady(rep.task), Recorded(rep), VarSet(rep))
<1>1. /\ reports' = reports \ {rep} /\ taskCh' = taskCh \cup New
      /\ UNCHANGED <<running, backoffs, rebuilding>>
  BY DEF ReceiveFinal, Receive
<1>2. TasksOf(New) = NewlyReady(rep.task) /\ Distinct(New)
  BY FirstRunsTasks
<1>4. Apart(New, taskCh) /\ Apart(New, running) /\ Apart(New, reports)
        /\ Apart(New, backoffs) /\ Apart(New, rebuilding)
  BY <1>2 DEF Apart, TasksOf, InFlight
<1> HIDE DEF New
<1>5. InFlight' = (InFlight \ {rep.task}) \cup NewlyReady(rep.task)
  <2>1. TasksOf(taskCh') = TasksOf(taskCh) \cup TasksOf(New)
    BY <1>1 DEF TasksOf
  <2>2. TasksOf(reports') = TasksOf(reports) \ {rep.task}
    BY <1>1 DEF TasksOf, SingleInstance, Distinct
  <2>3. /\ rep.task \notin TasksOf(taskCh) /\ rep.task \notin TasksOf(running)
        /\ rep.task \notin TasksOf(backoffs) /\ rep.task \notin TasksOf(rebuilding)
    BY DEF TasksOf, SingleInstance, Apart
  <2>4. /\ TasksOf(running') = TasksOf(running) /\ TasksOf(backoffs') = TasksOf(backoffs)
        /\ TasksOf(rebuilding') = TasksOf(rebuilding)
    BY <1>1
  <2> QED BY <1>2, <2>1, <2>2, <2>3, <2>4 DEF InFlight
<1>6. SingleInstance'
  BY <1>1, <1>2, <1>4 DEF SingleInstance, Distinct, Apart
<1> QED BY <1>5, <1>6

LEMMA FlightAfterFinal ==
  ASSUME SchedulerInv, NEW rep \in reports, ReceiveFinal(rep)
  PROVE  /\ InFlight' = (InFlight \ {rep.task}) \cup NewlyReady(rep.task)
         /\ SingleInstance'
<1>1. ~exiting
  BY DEF ReceiveFinal
<1>2. \A u \in NewlyReady(rep.task) : u \notin InFlight
  BY <1>1, NewlyReadyFresh DEF SchedulerInv
<1> QED BY <1>2, FlightAfterStarts DEF SchedulerInv

-----------------------------------------------------------------------------
(* Steps after which the same tasks are in flight.                            *)

QuietStep ==
  /\ InFlight' = InFlight /\ SingleInstance'
  /\ UNCHANGED <<pipeline, counters, exiting, closed>>
  /\ \A t \in Tasks : t \notin InFlight => results'[t] = results[t]
  /\ \A t \in Tasks : \/ dispatched'[t] = dispatched[t]
                      \/ t \in InFlight /\ dispatched'[t] > 0

LEMMA QuietStepInv ==
  ASSUME SchedulerInv, QuietStep, TypeInv'
  PROVE  SchedulerInv'
<1> USE DEF SchedulerInv, QuietStep
<1>1. \A t \in Tasks : Unsettled(t)' <=> Unsettled(t)
  BY DEF Unsettled
<1>2. \A t \in Tasks : Inputs(t)' = Inputs(t) /\ Inputs(t) \in SUBSET Tasks
  BY PipelineFields DEF Inputs, TypeInv
<1>3. WaitingCountsInFlight'
  BY DEF WaitingCountsInFlight, counters
<1>4. DependencyCount'
  <2> SUFFICES ASSUME ~exiting', NEW t \in Tasks
               PROVE  dependencies'[t] = Cardinality({i \in Inputs(t)' : Unsettled(i)'})
    BY DEF DependencyCount
  <2>1. {i \in Inputs(t)' : Unsettled(i)'} = {i \in Inputs(t) : Unsettled(i)}
    BY <1>1, <1>2
  <2> QED BY <2>1 DEF DependencyCount, counters
<1>5. SettledInputs'
  <2> SUFFICES ASSUME NEW t \in Tasks
               PROVE  /\ dispatched'[t] > 0 \/ (~exiting' /\ results'[t].outcome # Absent)
                           => \A i \in Inputs(t)' : ~Unsettled(i)'
                      /\ t \in InFlight' => dispatched'[t] > 0
    BY DEF SettledInputs
  <2>1. /\ t \in InFlight => dispatched[t] > 0
        /\ dispatched'[t] > 0 <=> dispatched[t] > 0
    BY DEF SettledInputs
  <2>2. dispatched'[t] > 0 \/ (~exiting' /\ results'[t].outcome # Absent) => \A i \in Inputs(t)' : ~Unsettled(i)'
    BY <1>1, <1>2, <2>1 DEF SettledInputs
  <2> QED BY <2>1, <2>2
<1>6. NoStrayGoroutines'
  BY DEF NoStrayGoroutines
<1> QED BY <1>3, <1>4, <1>5, <1>6

LEMMA DispatchIsQuiet ==
  ASSUME TypeInv, SingleInstance, NEW r \in taskCh, DispatchTaskRun(r)
  PROVE  QuietStep
<1> USE DEF DispatchTaskRun
<1>1. InFlight' = InFlight
  BY DEF InFlight, TasksOf, SingleInstance, Distinct, Apart
<1>2. SingleInstance'
  BY DEF SingleInstance, Distinct, Apart
<1> QED BY <1>1, <1>2 DEF QuietStep, counters, flags

LEMMA ReportIsQuiet ==
  ASSUME TypeInv, SingleInstance, NEW r \in running, NEW kind, Report(r, kind)
  PROVE  QuietStep
<1> USE DEF Report
<1> DEFINE rep == [task |-> r.task, outcome |-> [kind |-> kind, by |-> r.no]]
<1>1. rep.task = r.task /\ reports' = reports \cup {rep} /\ running' = running \ {r}
  OBVIOUS
<1> HIDE DEF rep
<1>2. InFlight' = InFlight
  BY <1>1 DEF InFlight, TasksOf, SingleInstance, Distinct, Apart
<1>3. SingleInstance'
  BY <1>1 DEF SingleInstance, Distinct, Apart
<1> QED BY <1>2, <1>3 DEF QuietStep, counters, flags

LEMMA RetryTimerIsQuiet ==
  ASSUME TypeInv, SingleInstance, NEW b \in backoffs, RetryTimerFires(b)
  PROVE  QuietStep
<1> USE DEF RetryTimerFires
<1>1. InFlight' = InFlight
  BY DEF InFlight, TasksOf, SingleInstance, Distinct, Apart
<1>2. SingleInstance'
  BY DEF SingleInstance, Distinct, Apart
<1> QED BY <1>1, <1>2 DEF QuietStep, counters, flags

LEMMA RetryCancelledIsQuiet ==
  ASSUME TypeInv, SingleInstance, NEW b \in backoffs, RetryCancelled(b)
  PROVE  QuietStep
<1> USE DEF RetryCancelled
<1> DEFINE rep == [task |-> b.task, outcome |-> Cancelled]
<1>1. rep.task = b.task /\ reports' = reports \cup {rep} /\ backoffs' = backoffs \ {b}
  OBVIOUS
<1> HIDE DEF rep
<1>2. InFlight' = InFlight
  BY <1>1 DEF InFlight, TasksOf, SingleInstance, Distinct, Apart
<1>3. SingleInstance'
  BY <1>1 DEF SingleInstance, Distinct, Apart
<1> QED BY <1>2, <1>3 DEF QuietStep, counters, flags

LEMMA RetrySendsIsQuiet ==
  ASSUME TypeInv, SingleInstance, NEW b \in rebuilding, RetrySends(b)
  PROVE  QuietStep
<1> USE DEF RetrySends
<1> DEFINE r == NewMemoryTaskRun(b.task, dispatched[b.task] + 1, b.attempts, results, b.vars)
<1>1. r.task = b.task /\ taskCh' = taskCh \cup {r} /\ rebuilding' = rebuilding \ {b}
  BY DEF NewMemoryTaskRun
<1> HIDE DEF r
<1>2. InFlight' = InFlight
  BY <1>1 DEF InFlight, TasksOf, SingleInstance, Distinct, Apart
<1>3. SingleInstance'
  BY <1>1 DEF SingleInstance, Distinct, Apart
<1>4. b.task \in InFlight
  BY DEF InFlight, TasksOf
<1>5. \A t \in Tasks : \/ dispatched'[t] = dispatched[t]
                       \/ t \in InFlight /\ dispatched'[t] > 0
  BY <1>4 DEF CountDispatch, TypeInv
<1> QED BY <1>2, <1>3, <1>5 DEF QuietStep, counters, flags

LEMMA ForRetryIsQuiet ==
  ASSUME TypeInv, SingleInstance, NEW rep \in reports, ReceiveForRetry(rep)
  PROVE  QuietStep
<1> USE DEF ReceiveForRetry, Receive
<1> DEFINE b == [task |-> rep.task, attempts |-> Attempts(rep.task),
                 vars |-> CopyVars(VarSet(rep), rep.task)]
<1>1. b.task = rep.task /\ backoffs' = backoffs \cup {b} /\ reports' = reports \ {rep}
  OBVIOUS
<1> HIDE DEF b
<1>2. InFlight' = InFlight
  BY <1>1 DEF InFlight, TasksOf, SingleInstance, Distinct, Apart
<1>3. SingleInstance'
  BY <1>1 DEF SingleInstance, Distinct, Apart
<1>4. \A t \in Tasks : t \notin InFlight => results'[t] = results[t]
  BY ReportingInFlight DEF Recorded, TypeInv
<1> QED BY <1>2, <1>3, <1>4 DEF QuietStep, counters, flags

LEMMA MapRaceIsQuiet ==
  ASSUME TypeInv, SingleInstance, NEW b \in rebuilding, MapRace(b)
  PROVE  QuietStep
<1> USE DEF MapRace
<1>1. InFlight' = InFlight /\ SingleInstance'
  BY DEF InFlight, SingleInstance
<1> QED BY <1>1 DEF QuietStep, counters

LEMMA StutterIsQuiet ==
  ASSUME TypeInv, SingleInstance, UNCHANGED vars
  PROVE  QuietStep
<1>1. InFlight' = InFlight /\ SingleInstance'
  BY DEF vars, InFlight, SingleInstance
<1> QED BY <1>1 DEF QuietStep, counters, flags, vars

-----------------------------------------------------------------------------
(* Steps that take a task out of flight or end the run.                       *)

(* Receiving a report that starts nothing: one task fewer is in flight. *)
LEMMA WaitingAfterReceive ==
  ASSUME TypeInv, WaitingCountsInFlight, NEW rep \in reports, waiting' = waiting - 1,
         InFlight' = InFlight \ {rep.task}
  PROVE  WaitingCountsInFlight'
<1>1. Cardinality(InFlight \ {rep.task}) = Cardinality(InFlight) - 1
  BY FlightFinite, ReportingInFlight, FS_RemoveElement
<1> QED BY <1>1 DEF WaitingCountsInFlight

(* While a report is being received the run is not closed. *)
LEMMA ReceiveOpen ==
  ASSUME NoStrayGoroutines, NEW rep \in reports, closed' = closed
  PROVE  NoStrayGoroutines'
BY ReportingInFlight DEF NoStrayGoroutines

LEMMA ReceivePendingInv ==
  ASSUME SchedulerInv, NEW rep \in reports, ReceivePending(rep), TypeInv'
  PROVE  SchedulerInv'
<1> USE DEF SchedulerInv
<1>1. /\ reports' = reports \ {rep} /\ waiting' = waiting - 1 /\ results' = Recorded(rep)
      /\ rep.outcome.kind = "pending"
      /\ UNCHANGED <<pipeline, dependencies, exiting, closed, dispatched, taskCh, running, backoffs, rebuilding>>
  BY DEF ReceivePending, Receive
<1>2. InFlight' = InFlight \ {rep.task} /\ SingleInstance'
  BY <1>1, FlightAfterReceive
<1>3. rep.task \in Tasks /\ Recorded(rep)[rep.task].outcome = rep.outcome
        /\ \A t \in Tasks \ {rep.task} : Recorded(rep)[t] = results[t]
  BY ReceiveTypes DEF Recorded, TypeInv
<1>4. \A t \in Tasks : Unsettled(t)' <=> Unsettled(t)
  BY <1>1, <1>2, <1>3, ReportingInFlight DEF Unsettled, Finished
<1>5. \A t \in Tasks : Inputs(t)' = Inputs(t) /\ Inputs(t) \in SUBSET Tasks
  BY <1>1, PipelineFields DEF Inputs, TypeInv
<1>6. DependencyCount'
  <2> SUFFICES ASSUME ~exiting', NEW t \in Tasks
               PROVE  dependencies'[t] = Cardinality({i \in Inputs(t)' : Unsettled(i)'})
    BY DEF DependencyCount
  <2>1. {i \in Inputs(t)' : Unsettled(i)'} = {i \in Inputs(t) : Unsettled(i)}
    BY <1>4, <1>5
  <2> QED BY <1>1, <2>1 DEF DependencyCount
<1>7. SettledInputs'
  <2> SUFFICES ASSUME NEW t \in Tasks
               PROVE  /\ dispatched'[t] > 0 \/ (~exiting' /\ results'[t].outcome # Absent)
                           => \A i \in Inputs(t)' : ~Unsettled(i)'
                      /\ t \in InFlight' => dispatched'[t] > 0
    BY DEF SettledInputs
  <2>1. ~exiting' /\ results'[t].outcome # Absent =>
          dispatched[t] > 0 \/ (~exiting /\ results[t].outcome # Absent)
    BY <1>1, <1>3, ReportingInFlight DEF SettledInputs
  <2>2. dispatched'[t] > 0 \/ (~exiting' /\ results'[t].outcome # Absent) => \A i \in Inputs(t)' : ~Unsettled(i)'
    BY <1>1, <1>4, <1>5, <2>1 DEF SettledInputs
  <2>3. t \in InFlight' => dispatched'[t] > 0
    BY <1>1, <1>2 DEF SettledInputs
  <2> QED BY <2>2, <2>3
<1> QED BY <1>1, <1>2, <1>6, <1>7, WaitingAfterReceive, ReceiveOpen

LEMMA ReceiveExitingInv ==
  ASSUME SchedulerInv, NEW rep \in reports, ReceiveExiting(rep), TypeInv'
  PROVE  SchedulerInv'
<1> USE DEF SchedulerInv
<1>1. /\ reports' = reports \ {rep} /\ waiting' = waiting - 1 /\ exiting'
      /\ results' = IF FailsEarly(rep) THEN MarkRemaining(Recorded(rep)) ELSE Recorded(rep)
      /\ UNCHANGED <<pipeline, dependencies, closed, dispatched, taskCh, running, backoffs, rebuilding>>
  BY DEF ReceiveExiting, Receive
<1>2. InFlight' = InFlight \ {rep.task} /\ SingleInstance'
  BY <1>1, FlightAfterReceive
<1>3. \A t \in Tasks \ {rep.task} : results[t].outcome # Absent => results'[t] = results[t]
  BY <1>1, ReceiveTypes DEF Recorded, MarkRemaining, TypeInv
<1>4. \A t \in Tasks : ~Unsettled(t) => ~Unsettled(t)'
  BY <1>2, <1>3, ReportingInFlight DEF Unsettled, Finished, Absent
<1>5. \A t \in Tasks : Inputs(t)' = Inputs(t) /\ Inputs(t) \in SUBSET Tasks
  BY <1>1, PipelineFields DEF Inputs, TypeInv
<1>6. DependencyCount'
  BY <1>1 DEF DependencyCount
<1>7. SettledInputs'
  BY <1>1, <1>2, <1>4, <1>5 DEF SettledInputs
<1> QED BY <1>1, <1>2, <1>6, <1>7, WaitingAfterReceive, ReceiveOpen

LEMMA ReceiveFinalInv ==
  ASSUME SchedulerInv, NEW rep \in reports, ReceiveFinal(rep), TypeInv'
  PROVE  SchedulerInv'
<1> USE DEF SchedulerInv
<1> DEFINE Ready == NewlyReady(rep.task)
<1>1. /\ ~exiting /\ ~exiting' /\ results' = Recorded(rep) /\ rep.outcome.kind # "pending"
      /\ dependencies' = Decremented(rep.task) /\ dispatched' = CountDispatch(Ready)
      /\ waiting' = waiting - 1 + Cardinality(Ready)
      /\ UNCHANGED <<pipeline, closed>>
  BY DEF ReceiveFinal, Receive, flags
<1>3. \A u \in Ready : u \in Tasks /\ u \notin InFlight /\ results[u].outcome = Absent
  BY <1>1, NewlyReadyFresh
<1>2. InFlight' = (InFlight \ {rep.task}) \cup Ready /\ SingleInstance'
  BY FlightAfterFinal
<1>4. rep.task \in Tasks /\ rep.task \in InFlight /\ rep.task \notin Ready
  BY <1>3, ReceiveTypes, ReportingInFlight
<1>5. /\ Recorded(rep)[rep.task].outcome = rep.outcome /\ Finished(rep.outcome)
      /\ \A t \in Tasks \ {rep.task} : Recorded(rep)[t] = results[t]
  BY <1>1, ReceiveTypes DEF Recorded, TypeInv, Finished
<1>6. \A t \in Tasks : Unsettled(t)' <=> (Unsettled(t) /\ t # rep.task)
  BY <1>1, <1>2, <1>3, <1>4, <1>5 DEF Unsettled, Finished, Absent
<1>7. \A t \in Tasks : Inputs(t)' = Inputs(t) /\ Inputs(t) \in SUBSET Tasks
  BY <1>1, PipelineFields DEF Inputs, TypeInv
<1>8. WaitingCountsInFlight'
  <2>1. IsFiniteSet(Ready) /\ Cardinality(Ready) \in Nat
    BY ReceiveTypes, FiniteTasks
  <2>2. /\ IsFiniteSet(InFlight \ {rep.task})
        /\ Cardinality(InFlight \ {rep.task}) = Cardinality(InFlight) - 1
    BY <1>4, FlightFinite, FS_RemoveElement
  <2>3. (InFlight \ {rep.task}) \cap Ready = {}
    BY <1>3
  <2>4. Cardinality((InFlight \ {rep.task}) \cup Ready) = Cardinality(InFlight) - 1 + Cardinality(Ready)
    <3> DEFINE A == InFlight \ {rep.task}
    <3>1. Cardinality(A \cup Ready) = Cardinality(A) + Cardinality(Ready) - Cardinality(A \cap Ready)
      BY <2>1, <2>2, FS_Union
    <3>2. Cardinality(A \cap Ready) = 0
      BY <2>3, FS_EmptySet
    <3>3. Cardinality(InFlight) \in Nat
      BY FlightFinite
    <3> QED BY <2>1, <2>2, <3>1, <3>2, <3>3
  <2> QED BY <1>1, <1>2, <2>4 DEF WaitingCountsInFlight
<1>9. DependencyCount'
  <2> SUFFICES ASSUME NEW t \in Tasks
               PROVE  dependencies'[t] = Cardinality({i \in Inputs(t)' : Unsettled(i)'})
    BY DEF DependencyCount
  <2> DEFINE U == {i \in Inputs(t) : Unsettled(i)}
  <2>1. {i \in Inputs(t)' : Unsettled(i)'} = U \ {rep.task}
    BY <1>6, <1>7
  <2>2. IsFiniteSet(U) /\ Cardinality(U) \in Nat /\ dependencies[t] = Cardinality(U)
    <3>1. U \in SUBSET Tasks
      BY <1>7
    <3> QED BY <1>1, <3>1, FiniteTasks DEF DependencyCount
  <2>3. CASE rep.task \in Inputs(t)
    <3>1. rep.task \in U
      BY <2>3, ReportingInFlight
    <3>2. Cardinality(U \ {rep.task}) = Cardinality(U) - 1
      BY <2>2, <3>1, FS_RemoveElement
    <3> QED BY <1>1, <2>1, <2>2, <2>3, <3>2 DEF Decremented, Outputs
  <2>4. CASE rep.task \notin Inputs(t)
    <3>1. U \ {rep.task} = U
      BY <2>4
    <3> QED BY <1>1, <2>1, <2>2, <2>4, <3>1 DEF Decremented, Outputs
  <2> QED BY <2>3, <2>4
<1>10. SettledInputs'
  <2> SUFFICES ASSUME NEW t \in Tasks
               PROVE  /\ dispatched'[t] > 0 \/ (~exiting' /\ results'[t].outcome # Absent)
                           => \A i \in Inputs(t)' : ~Unsettled(i)'
                      /\ t \in InFlight' => dispatched'[t] > 0
    BY DEF SettledInputs
  <2>1. dispatched[t] \in Nat /\ dispatched'[t] = IF t \in Ready THEN dispatched[t] + 1 ELSE dispatched[t]
    BY <1>1 DEF TypeInv, CountDispatch
  <2>2. t \in InFlight' => dispatched'[t] > 0
    BY <1>2, <2>1 DEF SettledInputs
  <2>3. ASSUME t \in Ready, NEW i \in Inputs(t)
        PROVE  ~Unsettled(i)'
    <3> DEFINE V == {j \in Inputs(t)' : Unsettled(j)'}
    <3>1. Decremented(rep.task)[t] = 0
      BY <2>3 DEF NewlyReady
    <3>2. Cardinality(V) = 0
      BY <1>1, <1>9, <3>1 DEF DependencyCount
    <3>3. V \in SUBSET Tasks /\ IsFiniteSet(V)
      BY <1>7, FiniteTasks
    <3>4. V = {}
      BY <3>2, <3>3, FS_EmptySet
    <3> QED BY <1>7, <2>3, <3>4
  <2>4. ASSUME t \notin Ready, dispatched'[t] > 0 \/ results'[t].outcome # Absent, NEW i \in Inputs(t)
        PROVE  ~Unsettled(i)'
    <3>1. dispatched[t] > 0 \/ results[t].outcome # Absent
      BY <1>1, <1>4, <1>5, <2>1, <2>4 DEF SettledInputs
    <3> QED BY <1>1, <1>6, <1>7, <3>1 DEF SettledInputs
  <2> QED BY <1>7, <2>2, <2>3, <2>4
<1> QED BY <1>1, <1>2, <1>8, <1>9, <1>10, ReceiveOpen

LEMMA CloseTaskChInv ==
  ASSUME SchedulerInv, CloseTaskCh, TypeInv'
  PROVE  SchedulerInv'
<1> USE DEF SchedulerInv
<1>1. /\ UNCHANGED <<pipeline, counters, results, exiting, dispatched>>
      /\ InFlight' = InFlight /\ SingleInstance' /\ waiting = 0
  BY DEF CloseTaskCh, InFlight, SingleInstance
<1>2. InFlight = {}
  BY <1>1, FlightFinite, FS_EmptySet DEF WaitingCountsInFlight
<1>3. WaitingCountsInFlight' /\ NoStrayGoroutines'
  BY <1>1, <1>2 DEF WaitingCountsInFlight, NoStrayGoroutines, counters
<1>4. \A t : (Unsettled(t)' <=> Unsettled(t)) /\ Inputs(t)' = Inputs(t)
  BY <1>1 DEF Unsettled, Inputs
<1>5. DependencyCount' /\ SettledInputs'
  BY <1>1, <1>4 DEF DependencyCount, SettledInputs, counters
<1> QED BY <1>1, <1>3, <1>5

-----------------------------------------------------------------------------
\* What newScheduler leaves: the doable tasks are in flight, nothing else is.
LEMMA NewSchedulerFlight ==
  ASSUME pipeline \in Pipelines, NEW prior \in [Tasks -> OutcomeType], NEW base \in [Tasks -> OutcomeType],
         NewScheduler(prior, base)
  PROVE  /\ TypeInv /\ SingleInstance /\ WaitingCountsInFlight /\ NoStrayGoroutines /\ DependencyCount
         /\ InFlight = Doable(prior) /\ ~exiting
         /\ \A t \in Tasks : /\ results[t].outcome = IF Finished(prior[t]) THEN prior[t] ELSE Absent
                             /\ Inputs(t) \in SUBSET Tasks
                             /\ Unsettled(t) <=> ~Finished(prior[t])
                             /\ dispatched[t] = IF t \in InFlight THEN 1 ELSE 0
                             /\ t \in InFlight <=> dependencies[t] = 0 /\ ~Finished(results[t].outcome)
<1>1. TypeInv
  BY NewSchedulerType
<1>2. /\ running = {} /\ reports = {} /\ backoffs = {} /\ rebuilding = {} /\ ~closed /\ ~exiting
      /\ dependencies = InitialDependencies(prior) /\ waiting = Cardinality(Doable(prior))
      /\ results = ReconstructResults(prior)
      /\ dispatched = [t \in Tasks |-> IF t \in Doable(prior) THEN 1 ELSE 0]
      /\ taskCh = {NewMemoryTaskRun(t, 1, 0, results, CopyVars(varsMap, t)) : t \in Doable(prior)}
  BY DEF NewScheduler
<1>3. \A t \in Tasks : results[t].outcome = IF Finished(prior[t]) THEN prior[t] ELSE Absent
  BY <1>2 DEF ReconstructResults, NoEntry
<1>4. TasksOf(taskCh) = Doable(prior) /\ Distinct(taskCh)
  <2> DEFINE run(t) == NewMemoryTaskRun(t, 1, 0, results, CopyVars(varsMap, t))
  <2>1. \A t : run(t).task = t
    BY DEF NewMemoryTaskRun
  <2>2. taskCh = {run(t) : t \in Doable(prior)}
    BY <1>2
  <2> HIDE DEF run
  <2> QED BY <2>1, <2>2 DEF TasksOf, Distinct
<1>5. InFlight = Doable(prior)
  BY <1>2, <1>4 DEF InFlight, TasksOf
<1>6. SingleInstance
  BY <1>2, <1>4 DEF SingleInstance, Distinct, Apart
<1>7. WaitingCountsInFlight /\ NoStrayGoroutines
  BY <1>2, <1>5 DEF WaitingCountsInFlight, NoStrayGoroutines
<1>8. \A t \in Tasks : Inputs(t) \in SUBSET Tasks
  BY PipelineFields DEF Inputs
<1>9. \A t \in Tasks : Finished(results[t].outcome) <=> Finished(prior[t])
  BY <1>3 DEF Finished, Absent
<1>10. \A t \in Tasks : Unsettled(t) <=> ~Finished(prior[t])
  BY <1>5, <1>9 DEF Unsettled, Doable
<1>11. DependencyCount
  <2> SUFFICES ASSUME NEW t \in Tasks
               PROVE  dependencies[t] = Cardinality({i \in Inputs(t) : Unsettled(i)})
    BY DEF DependencyCount
  <2>1. {i \in Inputs(t) : Unsettled(i)} = {i \in Inputs(t) : ~Finished(prior[i])}
    BY <1>8, <1>10
  <2> QED BY <1>2, <2>1 DEF InitialDependencies
<1>12. ASSUME NEW t \in Tasks
       PROVE  /\ dispatched[t] = IF t \in InFlight THEN 1 ELSE 0
              /\ t \in InFlight <=> dependencies[t] = 0 /\ ~Finished(results[t].outcome)
  BY <1>2, <1>5, <1>9 DEF Doable
<1> QED BY <1>1, <1>2, <1>3, <1>5, <1>6, <1>7, <1>8, <1>10, <1>11, <1>12

\* The inputs of a finished task run are finished.
InputsFinished(prior) == \A t \in Tasks : Finished(prior[t]) => \A i \in Inputs(t) : Finished(prior[i])

LEMMA NewSchedulerInv ==
  ASSUME pipeline \in Pipelines, NEW prior \in [Tasks -> OutcomeType], NEW base \in [Tasks -> OutcomeType],
         NewScheduler(prior, base), InputsFinished(prior)
  PROVE  SchedulerInv
<1>1. ASSUME NEW t \in Tasks, t \in InFlight, NEW i \in Inputs(t)
      PROVE  ~Unsettled(i)
  <2> DEFINE U == {j \in Inputs(t) : Unsettled(j)}
  <2>1. Cardinality(U) = 0
    BY <1>1, NewSchedulerFlight DEF DependencyCount
  <2>2. U \in SUBSET Tasks /\ IsFiniteSet(U)
    BY NewSchedulerFlight, FiniteTasks
  <2>3. U = {}
    BY <2>1, <2>2, FS_EmptySet
  <2> QED BY <1>1, <2>3
<1>2. ASSUME NEW t \in Tasks, results[t].outcome # Absent, NEW i \in Inputs(t)
      PROVE  ~Unsettled(i)
  <2>1. Finished(prior[t])
    BY <1>2, NewSchedulerFlight
  <2> QED BY <1>2, <2>1, NewSchedulerFlight DEF InputsFinished
<1>3. SettledInputs
  BY <1>1, <1>2, NewSchedulerFlight DEF SettledInputs
<1> QED BY <1>3, NewSchedulerFlight DEF SchedulerInv

\* A new run is one without prior task runs.
LEMMA NoPriorFacts ==
  /\ NoPrior \in [Tasks -> OutcomeType]
  /\ \A t \in Tasks : ~Finished(NoPrior[t])
  /\ InputsFinished(NoPrior)
BY ConstantOutcomes DEF NoPrior, Finished, Absent, InputsFinished

LEMMA InitInv == Init => SchedulerInv
BY NewSchedulerInv, NoPriorFacts DEF Init

LEMMA StepInv == SchedulerInv /\ [Next]_vars => SchedulerInv'
<1> SUFFICES ASSUME SchedulerInv, [Next]_vars PROVE SchedulerInv'
  OBVIOUS
<1> USE DEF SchedulerInv
<1>1. TypeInv'
  BY StepType DEF SchedulerInv
<1>2. ASSUME NEW r \in taskCh, DispatchTaskRun(r) PROVE SchedulerInv'
  BY <1>1, <1>2, DispatchIsQuiet, QuietStepInv
<1>3. ASSUME NEW r \in running, NEW kind, Report(r, kind) PROVE SchedulerInv'
  BY <1>1, <1>3, ReportIsQuiet, QuietStepInv
<1>4. ASSUME NEW rep \in reports, ReceivePending(rep) PROVE SchedulerInv'
  BY <1>1, <1>4, ReceivePendingInv
<1>5. ASSUME NEW rep \in reports, ReceiveExiting(rep) PROVE SchedulerInv'
  BY <1>1, <1>5, ReceiveExitingInv
<1>6. ASSUME NEW rep \in reports, ReceiveForRetry(rep) PROVE SchedulerInv'
  BY <1>1, <1>6, ForRetryIsQuiet, QuietStepInv
<1>7. ASSUME NEW rep \in reports, ReceiveFinal(rep) PROVE SchedulerInv'
  BY <1>1, <1>7, ReceiveFinalInv
<1>8. ASSUME CloseTaskCh PROVE SchedulerInv'
  BY <1>1, <1>8, CloseTaskChInv
<1>9. ASSUME NEW b \in backoffs, RetryTimerFires(b) PROVE SchedulerInv'
  BY <1>1, <1>9, RetryTimerIsQuiet, QuietStepInv
<1>10. ASSUME NEW b \in backoffs, RetryCancelled(b) PROVE SchedulerInv'
  BY <1>1, <1>10, RetryCancelledIsQuiet, QuietStepInv
<1>11. ASSUME NEW b \in rebuilding, RetrySends(b) PROVE SchedulerInv'
  BY <1>1, <1>11, RetrySendsIsQuiet, QuietStepInv
<1>12. ASSUME NEW b \in rebuilding, MapRace(b) PROVE SchedulerInv'
  BY <1>1, <1>12, MapRaceIsQuiet, QuietStepInv
<1>13. CASE UNCHANGED vars
  BY <1>1, <1>13, StutterIsQuiet, QuietStepInv
<1> QED
  BY <1>2, <1>3, <1>4, <1>5, <1>6, <1>7, <1>8, <1>9, <1>10, <1>11, <1>12, <1>13
  DEF Next, Step, Terminated, SchedulerStep, ReceiveResult, DispatchStep, TaskStep,
      TaskReturns, TaskPanics, RetryStep, RaceStep

(* The invariant holds in every run of every pipeline. *)
THEOREM Invariance == Spec => []SchedulerInv
<1>1. Init => SchedulerInv
  BY InitInv
<1>2. SchedulerInv /\ [Next]_vars => SchedulerInv'
  BY StepInv
<1> QED BY <1>1, <1>2, PTL DEF Spec

-----------------------------------------------------------------------------
(* The results *)

(* A dependency counter is decremented only while the counters are exact. *)
LEMMA DependenciesNat ==
  ASSUME SchedulerInv, SchedulerInv', dependencies \in [Tasks -> Nat], [Next]_vars
  PROVE  dependencies' \in [Tasks -> Nat]
<1>1. CASE exiting'
  <2>1. dependencies' = dependencies
    BY <1>1 DEF Next, Step, Terminated, SchedulerStep, ReceiveResult, DispatchStep, TaskStep,
       TaskReturns, TaskPanics, RetryStep, RaceStep, ReceivePending, ReceiveExiting,
       ReceiveForRetry, ReceiveFinal, CloseTaskCh, DispatchTaskRun, Report, RetryTimerFires,
       RetryCancelled, RetrySends, MapRace, vars, counters, flags
  <2> QED BY <2>1
<1>2. CASE ~exiting'
  <2>1. \A t \in Tasks : {i \in Inputs(t)' : Unsettled(i)'} \in SUBSET Tasks
    <3>1. \A t \in Tasks : pipeline'.inputs[t] \in SUBSET Tasks
      BY SchedulerAssumption DEF SchedulerInv, TypeInv, IsPipeline, IsPipelineOver
    <3> QED BY <3>1 DEF Inputs
  <2>2. \A t \in Tasks : Cardinality({i \in Inputs(t)' : Unsettled(i)'}) \in Nat
    BY <2>1, FiniteTasks
  <2> QED BY <1>2, <2>2 DEF SchedulerInv, TypeInv, DependencyCount
<1> QED BY <1>1, <1>2

(* Every variable keeps its type; the unsigned dependency counters never wrap. *)
THEOREM TypeCorrect == Spec => []TypeOK
<1>1. Init => TypeOK
  <2> SUFFICES ASSUME Init PROVE TypeOK
    OBVIOUS
  <2>1. SchedulerInv /\ ~exiting
    BY InitInv DEF Init, NewScheduler
  <2>2. \A t \in Tasks : {i \in Inputs(t) : Unsettled(i)} \in SUBSET Tasks
    BY <2>1, PipelineFields DEF SchedulerInv, TypeInv, Inputs
  <2>3. \A t \in Tasks : Cardinality({i \in Inputs(t) : Unsettled(i)}) \in Nat
    BY <2>2, FiniteTasks
  <2>4. dependencies \in [Tasks -> Nat]
    BY <2>1, <2>3 DEF SchedulerInv, TypeInv, DependencyCount
  <2> QED BY <2>1, <2>4 DEF SchedulerInv, TypeInv, TypeOK
<1>2. TypeOK /\ SchedulerInv /\ SchedulerInv' /\ [Next]_vars => TypeOK'
  <2> SUFFICES ASSUME TypeOK, SchedulerInv, SchedulerInv', [Next]_vars PROVE TypeOK'
    OBVIOUS
  <2>1. dependencies' \in [Tasks -> Nat]
    BY DependenciesNat DEF TypeOK
  <2> QED BY <2>1 DEF SchedulerInv, TypeInv, TypeOK
<1> QED BY <1>1, <1>2, Invariance, PTL DEF Spec

(* No task ever has two runs in flight. *)
THEOREM OneRunPerTask == Spec => []SingleInstance
<1>1. SchedulerInv => SingleInstance
  BY DEF SchedulerInv
<1> QED BY <1>1, Invariance, PTL

(* The loop of scheduler.Run waits for exactly the runs that will report. *)
THEOREM WaitingExact == Spec => []WaitingCountsInFlight
<1>1. SchedulerInv => WaitingCountsInFlight
  BY DEF SchedulerInv
<1> QED BY <1>1, Invariance, PTL

(* No send to taskCh finds its buffer full. *)
THEOREM BufferSuffices == Spec => []TaskChNeverBlocks
<1>1. SchedulerInv => TaskChNeverBlocks
  <2> SUFFICES ASSUME SchedulerInv PROVE TaskChNeverBlocks
    OBVIOUS
  <2> DEFINE f == [r \in taskCh |-> r.task]
  <2>1. f \in [taskCh -> Tasks]
    BY DEF SchedulerInv, TypeInv, RunType
  <2>2. f \in Injection(taskCh, Tasks)
    BY <2>1 DEF SchedulerInv, SingleInstance, Distinct, Injection, IsInjective
  <2>3. Cardinality(taskCh) <= Cardinality(Tasks)
    BY <2>2, SchedulerAssumption, FS_Injection
  <2> QED BY <2>3 DEF TaskChNeverBlocks
<1> QED BY <1>1, Invariance, PTL

(* Nothing is left that could send to the closed channel or wait to report. *)
THEOREM NothingInFlightWhenClosed == Spec => []NoStrayGoroutines
<1>1. SchedulerInv => NoStrayGoroutines
  BY DEF SchedulerInv
<1> QED BY <1>1, Invariance, PTL

(* The dependency counters count the unsettled inputs. *)
THEOREM DependenciesExact == Spec => []DependencyCount
<1>1. SchedulerInv => DependencyCount
  BY DEF SchedulerInv
<1> QED BY <1>1, Invariance, PTL

\* In a new run only task runs that were dispatched have a result.
ResultsComeFromRuns == ~exiting => \A t \in Tasks : results[t].outcome # Absent => dispatched[t] > 0

LEMMA ResultsComeFromRunsStep ==
  ASSUME SchedulerInv, ResultsComeFromRuns, [Next]_vars
  PROVE  ResultsComeFromRuns'
<1> USE DEF SchedulerInv
<1>1. ASSUME NEW rep \in reports PROVE rep.task \in InFlight /\ rep.task \in Tasks
  BY ReportingInFlight, ReceiveTypes
<1>2. ASSUME NEW rep \in reports, ReceivePending(rep) \/ ReceiveFinal(rep)
      PROVE  ResultsComeFromRuns'
  <2>1. /\ results' = Recorded(rep) /\ exiting' = exiting
        /\ dispatched' = dispatched \/ dispatched' = CountDispatch(NewlyReady(rep.task))
    BY <1>2 DEF ReceivePending, ReceiveFinal, flags
  <2>2. \A t \in Tasks : dispatched[t] > 0 => dispatched'[t] > 0
    BY <2>1 DEF CountDispatch, TypeInv
  <2>3. \A t \in Tasks \ {rep.task} : results'[t] = results[t]
    BY <2>1 DEF Recorded, TypeInv
  <2>4. dispatched[rep.task] > 0
    BY <1>1, <1>2 DEF SettledInputs
  <2> QED BY <2>1, <2>2, <2>3, <2>4 DEF ResultsComeFromRuns
<1>3. ASSUME QuietStep PROVE ResultsComeFromRuns'
  <2>1. \A t \in Tasks : dispatched[t] > 0 => dispatched'[t] > 0
    BY <1>3 DEF QuietStep
  <2>2. \A t \in Tasks : results'[t] = results[t] \/ dispatched[t] > 0
    BY <1>3 DEF QuietStep, SettledInputs
  <2> QED BY <1>3, <2>1, <2>2 DEF QuietStep, ResultsComeFromRuns
<1>4. ASSUME NEW rep \in reports, ReceiveExiting(rep) PROVE ResultsComeFromRuns'
  BY <1>4 DEF ReceiveExiting, ResultsComeFromRuns
<1>5. ASSUME CloseTaskCh PROVE ResultsComeFromRuns'
  BY <1>5 DEF CloseTaskCh, ResultsComeFromRuns
<1> QED
  BY <1>2, <1>3, <1>4, <1>5, DispatchIsQuiet, ReportIsQuiet, RetryTimerIsQuiet,
     RetryCancelledIsQuiet, RetrySendsIsQuiet, ForRetryIsQuiet, MapRaceIsQuiet, StutterIsQuiet
  DEF Next, Step, Terminated, SchedulerStep, ReceiveResult, DispatchStep, TaskStep,
      TaskReturns, TaskPanics, RetryStep, RaceStep

(* A task starts after its inputs have settled, and they stay settled. *)
THEOREM InputsSettleFirst == Spec => []StartedAfterInputs
<1>1. SchedulerInv /\ ResultsComeFromRuns => StartedAfterInputs
  BY DEF SchedulerInv, SettledInputs, ResultsComeFromRuns, StartedAfterInputs
<1>2. Init => ResultsComeFromRuns
  BY NewSchedulerFlight, NoPriorFacts DEF Init, ResultsComeFromRuns
<1>3. SchedulerInv /\ ResultsComeFromRuns /\ [Next]_vars => ResultsComeFromRuns'
  BY ResultsComeFromRunsStep
<1> QED BY <1>1, <1>2, <1>3, Invariance, PTL DEF Spec

(* What is settled stays settled, with the result it settled with. *)
LEMMA SettledForever ==
  ASSUME SchedulerInv, [Next]_vars, NEW t \in Tasks, ~Unsettled(t)
  PROVE  ~Unsettled(t)' /\ results'[t] = results[t]
<1> USE DEF SchedulerInv
<1>1. t \notin InFlight /\ Finished(results[t].outcome) /\ results[t].outcome # Absent
  BY DEF Unsettled, Finished, Absent
<1>2. t \notin InFlight' /\ results'[t] = results[t] => ~Unsettled(t)' /\ results'[t] = results[t]
  BY <1>1 DEF Unsettled
<1>3. ASSUME NEW rep \in reports
      PROVE  /\ Recorded(rep)[t] = results[t]
             /\ MarkRemaining(Recorded(rep))[t] = results[t]
  <2>1. t # rep.task /\ rep.task \in Tasks
    BY <1>1, ReportingInFlight, ReceiveTypes
  <2>2. Recorded(rep)[t] = results[t]
    BY <2>1 DEF Recorded, TypeInv
  <2> QED BY <1>1, <2>2 DEF MarkRemaining
<1>4. ASSUME NEW rep \in reports, ReceivePending(rep) \/ ReceiveExiting(rep)
      PROVE  t \notin InFlight' /\ results'[t] = results[t]
  <2>1. /\ reports' = reports \ {rep} /\ UNCHANGED <<taskCh, running, backoffs, rebuilding>>
        /\ results' = Recorded(rep) \/ results' = MarkRemaining(Recorded(rep))
    BY <1>4 DEF ReceivePending, ReceiveExiting, Receive
  <2>2. InFlight' = InFlight \ {rep.task}
    BY <2>1, FlightAfterReceive
  <2> QED BY <1>1, <1>3, <2>1, <2>2
<1>5. ASSUME NEW rep \in reports, ReceiveFinal(rep)
      PROVE  t \notin InFlight' /\ results'[t] = results[t]
  <2>1. InFlight' = (InFlight \ {rep.task}) \cup NewlyReady(rep.task)
    BY <1>5, FlightAfterFinal
  <2>2. t \notin NewlyReady(rep.task)
    <3>1. ~exiting
      BY <1>5 DEF ReceiveFinal
    <3> QED BY <1>1, <3>1, NewlyReadyFresh
  <2>3. results' = Recorded(rep)
    BY <1>5 DEF ReceiveFinal
  <2> QED BY <1>1, <1>3, <2>1, <2>2, <2>3
<1>6. QuietStep => t \notin InFlight' /\ results'[t] = results[t]
  BY <1>1 DEF QuietStep
<1>7. ASSUME CloseTaskCh
      PROVE  t \notin InFlight' /\ results'[t] = results[t]
  BY <1>1, <1>7 DEF CloseTaskCh, InFlight
<1> QED
  BY <1>2, <1>4, <1>5, <1>6, <1>7, DispatchIsQuiet, ReportIsQuiet, RetryTimerIsQuiet,
     RetryCancelledIsQuiet, RetrySendsIsQuiet, ForRetryIsQuiet, MapRaceIsQuiet, StutterIsQuiet
  DEF Next, Step, Terminated, SchedulerStep, ReceiveResult, DispatchStep, TaskStep,
      TaskReturns, TaskPanics, RetryStep, RaceStep

(* A result that a dependent was started with never changes. *)
THEOREM ResultsFrozen == Spec => ConsumedResultsFrozen
<1> DEFINE Frozen == \A t \in Tasks : (\E o \in Outputs(t) : dispatched[o] > 0) => results'[t] = results[t]
<1>1. SchedulerInv /\ [Next]_vars => [Frozen]_vars
  <2> SUFFICES ASSUME SchedulerInv, [Next]_vars, NEW t \in Tasks, NEW o \in Outputs(t), dispatched[o] > 0
               PROVE  results'[t] = results[t]
    OBVIOUS
  <2>1. ~Unsettled(t)
    BY DEF SchedulerInv, SettledInputs, Outputs
  <2> QED BY <2>1, SettledForever
<1> QED BY <1>1, Invariance, PTL DEF Spec, ConsumedResultsFrozen

-----------------------------------------------------------------------------
(* What task runs are given: each, the first of its task or a retry, sees    *)
(* the final results of the inputs.                                          *)

\* A task run, or what a retry keeps for the next one, has the recorded results.
HasVars(x) == \A i \in Inputs(x.task) : x.vars[i] = results[i].outcome
HasInputs(r) == \A i \in Inputs(r.task) : i \in Propagating(r.task) => r.inputs[i] = results[i].outcome

\* The variables follow the results, until the run exits and marks tasks.
VarsFollowResults == ~exiting => \A i \in Tasks : Finished(results[i].outcome) => varsMap[i] = results[i].outcome

\* Beyond the task runs of InstanceSeesFinalResults this speaks of the variables
\* they are made from: the map of the scheduler, and its copies in the retries.
DataInv ==
  /\ VarsFollowResults
  /\ \A r \in taskCh \cup running : HasVars(r) /\ HasInputs(r)
  /\ \A b \in backoffs \cup rebuilding : HasVars(b)

\* The first runs are given the results that newScheduler found in the record.
LEMMA NewSchedulerData ==
  ASSUME pipeline \in Pipelines, NEW prior \in [Tasks -> OutcomeType], NEW base \in [Tasks -> OutcomeType],
         NewScheduler(prior, base), InputsFinished(prior)
  PROVE  DataInv
<1>1. /\ running = {} /\ backoffs = {} /\ rebuilding = {}
      /\ varsMap = ReconstructVars(prior, base)
      /\ taskCh = {NewMemoryTaskRun(t, 1, 0, results, CopyVars(varsMap, t)) : t \in Doable(prior)}
  BY DEF NewScheduler
<1>2. \A i \in Tasks : /\ results[i].outcome = IF Finished(prior[i]) THEN prior[i] ELSE Absent
                       /\ varsMap[i] = IF Finished(prior[i]) THEN prior[i] ELSE base[i]
  BY <1>1, NewSchedulerFlight DEF ReconstructVars
<1>3. VarsFollowResults
  BY <1>2 DEF VarsFollowResults, Finished, Absent
<1>4. ASSUME NEW t \in Doable(prior)
      PROVE  LET r == NewMemoryTaskRun(t, 1, 0, results, CopyVars(varsMap, t)) IN HasVars(r) /\ HasInputs(r)
  <2>1. t \in Tasks /\ t \in InFlight /\ Inputs(t) \subseteq Tasks
    BY NewSchedulerFlight DEF Doable
  <2>2. \A i \in Inputs(t) : Finished(prior[i])
    BY <2>1, NewSchedulerFlight, NewSchedulerInv DEF SchedulerInv, SettledInputs
  <2>3. \A i \in Inputs(t) : varsMap[i] = results[i].outcome
    BY <1>2, <2>1, <2>2
  <2> QED
    BY <2>1, <2>3 DEF NewMemoryTaskRun, CopyVars, HasVars, HasInputs, Propagating
<1> QED
  BY <1>1, <1>3, <1>4 DEF DataInv

LEMMA DataInit == Init => DataInv
BY NewSchedulerData, NoPriorFacts DEF Init

\* A task run made from the current tables has the results of its inputs, once
\* they have settled.
LEMMA NewRunHasResults ==
  ASSUME NEW t \in Tasks, Inputs(t) \subseteq Tasks, NEW res, NEW vm, NEW no, NEW attempts,
         \A i \in Inputs(t) : vm[i] = res[i].outcome
  PROVE  LET r == NewMemoryTaskRun(t, no, attempts, res, CopyVars(vm, t))
         IN r.task = t /\ \A i \in Inputs(t) : /\ r.vars[i] = res[i].outcome
                                               /\ i \in Propagating(t) => r.inputs[i] = res[i].outcome
BY DEF NewMemoryTaskRun, CopyVars

LEMMA VarsFollowStep == SchedulerInv /\ VarsFollowResults /\ [Next]_vars => VarsFollowResults'
<1> SUFFICES ASSUME SchedulerInv, VarsFollowResults, [Next]_vars PROVE VarsFollowResults'
  OBVIOUS
<1>1. ASSUME NEW rep \in reports PROVE rep.task \in Tasks /\ results \in [Tasks -> EntryType] /\ varsMap \in [Tasks -> OutcomeType]
  BY DEF SchedulerInv, TypeInv, ReportType
<1>2. ASSUME NEW rep \in reports, ReceivePending(rep) PROVE VarsFollowResults'
  <2>1. \A i \in Tasks : results'[i] = results[i] \/ ~Finished(results'[i].outcome)
    BY <1>1, <1>2 DEF ReceivePending, Recorded, Finished
  <2> QED
    BY <1>2, <2>1 DEF ReceivePending, VarsFollowResults, Finished
<1>3. ASSUME NEW rep \in reports, ReceiveExiting(rep) PROVE VarsFollowResults'
  BY <1>3 DEF ReceiveExiting, VarsFollowResults
<1>4. ASSUME NEW rep \in reports, ReceiveForRetry(rep) \/ ReceiveFinal(rep) PROVE VarsFollowResults'
  <2>1. ~exiting /\ results' = Recorded(rep) /\ varsMap' = VarSet(rep)
    BY <1>4 DEF ReceiveForRetry, ReceiveFinal
  <2>2. \A i \in Tasks : \/ results'[i] = results[i] /\ varsMap'[i] = varsMap[i]
                         \/ varsMap'[i] = results'[i].outcome
    BY <1>1, <2>1 DEF Recorded, VarSet
  <2> QED
    BY <2>1, <2>2 DEF VarsFollowResults, Finished
<1>5. CASE UNCHANGED <<results, varsMap, exiting>>
  BY <1>5 DEF VarsFollowResults, Finished
<1> QED
  BY <1>2, <1>3, <1>4, <1>5
  DEF Next, Step, Terminated, SchedulerStep, ReceiveResult, DispatchStep, TaskStep, TaskReturns, TaskPanics,
      RetryStep, RaceStep, CloseTaskCh, DispatchTaskRun, Report, RetryTimerFires, RetryCancelled, RetrySends,
      MapRace, vars, flags

\* The inputs of a task in flight have settled, so what it has been given stays true.
LEMMA GivenStays ==
  ASSUME SchedulerInv, [Next]_vars, NEW t \in InFlight
  PROVE  /\ t \in Tasks /\ Inputs(t) \subseteq Tasks /\ pipeline' = pipeline
         /\ \A i \in Inputs(t) : ~Unsettled(i) /\ results'[i] = results[i]
<1>1. t \in Tasks /\ Inputs(t) \subseteq Tasks
  BY FlightFinite, PipelineFields DEF SchedulerInv, TypeInv, Inputs
<1>2. pipeline' = pipeline
  BY DEF Next, Step, Terminated, SchedulerStep, ReceiveResult, ReceivePending, ReceiveExiting, ReceiveForRetry,
         ReceiveFinal, DispatchStep, TaskStep, TaskReturns, TaskPanics,
         RetryStep, RaceStep, CloseTaskCh, DispatchTaskRun, Report, RetryTimerFires, RetryCancelled, RetrySends,
         MapRace, vars
<1>3. \A i \in Inputs(t) : ~Unsettled(i)
  BY <1>1 DEF SchedulerInv, SettledInputs
<1> QED
  BY <1>1, <1>2, <1>3, SettledForever

LEMMA DataStep == SchedulerInv /\ DataInv /\ [Next]_vars => DataInv'
<1> SUFFICES ASSUME SchedulerInv, DataInv, [Next]_vars PROVE DataInv'
  OBVIOUS
<1>1. VarsFollowResults'
  BY VarsFollowStep DEF DataInv
<1>2. SchedulerInv'
  BY StepInv
<1>3. ASSUME NEW r \in taskCh \cup running PROVE HasVars(r)' /\ HasInputs(r)'
  <2>1. r.task \in InFlight
    BY DEF InFlight, TasksOf
  <2> QED
    BY <2>1, GivenStays DEF DataInv, HasVars, HasInputs, Inputs, Propagating
<1>4. ASSUME NEW b \in backoffs \cup rebuilding PROVE HasVars(b)'
  <2>1. b.task \in InFlight
    BY DEF InFlight, TasksOf
  <2> QED
    BY <2>1, GivenStays DEF DataInv, HasVars, Inputs
<1>5. ASSUME NEW rep \in reports, ReceiveForRetry(rep) PROVE DataInv'
  <2>1. PICK b : /\ b = [task |-> rep.task, attempts |-> Attempts(rep.task), vars |-> CopyVars(VarSet(rep), rep.task)]
                 /\ backoffs' = backoffs \cup {b} /\ UNCHANGED <<taskCh, running, rebuilding>>
    BY <1>5 DEF ReceiveForRetry
  <2>2. HasVars(b)'
    <3>1. rep.task \in InFlight
      BY ReportingInFlight
    <3>2. ~exiting' /\ varsMap' = VarSet(rep)
      BY <1>5 DEF ReceiveForRetry, flags
    <3>3. \A i \in Inputs(rep.task) : Finished(results'[i].outcome) /\ i \in Tasks
      BY <3>1, GivenStays DEF Unsettled
    <3>4. \A i \in Inputs(rep.task) : varsMap'[i] = results'[i].outcome
      BY <1>1, <3>2, <3>3 DEF VarsFollowResults, Finished
    <3>5. \A i \in Inputs(rep.task) : b.vars[i] = results'[i].outcome
      BY <2>1, <3>2, <3>3, <3>4 DEF CopyVars
    <3> QED
      BY <2>1, <3>1, <3>5, GivenStays DEF HasVars, Inputs
  <2> QED
    BY <1>1, <1>3, <1>4, <2>1, <2>2 DEF DataInv
<1>6. ASSUME NEW rep \in reports, ReceiveFinal(rep) PROVE DataInv'
  <2> DEFINE New == FirstRuns(NewlyReady(rep.task), Recorded(rep), VarSet(rep))
  <2>1. taskCh' = taskCh \cup New /\ UNCHANGED <<running, backoffs, rebuilding>>
    BY <1>6 DEF ReceiveFinal
  <2>2. ~exiting' /\ ~exiting /\ varsMap' = VarSet(rep) /\ results' = Recorded(rep) /\ pipeline' = pipeline
    BY <1>6 DEF ReceiveFinal, flags
  <2>3. ASSUME NEW r \in New PROVE HasVars(r)' /\ HasInputs(r)'
    <3>1. PICK t \in NewlyReady(rep.task) :
             r = NewMemoryTaskRun(t, dispatched[t] + 1, 0, results', CopyVars(varsMap', t))
      BY <2>2 DEF FirstRuns
    <3>2. t \in Tasks /\ dispatched[t] = 0 /\ Inputs(t) \subseteq Tasks
      BY <2>2, NewlyReadyFresh, PipelineFields DEF SchedulerInv, TypeInv, Inputs
    <3>3. dispatched'[t] > 0
      BY <1>6, <3>2 DEF ReceiveFinal, CountDispatch
    <3>4. \A i \in Inputs(t) : Finished(results'[i].outcome)
      BY <1>2, <2>2, <3>2, <3>3 DEF SchedulerInv, SettledInputs, Unsettled, Inputs, Finished
    <3>5. \A i \in Inputs(t) : varsMap'[i] = results'[i].outcome
      BY <1>1, <2>2, <3>2, <3>4 DEF VarsFollowResults, Finished
    <3> QED
      BY <2>2, <3>1, <3>2, <3>5, NewRunHasResults DEF HasVars, HasInputs, Inputs, Propagating
  <2> QED
    BY <1>1, <1>3, <1>4, <2>1, <2>3 DEF DataInv
<1>7. ASSUME NEW b \in rebuilding, RetrySends(b) PROVE DataInv'
  <2>1. PICK r : /\ r = NewMemoryTaskRun(b.task, dispatched[b.task] + 1, b.attempts, results, b.vars)
                 /\ taskCh' = taskCh \cup {r} /\ rebuilding' = rebuilding \ {b}
                 /\ UNCHANGED <<pipeline, results, running, backoffs>>
    BY <1>7 DEF RetrySends
  <2>2. HasVars(r)' /\ HasInputs(r)'
    <3>1. b.task \in InFlight /\ HasVars(b)
      BY DEF InFlight, TasksOf, DataInv
    <3>2. Inputs(b.task) \subseteq Tasks
      BY <3>1, GivenStays
    <3> QED
      BY <2>1, <3>1, <3>2 DEF NewMemoryTaskRun, HasVars, HasInputs, Inputs, Propagating
  <2> QED
    BY <1>1, <1>3, <1>4, <2>1, <2>2 DEF DataInv
<1>8. CASE taskCh' \cup running' \subseteq taskCh \cup running /\ backoffs' \cup rebuilding' \subseteq backoffs \cup rebuilding
  BY <1>1, <1>3, <1>4, <1>8 DEF DataInv
<1> QED
  BY <1>5, <1>6, <1>7, <1>8
  DEF Next, Step, Terminated, SchedulerStep, ReceiveResult, ReceivePending, ReceiveExiting, DispatchStep, TaskStep,
      TaskReturns, TaskPanics, RetryStep, RaceStep, CloseTaskCh, DispatchTaskRun, Report, RetryTimerFires,
      RetryCancelled, MapRace, vars

\* What the invariants say of the task runs that are queued or executing.
LEMMA GivenFinalResults == SchedulerInv /\ DataInv => InstanceSeesFinalResults
<1> SUFFICES ASSUME SchedulerInv, DataInv, NEW r \in taskCh \cup running, NEW i \in Inputs(r.task)
             PROVE  /\ ~Unsettled(i) /\ r.vars[i] = results[i].outcome
                    /\ i \in Propagating(r.task) => r.inputs[i] = results[i].outcome
  BY DEF InstanceSeesFinalResults
<1>1. r.task \in InFlight /\ r.task \in Tasks
  BY FlightFinite DEF InFlight, TasksOf, SchedulerInv
<1> QED
  BY <1>1 DEF SchedulerInv, SettledInputs, DataInv, HasVars, HasInputs

\* Every task run, a retry included, was given the final result of each of its
\* inputs: those of newMemoryTaskRun and those in the copy of the variables,
\* however old the copy is (scheduler.go:225-255).
THEOREM FinalResultsSeen == Spec => []InstanceSeesFinalResults
<1>1. Init => DataInv
  BY DataInit
<1>2. SchedulerInv /\ DataInv /\ [Next]_vars => DataInv'
  BY DataStep
<1> QED
  BY <1>1, <1>2, GivenFinalResults, Invariance, PTL DEF Spec

-----------------------------------------------------------------------------
(* How often tasks run and what a run ends with, for every number of retries. *)

\* A retry that backs off, or was cancelled, has an attempt left; all the
\* attempts so far have been counted.
HasAttemptsLeft(t) ==
  /\ results[t].outcome # Absent
  /\ results[t].attempts = dispatched[t] /\ dispatched[t] < pipeline.retries[t]

\* What tasks in flight carry: the number of their dispatch.  While the run does
\* not exit all attempts before that have been counted.
FlightInv ==
  /\ \A r \in taskCh \cup running : r.no = dispatched[r.task]
  /\ \A rep \in reports :
       \/ rep.outcome.by = dispatched[rep.task]
       \/ exiting /\ rep.outcome = Cancelled /\ HasAttemptsLeft(rep.task)
  /\ \A b \in backoffs \cup rebuilding : HasAttemptsLeft(b.task)
  /\ ~exiting => \A x \in taskCh \cup running \cup reports : results[x.task].attempts = dispatched[x.task] - 1

\* Tasks that were not dispatched.
UnstartedInv ==
  \A t \in Tasks : dispatched[t] = 0 =>
    IF exiting THEN results[t].outcome = Cancelled
    ELSE results[t] = NoEntry /\ dependencies[t] # 0

\* Tasks that ran and are not in flight.
EndedInv ==
  \A t \in Tasks \ InFlight : dispatched[t] > 0 =>
    /\ results[t].outcome.kind # "none"
    /\ \/ results[t].outcome.by = dispatched[t]
       \/ exiting /\ results[t].outcome = Cancelled /\ HasAttemptsLeft(t)
    /\ ~exiting /\ Failed(results[t].outcome) => dispatched[t] = MaxAttempts(t)

AttemptInv ==
  /\ \A t \in Tasks : dispatched[t] <= MaxAttempts(t)
  /\ FlightInv
  /\ UnstartedInv
  /\ EndedInv
  /\ \A t \in Tasks : results[t].outcome.kind = "pending" => pending

-----------------------------------------------------------------------------

LEMMA AttemptInit == Init => AttemptInv
<1> SUFFICES ASSUME Init PROVE AttemptInv
  OBVIOUS
<1> DEFINE run(t) == NewMemoryTaskRun(t, 1, 0, results, CopyVars(varsMap, t))
<1>1. /\ running = {} /\ reports = {} /\ backoffs = {} /\ rebuilding = {} /\ exiting = FALSE
      /\ results = ReconstructResults(NoPrior) /\ dependencies = InitialDependencies(NoPrior)
      /\ dispatched = [t \in Tasks |-> IF t \in Doable(NoPrior) THEN 1 ELSE 0]
      /\ taskCh = {run(t) : t \in Doable(NoPrior)}
  BY DEF Init, NewScheduler
<1>2. \A t \in Tasks : results[t] = NoEntry /\ ~Finished(NoPrior[t])
  BY <1>1 DEF ReconstructResults, NoPrior, Finished, Absent
<1>3. \A t : run(t).task = t /\ run(t).no = 1
  BY DEF NewMemoryTaskRun
<1> HIDE DEF run
<1>4. Doable(NoPrior) \in SUBSET Tasks /\ InFlight = Doable(NoPrior)
  BY <1>1, <1>3 DEF InFlight, TasksOf, Doable
<1>5. \A t \in Tasks : dispatched[t] <= MaxAttempts(t)
  <2>1. \A t \in Tasks : pipeline.retries[t] \in Nat
    BY PipelineFields DEF Init
  <2> QED
    BY <1>1, <2>1 DEF MaxAttempts
<1>6. FlightInv
  BY <1>1, <1>2, <1>3, <1>4 DEF FlightInv, NoEntry
<1>7. UnstartedInv
  BY <1>1, <1>2 DEF UnstartedInv, Doable
<1>8. EndedInv
  BY <1>1, <1>4 DEF EndedInv
<1> QED
  BY <1>2, <1>5, <1>6, <1>7, <1>8 DEF AttemptInv, NoEntry, Absent

-----------------------------------------------------------------------------
(* Steps of the goroutines: no result changes.                               *)

\* The number of a task run in flight, and its entry, are numbers.
LEMMA FlightNumbers ==
  ASSUME SchedulerInv, NEW t \in InFlight
  PROVE  /\ t \in Tasks /\ dispatched[t] \in Nat /\ dispatched[t] > 0
         /\ results[t].attempts \in Nat /\ pipeline.retries[t] \in Nat
BY FlightFinite, PipelineFields DEF SchedulerInv, TypeInv, SettledInputs, EntryType

\* A step that changes no entry and dispatches nothing keeps what AttemptInv says
\* of tasks; what it says of the tasks in flight is left to show.
LEMMA SameTables ==
  ASSUME AttemptInv, FlightInv', InFlight' = InFlight,
         UNCHANGED <<pipeline, dependencies, results, pending, exiting, dispatched>>
  PROVE  AttemptInv'
BY DEF AttemptInv, UnstartedInv, EndedInv, MaxAttempts, HasAttemptsLeft

LEMMA AttemptDispatch ==
  ASSUME SchedulerInv, AttemptInv, NEW r \in taskCh, DispatchTaskRun(r)
  PROVE  AttemptInv'
<1>1. FlightInv'
  BY DEF DispatchTaskRun, AttemptInv, FlightInv, HasAttemptsLeft, flags
<1> QED
  BY <1>1, DispatchIsQuiet, SameTables DEF SchedulerInv, DispatchTaskRun, QuietStep, counters, flags

LEMMA AttemptReport ==
  ASSUME SchedulerInv, AttemptInv, NEW r \in running, NEW kind, Report(r, kind)
  PROVE  AttemptInv'
<1>1. PICK rep : /\ rep.task = r.task /\ rep.outcome.by = r.no
                 /\ reports' = reports \cup {rep} /\ running' = running \ {r}
                 /\ UNCHANGED <<pipeline, results, exiting, dispatched, taskCh, backoffs, rebuilding>>
  BY DEF Report, flags
<1>2. FlightInv'
  BY <1>1 DEF AttemptInv, FlightInv, HasAttemptsLeft
<1> QED
  BY <1>2, ReportIsQuiet, SameTables DEF SchedulerInv, Report, QuietStep, counters, flags

LEMMA AttemptTimer ==
  ASSUME SchedulerInv, AttemptInv, NEW b \in backoffs, RetryTimerFires(b)
  PROVE  AttemptInv'
<1>1. FlightInv'
  BY DEF RetryTimerFires, AttemptInv, FlightInv, HasAttemptsLeft, flags
<1> QED
  BY <1>1, RetryTimerIsQuiet, SameTables DEF SchedulerInv, RetryTimerFires, QuietStep, counters, flags

LEMMA AttemptCancelled ==
  ASSUME SchedulerInv, AttemptInv, NEW b \in backoffs, RetryCancelled(b)
  PROVE  AttemptInv'
<1>1. PICK rep : /\ rep.task = b.task /\ rep.outcome = Cancelled
                 /\ reports' = reports \cup {rep} /\ backoffs' = backoffs \ {b} /\ exiting
                 /\ UNCHANGED <<pipeline, results, exiting, dispatched, taskCh, running, rebuilding>>
  BY DEF RetryCancelled, flags
<1>2. FlightInv'
  BY <1>1 DEF AttemptInv, FlightInv, HasAttemptsLeft
<1> QED
  BY <1>2, RetryCancelledIsQuiet, SameTables DEF SchedulerInv, RetryCancelled, QuietStep, counters, flags

\* The next attempt: the task has an attempt left.
LEMMA AttemptSends ==
  ASSUME SchedulerInv, AttemptInv, NEW b \in rebuilding, RetrySends(b)
  PROVE  AttemptInv'
<1>1. PICK r : /\ r.task = b.task /\ r.no = dispatched[b.task] + 1
               /\ taskCh' = taskCh \cup {r} /\ rebuilding' = rebuilding \ {b}
               /\ dispatched' = CountDispatch({b.task})
               /\ UNCHANGED <<pipeline, dependencies, results, pending, exiting, running, reports, backoffs>>
  BY DEF RetrySends, NewMemoryTaskRun, counters, flags
<1>2. b.task \in InFlight
  BY DEF InFlight, TasksOf
<1>3. HasAttemptsLeft(b.task)
  BY DEF AttemptInv, FlightInv
<1>4. \A t \in Tasks : dispatched'[t] = IF t = b.task THEN dispatched[t] + 1 ELSE dispatched[t]
  BY <1>1 DEF CountDispatch
<1>5. InFlight' = InFlight
  BY RetrySendsIsQuiet DEF SchedulerInv, QuietStep
<1>6. \A x \in taskCh \cup running \cup reports \cup backoffs : x.task # b.task /\ x.task \in Tasks
  <2>1. \A x \in taskCh \cup running \cup reports \cup backoffs : x.task # b.task
    BY DEF SchedulerInv, SingleInstance, Apart
  <2> QED
    BY <2>1, FlightFinite DEF SchedulerInv, InFlight, TasksOf
<1>7. \A c \in rebuilding' : c.task # b.task /\ c.task \in Tasks
  <2>1. \A c \in rebuilding' : c \in rebuilding /\ c.task # b.task
    BY <1>1 DEF SchedulerInv, SingleInstance, Distinct
  <2> QED
    BY <2>1, FlightFinite DEF SchedulerInv, InFlight, TasksOf
<1>12. /\ b.task \in Tasks /\ dispatched[b.task] \in Nat /\ dispatched[b.task] > 0
       /\ results[b.task].attempts = dispatched[b.task]
       /\ dispatched[b.task] < pipeline.retries[b.task] /\ pipeline.retries[b.task] \in Nat
  BY <1>2, <1>3, FlightNumbers DEF HasAttemptsLeft
<1>13. \A t \in Tasks \ {b.task} : HasAttemptsLeft(t) => HasAttemptsLeft(t)'
  BY <1>1, <1>4 DEF HasAttemptsLeft
<1>8. FlightInv'
  <2>1. \A x \in taskCh' \cup running' : x.no = dispatched'[x.task]
    BY <1>1, <1>2, <1>4, <1>6, FlightNumbers DEF AttemptInv, FlightInv
  <2>2. \A rep \in reports' :
          \/ rep.outcome.by = dispatched'[rep.task]
          \/ exiting' /\ rep.outcome = Cancelled /\ HasAttemptsLeft(rep.task)'
    BY <1>1, <1>4, <1>6, <1>13 DEF AttemptInv, FlightInv
  <2>3. \A c \in backoffs' \cup rebuilding' : HasAttemptsLeft(c.task)'
    BY <1>1, <1>6, <1>7, <1>13 DEF AttemptInv, FlightInv
  <2>4. ASSUME ~exiting', NEW x \in taskCh' \cup running' \cup reports'
        PROVE  results'[x.task].attempts = dispatched'[x.task] - 1
    <3>1. CASE x = r
      <4>1. dispatched'[b.task] = dispatched[b.task] + 1
        BY <1>4, <1>12
      <4>2. x.task = b.task /\ results' = results
        BY <1>1, <3>1
      <4> QED
        BY <1>12, <4>1, <4>2
    <3>2. CASE x \in taskCh \cup running \cup reports
      BY <1>1, <1>4, <1>6, <2>4, <3>2 DEF AttemptInv, FlightInv
    <3> QED
      BY <1>1, <3>1, <3>2
  <2> QED
    BY <2>1, <2>2, <2>3, <2>4 DEF FlightInv
<1>9. ASSUME NEW t \in Tasks PROVE dispatched'[t] <= MaxAttempts(t)'
  <2>1. MaxAttempts(t)' = MaxAttempts(t)
    BY <1>1 DEF MaxAttempts
  <2>2. CASE t # b.task
    BY <1>4, <2>1, <2>2 DEF AttemptInv
  <2>3. CASE t = b.task
    BY <1>4, <1>12, <2>1, <2>3 DEF MaxAttempts
  <2> QED
    BY <2>2, <2>3
<1>10. UnstartedInv'
  <2>1. \A t \in Tasks : dispatched'[t] = 0 => dispatched[t] = 0
    BY <1>4, <1>12
  <2> QED
    BY <1>1, <2>1 DEF AttemptInv, UnstartedInv
<1>11. EndedInv'
  BY <1>1, <1>2, <1>4, <1>5 DEF AttemptInv, EndedInv, MaxAttempts, HasAttemptsLeft
<1> QED
  BY <1>1, <1>8, <1>9, <1>10, <1>11 DEF AttemptInv

-----------------------------------------------------------------------------
(* Steps of the scheduler: a report is received.                             *)

\* What every receipt does, and what it leaves as it was.
LEMMA AfterReceive ==
  ASSUME SchedulerInv, NEW rep \in reports
  PROVE  /\ rep.task \in Tasks /\ rep.outcome # Absent /\ rep.outcome.kind # "none" /\ rep.task \in InFlight
         /\ \A x \in taskCh \cup running \cup backoffs \cup rebuilding \cup (reports \ {rep}) :
              x.task \in Tasks /\ x.task # rep.task /\ x.task \in InFlight
         /\ \A t \in Tasks \ {rep.task} : Recorded(rep)[t] = results[t]
         /\ Recorded(rep)[rep.task].outcome = rep.outcome /\ Recorded(rep)[rep.task].attempts = Attempts(rep.task)
<1>1. rep.task \in Tasks /\ rep.outcome # Absent /\ rep.outcome.kind # "none"
  BY DEF SchedulerInv, TypeInv, ReportType, Absent
<1>2. \A x \in taskCh \cup running \cup backoffs \cup rebuilding \cup reports : x.task \in InFlight
  BY DEF InFlight, TasksOf
<1>3. \A x \in taskCh \cup running \cup backoffs \cup rebuilding \cup (reports \ {rep}) : x.task # rep.task
  BY DEF SchedulerInv, SingleInstance, Apart, Distinct
<1>4. \A t \in Tasks \ {rep.task} : Recorded(rep)[t] = results[t]
  BY DEF Recorded, SchedulerInv, TypeInv
<1>5. Recorded(rep)[rep.task].outcome = rep.outcome /\ Recorded(rep)[rep.task].attempts = Attempts(rep.task)
  BY <1>1 DEF Recorded, SchedulerInv, TypeInv
<1> QED
  BY <1>1, <1>2, <1>3, <1>4, <1>5, FlightFinite DEF SchedulerInv

LEMMA OldPending ==
  ASSUME SchedulerInv, AttemptInv, NEW rep \in reports, rep.outcome.kind # "pending",
         NEW t \in Tasks, Recorded(rep)[t].outcome.kind = "pending"
  PROVE  pending
<1>1. t # rep.task
  BY AfterReceive
<1>2. Recorded(rep)[t] = results[t]
  BY <1>1, AfterReceive
<1> QED
  BY <1>2 DEF AttemptInv

\* Receipts that dispatch nothing, after which the task is over: what is in flight
\* besides loses at most entries that were absent.
LEMMA AttemptEnds ==
  ASSUME SchedulerInv, AttemptInv, NEW rep \in reports,
         reports' = reports \ {rep}, UNCHANGED <<pipeline, dispatched, taskCh, running, backoffs, rebuilding>>,
         exiting => exiting',
         ~exiting' => UNCHANGED dependencies,
         \A t \in Tasks : \/ results'[t] = Recorded(rep)[t]
                          \/ exiting' /\ results[t].outcome = Absent /\ t # rep.task /\ results'[t].outcome = Cancelled,
         exiting' /\ ~exiting => \A t \in Tasks : results'[t].outcome # Absent,
         ~exiting' => ~Failed(rep.outcome),
         \A t \in Tasks : results'[t].outcome.kind = "pending" => pending'
  PROVE  AttemptInv'
<1>1. InFlight' = InFlight \ {rep.task}
  BY FlightAfterReceive DEF SchedulerInv
<1>2. \A t \in Tasks : HasAttemptsLeft(t) /\ t # rep.task => HasAttemptsLeft(t)'
  BY AfterReceive DEF HasAttemptsLeft
<1>3. \A t \in Tasks : MaxAttempts(t)' = MaxAttempts(t)
  BY DEF MaxAttempts
<1>4. results'[rep.task].outcome = rep.outcome /\ results'[rep.task].attempts = Attempts(rep.task)
  BY AfterReceive
<1>5. FlightInv'
  <2>1. \A x \in reports' :
          \/ x.outcome.by = dispatched'[x.task]
          \/ exiting' /\ x.outcome = Cancelled /\ HasAttemptsLeft(x.task)'
    BY <1>2, AfterReceive DEF AttemptInv, FlightInv
  <2>2. \A b \in backoffs' \cup rebuilding' : HasAttemptsLeft(b.task)'
    BY <1>2, AfterReceive DEF AttemptInv, FlightInv
  <2>3. ASSUME ~exiting', NEW x \in taskCh' \cup running' \cup reports'
        PROVE  results'[x.task].attempts = dispatched'[x.task] - 1
    <3>1. x \in taskCh \cup running \cup (reports \ {rep}) /\ ~exiting
      BY <2>3
    <3>2. x.task \in Tasks \ {rep.task}
      BY <3>1, AfterReceive
    <3>3. results'[x.task] = results[x.task]
      BY <2>3, <3>2, AfterReceive
    <3> QED
      BY <3>1, <3>3 DEF AttemptInv, FlightInv
  <2> QED
    BY <2>1, <2>2, <2>3 DEF AttemptInv, FlightInv
<1>6. UnstartedInv'
  <2> SUFFICES ASSUME NEW t \in Tasks, dispatched[t] = 0
               PROVE  IF exiting' THEN results'[t].outcome = Cancelled
                      ELSE results'[t] = NoEntry /\ dependencies'[t] # 0
    BY DEF UnstartedInv
  <2>5. dispatched[rep.task] > 0
    BY AfterReceive, FlightNumbers
  <2>1. t # rep.task /\ Recorded(rep)[t] = results[t]
    BY <2>5, AfterReceive
  <2>2. CASE exiting
    BY <2>1, <2>2 DEF AttemptInv, UnstartedInv, Absent, Cancelled
  <2>3. CASE ~exiting /\ exiting'
    BY <2>1, <2>3 DEF AttemptInv, UnstartedInv, NoEntry
  <2>4. CASE ~exiting'
    BY <2>1, <2>4 DEF AttemptInv, UnstartedInv
  <2> QED
    BY <2>2, <2>3, <2>4
<1>7. EndedInv'
  <2> SUFFICES ASSUME NEW t \in Tasks, t \notin InFlight', dispatched[t] > 0
               PROVE  /\ results'[t].outcome.kind # "none"
                      /\ \/ results'[t].outcome.by = dispatched[t]
                         \/ exiting' /\ results'[t].outcome = Cancelled /\ HasAttemptsLeft(t)'
                      /\ ~exiting' /\ Failed(results'[t].outcome) => dispatched[t] = MaxAttempts(t)
    BY <1>3 DEF EndedInv
  <2>1. CASE t # rep.task
    <3>1. t \notin InFlight
      BY <1>1, <2>1
    <3>2. results'[t] = results[t]
      BY <2>1, <3>1, AfterReceive DEF AttemptInv, EndedInv, Absent
    <3> QED
      BY <1>2, <2>1, <3>1, <3>2 DEF AttemptInv, EndedInv
  <2>2. CASE t = rep.task
    <3>1. results'[t].outcome = rep.outcome
      BY <1>4, <2>2
    <3>2. exiting /\ HasAttemptsLeft(t) => HasAttemptsLeft(t)'
      BY <1>4, <2>2, AfterReceive DEF HasAttemptsLeft, Attempts
    <3> QED
      BY <2>2, <3>1, <3>2, AfterReceive DEF AttemptInv, FlightInv
  <2> QED
    BY <2>1, <2>2
<1> QED
  BY <1>3, <1>5, <1>6, <1>7 DEF AttemptInv

LEMMA AttemptPending ==
  ASSUME SchedulerInv, AttemptInv, NEW rep \in reports, ReceivePending(rep)
  PROVE  AttemptInv'
<1>1. ~Failed(rep.outcome) /\ pending'
  BY DEF ReceivePending, Failed
<1> QED
  BY <1>1, AttemptEnds DEF ReceivePending, Receive

LEMMA AttemptExiting ==
  ASSUME SchedulerInv, AttemptInv, NEW rep \in reports, ReceiveExiting(rep)
  PROVE  AttemptInv'
<1>1. /\ reports' = reports \ {rep} /\ exiting' /\ rep.outcome.kind # "pending"
      /\ UNCHANGED <<pipeline, dispatched, taskCh, running, backoffs, rebuilding, pending>>
      /\ results' = IF FailsEarly(rep) THEN MarkRemaining(Recorded(rep)) ELSE Recorded(rep)
      /\ ~exiting => FailsEarly(rep)
  BY DEF ReceiveExiting, Receive
<1>2. \A t \in Tasks : \/ results'[t] = Recorded(rep)[t]
                       \/ results[t].outcome = Absent /\ t # rep.task /\ results'[t].outcome = Cancelled
  <2>1. ASSUME NEW t \in Tasks, Recorded(rep)[t].outcome = Absent
        PROVE  results[t].outcome = Absent /\ t # rep.task
    <3>1. t # rep.task
      BY <2>1, AfterReceive
    <3> QED
      BY <2>1, <3>1, AfterReceive
  <2>2. ASSUME NEW t \in Tasks
        PROVE  \/ results'[t] = Recorded(rep)[t]
               \/ Recorded(rep)[t].outcome = Absent /\ results'[t].outcome = Cancelled
    BY <1>1 DEF MarkRemaining
  <2> QED
    BY <2>1, <2>2
<1>3. ~exiting => \A t \in Tasks : results'[t].outcome # Absent
  BY <1>1 DEF MarkRemaining, Absent, Cancelled
<1>4. \A t \in Tasks : results'[t].outcome.kind = "pending" => pending'
  <2>1. \A t \in Tasks : Recorded(rep)[t].outcome.kind = "pending" => pending
    BY <1>1, OldPending
  <2> QED
    BY <1>1, <1>2, <2>1 DEF Cancelled
<1> QED
  BY <1>1, <1>2, <1>3, <1>4, AttemptEnds

LEMMA AttemptForRetry ==
  ASSUME SchedulerInv, AttemptInv, NEW rep \in reports, ReceiveForRetry(rep)
  PROVE  AttemptInv'
<1>1. PICK b : /\ b.task = rep.task /\ backoffs' = backoffs \cup {b} /\ reports' = reports \ {rep}
               /\ UNCHANGED <<pipeline, dependencies, pending, exiting, dispatched, taskCh, running, rebuilding>>
               /\ results' = Recorded(rep) /\ ~exiting /\ WantsRetry(rep)
               /\ rep.outcome.kind # "pending"
  BY DEF ReceiveForRetry, Receive, counters, flags
<1>2. InFlight' = InFlight
  BY ForRetryIsQuiet DEF SchedulerInv, QuietStep
<1>3. \A t \in Tasks \ {rep.task} : results'[t] = results[t]
  BY <1>1, AfterReceive
<1>4. HasAttemptsLeft(rep.task)'
  <2>1. results[rep.task].attempts = dispatched[rep.task] - 1
    BY <1>1 DEF AttemptInv, FlightInv
  <2>2. results'[rep.task].outcome = rep.outcome /\ results'[rep.task].attempts = Attempts(rep.task)
    BY <1>1, AfterReceive
  <2>3. Attempts(rep.task) = dispatched[rep.task]
    BY <1>1, <2>1, AfterReceive, FlightNumbers DEF Attempts
  <2> QED
    BY <1>1, <2>2, <2>3, AfterReceive DEF HasAttemptsLeft, WantsRetry
<1>5. \A t \in Tasks \ {rep.task} : HasAttemptsLeft(t) => HasAttemptsLeft(t)'
  BY <1>1, <1>3 DEF HasAttemptsLeft
<1>6. FlightInv'
  <2>1. \A x \in reports' : x.outcome.by = dispatched'[x.task]
    BY <1>1 DEF AttemptInv, FlightInv
  <2>2. \A c \in backoffs' \cup rebuilding' : HasAttemptsLeft(c.task)'
    BY <1>1, <1>4, <1>5, AfterReceive DEF AttemptInv, FlightInv
  <2>3. ASSUME NEW x \in taskCh' \cup running' \cup reports'
        PROVE  results'[x.task].attempts = dispatched'[x.task] - 1
    <3>1. x \in taskCh \cup running \cup (reports \ {rep})
      BY <1>1
    <3> QED
      BY <1>1, <1>3, <3>1, AfterReceive DEF AttemptInv, FlightInv
  <2> QED
    BY <1>1, <2>1, <2>2, <2>3 DEF AttemptInv, FlightInv
<1>7. UnstartedInv'
  <2>1. dispatched[rep.task] > 0
    BY AfterReceive, FlightNumbers
  <2> QED
    BY <1>1, <1>3, <2>1, AfterReceive DEF AttemptInv, UnstartedInv
<1>8. EndedInv'
  BY <1>1, <1>2, <1>3, <1>5, AfterReceive DEF AttemptInv, EndedInv, MaxAttempts
<1>9. \A t \in Tasks : results'[t].outcome.kind = "pending" => pending'
  BY <1>1, OldPending
<1> QED
  BY <1>1, <1>6, <1>7, <1>8, <1>9 DEF AttemptInv, MaxAttempts

LEMMA AttemptFinal ==
  ASSUME SchedulerInv, AttemptInv, NEW rep \in reports, ReceiveFinal(rep)
  PROVE  AttemptInv'
<1> DEFINE Ready == NewlyReady(rep.task)
<1>1. PICK New : /\ TasksOf(New) = Ready /\ \A r \in New : r.no = dispatched[r.task] + 1
                 /\ taskCh' = taskCh \cup New /\ reports' = reports \ {rep}
  <2>1. \A r \in FirstRuns(Ready, Recorded(rep), VarSet(rep)) : r.no = dispatched[r.task] + 1
    BY DEF FirstRuns, NewMemoryTaskRun
  <2> QED
    BY <2>1, FirstRunsTasks DEF ReceiveFinal, Receive
<1>2. /\ UNCHANGED <<pipeline, pending, exiting, running, backoffs, rebuilding>>
      /\ results' = Recorded(rep) /\ ~exiting /\ ~WantsRetry(rep) /\ rep.outcome.kind # "pending"
      /\ dependencies' = Decremented(rep.task) /\ dispatched' = CountDispatch(Ready)
  BY DEF ReceiveFinal, flags
<1>3. /\ \A u \in Ready : u \in Tasks /\ u \notin InFlight /\ dispatched[u] = 0
      /\ \A r \in New : r.task \in Ready
  BY <1>1, <1>2, NewlyReadyFresh DEF SchedulerInv, TasksOf
<1>4. \A t \in Tasks : dispatched'[t] = IF t \in Ready THEN dispatched[t] + 1 ELSE dispatched[t]
  BY <1>2 DEF CountDispatch
<1>5. \A t \in Tasks \ {rep.task} : results'[t] = results[t]
  BY <1>2, AfterReceive
<1> HIDE DEF Ready
<1>6. \A x \in taskCh \cup running \cup backoffs \cup rebuilding \cup (reports \ {rep}) :
        /\ x.task \in Tasks /\ results'[x.task] = results[x.task]
        /\ dispatched'[x.task] = dispatched[x.task]
  BY <1>3, <1>4, <1>5, AfterReceive
<1>7. \A r \in New : /\ r.no = dispatched'[r.task] /\ dispatched'[r.task] = 1
                     /\ results'[r.task].attempts = 0
  <2>1. \A u \in Ready : u # rep.task /\ results[u] = NoEntry /\ dispatched'[u] = 1
    BY <1>2, <1>3, <1>4, AfterReceive DEF AttemptInv, UnstartedInv
  <2>2. \A u \in Ready : results'[u].attempts = 0
    BY <1>3, <1>5, <2>1 DEF NoEntry
  <2> QED
    BY <1>1, <1>3, <2>1, <2>2
<1>8. FlightInv'
  <2>1. \A r \in taskCh' \cup running' : r.no = dispatched'[r.task]
    BY <1>1, <1>2, <1>6, <1>7 DEF AttemptInv, FlightInv
  <2>2. \A x \in reports' : x.outcome.by = dispatched'[x.task]
    BY <1>1, <1>2, <1>6 DEF AttemptInv, FlightInv
  <2>3. \A c \in backoffs' \cup rebuilding' : HasAttemptsLeft(c.task)'
    BY <1>2, <1>6 DEF AttemptInv, FlightInv, HasAttemptsLeft
  <2>4. ASSUME NEW x \in taskCh' \cup running' \cup reports'
        PROVE  results'[x.task].attempts = dispatched'[x.task] - 1
    <3>1. CASE x \in New
      BY <1>7, <3>1
    <3>2. CASE x \in taskCh \cup running \cup (reports \ {rep})
      BY <1>2, <1>6, <3>2 DEF AttemptInv, FlightInv
    <3> QED
      BY <1>1, <1>2, <3>1, <3>2
  <2> QED
    BY <2>1, <2>2, <2>3, <2>4 DEF FlightInv
<1>9. UnstartedInv'
  <2> SUFFICES ASSUME NEW t \in Tasks, dispatched'[t] = 0
               PROVE  results'[t] = NoEntry /\ dependencies'[t] # 0
    BY <1>2 DEF UnstartedInv
  <2>1. dispatched[t] = 0 /\ t \notin Ready /\ t # rep.task
    BY <1>3, <1>4, AfterReceive, FlightNumbers
  <2>2. results[t] = NoEntry /\ dependencies[t] # 0
    BY <1>2, <2>1 DEF AttemptInv, UnstartedInv
  <2>3. dependencies'[t] # 0
    BY <1>2, <2>1, <2>2 DEF Ready, NewlyReady, Decremented, Outputs
  <2> QED
    BY <1>5, <2>1, <2>2, <2>3
<1>10. ASSUME NEW t \in Tasks PROVE dispatched'[t] <= MaxAttempts(t)'
  <2>1. MaxAttempts(t)' = MaxAttempts(t) /\ MaxAttempts(t) >= 1
    <3>1. pipeline.retries[t] \in Nat
      BY PipelineFields DEF SchedulerInv, TypeInv
    <3> QED
      BY <1>2, <3>1 DEF MaxAttempts
  <2> QED
    BY <1>3, <1>4, <2>1 DEF AttemptInv
<1>11. EndedInv'
  <2> SUFFICES ASSUME NEW t \in Tasks, t \notin InFlight', dispatched'[t] > 0
               PROVE  /\ results'[t].outcome.kind # "none" /\ results'[t].outcome.by = dispatched'[t]
                      /\ Failed(results'[t].outcome) => dispatched'[t] = MaxAttempts(t)
    BY <1>2 DEF EndedInv, MaxAttempts
  <2>1. t \notin Ready /\ (t # rep.task => t \notin InFlight) /\ dispatched'[t] = dispatched[t]
    BY <1>4, FlightAfterFinal DEF SchedulerInv, Ready
  <2>2. CASE t # rep.task
    BY <1>2, <1>5, <2>1, <2>2 DEF AttemptInv, EndedInv
  <2>3. CASE t = rep.task
    <3>4. results'[t].outcome = rep.outcome /\ rep.outcome.kind # "none"
      BY <1>2, <2>3, AfterReceive
    <3>1. results'[t].outcome = rep.outcome /\ rep.outcome.kind # "none" /\ rep.outcome.by = dispatched[t]
      BY <1>2, <2>3, <3>4 DEF AttemptInv, FlightInv
    <3>2. /\ Attempts(t) = dispatched[t] /\ dispatched[t] \in Nat /\ dispatched[t] > 0
          /\ pipeline.retries[t] \in Nat /\ dispatched[t] <= MaxAttempts(t)
      BY <1>2, <2>3, AfterReceive, FlightNumbers DEF AttemptInv, FlightInv, Attempts
    <3>3. Failed(rep.outcome) => dispatched[t] = MaxAttempts(t)
      BY <1>2, <2>3, <3>2 DEF WantsRetry, MaxAttempts
    <3> QED
      BY <2>1, <3>1, <3>3
  <2> QED
    BY <2>2, <2>3
<1>12. \A t \in Tasks : results'[t].outcome.kind = "pending" => pending'
  BY <1>2, OldPending
<1> QED
  BY <1>8, <1>9, <1>10, <1>11, <1>12 DEF AttemptInv

LEMMA AttemptStep == SchedulerInv /\ AttemptInv /\ [Next]_vars => AttemptInv'
<1> SUFFICES ASSUME SchedulerInv, AttemptInv, [Next]_vars PROVE AttemptInv'
  OBVIOUS
<1>1. ASSUME UNCHANGED <<pipeline, dependencies, results, pending, exiting, dispatched,
                         taskCh, running, reports, backoffs, rebuilding>>
      PROVE  AttemptInv'
  <2>1. FlightInv'
    BY <1>1 DEF AttemptInv, FlightInv, HasAttemptsLeft
  <2>2. InFlight' = InFlight
    BY <1>1 DEF InFlight
  <2> QED
    BY <1>1, <2>1, <2>2, SameTables
<1>2. CASE CloseTaskCh \/ (\E b \in rebuilding : MapRace(b)) \/ UNCHANGED vars
  BY <1>1, <1>2 DEF CloseTaskCh, MapRace, vars, counters, flags
<1> QED
  BY <1>2, AttemptDispatch, AttemptReport, AttemptTimer, AttemptCancelled, AttemptSends,
     AttemptPending, AttemptExiting, AttemptForRetry, AttemptFinal
  DEF Next, Step, Terminated, SchedulerStep, ReceiveResult, DispatchStep, TaskStep,
      TaskReturns, TaskPanics, RetryStep, RaceStep

LEMMA AttemptInvariance == Spec => [](SchedulerInv /\ AttemptInv)
<1>1. Init => AttemptInv
  BY AttemptInit
<1>2. SchedulerInv /\ AttemptInv /\ [Next]_vars => AttemptInv'
  BY AttemptStep
<1> QED
  BY <1>1, <1>2, Invariance, PTL DEF Spec

-----------------------------------------------------------------------------
(* The results *)

\* No task runs more often than its retries allow, whatever a fail-early and the
\* cancelling of the retries interleave with; without a fail-early a task that
\* failed had all its attempts (scheduler.go:225).
THEOREM RetriesAreKept == Spec => []RetryBudget
<1>1. SchedulerInv /\ AttemptInv => RetryBudget
  <2> SUFFICES ASSUME SchedulerInv, AttemptInv, NEW t \in Tasks
               PROVE  /\ dispatched[t] <= MaxAttempts(t)
                      /\ closed /\ ~exiting /\ Failed(results[t].outcome) => dispatched[t] = MaxAttempts(t)
    BY DEF RetryBudget
  <2>1. closed => t \notin InFlight
    BY DEF SchedulerInv, NoStrayGoroutines
  <2>2. ~exiting /\ Failed(results[t].outcome) => dispatched[t] > 0
    BY DEF SchedulerInv, TypeInv, AttemptInv, UnstartedInv, Failed, NoEntry, Absent
  <2> QED
    BY <2>1, <2>2 DEF AttemptInv, EndedInv
<1> QED
  BY <1>1, AttemptInvariance, PTL

\* The result a run ends with is that of the last attempt, also where a
\* fail-early marked the task before the attempt reported.
THEOREM LastAttemptCounts == Spec => []LastAttemptWins
<1>1. SchedulerInv /\ AttemptInv => LastAttemptWins
  <2> SUFFICES ASSUME SchedulerInv, AttemptInv, closed, NEW t \in Tasks, dispatched[t] > 0
               PROVE  \/ results[t].outcome.by = dispatched[t]
                      \/ /\ exiting /\ results[t].outcome = Cancelled
                         /\ results[t].attempts = dispatched[t] /\ dispatched[t] < MaxAttempts(t)
    BY DEF LastAttemptWins
  <2>1. t \notin InFlight
    BY DEF SchedulerInv, NoStrayGoroutines
  <2>2. dispatched[t] \in Nat /\ pipeline.retries[t] \in Nat
    BY PipelineFields DEF SchedulerInv, TypeInv
  <2>3. HasAttemptsLeft(t) => results[t].attempts = dispatched[t] /\ dispatched[t] < MaxAttempts(t)
    BY <2>2 DEF HasAttemptsLeft, MaxAttempts
  <2> QED
    BY <2>1, <2>3 DEF AttemptInv, EndedInv
<1> QED
  BY <1>1, AttemptInvariance, PTL

\* Every set of tasks has a first one.
LEMMA FirstTask ==
  ASSUME NEW T \in SUBSET Nat, T # {}
  PROVE  \E m \in T : \A n \in T : m <= n
<1> DEFINE R == OpToRel(<, Nat)
<1>1. IsWellFoundedOn(R, Nat)
  BY NatLessThanWellFounded
<1>2. \A m, n \in Nat : <<m, n>> \in R <=> m < n
  BY DEF OpToRel
<1> HIDE DEF R
<1>3. PICK m \in T : \A n \in T : ~ <<n, m>> \in R
  BY <1>1, WFMin
<1>4. \A n \in T : ~ n < m
  BY <1>2, <1>3
<1> QED
  BY <1>3, <1>4

\* A task that was not dispatched in a run that is over and did not exit waits
\* for an input; the first task that has not finished waits for none, so it is
\* suspended.
LEMMA WaitsForSuspended ==
  ASSUME SchedulerInv, AttemptInv, closed, ~exiting, NEW t \in Tasks, dispatched[t] = 0
  PROVE  pending /\ \E i \in Inputs(t) : ~Finished(results[i].outcome)
<1>1. \A u \in Tasks : Unsettled(u) <=> ~Finished(results[u].outcome)
  BY DEF SchedulerInv, NoStrayGoroutines, Unsettled
<1>2. \A u \in Tasks : Inputs(u) \subseteq Tasks /\ \A i \in Inputs(u) : i < u
  BY SchedulerAssumption DEF SchedulerInv, TypeInv, Inputs, IsPipeline, IsPipelineOver
<1>3. ASSUME NEW u \in Tasks, dispatched[u] = 0
      PROVE  \E i \in Inputs(u) : ~Finished(results[i].outcome)
  <2> DEFINE U == {i \in Inputs(u) : Unsettled(i)}
  <2>1. Cardinality(U) # 0
    BY <1>3 DEF SchedulerInv, DependencyCount, AttemptInv, UnstartedInv
  <2>2. U # {}
    BY <2>1, FS_EmptySet
  <2> QED
    BY <1>1, <1>2, <2>2
<1> DEFINE T == {u \in Tasks : ~Finished(results[u].outcome)}
<1>4. T # {} /\ T \in SUBSET Nat
  BY <1>2, <1>3, SchedulerAssumption
<1>5. PICK m \in T : \A n \in T : m <= n
  BY <1>4, FirstTask
<1>6. dispatched[m] # 0
  <2> SUFFICES ASSUME dispatched[m] = 0 PROVE FALSE
    OBVIOUS
  <2>1. PICK i \in Inputs(m) : ~Finished(results[i].outcome)
    BY <1>3
  <2>2. i \in T /\ i < m /\ i \in Nat /\ m \in Nat
    BY <1>2, <1>4, <2>1
  <2> QED
    BY <1>5, <2>2
<1>7. results[m].outcome.kind # "none"
  <2>1. m \notin InFlight /\ dispatched[m] > 0
    BY <1>6 DEF SchedulerInv, NoStrayGoroutines, TypeInv
  <2> QED
    BY <2>1 DEF AttemptInv, EndedInv
<1>8. results[m].outcome.kind = "pending"
  BY <1>7 DEF Finished
<1> QED
  BY <1>3, <1>8 DEF AttemptInv

\* When a run ends every task is accounted for: it ran, or a fail-early cancelled
\* it, or it waits for a suspended task.
THEOREM AllAccountedFor == Spec => []NothingForgotten
<1>1. SchedulerInv /\ AttemptInv => NothingForgotten
  <2> SUFFICES ASSUME SchedulerInv, AttemptInv, closed, NEW t \in Tasks
               PROVE  \/ dispatched[t] > 0 /\ results[t].outcome # Absent
                      \/ dispatched[t] = 0 /\ exiting /\ results[t].outcome = Cancelled
                      \/ /\ dispatched[t] = 0 /\ ~exiting /\ pending /\ results[t].outcome = Absent
                         /\ \E i \in Inputs(t) : ~Finished(results[i].outcome)
    BY DEF NothingForgotten
  <2>1. t \notin InFlight /\ dispatched[t] \in Nat
    BY DEF SchedulerInv, NoStrayGoroutines, TypeInv
  <2>2. CASE dispatched[t] > 0
    BY <2>1, <2>2 DEF AttemptInv, EndedInv, Absent
  <2>3. CASE dispatched[t] = 0 /\ exiting
    BY <2>3 DEF AttemptInv, UnstartedInv
  <2>4. CASE dispatched[t] = 0 /\ ~exiting
    BY <2>4, WaitsForSuspended DEF AttemptInv, UnstartedInv, NoEntry
  <2> QED
    BY <2>1, <2>2, <2>3, <2>4
<1> QED
  BY <1>1, AttemptInvariance, PTL
=============================================================================

-------------------------- MODULE PipelineRun_proofs --------------------------
(****************************************************************************)
(* Runs as their callers see them, for every pipeline and however often a   *)
(* suspended run is resumed.                                                *)
(****************************************************************************)
EXTENDS PipelineRun, Scheduler_proofs

(* A resumption starts the scheduler from the task runs of the record, and what  *)
(* holds of the scheduler in a new run need not hold in a resumed one.  Three    *)
(* invariants tell the cases apart: CallInv holds in every call of every         *)
(* pipeline; that of a new run holds in the first call; and that of Scheduler,   *)
(* with the data the task runs are given, in every call of a pipeline in which   *)
(* no task fails early.  With a fail-early a resumption runs cancelled tasks     *)
(* again, and the dependency counters are no longer exact: they only never say   *)
(* that more inputs are unsettled than there are.                                *)

CallInv ==
  /\ TypeInv /\ SingleInstance /\ WaitingCountsInFlight /\ NoStrayGoroutines
  /\ \A t \in Tasks : t \in InFlight => dispatched[t] > 0
  /\ ~exiting => \A t \in Tasks :
       /\ dispatched[t] > 0 => dependencies[t] <= 0
       /\ dispatched[t] = 0 /\ ~Finished(results[t].outcome) => dependencies[t] > 0
       /\ dependencies[t] <= Cardinality({i \in Inputs(t) : Unsettled(i)})
  /\ \A t \in Tasks :
       /\ (t \notin InFlight /\ dispatched[t] > 0) \/ exiting => results[t].outcome # Absent
       /\ results[t].outcome.kind = "none" => results[t].outcome = Absent
       /\ results[t].outcome.kind = "pending" => pending

\* A run exits exactly when a fail-early task has failed, and no output of it was started.
ExitInv ==
  /\ ~exiting => \A t \in pipeline.failEarly : ~Failed(results[t].outcome)
  /\ exiting => \E f \in pipeline.failEarly : /\ ~Unsettled(f) /\ Failed(results[f].outcome)
                                              /\ \A o \in Outputs(f) : dispatched[o] = 0
  /\ \A t \in Tasks : dispatched[t] > 0 => \A i \in Inputs(t) : dispatched[i] > 0

FirstCallInv == calls = 1 => SchedulerInv /\ AttemptInv /\ ExitInv
PlainInv == pipeline.failEarly = {} => SchedulerInv /\ DataInv /\ ~exiting

\* The record is that of the scheduler that has stopped, unless there is none yet.
RecordMatches ==
  /\ run.taskRuns = [t \in Tasks |-> TaskRunOf(results[t].outcome)]
  /\ run.state = StateAfter /\ run.pending = pending /\ run.failSilently = exiting
  /\ closed
AsBefore == IF calls = 1 THEN run = NewRun ELSE run.pending

RecordInv ==
  /\ run \in RunRecords /\ phase \in Phases /\ calls \in Nat \ {0}
  /\ \A t \in Tasks : run.taskRuns[t].kind \in {"none", "value", "error", "pending"}
  /\ AsBefore \/ (phase = "returned" /\ RecordMatches)
  /\ phase # "executing" => /\ ~crashed /\ running = {} /\ reports = {} /\ backoffs = {} /\ rebuilding = {}

\* What is finished in the record has settled in the scheduler, with that result.
KeptInv ==
  pipeline.failEarly = {} =>
    /\ \A t \in Tasks : run.taskRuns[t].kind # "none" => \A i \in Inputs(t) : Finished(run.taskRuns[i])
    /\ \A t \in Tasks : Finished(run.taskRuns[t]) =>
         ~Unsettled(t) /\ TaskRunOf(results[t].outcome) = run.taskRuns[t]

-----------------------------------------------------------------------------
(* The scheduler keeps CallInv.                                              *)

LEMMA CallInputs ==
  ASSUME TypeInv
  PROVE  \A t \in Tasks : Inputs(t) \in SUBSET Tasks
BY PipelineFields DEF Inputs, TypeInv

\* A step after which the same tasks are in flight and none is dispatched that was not.
LEMMA CallQuiet ==
  ASSUME CallInv, QuietStep, TypeInv', pending' = pending,
         \A t \in Tasks : \/ results'[t] = results[t]
                          \/ results'[t].outcome # Absent /\ results'[t].outcome.kind \notin {"none", "pending"}
  PROVE  CallInv'
<1> USE DEF CallInv, QuietStep
<1>1. \A t \in Tasks : Unsettled(t)' <=> Unsettled(t)
  BY DEF Unsettled
<1>2. \A t \in Tasks : Inputs(t)' = Inputs(t) /\ Inputs(t) \in SUBSET Tasks
  BY CallInputs DEF Inputs
<1>3. WaitingCountsInFlight' /\ NoStrayGoroutines'
  BY DEF WaitingCountsInFlight, NoStrayGoroutines, counters
<1>4. ASSUME NEW t \in Tasks
      PROVE  {i \in Inputs(t)' : Unsettled(i)'} = {i \in Inputs(t) : Unsettled(i)}
  BY <1>1, <1>2
<1>5. \A t \in Tasks : t \in InFlight' => dispatched'[t] > 0
  OBVIOUS
<1>6. ASSUME ~exiting', NEW t \in Tasks
      PROVE  /\ dispatched'[t] > 0 => dependencies'[t] <= 0
             /\ dispatched'[t] = 0 /\ ~Finished(results'[t].outcome) => dependencies'[t] > 0
             /\ dependencies'[t] <= Cardinality({i \in Inputs(t)' : Unsettled(i)'})
  BY <1>4, <1>6 DEF counters
<1>7. ASSUME NEW t \in Tasks
      PROVE  /\ (t \notin InFlight' /\ dispatched'[t] > 0) \/ exiting' => results'[t].outcome # Absent
             /\ results'[t].outcome.kind = "none" => results'[t].outcome = Absent
             /\ results'[t].outcome.kind = "pending" => pending'
  BY <1>7
<1> QED BY <1>3, <1>5, <1>6, <1>7

LEMMA CallPending ==
  ASSUME CallInv, NEW rep \in reports, ReceivePending(rep), TypeInv'
  PROVE  CallInv'
<1> USE DEF CallInv
<1>1. /\ reports' = reports \ {rep} /\ waiting' = waiting - 1 /\ results' = Recorded(rep) /\ pending'
      /\ rep.outcome.kind = "pending"
      /\ UNCHANGED <<pipeline, dependencies, exiting, closed, dispatched, taskCh, running, backoffs, rebuilding>>
  BY DEF ReceivePending, Receive
<1>2. InFlight' = InFlight \ {rep.task} /\ SingleInstance'
  BY <1>1, FlightAfterReceive
<1>3. rep.task \in Tasks /\ rep.task \in InFlight /\ results'[rep.task].outcome = rep.outcome
        /\ \A t \in Tasks \ {rep.task} : results'[t] = results[t]
  BY <1>1, ReceiveTypes, ReportingInFlight DEF Recorded, TypeInv
<1>4. \A t \in Tasks : Unsettled(t)' <=> Unsettled(t)
  BY <1>1, <1>2, <1>3, ReportingInFlight DEF Unsettled, Finished
<1>5. ASSUME NEW t \in Tasks
      PROVE  {i \in Inputs(t)' : Unsettled(i)'} = {i \in Inputs(t) : Unsettled(i)}
  BY <1>1, <1>4, CallInputs DEF Inputs
<1>6. ASSUME ~exiting', NEW t \in Tasks
      PROVE  /\ dispatched'[t] > 0 => dependencies'[t] <= 0
             /\ dispatched'[t] = 0 /\ ~Finished(results'[t].outcome) => dependencies'[t] > 0
             /\ dependencies'[t] <= Cardinality({i \in Inputs(t)' : Unsettled(i)'})
  BY <1>1, <1>3, <1>5, <1>6
<1>7. ASSUME NEW t \in Tasks
      PROVE  /\ (t \notin InFlight' /\ dispatched'[t] > 0) \/ exiting' => results'[t].outcome # Absent
             /\ results'[t].outcome.kind = "none" => results'[t].outcome = Absent
             /\ results'[t].outcome.kind = "pending" => pending'
  BY <1>1, <1>2, <1>3 DEF Absent
<1>8. WaitingCountsInFlight' /\ NoStrayGoroutines'
  BY <1>1, <1>2, WaitingAfterReceive, ReceiveOpen
<1> QED BY <1>1, <1>2, <1>6, <1>7, <1>8

LEMMA CallExiting ==
  ASSUME CallInv, NEW rep \in reports, ReceiveExiting(rep), TypeInv'
  PROVE  CallInv'
<1> USE DEF CallInv
<1>1. /\ reports' = reports \ {rep} /\ waiting' = waiting - 1 /\ exiting' /\ pending' = pending
      /\ rep.outcome.kind # "pending" /\ (exiting \/ FailsEarly(rep))
      /\ results' = IF FailsEarly(rep) THEN MarkRemaining(Recorded(rep)) ELSE Recorded(rep)
      /\ UNCHANGED <<pipeline, closed, dispatched, taskCh, running, backoffs, rebuilding>>
  BY DEF ReceiveExiting, Receive
<1>2. InFlight' = InFlight \ {rep.task} /\ SingleInstance'
  BY <1>1, FlightAfterReceive
<1>3. /\ rep.outcome.kind # "none" /\ Recorded(rep)[rep.task].outcome = rep.outcome
      /\ \A t \in Tasks \ {rep.task} : Recorded(rep)[t] = results[t]
  BY ReceiveTypes DEF Recorded, TypeInv
<1>4. \A t \in Tasks : \/ results'[t] = Recorded(rep)[t] /\ results'[t].outcome # Absent
                       \/ results'[t].outcome = Cancelled
  BY <1>1, <1>3 DEF MarkRemaining, Absent
<1>5. ASSUME NEW t \in Tasks
      PROVE  /\ results'[t].outcome # Absent
             /\ results'[t].outcome.kind = "none" => results'[t].outcome = Absent
             /\ results'[t].outcome.kind = "pending" => pending'
  <2>1. CASE results'[t].outcome = Cancelled
    BY <2>1 DEF Absent, Cancelled
  <2>2. CASE t = rep.task /\ results'[t] = Recorded(rep)[t]
    <3>1. results'[t].outcome = rep.outcome
      BY <1>3, <2>2
    <3> QED BY <1>1, <1>3, <3>1 DEF Absent
  <2>3. CASE t # rep.task /\ results'[t] = Recorded(rep)[t] /\ results'[t].outcome # Absent
    BY <1>1, <1>3, <2>3
  <2> QED BY <1>4, <2>1, <2>2, <2>3
<1>6. WaitingCountsInFlight' /\ NoStrayGoroutines'
  BY <1>1, <1>2, WaitingAfterReceive, ReceiveOpen
<1> QED BY <1>1, <1>2, <1>5, <1>6

LEMMA CallFinal ==
  ASSUME CallInv, NEW rep \in reports, ReceiveFinal(rep), TypeInv'
  PROVE  CallInv'
<1> USE DEF CallInv
<1> DEFINE Ready == NewlyReady(rep.task)
<1>1. /\ ~exiting /\ ~exiting' /\ pending' = pending /\ rep.outcome.kind # "pending"
      /\ results' = Recorded(rep) /\ dependencies' = Decremented(rep.task)
      /\ dispatched' = CountDispatch(Ready) /\ waiting' = waiting - 1 + Cardinality(Ready)
      /\ UNCHANGED <<pipeline, closed>>
  BY DEF ReceiveFinal, Receive, flags
<1>2. \A u \in Ready : /\ u \in Tasks /\ rep.task \in Inputs(u) /\ u \notin InFlight
                      /\ dispatched[u] = 0 /\ Decremented(rep.task)[u] = 0
  <2> SUFFICES ASSUME NEW u \in Ready
               PROVE  /\ u \in Tasks /\ rep.task \in Inputs(u) /\ u \notin InFlight
                      /\ dispatched[u] = 0 /\ Decremented(rep.task)[u] = 0
    OBVIOUS
  <2>1. u \in Tasks /\ u \in Outputs(rep.task) /\ rep.task \in Inputs(u) /\ Decremented(rep.task)[u] = 0
    BY DEF NewlyReady, Outputs
  <2>2. dependencies[u] \in Int /\ dependencies[u] - 1 = 0
    BY <2>1 DEF Decremented, TypeInv
  <2>3. dispatched[u] = 0
    <3>1. dispatched[u] \in Nat
      BY <2>1 DEF TypeInv
    <3>2. dispatched[u] > 0 => dependencies[u] <= 0
      BY <1>1, <2>1
    <3> QED BY <2>2, <3>1, <3>2
  <2> QED BY <2>1, <2>3
<1>3. InFlight' = (InFlight \ {rep.task}) \cup Ready /\ SingleInstance'
  BY <1>2, FlightAfterStarts
<1>4. /\ rep.task \in Tasks /\ rep.task \in InFlight /\ rep.task \notin Ready /\ rep.outcome.kind # "none"
      /\ Recorded(rep)[rep.task].outcome = rep.outcome
      /\ \A t \in Tasks \ {rep.task} : Recorded(rep)[t] = results[t]
  BY <1>2, ReceiveTypes, ReportingInFlight DEF Recorded, TypeInv
<1>5. \A t \in Tasks : Unsettled(t) /\ t # rep.task => Unsettled(t)'
  BY <1>1, <1>3, <1>4 DEF Unsettled
<1>6. \A t \in Tasks : Inputs(t)' = Inputs(t) /\ Inputs(t) \in SUBSET Tasks
  BY <1>1, CallInputs DEF Inputs
<1>7. \A t \in Tasks : dispatched[t] \in Nat /\ dispatched'[t] = IF t \in Ready THEN 1 ELSE dispatched[t]
  BY <1>1, <1>2 DEF CountDispatch, TypeInv
<1>8. \A t \in Tasks : /\ dependencies[t] \in Int
                       /\ dependencies'[t] = IF rep.task \in Inputs(t) THEN dependencies[t] - 1 ELSE dependencies[t]
  BY <1>1 DEF Decremented, Outputs, TypeInv
<1>9. \A t \in Tasks : rep.task \in Inputs(t) /\ dependencies'[t] = 0 => t \in Ready
  BY <1>1 DEF NewlyReady, Outputs
<1> HIDE DEF Ready
<1>10. ASSUME NEW t \in Tasks
       PROVE  /\ dispatched'[t] > 0 => dependencies'[t] <= 0
              /\ dispatched'[t] = 0 /\ ~Finished(results'[t].outcome) => dependencies'[t] > 0
  <2>1. dispatched'[t] > 0 => dependencies'[t] <= 0
    <3>1. CASE t \in Ready
      BY <1>1, <1>2, <3>1
    <3>2. CASE t \notin Ready
      <4>1. dispatched[t] > 0 => dependencies[t] <= 0
        BY <1>1
      <4> QED BY <1>7, <1>8, <3>2, <4>1
    <3> QED BY <3>1, <3>2
  <2>2. ASSUME dispatched'[t] = 0, ~Finished(results'[t].outcome)
        PROVE  dependencies'[t] > 0
    <3>1. t \notin Ready /\ dispatched[t] = 0 /\ t # rep.task
      BY <1>4, <1>7, <2>2
    <3>2. dependencies[t] > 0
      BY <1>1, <1>4, <2>2, <3>1
    <3> QED BY <1>8, <1>9, <3>1, <3>2
  <2> QED BY <2>1, <2>2
<1>11. ASSUME NEW t \in Tasks
       PROVE  dependencies'[t] <= Cardinality({i \in Inputs(t)' : Unsettled(i)'})
  <2> DEFINE U == {i \in Inputs(t) : Unsettled(i)}
             V == {i \in Inputs(t)' : Unsettled(i)'}
  <2>1. U \in SUBSET Tasks /\ V \in SUBSET Tasks /\ U \ {rep.task} \subseteq V
    BY <1>5, <1>6
  <2>2. dependencies[t] <= Cardinality(U)
    BY <1>1
  <2> HIDE DEF U, V
  <2>3. /\ IsFiniteSet(U) /\ Cardinality(U) \in Nat /\ IsFiniteSet(V) /\ Cardinality(V) \in Nat
        /\ Cardinality(U \ {rep.task}) \in Nat /\ Cardinality(U \ {rep.task}) <= Cardinality(V)
    <3>1. U \ {rep.task} \in SUBSET Tasks
      BY <2>1
    <3> QED BY <2>1, <3>1, FiniteTasks, FS_Subset
  <2>4. CASE rep.task \in Inputs(t)
    <3>1. rep.task \in U
      BY <2>4, ReportingInFlight DEF U
    <3>2. Cardinality(U \ {rep.task}) = Cardinality(U) - 1
      BY <2>3, <3>1, FS_RemoveElement
    <3>3. dependencies'[t] = dependencies[t] - 1 /\ dependencies[t] \in Int
      BY <1>8, <2>4
    <3>4. dependencies'[t] <= Cardinality(V)
      BY <2>2, <2>3, <3>2, <3>3
    <3> QED BY <3>4 DEF V
  <2>5. CASE rep.task \notin Inputs(t)
    <3>1. U \ {rep.task} = U
      BY <2>5 DEF U
    <3>2. dependencies'[t] = dependencies[t] /\ dependencies[t] \in Int
      BY <1>8, <2>5
    <3>3. Cardinality(U) <= Cardinality(V)
      BY <2>3, <3>1
    <3>4. dependencies'[t] <= Cardinality(V)
      BY <2>2, <2>3, <3>2, <3>3
    <3> QED BY <3>4 DEF V
  <2> QED BY <2>4, <2>5
<1>12. ASSUME NEW t \in Tasks
       PROVE  /\ t \notin InFlight' /\ dispatched'[t] > 0 => results'[t].outcome # Absent
              /\ results'[t].outcome.kind = "none" => results'[t].outcome = Absent
              /\ results'[t].outcome.kind = "pending" => pending'
  <2>1. CASE t = rep.task
    BY <1>1, <1>4, <2>1 DEF Absent
  <2>2. CASE t # rep.task
    BY <1>1, <1>3, <1>4, <1>7, <2>2
  <2> QED BY <2>1, <2>2
<1>13. \A t \in Tasks : t \in InFlight' => dispatched'[t] > 0
  BY <1>3, <1>7
<1>14. WaitingCountsInFlight'
  <2> DEFINE A == InFlight \ {rep.task}
  <2>1. /\ IsFiniteSet(Ready) /\ Cardinality(Ready) \in Nat /\ IsFiniteSet(A)
        /\ Cardinality(A) = Cardinality(InFlight) - 1 /\ Cardinality(InFlight) \in Nat
    <3>1. Ready \in SUBSET Tasks
      BY <1>2
    <3> QED BY <1>4, <3>1, FiniteTasks, FlightFinite, FS_RemoveElement
  <2>2. A \cap Ready = {}
    BY <1>2
  <2> HIDE DEF A
  <2>3. Cardinality(A \cup Ready) = Cardinality(A) + Cardinality(Ready)
    <3>1. Cardinality(A \cup Ready) = Cardinality(A) + Cardinality(Ready) - Cardinality(A \cap Ready)
      BY <2>1, FS_Union
    <3>2. Cardinality(A \cap Ready) = 0
      BY <2>2, FS_EmptySet
    <3> QED BY <2>1, <3>1, <3>2
  <2>4. InFlight' = A \cup Ready /\ waiting' = waiting - 1 + Cardinality(Ready)
    BY <1>1, <1>3 DEF A, Ready
  <2> QED BY <2>1, <2>3, <2>4 DEF WaitingCountsInFlight
<1> QED BY <1>1, <1>3, <1>10, <1>11, <1>12, <1>13, <1>14, ReceiveOpen

LEMMA CallClose ==
  ASSUME CallInv, CloseTaskCh, TypeInv'
  PROVE  CallInv'
<1> USE DEF CallInv
<1>1. /\ UNCHANGED <<pipeline, dependencies, results, exiting, dispatched, pending>>
      /\ InFlight' = InFlight /\ SingleInstance' /\ waiting = 0 /\ waiting' = waiting
  BY DEF CloseTaskCh, InFlight, SingleInstance, counters
<1>2. InFlight = {}
  BY <1>1, FlightFinite, FS_EmptySet DEF WaitingCountsInFlight
<1>3. WaitingCountsInFlight' /\ NoStrayGoroutines'
  BY <1>1, <1>2 DEF WaitingCountsInFlight, NoStrayGoroutines
<1>4. \A t : (Unsettled(t)' <=> Unsettled(t)) /\ Inputs(t)' = Inputs(t)
  BY <1>1 DEF Unsettled, Inputs
<1>5. ASSUME NEW t \in Tasks
      PROVE  {i \in Inputs(t)' : Unsettled(i)'} = {i \in Inputs(t) : Unsettled(i)}
  BY <1>4
<1> QED BY <1>1, <1>3, <1>5

LEMMA CallStep == CallInv /\ [Next]_vars => CallInv'
<1> SUFFICES ASSUME CallInv, [Next]_vars PROVE CallInv'
  OBVIOUS
<1>1. TypeInv /\ TypeInv' /\ SingleInstance
  BY StepType DEF CallInv
<1>2. ASSUME QuietStep, UNCHANGED <<results, pending>> PROVE CallInv'
  BY <1>1, <1>2, CallQuiet
<1>3. ASSUME NEW rep \in reports, ReceiveForRetry(rep) PROVE CallInv'
  <2>1. results' = Recorded(rep) /\ pending' = pending /\ rep.outcome.kind # "pending"
    BY <1>3 DEF ReceiveForRetry, flags
  <2>2. \A t \in Tasks : \/ results'[t] = results[t]
                         \/ results'[t].outcome # Absent /\ results'[t].outcome.kind \notin {"none", "pending"}
    BY <1>1, <2>1, ReceiveTypes DEF Recorded, TypeInv, Absent
  <2> QED BY <1>1, <1>3, <2>1, <2>2, ForRetryIsQuiet, CallQuiet
<1>4. ASSUME NEW r \in taskCh, DispatchTaskRun(r) PROVE CallInv'
  BY <1>1, <1>2, <1>4, DispatchIsQuiet DEF DispatchTaskRun, flags
<1>5. ASSUME NEW r \in running, NEW kind, Report(r, kind) PROVE CallInv'
  BY <1>1, <1>2, <1>5, ReportIsQuiet DEF Report, flags
<1>6. ASSUME NEW b \in backoffs, RetryTimerFires(b) PROVE CallInv'
  BY <1>1, <1>2, <1>6, RetryTimerIsQuiet DEF RetryTimerFires, flags
<1>7. ASSUME NEW b \in backoffs, RetryCancelled(b) PROVE CallInv'
  BY <1>1, <1>2, <1>7, RetryCancelledIsQuiet DEF RetryCancelled, flags
<1>8. ASSUME NEW b \in rebuilding, RetrySends(b) PROVE CallInv'
  BY <1>1, <1>2, <1>8, RetrySendsIsQuiet DEF RetrySends, flags
<1>9. ASSUME NEW b \in rebuilding, MapRace(b) PROVE CallInv'
  BY <1>1, <1>2, <1>9, MapRaceIsQuiet DEF MapRace
<1>10. CASE UNCHANGED vars
  BY <1>1, <1>2, <1>10, StutterIsQuiet DEF vars, flags
<1> QED
  BY <1>1, <1>3, <1>4, <1>5, <1>6, <1>7, <1>8, <1>9, <1>10, CallPending, CallExiting, CallFinal, CallClose
  DEF Next, Step, Terminated, SchedulerStep, ReceiveResult, DispatchStep, TaskStep,
      TaskReturns, TaskPanics, RetryStep, RaceStep

LEMMA NewSchedulerCall ==
  ASSUME pipeline \in Pipelines, NEW prior \in [Tasks -> OutcomeType], NEW base \in [Tasks -> OutcomeType],
         NewScheduler(prior, base)
  PROVE  CallInv
<1>1. ASSUME NEW t \in Tasks
      PROVE  /\ dispatched[t] > 0 => dependencies[t] <= 0
             /\ dispatched[t] = 0 /\ ~Finished(results[t].outcome) => dependencies[t] > 0
             /\ dependencies[t] <= Cardinality({i \in Inputs(t) : Unsettled(i)})
  <2> DEFINE U == {i \in Inputs(t) : Unsettled(i)}
  <2>1. U \in SUBSET Tasks
    BY NewSchedulerFlight
  <2>2. dependencies[t] = Cardinality(U) /\ Cardinality(U) \in Nat
    BY <2>1, NewSchedulerFlight, FiniteTasks DEF DependencyCount
  <2> HIDE DEF U
  <2>3. /\ dispatched[t] = IF t \in InFlight THEN 1 ELSE 0
        /\ t \in InFlight <=> dependencies[t] = 0 /\ ~Finished(results[t].outcome)
    BY NewSchedulerFlight
  <2>4. dependencies[t] <= Cardinality(U)
    BY <2>2
  <2>5. /\ dispatched[t] > 0 => dependencies[t] <= 0
        /\ dispatched[t] = 0 /\ ~Finished(results[t].outcome) => dependencies[t] > 0
    BY <2>2, <2>3
  <2> QED BY <2>4, <2>5 DEF U
<1>2. ASSUME NEW t \in Tasks
      PROVE  /\ t \in InFlight => dispatched[t] > 0
             /\ (t \notin InFlight /\ dispatched[t] > 0) \/ exiting => results[t].outcome # Absent
             /\ results[t].outcome.kind = "none" => results[t].outcome = Absent
             /\ results[t].outcome.kind = "pending" => pending
  <2>1. dispatched[t] = (IF t \in InFlight THEN 1 ELSE 0) /\ ~exiting
    BY NewSchedulerFlight
  <2>2. results[t].outcome = IF Finished(prior[t]) THEN prior[t] ELSE Absent
    BY NewSchedulerFlight
  <2> QED BY <2>1, <2>2 DEF Finished, Absent
<1>3. TypeInv /\ SingleInstance /\ WaitingCountsInFlight /\ NoStrayGoroutines
  BY NewSchedulerFlight
<1> QED BY <1>1, <1>2, <1>3 DEF CallInv

-----------------------------------------------------------------------------
(* A new run: what exiting says of the tasks.                                *)

LEMMA PipelineFixed == [Next]_vars => pipeline' = pipeline
BY DEF Next, Step, Terminated, SchedulerStep, ReceiveResult, ReceivePending, ReceiveExiting, ReceiveForRetry,
       ReceiveFinal, DispatchStep, TaskStep, TaskReturns, TaskPanics, RetryStep, RaceStep, CloseTaskCh,
       DispatchTaskRun, Report, RetryTimerFires, RetryCancelled, RetrySends, MapRace, vars

\* While the run exits no task is started that was not, and what was started stays so.
LEMMA StartedStays ==
  ASSUME SchedulerInv, [Next]_vars
  PROVE  \A t \in Tasks : /\ dispatched[t] > 0 => dispatched'[t] > 0
                          /\ exiting /\ dispatched[t] = 0 => dispatched'[t] = 0
<1> USE DEF SchedulerInv
<1>1. ASSUME NEW rep \in reports, ReceiveFinal(rep), NEW t \in Tasks
      PROVE  (dispatched[t] > 0 => dispatched'[t] > 0) /\ ~exiting
  BY <1>1 DEF ReceiveFinal, CountDispatch, TypeInv
<1>2. ASSUME NEW b \in rebuilding, RetrySends(b), NEW t \in Tasks
      PROVE  /\ dispatched[t] > 0 => dispatched'[t] > 0
             /\ dispatched[t] = 0 => dispatched'[t] = 0
  <2>1. b.task \in InFlight
    BY DEF InFlight, TasksOf
  <2>2. dispatched[b.task] > 0 /\ dispatched[t] \in Nat
    BY <2>1, FlightNumbers DEF TypeInv
  <2> QED BY <1>2, <2>2 DEF RetrySends, CountDispatch
<1>3. CASE UNCHANGED dispatched
  BY <1>3
<1> QED
  BY <1>1, <1>2, <1>3
  DEF Next, Step, Terminated, SchedulerStep, ReceiveResult, ReceivePending, ReceiveExiting, ReceiveForRetry,
      DispatchStep, TaskStep, TaskReturns, TaskPanics, RetryStep, RaceStep, CloseTaskCh,
      DispatchTaskRun, Report, RetryTimerFires, RetryCancelled, MapRace, vars

\* A step that neither makes the run exit nor records a failed fail-early task.
LEMMA ExitStays ==
  ASSUME SchedulerInv, ExitInv, [Next]_vars, exiting' = exiting
  PROVE  exiting' => \E f \in pipeline'.failEarly : /\ ~Unsettled(f)' /\ Failed(results'[f].outcome)
                                                     /\ \A o \in Outputs(f)' : dispatched'[o] = 0
<1> SUFFICES ASSUME exiting
             PROVE  \E f \in pipeline'.failEarly : /\ ~Unsettled(f)' /\ Failed(results'[f].outcome)
                                                    /\ \A o \in Outputs(f)' : dispatched'[o] = 0
  OBVIOUS
<1>1. PICK f \in pipeline.failEarly : /\ ~Unsettled(f) /\ Failed(results[f].outcome)
                                      /\ \A o \in Outputs(f) : dispatched[o] = 0
  BY DEF ExitInv
<1>2. f \in Tasks
  BY PipelineFields DEF SchedulerInv, TypeInv
<1>3. ~Unsettled(f)' /\ results'[f] = results[f]
  BY <1>1, <1>2, SettledForever
<1>4. Outputs(f)' = Outputs(f) /\ Outputs(f) \subseteq Tasks
  BY PipelineFixed DEF Outputs, Inputs
<1>5. \A o \in Outputs(f)' : dispatched'[o] = 0
  BY <1>1, <1>4, StartedStays
<1> QED BY <1>1, <1>3, <1>5, PipelineFixed

LEMMA ExitStep ==
  ASSUME SchedulerInv, SchedulerInv', AttemptInv', ExitInv, [Next]_vars
  PROVE  ExitInv'
<1>1. pipeline' = pipeline /\ pipeline.failEarly \subseteq Tasks
  BY PipelineFixed, PipelineFields DEF SchedulerInv, TypeInv
<1>2. ASSUME NEW t \in Tasks, dispatched'[t] > 0, NEW i \in Inputs(t)'
      PROVE  dispatched'[i] > 0
  <2>1. Inputs(t)' = Inputs(t) /\ i \in Tasks
    BY <1>1, PipelineFields DEF Inputs, SchedulerInv, TypeInv
  <2>2. CASE ~exiting'
    <3>1. ~Unsettled(i)'
      BY <1>2 DEF SchedulerInv, SettledInputs
    <3>2. results'[i] # NoEntry
      BY <3>1 DEF Unsettled, Finished, NoEntry, Absent
    <3>3. dispatched'[i] # 0
      BY <2>1, <2>2, <3>2 DEF AttemptInv, UnstartedInv
    <3> QED BY <2>1, <3>3 DEF SchedulerInv, TypeInv
  <2>3. CASE exiting'
    <3>1. dispatched[t] \in Nat /\ dispatched[t] # 0
      <4>1. dispatched[t] \in Nat
        BY DEF SchedulerInv, TypeInv
      <4>2. CASE exiting
        BY <1>2, <4>1, <4>2, StartedStays
      <4>3. CASE ~exiting
        <5>1. dispatched' = dispatched
          BY <2>3, <4>3
          DEF Next, Step, Terminated, SchedulerStep, ReceiveResult, ReceivePending, ReceiveExiting, ReceiveForRetry,
              ReceiveFinal, DispatchStep, TaskStep, TaskReturns, TaskPanics, RetryStep, RaceStep, CloseTaskCh,
              DispatchTaskRun, Report, RetryTimerFires, RetryCancelled, RetrySends, MapRace, vars, flags
        <5> QED BY <1>2, <4>1, <5>1
      <4> QED BY <4>2, <4>3
    <3>2. dispatched[i] > 0
      BY <1>2, <2>1, <3>1 DEF ExitInv
    <3> QED BY <2>1, <3>2, StartedStays
  <2> QED BY <2>2, <2>3
<1>3. ASSUME NEW rep \in reports, ReceiveExiting(rep), ~exiting
      PROVE  /\ exiting'
             /\ \E f \in pipeline'.failEarly : /\ ~Unsettled(f)' /\ Failed(results'[f].outcome)
                                                /\ \A o \in Outputs(f)' : dispatched'[o] = 0
  <2>1. /\ exiting' /\ FailsEarly(rep) /\ reports' = reports \ {rep}
        /\ results' = MarkRemaining(Recorded(rep))
        /\ UNCHANGED <<dispatched, taskCh, running, backoffs, rebuilding>>
    BY <1>3 DEF ReceiveExiting, Receive
  <2>2. /\ rep.task \in Tasks /\ rep.task \in pipeline'.failEarly /\ Failed(rep.outcome) /\ Unsettled(rep.task)
        /\ rep.outcome # Absent /\ Recorded(rep)[rep.task].outcome = rep.outcome
    BY <1>1, <2>1, AfterReceive, ReportingInFlight DEF FailsEarly
  <2>3. results'[rep.task].outcome = rep.outcome
    BY <2>1, <2>2 DEF MarkRemaining
  <2>4. rep.task \notin InFlight'
    BY <2>1, FlightAfterReceive DEF SchedulerInv
  <2>5. ~Unsettled(rep.task)'
    BY <2>2, <2>3, <2>4 DEF Unsettled, Failed, Finished
  <2>6. ASSUME NEW o \in Outputs(rep.task)' PROVE dispatched'[o] = 0
    <3>1. o \in Tasks /\ rep.task \in Inputs(o) /\ dispatched[o] \in Nat
      BY <1>1 DEF Outputs, Inputs, SchedulerInv, TypeInv
    <3>2. ~(dispatched[o] > 0)
      BY <2>2, <3>1 DEF SchedulerInv, SettledInputs
    <3> QED BY <2>1, <3>1, <3>2
  <2> QED BY <2>1, <2>2, <2>3, <2>5, <2>6
<1>4. ASSUME NEW rep \in reports, ReceivePending(rep) \/ ReceiveForRetry(rep) \/ ReceiveFinal(rep)
      PROVE  /\ exiting' = exiting
             /\ ~exiting' => \A t \in pipeline'.failEarly : ~Failed(results'[t].outcome)
  <2>1. exiting' = exiting /\ results' = Recorded(rep)
    BY <1>4 DEF ReceivePending, ReceiveForRetry, ReceiveFinal, flags
  <2>2. rep.task \in pipeline.failEarly => ~Failed(rep.outcome)
    BY <1>4 DEF ReceivePending, ReceiveForRetry, ReceiveFinal, FailsEarly, Failed
  <2> QED BY <1>1, <2>1, <2>2, AfterReceive DEF ExitInv
<1>5. ASSUME UNCHANGED <<results, exiting>>
      PROVE  ~exiting' => \A t \in pipeline'.failEarly : ~Failed(results'[t].outcome)
  BY <1>1, <1>5 DEF ExitInv
<1>6. \/ UNCHANGED <<results, exiting>>
      \/ \E rep \in reports : \/ ReceivePending(rep) \/ ReceiveForRetry(rep) \/ ReceiveFinal(rep)
                               \/ ReceiveExiting(rep)
  BY DEF Next, Step, Terminated, SchedulerStep, ReceiveResult, DispatchStep, TaskStep, TaskReturns, TaskPanics,
         RetryStep, RaceStep, CloseTaskCh, DispatchTaskRun, Report, RetryTimerFires, RetryCancelled, RetrySends,
         MapRace, vars, flags
<1>7. CASE exiting' = exiting
  <2>1. ~exiting' => \A t \in pipeline'.failEarly : ~Failed(results'[t].outcome)
    BY <1>4, <1>5, <1>6, <1>7 DEF ReceiveExiting
  <2> QED BY <1>2, <1>7, <2>1, ExitStays DEF ExitInv
<1>8. CASE exiting' # exiting
  <2>1. PICK rep \in reports : ReceiveExiting(rep)
    BY <1>4, <1>6, <1>8
  <2>2. exiting' /\ ~exiting
    BY <1>8, <2>1 DEF ReceiveExiting, SchedulerInv, TypeInv
  <2>3. \E f \in pipeline'.failEarly : /\ ~Unsettled(f)' /\ Failed(results'[f].outcome)
                                      /\ \A o \in Outputs(f)' : dispatched'[o] = 0
    BY <1>3, <2>1, <2>2
  <2> QED BY <1>2, <2>2, <2>3 DEF ExitInv
<1> QED BY <1>7, <1>8

-----------------------------------------------------------------------------
(* The inductive invariant of runs.                                          *)

RunInv == CallInv /\ FirstCallInv /\ PlainInv /\ RecordInv /\ KeptInv

LEMMA TaskRunOfFacts ==
  ASSUME NEW o \in OutcomeType
  PROVE  /\ TaskRunOf(o) \in OutcomeType
         /\ TaskRunOf(o).kind \in {"none", "value", "error", "pending"}
         /\ Finished(TaskRunOf(o)) <=> Finished(o)
         /\ TaskRunOf(o).kind = "none" <=> o.kind = "none"
         /\ TaskRunOf(o).kind = "pending" <=> o.kind = "pending"
         /\ TaskRunOf(o).kind = "error" <=> Failed(o)
         /\ o.kind \in {"none", "value", "error", "pending"} => TaskRunOf(o) = o
BY DEF OutcomeType, Kinds, TaskRunOf, Failed, Finished

\* What the caller supplies: a result for suspended tasks only.
LEMMA SuppliedFacts ==
  ASSUME RecordInv, NEW prior \in WithData
  PROVE  /\ prior \in [Tasks -> OutcomeType]
         /\ \A t \in Tasks : /\ prior[t].kind \in {"none", "value", "error", "pending"}
                             /\ run.taskRuns[t].kind = "none" <=> prior[t].kind = "none"
                             /\ Finished(run.taskRuns[t]) => prior[t] = run.taskRuns[t]
<1>1. SuppliedData \subseteq OutcomeType /\ \A d \in SuppliedData : d.kind \in {"value", "error", "pending"}
  BY DEF SuppliedData, OutcomeType, Kinds
<1>2. run.taskRuns \in [Tasks -> OutcomeType]
  BY DEF RecordInv, RunRecords
<1>3. /\ prior \in [Tasks -> SuppliedData \cup {run.taskRuns[t] : t \in Tasks}]
      /\ \A t \in Tasks : IF run.taskRuns[t].kind = "pending" THEN prior[t] \in SuppliedData
                          ELSE prior[t] = run.taskRuns[t]
  BY DEF WithData
<1>4. ASSUME NEW t \in Tasks
      PROVE  /\ prior[t] \in OutcomeType
             /\ prior[t].kind \in {"none", "value", "error", "pending"}
             /\ run.taskRuns[t].kind = "none" <=> prior[t].kind = "none"
             /\ Finished(run.taskRuns[t]) => prior[t] = run.taskRuns[t]
  <2>1. CASE run.taskRuns[t].kind = "pending"
    BY <1>1, <1>3, <2>1 DEF Finished
  <2>2. CASE run.taskRuns[t].kind # "pending"
    BY <1>2, <1>3, <2>2 DEF RecordInv
  <2> QED BY <2>1, <2>2
<1>5. prior \in [Tasks -> OutcomeType]
  BY <1>3, <1>4
<1> QED BY <1>4, <1>5

LEMMA RunInitInv == RunInit => RunInv
<1> SUFFICES ASSUME RunInit PROVE RunInv
  OBVIOUS
<1>1. /\ pipeline \in Pipelines /\ NewScheduler(NoPrior, NoPrior) /\ Init
      /\ phase = "called" /\ calls = 1 /\ run = NewRun
  BY DEF RunInit, Init
<1>2. CallInv
  BY <1>1, NewSchedulerCall, NoPriorFacts
<1>3. SchedulerInv /\ AttemptInv /\ DataInv /\ ~exiting
  BY <1>1, InitInv, AttemptInit, DataInit DEF NewScheduler
<1>4. ExitInv
  <2>1. \A t \in Tasks : results[t].outcome = Absent /\ Inputs(t) \subseteq Tasks
    BY <1>1, NewSchedulerFlight, NoPriorFacts
  <2>2. \A t \in Tasks : dispatched[t] > 0 => Inputs(t) = {}
    <3>1. \A t \in Tasks : dispatched[t] > 0 => \A i \in Inputs(t) : ~Unsettled(i)
      BY <1>3 DEF SchedulerInv, SettledInputs
    <3>2. \A t \in Tasks : Unsettled(t)
      BY <2>1 DEF Unsettled, Finished, Absent
    <3> QED BY <2>1, <3>1, <3>2
  <2>3. pipeline.failEarly \subseteq Tasks
    BY <1>1, PipelineFields
  <2> QED BY <1>3, <2>1, <2>2, <2>3 DEF ExitInv, Failed, Absent
<1>5. RecordInv
  <2>1. NewRun \in RunRecords /\ \A t \in Tasks : NewRun.taskRuns[t].kind = "none"
    BY NoPriorFacts DEF NewRun, RunRecords, States, NoPrior, Absent
  <2> QED BY <1>1, <2>1 DEF RecordInv, AsBefore, Phases, NewScheduler
<1>6. KeptInv
  BY <1>1 DEF KeptInv, NewRun, NoPrior, Absent, Finished
<1> QED BY <1>2, <1>3, <1>4, <1>5, <1>6 DEF RunInv, FirstCallInv, PlainInv

\* Steps of the scheduler and of its goroutines.
LEMMA RunExecute ==
  ASSUME RunInv, [Next]_vars, calls' = calls
  PROVE  CallInv' /\ FirstCallInv' /\ PlainInv'
<1>1. CallInv'
  BY CallStep DEF RunInv
<1>2. FirstCallInv'
  BY StepInv, AttemptStep, ExitStep DEF RunInv, FirstCallInv
<1>3. ASSUME pipeline.failEarly = {}, SchedulerInv, ~exiting PROVE ~exiting'
  BY <1>3
  DEF Next, Step, Terminated, SchedulerStep, ReceiveResult, ReceivePending, ReceiveExiting, ReceiveForRetry,
      ReceiveFinal, FailsEarly, DispatchStep, TaskStep, TaskReturns, TaskPanics, RetryStep, RaceStep, CloseTaskCh,
      DispatchTaskRun, Report, RetryTimerFires, RetryCancelled, RetrySends, MapRace, vars, flags
<1>4. PlainInv'
  BY <1>3, StepInv, DataStep, PipelineFixed DEF RunInv, PlainInv
<1> QED BY <1>1, <1>2, <1>4

LEMMA RunExecuteKeeps ==
  ASSUME RunInv, [Next]_vars, UNCHANGED callerVars, phase = "executing"
  PROVE  RunInv'
<1>1. UNCHANGED <<entry, phase, run, returned, calls>> /\ pipeline' = pipeline
  BY PipelineFixed DEF callerVars
<1>2. RecordInv'
  BY <1>1 DEF RunInv, RecordInv, AsBefore
<1>3. KeptInv'
  <2> SUFFICES ASSUME pipeline.failEarly = {}
               PROVE  /\ \A t \in Tasks : run.taskRuns[t].kind # "none" => \A i \in Inputs(t)' : Finished(run.taskRuns[i])
                      /\ \A t \in Tasks : Finished(run.taskRuns[t]) =>
                           ~Unsettled(t)' /\ TaskRunOf(results'[t].outcome) = run.taskRuns[t]
    BY <1>1 DEF KeptInv, TaskRunOf
  <2>1. \A t \in Tasks : ~Unsettled(t) => ~Unsettled(t)' /\ results'[t] = results[t]
    BY SettledForever DEF RunInv, PlainInv
  <2>2. \A t \in Tasks : Inputs(t)' = Inputs(t)
    BY <1>1 DEF Inputs
  <2> QED BY <2>1, <2>2 DEF RunInv, KeptInv
<1> QED BY <1>1, <1>2, <1>3, RunExecute DEF RunInv

LEMMA RunFinish ==
  ASSUME RunInv, FinishRun
  PROVE  RunInv'
<1>1. /\ UNCHANGED vars /\ calls' = calls /\ phase' = "returned" /\ closed /\ ~crashed
      /\ run' = [taskRuns |-> [t \in Tasks |-> TaskRunOf(results[t].outcome)],
                 state |-> StateAfter, pending |-> pending, failSilently |-> exiting,
                 notified |-> run.notified \/ (entry = "Run" /\ ~pending /\ ~exiting)]
  BY DEF FinishRun
<1>2. CallInv' /\ FirstCallInv' /\ PlainInv'
  BY <1>1, RunExecute
<1>3. InFlight = {} /\ running = {} /\ reports = {} /\ backoffs = {} /\ rebuilding = {}
  BY <1>1 DEF RunInv, CallInv, NoStrayGoroutines, InFlight, TasksOf
<1>4. \A t \in Tasks : results[t].outcome \in OutcomeType
  BY DEF RunInv, CallInv, TypeInv, EntryType
<1>5. UNCHANGED <<results, pending, exiting, closed, crashed, pipeline, taskCh, running, reports, backoffs, rebuilding>>
  BY <1>1 DEF vars, flags
<1>6. \A t \in Tasks : run'.taskRuns[t] = TaskRunOf(results[t].outcome)
  BY <1>1
<1>7. RecordInv'
  <2>1. run' \in RunRecords
    <3>1. [t \in Tasks |-> TaskRunOf(results[t].outcome)] \in [Tasks -> OutcomeType]
      BY <1>4, TaskRunOfFacts
    <3>2. StateAfter \in States /\ pending \in BOOLEAN /\ exiting \in BOOLEAN
      BY DEF StateAfter, States, RunInv, CallInv, TypeInv
    <3>3. (run.notified \/ (entry = "Run" /\ ~pending /\ ~exiting)) \in BOOLEAN
      OBVIOUS
    <3> HIDE DEF StateAfter
    <3> QED BY <1>1, <3>1, <3>2, <3>3 DEF RunRecords
  <2>2. \A t \in Tasks : run'.taskRuns[t].kind \in {"none", "value", "error", "pending"}
    BY <1>4, <1>6, TaskRunOfFacts
  <2>3. RecordMatches'
    <3>1. StateAfter' = StateAfter
      BY <1>5 DEF StateAfter, HasFatalErrors, Outputs, Inputs
    <3>2. [t \in Tasks |-> TaskRunOf(results'[t].outcome)] = [t \in Tasks |-> TaskRunOf(results[t].outcome)]
      BY <1>5
    <3> QED BY <1>1, <1>5, <3>1, <3>2 DEF RecordMatches, TaskRunOf
  <2> QED BY <1>1, <1>3, <1>5, <2>1, <2>2, <2>3 DEF RunInv, RecordInv, Phases
<1>8. KeptInv'
  <2> SUFFICES ASSUME pipeline.failEarly = {}
               PROVE  /\ \A t \in Tasks : run'.taskRuns[t].kind # "none" =>
                           \A i \in Inputs(t)' : Finished(run'.taskRuns[i])
                      /\ \A t \in Tasks : Finished(run'.taskRuns[t]) =>
                           ~Unsettled(t)' /\ TaskRunOf(results'[t].outcome) = run'.taskRuns[t]
    BY <1>5 DEF KeptInv, TaskRunOf
  <2>1. \A t \in Tasks : Inputs(t)' = Inputs(t) /\ (Unsettled(t)' <=> Unsettled(t)) /\ Inputs(t) \in SUBSET Tasks
    BY <1>5, CallInputs DEF Inputs, Unsettled, InFlight, RunInv, CallInv
  <2>2. SchedulerInv /\ ~exiting
    BY DEF RunInv, PlainInv
  <2>3. ASSUME NEW t \in Tasks, run'.taskRuns[t].kind # "none", NEW i \in Inputs(t)
        PROVE  Finished(run'.taskRuns[i])
    <3>1. results[t].outcome # Absent
      BY <1>4, <1>6, <2>3, TaskRunOfFacts DEF Absent
    <3>2. Finished(results[i].outcome)
      BY <2>2, <3>1 DEF SchedulerInv, SettledInputs, Unsettled
    <3> QED BY <1>4, <1>6, <2>1, <3>2, TaskRunOfFacts
  <2>4. ASSUME NEW t \in Tasks, Finished(run'.taskRuns[t])
        PROVE  ~Unsettled(t) /\ TaskRunOf(results'[t].outcome) = run'.taskRuns[t]
    BY <1>3, <1>4, <1>5, <1>6, <2>4, TaskRunOfFacts DEF Unsettled
  <2> QED BY <2>1, <2>3, <2>4
<1> QED BY <1>2, <1>7, <1>8 DEF RunInv

\* The scheduler of a resumption starts as one of a new run does, from what the
\* record and the variables hold.
Started == pipeline \in Pipelines /\ \E prior, base \in [Tasks -> OutcomeType] : NewScheduler(prior, base)
StartedPlain ==
  /\ pipeline \in Pipelines
  /\ \E prior, base \in [Tasks -> OutcomeType] : NewScheduler(prior, base) /\ InputsFinished(prior)

LEMMA StartedInv == Started => CallInv
BY NewSchedulerCall DEF Started

LEMMA StartedPlainInv == StartedPlain => SchedulerInv /\ DataInv /\ ~exiting
BY NewSchedulerInv, NewSchedulerData DEF StartedPlain, NewScheduler

LEMMA RunResume ==
  ASSUME RunInv, Resume
  PROVE  RunInv'
<1>1. PICK prior \in WithData : run' = [run EXCEPT !.taskRuns = prior] /\ RestartScheduler(prior, varsMap)
  BY DEF Resume
<1>2. phase = "returned" /\ phase' = "called" /\ run.pending /\ calls' = calls + 1 /\ calls \in Nat \ {0}
  BY DEF Resume, RunInv, RecordInv
<1>3. /\ ~crashed /\ running = {} /\ reports = {} /\ backoffs = {} /\ rebuilding = {}
      /\ run \in RunRecords /\ pipeline \in Pipelines /\ varsMap \in [Tasks -> OutcomeType]
  BY <1>2 DEF RunInv, RecordInv, CallInv, TypeInv
<1>4. /\ prior \in [Tasks -> OutcomeType]
      /\ \A t \in Tasks : /\ prior[t].kind \in {"none", "value", "error", "pending"}
                          /\ run.taskRuns[t].kind = "none" <=> prior[t].kind = "none"
                          /\ Finished(run.taskRuns[t]) => prior[t] = run.taskRuns[t]
  BY SuppliedFacts DEF RunInv
<1>5. run' \in RunRecords /\ run'.taskRuns = prior /\ run'.pending = run.pending
  BY <1>1, <1>3, <1>4 DEF RunRecords
<1>6. /\ pipeline' = pipeline /\ dependencies' = InitialDependencies(prior)
      /\ results' = ReconstructResults(prior) /\ varsMap' = ReconstructVars(prior, varsMap)
      /\ waiting' = Cardinality(Doable(prior))
      /\ dispatched' = [t \in Tasks |-> IF t \in Doable(prior) THEN 1 ELSE 0]
      /\ taskCh' = {NewMemoryTaskRun(t, 1, 0, results', CopyVars(varsMap', t)) : t \in Doable(prior)}
      /\ pending' = FALSE /\ exiting' = FALSE /\ closed' = FALSE /\ crashed' = FALSE
      /\ running' = {} /\ reports' = {} /\ backoffs' = {} /\ rebuilding' = {}
  BY <1>1, <1>3, SchedulerAssumption DEF RestartScheduler, RunInv, CallInv, TypeInv
<1>7. \A t : Inputs(t)' = Inputs(t) /\ Propagating(t)' = Propagating(t)
  BY <1>6 DEF Inputs, Propagating
<1>8. PICK base \in [Tasks -> OutcomeType] : base = varsMap
  BY <1>3
<1>9. NewScheduler(prior, base)'
  <2>1. InitialDependencies(prior)' = InitialDependencies(prior)
    BY <1>7 DEF InitialDependencies
  <2>2. Doable(prior)' = Doable(prior)
    BY <2>1 DEF Doable
  <2>3. \A t : NewMemoryTaskRun(t, 1, 0, results, CopyVars(varsMap, t))'
               = NewMemoryTaskRun(t, 1, 0, results', CopyVars(varsMap', t))
    BY <1>7 DEF NewMemoryTaskRun, CopyVars
  <2>4. /\ dispatched' = [t \in Tasks |-> IF t \in Doable(prior)' THEN 1 ELSE 0]
        /\ taskCh' = {NewMemoryTaskRun(t, 1, 0, results, CopyVars(varsMap, t))' : t \in Doable(prior)'}
    BY <1>6, <2>2, <2>3
  <2> QED BY <1>6, <1>8, <2>1, <2>2, <2>4 DEF NewScheduler, ReconstructResults, ReconstructVars
<1>10. CallInv'
  <2>1. Started'
    BY <1>3, <1>4, <1>6, <1>9 DEF Started
  <2> QED BY <2>1, StartedInv, PTL
<1>11. FirstCallInv'
  BY <1>2 DEF FirstCallInv
<1>12. pipeline.failEarly = {} => InputsFinished(prior)'
  <2> SUFFICES ASSUME pipeline.failEarly = {}, NEW t \in Tasks, Finished(prior[t]), NEW i \in Inputs(t)
               PROVE  Finished(prior[i])
    BY <1>7 DEF InputsFinished
  <2>1. run.taskRuns[t].kind # "none"
    BY <1>4 DEF Finished
  <2>2. i \in Tasks /\ Finished(run.taskRuns[i])
    BY <2>1, CallInputs DEF RunInv, KeptInv, CallInv
  <2> QED BY <1>4, <2>2
<1>13. PlainInv'
  <2>1. pipeline.failEarly = {} => StartedPlain'
    BY <1>3, <1>4, <1>6, <1>9, <1>12 DEF StartedPlain
  <2>2. StartedPlain' => (SchedulerInv /\ DataInv /\ ~exiting)'
    BY StartedPlainInv, PTL
  <2> QED BY <1>6, <2>1, <2>2 DEF PlainInv
<1>14. RecordInv'
  BY <1>2, <1>4, <1>5, <1>6 DEF RecordInv, AsBefore, Phases
<1>15. KeptInv'
  <2> SUFFICES ASSUME pipeline.failEarly = {}
               PROVE  /\ \A t \in Tasks : prior[t].kind # "none" => \A i \in Inputs(t) : Finished(prior[i])
                      /\ \A t \in Tasks : Finished(prior[t]) =>
                           ~Unsettled(t)' /\ TaskRunOf(results'[t].outcome) = prior[t]
    BY <1>5, <1>6, <1>7 DEF KeptInv, TaskRunOf
  <2>1. ASSUME NEW t \in Tasks, prior[t].kind # "none", NEW i \in Inputs(t)
        PROVE  Finished(prior[i])
    <3>1. i \in Tasks /\ Finished(run.taskRuns[i])
      BY <1>4, <2>1, CallInputs DEF RunInv, KeptInv, CallInv
    <3> QED BY <1>4, <3>1
  <2>2. ASSUME NEW t \in Tasks, Finished(prior[t])
        PROVE  ~Unsettled(t)' /\ TaskRunOf(results'[t].outcome) = prior[t]
    <3>1. results'[t].outcome = prior[t]
      BY <1>6, <2>2 DEF ReconstructResults
    <3>2. t \notin InFlight'
      <4>1. t \notin Doable(prior)
        BY <2>2 DEF Doable
      <4>2. \A r \in taskCh' : r.task \in Doable(prior)
        BY <1>6 DEF NewMemoryTaskRun
      <4> QED BY <1>6, <4>1, <4>2 DEF InFlight, TasksOf
    <3>3. TaskRunOf(prior[t]) = prior[t]
      BY <1>4, TaskRunOfFacts
    <3> QED BY <2>2, <3>1, <3>2, <3>3 DEF Unsettled
  <2> QED BY <2>1, <2>2
<1> QED BY <1>10, <1>11, <1>13, <1>14, <1>15 DEF RunInv

\* The caller's goroutine goes on and neither the scheduler nor the record changes.
LEMMA RunCaller ==
  ASSUME RunInv, UNCHANGED <<vars, run, calls>>, phase' \in Phases, phase' = phase \/ phase = "called"
  PROVE  RunInv'
<1>1. CallInv' /\ FirstCallInv' /\ PlainInv'
  BY RunExecute
<1>2. UNCHANGED <<pipeline, results, pending, exiting, closed, crashed, taskCh, running, reports, backoffs,
                  rebuilding, run, calls>>
  BY DEF vars, flags
<1>3. AsBefore' = AsBefore
  BY <1>2 DEF AsBefore
<1>4. RecordMatches => RecordMatches'
  <2>1. StateAfter' = StateAfter
    BY <1>2 DEF StateAfter, HasFatalErrors, Outputs, Inputs
  <2> QED BY <1>2, <2>1 DEF RecordMatches, TaskRunOf
<1>5. RecordInv'
  BY <1>2, <1>3, <1>4 DEF RunInv, RecordInv
<1>6. \A t : (Unsettled(t)' <=> Unsettled(t)) /\ Inputs(t)' = Inputs(t)
  BY <1>2 DEF Unsettled, InFlight, Inputs
<1>7. KeptInv'
  BY <1>2, <1>6 DEF RunInv, KeptInv, TaskRunOf
<1> QED BY <1>1, <1>5, <1>7 DEF RunInv

LEMMA RunStepInv == RunInv /\ [RunNext]_runVars => RunInv'
<1> SUFFICES ASSUME RunInv, [RunNext]_runVars PROVE RunInv'
  OBVIOUS
<1>1. phase \in Phases
  BY DEF RunInv, RecordInv
<1>2. CASE InitializePipelineFails
  BY <1>2, RunCaller DEF InitializePipelineFails, Phases
<1>3. CASE StartRun
  BY <1>3, RunCaller DEF StartRun, Phases
<1>4. CASE Execute
  BY <1>4, RunExecuteKeeps DEF Execute, Next
<1>5. CASE FinishRun
  BY <1>5, RunFinish
<1>6. CASE Resume
  BY <1>6, RunResume
<1>7. CASE UNCHANGED runVars
  BY <1>1, <1>7, RunCaller DEF runVars, callerVars
<1> QED BY <1>2, <1>3, <1>4, <1>5, <1>6, <1>7 DEF RunNext, Idle

LEMMA RunInvariance == RunSpec => []RunInv
BY RunInitInv, RunStepInv, PTL DEF RunSpec

\* The record and what the call returns keep their types, the task runs stored in it
\* know no panic or cancellation (runner.go:311), and the bound on calls is kept.
THEOREM RunTypesCorrect == RunSpec => []RunTypeOK
<1> DEFINE CallerTypes == entry \in Entries /\ calls \in 1..MaxCalls /\ returned \in Returns
<1>1. RunInit => CallerTypes
  BY MaxCallsAssumption DEF RunInit, NoReturn, Returns
<1>2. RunInv /\ CallerTypes /\ [RunNext]_runVars => CallerTypes'
  <2> SUFFICES ASSUME RunInv, CallerTypes, [RunNext]_runVars PROVE CallerTypes'
    OBVIOUS
  <2>1. CASE FinishRun
    <3>1. Reply \in Returns
      BY DEF Reply, Returns, RunInv, CallInv, TypeInv
    <3> QED BY <2>1, <3>1 DEF FinishRun
  <2>2. CASE Resume
    <3>1. calls' = calls + 1 /\ calls < MaxCalls /\ entry' = entry /\ returned' = NoReturn
      BY <2>2 DEF Resume
    <3>2. calls' \in 1..MaxCalls
      BY <3>1, MaxCallsAssumption
    <3> QED BY <3>1, <3>2 DEF NoReturn, Returns
  <2>3. CASE InitializePipelineFails
    BY <2>3 DEF InitializePipelineFails, NoReturn, Returns
  <2>4. CASE UNCHANGED <<entry, returned, calls>>
    BY <2>4
  <2> QED BY <2>1, <2>2, <2>3, <2>4 DEF RunNext, StartRun, Execute, Idle, runVars, callerVars
<1>3. RunInv /\ CallerTypes => RunTypeOK
  BY DEF RunInv, RecordInv, RunTypeOK
<1> QED BY <1>1, <1>2, <1>3, RunInvariance, PTL DEF RunSpec

-----------------------------------------------------------------------------
(* Runs that have returned.                                                  *)

\* A run that is over and not suspended has a result for every task: the first
\* task without one would have been started when its inputs settled.
LEMMA NothingLeft ==
  ASSUME CallInv, closed, ~pending
  PROVE  \A t \in Tasks : Finished(results[t].outcome)
<1> USE DEF CallInv
<1>1. InFlight = {}
  BY DEF NoStrayGoroutines
<1>2. \A t \in Tasks : ~Finished(results[t].outcome) => results[t].outcome = Absent
  BY DEF Finished
<1>3. CASE exiting
  BY <1>2, <1>3
<1>4. CASE ~exiting
  <2> DEFINE Left == {t \in Tasks : ~Finished(results[t].outcome)}
  <2> SUFFICES ASSUME Left # {} PROVE FALSE
    OBVIOUS
  <2>1. Left \subseteq Nat
    BY SchedulerAssumption
  <2>2. PICK t \in Left : \A u \in Left : t <= u
    BY <2>1, FirstTask
  <2>3. t \in Tasks /\ ~Finished(results[t].outcome) /\ dispatched[t] \in Nat /\ dependencies[t] \in Int
    BY <2>2 DEF TypeInv
  <2>4. dispatched[t] = 0
    BY <1>1, <1>2, <2>3
  <2>5. dependencies[t] > 0 /\ dependencies[t] <= Cardinality({i \in Inputs(t) : Unsettled(i)})
    BY <1>4, <2>3, <2>4
  <2>6. {i \in Inputs(t) : Unsettled(i)} = {}
    <3> SUFFICES ASSUME NEW i \in Inputs(t), Unsettled(i) PROVE FALSE
      OBVIOUS
    <3>1. i \in Left
      BY <1>1, <2>3, CallInputs DEF Unsettled
    <3>2. i < t
      BY <2>3, SchedulerAssumption DEF TypeInv, IsPipeline, IsPipelineOver, Inputs
    <3>3. t <= i /\ i \in Nat /\ t \in Nat
      BY <2>1, <2>2, <3>1
    <3> QED BY <3>2, <3>3
  <2>7. Cardinality({i \in Inputs(t) : Unsettled(i)}) = 0
    BY <2>6, FS_EmptySet
  <2> QED BY <2>3, <2>5, <2>7
<1> QED BY <1>3, <1>4

\* What the record of a run that has returned says.
LEMMA ReturnedFacts ==
  ASSUME RunInv, Returned, ~run.pending \/ calls = 1
  PROVE  /\ RecordMatches /\ InFlight = {}
         /\ \A t \in Tasks : /\ results[t].outcome \in OutcomeType
                             /\ run.taskRuns[t] = TaskRunOf(results[t].outcome)
<1>1. RecordMatches
  <2>1. calls = 1 => ~AsBefore
    BY DEF AsBefore, NewRun, Returned
  <2>2. calls # 1 => ~AsBefore
    BY <2>1 DEF AsBefore
  <2> QED BY <2>1, <2>2 DEF RunInv, RecordInv
<1>2. InFlight = {}
  BY <1>1 DEF RecordMatches, RunInv, CallInv, NoStrayGoroutines
<1>3. \A t \in Tasks : results[t].outcome \in OutcomeType
  BY DEF RunInv, CallInv, TypeInv, EntryType
<1> QED BY <1>1, <1>2, <1>3 DEF RecordMatches

\* A run that is not suspended has a finished task run for every task, however
\* often it was suspended and resumed before (runner.go:287-324).
THEOREM RunsAreComplete == RunSpec => []FinishedMeansComplete
<1>1. RunInv => FinishedMeansComplete
  <2> SUFFICES ASSUME RunInv, Returned, ~run.pending PROVE \A t \in Tasks : Finished(run.taskRuns[t])
    BY DEF FinishedMeansComplete
  <2>1. ~pending /\ closed
    BY ReturnedFacts DEF RecordMatches
  <2> QED BY <2>1, NothingLeft, ReturnedFacts, TaskRunOfFacts DEF RunInv
<1> QED BY <1>1, RunInvariance, PTL

\* Among finitely many tasks there is a last one.
LEMMA LastTask ==
  ASSUME NEW S \in SUBSET Tasks, S # {}
  PROVE  \E t \in S : \A u \in S : u <= t
<1> DEFINE Later(t) == {u \in S : u > t}
<1>1. S \subseteq Nat
  BY SchedulerAssumption
<1>2. \A t \in S : Later(t) \in SUBSET Tasks /\ IsFiniteSet(Later(t)) /\ Cardinality(Later(t)) \in Nat
  BY FiniteTasks
<1>3. PICK C : C = {Cardinality(Later(t)) : t \in S}
  OBVIOUS
<1>4. C \in SUBSET Nat /\ C # {}
  BY <1>2, <1>3
<1>5. PICK n \in C : \A k \in C : n <= k
  BY <1>4, FirstTask
<1>6. PICK t \in S : n = Cardinality(Later(t))
  BY <1>3, <1>5
<1> HIDE DEF Later
<1>7. \A u \in S : n <= Cardinality(Later(u))
  BY <1>3, <1>5
<1> USE DEF Later
<1>8. ASSUME NEW u \in S, u > t PROVE FALSE
  <2>1. u \in Later(t) /\ Later(u) \subseteq Later(t) \ {u}
    <3>1. u \in Nat /\ t \in Nat /\ u > t
      BY <1>1, <1>8
    <3>2. ASSUME NEW v \in S, v > u PROVE v > t /\ v # u
      <4>1. v \in Nat
        BY <1>1
      <4> QED BY <3>1, <3>2, <4>1
    <3> QED BY <1>8, <3>2
  <2>2. n <= Cardinality(Later(u))
    BY <1>7
  <2>3. /\ Later(t) \in SUBSET Tasks /\ IsFiniteSet(Later(t)) /\ Cardinality(Later(t)) \in Nat
        /\ Cardinality(Later(u)) \in Nat
    BY <1>2
  <2> HIDE DEF Later
  <2>4. Cardinality(Later(t) \ {u}) = Cardinality(Later(t)) - 1 /\ IsFiniteSet(Later(t) \ {u})
    BY <2>1, <2>3, FS_RemoveElement
  <2>5. Cardinality(Later(u)) <= Cardinality(Later(t) \ {u})
    BY <2>1, <2>4, FS_Subset
  <2> QED BY <1>6, <2>2, <2>3, <2>4, <2>5
<1>9. \A u \in S : u \in Nat /\ t \in Nat /\ ~(u > t)
  BY <1>1, <1>8
<1>10. \A u \in S : u <= t
  BY <1>9
<1> QED BY <1>10

\* A fail-early leaves a task without outputs that failed or was cancelled: the last
\* one of those that cannot start any more.
LEMMA ExitingIsFatal ==
  ASSUME SchedulerInv, AttemptInv, ExitInv, exiting
  PROVE  HasFatalErrors
<1> DEFINE Cut == {t \in Tasks : Failed(results[t].outcome) /\ \A o \in Outputs(t) : dispatched[o] = 0}
<1>1. Cut # {}
  BY PipelineFields DEF ExitInv, SchedulerInv, TypeInv
<1>2. PICK t \in Cut : \A u \in Cut : u <= t
  BY <1>1, LastTask
<1>3. Outputs(t) = {}
  <2> SUFFICES ASSUME NEW o \in Outputs(t) PROVE FALSE
    OBVIOUS
  <2>1. o \in Tasks /\ t \in Tasks /\ t \in Inputs(o) /\ dispatched[o] = 0
    BY <1>2 DEF Outputs
  <2>2. results[o].outcome = Cancelled
    BY <2>1 DEF AttemptInv, UnstartedInv
  <2>3. \A q \in Outputs(o) : dispatched[q] = 0
    <3>1. ASSUME NEW q \in Outputs(o) PROVE dispatched[q] = 0
      <4>1. q \in Tasks /\ o \in Inputs(q) /\ dispatched[q] \in Nat
        BY DEF Outputs, SchedulerInv, TypeInv
      <4>2. ~(dispatched[q] > 0)
        BY <2>1, <4>1 DEF ExitInv
      <4> QED BY <4>1, <4>2
    <3> QED BY <3>1
  <2>4. o \in Cut
    BY <2>1, <2>2, <2>3 DEF Failed, Cancelled
  <2>5. t < o
    BY <2>1, SchedulerAssumption DEF SchedulerInv, TypeInv, IsPipeline, IsPipelineOver, Inputs
  <2>6. o <= t /\ o \in Nat /\ t \in Nat
    BY <1>2, <2>1, <2>4, SchedulerAssumption
  <2> QED BY <2>5, <2>6
<1> QED BY <1>2, <1>3 DEF HasFatalErrors

\* A run that its first call reports completed ran to its end: a fail-early always
\* makes the run errored, unless something is suspended (runner.go:289, 346).
THEOREM CompletedRunsToTheEnd == RunSpec => []CompletedMeansNothingCut
<1>1. RunInv => CompletedMeansNothingCut
  <2> SUFFICES ASSUME RunInv, Returned, calls = 1, run.state = "completed"
               PROVE  /\ ~run.failSilently
                      /\ \A t \in Tasks : Finished(run.taskRuns[t]) /\ results[t].outcome # Cancelled
                      /\ \A t \in pipeline.failEarly : run.taskRuns[t].kind = "value"
    BY DEF CompletedMeansNothingCut
  <2>1. SchedulerInv /\ AttemptInv /\ ExitInv /\ pipeline.failEarly \subseteq Tasks
    BY PipelineFields DEF RunInv, FirstCallInv, CallInv, TypeInv
  <2>2. ~pending /\ ~HasFatalErrors /\ closed /\ run.failSilently = exiting
    BY ReturnedFacts DEF RecordMatches, StateAfter
  <2>3. ~exiting
    BY <2>1, <2>2, ExitingIsFatal
  <2>4. \A t \in Tasks : Finished(results[t].outcome)
    BY <2>2, NothingLeft DEF RunInv
  <2>5. ASSUME NEW t \in Tasks PROVE results[t].outcome # Cancelled
    <3>1. dispatched[t] \in Nat /\ dispatched[t] # 0
      BY <2>1, <2>3, <2>4 DEF AttemptInv, UnstartedInv, NoEntry, Absent, Finished, SchedulerInv, TypeInv
    <3>2. t \notin InFlight
      BY ReturnedFacts
    <3>3. results[t].outcome.by = dispatched[t]
      BY <2>1, <2>3, <3>1, <3>2 DEF AttemptInv, EndedInv
    <3> QED BY <3>1, <3>3 DEF Cancelled
  <2>6. \A t \in Tasks : Finished(run.taskRuns[t])
    BY <2>4, ReturnedFacts, TaskRunOfFacts
  <2>7. \A t \in pipeline.failEarly : run.taskRuns[t].kind = "value"
    <3> SUFFICES ASSUME NEW t \in pipeline.failEarly PROVE run.taskRuns[t].kind = "value"
      OBVIOUS
    <3>1. t \in Tasks /\ ~Failed(results[t].outcome)
      BY <2>1, <2>3 DEF ExitInv
    <3>2. run.taskRuns[t].kind \in {"none", "value", "error", "pending"} /\ run.taskRuns[t].kind # "error"
      BY <3>1, ReturnedFacts, TaskRunOfFacts
    <3> QED BY <2>6, <3>1, <3>2 DEF Finished
  <2> QED BY <2>2, <2>3, <2>5, <2>6, <2>7
<1> QED BY <1>1, RunInvariance, PTL

\* The first call of a run reports a silent failure exactly when a fail-early
\* task has failed (runner.go:289).
THEOREM FirstCallFailsSilently == RunSpec => []FailSilentlyMeansFailEarly
<1>1. RunInv => FailSilentlyMeansFailEarly
  <2> SUFFICES ASSUME RunInv, Returned, calls = 1 PROVE FailSilently
    BY DEF FailSilentlyMeansFailEarly
  <2>1. run.failSilently = exiting /\ \A t \in Tasks : run.taskRuns[t].kind = "error" <=> Failed(results[t].outcome)
    BY ReturnedFacts, TaskRunOfFacts DEF RecordMatches
  <2>2. ExitInv /\ pipeline.failEarly \subseteq Tasks
    BY PipelineFields DEF RunInv, FirstCallInv, CallInv, TypeInv
  <2>3. run.failSilently \in BOOLEAN
    BY DEF RunInv, RecordInv, RunRecords
  <2>4. run.failSilently => \E t \in pipeline.failEarly : run.taskRuns[t].kind = "error"
    BY <2>1, <2>2 DEF ExitInv
  <2>5. (\E t \in pipeline.failEarly : run.taskRuns[t].kind = "error") => run.failSilently
    BY <2>1, <2>2 DEF ExitInv
  <2> QED BY <2>3, <2>4, <2>5 DEF FailSilently
<1> QED BY <1>1, RunInvariance, PTL

\* Whatever fails, suspends, panics or is cancelled, and however often the run is
\* resumed, what the record tells of a call is what happened (runner.go:287-350).
THEOREM RecordsAreTrue == RunSpec => []RecordIsTrue
BY RunsAreComplete, CompletedRunsToTheEnd, FirstCallFailsSilently, PTL DEF RecordIsTrue

\* A task run of a resumption was given the final results of its inputs, those the
\* caller supplied included, when no task fails early (scheduler.go:113-160).
THEOREM ResumptionsSeeFinalResults == RunSpec => []ResumedRunSeesFinalResults
<1>1. RunInv => ResumedRunSeesFinalResults
  BY GivenFinalResults DEF RunInv, PlainInv, SchedulerInv, ResumedRunSeesFinalResults
<1> QED BY <1>1, RunInvariance, PTL

\* Without a fail-early a task run that has finished is never changed again: no
\* call of the run starts it anew or reports another result (scheduler.go:97).
THEOREM PlainRunsKeepFinished == RunSpec => PlainResumeKeepsFinished
<1>1. RunInv /\ [RunNext]_runVars => [pipeline.failEarly = {} => KeepsFinished]_runVars
  <2> SUFFICES ASSUME RunInv, [RunNext]_runVars, pipeline.failEarly = {}, NEW t \in Tasks, Finished(run.taskRuns[t])
               PROVE  run'.taskRuns[t] = run.taskRuns[t]
    BY DEF KeepsFinished
  <2>1. CASE FinishRun
    BY <2>1 DEF FinishRun, RunInv, KeptInv
  <2>2. CASE Resume
    <3>1. PICK prior \in WithData : run' = [run EXCEPT !.taskRuns = prior]
      BY <2>2 DEF Resume
    <3>2. run'.taskRuns = prior
      BY <3>1 DEF RunInv, RecordInv, RunRecords
    <3>3. prior[t] = run.taskRuns[t]
      BY SuppliedFacts DEF RunInv
    <3> QED BY <3>2, <3>3
  <2>3. CASE UNCHANGED run
    BY <2>3
  <2> QED BY <2>1, <2>2, <2>3
          DEF RunNext, InitializePipelineFails, StartRun, Execute, Idle, runVars, callerVars
<1> QED BY <1>1, RunInvariance, PTL DEF RunSpec, PlainResumeKeepsFinished
=============================================================================

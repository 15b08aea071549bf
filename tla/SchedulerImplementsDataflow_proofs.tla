------------------ MODULE SchedulerImplementsDataflow_proofs ------------------
(****************************************************************************)
(* The scheduler implements the dataflow, for every pipeline.               *)
(****************************************************************************)
EXTENDS SchedulerImplementsDataflow, Scheduler_proofs

\* Only a retry that was cancelled reports a cancelled task run.
CancelledReports == \A rep \in reports : rep.outcome.kind = "cancelled" => exiting /\ rep.outcome = Cancelled

RefinementInv == SchedulerInv /\ AttemptInv /\ CancelledReports

LEMMA CancelledStep == CancelledReports /\ [Next]_vars => CancelledReports'
<1> SUFFICES ASSUME CancelledReports, [Next]_vars PROVE CancelledReports'
  OBVIOUS
<1>1. ASSUME NEW r \in running, NEW kind, Report(r, kind) PROVE CancelledReports'
  <2> DEFINE rep == [task |-> r.task, outcome |-> [kind |-> kind, by |-> r.no]]
  <2>1. reports' = reports \cup {rep} /\ rep.outcome.kind = kind /\ exiting' = exiting
    BY <1>1 DEF Report, flags
  <2>2. kind # "cancelled"
    BY <1>1, SchedulerAssumption DEF Report
  <2> HIDE DEF rep
  <2> QED
    BY <2>1, <2>2 DEF CancelledReports
<1>2. ASSUME NEW b \in backoffs, RetryCancelled(b) PROVE CancelledReports'
  <2> DEFINE rep == [task |-> b.task, outcome |-> Cancelled]
  <2>1. reports' = reports \cup {rep} /\ rep.outcome = Cancelled /\ exiting' = exiting /\ exiting
    BY <1>2 DEF RetryCancelled, flags
  <2> HIDE DEF rep
  <2> QED
    BY <2>1 DEF CancelledReports
<1>3. ASSUME reports' \subseteq reports, exiting => exiting' PROVE CancelledReports'
  BY <1>3 DEF CancelledReports
<1>4. ASSUME NEW rep \in reports, ReceivePending(rep) \/ ReceiveExiting(rep) \/ ReceiveForRetry(rep) \/ ReceiveFinal(rep)
      PROVE  CancelledReports'
  <2>1. reports' \subseteq reports
    BY <1>4 DEF ReceivePending, ReceiveExiting, ReceiveForRetry, ReceiveFinal, Receive
  <2>2. exiting' \/ exiting' = exiting
    BY <1>4 DEF ReceivePending, ReceiveExiting, ReceiveForRetry, ReceiveFinal, flags
  <2> QED
    BY <1>3, <2>1, <2>2
<1>5. CASE UNCHANGED <<reports, exiting>>
  BY <1>3, <1>5
<1> QED
  BY <1>1, <1>2, <1>4, <1>5
  DEF Next, Step, Terminated, SchedulerStep, ReceiveResult, DispatchStep, TaskStep, TaskReturns, TaskPanics,
      RetryStep, RaceStep, CloseTaskCh, DispatchTaskRun, RetryTimerFires, RetrySends, MapRace, vars, flags

LEMMA RefinementInvariance == Spec => []RefinementInv
<1>1. Init => CancelledReports
  BY DEF Init, NewScheduler, CancelledReports
<1> QED
  BY <1>1, CancelledStep, AttemptInvariance, PTL DEF Spec, RefinementInv

-----------------------------------------------------------------------------
(* The status of a task *)

\* Outside of the tasks in flight the status is told by the result.
LEMMA StatusOf ==
  ASSUME TypeInv, NEW t \in Tasks
  PROVE  /\ Status[t] = "active" <=> t \in InFlight
         /\ Status[t] = "idle" <=> t \notin InFlight /\ results[t].outcome.kind = "none"
         /\ Status[t] \in Dataflow!Settled <=> ~Unsettled(t)
<1>1. results[t].outcome.kind \in Kinds
  BY DEF TypeInv, EntryType, OutcomeType
<1> QED
  BY <1>1 DEF Status, Kinds, Dataflow!Settled, Unsettled, Finished

\* It changes only with the result or with the set of tasks in flight.
LEMMA SameStatus ==
  ASSUME NEW t \in Tasks, (t \in InFlight') <=> (t \in InFlight),
         t \notin InFlight => results'[t].outcome = results[t].outcome
  PROVE  Status'[t] = Status[t]
BY DEF Status

\* What the report of a task makes of its status.
ReportedStatus(rep) ==
  CASE rep.outcome.kind = "pending" -> "suspended"
    [] rep.outcome.kind = "panic" -> "error"
    [] OTHER -> rep.outcome.kind

LEMMA StatusOfReported ==
  ASSUME NEW rep \in reports, rep.task \in Tasks, rep.task \notin InFlight',
         results'[rep.task].outcome = rep.outcome, rep.outcome.kind # "none"
  PROVE  Status'[rep.task] = ReportedStatus(rep)
BY DEF Status, ReportedStatus

\* Tasks that were not dispatched are the idle ones, until the run exits.
LEMMA IdleIsUnstarted ==
  ASSUME RefinementInv, NEW t \in Tasks
  PROVE  Status[t] = "idle" <=> ~exiting /\ dispatched[t] = 0
<1>1. dispatched[t] \in Nat
  BY DEF RefinementInv, SchedulerInv, TypeInv
<1>2. Status[t] = "idle" <=> t \notin InFlight /\ results[t].outcome.kind = "none"
  BY StatusOf DEF RefinementInv, SchedulerInv
<1>3. CASE dispatched[t] = 0
  <2>1. t \notin InFlight
    BY <1>3, FlightNumbers DEF RefinementInv
  <2> QED
    BY <1>2, <1>3, <2>1 DEF RefinementInv, AttemptInv, UnstartedInv, NoEntry, Absent, Cancelled
<1>4. CASE dispatched[t] > 0
  BY <1>2, <1>4 DEF RefinementInv, AttemptInv, EndedInv
<1> QED
  BY <1>1, <1>3, <1>4

-----------------------------------------------------------------------------

LEMMA InitRefines == Init => Dataflow!Init
<1> SUFFICES ASSUME Init PROVE Dataflow!Init
  OBVIOUS
<1> DEFINE run(t) == NewMemoryTaskRun(t, 1, 0, results, CopyVars(varsMap, t))
<1>1. /\ running = {} /\ reports = {} /\ backoffs = {} /\ rebuilding = {} /\ exiting = FALSE /\ closed = FALSE
      /\ pipeline \in Pipelines /\ results = ReconstructResults(NoPrior)
      /\ taskCh = {run(t) : t \in Doable(NoPrior)}
  BY DEF Init, NewScheduler
<1>6. \A t : run(t).task = t
  BY DEF NewMemoryTaskRun
<1> HIDE DEF run
<1>2. InFlight = Doable(NoPrior)
  BY <1>1, <1>6 DEF InFlight, TasksOf
<1>3. \A t \in Tasks : results[t].outcome.kind = "none" /\ ~Finished(NoPrior[t])
  BY <1>1 DEF ReconstructResults, NoPrior, NoEntry, Finished, Absent
<1>4. ASSUME NEW t \in Tasks PROVE t \in InFlight <=> pipeline.inputs[t] = {}
  <2>1. Inputs(t) \subseteq Tasks
    BY <1>1, PipelineFields DEF Inputs
  <2>2. {i \in Inputs(t) : ~Finished(NoPrior[i])} = Inputs(t)
    BY <1>3, <2>1
  <2>3. InitialDependencies(NoPrior)[t] = Cardinality(Inputs(t))
    BY <2>2 DEF InitialDependencies
  <2>4. Cardinality(Inputs(t)) = 0 <=> Inputs(t) = {}
    BY <2>1, FiniteTasks, FS_EmptySet
  <2> QED
    BY <1>2, <1>3, <2>3, <2>4 DEF Doable, Inputs
<1>5. Status = [t \in Tasks |-> IF pipeline.inputs[t] = {} THEN "active" ELSE "idle"]
  BY <1>3, <1>4 DEF Status
<1> QED
  BY <1>1, <1>5 DEF Dataflow!Init

-----------------------------------------------------------------------------
(* The steps *)

LEMMA QuietRefines ==
  ASSUME QuietStep
  PROVE  UNCHANGED Dataflow!vars
<1>1. \A t \in Tasks : Status'[t] = Status[t]
  BY SameStatus DEF QuietStep
<1>2. Status' = Status
  BY <1>1 DEF Status
<1> QED
  BY <1>2 DEF QuietStep, Dataflow!vars

\* A task is over, and nothing else changes its status.
LEMMA EndRefines ==
  ASSUME RefinementInv, NEW rep \in reports, InFlight' = InFlight \ {rep.task},
         results'[rep.task].outcome = rep.outcome,
         \A t \in Tasks \ InFlight : results'[t].outcome = results[t].outcome
  PROVE  Status' = [Status EXCEPT ![rep.task] = ReportedStatus(rep)]
<1>1. \A t \in Tasks \ {rep.task} : Status'[t] = Status[t]
  BY SameStatus
<1>2. Status'[rep.task] = ReportedStatus(rep)
  BY StatusOfReported, AfterReceive DEF RefinementInv
<1> QED
  BY <1>1, <1>2 DEF Status

LEMMA PendingRefines ==
  ASSUME RefinementInv, NEW rep \in reports, ReceivePending(rep)
  PROVE  Dataflow!Suspend(rep.task)
<1>1. /\ reports' = reports \ {rep} /\ UNCHANGED <<pipeline, exiting, closed, taskCh, running, backoffs, rebuilding>>
      /\ ~closed /\ rep.outcome.kind = "pending" /\ results' = Recorded(rep)
  BY DEF ReceivePending, Receive
<1>2. InFlight' = InFlight \ {rep.task}
  BY <1>1, FlightAfterReceive DEF RefinementInv, SchedulerInv
<1>3. Status' = [Status EXCEPT ![rep.task] = "suspended"]
  BY <1>1, <1>2, AfterReceive, EndRefines DEF RefinementInv, ReportedStatus
<1>4. Status[rep.task] = "active"
  BY AfterReceive, StatusOf DEF RefinementInv, SchedulerInv
<1> QED
  BY <1>1, <1>3, <1>4 DEF Dataflow!Suspend, Dataflow!Active

\* In a run that exits already the task drains, a cancelled one having an attempt left.
LEMMA DrainRefines ==
  ASSUME RefinementInv, NEW rep \in reports, ReceiveExiting(rep), exiting
  PROVE  Dataflow!Drain(rep.task, ReportedStatus(rep)) /\ ReportedStatus(rep) \in Dataflow!Settled
<1>1. /\ reports' = reports \ {rep} /\ UNCHANGED <<pipeline, closed, taskCh, running, backoffs, rebuilding>>
      /\ ~closed /\ exiting' /\ rep.outcome.kind # "pending"
      /\ results' = IF FailsEarly(rep) THEN MarkRemaining(Recorded(rep)) ELSE Recorded(rep)
  BY DEF ReceiveExiting, Receive
<1>2. InFlight' = InFlight \ {rep.task}
  BY <1>1, FlightAfterReceive DEF RefinementInv, SchedulerInv
<1>3. ASSUME NEW t \in Tasks \ InFlight PROVE results'[t].outcome = results[t].outcome
  <2>1. results[t].outcome # Absent
    <3>1. Status[t] # "idle"
      BY IdleIsUnstarted
    <3> QED
      BY <3>1, StatusOf DEF RefinementInv, SchedulerInv, Absent
  <2>2. Recorded(rep)[t] = results[t]
    BY AfterReceive DEF RefinementInv
  <2> QED
    BY <1>1, <2>1, <2>2 DEF MarkRemaining
<1>4. results'[rep.task].outcome = rep.outcome
  <2>1. Recorded(rep)[rep.task].outcome = rep.outcome /\ rep.outcome # Absent /\ rep.task \in Tasks
    BY AfterReceive DEF RefinementInv
  <2> QED
    BY <1>1, <2>1 DEF MarkRemaining
<1>5. Status' = [Status EXCEPT ![rep.task] = ReportedStatus(rep)]
  BY <1>2, <1>3, <1>4, EndRefines
<1>6. Status[rep.task] = "active"
  BY AfterReceive, StatusOf DEF RefinementInv, SchedulerInv
<1>7. rep.outcome.kind = "cancelled" => pipeline.retries[rep.task] > 1
  <2> SUFFICES ASSUME rep.outcome.kind = "cancelled" PROVE pipeline.retries[rep.task] > 1
    OBVIOUS
  <2>1. /\ dispatched[rep.task] \in Nat /\ dispatched[rep.task] > 0 /\ pipeline.retries[rep.task] \in Nat
    BY AfterReceive, FlightNumbers DEF RefinementInv
  <2>2. rep.outcome.by = 0
    BY DEF RefinementInv, CancelledReports, Cancelled
  <2>3. HasAttemptsLeft(rep.task)
    BY <2>1, <2>2 DEF RefinementInv, AttemptInv, FlightInv
  <2> QED
    BY <2>1, <2>3 DEF HasAttemptsLeft
<1>8. ReportedStatus(rep) \in {"value", "error", "cancelled"} /\ (ReportedStatus(rep) = "cancelled" => rep.outcome.kind = "cancelled")
  <2>1. rep.outcome.kind \in Kinds /\ rep.outcome.kind # "none"
    BY DEF RefinementInv, SchedulerInv, TypeInv, ReportType, OutcomeType
  <2> QED
    BY <1>1, <2>1 DEF ReportedStatus, Kinds
<1> QED
  BY <1>1, <1>5, <1>6, <1>7, <1>8 DEF Dataflow!Drain, Dataflow!Active, Dataflow!Settled

\* The failure that makes the run exit cancels what is idle.
LEMMA FailEarlyRefines ==
  ASSUME RefinementInv, NEW rep \in reports, ReceiveExiting(rep), ~exiting
  PROVE  Dataflow!FailEarly(rep.task)
<1>1. /\ reports' = reports \ {rep} /\ UNCHANGED <<pipeline, closed, taskCh, running, backoffs, rebuilding>>
      /\ ~closed /\ exiting' /\ FailsEarly(rep) /\ results' = MarkRemaining(Recorded(rep))
  BY DEF ReceiveExiting, Receive
<1>2. InFlight' = InFlight \ {rep.task}
  BY <1>1, FlightAfterReceive DEF RefinementInv, SchedulerInv
<1>3. /\ rep.task \in Tasks /\ rep.task \in InFlight /\ rep.outcome.kind # "none"
      /\ Recorded(rep)[rep.task].outcome = rep.outcome /\ rep.outcome # Absent
      /\ \A t \in Tasks \ {rep.task} : Recorded(rep)[t] = results[t]
  BY AfterReceive DEF RefinementInv
<1>4. Status'[rep.task] = "error"
  <2>1. results'[rep.task].outcome = rep.outcome
    BY <1>1, <1>3 DEF MarkRemaining
  <2>2. rep.outcome.kind \in {"error", "panic"}
    BY <1>1 DEF FailsEarly, Failed, RefinementInv, CancelledReports
  <2> QED
    BY <1>2, <1>3, <2>1, <2>2, StatusOfReported DEF ReportedStatus
<1>5. ASSUME NEW t \in Tasks, t # rep.task
      PROVE  Status'[t] = IF Status[t] = "idle" THEN "cancelled" ELSE Status[t]
  <2>1. results'[t].outcome = IF results[t].outcome = Absent THEN Cancelled ELSE results[t].outcome
    BY <1>1, <1>3, <1>5 DEF MarkRemaining
  <2>2. t \in InFlight' <=> t \in InFlight
    BY <1>2, <1>5
  <2>3. CASE Status[t] = "idle"
    <3>1. t \notin InFlight /\ results[t].outcome = Absent
      BY <2>3, IdleIsUnstarted, StatusOf DEF RefinementInv, SchedulerInv, AttemptInv, UnstartedInv, NoEntry
    <3> QED
      BY <2>1, <2>2, <2>3, <3>1 DEF Status, Cancelled
  <2>4. CASE Status[t] # "idle"
    <3>1. t \notin InFlight => results[t].outcome # Absent
      BY <2>4, StatusOf DEF RefinementInv, SchedulerInv, Absent
    <3> QED
      BY <2>1, <2>2, <2>4, <3>1, SameStatus
  <2> QED
    BY <2>3, <2>4
<1>6. Status[rep.task] = "active"
  BY <1>3, StatusOf DEF RefinementInv, SchedulerInv
<1>7. Status' = [u \in Tasks |-> IF u = rep.task THEN "error" ELSE IF Status[u] = "idle" THEN "cancelled" ELSE Status[u]]
  BY <1>4, <1>5 DEF Status
<1> QED
  BY <1>1, <1>6, <1>7 DEF Dataflow!FailEarly, Dataflow!Active, FailsEarly

\* The outputs that the last input makes ready are those that it unblocks: they
\* are idle, and the counter that reaches zero says that no other input is unsettled.
LEMMA ReadyIsUnblocked ==
  ASSUME RefinementInv, SchedulerInv', NEW rep \in reports, ReceiveFinal(rep)
  PROVE  NewlyReady(rep.task) = Dataflow!Unblocked(rep.task)
<1>1. ~exiting /\ ~exiting' /\ pipeline' = pipeline /\ results' = Recorded(rep) /\ dispatched' = CountDispatch(NewlyReady(rep.task))
  BY DEF ReceiveFinal, flags
<1>2. /\ rep.task \in Tasks /\ rep.task \in InFlight
      /\ \A t \in Tasks \ {rep.task} : Recorded(rep)[t] = results[t]
  BY AfterReceive DEF RefinementInv
<1>3. InFlight' = (InFlight \ {rep.task}) \cup NewlyReady(rep.task)
  BY FlightAfterFinal DEF RefinementInv, SchedulerInv
<1>4. \A t \in Tasks : Inputs(t) \in SUBSET Tasks
  BY PipelineFields DEF RefinementInv, SchedulerInv, TypeInv, Inputs
<1>5. ASSUME NEW u \in NewlyReady(rep.task) PROVE u \in Dataflow!Unblocked(rep.task)
  <2>1. u \in Tasks /\ dispatched[u] = 0 /\ rep.task \in Inputs(u)
    BY <1>1, NewlyReadyFresh DEF RefinementInv, SchedulerInv, NewlyReady, Outputs
  <2>2. Status[u] = "idle"
    BY <1>1, <2>1, IdleIsUnstarted
  <2>3. dispatched'[u] > 0
    BY <1>1, <2>1 DEF CountDispatch
  <2>4. ASSUME NEW i \in Inputs(u) \ {rep.task} PROVE Status[i] \in Dataflow!Settled
    <3>1. i \in Tasks
      BY <1>4, <2>1
    <3>2. ~Unsettled(i)'
      BY <1>1, <2>1, <2>3 DEF SchedulerInv, SettledInputs, Inputs
    <3>3. i \notin InFlight' /\ Finished(results'[i].outcome)
      BY <3>2 DEF Unsettled, Finished
    <3>4. ~Unsettled(i)
      BY <1>1, <1>2, <1>3, <2>4, <3>1, <3>3 DEF Unsettled
    <3> QED
      BY <3>1, <3>4, StatusOf DEF RefinementInv, SchedulerInv
  <2> QED
    BY <2>1, <2>2, <2>4 DEF Dataflow!Unblocked, Inputs
<1>6. ASSUME NEW u \in Dataflow!Unblocked(rep.task) PROVE u \in NewlyReady(rep.task)
  <2>1. /\ u \in Tasks /\ rep.task \in Inputs(u)
        /\ \A i \in Inputs(u) \ {rep.task} : Status[i] \in Dataflow!Settled
    BY DEF Dataflow!Unblocked, Inputs
  <2>2. {i \in Inputs(u) : Unsettled(i)} = {rep.task}
    BY <1>4, <2>1, StatusOf, ReportingInFlight DEF RefinementInv, SchedulerInv
  <2>3. dependencies[u] = 1
    BY <1>1, <2>1, <2>2, FS_Singleton DEF RefinementInv, SchedulerInv, DependencyCount
  <2> QED
    BY <2>1, <2>3 DEF NewlyReady, Decremented, Outputs
<1> QED
  BY <1>5, <1>6

LEMMA FinalRefines ==
  ASSUME RefinementInv, SchedulerInv', NEW rep \in reports, ReceiveFinal(rep)
  PROVE  Dataflow!Settle(rep.task, ReportedStatus(rep)) /\ ReportedStatus(rep) \in Dataflow!Settled
<1>1. /\ ~closed /\ UNCHANGED <<pipeline, exiting, closed>> /\ ~exiting /\ ~FailsEarly(rep)
      /\ rep.outcome.kind # "pending" /\ results' = Recorded(rep)
  BY DEF ReceiveFinal, Receive, flags
<1>2. /\ rep.task \in Tasks /\ rep.task \in InFlight /\ rep.outcome.kind # "none"
      /\ Recorded(rep)[rep.task].outcome = rep.outcome
      /\ \A t \in Tasks \ {rep.task} : Recorded(rep)[t] = results[t]
  BY AfterReceive DEF RefinementInv
<1>3. InFlight' = (InFlight \ {rep.task}) \cup NewlyReady(rep.task)
  BY FlightAfterFinal DEF RefinementInv, SchedulerInv
<1>4. rep.task \notin NewlyReady(rep.task)
  BY <1>1, <1>2, NewlyReadyFresh DEF RefinementInv, SchedulerInv
<1>5. Status'[rep.task] = ReportedStatus(rep)
  BY <1>1, <1>2, <1>3, <1>4, StatusOfReported
<1>6. ASSUME NEW t \in Tasks, t # rep.task
      PROVE  Status'[t] = IF t \in Dataflow!Unblocked(rep.task) THEN "active" ELSE Status[t]
  <2>1. CASE t \in NewlyReady(rep.task)
    <3>1. Status'[t] = "active"
      BY <1>3, <2>1 DEF Status
    <3> QED
      BY <2>1, <3>1, ReadyIsUnblocked
  <2>2. CASE t \notin NewlyReady(rep.task)
    BY <1>1, <1>2, <1>3, <1>6, <2>2, ReadyIsUnblocked, SameStatus
  <2> QED
    BY <2>1, <2>2
<1>7. Status' = [u \in Tasks |-> IF u = rep.task THEN ReportedStatus(rep)
                                 ELSE IF u \in Dataflow!Unblocked(rep.task) THEN "active" ELSE Status[u]]
  BY <1>5, <1>6 DEF Status
<1>8. Status[rep.task] = "active"
  BY <1>2, StatusOf DEF RefinementInv, SchedulerInv
<1>9. ReportedStatus(rep) = "value" \/ (ReportedStatus(rep) = "error" /\ rep.task \notin pipeline.failEarly)
  <2>1. rep.outcome.kind \in Kinds
    BY DEF RefinementInv, SchedulerInv, TypeInv, ReportType, OutcomeType
  <2>2. rep.outcome.kind # "cancelled"
    BY <1>1 DEF RefinementInv, CancelledReports
  <2> QED
    BY <1>1, <1>2, <2>1, <2>2 DEF ReportedStatus, Kinds, FailsEarly, Failed
<1> QED
  BY <1>1, <1>7, <1>8, <1>9 DEF Dataflow!Settle, Dataflow!Active, Dataflow!Settled

LEMMA CloseRefines ==
  ASSUME RefinementInv, SchedulerInv', CloseTaskCh
  PROVE  Dataflow!Finish
<1>1. /\ ~closed /\ closed'
      /\ UNCHANGED <<pipeline, results, exiting, taskCh, running, reports, backoffs, rebuilding>>
  BY DEF CloseTaskCh
<1>2. InFlight' = {} /\ InFlight' = InFlight
  BY <1>1 DEF SchedulerInv, NoStrayGoroutines, InFlight
<1>3. \A t \in Tasks : Status[t] # "active"
  BY <1>2, StatusOf DEF RefinementInv, SchedulerInv
<1>4. Status' = Status
  BY <1>1, <1>2 DEF Status
<1> QED
  BY <1>1, <1>3, <1>4 DEF Dataflow!Finish

-----------------------------------------------------------------------------

LEMMA StepRefines == RefinementInv /\ [Next]_vars => [Dataflow!Next]_(Dataflow!vars)
<1> SUFFICES ASSUME RefinementInv, [Next]_vars PROVE Dataflow!Next \/ UNCHANGED Dataflow!vars
  OBVIOUS
<1>0. SchedulerInv /\ SchedulerInv'
  BY StepInv DEF RefinementInv
<1>1. ASSUME NEW rep \in reports, ReceivePending(rep) PROVE Dataflow!Next
  BY <1>0, <1>1, PendingRefines, AfterReceive DEF Dataflow!Next
<1>2. ASSUME NEW rep \in reports, ReceiveExiting(rep) PROVE Dataflow!Next
  <2>1. rep.task \in Tasks
    BY <1>0, AfterReceive
  <2> QED
    BY <1>2, <2>1, DrainRefines, FailEarlyRefines DEF Dataflow!Next
<1>3. ASSUME NEW rep \in reports, ReceiveFinal(rep) PROVE Dataflow!Next
  <2>1. rep.task \in Tasks
    BY <1>0, AfterReceive
  <2> QED
    BY <1>0, <1>3, <2>1, FinalRefines DEF Dataflow!Next
<1>4. CASE CloseTaskCh
  BY <1>0, <1>4, CloseRefines DEF Dataflow!Next
<1>5. QuietStep => UNCHANGED Dataflow!vars
  BY QuietRefines
<1> QED
  BY <1>0, <1>1, <1>2, <1>3, <1>4, <1>5, DispatchIsQuiet, ReportIsQuiet, RetryTimerIsQuiet,
     RetryCancelledIsQuiet, RetrySendsIsQuiet, ForRetryIsQuiet, MapRaceIsQuiet, StutterIsQuiet
  DEF SchedulerInv, Next, Step, Terminated, SchedulerStep, ReceiveResult, DispatchStep, TaskStep,
      TaskReturns, TaskPanics, RetryStep, RaceStep

\* Goroutines, channels, counters and retries implement the dataflow of the
\* pipeline: a task starts when its last input settles, a failed fail-early task
\* cancels what has not started and nothing else, and the run is over when no task
\* is active.
THEOREM DataflowIsImplemented == Spec => ImplementsDataflow
<1>1. Init => Dataflow!Init
  BY InitRefines
<1>2. RefinementInv /\ [Next]_vars => [Dataflow!Next]_(Dataflow!vars)
  BY StepRefines
<1> QED
  BY <1>1, <1>2, RefinementInvariance, PTL DEF Spec, ImplementsDataflow, Dataflow!Spec
=============================================================================

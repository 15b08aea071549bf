------------------------------ MODULE TaskRunIds ------------------------------
(****************************************************************************)
(* The ids of task runs over the life of runs that are suspended and        *)
(* resumed with Runner.Run.  A task holds the id its next task run gets;    *)
(* the tasks belong to the pipeline, which several runs may share, because  *)
(* their Spec.Pipeline is set.  Tasks are independent of each other here:   *)
(* Scheduler has their order, PipelineRun the other fields of the record.   *)
(****************************************************************************)
EXTENDS Naturals

CONSTANTS
  Runs,
  NumTasks,   \* tasks of the pipeline
  Shared,     \* whether the runs share one Spec.Pipeline
  MaxResumes  \* a bound of the model

ASSUME IdsAssumption == Runs \subseteq Nat \ {0} /\ NumTasks \in Nat /\ Shared \in BOOLEAN /\ MaxResumes \in Nat

VARIABLES
  uuid,     \* BaseTask.uuid, by pipeline and task
  nextId,   \* uuid.New gives ids never used before
  pc,       \* where each call of Run is
  position, \* the task its loop has come to
  results,  \* scheduler.results
  record,   \* Run.PipelineTaskRuns
  resumes

idVars == <<uuid, nextId, pc, position, results, record, resumes>>

Tasks == 1..NumTasks
PipelineOf(r) == IF Shared THEN 0 ELSE r
Entry(id, status, by) == [id |-> id, status |-> status, by |-> by]
Absent == Entry(0, "absent", "nobody")

IdInit ==
  /\ uuid = [p \in Runs \cup {0} |-> [t \in Tasks |-> 0]] /\ nextId = 1
  /\ pc = [r \in Runs |-> "initializing"] /\ position = [r \in Runs |-> 1]
  /\ results = [r \in Runs |-> [t \in Tasks |-> Absent]]
  /\ record = [r \in Runs |-> [t \in Tasks |-> Absent]]
  /\ resumes = [r \in Runs |-> 0]

\* One iteration of a loop over the tasks.
Loop(r, this, next) ==
  /\ pc[r] = this
  /\ IF position[r] < NumTasks
     THEN position' = [position EXCEPT ![r] = @ + 1] /\ UNCHANGED pc
     ELSE position' = [position EXCEPT ![r] = 1] /\ pc' = [pc EXCEPT ![r] = next]

SetUuid(r, id) == uuid' = [uuid EXCEPT ![PipelineOf(r)][position[r]] = id]

-----------------------------------------------------------------------------

\* InitializePipeline
Initialize(r) ==
  /\ Loop(r, "initializing", "retaining")
  /\ SetUuid(r, nextId) /\ nextId' = nextId + 1
  /\ UNCHANGED <<results, record, resumes>>

RetainFinished(r) ==  \* mutant: pending task runs are skipped
  /\ Loop(r, "retaining", "starting")
  /\ IF record[r][position[r]].status = "finished" THEN SetUuid(r, record[r][position[r]].id) ELSE UNCHANGED uuid
  /\ UNCHANGED <<nextId, results, record, resumes>>
\* "retain old UUID values"
Retain(r) ==
  /\ Loop(r, "retaining", "starting")
  /\ IF record[r][position[r]].status # "absent" THEN SetUuid(r, record[r][position[r]].id) ELSE UNCHANGED uuid
  /\ UNCHANGED <<nextId, results, record, resumes>>

\* reconstructResults leaves the id out.
ReconstructResults(r) ==
  /\ pc[r] = "starting"
  /\ pc' = [pc EXCEPT ![r] = "running"]
  /\ results' = [results EXCEPT ![r] = [t \in Tasks |->
                   IF record[r][t].status = "finished" THEN Entry(0, "finished", "reconstructed") ELSE Absent]]
  /\ UNCHANGED <<uuid, nextId, position, record, resumes>>

TaskEnds(r, t, entry) ==
  /\ pc[r] = "running" /\ results[r][t] = Absent
  /\ results' = [results EXCEPT ![r][t] = entry]
  /\ UNCHANGED <<uuid, pc, position, record, resumes>>

\* executeTaskRun reads the id when the task has returned.
ExecuteTaskRun(r, t, status) ==
  /\ TaskEnds(r, t, Entry(uuid[PipelineOf(r)][t], status, "executed"))
  /\ UNCHANGED nextId

\* The panic handler of run, and markRemaining.
Panics(r, t) == TaskEnds(r, t, Entry(nextId, "finished", "panicked")) /\ nextId' = nextId + 1
IsCancelled(r, t) == TaskEnds(r, t, Entry(0, "finished", "cancelled")) /\ UNCHANGED nextId

FinishRun(r) ==
  /\ pc[r] = "running" /\ \A t \in Tasks : results[r][t] # Absent
  /\ record' = [record EXCEPT ![r] = results[r]]
  /\ pc' = [pc EXCEPT ![r] = IF \E t \in Tasks : results[r][t].status = "pending" THEN "suspended" ELSE "over"]
  /\ UNCHANGED <<uuid, nextId, position, results, resumes>>

\* The caller fills in some of the data that is awaited, and runs it again.
Resume(r) ==
  /\ pc[r] = "suspended" /\ resumes[r] < MaxResumes
  /\ \E S \in SUBSET {t \in Tasks : record[r][t].status = "pending"} :
       record' = [record EXCEPT ![r] = [t \in Tasks |->
                    IF t \in S THEN [record[r][t] EXCEPT !.status = "finished"] ELSE record[r][t]]]
  /\ resumes' = [resumes EXCEPT ![r] = @ + 1]
  /\ pc' = [pc EXCEPT ![r] = "initializing"]
  /\ UNCHANGED <<uuid, nextId, position, results>>

AllOver ==
  /\ \A r \in Runs : pc[r] = "over" \/ (pc[r] = "suspended" /\ resumes[r] = MaxResumes)
  /\ UNCHANGED idVars

IdNext ==
  \/ \E r \in Runs : \/ Initialize(r) \/ Retain(r) \/ ReconstructResults(r)
                     \/ \E t \in Tasks : \/ \E status \in {"pending", "finished"} : ExecuteTaskRun(r, t, status)
                                         \/ Panics(r, t) \/ IsCancelled(r, t)
                     \/ FinishRun(r) \/ Resume(r)
  \/ AllOver

IdSpec == IdInit /\ [][IdNext]_idVars

-----------------------------------------------------------------------------
(* Properties *)

\* No two task runs of any run have the same id, at no time: whoever has the
\* data a suspended run waits for names the task run by it (runner.go:235,
\* 278, 447).
IdsAreUnique ==
  \A r, q \in Runs, t, u \in Tasks :
    record[r][t].id # 0 /\ record[r][t].id = record[q][u].id => r = q /\ t = u

\* "retain old UUID values" (runner.go:478): a task run that was pending and is
\* executed again keeps its id.
PendingIdsAreKept ==
  [][\A r \in Runs, t \in Tasks :
       record[r][t].status = "pending" /\ record'[r][t].by = "executed"
         => record'[r][t].id = record[r][t].id]_idVars

\* The two together: whoever has an id has one task run by it, now and later.
IdsIdentify == []IdsAreUnique /\ PendingIdsAreKept

-----------------------------------------------------------------------------
(* What the comment says and the code does not keep *)

\* The same for a task run that was finished when the run was resumed.
FinishedIdsAreKept ==
  [][\A r \in Runs, t \in Tasks :
       record[r][t].status = "finished" => record'[r][t].id = record[r][t].id]_idVars
=============================================================================

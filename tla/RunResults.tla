------------------------------ MODULE RunResults ------------------------------
(****************************************************************************)
(* What remains of a run when its scheduler is over: the tail of runner.run *)
(* makes the task runs and the outputs of the run record and the task run   *)
(* results it returns, FinalResult makes the result of these.  Both go      *)
(* through scheduler.results, a map that Go iterates in any order, and sort *)
(* by output index: sort.Slice does not keep the order of equals.           *)
(****************************************************************************)
EXTENDS Integers, Sequences, SequencesExt, FiniteSetsExt

CONSTANT Tables  \* the result tables a scheduler may leave

\* finished: when; terminal: no task depends on it; error, value: its result.
IsTable(t) ==
  /\ IsFiniteSet(DOMAIN t)
  /\ \A k \in DOMAIN t : /\ t[k].index \in Int /\ t[k].finished \in Nat
                         /\ t[k].terminal \in BOOLEAN /\ t[k].error \in BOOLEAN

ASSUME TablesAssumption == \A t \in Tables : IsTable(t)

VARIABLES
  results,         \* scheduler.results, by task
  stage,
  taskRuns,        \* run.PipelineTaskRuns, a sequence of tasks
  run,             \* the errors, outputs and state of the run record
  taskRunResults,  \* what runner.run returns, a sequence of tasks
  final            \* what FinalResult makes of it

resultVars == <<results, stage, taskRuns, run, taskRunResults, final>>

Tasks == DOMAIN results
None == [kind |-> "none"]

\* A result: its value, or nil if there is an error.
Value(k) == IF results[k].error THEN "nil" ELSE results[k].value

ResultsInit ==
  /\ results \in Tables /\ stage = "taskRuns"
  /\ taskRuns = <<>> /\ taskRunResults = <<>>
  /\ run = None /\ final = None

\* What a sort by less may make of a sequence.
Sorted(s, Less(_, _)) ==
  {p \in SetToSeqs(Range(s)) : \A i, j \in DOMAIN p : i < j => ~Less(p[j], p[i])}
\* The same if equals keep their order.
StablySorted(s, Less(_, _)) ==
  {p \in Sorted(s, Less) : \A i, j \in DOMAIN s : i < j /\ ~Less(s[i], s[j]) /\ ~Less(s[j], s[i])
                             => \E k, l \in DOMAIN p : k < l /\ p[k] = s[i] /\ p[l] = s[j]}

ByIndex(a, b) == results[a].index < results[b].index
ByIndexThenTimeOnly(a, b) == results[a].finished < results[b].finished  \* mutant: the index is not compared
ByIndexThenTime(a, b) ==
  IF results[a].index = results[b].index THEN results[a].finished < results[b].finished ELSE ByIndex(a, b)

-----------------------------------------------------------------------------
(* The tail of runner.run *)

\* The slice is sorted after every addition.
AddTaskRun ==
  /\ stage = "taskRuns"
  /\ \E k \in Tasks \ Range(taskRuns) : taskRuns' \in Sorted(Append(taskRuns, k), ByIndexThenTime)
  /\ UNCHANGED <<results, stage, run, taskRunResults, final>>

\* The terminal tasks of s, in its order.
Terminals(s) ==
  LET at == {i \in DOMAIN s : results[s[i]].terminal}
  IN [n \in 1..Cardinality(at) |-> s[CHOOSE i \in at : Cardinality({j \in at : j <= i}) = n]]

UpdateRun ==
  /\ stage = "taskRuns" /\ Range(taskRuns) = Tasks
  /\ LET terminals == Terminals(taskRuns)
         fatal == [i \in DOMAIN terminals |-> results[terminals[i]].error]
     IN run' = [kind |-> "run",
                allErrors |-> Cardinality({i \in DOMAIN taskRuns : results[taskRuns[i]].error}),
                fatalErrors |-> fatal,
                outputs |-> [i \in DOMAIN terminals |-> Value(terminals[i])],
                state |-> IF TRUE \in Range(fatal) THEN "errored" ELSE "completed"]
  /\ stage' = "results"
  /\ UNCHANGED <<results, taskRuns, taskRunResults, final>>

CollectResults ==
  /\ stage = "results"
  /\ \E s \in SetToSeqs(Tasks) : taskRunResults' \in StablySorted(s, ByIndex)
  /\ stage' = "returned"
  /\ UNCHANGED <<results, taskRuns, run, final>>

-----------------------------------------------------------------------------
(* FinalResult, called by whoever executed the run; it sorts its receiver. *)

FinalResult ==
  /\ stage = "returned"
  /\ \E s \in Sorted(taskRunResults, ByIndex) :
       LET terminals == Terminals(s)
       IN /\ taskRunResults' = s
          /\ IF terminals = <<>> THEN final' = [kind |-> "panic"]
             ELSE final' = [kind |-> "result",
                            allErrors |-> [i \in DOMAIN s |-> results[s[i]].error],
                            fatalErrors |-> [i \in DOMAIN terminals |-> results[terminals[i]].error],
                            values |-> [i \in DOMAIN terminals |-> Value(terminals[i])]]
  /\ stage' = "final"
  /\ UNCHANGED <<results, taskRuns, run>>

Over == stage = "final" /\ UNCHANGED resultVars

ResultsNext == AddTaskRun \/ UpdateRun \/ CollectResults \/ FinalResult \/ Over

ResultsSpec == ResultsInit /\ [][ResultsNext]_resultVars

-----------------------------------------------------------------------------
(* SingularResult, and FinalResult once more *)

HasFatalErrors(f) == TRUE \in Range(f.fatalErrors)
HasErrors(f) == TRUE \in Range(f.allErrors)

SingularResult(f) ==
  IF Len(f.fatalErrors) # 1 \/ Len(f.values) # 1 THEN None
  ELSE [kind |-> "singular", error |-> f.fatalErrors[1], value |-> f.values[1]]

GetTaskRunResultsFinishedAt(s) == Max({0} \cup {results[k].finished : k \in Range(s)})

-----------------------------------------------------------------------------
(* Properties *)

Done == stage = "final" /\ final.kind = "result"
TerminalTasks == {k \in Tasks : results[k].terminal}
Distinct(S) == \A a, b \in S : results[a].index = results[b].index => a = b

\* If no two terminal tasks have the same output index, the run record and the
\* result that is made of the task run results are about the same outputs in
\* the same order, although they are sorted by different keys and the order of
\* the other tasks is left to the map (runner.go:318-343, common.go:227-246).
OutputsAgree ==
  Done /\ Distinct(TerminalTasks) =>
    /\ run.outputs = final.values /\ run.fatalErrors = final.fatalErrors
    /\ \A k \in TerminalTasks :
         LET position == Cardinality({j \in TerminalTasks : results[j].index < results[k].index}) + 1
         IN final.values[position] = Value(k)

\* The two records agree about success whatever the indices: the run has failed
\* exactly if a terminal task has, in the one and in the other, and an error of
\* any task is in both (runner.go:346-350, common.go:152-170).
ErrorsAgree ==
  Done => /\ (run.state = "errored" <=> HasFatalErrors(final))
          /\ (run.state = "errored" <=> \E k \in TerminalTasks : results[k].error)
          /\ (run.allErrors > 0 <=> HasErrors(final))
          /\ run.allErrors = Cardinality({i \in DOMAIN final.allErrors : final.allErrors[i]})

\* A run with one terminal task has a singular result, that of this task, no
\* matter where the sorts put it, and the time it finished is no later than
\* that of the results (common.go:180-185, 215-223).
SingularIsTheTerminal ==
  Done /\ Cardinality(TerminalTasks) = 1 =>
    LET k == CHOOSE k \in TerminalTasks : TRUE
    IN /\ SingularResult(final) = [kind |-> "singular", error |-> results[k].error, value |-> Value(k)]
       /\ results[k].finished <= GetTaskRunResultsFinishedAt(taskRunResults)

\* The three together: the run record and the result tell the same about a run.
RecordsTellTheSame == OutputsAgree /\ ErrorsAgree /\ SingularIsTheTerminal

-----------------------------------------------------------------------------
(* What the code says of itself and does not keep *)

\* "Ensure that task run results are ordered by their output index"
\* (runner.go:363): the results and the outputs of the record are in one order.
RecordsAgree == Done => run.outputs = final.values

\* "Expected at least one task to be final" (common.go:243).
SomeTaskIsFinal == final.kind # "panic"
=============================================================================

# Formal verification of nocode-pipeline

TLA+ models, TLC runs and TLAPS proofs for the pipeline runner in `src/pipeline`.
`PROJECT.json` is the index: components, runs, mutants, the map from definitions
to source lines, findings, hazards and theorems.

## 1. The system

A *pipeline* is a DAG of *tasks* written in DOT. A *run* executes it once. The
repository has no documentation besides its comments; all claims below refer to
source lines under `src/pipeline/`.

| component | state | operations | interaction |
|---|---|---|---|
| scheduler (`scheduler.go`) | dependency counters, `waiting`, result table, variables, `pending`, `exiting`, two channels | `newScheduler`, the loop of `Run`, retry goroutines, `markRemaining`, `report` | sends task runs on `taskCh` (buffered), receives results on `resultCh` (unbuffered) |
| dispatch and task goroutines (`runner.go:251-285`, `398-454`, `recover.go`) | the task runs in progress | receive from `taskCh`, `executeTaskRun`, recover a panic, report | one goroutine per task run |
| run record and entry points (`runner.go:188-225`, `287-396`, `457-501`, `models.go`) | the `Run` record | `Run`, `ExecuteRun`, `ExecuteAndInsertFinishedRun`, resumption | creates the scheduler, reads it after `taskCh` is closed, calls `runFinished` |
| runner service (`runner.go:87-140`, `503-532`) | `chStop`, wait group, reaper worker | `Start`, `Close`, reaper loop, `scheduleUnfinishedRuns` | `chStop` cancels the contexts of task runs |
| deadlines and back-off (`runner.go:188-203`, `264-267`, `410-423`, `task.base.go`) | contexts and timers | shortening of the caller's deadline, run, job and task time-outs, back-off | bound every `Task.Run` but no back-off |
| graph and parser (`graph.go`, `task_types.go`) | the graph, then `Pipeline.Tasks` | `UnmarshalText`, implicit edges, `Parse` | produces what the scheduler executes |
| variables (`variables.go`, `keypath.go`) | a map of results by dot id | `Set`, `Copy`, `Get` | set by the scheduler, copied for every task run |
| parameter resolution (`getters.go`, `task_params.go`, `task_object_params.go`) | none | `ResolveParam`, getters, conversions | reads variables and inputs inside `Task.Run` |
| task types (`task.*.go`) | task parameters | `Run` of each type | executed by task goroutines |
| HTTP (`task.http.go`, `http.go`, `common_http.go`, `http_allowed_ips.go`) | clients | request with limits | I/O |

What is hard in it, and what correctness means:

- *scheduler*: five kinds of goroutines act on one run. A task must start once, when
  all its inputs have settled, with their final results; failed attempts are
  repeated within the budget; a fail-early cancels what has not started and still
  waits for what has; the run ends when, and only when, nothing is in flight.
- *run record*: its state and the returned values agree with what happened to the
  tasks; a suspended run can be resumed without repeating what is finished.
- *runner service*: `Close` ends the service's goroutines; nothing is left behind.
- *deadlines*: no call outlives the deadline it was given.
- *graph*: the result of parsing does not depend on map order, every variable
  reference is a dependency, and tasks are numbered after their inputs.
- *variables*: task runs do not share what they modify.
- *parameters, task types*: conversions and arithmetic at the limits of their types.

The hazards this leads to are listed in `PROJECT.json`, each at its line, with the
properties that would notice it going wrong, or with a note where the code does not
keep what would have to be stated (section 3, *Disagreements*).

## 2. Modules

| module | models | lines of the code |
|---|---|---|
| `Scheduler` | one execution: scheduler goroutine, dispatch loop, task goroutines, retry goroutines | `scheduler.go`, `runner.go:251-285, 398-454`, `recover.go` |
| `PipelineDataflow`, `SchedulerImplementsDataflow` | the abstract specification, a status per task and nothing else, and the refinement mapping to it | |
| `PipelineRun` (extends `Scheduler`) | the run record, the entry points, suspension and resumption | `runner.go:188-250, 287-396, 457-501`, `models.go` |
| `PipelineShape` | what the scheduler expects of a pipeline: assumed by `Scheduler`, shown of `PipelineGraph` | |
| `PipelineGraph` | `Parse`: edges, implicit edges, topological order, linking, rejection | `graph.go`, `task_types.go` |
| `RunnerService` | `Start`, `Close`, the reaper loop, the sleeper task | `runner.go:87-140, 503-532` |
| `TaskContext` | deadlines, time-outs and back-offs of a call with one task that may be retried, in time | `runner.go:188-203, 264-267, 404-423`, `task.base.go`, `common_http.go:88-110`, `scheduler.go:225-255` |
| `VarsHeap` | variables as references to maps: `Copy`, `Set`, `mapGoValue` item by item, `Merge` key by key | `variables.go`, `getters.go:113-205`, `task.merge.go` |
| `TaskParams` | the values that flow between tasks, `Vars.Get`, the getters, every conversion but those to integers | `getters.go`, `keypath.go`, `task_params.go`, `task_object_params.go` |
| `ParamTypes` (extends `TaskParams`) | one value is unmarshalled to one parameter type | `task_params.go` |
| `IntegerParams` | the conversions to integers, with the limits of Go's types as constants | `task_params.go:178-386, 764-826` |
| `TaskSemantics` (extends `TaskParams`) | `Run` of every task type without a network | `task.*.go`, `common.go:271-290` |
| `HTTPTask` (extends `TaskSemantics`) | `HTTPTask.Run` over its attempts, with the server | `task.http.go`, `http.go`, `common_http.go`, `common.go:114-123` |
| `RunResults` | the tail of `runner.run` as far as it sorts, `FinalResult`, `SingularResult` | `runner.go:311-375`, `common.go:140-250` |
| `TaskRunIds` | the ids of task runs over suspensions, and runs that share a pipeline | `runner.go:227-250, 440-450, 478-487`, `models.go:28-34` |
| `Scheduler_proofs`, `SchedulerImplementsDataflow_proofs`, `PipelineRun_proofs`, `PipelineGraph_proofs`, `VarsHeap_proofs`, `RunResults_proofs` | the inductive invariants and the theorems about the module named | |
| `Runner_proofs` | those about `RunnerService`, `TaskContext` and `TaskRunIds` | |
| `Tasks_proofs` | those about `IntegerParams`, `ParamTypes` and `HTTPTask` with `TaskSemantics` | |
| `MC...` | the instances for TLC; `MCTasks` takes `HTTPTask`, `ParamTypes` and `IntegerParams` side by side, since they share no state | |

How they fit together: `PipelineGraph` yields what `PipelineShape` asks for
(`YieldsPipeline`), and `Scheduler` and `PipelineRun` start from any such pipeline.
`Scheduler` takes what a task run results in as any outcome; `TaskSemantics` and
`HTTPTask` say which outcome, from the variables and inputs that
`InstanceSeesFinalResults` is about. That an attempt returns at all is what
`Scheduler` assumes of `Task.Run` and `TaskContext` shows of its context. What
`Scheduler` says of variables, that a task run keeps those it was started with,
rests on `VarsHeap`. The record that `PipelineRun` keeps as a function of the tasks is
a sorted sequence in `RunResults` and has ids in `TaskRunIds`.

### Scheduler

State: the fields of the `scheduler` struct have their names (`dependencies`,
`waiting`, `results`, `pending`, `exiting`; `vars` is `varsMap`). The goroutines
are sets of records: a task run moves from `taskCh` to `running` to `reports` (its
goroutine blocks in `report` because `resultCh` is unbuffered), and a failed attempt
goes through `backoffs` (the select) and `rebuilding` (inside `newMemoryTaskRun`)
back to `taskCh`. A set stands for `taskCh` because the goroutines started from it
are not ordered. `dispatched` is a history variable.

Each path through one iteration of the loop of `scheduler.Run` is an action:
`ReceivePending`, `ReceiveExiting`, `ReceiveForRetry`, `ReceiveFinal`; the whole
iteration is one step, since no other goroutine is meant to touch what it changes.
The exception is the read of `scheduler.results` in `newMemoryTaskRun` by a retry
goroutine. `MapRace` is its undefined outcome: if the scheduler may be storing a
result at the same time, the process may be stopped. `RetrySends` is the other
outcome.

An outcome is a kind (`value`, `error`, `panic`, `pending`, `cancelled`) and the
number of the dispatch it comes from, so attempts can be told apart; the data
itself is abstracted. A variable map is observed by a task at its inputs only,
which relies on the implicit edges made by the parser.

Initial states are new runs (`NoPrior`). `newScheduler` for a resumed run is in the
same operators (`ReconstructResults`, `InitialDependencies`, `Doable`), which
`PipelineRun` uses for resumptions. The unsigned dependency counters are integers:
they are only compared with zero, so -1 stands for 2^64 - 1, and `TypeOK` says that
this does not occur in a new run.

### PipelineRun

`phase` is the position of the caller's goroutine: `called`, `executing` (the steps
of `Scheduler`), `returned`. `FinishRun` is the rest of `runner.run` after the
dispatch loop together with the return of the entry point. `Resume` is a caller who
fills in data for suspended tasks and calls `Run` again with the same record; its
variables start from `run.Inputs`, which is the very map the earlier execution
wrote its results into. A task can only be suspended by a task implementation from
outside the package (`RunInfo.IsPending`), which `Outcomes` includes. `calls` is
bounded by `MaxCalls`.

### PipelineDataflow

A task is idle, active or settled; settling the last input activates a task in the
same step; a fail-early turns idle tasks into cancelled ones; the run is done when
nothing is active. `Status` maps the scheduler to it: a task is active as long as
it is in flight, wherever its attempt or back-off is. Retries are stuttering steps.

### PipelineGraph

`stage` is the position in `Parse`. `AddImplicitEdges` is one iteration of the loop
over the nodes, taken in any order because Go iterates over a map; `Sort` picks any
order `topo.SortStabilized` may return; `LinkTask` is one iteration of the loop that
makes tasks, its lookup of an input that has no task yet giving the zero value, the
first task, as a Go map does. A document is reduced to its edges, the nodes its
attributes name and whether they can be decoded.

### RunnerService

`caller` has the goroutines inside `Start` and `Close`; `service`, the state machine
of `StartOnce` and `StopOnce`, is external, as is that of the sleeper task
(`sleeper`, `worker`, `queued`), modelled from how `runner.go` calls `WakeUp` and
`Stop` and waits. `unfinished` and `loop` are the two goroutines that `Start` makes,
each of which calls `Done` of the wait group `wgDone`; deferred calls are steps of
their own, in reverse order (`Destroy` before `LoopDone`). The time-out with which
the sleeper task gives up waiting is left out.

### TaskContext

Contexts are the times at which they end, so `context.WithTimeout` is a minimum and
a call moves from event to event: an attempt reports at some time up to `Grace` after
its context has ended, a back-off lasts what `ForAttempt` of its library says. A
context that is never cancelled ends at `Forever`. An attempt without a limit is
followed for `Horizon` and may not report at all.

### VarsHeap

`heap` holds maps, `top` is the one behind `scheduler.vars`, `copy` those behind the
variables of task runs. `MapItem` is one iteration of the loop of `mapGoValue`: it
stores what it found into the parent, also where nothing was to be replaced, and
queues the entries of what it stored, in any order. `accesses` has the maps every
goroutine reads or writes in its latest step. The results of all task runs are stored
under one name, so that programs can refer to it.

`HeapAssumption` says what objects and documents are: sequences of finite maps whose
references stay among them, an entry being a reference or an expression but not both,
and each object of a document, decoded from a text, an entry of an earlier one. The
inputs a run starts with have no expressions and do not refer to the map that holds
them. An object is private to a task run if it decoded it, its result is not stored
yet and no other object refers to it (`Own`, `Private`): `SharedIsFrozen` says that
nothing else is ever modified.

### TaskParams, ParamTypes, IntegerParams

A value carries its Go type in `kind`; a text is described by what the parsers find
in it (digits, `0x` and digits, a document, a variable expression), never by its
characters. A document in a text has expressions among its entries, not below them,
and each is replaced at once (`MapGoValue`): how `mapGoValue` goes through a nested
document, item by item, is what `VarsHeap` models. A conversion gives the parameter or
`Bad`. In `IntegerParams` numbers are counted in halves, to have fractions; an operator
gives the *set* of results where Go leaves the conversion of a float64 to the
implementation.

`ParametersAreWhole` compares *meanings*: a text says the same as a string and as
bytes, a number the same in each of its types, a document the same as the map or slice
it is of. A parameter says what its value says, and its elements what the elements
say. `SliceParam` and `ObjectParam` keep errors as elements, for those who filter
or store them. `StringSliceParam` makes an empty text of every element that
`convertToString` has no case for, errors and decimals among them; that it should not
is the disagreement `NumbersAreNotBlanked`. An `ObjectParam` of another one that holds a
slice loses it (`ObjectsKeepTheirValue`), and a `JSONPathParam` splits its text.

### TaskSemantics, HTTPTask

`case` is a task with its inputs and variables; `Run` gives its result, an error or
the panic of its goroutine. The database and the cipher may fail at will; `bound` are
the parameters the database was given. `QueryBindsEveryValue` says which values those
are, and nothing of how they are converted, which is for `ParametersAreWhole`. A request
is not made when its data has no JSON encoding (`Encodable`). An HTTP task goes from `Resolve` to
`SendRequest`, where the server answers with any status and size, or not at all, and
the context may end; `Retry` is the scheduler, which attempts it again whatever the
error. It is assumed that names in expressions are made of the characters
`variableRegexp` knows; `PipelineGraph` has those that are not.

### RunResults, TaskRunIds

`AddTaskRun` adds one task run and sorts, as the loop does; `Sorted` is every
permutation `sort.Slice` may leave, `StablySorted` that of a stable sort, and the map
of results is iterated in any order. In `TaskRunIds` every iteration of the loops of
`InitializePipeline` and of `Run` is a step, since several runs may share one
`Spec.Pipeline` and its tasks without a lock (`Shared`).

## 3. Runs

| run | bounds | shows |
|---|---|---|
| `scheduler_graphs` | all 27 graphs of three tasks with explicit or implicit edges, one retried task, at most one fail-early task | inputs and starts: `DependencyCount`, `StartedAfterInputs`, `InstanceSeesFinalResults`, `ConsumedResultsFrozen`, `NothingForgotten`; the refinement `ImplementsDataflow` |
| `scheduler_retries` | a diamond, three tasks retried (one of them twice), every set of fail-early tasks, all outcomes | `SingleInstance`, `WaitingCountsInFlight`, `NoStrayGoroutines`, `RetryBudget`, `LastAttemptWins`; every run ends (`EventuallyOver`) |
| `runs` | five graphs of three tasks, any of which may fail early, every entry point, up to three calls, all outcomes | the record is right after one call, suspension and resumption lose nothing and, without fail-early, repeat nothing; every call returns (`CallsReturn`) |
| `graph_parse` | documents of three nodes with up to three declared edges and two expressions, some with names in quotes, reserved names or broken attributes, and an empty one | the pipeline does not depend on map order, and a document is rejected for a reason only |
| `tasks` | some 18 000 tasks, values and numbers: attributes of every form for every task, up to three inputs, variables that hold errors; three attempts of an HTTP task; every value kind alone and in slices for every parameter type; every number of integers of 2, 3, 4 and 6 bits and floats of 5 | results are made of everything given and of no error; conversions are exact or refuse |
| `vars_frozen` | two task runs, a variable nested twice, six programs | interpolation is complete; nobody sees variables change, except by merges into a variable |
| `service_reaper` | two callers, three calls each, a reaper | the wait group, the end of all goroutines, no wake-up after the stop |
| `deadlines` | 960 combinations of limits for one attempt, 432 with up to four attempts | which limit ends an attempt, the waits, and how late a call may be |
| `results_agree` | every table of three results with indices -1, 0, 1, and the empty one | record and result agree whatever the sorts do |
| `ids` | two runs of two tasks, a resumption each | ids are unique, and kept while a task run is pending |

Why these are enough. Three tasks are the least with a path, a fork and a join; four
tasks make two siblings back off at the same time in front of a join. Two attempts
show a retry, three show that the attempt count is carried through a second back-off.
Three calls are two resumptions: the second starts from a record that the first one
rebuilt. Three nodes have every kind of cycle, every way to name a declared input and
every position of a node relative to two others. The integer types are scaled down
but keep their order (8 < 16 < 32 < significand < 64 bits), which is all that the
conversions compare, so that every number of every type is covered. `IntLimit` is 8
and `MaxExp` 2, so that inputs pass both. Two callers with three calls can start,
close and try each again while the other is inside. `Horizon` and `SizeLimit` only
separate before from after. `MaxCalls`, `MaxResumes` and `Horizon` are bounds of the
models and appear in the guards. `Scheduler` is finite without one, since every task
is dispatched at most as often as its retries allow.

Deadlock is checked in every run: each model has one action for having stopped, and
only what is over, crashed or closed may take it.

Each property of a passing run has a mutant: an operator, marked `mutant`, with a
plausible slip in the code it stands for, under which TLC finds the property
violated.

Fairness. In `FairSpec` and `FairRunSpec`, weak fairness for each kind of goroutine. A
goroutine that can move does, because the Go scheduler runs it; `Task.Run` returns,
because its context expires, as far as the task honours it; a back-off timer fires.
Which branch of a select is taken and which outcome a task has are not fair. A caller
need not resume a run. Nothing is assumed of the map race. In `ServiceSpec` the
goroutines are weakly fair; that the sleeper's goroutine gets to stop is strongly fair
(`WorkerStops`): its select between a wake-up and the stop takes either at random, so
it does not prefer the former for ever. Callers need not call. In `ContextSpec` an
attempt whose context has an end reports, and timers fire; an attempt without a limit
need not.

### Disagreements

Where a comment, a message or an evident intent of the code says one thing and the
code does another, the statement is in the module, after the properties that hold,
and it fails. Two have a run of their own:

| run | what |
|---|---|
| `scheduler_map_race` (`NoMapRace`) | a retry of a task with propagated inputs reads `scheduler.results` from its own goroutine (`scheduler.go:246` to `35`) while the scheduler writes it (`185`, `280`), although it "must Copy() from current goroutine" (`251`) |
| `run_reexecutes` (`ResumeKeepsFinished`) | resuming a run that failed early executes tasks that had finished as cancelled (`scheduler.go:257-269` against `97`, "skip finished tasks"); the dependency counter of a cancelled task behind them then goes below zero |

The others are seen by putting the statement in the place of the properties of the
configuration named here:

| statement | configuration | what |
|---|---|---|
| `Scheduler!AttemptsCountRuns` | `SchedulerGraphs` | a task run that executed but reported while the run was exiting is not counted ("only count as an attempt if the job actually ran", `scheduler.go:179`) |
| `PipelineRun!SuspensionIsReported` | `Runs` | `Run` wraps a nil error, so a suspended run returns `(false, nil)` (`runner.go:490`, against `35`) |
| `PipelineRun!FailureIsRemembered` | `Runs` | a resumed run forgets that it failed early (`runner.go:289-290`) |
| `PipelineGraph!EveryNamedNodeIsAnInput` | `GraphParse` | `$(my-task)` resolves but makes no edge, since `variableRegexp` does not match it (`variables.go:16`, against `graph.go:62`) |
| `IntegerParams!RoundedBoundIsRejected` | `Tasks` | `math.MaxUint64` becomes 2^64 when compared with a float64, which therefore passes (`task_params.go:218`) |
| `ParamTypes!NumbersAreNotBlanked` | `Tasks` | in a slice of strings a decimal, which is what `sum` and `multiply` result in, or a `uint64` becomes an empty text (`task_params.go:99-101`, against "expected string, got", `75`); the check for an error (`128-131`) can then not fail, and `QueryDB` binds the empty text |
| `ParamTypes!ObjectsKeepTheirValue` | `Tasks` | copying an `ObjectParam` leaves `SliceValue` out (`task_object_params.go:121`, against `22`) |
| `ParamTypes!RawBytesAlike` | `Tasks` | 32 raw bytes are no hash, 20 raw bytes are an address ("same semantic as AddressSliceParam", `task_params.go:648`) |
| `ParamTypes!PathHoldsTheValueOnly` | `Tasks` | an empty text leaves the separator in a `JSONPathParam`, as if it were a path (`task_params.go:737`, against `713`) |
| `TaskSemantics!MemoInterpolates` | `Tasks` | a memo of one variable expression results in the object that stands for it (`getters.go:203`, against `114`) |
| `TaskSemantics!OutputsHaveStrings` | `Tasks` | `StringOutputs` fails for results of `LessThan`, `Conditional`, `Memo`, `DecodePK` and `QueryDB` (`models.go:161`, against `121`) |
| `HTTPTask!ClientErrorsAreFinal` | `Tasks` | the scheduler attempts a request again that was answered with a client error (`scheduler.go:222`, against `common.go:116`) |
| `HTTPTask!ClientErrorsNotRetryable` | `Tasks` | a client error whose body is too long is marked as retryable, as its status is dropped (`common_http.go:59`, against `common.go:116`) |
| `VarsHeap!NestedIsFrozen` | `VarsFrozen` | a merge into a variable changes it for everybody (`task.merge.go:47`, against "only the top-level map is mutable", `variables.go:99`) |
| `VarsHeap!NoConcurrentAccess` | `VarsFrozen` | two task runs that interpolate one variable write its map at the same time (`getters.go:188`, against `variables.go:96`) |
| `TaskContext!ReturnsBefore` | `Deadlines` | a call whose task is retried outlives its deadline: the waits run under `context.Background` (`scheduler.go:163`, against `runner.go:194-195`); `OverrunIsBounded` is what does hold |
| `TaskContext!MaxBackoffIsUsed` | `Deadlines` | a `maxBackoff` without a `minBackoff` is ignored, since `TaskMaxBackoff` tests `MinBackoff` (`task.base.go:75`) |
| `RunResults!RecordsAgree` | `ResultsAgree` | with equal output indices, the default, record and result have the outputs in different orders (`runner.go:363-364`) |
| `RunResults!SomeTaskIsFinal` | `ResultsAgree` | `FinalResult` panics for a pipeline without tasks, which the parser and the scheduler accept (`common.go:243`, `scheduler.go:167`) |
| `TaskRunIds!FinishedIdsAreKept` | `Ids` | a resumption clears the ids of the task runs that had finished (`scheduler.go:136`, against "retain old UUID values", `runner.go:478`) |
| `TaskRunIds!PendingIdsAreKept` | `Ids`, with `Shared = TRUE` | of two runs over one cached pipeline, one overwrites the ids the other has just retained (`runner.go:484`, against `478`) |

## 4. Proofs

`Scheduler_proofs` proves, for every finite set of tasks, every set of pipelines
that satisfies `IsPipeline` and every set of outcomes (`SchedulerAssumption`), the
theorems listed in `PROJECT.json`: type correctness, `SingleInstance`,
`WaitingCountsInFlight`, `TaskChNeverBlocks`, `NoStrayGoroutines`,
`DependencyCount`, `StartedAfterInputs` and the action property
`ConsumedResultsFrozen`.

The inductive invariant `SchedulerInv` joins them because none is inductive alone.
That an output of a settling task is not in flight yet (`NewlyReadyFresh`) needs
`StartedAfterInputs`: a task that started had all its inputs settled, but the
reporting one was not. That the counters stay exact needs that each input settles
once, which needs `SingleInstance`; that `SingleInstance` is kept when outputs are
scheduled needs `NewlyReadyFresh`; and that `waiting` stays exact needs both, for
the cardinality of the tasks in flight. `TypeOK` comes last: that the counters are
natural numbers follows from `DependencyCount`, and is kept while exiting because
nothing is decremented then.

The steps fall into those after which the same tasks are in flight (`QuietStep`:
dispatch, report, the retry goroutine's steps, a report that leads to a retry, the
race) and those that take a task out of flight or close the channel, with a lemma
for each. `ConsumedResultsFrozen` follows from the invariant: a task with a
dispatched output has settled, and a settled task is neither reported again nor
marked as cancelled.

Of the inputs of what was dispatched the invariant says that they have settled in
this run or in the one before (`SettledInputs`), so that its lemmas hold of a scheduler
made for a resumed run too (`NewSchedulerInv`): `PipelineRun_proofs` cites them.

`InstanceSeesFinalResults` (`FinalResultsSeen`) is in the same module. The task runs alone are not inductive, since a retry is given a copy of the variables that
is as old as its back-off. `DataInv` therefore speaks of what task runs are made from:
the map of the scheduler follows the results until the run exits, and the copies in
the back-offs have the results of the inputs. Such a copy stays right because the
inputs of a task in flight have settled, and what has settled stays as it is
(`SettledForever`, the lemma behind `ConsumedResultsFrozen`).

The same module proves `RetryBudget`, `LastAttemptWins` and `NothingForgotten`. `AttemptInv` says what is known of a task in each of its phases:
in flight (`FlightInv`: a task run has the number of its dispatch, the attempts before
it are counted unless the run exits, and a back-off has an attempt left), not
dispatched (`UnstartedInv`: no entry and a counter above zero, or cancelled) and over
(`EndedInv`). That a run which ends with tasks that were never dispatched is pending
needs that pipelines have no cycle: the first task that has not finished waits for no
input, so it ran, and must be suspended (`WaitsForSuspended`).

`SchedulerImplementsDataflow_proofs` proves the refinement, `ImplementsDataflow`
(`DataflowIsImplemented`). Each receipt maps to one step: `ReceivePending` to
`Suspend`, `ReceiveExiting` to `FailEarly` when it is the first and to `Drain` after
that, `ReceiveFinal` to `Settle`, `CloseTaskCh` to `Finish`; everything else
(`QuietStep`) stutters. `ReadyIsUnblocked` is the core of it: the tasks whose counter
reaches zero are those that the dataflow says are unblocked. That a cancelled task had
a retry to cancel comes from `FlightInv` and `CancelledReports`.

`PipelineRun_proofs` proves the properties of the run record for every pipeline, any
entry point and any number of resumptions: `RecordIsTrue` (`RecordsAreTrue`) with its
parts `FinishedMeansComplete`, `CompletedMeansNothingCut` and
`FailSilentlyMeansFailEarly`, `ResumedRunSeesFinalResults` (`ResumptionsSeeFinalResults`) and the action property `PlainResumeKeepsFinished`
(`PlainRunsKeepFinished`). A resumption starts the scheduler from the record, and what
holds of it in a new run need not hold then: after a fail-early the counters of tasks
behind a cancelled one are wrong (section 3, `run_reexecutes`). `RunInv` therefore has
a part for each case. `CallInv` holds in every call: the counters never say that more
inputs are unsettled than there are, and what started has a counter at or below zero.
`FirstCallInv` is the invariant of a new run, with `ExitInv`: a run exits exactly when
a fail-early task has failed, and no output of that task was started. `PlainInv` is
the invariant of the scheduler, with the variables, in every call of a pipeline in
which no task fails early. `RecordInv` ties the record to the scheduler that stopped,
and `KeptInv` says that what is finished in the record has settled with that result.
That a run which exits is not reported completed (`ExitingIsFatal`) takes the last
task that failed without any output of it having started (`LastTask`): an output would
be cancelled and later still, so there is none, and the task's error is fatal.

`PipelineGraph_proofs` proves all properties of the parser for every set of finite
documents and every order of the map (`GraphAssumption`): `LinksAreOrdered`
(`ParserLinksInOrder`), `DependenciesAreDeclaredOrNamed` (`ParserFindsDependencies`),
`YieldsPipeline` (`ParserYieldsPipelines`) and `RejectedForAReason`
(`ParserRejectsRightly`). `ParserYieldsPipelines` is what the theorems about the
scheduler take as their assumption. Of the invariant `GraphInv`, `EdgesInv` says which
edges there are when some nodes have been visited, whichever they are, and
`LinkedTask` what is known of each task that is linked: its inputs are the positions
of its predecessors, in order and each once, and its outputs the linked tasks it
precedes. `Linked` is why the zero value of Go's map is never used: every edge leads
forward in the order, so the inputs of a task have been linked before. That a
document without a cycle is not rejected needs that such a graph has an order
(`TopologicalOrderExists`), and that sorting by task id is possible (`SortExists`).
Both are facts about finite sets that one would prove by induction. Here they are
proved from the greatest beginning of an order (`GreatestNumber`) and from counting
what is below an element.

`VarsHeap_proofs` proves both properties of the variables, for every number of task
runs, any programs and any inputs that satisfy `HeapAssumption`. `VariablesFrozen`: a
task run's copy of the variables never changes, and unless a task merges into a
variable only private documents do. `AllInterpolated`: the document of a task run that
is done with it is what the text says, with each expression replaced, in whatever order
`mapGoValue` came to its entries. `HeapInv` joins three arguments that need each other.
Who refers to what: values refer to objects that are neither the map of the scheduler
nor a copy of it (`Plain`), documents of different task runs are disjoint, and as long
as a document is not in a variable (`Secret`) nothing outside it refers to it and no
other task run has queued one of its objects (`PrivateDocs`, `Apart`). Where expressions
are: in documents that are being interpolated and nowhere else (`ExprInv`,
`ItemExprs`), so that a variable holds none and what is looked up need not be
interpolated again, although its entries are visited and stored once more; without
merges into variables that stores what was there (`StoresTheSame`). What is left to
do: of the objects `mapGoValue` has not come to, each is an entry of one it has not come
to either or is queued, and the entries of the others are replaced or queued
(`Unvisited`); since an entry refers to a later object, when the queue is empty the
first object not come to would be the root, and there is none (`NothingUnvisited`).
The steps that store one value have their lemmas in common (`Storing`, `OtherRun`):
what is stored, and where, concerns no other task run's secret document.

Of the service, `Runner_proofs` proves, for every finite set of callers, any number of calls
and any interval of the reaper, zero included (`ServiceAssumption`): that the wait
group counts the goroutines that will call `Done` (`WaitGroupExact`), that the stop
channel is closed once (`StopsOnce`), that nothing is left when `Close` has returned
(`ClosedLeavesNothing`) and that a stopped sleeper task is not woken
(`WokenBeforeStopped`). The invariant `ServiceInv` has four parts besides the types.
`OneInside`: at most one caller is inside `Start` or `Close`, which is why the channel
is closed once and `Done` cannot be called before `Add`. `StartedGoroutines`: which
goroutines exist is told by the state of the service. `SleeperFollowsLoop`: the
sleeper task is stopped by the loop, and only when the loop has left its select, so
that nobody is left to wake it. `ClosedIsQuiet`: the counter being zero when `Close`
goes on, both goroutines are over, and with `SleeperFollowsLoop` so is the sleeper.

Of the deadlines it proves `ReturnsInTime` for every setting and every length of the
durations (`ContextAssumption`), `overtime` negative or zero included
(`DeadlineIsMet`), `OverrunIsBounded` (`OverrunBounded`) and the action property
`FirstTimeoutCounts` (`EveryLimitCounts`). `ContextsNest`: no limit, in whatever
order, moves the end of a context past that of the one around it. `CallEndLeavesTime`:
the end of the call and the time given are together no later than the deadline of the
caller. The invariant `OneAttempt` adds that a task with one attempt never backs off,
so that it started with the call. `CallTimes` is for several: an attempt starts no
later than the end of the call, or the waits so far after it, and a wait is no longer
than the longest one (`BackoffIsBounded`, `Rounds`).

`WaitsDouble` (`WaitsAlwaysDouble`) rests on what the back-offs are: `Doubled` is defined
recursively on the numbers, and that there is such a function, with the values its
definition gives, is proved from its beginnings (`PowersExist`, `PowersAgree`), with
`AllNumbers` in the place of an induction. The invariant `WaitsInv` says that the waits
so far are the first back-offs, one for each attempt but the last to report.

Of the ids it proves `IdsIdentify` for any runs, tasks and resumptions
(`IdsAssumption`), as long as each run has a pipeline of its own (`IdsAreTold`; the
table above has what happens when they share one). The invariant `IdInv` speaks of
every place an id is kept in (`Belongs`: the task, the result, the record), since an
id in a task becomes that of a result and then that of a record. `IdsGiven`: they are
all below the next id. `IdsApart`: no two task runs have one in common.
`PendingRetained`: behind the loop of `Run` each task has the id that is recorded, and
what is executed afterwards has it too. That a step keeps the first two has one
argument for all actions (`FromBeforeKeepsIds`): the ids after a step are those from
before it and, for one task run, the next one.

`Tasks_proofs` proves what the run `tasks` checks on tables. The conversions have no
history, so the invariants of the first two parts (`IntegerInv`, `TypeInv`) say that
what is there was made by the conversion, and the work is in the operators.

- `IntegersAreExact` (`IntegersAreAlwaysExact`) holds for all limits of the integer
  types of which each is at least twice the one before (`LimitsAssumption`, so the
  true ones), and for every number within the type it comes in (`ValuesAssumption`):
  `Uint64Exact`, `Int32Exact` and `BigIntExact` take a conversion each, by the kind of
  what is converted.
- `ParametersAreWhole` (`ParametersAreAlwaysWhole`) holds for every value of every
  type, without an assumption and with the exceptions named in section 2. `TextsAlike`:
  to no documented type does it matter whether a text is a string or bytes.
  `ErrorIsBad` and `ErrorInSliceIsBad`: what becomes of errors. `StringMeaning`,
  `DecimalMeaning`, `MapAndSliceMeaning` and `ObjectMeaning` compare what a parameter
  says with what its value says, a type at a time. `StringSlices`, `DecimalSlices`,
  `HashSlices` and `AddressSlices` do so for elements, whether they come from a slice or
  from a document.
- Of tasks, `ErrorsAreNotUsed`, `PanicsAreKnown`, `ResultsAreComplete` and
  `ExchangesAreWhole` are proved (`ErrorsAreNeverUsed`, `PanicsAreAlwaysKnown`,
  `ResultsAreAlwaysComplete`, `ExchangesAreAlwaysWhole`), for every case that `IsCase`
  allows, every server and any size limit. The invariant `TasksInv` says that a result
  is one that `Run` can give, that a query asks with the parameters it found, that a
  request which went out is the one asked for and that an HTTP task has no result
  before it was answered in full. That errors are not used needs, for each task, what
  getters it goes through: `Checked` and `DocChecked` are what such a getter has seen
  of the variables when it does not fail, and the lemmas `SumUses` to `KeyUses` find
  them in every task. `ErrorsAreFiltered` counts what `FilterErrors` leaves, for
  `SumCountsFaults`; `MergeKeeps` and `QueryBinds` follow an entry from the document to
  the result or the database.

`RunResults_proofs` proves `RecordsTellTheSame` (`RecordsAlwaysTellTheSame`) for every
finite table (`TablesAssumption`) and every permutation the sorts may leave. The
invariant `ResultsInv` says that the task runs are sorted whenever they are looked at,
that all are there when the record is made of them, and of which order of the tasks the
record and the result are made. That the two have the same outputs in the same order
(`OutputsAgree`) is then a fact about orders alone: in any sequence sorted by index, if
terminal tasks have distinct indices, the terminal task with k smaller ones is in place
k + 1 of the terminal tasks (`TerminalsInPlace`). It is proved by counting: the places
of a finite set of numbers are its ranks (`Ranks`), and a map between sets of equal
size that is injective is onto.

These proofs changed some of what they are about. `SumCountsFaults` spoke of a bound
with a fraction as if it counted, which the code refuses; a variable in a document that
`Length` does not interpolate was one it had to find; a text that reads `null` was
missing among the panics of a merge; the alternatives of some conversions overlapped;
and the cases did not say what a task may be given. The properties and the models are
now stated as the code has it, and the tables have cases for each.

With these every safety property that a passing run checks is proved for all values of
the constants, and so is the refinement. Only model-checked: what must happen eventually
(`EventuallyOver`, `CallsReturn`, `CallReturns`, `ClosesReturn` and the like), since
liveness under fairness and `ENABLED` are out of the prover's reach, and the
disagreements of section 3, which are violations.

## 5. Not modelled

- `http_allowed_ips.go`: the classification of addresses and the dialer, a table and
  I/O without state of its own; the construction of the HTTP clients.
- The JSON encoding of `ObjectParam`, and `ValidDurationInSeconds`, which no task uses;
  `AesGcmEncrypt`, which only a test calls.
- The JSON and database encodings of runs, errors and resume requests; logging and
  metrics; the DOT syntax.
- `Vars.Set` failing for a dot id that contains a dot: the value is then not stored.
- `report` giving up because `reportCtx` is cancelled: `runner.run` cancels it when
  it returns, and `NoStrayGoroutines` shows that nobody is reporting then.
- A task that does not return when its context has ended.

---------------------------- MODULE RunnerService ----------------------------
(****************************************************************************)
(* The runner as a service: Start and Close, called by any goroutine any    *)
(* number of times, the goroutine that looks for unfinished runs, the loop  *)
(* that wakes the reaper, and the goroutine of the reaper itself.           *)
(*                                                                          *)
(* External: the state machine behind StartOnce and StopOnce, and the       *)
(* sleeper task, a goroutine that works whenever it was woken.              *)
(****************************************************************************)
EXTENDS Naturals, FiniteSets

CONSTANTS
  Callers,         \* the goroutines that call Start or Close
  ReaperInterval,  \* 0 switches the reaper off
  MaxCalls         \* how often a caller calls; a bound of the model

ASSUME ServiceAssumption == ReaperInterval \in Nat /\ MaxCalls \in Nat /\ IsFiniteSet(Callers)

VARIABLES
  service,     \* state of the service's state machine
  caller,      \* what every caller is doing
  calls,       \* how often it has called
  chStop,      \* closings of the stop channel; a second one would panic
  wgDone,      \* counter of the wait group
  unfinished,  \* the goroutine of scheduleUnfinishedRuns
  loop,        \* the goroutine of runReaperLoop
  tick,        \* the ticker has fired and was not read
  worker,      \* the goroutine of the sleeper task
  queued,      \* it was woken and has not started to work
  sleeper      \* state of the sleeper task's state machine

serviceVars == <<service, caller, calls, chStop, wgDone, unfinished, loop, tick, worker, queued, sleeper>>

Stopping == chStop > 0

\* NewRunner
ServiceInit ==
  /\ service = "unstarted"
  /\ caller = [c \in Callers |-> "idle"] /\ calls = [c \in Callers |-> 0]
  /\ chStop = 0 /\ wgDone = 0
  /\ unfinished = "none" /\ loop = "none" /\ tick = FALSE
  /\ worker = "asleep" /\ queued = FALSE /\ sleeper = "started"

Moves(c, from, to) == caller[c] = from /\ caller' = [caller EXCEPT ![c] = to]
Called(c) == calls' = [calls EXCEPT ![c] = @ + 1]

-----------------------------------------------------------------------------
(* Start and Close *)

\* StartOnce lets one caller run its function; all others get an error.
CallStart(c) ==
  /\ calls[c] < MaxCalls /\ Called(c)
  /\ IF service = "unstarted" THEN Moves(c, "idle", "starting") /\ service' = "starting"
     ELSE Moves(c, "idle", "idle") /\ UNCHANGED service
  /\ UNCHANGED <<chStop, wgDone, unfinished, loop, tick, worker, queued, sleeper>>

StartUncounted(c) ==  \* mutant: the goroutine of the loop is not counted
  /\ Moves(c, "starting", "idle")
  /\ wgDone' = wgDone + 1
  /\ unfinished' = "reaping"
  /\ loop' = IF ReaperInterval = 0 THEN loop ELSE "select"
  /\ service' = "started"
  /\ UNCHANGED <<calls, chStop, tick, worker, queued, sleeper>>
Start(c) ==
  /\ Moves(c, "starting", "idle")
  /\ wgDone' = wgDone + (IF ReaperInterval = 0 THEN 1 ELSE 2)
  /\ unfinished' = "reaping"
  /\ loop' = IF ReaperInterval = 0 THEN loop ELSE "select"
  /\ service' = "started"
  /\ UNCHANGED <<calls, chStop, tick, worker, queued, sleeper>>

StopOnce(s) == s = "started"

CallClose(c) ==
  /\ calls[c] < MaxCalls /\ Called(c)
  /\ IF StopOnce(service) THEN Moves(c, "idle", "closing") /\ service' = "stopping"
     ELSE Moves(c, "idle", "idle") /\ UNCHANGED service
  /\ UNCHANGED <<chStop, wgDone, unfinished, loop, tick, worker, queued, sleeper>>

CloseStopsReaper(c) ==  \* mutant: Close stops the reaper, not the loop
  /\ Moves(c, "closing", "waiting")
  /\ chStop' = chStop + 1 /\ sleeper' = "stopping"
  /\ UNCHANGED <<service, calls, wgDone, unfinished, loop, tick, worker, queued>>
CloseStopChannel(c) ==
  /\ Moves(c, "closing", "waiting")
  /\ chStop' = chStop + 1
  /\ UNCHANGED <<service, calls, wgDone, unfinished, loop, tick, worker, queued, sleeper>>

CloseReturns(c) ==
  /\ Moves(c, "waiting", "idle")
  /\ wgDone = 0
  /\ service' = "stopped"
  /\ UNCHANGED <<calls, chStop, wgDone, unfinished, loop, tick, worker, queued, sleeper>>

-----------------------------------------------------------------------------
(* scheduleUnfinishedRuns: there is nothing it waits for. *)

ReapAtOnce ==
  /\ unfinished = "reaping"
  /\ unfinished' = "waiting"
  /\ UNCHANGED <<service, caller, calls, chStop, wgDone, loop, tick, worker, queued, sleeper>>

UnfinishedDone ==
  /\ unfinished = "waiting"
  /\ unfinished' = "done" /\ wgDone' = wgDone - 1
  /\ UNCHANGED <<service, caller, calls, chStop, loop, tick, worker, queued, sleeper>>

-----------------------------------------------------------------------------
(* runReaperLoop; Go takes any of the cases of a select that are ready. *)

TickerFires ==
  /\ loop = "select" /\ ~tick
  /\ tick' = TRUE
  /\ UNCHANGED <<service, caller, calls, chStop, wgDone, unfinished, loop, worker, queued, sleeper>>

\* WakeUp does not wait: it is lost if the reaper was woken already.
WakeUp ==
  /\ loop = "select" /\ tick
  /\ tick' = FALSE /\ queued' = TRUE
  /\ UNCHANGED <<service, caller, calls, chStop, wgDone, unfinished, loop, worker, sleeper>>

LeaveLoop ==
  /\ loop = "select" /\ Stopping
  /\ loop' = "destroying"
  /\ UNCHANGED <<service, caller, calls, chStop, wgDone, unfinished, tick, worker, queued, sleeper>>

\* The deferred calls: destroy stops the sleeper task and waits for it, then
\* the wait group is told.
Destroy ==
  /\ loop = "destroying"
  /\ sleeper' = "stopping"
  /\ loop' = "awaitingWorker"
  /\ UNCHANGED <<service, caller, calls, chStop, wgDone, unfinished, tick, worker, queued>>

LoopDoneEarly ==  \* mutant: the deferred calls in the other order
  /\ loop = "awaitingWorker"
  /\ loop' = "done" /\ sleeper' = "stopped" /\ wgDone' = wgDone - 1
  /\ UNCHANGED <<service, caller, calls, chStop, unfinished, tick, worker, queued>>
LoopDone ==
  /\ loop = "awaitingWorker" /\ worker = "done"
  /\ loop' = "done" /\ sleeper' = "stopped" /\ wgDone' = wgDone - 1
  /\ UNCHANGED <<service, caller, calls, chStop, unfinished, tick, worker, queued>>

-----------------------------------------------------------------------------
(* The sleeper task; the time-out of its Stop is left out, as runReaper does *)
(* not wait for anything.                                                    *)

Work ==
  /\ worker = "asleep" /\ queued
  /\ worker' = "reaping" /\ queued' = FALSE
  /\ UNCHANGED <<service, caller, calls, chStop, wgDone, unfinished, loop, tick, sleeper>>

RunReaperSpins == worker = "reaping" /\ UNCHANGED serviceVars  \* mutant: the reaper does not end
RunReaper ==
  /\ worker = "reaping"
  /\ worker' = "asleep"
  /\ UNCHANGED <<service, caller, calls, chStop, wgDone, unfinished, loop, tick, queued, sleeper>>

WorkerStops ==
  /\ worker = "asleep" /\ sleeper = "stopping"
  /\ worker' = "done"
  /\ UNCHANGED <<service, caller, calls, chStop, wgDone, unfinished, loop, tick, queued, sleeper>>

Quiet ==
  /\ \A c \in Callers : caller[c] = "idle" /\ calls[c] = MaxCalls
  /\ unfinished \in {"none", "done"} /\ loop \in {"none", "done"}
  /\ UNCHANGED serviceVars

Goroutines ==
  \/ ReapAtOnce \/ UnfinishedDone
  \/ LeaveLoop \/ Destroy \/ LoopDone
  \/ WorkerStops \/ RunReaper

ServiceNext ==
  \/ \E c \in Callers : \/ CallStart(c) \/ Start(c)
                        \/ CallClose(c) \/ CloseStopChannel(c) \/ CloseReturns(c)
  \/ Goroutines
  \/ TickerFires \/ WakeUp \/ Work
  \/ Quiet

\* Goroutines run.  A select with several cases ready takes one at random, so
\* that it does not overlook the stop channel for ever.
ServiceSpec ==
  /\ ServiceInit /\ [][ServiceNext]_serviceVars
  /\ \A c \in Callers : WF_serviceVars(Start(c)) /\ WF_serviceVars(CloseStopChannel(c)) /\ WF_serviceVars(CloseReturns(c))
  /\ WF_serviceVars(ReapAtOnce) /\ WF_serviceVars(UnfinishedDone)
  /\ WF_serviceVars(LeaveLoop) /\ WF_serviceVars(Destroy) /\ WF_serviceVars(LoopDone)
  /\ SF_serviceVars(WorkerStops) /\ WF_serviceVars(RunReaper)

-----------------------------------------------------------------------------
(* Properties *)

Live(pc) == pc \notin {"none", "done"}

\* The variables keep their types, and the wait group counts the goroutines that
\* will call Done: its counter neither stays above zero nor falls below it.
ServiceTypeOK ==
  /\ service \in {"unstarted", "starting", "started", "stopping", "stopped"}
  /\ caller \in [Callers -> {"idle", "starting", "closing", "waiting"}]
  /\ calls \in [Callers -> 0..MaxCalls]
  /\ sleeper \in {"started", "stopping", "stopped"} /\ worker \in {"asleep", "reaping", "done"}
  /\ wgDone = (IF Live(unfinished) THEN 1 ELSE 0) + (IF Live(loop) THEN 1 ELSE 0)

\* The stop channel is closed once, whoever calls Close and however often: a
\* second close would panic (runner.go:99-105).
StopChannelClosedOnce == chStop <= 1

\* When Close has returned no goroutine that Start began is left, and the reaper
\* is not left working for a runner that is closed; with the reaper switched off
\* its sleeper stays asleep for ever, as nothing stops it (runner.go:99-124).
NothingLeftAfterClose ==
  service = "stopped" =>
    /\ ~Live(unfinished) /\ ~Live(loop)
    /\ worker = (IF ReaperInterval = 0 THEN "asleep" ELSE "done")

\* Waking a sleeper task that was stopped panics: the loop is the only one to
\* wake it and has left before it stops it (runner.go:122-139).
StoppedReaperNotWoken == [][sleeper # "started" => (queued' => queued)]_serviceVars

\* Close returns, whatever the reaper is doing (runner.go:102).
ClosesReturn == \A c \in Callers : caller[c] \in {"closing", "waiting"} ~> caller[c] = "idle"
=============================================================================

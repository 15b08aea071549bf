------------------------------ MODULE TaskContext ------------------------------
(****************************************************************************)
(* Deadlines, time-outs and back-off: one call of ExecuteRun, with one task *)
(* that is attempted until it succeeds or its retries are used up.  The     *)
(* model moves from event to event; now is the time of the last one.        *)
(*                                                                          *)
(* External: ContextWithDeadlineFn, which only ever moves a deadline        *)
(* forward, and the durations of the backoff library.  A task answers       *)
(* within Grace once its context has ended.                                 *)
(****************************************************************************)
EXTENDS Integers, Sequences

CONSTANTS
  Settings,        \* the settings a call may run under
  Forever,         \* no deadline; later than everything else
  Overtime,        \* the variable overtime of runner.go
  Grace,           \* how long a task answers after the end of its context
  DefaultMin, DefaultMax,        \* the back-offs of TaskMinBackoff and TaskMaxBackoff
  LibraryMin, LibraryMax         \* and those of the library, for bounds not above zero

\* parent: the deadline of the caller's context, the call being made at time 0;
\* maxRun, maxTask, defaultHTTP: 0 is none; closing: when the runner is closed.
IsSettings(s) ==
  /\ s.parent \in Int /\ s.parent <= Forever /\ s.parent % 10 = 0
  /\ s.maxRun \in Nat /\ s.maxTask \in Nat /\ s.defaultHTTP \in Nat
  /\ s.closing \in 0..Forever
  /\ s.timeoutSet \in BOOLEAN /\ s.timeout \in Int
  /\ s.http \in BOOLEAN
  /\ s.retries \in Nat /\ s.minBackoff \in Int /\ s.maxBackoff \in Int

ASSUME ContextAssumption ==
  /\ \A s \in Settings : IsSettings(s)
  /\ Forever \in Nat /\ Overtime \in Int /\ Grace \in Nat
  /\ {DefaultMin, DefaultMax, LibraryMin, LibraryMax} \subseteq Nat \ {0}

VARIABLES
  settings,
  phase,    \* "attempting", "backing off" or "returned"
  now,
  started,  \* when the last attempt began
  attempts, \* the attempts that have reported
  waits     \* the back-offs so far

contextVars == <<settings, phase, now, started, attempts, waits>>

Earlier(a, b) == IF a < b THEN a ELSE b
Later(a, b) == IF a < b THEN b ELSE a

-----------------------------------------------------------------------------
(* Contexts, by the time at which they end *)

\* ExecuteRun: a tenth of the time left, or overtime if that is less.
CallEndUnmoved(s) == s.parent  \* mutant: the deadline is not moved
CallEnd(s) ==
  IF s.parent = Forever THEN Forever
  ELSE Earlier(s.parent, IF Overtime > s.parent \div 10 THEN s.parent - s.parent \div 10 ELSE s.parent - Overtime)

\* context.WithTimeout keeps the earlier of the two deadlines.
WithTimeout(end, start, timeout) == Earlier(end, start + timeout)

RunEnd(s) == IF s.maxRun # 0 THEN WithTimeout(CallEnd(s), 0, s.maxRun) ELSE CallEnd(s)

\* executeTaskRun, and httpRequestCtx of an HTTP task.
StopEnd(s) == Earlier(RunEnd(s), s.closing)
TaskTimeoutEnd(s, start) ==
  IF s.timeoutSet /\ s.timeout > 0 THEN WithTimeout(StopEnd(s), start, s.timeout) ELSE StopEnd(s)
TaskEndReplaced(s, start) ==  \* mutant: the time-out of the job replaces that of the task
  IF s.maxTask # 0 THEN WithTimeout(StopEnd(s), start, s.maxTask) ELSE TaskTimeoutEnd(s, start)
TaskEnd(s, start) ==
  IF s.maxTask # 0 THEN WithTimeout(TaskTimeoutEnd(s, start), start, s.maxTask) ELSE TaskTimeoutEnd(s, start)

RequestEndUnlimited(s, start) == TaskEnd(s, start)  \* mutant: no default for HTTP requests
RequestEnd(s, start) ==
  IF s.http /\ ~s.timeoutSet /\ s.defaultHTTP > 0 THEN WithTimeout(TaskEnd(s, start), start, s.defaultHTTP)
  ELSE TaskEnd(s, start)

-----------------------------------------------------------------------------
(* Back-off *)

TaskMinBackoff(s) == IF s.minBackoff > 0 THEN s.minBackoff ELSE DefaultMin
TaskMaxBackoff(s) == IF s.minBackoff > 0 THEN s.maxBackoff ELSE DefaultMax

Positive(d, otherwise) == IF d > 0 THEN d ELSE otherwise

\* ForAttempt of the library with a factor of 2.
Doubled[n \in Nat] == IF n = 0 THEN 1 ELSE 2 * Doubled[n - 1]
ForAttempt(n, shortest, longest) ==
  LET lo == Positive(shortest, LibraryMin)
      hi == Positive(longest, LibraryMax)
  IN IF lo >= hi THEN hi ELSE Earlier(lo * Doubled[n], hi)

BackoffShifted(s, n) == ForAttempt(n, TaskMinBackoff(s), TaskMaxBackoff(s))  \* mutant: not counted from zero
Backoff(s, n) == ForAttempt(n - 1, TaskMinBackoff(s), TaskMaxBackoff(s))

-----------------------------------------------------------------------------

ContextInit ==
  /\ settings \in Settings
  /\ phase = "attempting" /\ now = 0 /\ started = 0 /\ attempts = 0 /\ waits = <<>>

\* The task reports, before its context has ended or soon after it.
Reports(t) ==
  /\ phase = "attempting"
  /\ now <= t /\ t <= Later(RequestEnd(settings, started), started) + Grace
  /\ now' = t /\ attempts' = attempts + 1

Succeeds(t) ==
  /\ Reports(t)
  /\ phase' = "returned"
  /\ UNCHANGED <<settings, started, waits>>

FailsOneMore(t) ==  \* mutant: off by one
  /\ Reports(t)
  /\ phase' = IF attempts' <= settings.retries THEN "backing off" ELSE "returned"
  /\ UNCHANGED <<settings, started, waits>>
Fails(t) ==
  /\ Reports(t)
  /\ phase' = IF attempts' < settings.retries THEN "backing off" ELSE "returned"
  /\ UNCHANGED <<settings, started, waits>>

\* The context of the back-off derives from context.Background and ends with
\* the run of the scheduler only.
Retry ==
  /\ phase = "backing off"
  /\ waits' = Append(waits, Backoff(settings, attempts))
  /\ now' = now + Backoff(settings, attempts)
  /\ started' = now'
  /\ phase' = "attempting"
  /\ UNCHANGED <<settings, attempts>>

Returned == phase = "returned" /\ UNCHANGED contextVars

\* An attempt without a limit is followed for Horizon only, a bound of the model,
\* and may not report at all.
Horizon == 6
Limited == RequestEnd(settings, started) < Forever
Latest == Later(RequestEnd(settings, started), started) + Grace
Times == now..Earlier(Latest, now + Horizon) \cup (IF Limited THEN {Latest} ELSE {})

Attempt == \E t \in Times : Succeeds(t) \/ Fails(t)

ContextNext == Attempt \/ Retry \/ Returned

\* An attempt reports when its context has ended, and timers fire.
ContextSpec == /\ ContextInit /\ [][ContextNext]_contextVars
               /\ WF_contextVars(Limited /\ Attempt) /\ WF_contextVars(Retry)

-----------------------------------------------------------------------------
(* Properties *)

\* "give them time to return before the parent context deadline"
\* (runner.go:194-195): a task that answers in the time it is given, a tenth of
\* the time left or overtime, makes the call return in time, as long as it has
\* one attempt only.
TimeGiven(s) == Earlier(Overtime, s.parent \div 10)
ReturnsBefore ==
  phase = "returned" /\ 0 < settings.parent /\ settings.parent < Forever /\ Grace <= TimeGiven(settings)
    => now <= settings.parent
ReturnsInTime == settings.retries <= 1 => ReturnsBefore

\* "Task timeout will be whichever of the following timesout/cancels first"
\* (runner.go:404-408): no attempt goes on after any of the four, however they
\* are ordered, whether it is the first or a later one.
FirstTimeoutCounts ==
  [][phase = "attempting" /\ attempts' > attempts =>
       LET s == settings
           Within(limit) == now' <= Later(limit, started) + Grace
       IN /\ Within(s.parent) /\ Within(s.closing)
          /\ s.maxRun # 0 => Within(s.maxRun)
          /\ s.timeoutSet /\ s.timeout > 0 => now' <= started + s.timeout + Grace
          /\ s.maxTask # 0 => now' <= started + s.maxTask + Grace]_contextVars

\* If both back-offs are set the waits double from the one to the other, the
\* first being the shortest; if neither is, from the defaults (task.base.go:67-79,
\* scheduler.go:227-244).
WaitsDouble ==
  waits # <<>> /\ (settings.minBackoff > 0 <=> settings.maxBackoff > 0) =>
    LET lo == IF settings.minBackoff > 0 THEN settings.minBackoff ELSE DefaultMin
        hi == IF settings.maxBackoff > 0 THEN settings.maxBackoff ELSE DefaultMax
    IN lo <= hi => /\ waits[1] = lo
                   /\ \A k \in DOMAIN waits : lo <= waits[k] /\ waits[k] <= hi
                   /\ \A k \in 2..Len(waits) : waits[k] = Earlier(2 * waits[k - 1], hi)

\* A call with a deadline returns at the latest when the back-offs of all its
\* attempts have passed after it: a deadline, the time-out of the run and the
\* closing of the runner cut attempts off, but not the waits between them
\* (scheduler.go:163, 233-251).  The longest wait is maxBackoff only if
\* minBackoff is set as well (task.base.go:74-79).
LongestWait(s) == Positive(TaskMaxBackoff(s), LibraryMax)
OverrunIsBounded ==
  phase = "returned" =>
    now <= Later(StopEnd(settings), 0) + (Later(settings.retries, 1) - 1) * (LongestWait(settings) + Grace) + Grace

\* One limit is enough, whichever it is, for a call to come to an end
\* (runner.go:404-408).
SomeLimit(s) == \/ StopEnd(s) < Forever \/ s.maxTask # 0 \/ (s.timeoutSet /\ s.timeout > 0)
                \/ (s.http /\ ~s.timeoutSet /\ s.defaultHTTP > 0)
CallReturns == SomeLimit(settings) ~> phase = "returned"

-----------------------------------------------------------------------------
(* What the code means to do and does not; ReturnsBefore is above *)

\* TaskMaxBackoff (task.base.go:74-79): a maxBackoff that is set bounds every wait,
\* whether minBackoff is set or not.
MaxBackoffIsUsed ==
  settings.maxBackoff > 0 => \A k \in DOMAIN waits : waits[k] <= settings.maxBackoff
=============================================================================

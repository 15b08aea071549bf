---------------------------- MODULE Runner_proofs -----------------------------
(****************************************************************************)
(* The runner around the scheduler, a component at a time: the service that *)
(* starts, reaps and closes for any number of callers; the deadline,        *)
(* time-outs and back-off of one call, for every setting; and the ids of    *)
(* task runs, for any number of runs that do not share a pipeline.          *)
(****************************************************************************)
EXTENDS RunnerService, TaskContext, TaskRunIds, NaturalsInduction, WellFoundedInduction, TLAPS

-----------------------------------------------------------------------------
(* The service: Start, Close, the reaper and the goroutines they wait for.  *)

\* At most one caller is inside Start or Close, and the state of the service
\* tells where it is.
OneInside ==
  /\ \A c, d \in Callers : caller[c] # "idle" /\ caller[d] # "idle" => c = d
  /\ \A c \in Callers : /\ caller[c] = "starting" => service = "starting"
                        /\ caller[c] \in {"closing", "waiting"} => service = "stopping"
                        /\ caller[c] = "closing" => chStop = 0
  /\ chStop \in 0..1
  /\ service \in {"unstarted", "starting", "started"} => chStop = 0

\* The goroutines exist from Start on.
StartedGoroutines ==
  /\ unfinished \in {"none", "reaping", "waiting", "done"}
  /\ loop \in {"none", "select", "destroying", "awaitingWorker", "done"}
  /\ service \in {"unstarted", "starting"} <=> unfinished = "none"
  /\ loop = "none" <=> service \in {"unstarted", "starting"} \/ ReaperInterval = 0

\* The sleeper task is told to stop by the loop, which waits for it.
SleeperFollowsLoop ==
  /\ sleeper \in {"started", "stopping", "stopped"} /\ worker \in {"asleep", "reaping", "done"}
  /\ tick \in BOOLEAN /\ queued \in BOOLEAN
  /\ sleeper # "started" <=> loop \in {"awaitingWorker", "done"}
  /\ loop = "done" => worker = "done"
  /\ loop = "none" => ~tick /\ ~queued /\ worker = "asleep"

\* Close returns when nobody is left to call Done.
ClosedIsQuiet == service = "stopped" => ~Live(unfinished) /\ ~Live(loop)

ServiceInv == ServiceTypeOK /\ OneInside /\ StartedGoroutines /\ SleeperFollowsLoop /\ ClosedIsQuiet

LEMMA ServiceInitInv == ServiceInit => ServiceInv
<1> SUFFICES ASSUME ServiceInit PROVE ServiceInv
  OBVIOUS
<1> USE ServiceAssumption DEF ServiceInit, Live
<1>1. ServiceTypeOK
  BY DEF ServiceTypeOK
<1>2. OneInside
  BY DEF OneInside
<1>3. StartedGoroutines
  BY DEF StartedGoroutines
<1>4. SleeperFollowsLoop /\ ClosedIsQuiet
  BY DEF SleeperFollowsLoop, ClosedIsQuiet
<1> QED
  BY <1>1, <1>2, <1>3, <1>4 DEF ServiceInv

LEMMA ServiceStepInv == ServiceInv /\ [ServiceNext]_serviceVars => ServiceInv'
<1> SUFFICES ASSUME ServiceInv, [ServiceNext]_serviceVars PROVE ServiceInv'
  OBVIOUS
<1> USE ServiceAssumption DEF ServiceInv, ServiceTypeOK, OneInside, StartedGoroutines, SleeperFollowsLoop, ClosedIsQuiet, Live
<1>1. ASSUME NEW c \in Callers, CallStart(c) PROVE ServiceInv'
  BY <1>1 DEF CallStart, Moves, Called
<1>2. ASSUME NEW c \in Callers, Start(c) PROVE ServiceInv'
  BY <1>2 DEF Start, Moves
<1>3. ASSUME NEW c \in Callers, CallClose(c) PROVE ServiceInv'
  BY <1>3 DEF CallClose, StopOnce, Moves, Called
<1>4. ASSUME NEW c \in Callers, CloseStopChannel(c) PROVE ServiceInv'
  BY <1>4 DEF CloseStopChannel, Moves
<1>5. ASSUME NEW c \in Callers, CloseReturns(c) PROVE ServiceInv'
  BY <1>5 DEF CloseReturns, Moves
<1>6. CASE ReapAtOnce
  BY <1>6 DEF ReapAtOnce
<1>7. CASE UnfinishedDone
  BY <1>7 DEF UnfinishedDone
<1>8. CASE TickerFires \/ WakeUp
  BY <1>8 DEF TickerFires, WakeUp
<1>9. CASE LeaveLoop \/ Destroy \/ LoopDone
  BY <1>9 DEF LeaveLoop, Destroy, LoopDone
<1>10. CASE Work \/ RunReaper \/ WorkerStops
  BY <1>10 DEF Work, RunReaper, WorkerStops
<1>11. CASE UNCHANGED serviceVars
  BY <1>11 DEF serviceVars
<1> QED
  BY <1>1, <1>2, <1>3, <1>4, <1>5, <1>6, <1>7, <1>8, <1>9, <1>10, <1>11 DEF ServiceNext, Goroutines, Quiet

THEOREM ServiceInvariant == ServiceSpec => []ServiceInv
BY ServiceInitInv, ServiceStepInv, PTL DEF ServiceSpec

\* The wait group counts the goroutines that will call Done (runner.go:89-92, 123, 512).
THEOREM WaitGroupExact == ServiceSpec => []ServiceTypeOK
<1>1. ServiceInv => ServiceTypeOK
  BY DEF ServiceInv
<1> QED
  BY <1>1, ServiceInvariant, PTL

\* However many callers call Close, the stop channel is closed once (runner.go:99-105).
THEOREM StopsOnce == ServiceSpec => []StopChannelClosedOnce
<1>1. ServiceInv => StopChannelClosedOnce
  BY DEF ServiceInv, OneInside, StopChannelClosedOnce
<1> QED
  BY <1>1, ServiceInvariant, PTL

\* When Close has returned nothing that Start began is left (runner.go:99-124).
THEOREM ClosedLeavesNothing == ServiceSpec => []NothingLeftAfterClose
<1>1. ServiceInv => NothingLeftAfterClose
  BY ServiceAssumption DEF ServiceInv, ServiceTypeOK, StartedGoroutines, SleeperFollowsLoop, ClosedIsQuiet,
     NothingLeftAfterClose, Live
<1> QED
  BY <1>1, ServiceInvariant, PTL

\* A sleeper task that was stopped is not woken (runner.go:122-139).
THEOREM WokenBeforeStopped == ServiceSpec => StoppedReaperNotWoken
<1>1. ServiceInv /\ [ServiceNext]_serviceVars => [sleeper # "started" => (queued' => queued)]_serviceVars
  <2> SUFFICES ASSUME ServiceInv, ServiceNext, sleeper # "started", queued' PROVE queued
    BY DEF serviceVars
  <2>1. loop \in {"awaitingWorker", "done"}
    BY DEF ServiceInv, SleeperFollowsLoop
  <2>2. CASE \E c \in Callers : CallStart(c) \/ Start(c) \/ CallClose(c) \/ CloseStopChannel(c) \/ CloseReturns(c)
    BY <2>2 DEF CallStart, Start, CallClose, CloseStopChannel, CloseReturns
  <2>3. CASE Goroutines
    BY <2>3 DEF Goroutines, ReapAtOnce, UnfinishedDone, LeaveLoop, Destroy, LoopDone, WorkerStops, RunReaper
  <2>4. CASE TickerFires \/ WakeUp \/ Work \/ Quiet
    BY <2>1, <2>4 DEF TickerFires, WakeUp, Work, Quiet, serviceVars
  <2> QED
    BY <2>2, <2>3, <2>4 DEF ServiceNext
<1> QED
  BY <1>1, ServiceInvariant, PTL DEF ServiceSpec, StoppedReaperNotWoken

-----------------------------------------------------------------------------
(* The powers of two of the back-off.                                       *)

\* A set of numbers that is not empty has a least one.
LEMMA LeastNumber ==
  ASSUME NEW T \in SUBSET Nat, T # {}
  PROVE  \E m \in T : \A n \in T : m <= n
<1> DEFINE R == OpToRel(<, Nat)
<1>1. IsWellFoundedOn(R, Nat)
  BY NatLessThanWellFounded
<1>2. \A m, n \in Nat : <<m, n>> \in R <=> m < n
  BY DEF OpToRel
<1> HIDE DEF R
<1>3. PICK m \in T : \A n \in T : ~ <<n, m>> \in R
  BY <1>1, WFMin
<1>4. \A n \in T : m \in Nat /\ n \in Nat /\ ~ n < m
  BY <1>2, <1>3
<1> QED
  BY <1>3, <1>4

\* A set of numbers with 0 and the successors of its members holds all of them.
LEMMA AllNumbers ==
  ASSUME NEW T \in SUBSET Nat, 0 \in T, \A n \in T : n + 1 \in T
  PROVE  T = Nat
<1> SUFFICES ASSUME Nat \ T # {} PROVE FALSE
  OBVIOUS
<1>1. PICK m \in Nat \ T : \A n \in Nat \ T : m <= n
  BY LeastNumber
<1>2. m # 0 /\ m - 1 \in Nat
  BY <1>1
<1>3. m - 1 \in T
  BY <1>1, <1>2
<1>4. (m - 1) + 1 \in T
  BY <1>3
<1> QED BY <1>1, <1>4

\* The first powers of two.
Powers(g, n) == DOMAIN g = 0..n /\ \A i \in 0..n : g[i] = IF i = 0 THEN 1 ELSE 2 * g[i - 1]

LEMMA PowersExist ==
  ASSUME NEW n \in Nat PROVE \E g : Powers(g, n)
<1> DEFINE T == {k \in Nat : \E g : Powers(g, k)}
<1>1. 0 \in T
  <2>1. Powers([i \in 0..0 |-> 1], 0)
    BY DEF Powers
  <2> QED BY <2>1
<1>2. ASSUME NEW k \in T PROVE k + 1 \in T
  <2>1. PICK g : Powers(g, k)
    OBVIOUS
  <2> DEFINE h == [i \in 0..k + 1 |-> IF i = k + 1 THEN 2 * g[k] ELSE g[i]]
  <2>2. k \in Nat /\ DOMAIN h = 0..k + 1
    OBVIOUS
  <2>3. ASSUME NEW i \in 0..k + 1 PROVE h[i] = IF i = 0 THEN 1 ELSE 2 * h[i - 1]
    <3>1. CASE i = k + 1
      BY <2>2, <3>1
    <3>2. CASE i \in 0..k
      BY <2>1, <2>2, <3>2 DEF Powers
    <3> QED BY <2>2, <3>1, <3>2
  <2>4. Powers(h, k + 1)
    BY <2>2, <2>3 DEF Powers
  <2> HIDE DEF h
  <2> QED BY <2>2, <2>4
<1> HIDE DEF T
<1>3. T \in SUBSET Nat
  BY DEF T
<1>4. T = Nat
  BY <1>1, <1>2, <1>3, AllNumbers
<1> QED BY <1>4 DEF T

LEMMA PowersAgree ==
  ASSUME NEW m, NEW n, NEW f, NEW g, m \in Nat, n \in Nat, Powers(f, m), Powers(g, n), NEW i \in Nat, i <= m, i <= n
  PROVE  f[i] = g[i]
<1> DEFINE T == {k \in Nat : k <= m /\ k <= n => f[k] = g[k]}
<1>1. 0 \in T
  BY DEF Powers
<1>2. ASSUME NEW k \in T PROVE k + 1 \in T
  <2>1. CASE k + 1 <= m /\ k + 1 <= n
    BY <2>1 DEF Powers
  <2> QED BY <2>1
<1>3. T \in SUBSET Nat
  OBVIOUS
<1> HIDE DEF T
<1>4. T = Nat
  BY <1>1, <1>2, <1>3, AllNumbers
<1> QED BY <1>4 DEF T

\* The function that Doubled defines exists, so it has the values its definition gives.
LEMMA DoubledValues ==
  /\ Doubled[0] = 1
  /\ \A n \in Nat : Doubled[n] \in Nat \ {0} /\ Doubled[n + 1] = 2 * Doubled[n]
<1>1. PICK H : H = [n \in Nat |-> CHOOSE g : Powers(g, n)]
  OBVIOUS
<1>2. \A n \in Nat : Powers(H[n], n)
  BY <1>1, PowersExist
<1>3. PICK F : F = [n \in Nat |-> H[n][n]]
  OBVIOUS
<1>4. ASSUME NEW n \in Nat PROVE F[n] = IF n = 0 THEN 1 ELSE 2 * F[n - 1]
  <2>1. Powers(H[n], n) /\ F[n] = H[n][n]
    BY <1>2, <1>3
  <2>2. CASE n = 0
    BY <2>1, <2>2 DEF Powers
  <2>3. CASE n # 0
    <3>1. n - 1 \in Nat /\ Powers(H[n - 1], n - 1) /\ F[n - 1] = H[n - 1][n - 1]
      BY <1>2, <1>3, <2>3
    <3>2. H[n][n] = 2 * H[n][n - 1]
      BY <2>1, <2>3 DEF Powers
    <3>3. H[n][n - 1] = H[n - 1][n - 1]
      BY <2>1, <3>1, PowersAgree
    <3> QED BY <2>1, <2>3, <3>1, <3>2, <3>3
  <2> QED BY <2>2, <2>3
<1>5. F = [n \in Nat |-> IF n = 0 THEN 1 ELSE 2 * F[n - 1]]
  BY <1>3, <1>4
<1>6. Doubled = [n \in Nat |-> IF n = 0 THEN 1 ELSE 2 * Doubled[n - 1]]
  BY <1>5, Zenon DEF Doubled
<1>7. Doubled[0] = 1 /\ \A n \in Nat : Doubled[n + 1] = 2 * Doubled[n]
  BY <1>6
<1> DEFINE T == {n \in Nat : Doubled[n] \in Nat \ {0}}
<1>8. T \in SUBSET Nat /\ 0 \in T /\ \A n \in T : n + 1 \in T
  BY <1>7
<1> HIDE DEF T
<1>9. T = Nat
  BY <1>8, AllNumbers
<1> QED BY <1>7, <1>9 DEF T

-----------------------------------------------------------------------------
(* The deadline of a call with one attempt.                                 *)

\* The end of every context is a time, and no context ends after one it derives from
\* or after a limit of its own.
LEMMA ContextsNest ==
  ASSUME NEW s \in Settings, NEW start \in Int
  PROVE  /\ CallEnd(s) \in Int /\ StopEnd(s) \in Int /\ RequestEnd(s, start) \in Int
         /\ RequestEnd(s, start) <= StopEnd(s) /\ StopEnd(s) <= CallEnd(s)
         /\ CallEnd(s) <= s.parent /\ StopEnd(s) <= s.closing
         /\ s.maxRun # 0 => StopEnd(s) <= s.maxRun
         /\ s.timeoutSet /\ s.timeout > 0 => RequestEnd(s, start) <= start + s.timeout
         /\ s.maxTask # 0 => RequestEnd(s, start) <= start + s.maxTask
<1> USE ContextAssumption DEF IsSettings, Earlier, WithTimeout
<1>1. CallEnd(s) \in Int /\ CallEnd(s) <= s.parent
  BY DEF CallEnd
<1>2. RunEnd(s) \in Int /\ RunEnd(s) <= CallEnd(s) /\ (s.maxRun # 0 => RunEnd(s) <= s.maxRun)
  BY <1>1 DEF RunEnd
<1>3. StopEnd(s) \in Int /\ StopEnd(s) <= RunEnd(s) /\ StopEnd(s) <= s.closing
  BY <1>2 DEF StopEnd
<1>4. /\ TaskTimeoutEnd(s, start) \in Int /\ TaskTimeoutEnd(s, start) <= StopEnd(s)
      /\ s.timeoutSet /\ s.timeout > 0 => TaskTimeoutEnd(s, start) <= start + s.timeout
  BY <1>3 DEF TaskTimeoutEnd
<1>5. /\ TaskEnd(s, start) \in Int /\ TaskEnd(s, start) <= TaskTimeoutEnd(s, start)
      /\ s.maxTask # 0 => TaskEnd(s, start) <= start + s.maxTask
  BY <1>4 DEF TaskEnd
<1>6. RequestEnd(s, start) \in Int /\ RequestEnd(s, start) <= TaskEnd(s, start)
  BY <1>5 DEF RequestEnd
<1> HIDE DEF Earlier, WithTimeout
<1> QED
  BY <1>1, <1>2, <1>3, <1>4, <1>5, <1>6

\* The call ends early enough for a task that answers in the time it is given.
LEMMA CallEndLeavesTime ==
  ASSUME NEW s \in Settings, 0 < s.parent, s.parent < Forever, Grace <= TimeGiven(s)
  PROVE  CallEnd(s) + Grace <= s.parent /\ Grace <= s.parent
<1>1. s.parent \in Int /\ s.parent # Forever /\ Grace \in Nat /\ Overtime \in Int
  BY ContextAssumption DEF IsSettings
<1>2. s.parent \div 10 \in Int /\ s.parent \div 10 <= s.parent
  BY <1>1
<1> QED
  BY <1>1, <1>2 DEF CallEnd, TimeGiven, Earlier

\* A task with one attempt starts with the call, and is over when its context is.
OneAttempt ==
  /\ settings \in Settings /\ attempts \in Nat
  /\ settings.retries <= 1 =>
       /\ now \in Int /\ started = 0 /\ phase \in {"attempting", "returned"}
       /\ phase = "returned" => now <= Later(RequestEnd(settings, 0), 0) + Grace

LEMMA OneAttemptInit == ContextInit => OneAttempt
BY DEF ContextInit, OneAttempt

LEMMA OneAttemptStep == OneAttempt /\ [ContextNext]_contextVars => OneAttempt'
<1> SUFFICES ASSUME OneAttempt, [ContextNext]_contextVars PROVE OneAttempt'
  OBVIOUS
<1>1. ASSUME NEW t \in Times, Succeeds(t) \/ Fails(t) PROVE OneAttempt'
  <2>1. /\ phase = "attempting" /\ attempts' = attempts + 1 /\ settings' = settings /\ started' = started
        /\ now' = t /\ t <= Later(RequestEnd(settings, started), started) + Grace
    BY <1>1 DEF Succeeds, Fails, Reports
  <2>2. ASSUME settings.retries <= 1 PROVE phase' = "returned" /\ now' \in Int
    <3>1. now \in Int /\ started = 0 /\ RequestEnd(settings, 0) \in Int /\ Grace \in Nat
      BY <2>2, ContextsNest, ContextAssumption DEF OneAttempt
    <3>2. t \in Int
      BY <3>1 DEF Times, Latest, Later, Earlier, Horizon
    <3>3. settings.retries \in Nat /\ attempts \in Nat
      BY ContextAssumption DEF OneAttempt, IsSettings
    <3>4. ~ attempts' < settings.retries
      BY <2>1, <2>2, <3>3
    <3> QED
      BY <1>1, <2>1, <3>2, <3>4 DEF Succeeds, Fails
  <2> QED
    BY <2>1, <2>2 DEF OneAttempt
<1>2. CASE Retry
  BY <1>2 DEF Retry, OneAttempt
<1>3. CASE Returned \/ UNCHANGED contextVars
  BY <1>3 DEF Returned, OneAttempt, contextVars
<1> QED
  BY <1>1, <1>2, <1>3 DEF ContextNext, Attempt

\* With one attempt, and a task that answers in the time it is given, the call
\* returns before the deadline of its caller, whatever the limits that are set,
\* the deadline, and the variable overtime.
THEOREM DeadlineIsMet == ContextSpec => []ReturnsInTime
<1>1. OneAttempt => ReturnsInTime
  <2> SUFFICES ASSUME OneAttempt, settings.retries <= 1, phase = "returned",
                      0 < settings.parent, settings.parent < Forever, Grace <= TimeGiven(settings)
               PROVE  now <= settings.parent
    BY DEF ReturnsInTime, ReturnsBefore
  <2>1. now \in Int /\ now <= Later(RequestEnd(settings, 0), 0) + Grace
    BY DEF OneAttempt
  <2>2. RequestEnd(settings, 0) \in Int /\ RequestEnd(settings, 0) <= CallEnd(settings) /\ CallEnd(settings) \in Int
    <3>1. settings \in Settings /\ 0 \in Int
      BY DEF OneAttempt
    <3>2. /\ CallEnd(settings) \in Int /\ StopEnd(settings) \in Int /\ RequestEnd(settings, 0) \in Int
          /\ RequestEnd(settings, 0) <= StopEnd(settings) /\ StopEnd(settings) <= CallEnd(settings)
      BY <3>1, ContextsNest
    <3> QED BY <3>2
  <2>3. CallEnd(settings) + Grace <= settings.parent /\ Grace <= settings.parent
    BY CallEndLeavesTime DEF OneAttempt
  <2> QED
    BY <2>1, <2>2, <2>3, ContextAssumption DEF OneAttempt, IsSettings, Later
<1> QED
  BY <1>1, OneAttemptInit, OneAttemptStep, PTL DEF ContextSpec

-----------------------------------------------------------------------------
(* Calls with any number of attempts.                                        *)

\* What one attempt and the back-off after it add at most.
Round(s) == LongestWait(s) + Grace
\* A call whose limits have passed goes on for at most k rounds.
LimitAfter(s, k) == Later(StopEnd(s), 0) + k * Round(s)

LEMMA BackoffIsBounded ==
  ASSUME NEW s \in Settings, NEW n \in Nat \ {0}
  PROVE  /\ Backoff(s, n) \in Int /\ Backoff(s, n) <= LongestWait(s)
         /\ LongestWait(s) \in Nat /\ Round(s) \in Nat
<1>1. TaskMinBackoff(s) \in Int /\ TaskMaxBackoff(s) \in Int
  BY ContextAssumption DEF TaskMinBackoff, TaskMaxBackoff, IsSettings
<1>2. LibraryMin \in Nat /\ LibraryMax \in Nat /\ Grace \in Nat
  BY ContextAssumption
<1>3. PICK lo \in Int : lo = Positive(TaskMinBackoff(s), LibraryMin)
  BY <1>1, <1>2 DEF Positive
<1>4. LongestWait(s) \in Nat
  BY <1>1, <1>2 DEF LongestWait, Positive
<1>5. Doubled[n - 1] \in Int
  BY DoubledValues
<1>6. lo * Doubled[n - 1] \in Int
  BY <1>3, <1>5
<1>7. Backoff(s, n) = IF lo >= LongestWait(s) THEN LongestWait(s) ELSE Earlier(lo * Doubled[n - 1], LongestWait(s))
  BY <1>3 DEF Backoff, ForAttempt, LongestWait
<1>8. Backoff(s, n) \in Int /\ Backoff(s, n) <= LongestWait(s)
  BY <1>3, <1>4, <1>6, <1>7 DEF Earlier
<1> QED
  BY <1>2, <1>4, <1>8 DEF Round

\* Every round is one longer than the one before, and none is shorter than nothing.
LEMMA Rounds ==
  ASSUME NEW s \in Settings, NEW k \in Nat
  PROVE  /\ LimitAfter(s, k) \in Int /\ LimitAfter(s, k + 1) = LimitAfter(s, k) + Round(s)
         /\ StopEnd(s) <= LimitAfter(s, k)
         /\ \A m \in Nat : k <= m => LimitAfter(s, k) <= LimitAfter(s, m)
<1>1. PICK w \in Nat : w = Round(s)
  BY BackoffIsBounded, 1 \in Nat \ {0}
<1>2. StopEnd(s) \in Int /\ Later(StopEnd(s), 0) \in Int /\ StopEnd(s) <= Later(StopEnd(s), 0)
  BY ContextsNest, 0 \in Int DEF Later
<1>3. \A m \in Nat : LimitAfter(s, m) = Later(StopEnd(s), 0) + m * w
  BY <1>1 DEF LimitAfter
<1>4. k * w \in Nat /\ (k + 1) * w = k * w + w
  BY <1>1
<1>5. ASSUME NEW m \in Nat, k <= m PROVE k * w <= m * w /\ m * w \in Nat
  <2>1. PICK d \in Nat : m = k + d
    BY <1>5, m - k \in Nat
  <2>2. m * w = k * w + d * w /\ d * w \in Nat
    BY <1>1, <2>1
  <2> QED BY <1>4, <2>2
<1> QED
  BY <1>1, <1>2, <1>3, <1>4, <1>5

\* The attempts that have reported, and when the current step began.
CallTimes ==
  /\ settings \in Settings /\ attempts \in Nat /\ now \in Int /\ started \in Int
  /\ phase = "attempting" =>
       /\ attempts < Later(settings.retries, 1)
       /\ now <= LimitAfter(settings, attempts) /\ started <= LimitAfter(settings, attempts)
  /\ phase = "backing off" =>
       /\ 0 < attempts /\ attempts < settings.retries
       /\ now <= LimitAfter(settings, attempts - 1) + Grace
  /\ phase = "returned" => now <= LimitAfter(settings, Later(settings.retries, 1) - 1) + Grace

LEMMA CallTimesInit == ContextInit => CallTimes
<1> SUFFICES ASSUME ContextInit PROVE CallTimes
  OBVIOUS
<1>1. settings \in Settings /\ phase = "attempting" /\ now = 0 /\ started = 0 /\ attempts = 0
  BY DEF ContextInit
<1>2. settings.retries \in Nat
  BY <1>1, ContextAssumption DEF IsSettings
<1>3. 0 <= LimitAfter(settings, 0)
  <2>1. Round(settings) \in Nat /\ StopEnd(settings) \in Int
    BY <1>1, BackoffIsBounded, ContextsNest, 1 \in Nat \ {0}, 0 \in Int
  <2>2. 0 * Round(settings) = 0
    BY <2>1
  <2> QED BY <2>1, <2>2 DEF LimitAfter, Later
<1> QED
  BY <1>1, <1>2, <1>3 DEF CallTimes, Later

LEMMA CallTimesStep == CallTimes /\ [ContextNext]_contextVars => CallTimes'
<1> SUFFICES ASSUME CallTimes, [ContextNext]_contextVars PROVE CallTimes'
  OBVIOUS
<1>1. /\ settings \in Settings /\ settings.retries \in Nat /\ Grace \in Nat
      /\ attempts \in Nat /\ now \in Int /\ started \in Int
  BY ContextAssumption DEF CallTimes, IsSettings
<1>2. ASSUME NEW t \in Times, Succeeds(t) \/ Fails(t) PROVE CallTimes'
  <2>1. /\ phase = "attempting" /\ attempts' = attempts + 1 /\ UNCHANGED <<settings, started>>
        /\ now' = t /\ t <= Later(RequestEnd(settings, started), started) + Grace
        /\ phase' \in {"backing off", "returned"} /\ (phase' = "backing off" => attempts' < settings.retries)
    BY <1>2 DEF Succeeds, Fails, Reports
  <2>2. RequestEnd(settings, started) \in Int /\ RequestEnd(settings, started) <= StopEnd(settings) /\ StopEnd(settings) \in Int
    BY <1>1, ContextsNest
  <2>3. t \in Int
    BY <1>1, <2>2 DEF Times, Latest, Later, Earlier, Horizon
  <2>4. /\ started <= LimitAfter(settings, attempts) /\ attempts < Later(settings.retries, 1)
        /\ LimitAfter(settings, attempts) \in Int /\ StopEnd(settings) <= LimitAfter(settings, attempts)
    BY <1>1, <2>1, Rounds DEF CallTimes
  <2>5. t <= LimitAfter(settings, attempts) + Grace
    <3>1. PICK e, l, q \in Int : e = RequestEnd(settings, started) /\ l = LimitAfter(settings, attempts) /\ q = started
      BY <1>1, <2>2, <2>4
    <3>2. e <= l /\ q <= l /\ t <= Later(e, q) + Grace /\ t \in Int /\ Grace \in Nat
      <4>1. e <= StopEnd(settings) /\ StopEnd(settings) <= l /\ StopEnd(settings) \in Int
        BY <2>2, <2>4, <3>1
      <4>2. e <= l
        BY <4>1
      <4> QED BY <1>1, <2>1, <2>3, <2>4, <3>1, <4>2
    <3>3. t <= l + Grace
      BY <3>2 DEF Later
    <3> QED BY <3>1, <3>3
  <2>6. PICK last \in Nat : last = Later(settings.retries, 1) - 1 /\ attempts <= last
    BY <1>1, <2>4 DEF Later
  <2>7. LimitAfter(settings, attempts) <= LimitAfter(settings, last) /\ LimitAfter(settings, last) \in Int
    BY <1>1, <2>6, Rounds
  <2>8. t <= LimitAfter(settings, last) + Grace
    BY <1>1, <2>3, <2>4, <2>5, <2>7
  <2>9. attempts' \in Nat /\ 0 < attempts' /\ attempts' - 1 = attempts
    <3>1. attempts \in Nat /\ attempts' = attempts + 1
      BY <1>1, <2>1
    <3> QED BY <3>1
  <2> QED
    BY <1>1, <2>1, <2>3, <2>5, <2>6, <2>8, <2>9 DEF CallTimes, LimitAfter, StopEnd, Round
<1>3. CASE Retry
  <2>1. /\ phase = "backing off" /\ phase' = "attempting" /\ started' = now' /\ UNCHANGED <<settings, attempts>>
        /\ now' = now + Backoff(settings, attempts)
    BY <1>3 DEF Retry
  <2>2. 0 < attempts /\ attempts < settings.retries /\ now <= LimitAfter(settings, attempts - 1) + Grace
    BY <2>1 DEF CallTimes
  <2>3. PICK k \in Nat : k = attempts - 1
    BY <1>1, <2>2
  <2>4. Backoff(settings, attempts) \in Int /\ Backoff(settings, attempts) + Grace <= Round(settings) /\ Round(settings) \in Nat
    BY <1>1, <2>2, BackoffIsBounded DEF Round
  <2>5. LimitAfter(settings, attempts) = LimitAfter(settings, k) + Round(settings) /\ LimitAfter(settings, k) \in Int
    BY <1>1, <2>3, Rounds
  <2>6. now' <= LimitAfter(settings, attempts) /\ now' \in Int
    <3>1. PICK b, l, r \in Int : /\ b = Backoff(settings, attempts) /\ b + Grace <= r
                                 /\ l = LimitAfter(settings, k) /\ r = Round(settings)
      BY <2>4, <2>5
    <3>2. now \in Int /\ Grace \in Nat /\ now <= l + Grace /\ now' = now + b
      BY <1>1, <2>1, <2>2, <2>3, <3>1
    <3>3. now' \in Int /\ now' <= l + r
      BY <3>1, <3>2
    <3> QED BY <2>5, <3>1, <3>3
  <2>7. attempts < Later(settings.retries, 1)
    BY <1>1, <2>2 DEF Later
  <2> QED
    BY <1>1, <2>1, <2>6, <2>7 DEF CallTimes, LimitAfter, StopEnd, Round
<1>4. CASE Returned \/ UNCHANGED contextVars
  BY <1>4 DEF Returned, CallTimes, contextVars
<1> QED
  BY <1>2, <1>3, <1>4 DEF ContextNext, Attempt

\* However many attempts a call makes, it is over when the back-offs between them
\* have passed after its first limit (scheduler.go:163, 233-251).
THEOREM OverrunBounded == ContextSpec => []OverrunIsBounded
<1>1. CallTimes => OverrunIsBounded
  BY DEF CallTimes, OverrunIsBounded, LimitAfter, Round
<1> QED
  BY <1>1, CallTimesInit, CallTimesStep, PTL DEF ContextSpec

\* No attempt goes on after any of its limits, in whatever order they come and
\* however many attempts there were before it (runner.go:404-408).
THEOREM EveryLimitCounts == ContextSpec => FirstTimeoutCounts
<1> DEFINE Within(limit) == now' <= Later(limit, started) + Grace
           Counts == phase = "attempting" /\ attempts' > attempts =>
             /\ Within(settings.parent) /\ Within(settings.closing)
             /\ settings.maxRun # 0 => Within(settings.maxRun)
             /\ settings.timeoutSet /\ settings.timeout > 0 => now' <= started + settings.timeout + Grace
             /\ settings.maxTask # 0 => now' <= started + settings.maxTask + Grace
<1>1. CallTimes /\ [ContextNext]_contextVars => [Counts]_contextVars
  <2> SUFFICES ASSUME CallTimes, [ContextNext]_contextVars, phase = "attempting", attempts' > attempts
               PROVE  Counts
    OBVIOUS
  <2>1. /\ settings \in Settings /\ IsSettings(settings) /\ started \in Int /\ attempts \in Nat
        /\ Grace \in Nat /\ Forever \in Nat
    BY ContextAssumption DEF CallTimes
  <2>2. PICK t \in Times : Succeeds(t) \/ Fails(t)
    BY <2>1 DEF ContextNext, Attempt, Retry, Returned, contextVars
  <2>3. now' = t /\ t <= Later(RequestEnd(settings, started), started) + Grace
    BY <2>2 DEF Succeeds, Fails, Reports
  <2>4. PICK end \in Int : end = RequestEnd(settings, started)
    BY <2>1, ContextsNest
  <2>5. t \in Int
    BY <2>1, <2>4 DEF Times, Latest, Later, Earlier, Horizon, CallTimes
  <2>6. ASSUME NEW limit \in Int, end <= limit PROVE Within(limit)
    BY <2>1, <2>3, <2>4, <2>5, <2>6 DEF Later
  <2>7. /\ settings.parent \in Int /\ settings.closing \in Int /\ settings.maxRun \in Nat
        /\ settings.timeout \in Int /\ settings.maxTask \in Nat
    BY <2>1 DEF IsSettings
  <2>8. /\ end <= settings.parent /\ end <= settings.closing
        /\ settings.maxRun # 0 => end <= settings.maxRun
        /\ settings.timeoutSet /\ settings.timeout > 0 => end <= started + settings.timeout
        /\ settings.maxTask # 0 => end <= started + settings.maxTask
    <3>1. PICK c, r \in Int : c = CallEnd(settings) /\ r = StopEnd(settings)
      BY <2>1, ContextsNest
    <3>2. end <= r /\ r <= c /\ c <= settings.parent /\ r <= settings.closing
      BY <2>1, <2>4, <3>1, ContextsNest
    <3>3. /\ settings.maxRun # 0 => r <= settings.maxRun
          /\ settings.timeoutSet /\ settings.timeout > 0 => end <= started + settings.timeout
          /\ settings.maxTask # 0 => end <= started + settings.maxTask
      BY <2>1, <2>4, <3>1, ContextsNest
    <3> QED BY <2>7, <3>2, <3>3
  <2>9. Within(settings.parent) /\ Within(settings.closing) /\ (settings.maxRun # 0 => Within(settings.maxRun))
    BY <2>6, <2>7, <2>8
  <2> HIDE DEF Within
  <2>10. /\ settings.timeoutSet /\ settings.timeout > 0 => now' <= started + settings.timeout + Grace
         /\ settings.maxTask # 0 => now' <= started + settings.maxTask + Grace
    BY <2>1, <2>3, <2>4, <2>5, <2>7, <2>8 DEF Later
  <2> QED BY <2>9, <2>10
<1> QED
  BY <1>1, CallTimesInit, CallTimesStep, PTL DEF ContextSpec, FirstTimeoutCounts

-----------------------------------------------------------------------------
(* The back-offs between the attempts.                                      *)

\* The back-offs, if they are set as WaitsDouble wants them.
LEMMA BackoffDoubles ==
  ASSUME NEW s \in Settings, s.minBackoff > 0 <=> s.maxBackoff > 0, NEW lo, NEW hi,
         lo = IF s.minBackoff > 0 THEN s.minBackoff ELSE DefaultMin,
         hi = IF s.maxBackoff > 0 THEN s.maxBackoff ELSE DefaultMax,
         lo <= hi, NEW n \in Nat \ {0}
  PROVE  /\ Backoff(s, 1) = lo
         /\ lo <= Backoff(s, n) /\ Backoff(s, n) <= hi
         /\ Backoff(s, n + 1) = Earlier(2 * Backoff(s, n), hi)
<1>1. lo \in Nat \ {0} /\ hi \in Nat \ {0} /\ TaskMinBackoff(s) = lo /\ TaskMaxBackoff(s) = hi
  BY ContextAssumption DEF IsSettings, TaskMinBackoff, TaskMaxBackoff
<1>2. \A k : Backoff(s, k) = IF lo >= hi THEN hi ELSE Earlier(lo * Doubled[k - 1], hi)
  BY <1>1 DEF Backoff, ForAttempt, Positive
<1>3. n - 1 \in Nat /\ (n - 1) + 1 = n /\ (n + 1) - 1 = n /\ 1 - 1 = 0
  OBVIOUS
<1>4. Doubled[0] = 1 /\ Doubled[n - 1] \in Nat \ {0} /\ Doubled[n] = 2 * Doubled[n - 1]
  BY <1>3, DoubledValues
<1>5. PICK p \in Nat \ {0} : p = Doubled[n - 1]
  BY <1>4
<1>6. PICK q \in Nat : q = lo * p
  BY <1>1, <1>5
<1>7. lo <= q /\ lo * (2 * p) = 2 * q
  BY <1>1, <1>5, <1>6
<1>8. Backoff(s, 1) = IF lo >= hi THEN hi ELSE Earlier(lo * 1, hi)
  BY <1>2, <1>3, <1>4
<1>9. Backoff(s, n) = IF lo >= hi THEN hi ELSE Earlier(q, hi)
  BY <1>2, <1>5, <1>6
<1>10. Backoff(s, n + 1) = IF lo >= hi THEN hi ELSE Earlier(2 * q, hi)
  BY <1>2, <1>3, <1>4, <1>5, <1>7
<1>11. CASE lo >= hi
  BY <1>1, <1>8, <1>9, <1>10, <1>11 DEF Earlier
<1>12. CASE ~(lo >= hi)
  BY <1>1, <1>6, <1>7, <1>8, <1>9, <1>10, <1>12 DEF Earlier
<1> QED BY <1>11, <1>12

\* The waits so far are the first back-offs, one for every attempt but the last to report.
WaitsInv ==
  /\ settings \in Settings /\ attempts \in Nat /\ waits \in Seq(Int)
  /\ Len(waits) = IF phase = "attempting" THEN attempts ELSE attempts - 1
  /\ phase # "attempting" => attempts # 0
  /\ \A k \in DOMAIN waits : waits[k] = Backoff(settings, k)

LEMMA WaitsInvHolds == ContextSpec => []WaitsInv
<1>1. ContextInit => WaitsInv
  BY DEF ContextInit, WaitsInv
<1>2. WaitsInv /\ [ContextNext]_contextVars => WaitsInv'
  <2> SUFFICES ASSUME WaitsInv, [ContextNext]_contextVars PROVE WaitsInv'
    OBVIOUS
  <2>1. ASSUME NEW t \in Times, Succeeds(t) \/ Fails(t) PROVE WaitsInv'
    <3>1. /\ phase = "attempting" /\ phase' \in {"backing off", "returned"} /\ attempts' = attempts + 1
          /\ waits' = waits /\ settings' = settings
      BY <2>1 DEF Succeeds, Fails, Reports
    <3>2. Len(waits) = attempts
      BY <3>1 DEF WaitsInv
    <3>3. attempts' \in Nat /\ attempts' # 0 /\ attempts' - 1 = attempts
      <4>1. attempts \in Nat /\ attempts' = attempts + 1
        BY <3>1 DEF WaitsInv
      <4> QED BY <4>1
    <3>4. phase' # "attempting" /\ Len(waits') = attempts' - 1
      BY <3>1, <3>2, <3>3
    <3> QED BY <3>1, <3>3, <3>4 DEF WaitsInv
  <2>2. CASE Retry
    <3>1. /\ phase = "backing off" /\ waits' = Append(waits, Backoff(settings, attempts)) /\ phase' = "attempting"
          /\ settings' = settings /\ attempts' = attempts
      BY <2>2 DEF Retry
    <3>2. Len(waits) = attempts - 1 /\ attempts \in Nat \ {0}
      BY <3>1 DEF WaitsInv
    <3>3. PICK b \in Int : b = Backoff(settings, attempts)
      BY <3>2, BackoffIsBounded DEF WaitsInv
    <3>4. waits \in Seq(Int) /\ waits' = Append(waits, b)
      BY <3>1, <3>3 DEF WaitsInv
    <3>5. waits' \in Seq(Int) /\ Len(waits') = attempts /\ DOMAIN waits = 1..attempts - 1
      BY <3>2, <3>4
    <3>6. \A k \in DOMAIN waits' : waits'[k] = Backoff(settings, k)
      <4>1. ASSUME NEW k \in DOMAIN waits' PROVE k \in DOMAIN waits \/ k = attempts
        BY <3>2, <3>4
      <4>2. waits'[attempts] = b /\ \A k \in DOMAIN waits : waits'[k] = waits[k]
        BY <3>2, <3>4
      <4>3. \A k \in DOMAIN waits : waits[k] = Backoff(settings, k)
        BY DEF WaitsInv
      <4> QED BY <3>3, <4>1, <4>2, <4>3
    <3> QED BY <3>1, <3>2, <3>5, <3>6 DEF WaitsInv
  <2>3. CASE Returned \/ UNCHANGED contextVars
    BY <2>3 DEF WaitsInv, Returned, contextVars
  <2> QED BY <2>1, <2>2, <2>3 DEF ContextNext, Attempt
<1> QED BY <1>1, <1>2, PTL DEF ContextSpec

\* If both back-offs are set, or neither, the waits double from the shorter to the
\* longer one, whatever they are and however often the task is attempted
\* (task.base.go:67-79, scheduler.go:227-244).
THEOREM WaitsAlwaysDouble == ContextSpec => []WaitsDouble
<1>1. WaitsInv => WaitsDouble
  <2> SUFFICES ASSUME WaitsInv, waits # <<>>, settings.minBackoff > 0 <=> settings.maxBackoff > 0,
                      NEW lo, lo = IF settings.minBackoff > 0 THEN settings.minBackoff ELSE DefaultMin,
                      NEW hi, hi = IF settings.maxBackoff > 0 THEN settings.maxBackoff ELSE DefaultMax,
                      lo <= hi
               PROVE  /\ waits[1] = lo
                      /\ \A k \in DOMAIN waits : lo <= waits[k] /\ waits[k] <= hi
                      /\ \A k \in 2..Len(waits) : waits[k] = Earlier(2 * waits[k - 1], hi)
    BY DEF WaitsDouble
  <2>1. settings \in Settings /\ waits \in Seq(Int) /\ 1 \in DOMAIN waits /\ DOMAIN waits = 1..Len(waits)
    BY DEF WaitsInv
  <2>2. \A k \in DOMAIN waits : waits[k] = Backoff(settings, k)
    BY DEF WaitsInv
  <2>3. \A n \in Nat \ {0} : /\ Backoff(settings, 1) = lo
                             /\ lo <= Backoff(settings, n) /\ Backoff(settings, n) <= hi
                             /\ Backoff(settings, n + 1) = Earlier(2 * Backoff(settings, n), hi)
    BY <2>1, BackoffDoubles
  <2>4. ASSUME NEW k \in 2..Len(waits) PROVE waits[k] = Earlier(2 * waits[k - 1], hi)
    <3>1. k - 1 \in Nat \ {0} /\ (k - 1) + 1 = k /\ k \in DOMAIN waits /\ k - 1 \in DOMAIN waits
      BY <2>1
    <3>2. Backoff(settings, (k - 1) + 1) = Earlier(2 * Backoff(settings, k - 1), hi)
      BY <2>3, <3>1
    <3> QED BY <2>2, <3>1, <3>2
  <2>5. \A k \in DOMAIN waits : k \in Nat \ {0}
    BY <2>1
  <2> QED BY <2>1, <2>2, <2>3, <2>4, <2>5
<1> QED BY <1>1, WaitsInvHolds, PTL

-----------------------------------------------------------------------------
(* The ids of task runs.                                                    *)

Statuses == {"absent", "pending", "finished"}
Makers == {"nobody", "executed", "panicked", "cancelled", "reconstructed"}
Entries == [id : Nat, status : Statuses, by : Makers]

IdTypes ==
  /\ uuid \in [Runs \cup {0} -> [Tasks -> Nat]] /\ nextId \in Nat
  /\ pc \in [Runs -> {"initializing", "retaining", "starting", "running", "suspended", "over"}]
  /\ position \in [Runs -> Nat]
  /\ results \in [Runs -> [Tasks -> Entries]] /\ record \in [Runs -> [Tasks -> Entries]]

\* The ids a task of a run has or had in this execution are its own, and were given.
Belongs(id, r, t) == id \in {uuid[r][t], results[r][t].id, record[r][t].id}
IdsGiven ==
  /\ nextId > 0
  /\ \A r \in Runs, t \in Tasks, id \in Nat : Belongs(id, r, t) => id < nextId
IdsApart ==
  \A r, q \in Runs, t, u \in Tasks, id \in Nat \ {0} :
    Belongs(id, r, t) /\ Belongs(id, q, u) => r = q /\ t = u

\* What the loop of Run has done for a task, and what remains true of it.
Retained(r, t) == record[r][t].status # "absent" => uuid[r][t] = record[r][t].id
PendingRetained ==
  \A r \in Runs, t \in Tasks :
    /\ pc[r] = "retaining" /\ t < position[r] => Retained(r, t)
    /\ pc[r] \in {"starting", "running"} => Retained(r, t)
    /\ pc[r] = "running" /\ results[r][t].by = "executed" /\ record[r][t].status # "absent"
         => results[r][t].id = record[r][t].id

IdInv == IdTypes /\ IdsGiven /\ IdsApart /\ PendingRetained

-----------------------------------------------------------------------------

LEMMA IdInitInv == ~Shared /\ IdInit => IdInv
BY IdsAssumption DEF IdInit, IdInv, IdTypes, IdsGiven, IdsApart, PendingRetained, Belongs, Retained, Entry, Absent,
   Entries, Statuses, Makers, Tasks

\* The types, one action at a time.
LEMMA LoopTypes ==
  ASSUME IdTypes, NEW r \in Runs, NEW this, NEW next \in {"retaining", "starting"}, Loop(r, this, next)
  PROVE  /\ pc' \in [Runs -> {"initializing", "retaining", "starting", "running", "suspended", "over"}]
         /\ position' \in [Runs -> Nat]
BY IdsAssumption DEF IdTypes, Loop

LEMMA UuidTypes ==
  ASSUME ~Shared, IdTypes, NEW r \in Runs, NEW id, SetUuid(r, id), position[r] \in Tasks => id \in Nat
  PROVE  uuid' \in [Runs \cup {0} -> [Tasks -> Nat]]
BY DEF IdTypes, SetUuid, PipelineOf

LEMMA FinishedEntries ==
  \A e \in Entries : [e EXCEPT !.status = "finished"] \in Entries /\ [e EXCEPT !.status = "finished"].id = e.id
BY DEF Entries, Statuses, Makers

LEMMA ResumedEntries ==
  ASSUME IdTypes, NEW r \in Runs, Resume(r)
  PROVE  /\ record' \in [Runs -> [Tasks -> Entries]]
         /\ \A q \in Runs, t \in Tasks : record'[q][t].id = record[q][t].id
<1>1. PICK S : record' = [record EXCEPT ![r] = [t \in Tasks |->
                   IF t \in S THEN [record[r][t] EXCEPT !.status = "finished"] ELSE record[r][t]]]
  BY DEF Resume
<1>2. \A q \in Runs, t \in Tasks : record[q][t] \in Entries
  BY DEF IdTypes
<1> QED
  BY <1>1, <1>2, FinishedEntries DEF IdTypes

LEMMA IdTypesStep == ~Shared /\ IdTypes /\ [IdNext]_idVars => IdTypes'
<1> SUFFICES ASSUME ~Shared, IdTypes, [IdNext]_idVars PROVE IdTypes'
  OBVIOUS
<1> USE IdsAssumption DEF Entries, Statuses, Makers, PipelineOf, Entry, Absent
<1>1. ASSUME NEW r \in Runs, Initialize(r) PROVE IdTypes'
  <2>1. nextId \in Nat /\ nextId' \in Nat
    BY <1>1 DEF IdTypes, Initialize
  <2>2. uuid' \in [Runs \cup {0} -> [Tasks -> Nat]]
    BY <1>1, <2>1, UuidTypes DEF Initialize
  <2> QED
    BY <1>1, <2>1, <2>2, LoopTypes DEF IdTypes, Initialize
<1>2. ASSUME NEW r \in Runs, Retain(r) PROVE IdTypes'
  <2>1. position[r] \in Tasks => record[r][position[r]].id \in Nat
    BY DEF IdTypes
  <2>2. uuid' \in [Runs \cup {0} -> [Tasks -> Nat]]
    BY <1>2, <2>1, UuidTypes DEF Retain, IdTypes
  <2> QED
    BY <1>2, <2>2, LoopTypes DEF IdTypes, Retain
<1>3. ASSUME NEW r \in Runs, ReconstructResults(r) PROVE IdTypes'
  BY <1>3 DEF IdTypes, ReconstructResults
<1>4. ASSUME NEW r \in Runs, NEW t \in Tasks, NEW status \in {"pending", "finished"}, ExecuteTaskRun(r, t, status)
      PROVE IdTypes'
  BY <1>4 DEF IdTypes, ExecuteTaskRun, TaskEnds
<1>5. ASSUME NEW r \in Runs, NEW t \in Tasks, Panics(r, t) PROVE IdTypes'
  BY <1>5 DEF IdTypes, Panics, TaskEnds
<1>6. ASSUME NEW r \in Runs, NEW t \in Tasks, IsCancelled(r, t) PROVE IdTypes'
  BY <1>6 DEF IdTypes, IsCancelled, TaskEnds
<1>7. ASSUME NEW r \in Runs, FinishRun(r) PROVE IdTypes'
  BY <1>7 DEF IdTypes, FinishRun
<1>8. ASSUME NEW r \in Runs, Resume(r) PROVE IdTypes'
  BY <1>8, ResumedEntries DEF IdTypes, Resume
<1>9. CASE AllOver \/ UNCHANGED idVars
  BY <1>9 DEF IdTypes, AllOver, idVars
<1> QED
  BY <1>1, <1>2, <1>3, <1>4, <1>5, <1>6, <1>7, <1>8, <1>9 DEF IdNext

-----------------------------------------------------------------------------

\* Where the ids after a step come from: a task had the id, has none, or gets
\* the next one, and then no other task gets it.
FromBefore(r0, t0) ==
  \A r \in Runs, t \in Tasks, id \in Nat :
    Belongs(id, r, t)' =>
      \/ Belongs(id, r, t) \/ id = 0
      \/ r = r0 /\ t = t0 /\ id = nextId /\ nextId' = nextId + 1

LEMMA FromBeforeKeepsIds ==
  ASSUME IdTypes, IdsGiven, IdsApart, nextId' \in {nextId, nextId + 1}, NEW r0, NEW t0, FromBefore(r0, t0)
  PROVE  IdsGiven' /\ IdsApart'
<1>1. nextId \in Nat /\ nextId > 0
  BY DEF IdTypes, IdsGiven
<1>2. \A r \in Runs, t \in Tasks : ~ Belongs(nextId, r, t)
  BY <1>1 DEF IdsGiven
<1>3. IdsGiven'
  <2>1. ASSUME NEW r \in Runs, NEW t \in Tasks, NEW id \in Nat, Belongs(id, r, t)'
        PROVE  id < nextId'
    <3>1. CASE Belongs(id, r, t)
      BY <1>1, <3>1 DEF IdsGiven
    <3>2. CASE id = 0
      BY <1>1, <3>2
    <3>3. CASE id = nextId /\ nextId' = nextId + 1
      BY <1>1, <3>3
    <3> QED
      BY <2>1, <3>1, <3>2, <3>3 DEF FromBefore
  <2> QED
    BY <1>1, <2>1 DEF IdsGiven
<1>4. IdsApart'
  <2>1. ASSUME NEW r \in Runs, NEW q \in Runs, NEW t \in Tasks, NEW u \in Tasks, NEW id \in Nat \ {0},
               Belongs(id, r, t)', Belongs(id, q, u)'
        PROVE  r = q /\ t = u
    <3>1. Belongs(id, r, t) \/ (r = r0 /\ t = t0 /\ id = nextId)
      BY <2>1 DEF FromBefore
    <3>2. Belongs(id, q, u) \/ (q = r0 /\ u = t0 /\ id = nextId)
      BY <2>1 DEF FromBefore
    <3>3. CASE Belongs(id, r, t) /\ Belongs(id, q, u)
      BY <3>3 DEF IdsApart
    <3> QED
      BY <1>2, <3>1, <3>2, <3>3
  <2> QED
    BY <2>1 DEF IdsApart
<1> QED
  BY <1>3, <1>4

\* What SetUuid changes, when the loop is at a task.
LEMMA UuidChanges ==
  ASSUME ~Shared, IdTypes, NEW r \in Runs, NEW id, SetUuid(r, id), NEW q \in Runs, NEW t \in Tasks
  PROVE  uuid'[q][t] = IF q = r /\ t = position[r] THEN id ELSE uuid[q][t]
BY DEF IdTypes, SetUuid, PipelineOf

LEMMA IdsStep == ~Shared /\ IdTypes /\ IdsGiven /\ IdsApart /\ [IdNext]_idVars => IdsGiven' /\ IdsApart'
<1> SUFFICES ASSUME ~Shared, IdTypes, IdsGiven, IdsApart, [IdNext]_idVars PROVE IdsGiven' /\ IdsApart'
  OBVIOUS
<1>0. nextId \in Nat
  BY DEF IdTypes
<1>1. ASSUME NEW r \in Runs, Initialize(r) PROVE IdsGiven' /\ IdsApart'
  <2>1. FromBefore(r, position[r])
    BY <1>1, UuidChanges DEF FromBefore, Belongs, Initialize
  <2> QED
    BY <1>1, <2>1, FromBeforeKeepsIds DEF Initialize
<1>2. ASSUME NEW r \in Runs, Retain(r) PROVE IdsGiven' /\ IdsApart'
  <2>1. FromBefore(r, 0)
    BY <1>2, UuidChanges DEF FromBefore, Belongs, Retain
  <2> QED
    BY <1>2, <2>1, FromBeforeKeepsIds DEF Retain
<1>3. ASSUME NEW r \in Runs, ReconstructResults(r) PROVE IdsGiven' /\ IdsApart'
  <2>1. \A q \in Runs, t \in Tasks : results'[q][t].id \in {results[q][t].id, 0}
    BY <1>3 DEF IdTypes, ReconstructResults, Entry, Absent
  <2>2. FromBefore(r, 0)
    BY <1>3, <2>1 DEF FromBefore, Belongs, ReconstructResults
  <2> QED
    BY <1>3, <2>2, FromBeforeKeepsIds DEF ReconstructResults
<1>4. ASSUME NEW r \in Runs, NEW t \in Tasks, NEW status \in {"pending", "finished"}, ExecuteTaskRun(r, t, status)
      PROVE IdsGiven' /\ IdsApart'
  <2>1. \A q \in Runs, u \in Tasks : results'[q][u].id \in {results[q][u].id, uuid[q][u]}
    BY <1>4 DEF IdTypes, ExecuteTaskRun, TaskEnds, Entry, PipelineOf
  <2>2. FromBefore(r, 0)
    BY <1>4, <2>1 DEF FromBefore, Belongs, ExecuteTaskRun, TaskEnds
  <2> QED
    BY <1>4, <2>2, FromBeforeKeepsIds DEF ExecuteTaskRun
<1>5. ASSUME NEW r \in Runs, NEW t \in Tasks, Panics(r, t) PROVE IdsGiven' /\ IdsApart'
  <2>1. \A q \in Runs, u \in Tasks :
           results'[q][u].id = results[q][u].id \/ (q = r /\ u = t /\ results'[q][u].id = nextId)
    BY <1>5 DEF IdTypes, Panics, TaskEnds, Entry
  <2>2. FromBefore(r, t)
    BY <1>5, <2>1 DEF FromBefore, Belongs, Panics, TaskEnds
  <2> QED
    BY <1>5, <2>2, FromBeforeKeepsIds DEF Panics
<1>6. ASSUME NEW r \in Runs, NEW t \in Tasks, IsCancelled(r, t) PROVE IdsGiven' /\ IdsApart'
  <2>1. \A q \in Runs, u \in Tasks : results'[q][u].id \in {results[q][u].id, 0}
    BY <1>6 DEF IdTypes, IsCancelled, TaskEnds, Entry
  <2>2. FromBefore(r, 0)
    BY <1>6, <2>1 DEF FromBefore, Belongs, IsCancelled, TaskEnds
  <2> QED
    BY <1>6, <2>2, FromBeforeKeepsIds DEF IsCancelled
<1>7. ASSUME NEW r \in Runs, FinishRun(r) PROVE IdsGiven' /\ IdsApart'
  <2>1. \A q \in Runs, u \in Tasks : record'[q][u] \in {record[q][u], results[q][u]}
    BY <1>7 DEF IdTypes, FinishRun
  <2>2. FromBefore(r, 0)
    BY <1>7, <2>1 DEF FromBefore, Belongs, FinishRun
  <2> QED
    BY <1>7, <2>2, FromBeforeKeepsIds DEF FinishRun
<1>8. ASSUME NEW r \in Runs, Resume(r) PROVE IdsGiven' /\ IdsApart'
  <2>1. \A q \in Runs, u \in Tasks : record'[q][u].id = record[q][u].id
    BY <1>8, ResumedEntries
  <2>2. FromBefore(r, 0)
    BY <1>8, <2>1 DEF FromBefore, Belongs, Resume
  <2> QED
    BY <1>8, <2>2, FromBeforeKeepsIds DEF Resume
<1>9. CASE AllOver \/ UNCHANGED idVars
  BY <1>9 DEF IdsGiven, IdsApart, Belongs, AllOver, idVars
<1> QED
  BY <1>1, <1>2, <1>3, <1>4, <1>5, <1>6, <1>7, <1>8, <1>9 DEF IdNext

-----------------------------------------------------------------------------

LEMMA PendingRetainedStep == ~Shared /\ IdTypes /\ PendingRetained /\ [IdNext]_idVars => PendingRetained'
<1> SUFFICES ASSUME ~Shared, IdTypes, PendingRetained, [IdNext]_idVars PROVE PendingRetained'
  OBVIOUS
<1>1. ASSUME NEW r \in Runs, Initialize(r) PROVE PendingRetained'
  <2>1. \A q \in Runs \ {r}, t \in Tasks : uuid'[q][t] = uuid[q][t] /\ pc'[q] = pc[q] /\ position'[q] = position[q]
    BY <1>1, UuidChanges DEF IdTypes, Initialize, Loop
  <2>2. pc'[r] = "initializing" \/ (pc'[r] = "retaining" /\ position'[r] = 1)
    BY <1>1 DEF IdTypes, Initialize, Loop
  <2>3. \A t \in Tasks : ~ t < 1
    BY DEF Tasks
  <2> QED
    BY <1>1, <2>1, <2>2, <2>3 DEF PendingRetained, Retained, Initialize
<1>2. ASSUME NEW r \in Runs, Retain(r) PROVE PendingRetained'
  <2>1. \A q \in Runs \ {r}, t \in Tasks : uuid'[q][t] = uuid[q][t] /\ pc'[q] = pc[q] /\ position'[q] = position[q]
    BY <1>2, UuidChanges DEF IdTypes, Retain, Loop
  <2>2. \A t \in Tasks : t = position[r] \/ Retained(r, t) => Retained(r, t)'
    BY <1>2, UuidChanges DEF Retain, Retained
  <2>3. \A t \in Tasks : t < position[r] => Retained(r, t)
    BY <1>2 DEF PendingRetained, Retain, Loop
  <2>4. \/ pc'[r] = "retaining" /\ position'[r] = position[r] + 1
        \/ pc'[r] = "starting" /\ position[r] >= NumTasks
    BY <1>2, IdsAssumption DEF IdTypes, Retain, Loop
  <2>5. \A t \in Tasks : (pc'[r] = "retaining" => t < position'[r]) => t <= position[r]
    BY <2>4, IdsAssumption DEF IdTypes, Tasks
  <2>6. \A t \in Tasks : (pc'[r] = "retaining" => t < position'[r]) => Retained(r, t)'
    BY <2>2, <2>3, <2>5 DEF IdTypes, Tasks
  <2> QED
    BY <1>2, <2>1, <2>4, <2>6 DEF PendingRetained, Retained, Retain
<1>3. ASSUME NEW r \in Runs, ReconstructResults(r) PROVE PendingRetained'
  <2>1. \A t \in Tasks : results'[r][t].by # "executed"
    BY <1>3 DEF IdTypes, ReconstructResults, Entry, Absent
  <2>2. \A q \in Runs \ {r} : results'[q] = results[q] /\ pc'[q] = pc[q]
    BY <1>3 DEF IdTypes, ReconstructResults
  <2>3. pc[r] = "starting" /\ pc'[r] = "running"
    BY <1>3 DEF IdTypes, ReconstructResults
  <2> QED
    BY <1>3, <2>1, <2>2, <2>3 DEF PendingRetained, Retained, ReconstructResults
<1>4. ASSUME NEW r \in Runs, NEW t \in Tasks, NEW status \in {"pending", "finished"}, ExecuteTaskRun(r, t, status)
      PROVE PendingRetained'
  <2>1. \A q \in Runs, u \in Tasks :
           results'[q][u] = results[q][u] \/ (q = r /\ u = t /\ results'[q][u].id = uuid[r][t])
    BY <1>4 DEF IdTypes, ExecuteTaskRun, TaskEnds, Entry, PipelineOf
  <2> QED
    BY <1>4, <2>1 DEF PendingRetained, Retained, ExecuteTaskRun, TaskEnds
<1>5. ASSUME NEW r \in Runs, NEW t \in Tasks, Panics(r, t) \/ IsCancelled(r, t) PROVE PendingRetained'
  <2>1. PICK entry : TaskEnds(r, t, entry) /\ entry.by # "executed"
    BY <1>5 DEF Panics, IsCancelled, Entry
  <2>2. \A q \in Runs, u \in Tasks : results'[q][u] = results[q][u] \/ results'[q][u].by # "executed"
    BY <2>1 DEF IdTypes, TaskEnds
  <2> QED
    BY <2>1, <2>2 DEF PendingRetained, Retained, TaskEnds
<1>6. ASSUME NEW r \in Runs, FinishRun(r) \/ Resume(r) PROVE PendingRetained'
  <2>1. \A q \in Runs \ {r} : record'[q] = record[q] /\ pc'[q] = pc[q]
    BY <1>6 DEF IdTypes, FinishRun, Resume
  <2>2. pc'[r] \in {"suspended", "over", "initializing"}
    BY <1>6 DEF IdTypes, FinishRun, Resume
  <2> QED
    BY <1>6, <2>1, <2>2 DEF PendingRetained, Retained, FinishRun, Resume
<1>7. CASE AllOver \/ UNCHANGED idVars
  BY <1>7 DEF PendingRetained, Retained, AllOver, idVars
<1> QED
  BY <1>1, <1>2, <1>3, <1>4, <1>5, <1>6, <1>7 DEF IdNext

-----------------------------------------------------------------------------

LEMMA IdInvStep == ~Shared /\ IdInv /\ [IdNext]_idVars => IdInv'
BY IdTypesStep, IdsStep, PendingRetainedStep DEF IdInv

\* The property of a step: what is recorded as executed had the id of the task,
\* which for a pending task run was the one recorded.
LEMMA IdKeptStep ==
  ASSUME IdInv, [IdNext]_idVars, NEW r \in Runs, NEW t \in Tasks,
         record[r][t].status = "pending", record'[r][t].by = "executed"
  PROVE  record'[r][t].id = record[r][t].id
<1>1. CASE record'[r] = record[r]
  BY <1>1
<1>2. ASSUME NEW q \in Runs, FinishRun(q) PROVE record'[r][t].id = record[r][t].id
  <2>1. CASE q # r
    BY <1>2, <2>1, <1>1 DEF IdInv, IdTypes, FinishRun
  <2>2. CASE q = r
    <3>1. record'[r][t] = results[r][t] /\ pc[r] = "running"
      BY <1>2, <2>2 DEF IdInv, IdTypes, FinishRun
    <3> QED
      BY <3>1 DEF IdInv, PendingRetained
  <2> QED
    BY <2>1, <2>2
<1>3. ASSUME NEW q \in Runs, Resume(q) PROVE record'[r][t].id = record[r][t].id
  BY <1>3, ResumedEntries DEF IdInv
<1> QED
  BY <1>1, <1>2, <1>3
  DEF IdNext, idVars, Initialize, Retain, ReconstructResults, ExecuteTaskRun, Panics, IsCancelled, TaskEnds, AllOver

\* With a pipeline for each run, an id names one task run, and goes on naming
\* it when a pending task run is executed again after a resumption.
THEOREM IdsAreTold == ~Shared => (IdSpec => IdsIdentify)
<1>1. IdInv => IdsAreUnique
  BY DEF IdInv, IdTypes, IdsApart, IdsAreUnique, Belongs, Entries
<1>2. IdInv /\ [IdNext]_idVars =>
        \A r \in Runs, t \in Tasks :
          record[r][t].status = "pending" /\ record'[r][t].by = "executed" => record'[r][t].id = record[r][t].id
  BY IdKeptStep
<1> SUFFICES ASSUME ~Shared PROVE IdSpec => IdsIdentify
  OBVIOUS
<1>3. IdInit => IdInv
  BY IdInitInv
<1>4. IdInv /\ [IdNext]_idVars => IdInv'
  BY IdInvStep
<1> QED
  BY <1>1, <1>2, <1>3, <1>4, PTL DEF IdSpec, IdsIdentify, PendingIdsAreKept
=============================================================================

-------------------------- MODULE RunResults_proofs ---------------------------
(****************************************************************************)
(* The records of one run, for every table of results a scheduler may leave:*)
(* what the sorted results, the outputs and the errors say of each other.   *)
(****************************************************************************)
EXTENDS RunResults, FiniteSetTheorems, SequenceTheorems, TLAPS

\* An order of a finite set has every element at exactly one place.
LEMMA OrderIs ==
  ASSUME NEW S, IsFiniteSet(S), NEW s \in SetToSeqs(S)
  PROVE  /\ Cardinality(S) \in Nat /\ DOMAIN s = 1..Cardinality(S) /\ Range(s) = S
         /\ \A i \in DOMAIN s : s[i] \in S
         /\ \A i, j \in DOMAIN s : s[i] = s[j] => i = j
         /\ \A k \in S : \E i \in DOMAIN s : s[i] = k
<1>1. PICK n : n = Cardinality(S)
  OBVIOUS
<1>2. s \in [1..n -> S] /\ \A i, j \in 1..n : i # j => s[i] # s[j]
  BY <1>1 DEF SetToSeqs
<1>3. n \in Nat
  BY <1>1, FS_CardinalityType
<1>4. IsFiniteSet(1..n) /\ Cardinality(1..n) = n
  BY <1>3, FS_Interval
<1>5. s \in Injection(1..n, S)
  BY <1>2 DEF Injection, IsInjective
<1>6. s \in Surjection(1..n, S)
  BY <1>1, <1>4, <1>5, FS_Injection
<1>7. \A k \in S : \E i \in 1..n : s[i] = k
  BY <1>6 DEF Surjection
<1> QED BY <1>1, <1>2, <1>3, <1>7 DEF Range

\* An order of S has as many places with an element of U as U has elements.
LEMMA PlacesCounted ==
  ASSUME NEW S, IsFiniteSet(S), NEW s \in SetToSeqs(S), NEW U \in SUBSET S, NEW at, at = {i \in DOMAIN s : s[i] \in U}
  PROVE  IsFiniteSet(at) /\ IsFiniteSet(U) /\ Cardinality(at) = Cardinality(U)
<1>1. /\ Cardinality(S) \in Nat /\ DOMAIN s = 1..Cardinality(S)
      /\ \A i, j \in DOMAIN s : s[i] = s[j] => i = j
      /\ \A k \in S : \E i \in DOMAIN s : s[i] = k
  BY OrderIs
<1>2. IsFiniteSet(at)
  <2>1. IsFiniteSet(1..Cardinality(S))
    BY <1>1, FS_Interval
  <2> QED BY <1>1, <2>1, FS_Subset
<1>3. PICK f : f = [i \in at |-> s[i]]
  OBVIOUS
<1>4. f \in Surjection(at, U)
  <2>1. f \in [at -> U]
    BY <1>3
  <2>2. \A k \in U : \E i \in at : f[i] = k
    BY <1>1, <1>3
  <2> QED BY <2>1, <2>2 DEF Surjection
<1>5. f \in Injection(at, U)
  <2>1. f \in [at -> U]
    BY <1>3
  <2>2. \A i, j \in at : f[i] = f[j] => i = j
    BY <1>1, <1>3
  <2> QED BY <2>1, <2>2 DEF Injection, IsInjective
<1> QED BY <1>2, <1>4, <1>5, FS_Surjection

\* The rank of a place among others: every number up to theirs is one's.
Rank(S, i) == Cardinality({j \in S : j <= i})

\* The ranks of a finite set of numbers are its places.
LEMMA Ranks ==
  ASSUME NEW S, S \in SUBSET Int, IsFiniteSet(S)
  PROVE  /\ Cardinality(S) \in Nat
         /\ \A i \in S : Rank(S, i) \in 1..Cardinality(S)
         /\ \A i, j \in S : Rank(S, i) = Rank(S, j) => i = j
         /\ \A n \in 1..Cardinality(S) : \E i \in S : Rank(S, i) = n
<1>1. Cardinality(S) \in Nat
  BY FS_CardinalityType
<1>2. ASSUME NEW i \in S
      PROVE  /\ IsFiniteSet({j \in S : j <= i}) /\ Rank(S, i) \in 1..Cardinality(S)
  <2>1. PICK U : U = {j \in S : j <= i}
    OBVIOUS
  <2>2. IsFiniteSet(U) /\ Cardinality(U) <= Cardinality(S) /\ Cardinality(U) \in Nat
    BY <2>1, FS_Subset, FS_CardinalityType
  <2>3. Cardinality(U) # 0
    BY <2>1, <2>2, FS_EmptySet
  <2> QED BY <1>1, <2>1, <2>2, <2>3 DEF Rank
<1>3. ASSUME NEW i \in S, NEW j \in S, i < j PROVE Rank(S, i) # Rank(S, j)
  <2>1. PICK U, V : U = {k \in S : k <= i} /\ V = {k \in S : k <= j}
    OBVIOUS
  <2>2. U \in SUBSET V /\ U # V
    <3>1. i \in Int /\ j \in Int /\ \A k \in S : k \in Int
      OBVIOUS
    <3>2. \A k \in S : k <= i => k <= j
      BY <1>3, <3>1
    <3>3. j \in V /\ j \notin U
      BY <1>3, <2>1, <3>1
    <3> QED BY <2>1, <3>2, <3>3
  <2>3. IsFiniteSet(V)
    BY <1>2, <2>1
  <2>4. Cardinality(U) # Cardinality(V)
    BY <2>2, <2>3, FS_Subset
  <2> QED BY <2>1, <2>4 DEF Rank
<1>4. \A i, j \in S : Rank(S, i) = Rank(S, j) => i = j
  <2>1. \A i, j \in S : i < j \/ j < i \/ i = j
    OBVIOUS
  <2> QED BY <1>3, <2>1
<1>5. PICK f : f = [i \in S |-> Rank(S, i)]
  OBVIOUS
<1>6. PICK n \in Nat : n = Cardinality(S)
  BY <1>1
<1>7. f \in Injection(S, 1..n)
  <2>1. f \in [S -> 1..n]
    BY <1>2, <1>5, <1>6
  <2>2. \A i, j \in S : f[i] = f[j] => i = j
    BY <1>4, <1>5
  <2> QED BY <2>1, <2>2 DEF Injection, IsInjective
<1>8. f \in Surjection(S, 1..n)
  <2>1. IsFiniteSet(1..n) /\ Cardinality(1..n) = Cardinality(S)
    BY <1>6, FS_Interval
  <2> QED BY <1>7, <2>1, FS_Injection
<1>9. \A k \in 1..n : \E i \in S : f[i] = k
  BY <1>8 DEF Surjection
<1> QED BY <1>1, <1>2, <1>4, <1>5, <1>6, <1>9

Places(s) == {i \in DOMAIN s : results[s[i]].terminal}

\* The terminal tasks of an order of all tasks are these and no others, each once.
LEMMA TerminalsAre ==
  ASSUME IsFiniteSet(Tasks), NEW s \in SetToSeqs(Tasks)
  PROVE  /\ IsFiniteSet(TerminalTasks) /\ Cardinality(TerminalTasks) \in Nat
         /\ DOMAIN Terminals(s) = 1..Cardinality(TerminalTasks)
         /\ Places(s) \in SUBSET Int /\ Places(s) \subseteq DOMAIN s
         /\ \A i \in Places(s) : s[i] \in TerminalTasks
         /\ \A k \in TerminalTasks : \E i \in Places(s) : s[i] = k
         /\ \A i \in Places(s) :
              Rank(Places(s), i) \in DOMAIN Terminals(s) /\ Terminals(s)[Rank(Places(s), i)] = s[i]
         /\ \A n \in DOMAIN Terminals(s) : Terminals(s)[n] \in TerminalTasks
         /\ \A m, n \in DOMAIN Terminals(s) : Terminals(s)[m] = Terminals(s)[n] => m = n
         /\ \A k \in TerminalTasks : \E n \in DOMAIN Terminals(s) : Terminals(s)[n] = k
<1>0. PICK T, at, q : T = TerminalTasks /\ at = Places(s) /\ q = Terminals(s)
  OBVIOUS
<1>1. /\ Cardinality(Tasks) \in Nat /\ DOMAIN s = 1..Cardinality(Tasks)
      /\ \A i \in DOMAIN s : s[i] \in Tasks
      /\ \A i, j \in DOMAIN s : s[i] = s[j] => i = j
      /\ \A k \in Tasks : \E i \in DOMAIN s : s[i] = k
  BY OrderIs
<1>2. T \in SUBSET Tasks /\ at = {i \in DOMAIN s : s[i] \in T}
  BY <1>0, <1>1 DEF TerminalTasks, Places
<1>3. IsFiniteSet(at) /\ IsFiniteSet(T) /\ Cardinality(at) = Cardinality(T)
  BY <1>2, PlacesCounted
<1>4. at \in SUBSET Int
  BY <1>1, <1>2
<1>5. PICK M \in Nat : M = Cardinality(T)
  BY <1>3, FS_CardinalityType
<1>6. q = [n \in 1..M |-> s[CHOOSE i \in at : Rank(at, i) = n]]
  BY <1>0, <1>3, <1>5 DEF Terminals, Rank, Places
<1>7. /\ \A i \in at : Rank(at, i) \in 1..M
      /\ \A i, j \in at : Rank(at, i) = Rank(at, j) => i = j
      /\ \A n \in 1..M : \E i \in at : Rank(at, i) = n
  <2>1. /\ \A i \in at : Rank(at, i) \in 1..Cardinality(at)
        /\ \A i, j \in at : Rank(at, i) = Rank(at, j) => i = j
        /\ \A n \in 1..Cardinality(at) : \E i \in at : Rank(at, i) = n
    <3>1. PICK A : A = at
      OBVIOUS
    <3>2. A \in SUBSET Int /\ IsFiniteSet(A)
      BY <1>3, <1>4, <3>1
    <3>3. /\ \A i \in A : Rank(A, i) \in 1..Cardinality(A)
          /\ \A i, j \in A : Rank(A, i) = Rank(A, j) => i = j
          /\ \A n \in 1..Cardinality(A) : \E i \in A : Rank(A, i) = n
      BY <3>2, Ranks, Zenon
    <3> QED BY <3>1, <3>3
  <2>2. Cardinality(at) = M
    BY <1>3, <1>5
  <2> QED BY <2>1, <2>2
<1>8. ASSUME NEW i \in at PROVE Rank(at, i) \in DOMAIN q /\ q[Rank(at, i)] = s[i]
  <2>1. (CHOOSE j \in at : Rank(at, j) = Rank(at, i)) = i
    BY <1>7
  <2> QED BY <1>6, <1>7, <2>1
<1>9. \A n \in DOMAIN q : \E i \in at : n = Rank(at, i) /\ q[n] = s[i]
  BY <1>6, <1>7, <1>8
<1>10. \A i \in at : s[i] \in T
  BY <1>2
<1>11. \A k \in T : \E i \in at : s[i] = k
  BY <1>1, <1>2
<1>12. \A m, n \in DOMAIN q : q[m] = q[n] => m = n
  BY <1>1, <1>2, <1>9
<1>13. \A k \in T : \E n \in DOMAIN q : q[n] = k
  BY <1>8, <1>11
<1>14. Cardinality(T) \in Nat /\ DOMAIN q = 1..Cardinality(T)
  BY <1>5, <1>6
<1>15. \A n \in DOMAIN q : q[n] \in T
  BY <1>9, <1>10
<1>16. at \subseteq DOMAIN s
  BY <1>2
<1> QED BY <1>0, <1>3, <1>4, <1>8, <1>10, <1>11, <1>12, <1>13, <1>14, <1>15, <1>16, Zenon

\* Sorted by index, with different indices, every terminal task is where its index puts it.
Position(k) == Cardinality({j \in TerminalTasks : results[j].index < results[k].index}) + 1
InOrder(s) == \A i, j \in DOMAIN s : i < j => ~ results[s[j]].index < results[s[i]].index

\* Every terminal task is in its place.
LEMMA TerminalsInPlace ==
  ASSUME IsFiniteSet(Tasks), \A k \in Tasks : results[k].index \in Int,
         NEW s \in SetToSeqs(Tasks), NEW q, q = Terminals(s), InOrder(s), Distinct(TerminalTasks),
         NEW k \in TerminalTasks
  PROVE  Position(k) \in DOMAIN q /\ q[Position(k)] = k
<1>1. PICK T, at : T = TerminalTasks /\ at = Places(s)
  OBVIOUS
<1>2. /\ IsFiniteSet(T) /\ at \in SUBSET Int /\ at \subseteq DOMAIN s
      /\ \A i \in at : s[i] \in T
      /\ \A j \in T : \E i \in at : s[i] = j
      /\ \A i \in at : Rank(at, i) \in DOMAIN q /\ q[Rank(at, i)] = s[i]
  BY <1>1, TerminalsAre, Zenon
<1>3. PICK i \in at : s[i] = k
  BY <1>1, <1>2
<1>4. T \in SUBSET Tasks /\ at \subseteq DOMAIN s /\ k \in T
  BY <1>1, <1>2 DEF TerminalTasks
<1>5. PICK U, V : U = {j \in T : results[j].index <= results[k].index} /\ V = {j \in T : results[j].index < results[k].index}
  OBVIOUS
<1>6. {j \in at : j <= i} = {j \in DOMAIN s : s[j] \in U}
  <2>1. ASSUME NEW j \in at PROVE j <= i <=> s[j] \in U
    <3>1. s[j] \in T /\ s[i] = k /\ results[s[j]].index \in Int /\ results[k].index \in Int /\ i \in Int /\ j \in Int
      BY <1>2, <1>3, <1>4
    <3>2. CASE j < i
      <4>1. ~ results[s[i]].index < results[s[j]].index
        BY <1>4, <3>2 DEF InOrder
      <4> QED BY <1>5, <3>1, <3>2, <4>1
    <3>3. CASE j = i
      BY <1>5, <3>1, <3>3
    <3>4. CASE i < j
      <4>1. ~ results[s[j]].index < results[s[i]].index
        BY <1>4, <3>4 DEF InOrder
      <4>2. s[j] # s[i]
        BY <1>4, <3>1, <3>4, OrderIs
      <4>3. results[s[j]].index # results[s[i]].index
        BY <1>1, <1>4, <3>1, <4>2 DEF Distinct
      <4> QED BY <1>5, <3>1, <3>4, <4>1, <4>3
    <3> QED BY <3>1, <3>2, <3>3, <3>4
  <2>2. \A j \in DOMAIN s : s[j] \in U => j \in at
    BY <1>1, <1>5 DEF TerminalTasks, Places
  <2> QED BY <1>4, <2>1, <2>2
<1>7. Rank(at, i) = Cardinality(U)
  <2>1. U \in SUBSET Tasks
    BY <1>4, <1>5
  <2> QED BY <1>6, <2>1, PlacesCounted DEF Rank
<1>8. Cardinality(U) = Cardinality(V) + 1
  <2>1. U = V \cup {k} /\ k \notin V
    <3>1. \A j \in T : results[j].index \in Int /\ (results[j].index = results[k].index => j = k)
      BY <1>1, <1>4 DEF Distinct
    <3> QED BY <1>4, <1>5, <3>1
  <2>2. IsFiniteSet(V)
    BY <1>2, <1>5, FS_Subset
  <2> QED BY <2>1, <2>2, FS_AddElement
<1>9. Position(k) = Rank(at, i)
  BY <1>1, <1>5, <1>7, <1>8 DEF Position
<1> QED BY <1>2, <1>3, <1>9

\* Two orders sorted by index have the terminal tasks in the same order.
LEMMA TerminalsAgree ==
  ASSUME IsFiniteSet(Tasks), \A k \in Tasks : results[k].index \in Int, Distinct(TerminalTasks),
         NEW s \in SetToSeqs(Tasks), InOrder(s), NEW p \in SetToSeqs(Tasks), InOrder(p)
  PROVE  DOMAIN Terminals(p) = DOMAIN Terminals(s) /\ \A n \in DOMAIN Terminals(s) : Terminals(p)[n] = Terminals(s)[n]
<1>1. PICK T, x, y : T = TerminalTasks /\ x = Terminals(s) /\ y = Terminals(p)
  OBVIOUS
<1>3. /\ DOMAIN x = 1..Cardinality(T)
      /\ \A n \in DOMAIN x : x[n] \in T
      /\ \A m, n \in DOMAIN x : x[m] = x[n] => m = n
  BY <1>1, TerminalsAre, Zenon
<1>4. DOMAIN y = 1..Cardinality(T)
  BY <1>1, TerminalsAre, Zenon
<1>5. ASSUME NEW n \in DOMAIN x PROVE y[n] = x[n]
  <2>1. PICK k \in T : k = x[n]
    BY <1>3
  <2>2. Position(k) \in DOMAIN x /\ x[Position(k)] = k
    BY <1>1, <2>1, TerminalsInPlace
  <2>3. y[Position(k)] = k
    BY <1>1, <2>1, TerminalsInPlace
  <2>4. Position(k) = n
    BY <1>3, <2>1, <2>2
  <2> QED BY <2>1, <2>3, <2>4
<1> QED BY <1>1, <1>3, <1>4, <1>5

-----------------------------------------------------------------------------
(* The records, in every reachable state *)

\* What the tail of runner.run and FinalResult make of an order of the tasks.
RunOf(s) ==
  [kind |-> "run",
   allErrors |-> Cardinality({i \in DOMAIN s : results[s[i]].error}),
   fatalErrors |-> [i \in DOMAIN Terminals(s) |-> results[Terminals(s)[i]].error],
   outputs |-> [i \in DOMAIN Terminals(s) |-> Value(Terminals(s)[i])],
   state |-> IF TRUE \in Range([i \in DOMAIN Terminals(s) |-> results[Terminals(s)[i]].error]) THEN "errored" ELSE "completed"]

FinalOf(s) ==
  [kind |-> "result",
   allErrors |-> [i \in DOMAIN s |-> results[s[i]].error],
   fatalErrors |-> [i \in DOMAIN Terminals(s) |-> results[Terminals(s)[i]].error],
   values |-> [i \in DOMAIN Terminals(s) |-> Value(Terminals(s)[i])]]

\* The task runs are sorted at any time, and all are there when the record is
\* made of them; the result is made of an order of all tasks, sorted as well.
ResultsInv ==
  /\ results \in Tables
  /\ taskRuns \in SetToSeqs(Range(taskRuns)) /\ Range(taskRuns) \subseteq Tasks /\ InOrder(taskRuns)
  /\ stage \in {"taskRuns", "results", "returned", "final"}
  /\ stage # "taskRuns" => Range(taskRuns) = Tasks /\ run = RunOf(taskRuns)
  /\ stage \in {"returned", "final"} => taskRunResults \in SetToSeqs(Tasks) /\ InOrder(taskRunResults)
  /\ stage = "final" /\ final.kind = "result" => final = FinalOf(taskRunResults)

\* What the tables hold.
LEMMA TasksFinite ==
  ASSUME results \in Tables
  PROVE  /\ IsFiniteSet(Tasks)
         /\ \A k \in Tasks : results[k].index \in Int /\ results[k].finished \in Nat /\ results[k].error \in BOOLEAN
BY TablesAssumption DEF IsTable, Tasks

\* An order by index and time does not put a greater index first.
LEMMA IndexDecides ==
  ASSUME NEW a, NEW b, results[a].index \in Int, results[b].index \in Int, ~ByIndexThenTime(a, b) \/ ~ByIndex(a, b)
  PROVE  ~ results[a].index < results[b].index
BY DEF ByIndexThenTime, ByIndex

\* What the sorts leave is an order of what was sorted, and the index decides.
LEMMA SortedIs ==
  ASSUME IsFiniteSet(Tasks), \A k \in Tasks : results[k].index \in Int, NEW s, Range(s) \subseteq Tasks, NEW p,
         p \in Sorted(s, ByIndexThenTime) \/ p \in Sorted(s, ByIndex)
  PROVE  p \in SetToSeqs(Range(s)) /\ Range(p) = Range(s) /\ InOrder(p)
<1>1. /\ p \in SetToSeqs(Range(s))
      /\ \/ \A i, j \in DOMAIN p : i < j => ~ByIndexThenTime(p[j], p[i])
         \/ \A i, j \in DOMAIN p : i < j => ~ByIndex(p[j], p[i])
  BY DEF Sorted
<1>2. IsFiniteSet(Range(s))
  BY FS_Subset
<1>3. Range(p) = Range(s) /\ \A i \in DOMAIN p : p[i] \in Range(s)
  BY <1>1, <1>2, OrderIs
<1>4. InOrder(p)
  <2>1. ASSUME NEW i \in DOMAIN p, NEW j \in DOMAIN p, i < j
        PROVE  ~ results[p[j]].index < results[p[i]].index
    <3>1. results[p[i]].index \in Int /\ results[p[j]].index \in Int
      BY <1>3
    <3>2. ~ByIndexThenTime(p[j], p[i]) \/ ~ByIndex(p[j], p[i])
      BY <1>1, <2>1
    <3> QED BY <3>1, <3>2, IndexDecides
  <2> QED BY <2>1 DEF InOrder
<1> QED BY <1>1, <1>3, <1>4

\* Sorting stably is sorting.
LEMMA StablySortedIs ==
  ASSUME NEW s, NEW p \in StablySorted(s, ByIndex)
  PROVE  p \in Sorted(s, ByIndex)
BY DEF StablySorted

\* An order of a set is as long as the set is large.
LEMMA OrdersAreSequences ==
  ASSUME NEW S, NEW s \in SetToSeqs(S), IsFiniteSet(S)
  PROVE  s \in Seq(S) /\ Len(s) = Cardinality(S)
<1>1. s \in [1..Cardinality(S) -> S] /\ Cardinality(S) \in Nat
  BY FS_CardinalityType DEF SetToSeqs
<1> QED BY <1>1, SeqDef, LenProperties

LEMMA ResultsInvHolds == ResultsSpec => []ResultsInv
<1>1. ResultsInit => ResultsInv
  <2> SUFFICES ASSUME ResultsInit PROVE ResultsInv
    OBVIOUS
  <2>1. results \in Tables /\ stage = "taskRuns" /\ taskRuns = <<>>
    BY DEF ResultsInit
  <2>2. Range(taskRuns) = {} /\ DOMAIN taskRuns = {}
    BY <2>1 DEF Range
  <2>3. taskRuns \in SetToSeqs({})
    <3>1. Cardinality({}) = 0 /\ 1..0 = {}
      BY FS_EmptySet
    <3>2. taskRuns \in [1..0 -> {}]
      BY <2>1
    <3> QED BY <3>1, <3>2 DEF SetToSeqs
  <2>4. InOrder(taskRuns)
    BY <2>2 DEF InOrder
  <2> QED BY <2>1, <2>2, <2>3, <2>4 DEF ResultsInv
<1>2. ResultsInv /\ [ResultsNext]_resultVars => ResultsInv'
  <2> SUFFICES ASSUME ResultsInv, [ResultsNext]_resultVars PROVE ResultsInv'
    OBVIOUS
  <2>1. IsFiniteSet(Tasks) /\ \A k \in Tasks : results[k].index \in Int
    BY TasksFinite DEF ResultsInv
  <2>2. results' = results
    BY DEF ResultsNext, AddTaskRun, UpdateRun, CollectResults, FinalResult, Over, resultVars
  <2>3. Tasks' = Tasks
    BY <2>2 DEF Tasks
  <2>4. \A s : InOrder(s)' <=> InOrder(s)
    BY <2>2 DEF InOrder
  <2>5. ASSUME taskRuns' = taskRuns PROVE RunOf(taskRuns)' = RunOf(taskRuns) /\ InOrder(taskRuns)' = InOrder(taskRuns)
    BY <2>2, <2>5 DEF RunOf, Terminals, Value, InOrder
  <2>6. ASSUME taskRunResults' = taskRunResults
        PROVE  FinalOf(taskRunResults)' = FinalOf(taskRunResults) /\ InOrder(taskRunResults)' = InOrder(taskRunResults)
    BY <2>2, <2>6 DEF FinalOf, Terminals, Value, InOrder
  <2>7. ASSUME AddTaskRun PROVE ResultsInv'
    <3>1. PICK k \in Tasks : taskRuns' \in Sorted(Append(taskRuns, k), ByIndexThenTime)
      BY <2>7 DEF AddTaskRun
    <3>2. Range(Append(taskRuns, k)) \subseteq Tasks
      <4>1. taskRuns \in Seq(Range(taskRuns)) /\ Range(taskRuns) \subseteq Tasks
        <5>1. IsFiniteSet(Range(taskRuns))
          BY <2>1, FS_Subset DEF ResultsInv
        <5> QED BY <5>1, OrdersAreSequences DEF ResultsInv
      <4>2. taskRuns \in Seq(Tasks)
        BY <4>1, SeqDef
      <4>3. Append(taskRuns, k) \in Seq(Tasks)
        BY <4>2, AppendProperties
      <4>4. \A i \in DOMAIN Append(taskRuns, k) : Append(taskRuns, k)[i] \in Tasks
        BY <4>3, ElementOfSeq, LenProperties
      <4> QED BY <4>4 DEF Range
    <3>3. taskRuns' \in SetToSeqs(Range(taskRuns')) /\ Range(taskRuns') \subseteq Tasks /\ InOrder(taskRuns')
      BY <2>1, <3>1, <3>2, SortedIs
    <3>4. InOrder(taskRuns)'
      BY <2>2, <3>3 DEF InOrder
    <3>5. stage' = "taskRuns"
      BY <2>7 DEF AddTaskRun
    <3> QED BY <2>2, <2>3, <3>3, <3>4, <3>5 DEF ResultsInv
  <2>8. ASSUME UpdateRun PROVE ResultsInv'
    <3>1. stage' = "results" /\ taskRuns' = taskRuns /\ Range(taskRuns) = Tasks
      BY <2>8 DEF UpdateRun
    <3>2. run' = RunOf(taskRuns)
      BY <2>8 DEF UpdateRun, RunOf
    <3> QED BY <2>2, <2>3, <2>5, <3>1, <3>2 DEF ResultsInv
  <2>9. ASSUME CollectResults PROVE ResultsInv'
    <3>1. stage = "results" /\ stage' = "returned" /\ taskRuns' = taskRuns /\ run' = run
      BY <2>9 DEF CollectResults
    <3>2. PICK s \in SetToSeqs(Tasks) : taskRunResults' \in StablySorted(s, ByIndex)
      BY <2>9 DEF CollectResults
    <3>3. Range(s) = Tasks
      BY <2>1, OrderIs
    <3>4. taskRunResults' \in Sorted(s, ByIndex)
      BY <3>2, StablySortedIs
    <3>5. taskRunResults' \in SetToSeqs(Tasks) /\ InOrder(taskRunResults')
      BY <2>1, <3>3, <3>4, SortedIs
    <3>6. InOrder(taskRunResults)'
      BY <2>2, <3>5 DEF InOrder
    <3> QED BY <2>2, <2>3, <2>5, <3>1, <3>5, <3>6 DEF ResultsInv
  <2>10. ASSUME FinalResult PROVE ResultsInv'
    <3>1. stage = "returned" /\ stage' = "final" /\ taskRuns' = taskRuns /\ run' = run
      BY <2>10 DEF FinalResult
    <3>2. /\ taskRunResults' \in Sorted(taskRunResults, ByIndex)
          /\ final' = [kind |-> "panic"] \/ final' = FinalOf(taskRunResults')
      BY <2>10 DEF FinalResult, FinalOf
    <3>3. taskRunResults \in SetToSeqs(Tasks)
      BY <3>1 DEF ResultsInv
    <3>4. Range(taskRunResults) = Tasks
      BY <2>1, <3>3, OrderIs
    <3>5. taskRunResults' \in SetToSeqs(Tasks) /\ InOrder(taskRunResults')
      BY <2>1, <3>2, <3>4, SortedIs
    <3>6. InOrder(taskRunResults)'
      BY <2>2, <3>5 DEF InOrder
    <3>7. FinalOf(taskRunResults') = FinalOf(taskRunResults)'
      BY <2>2 DEF FinalOf, Terminals, Value
    <3> QED BY <2>2, <2>3, <2>5, <3>1, <3>2, <3>5, <3>6, <3>7 DEF ResultsInv
  <2>11. ASSUME UNCHANGED resultVars PROVE ResultsInv'
    BY <2>3, <2>5, <2>6, <2>11 DEF ResultsInv, resultVars
  <2> QED BY <2>7, <2>8, <2>9, <2>10, <2>11 DEF ResultsNext, Over
<1> QED BY <1>1, <1>2, PTL DEF ResultsSpec

\* The greatest of finitely many numbers exists.
LEMMA GreatestIs ==
  ASSUME NEW S \in SUBSET Int, IsFiniteSet(S), NEW x \in S
  PROVE  Max(S) \in S /\ x <= Max(S)
<1>1. S # {} /\ Cardinality(S) \in Nat /\ Cardinality(S) \in 1..Cardinality(S)
  <2>1. Cardinality(S) \in Nat /\ Cardinality(S) # 0
    BY FS_CardinalityType, FS_EmptySet
  <2> QED BY <2>1
<1>2. PICK m \in S : Rank(S, m) = Cardinality(S)
  BY <1>1, Ranks
<1>3. ASSUME NEW y \in S PROVE y <= m
  <2>1. PICK U : U = {j \in S : j <= m}
    OBVIOUS
  <2>2. U \in SUBSET S /\ Cardinality(U) = Cardinality(S)
    BY <1>2, <2>1 DEF Rank
  <2>3. S = U
    BY <2>2, FS_Subset
  <2> QED BY <2>1, <2>3
<1>4. \E z \in S : \A y \in S : z >= y
  <2>1. \A y \in S : m >= y
    BY <1>3
  <2> QED BY <2>1
<1> DEFINE c == CHOOSE z \in S : \A y \in S : z >= y
<1>5. c \in S /\ \A y \in S : c >= y
  BY <1>4
<1>6. Max(S) = c
  BY DEF Max
<1> HIDE DEF c
<1> QED BY <1>5, <1>6

\* The three parts of what the records tell.
LEMMA Outputs ==
  ASSUME ResultsInv
  PROVE  OutputsAgree
<1> SUFFICES ASSUME Done, Distinct(TerminalTasks)
             PROVE  /\ run.outputs = final.values /\ run.fatalErrors = final.fatalErrors
                    /\ \A k \in TerminalTasks : final.values[Position(k)] = Value(k)
  BY DEF OutputsAgree, Position
<1>1. /\ IsFiniteSet(Tasks) /\ \A k \in Tasks : results[k].index \in Int
      /\ taskRuns \in SetToSeqs(Tasks) /\ InOrder(taskRuns)
      /\ taskRunResults \in SetToSeqs(Tasks) /\ InOrder(taskRunResults)
      /\ run = RunOf(taskRuns) /\ final = FinalOf(taskRunResults)
  BY TasksFinite DEF ResultsInv, Done
<1>2. PICK p, q : p = Terminals(taskRuns) /\ q = Terminals(taskRunResults)
  OBVIOUS
<1>3. DOMAIN p = DOMAIN q /\ \A n \in DOMAIN q : p[n] = q[n]
  BY <1>1, <1>2, TerminalsAgree
<1>4. /\ run.outputs = [i \in DOMAIN p |-> Value(p[i])] /\ run.fatalErrors = [i \in DOMAIN p |-> results[p[i]].error]
      /\ final.values = [i \in DOMAIN q |-> Value(q[i])] /\ final.fatalErrors = [i \in DOMAIN q |-> results[q[i]].error]
  BY <1>1, <1>2 DEF RunOf, FinalOf
<1>5. \A k \in TerminalTasks : Position(k) \in DOMAIN q /\ q[Position(k)] = k
  BY <1>1, <1>2, TerminalsInPlace
<1> QED BY <1>3, <1>4, <1>5

\* The record has an error exactly if the result has: fatal ones of terminal tasks, all
\* ones of any.
LEMMA Errors ==
  ASSUME ResultsInv
  PROVE  ErrorsAgree
<1> SUFFICES ASSUME Done PROVE ErrorsAgree
  BY DEF ErrorsAgree
<1>1. /\ IsFiniteSet(Tasks) /\ \A k \in Tasks : results[k].error \in BOOLEAN
      /\ taskRuns \in SetToSeqs(Tasks) /\ taskRunResults \in SetToSeqs(Tasks)
      /\ run = RunOf(taskRuns) /\ final = FinalOf(taskRunResults)
  BY TasksFinite DEF ResultsInv, Done
<1>2. PICK p, q : p = Terminals(taskRuns) /\ q = Terminals(taskRunResults)
  OBVIOUS
<1>3. (\A n \in DOMAIN p : p[n] \in TerminalTasks) /\ \A k \in TerminalTasks : \E n \in DOMAIN p : p[n] = k
  <2>1. PICK s \in SetToSeqs(Tasks) : s = taskRuns
    BY <1>1
  <2>2. \A n \in DOMAIN Terminals(s) : Terminals(s)[n] \in TerminalTasks
    BY <1>1, TerminalsAre, Zenon
  <2>3. \A k \in TerminalTasks : \E n \in DOMAIN Terminals(s) : Terminals(s)[n] = k
    BY <1>1, TerminalsAre, Zenon
  <2> QED BY <1>2, <2>1, <2>2, <2>3
<1>4. (\A n \in DOMAIN q : q[n] \in TerminalTasks) /\ \A k \in TerminalTasks : \E n \in DOMAIN q : q[n] = k
  <2>1. PICK s \in SetToSeqs(Tasks) : s = taskRunResults
    BY <1>1
  <2>2. \A n \in DOMAIN Terminals(s) : Terminals(s)[n] \in TerminalTasks
    BY <1>1, TerminalsAre, Zenon
  <2>3. \A k \in TerminalTasks : \E n \in DOMAIN Terminals(s) : Terminals(s)[n] = k
    BY <1>1, TerminalsAre, Zenon
  <2> QED BY <1>2, <2>1, <2>2, <2>3
<1>5. TerminalTasks \subseteq Tasks
  BY DEF TerminalTasks
<1> DEFINE Failed == \E k \in TerminalTasks : results[k].error
<1>6. run.state = "errored" <=> Failed
  <2>1. PICK f : f = [i \in DOMAIN p |-> results[p[i]].error]
    OBVIOUS
  <2>2. run.state = IF TRUE \in Range(f) THEN "errored" ELSE "completed"
    BY <1>1, <1>2, <2>1 DEF RunOf
  <2>3. TRUE \in Range(f) <=> \E i \in DOMAIN p : f[i] = TRUE
    BY <2>1, Zenon DEF Range
  <2>4. \A i \in DOMAIN p : f[i] = TRUE <=> results[p[i]].error
    BY <1>1, <1>3, <1>5, <2>1
  <2> QED BY <1>3, <2>2, <2>3, <2>4
<1>7. HasFatalErrors(final) <=> Failed
  <2>1. PICK f : f = [i \in DOMAIN q |-> results[q[i]].error]
    OBVIOUS
  <2>2. final.fatalErrors = f
    BY <1>1, <1>2, <2>1 DEF FinalOf
  <2>3. TRUE \in Range(f) <=> \E i \in DOMAIN q : f[i] = TRUE
    BY <2>1, Zenon DEF Range
  <2>4. \A i \in DOMAIN q : f[i] = TRUE <=> results[q[i]].error
    BY <1>1, <1>4, <1>5, <2>1
  <2> QED BY <1>4, <2>2, <2>3, <2>4 DEF HasFatalErrors
<1>8. PICK E : E = {k \in Tasks : results[k].error}
  OBVIOUS
<1>9. E \in SUBSET Tasks /\ IsFiniteSet(E) /\ Cardinality(E) \in Nat
  BY <1>1, <1>8, FS_Subset, FS_CardinalityType
<1>10. run.allErrors = Cardinality(E)
  <2>1. \A i \in DOMAIN taskRuns : taskRuns[i] \in Tasks
    BY <1>1, OrderIs
  <2>2. PICK at : at = {i \in DOMAIN taskRuns : taskRuns[i] \in E}
    OBVIOUS
  <2>3. at = {i \in DOMAIN taskRuns : results[taskRuns[i]].error}
    BY <1>8, <2>1, <2>2
  <2>4. Cardinality(at) = Cardinality(E)
    BY <1>1, <1>9, <2>2, PlacesCounted
  <2> QED BY <1>1, <2>3, <2>4 DEF RunOf
<1>11. PICK a : a = final.allErrors
  OBVIOUS
<1>12. a = [i \in DOMAIN taskRunResults |-> results[taskRunResults[i]].error]
  BY <1>1, <1>11 DEF FinalOf
<1>13. /\ \A i \in DOMAIN taskRunResults : taskRunResults[i] \in Tasks
       /\ \A k \in Tasks : \E i \in DOMAIN taskRunResults : taskRunResults[i] = k
  BY <1>1, OrderIs
<1>14. Cardinality({i \in DOMAIN a : a[i]}) = Cardinality(E)
  <2>1. PICK at : at = {i \in DOMAIN taskRunResults : taskRunResults[i] \in E}
    OBVIOUS
  <2>2. at = {i \in DOMAIN a : a[i]}
    BY <1>8, <1>12, <1>13, <2>1
  <2>3. Cardinality(at) = Cardinality(E)
    BY <1>1, <1>9, <2>1, PlacesCounted
  <2> QED BY <2>2, <2>3
<1>15. HasErrors(final) <=> E # {}
  <2>1. TRUE \in Range(a) <=> \E i \in DOMAIN a : a[i] = TRUE
    BY Zenon DEF Range
  <2>2. \A i \in DOMAIN taskRunResults : a[i] = TRUE <=> taskRunResults[i] \in E
    BY <1>1, <1>8, <1>12, <1>13
  <2>3. DOMAIN a = DOMAIN taskRunResults
    BY <1>12
  <2>4. HasErrors(final) <=> \E i \in DOMAIN taskRunResults : taskRunResults[i] \in E
    <3>1. HasErrors(final) <=> TRUE \in Range(a)
      BY <1>11, Zenon DEF HasErrors
    <3>2. TRUE \in Range(a) <=> \E i \in DOMAIN taskRunResults : a[i] = TRUE
      BY <2>1, <2>3, Zenon
    <3> QED BY <2>2, <3>1, <3>2, Zenon
  <2>5. (\E i \in DOMAIN taskRunResults : taskRunResults[i] \in E) <=> E # {}
    BY <1>9, <1>13
  <2> QED BY <2>4, <2>5, Zenon
<1>16. run.allErrors > 0 <=> E # {}
  BY <1>9, <1>10, FS_EmptySet
<1> QED BY <1>6, <1>7, <1>10, <1>11, <1>14, <1>15, <1>16 DEF ErrorsAgree

\* The one terminal task of a run gives its result and its error.
LEMMA Singular ==
  ASSUME ResultsInv
  PROVE  SingularIsTheTerminal
<1> SUFFICES ASSUME Done, Cardinality(TerminalTasks) = 1, NEW k, k = CHOOSE t \in TerminalTasks : TRUE
             PROVE  /\ SingularResult(final) = [kind |-> "singular", error |-> results[k].error, value |-> Value(k)]
                    /\ results[k].finished <= GetTaskRunResultsFinishedAt(taskRunResults)
  BY DEF SingularIsTheTerminal
<1>1. /\ IsFiniteSet(Tasks) /\ \A j \in Tasks : results[j].finished \in Nat
      /\ taskRunResults \in SetToSeqs(Tasks) /\ final = FinalOf(taskRunResults)
  BY TasksFinite DEF ResultsInv, Done
<1>2. PICK q : q = Terminals(taskRunResults)
  OBVIOUS
<1>3. IsFiniteSet(TerminalTasks) /\ DOMAIN q = 1..1 /\ \A n \in DOMAIN q : q[n] \in TerminalTasks
  BY <1>1, <1>2, TerminalsAre, Zenon
<1>4. TerminalTasks = {k}
  BY <1>3, FS_Singleton
<1>5. q[1] = k
  BY <1>3, <1>4
<1>6. PICK f, v : f = [i \in 1..1 |-> results[q[i]].error] /\ v = [i \in 1..1 |-> Value(q[i])]
  OBVIOUS
<1>7. final.fatalErrors = f /\ final.values = v
  BY <1>1, <1>2, <1>3, <1>6 DEF FinalOf
<1>8. Len(f) = 1 /\ Len(v) = 1 /\ f[1] = results[k].error /\ v[1] = Value(k)
  <2>1. f = [i \in 1..1 |-> f[i]] /\ v = [i \in 1..1 |-> v[i]]
    BY <1>6
  <2>2. Len(f) = 1
    BY <2>1, Z3
  <2>3. Len(v) = 1
    BY <2>1, Z3
  <2>4. 1 \in 1..1
    OBVIOUS
  <2>5. f[1] = results[q[1]].error
    BY <1>6, <2>4, Zenon
  <2>6. v[1] = Value(q[1])
    BY <1>6, <2>4, Zenon
  <2> QED BY <1>5, <2>2, <2>3, <2>5, <2>6
<1>9. SingularResult(final) = [kind |-> "singular", error |-> results[k].error, value |-> Value(k)]
  BY <1>7, <1>8 DEF SingularResult
<1>10. PICK S : S = {0} \cup {results[j].finished : j \in Range(taskRunResults)}
  OBVIOUS
<1>11. Range(taskRunResults) = Tasks /\ k \in Tasks
  BY <1>1, <1>4, OrderIs DEF TerminalTasks
<1>12. IsFiniteSet(S) /\ S \in SUBSET Int /\ results[k].finished \in S
  <2>1. PICK g : g = [j \in Tasks |-> results[j].finished]
    OBVIOUS
  <2>2. PICK W : W = {results[j].finished : j \in Tasks}
    OBVIOUS
  <2>3. g \in Surjection(Tasks, W)
    BY <2>1, <2>2 DEF Surjection
  <2>4. IsFiniteSet(W)
    BY <1>1, <2>3, FS_Surjection
  <2>5. S = W \cup {0}
    BY <1>10, <1>11, <2>2
  <2>6. IsFiniteSet(S)
    BY <2>4, <2>5, FS_AddElement
  <2>7. W \subseteq Int /\ results[k].finished \in W
    <3>1. \A j \in Tasks : results[j].finished \in Int
      BY <1>1
    <3>2. W \subseteq Int
      BY <2>2, <3>1
    <3>3. results[k].finished \in W
      <4>1. PICK j \in Tasks : j = k
        BY <1>11
      <4>2. results[j].finished \in W
        BY <2>2, Zenon
      <4> QED BY <4>1, <4>2
    <3> QED BY <3>2, <3>3
  <2> QED BY <2>5, <2>6, <2>7
<1>13. results[k].finished <= Max(S)
  BY <1>12, GreatestIs
<1> QED BY <1>9, <1>10, <1>13 DEF GetTaskRunResultsFinishedAt

\* Whatever a scheduler leaves, in whatever order the task runs are stored, the record and
\* the result of a run tell the same (runner.go:301-369, common.go:152-246).
THEOREM RecordsAlwaysTellTheSame == ResultsSpec => []RecordsTellTheSame
<1>1. ResultsInv => RecordsTellTheSame
  BY Outputs, Errors, Singular DEF RecordsTellTheSame
<1> QED BY <1>1, ResultsInvHolds, PTL
=============================================================================

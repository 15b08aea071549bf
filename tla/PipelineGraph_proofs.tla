------------------------- MODULE PipelineGraph_proofs -------------------------
(****************************************************************************)
(* What Parse returns and what it rejects, for every document.              *)
(****************************************************************************)
EXTENDS PipelineGraph, FiniteSetTheorems, TLAPS

-----------------------------------------------------------------------------
(* Finite sets, their sequences and their orders.                            *)

LEMMA LeastNumber ==
  ASSUME NEW T \in SUBSET Nat, T # {}
  PROVE  \E m \in T : \A n \in T : m <= n
<1> DEFINE R == OpToRel(<, Nat)
<1>1. IsWellFoundedOn(R, Nat)
  BY NatLessThanWellFounded
<1>2. \A m, n \in Nat : <<m, n>> \in R <=> m < n
  BY DEF OpToRel
<1> HIDE DEF R
<1>3. PICK m \in T : \A n \in T : ~ <<n, m>> \in R
  BY <1>1, WFMin
<1>4. \A n \in T : m \in Nat /\ n \in Nat /\ ~ n < m
  BY <1>2, <1>3
<1> QED
  BY <1>3, <1>4

LEMMA GreatestNumber ==
  ASSUME NEW N \in Nat, NEW T \in SUBSET (0..N), T # {}
  PROVE  \E m \in T : \A n \in T : n <= m
<1>1. PICK D : D = {N - k : k \in T}
  OBVIOUS
<1>2. D \in SUBSET Nat /\ D # {}
  <2>1. ASSUME NEW k \in T PROVE N - k \in Nat
    <3>1. k \in 0..N
      OBVIOUS
    <3> QED BY <3>1
  <2>2. PICK t : t \in T
    OBVIOUS
  <2>3. N - t \in D
    BY <1>1, <2>2
  <2> QED BY <1>1, <2>1, <2>3
<1>3. PICK d \in D : \A e \in D : d <= e
  BY <1>2, LeastNumber
<1>4. PICK m \in T : d = N - m
  BY <1>1, <1>3
<1>5. ASSUME NEW n \in T PROVE n <= m
  <2>1. N - n \in D /\ n \in 0..N /\ m \in 0..N
    BY <1>1
  <2>2. N - m <= N - n
    BY <1>3, <1>4, <2>1
  <2> QED BY <2>1, <2>2
<1> QED BY <1>5

\* A sequence of all the elements of a set has each of them once.
LEMMA AllOnce ==
  ASSUME NEW S, IsFiniteSet(S), NEW s \in SetToSeqs(S)
  PROVE  /\ s \in Seq(S) /\ Len(s) = Cardinality(S) /\ Len(s) \in Nat /\ DOMAIN s = 1..Len(s)
         /\ \A i, j \in DOMAIN s : s[i] = s[j] => i = j
         /\ \A x \in S : \E i \in DOMAIN s : s[i] = x
<1>1. PICK n \in Nat : n = Cardinality(S)
  BY FS_CardinalityType
<1>2. s \in [1..n -> S] /\ \A i, j \in 1..n : i # j => s[i] # s[j]
  BY <1>1 DEF SetToSeqs
<1>3. s \in Injection(1..n, S)
  BY <1>2 DEF Injection, IsInjective
<1>4. Cardinality(1..n) = n
  BY FS_Interval, 1 \in Int, n \in Int
<1>5. s \in Surjection(1..n, S)
  BY <1>1, <1>3, <1>4, FS_Injection
<1>6. \A x \in S : \E i \in 1..n : s[i] = x
  BY <1>5 DEF Surjection
<1>7. s \in Seq(S) /\ Len(s) = n /\ DOMAIN s = 1..n
  BY <1>2
<1> QED BY <1>1, <1>2, <1>6, <1>7

\* Elements with different keys can be put in the order of their keys.
LEMMA SortExists ==
  ASSUME NEW S, IsFiniteSet(S), \A x \in S : x.from \in Nat,
         \A x, y \in S : x.from = y.from => x = y
  PROVE  \E s \in SetToSeqs(S) : \A i, j \in DOMAIN s : i < j => s[i].from <= s[j].from
<1>1. PICK n \in Nat : n = Cardinality(S)
  BY FS_CardinalityType
<1> DEFINE UpTo(x) == {y \in S : y.from <= x.from}
<1>2. ASSUME NEW x \in S
      PROVE  IsFiniteSet(UpTo(x)) /\ Cardinality(UpTo(x)) \in 1..n
  <2>1. UpTo(x) \in SUBSET S /\ x \in UpTo(x)
    OBVIOUS
  <2> HIDE DEF UpTo
  <2>2. IsFiniteSet(UpTo(x)) /\ Cardinality(UpTo(x)) <= n /\ Cardinality(UpTo(x)) \in Nat
    BY <1>1, <2>1, FS_Subset, FS_CardinalityType
  <2>3. Cardinality(UpTo(x)) # 0
    BY <2>1, <2>2, FS_EmptySet
  <2> QED BY <2>2, <2>3
<1>3. PICK rank : rank = [x \in S |-> Cardinality(UpTo(x))]
  OBVIOUS
<1>4. ASSUME NEW x \in S, NEW y \in S, x.from < y.from
      PROVE  rank[x] < rank[y]
  <2>1. UpTo(x) \subseteq UpTo(y) \ {y} /\ y \in UpTo(y)
    <3>1. x.from \in Nat /\ y.from \in Nat
      OBVIOUS
    <3>2. ASSUME NEW z \in S, z.from <= x.from PROVE z.from <= y.from /\ z # y
      <4>1. z.from \in Nat
        OBVIOUS
      <4> QED BY <1>4, <3>1, <3>2, <4>1
    <3> QED BY <3>1, <3>2
  <2> HIDE DEF UpTo
  <2>a. rank[x] = Cardinality(UpTo(x)) /\ rank[y] = Cardinality(UpTo(y))
    BY <1>3
  <2>b. Cardinality(UpTo(x)) \in 1..n /\ Cardinality(UpTo(y)) \in 1..n /\ IsFiniteSet(UpTo(y))
    BY <1>2
  <2>2. /\ rank[x] = Cardinality(UpTo(x)) /\ rank[y] = Cardinality(UpTo(y))
        /\ IsFiniteSet(UpTo(y)) /\ rank[x] \in Nat /\ rank[y] \in Nat
    BY <2>a, <2>b
  <2>3. IsFiniteSet(UpTo(y) \ {y}) /\ Cardinality(UpTo(y) \ {y}) = rank[y] - 1
    BY <2>1, <2>2, FS_RemoveElement
  <2>4. rank[x] <= Cardinality(UpTo(y) \ {y})
    BY <2>1, <2>2, <2>3, FS_Subset
  <2> QED BY <2>2, <2>3, <2>4
<1>5. rank \in [S -> 1..n]
  BY <1>2, <1>3
<1>6. ASSUME NEW x \in S, NEW y \in S, rank[x] = rank[y]
      PROVE  x = y
  <2>1. x.from \in Nat /\ y.from \in Nat /\ rank[x] \in 1..n
    BY <1>5
  <2>2. x.from < y.from \/ y.from < x.from \/ x.from = y.from
    BY <2>1
  <2>3. ~ rank[x] < rank[x]
    BY <2>1
  <2> QED BY <1>4, <1>6, <2>2, <2>3
<1>7. rank \in Injection(S, 1..n)
  BY <1>5, <1>6 DEF Injection, IsInjective
<1>8. IsFiniteSet(1..n) /\ Cardinality(1..n) = n
  BY FS_Interval, 1 \in Int, n \in Int
<1>9. \A k \in 1..n : \E x \in S : rank[x] = k
  <2>1. rank \in Surjection(S, 1..n)
    BY <1>1, <1>7, <1>8, FS_Injection
  <2> QED BY <2>1 DEF Surjection
<1>10. PICK s : s = [k \in 1..n |-> CHOOSE x \in S : rank[x] = k]
  OBVIOUS
<1>11. s \in [1..n -> S] /\ \A k \in 1..n : rank[s[k]] = k
  BY <1>9, <1>10
<1>12. s \in SetToSeqs(S)
  BY <1>1, <1>11 DEF SetToSeqs
<1>13. ASSUME NEW i \in 1..n, NEW j \in 1..n, i < j
       PROVE  s[i].from <= s[j].from
  <2>1. s[i].from \in Nat /\ s[j].from \in Nat
    BY <1>11
  <2>2. ~ s[j].from < s[i].from
    <3>1. s[j].from < s[i].from => rank[s[j]] < rank[s[i]]
      BY <1>4, <1>11
    <3>2. rank[s[j]] = j /\ rank[s[i]] = i
      BY <1>11
    <3> QED BY <1>13, <3>1, <3>2
  <2> QED BY <2>1, <2>2
<1> QED BY <1>11, <1>12, <1>13

-----------------------------------------------------------------------------
(* When topo.SortStabilized can put the nodes of a graph in an order.        *)

\* Every set of nodes has one that nothing in the set leads to.
Wellfounded(E) ==
  \A C \in SUBSET source.nodes : C # {} => \E n \in C : \A m \in C : <<m, n>> \notin E

\* The first k nodes of an order: nothing outside leads to them.
IsBeginning(E, k, f) ==
  /\ f \in Injection(1..k, source.nodes)
  /\ \A i, j \in 1..k : <<f[i], f[j]>> \in E => i < j
  /\ \A m, n \in source.nodes : <<m, n>> \in E /\ n \in {f[i] : i \in 1..k} => m \in {f[i] : i \in 1..k}

LEMMA PositionIs ==
  ASSUME IsFiniteSet(source.nodes), NEW s \in SetToSeqs(source.nodes), NEW i \in DOMAIN s
  PROVE  Position(s, s[i]) = i
<1>1. \A k \in DOMAIN s : s[k] = s[i] => k = i
  BY AllOnce
<1> QED BY <1>1 DEF Position

LEMMA OrderForward ==
  ASSUME IsFiniteSet(source.nodes), NEW E, NEW s \in TopologicalOrders(E),
         NEW i \in DOMAIN s, NEW j \in DOMAIN s, <<s[i], s[j]>> \in E
  PROVE  i < j
<1>1. s \in SetToSeqs(source.nodes) /\ Position(s, <<s[i], s[j]>>[1]) < Position(s, <<s[i], s[j]>>[2])
  BY DEF TopologicalOrders
<1> QED BY <1>1, PositionIs

LEMMA BeginningGrows ==
  ASSUME NEW E, NEW k \in Nat, NEW f, IsBeginning(E, k, f), Wellfounded(E),
         source.nodes \ {f[i] : i \in 1..k} # {}
  PROVE  \E g : IsBeginning(E, k + 1, g)
<1>1. PICK n \in source.nodes \ {f[i] : i \in 1..k} :
        \A m \in source.nodes \ {f[i] : i \in 1..k} : <<m, n>> \notin E
  BY DEF Wellfounded
<1>2. PICK g : g = [i \in 1..(k + 1) |-> IF i = k + 1 THEN n ELSE f[i]]
  OBVIOUS
<1>3. f \in [1..k -> source.nodes] /\ \A i, j \in 1..k : f[i] = f[j] => i = j
  BY DEF IsBeginning, Injection, IsInjective
<1>4. g[k + 1] = n /\ (\A i \in 1..k : g[i] = f[i]) /\ g \in [1..(k + 1) -> source.nodes]
  BY <1>1, <1>2, <1>3
<1>5. \A i \in 1..(k + 1) : i = k + 1 \/ (i \in 1..k /\ i < k + 1)
  OBVIOUS
<1>6. g \in Injection(1..(k + 1), source.nodes)
  <2>1. ASSUME NEW i \in 1..(k + 1), NEW j \in 1..(k + 1), g[i] = g[j] PROVE i = j
    <3>1. CASE i \in 1..k /\ j \in 1..k
      BY <1>3, <1>4, <2>1, <3>1
    <3>2. CASE i = k + 1 /\ j = k + 1
      BY <3>2
    <3>3. CASE (i = k + 1 /\ j \in 1..k) \/ (j = k + 1 /\ i \in 1..k)
      BY <1>1, <1>4, <2>1, <3>3
    <3> QED BY <1>5, <3>1, <3>2, <3>3
  <2> QED BY <1>4, <2>1 DEF Injection, IsInjective
<1>7. {g[i] : i \in 1..(k + 1)} = {f[i] : i \in 1..k} \cup {n}
  <2>1. \A i \in 1..k : i \in 1..(k + 1)
    OBVIOUS
  <2>2. k + 1 \in 1..(k + 1)
    OBVIOUS
  <2> QED BY <1>4, <1>5, <2>1, <2>2
<1>8. ASSUME NEW i \in 1..(k + 1), NEW j \in 1..(k + 1), <<g[i], g[j]>> \in E
      PROVE  i < j
  <2>1. CASE i \in 1..k /\ j \in 1..k
    BY <1>4, <1>8, <2>1 DEF IsBeginning
  <2>2. CASE i \in 1..k /\ j = k + 1
    BY <1>5, <2>2
  <2>3. CASE i = k + 1 /\ j \in 1..k
    <3>1. <<n, f[j]>> \in E /\ n \in source.nodes /\ f[j] \in source.nodes
      BY <1>3, <1>4, <1>8, <2>3
    <3>2. n \in {f[x] : x \in 1..k}
      BY <2>3, <3>1 DEF IsBeginning
    <3> QED BY <1>1, <3>2
  <2>4. CASE i = k + 1 /\ j = k + 1
    BY <1>1, <1>4, <1>8, <2>4
  <2> QED BY <1>5, <2>1, <2>2, <2>3, <2>4
<1>9. ASSUME NEW m \in source.nodes, NEW o \in source.nodes, <<m, o>> \in E,
             o \in {g[i] : i \in 1..(k + 1)}
      PROVE  m \in {g[i] : i \in 1..(k + 1)}
  BY <1>1, <1>7, <1>9 DEF IsBeginning
<1> QED BY <1>6, <1>8, <1>9 DEF IsBeginning

\* Without induction: the longest beginning has all the nodes.
LEMMA TopologicalOrderExists ==
  ASSUME IsFiniteSet(source.nodes), NEW E \in SUBSET (source.nodes \X source.nodes), Wellfounded(E)
  PROVE  TopologicalOrders(E) # {}
<1>1. PICK N \in Nat : N = Cardinality(source.nodes)
  BY FS_CardinalityType
<1>2. PICK T : T = {k \in 0..N : \E f : IsBeginning(E, k, f)}
  OBVIOUS
<1>3. 0 \in T
  <2>1. PICK f : f = [i \in 1..0 |-> i]
    OBVIOUS
  <2>2. 1..0 = {}
    OBVIOUS
  <2>3. f \in Injection(1..0, source.nodes)
    BY <2>1, <2>2 DEF Injection, IsInjective
  <2>4. IsBeginning(E, 0, f)
    BY <2>2, <2>3 DEF IsBeginning
  <2> QED BY <1>2, <2>4
<1>4. PICK k \in T : \A x \in T : x <= k
  <2>1. T \in SUBSET (0..N) /\ T # {}
    BY <1>2, <1>3
  <2> QED BY <1>1, <2>1, GreatestNumber
<1>5. PICK f : IsBeginning(E, k, f)
  BY <1>2, <1>4
<1>6. k \in Nat
  BY <1>2, <1>4
<1>a. \A n \in Nat : IsFiniteSet(1..n) /\ Cardinality(1..n) = n
  <2>1. ASSUME NEW n \in Nat PROVE IsFiniteSet(1..n) /\ Cardinality(1..n) = n
    BY FS_Interval, 1 \in Int, n \in Int
  <2> QED BY <2>1
<1>7. source.nodes \ {f[i] : i \in 1..k} = {}
  <2>1. SUFFICES ASSUME source.nodes \ {f[i] : i \in 1..k} # {} PROVE FALSE
    OBVIOUS
  <2>2. PICK g : IsBeginning(E, k + 1, g)
    BY <1>5, <1>6, <2>1, BeginningGrows
  <2>3. k + 1 <= N
    <3>1. g \in Injection(1..(k + 1), source.nodes)
      BY <2>2 DEF IsBeginning
    <3>2. Cardinality(1..(k + 1)) <= Cardinality(source.nodes)
      BY <3>1, FS_Injection
    <3> QED BY <1>1, <1>6, <1>a, <3>2
  <2>4. k + 1 \in T
    BY <1>2, <1>6, <2>2, <2>3
  <2> QED BY <1>4, <1>6, <2>4
<1>8. f \in [1..k -> source.nodes] /\ \A i, j \in 1..k : f[i] = f[j] => i = j
  BY <1>5 DEF IsBeginning, Injection, IsInjective
<1>9. k = N
  <2>1. f \in Surjection(1..k, source.nodes)
    BY <1>7, <1>8 DEF Surjection
  <2>2. f \in Injection(1..k, source.nodes)
    BY <1>5 DEF IsBeginning
  <2>3. Cardinality(1..k) = Cardinality(source.nodes)
    BY <2>1, <2>2, FS_Injection
  <2> QED BY <1>1, <1>6, <1>a, <2>3
<1>10. f \in SetToSeqs(source.nodes)
  BY <1>1, <1>8, <1>9 DEF SetToSeqs
<1>11. ASSUME NEW e \in E PROVE Position(f, e[1]) < Position(f, e[2])
  <2>1. PICK i \in 1..k, j \in 1..k : e[1] = f[i] /\ e[2] = f[j]
    BY <1>7
  <2>2. e = <<f[i], f[j]>>
    BY <2>1
  <2>3. i < j
    BY <1>5, <2>2 DEF IsBeginning
  <2>4. i \in DOMAIN f /\ j \in DOMAIN f
    BY <1>8
  <2> QED BY <1>10, <2>1, <2>3, <2>4, PositionIs
<1> QED BY <1>10, <1>11 DEF TopologicalOrders

LEMMA OrderedMeansWellfounded ==
  ASSUME IsFiniteSet(source.nodes), NEW E, NEW s \in TopologicalOrders(E)
  PROVE  Wellfounded(E)
<1>1. s \in SetToSeqs(source.nodes)
  BY DEF TopologicalOrders
<1>2. /\ Len(s) \in Nat /\ DOMAIN s = 1..Len(s)
      /\ \A x \in source.nodes : \E i \in DOMAIN s : s[i] = x
  BY <1>1, AllOnce
<1>3. SUFFICES ASSUME NEW C \in SUBSET source.nodes, C # {}
               PROVE  \E n \in C : \A m \in C : <<m, n>> \notin E
  BY DEF Wellfounded
<1>4. PICK T : T = {i \in DOMAIN s : s[i] \in C}
  OBVIOUS
<1>5. T \in SUBSET Nat /\ T # {}
  <2>1. PICK x \in C : TRUE
    BY <1>3
  <2>2. T # {}
    BY <1>2, <1>4, <2>1
  <2>3. \A i \in T : i \in Nat
    BY <1>2, <1>4
  <2> QED BY <2>2, <2>3
<1>6. PICK j \in T : \A i \in T : j <= i
  BY <1>5, LeastNumber
<1>7. s[j] \in C /\ j \in DOMAIN s /\ j \in Nat
  BY <1>4, <1>5
<1>8. ASSUME NEW m \in C, <<m, s[j]>> \in E PROVE FALSE
  <2>1. PICK i \in DOMAIN s : s[i] = m
    BY <1>2
  <2>2. i < j
    BY <1>7, <1>8, <2>1, OrderForward
  <2>3. i \in T /\ i \in Nat
    BY <1>2, <1>4, <2>1
  <2> QED BY <1>6, <1>7, <2>2, <2>3
<1> QED BY <1>7, <1>8

-----------------------------------------------------------------------------
(* The inductive invariant.                                                  *)

Task == [node : source.nodes, inputs : Seq([propagate : BOOLEAN, from : Nat]), outputs : Seq(Nat)]

Depends(m, n) == m \in Declared(n) \/ m \in Named(n) \cap source.plain

Bad == \/ source.malformed \/ SelfEdges # {} \/ source.reserved # {}
       \/ \E n \in source.nodes : source.attributes[n] # "ok"

\* The edges are those declared and those of the nodes that were visited, and
\* the implicit ones are those that are not declared.
EdgesInv ==
  stage \notin {"unmarshal", "rejected"} =>
    /\ ~source.malformed /\ SelfEdges = {}
    /\ edges \in SUBSET (source.nodes \X source.nodes)
    /\ \A m, n \in source.nodes :
         <<m, n>> \in edges <=> m \in Declared(n) \/ (n \notin unvisited /\ m \in Named(n) \cap source.plain)
    /\ \A m, n \in source.nodes : <<m, n>> \in implicit <=> <<m, n>> \in edges /\ m \notin Declared(n)

StageInv ==
  /\ stage \in Stages /\ source \in Sources /\ unvisited \in SUBSET source.nodes
  /\ stage \in {"unmarshal", "implicit", "sort"} => tasks = <<>>
  /\ stage = "unmarshal" => implicit = {}
  /\ stage \in {"sort", "link", "parsed"} => unvisited = {}
  /\ stage = "parsed" => Len(tasks) = Len(order)
  /\ stage = "rejected" => Bad \/ Cyclic

OrderInv ==
  stage \in {"link", "parsed"} \/ tasks # <<>> =>
    order \in TopologicalOrders(edges) /\ edges \in SUBSET (source.nodes \X source.nodes)

Predecessors(k) == {i \in DOMAIN order : <<order[i], order[k]>> \in edges}

\* Task k is the k-th node in the order, with links to the tasks of the edges.
LinkedTask(k) ==
  LET t == tasks[k] IN
  /\ t.node = order[k] /\ UnmarshalTask(t.node)
  /\ InputTasks(k) = Predecessors(k)
  /\ \A i, j \in DOMAIN t.inputs : i < j => t.inputs[i].from < t.inputs[j].from
  /\ \A j \in DOMAIN t.inputs : t.inputs[j].propagate <=> <<order[t.inputs[j].from], t.node>> \notin implicit
  /\ \A i, j \in DOMAIN t.outputs : i < j => t.outputs[i] < t.outputs[j]
  /\ {t.outputs[j] : j \in DOMAIN t.outputs} = {o \in DOMAIN tasks : k \in Predecessors(o)}

LinkInv ==
  /\ tasks \in Seq(Task)
  /\ tasks = <<>> \/ Len(tasks) <= Len(order)
  /\ \A k \in DOMAIN tasks : LinkedTask(k)

GraphInv == StageInv /\ EdgesInv /\ OrderInv /\ LinkInv

LEMMA SourceFacts ==
  ASSUME source \in Sources
  PROVE  IsSource(source) /\ IsFiniteSet(source.nodes) /\ source.nodes \in SUBSET Nat
<1>1. IsSource(source)
  BY GraphAssumption
<1>2. source.nodes \in SUBSET Nodes
  BY <1>1 DEF IsSource
<1> QED BY <1>1, <1>2, GraphAssumption, FS_Subset

\* The task that is linked next, and the tasks it is linked to.
LEMMA Linked ==
  ASSUME GraphInv, stage = "link", Len(tasks) < Len(order),
         NEW id, id = Len(tasks) + 1, NEW P, P = Predecessors(id)
  PROVE  /\ id \in DOMAIN order /\ Len(tasks) \in Nat /\ DOMAIN tasks = 1..Len(tasks)
         /\ Node = order[id] /\ Node \in source.nodes
         /\ P \subseteq DOMAIN tasks
         /\ \A i \in P : Ids(order[i]) = i
         /\ To(Node) = {order[i] : i \in P}
<1>1. IsFiniteSet(source.nodes)
  BY SourceFacts DEF GraphInv, StageInv
<1>2. /\ order \in TopologicalOrders(edges) /\ edges \in SUBSET (source.nodes \X source.nodes)
      /\ tasks \in Seq(Task) /\ \A k \in DOMAIN tasks : LinkedTask(k)
  BY DEF GraphInv, OrderInv, LinkInv
<1>3. order \in SetToSeqs(source.nodes)
  BY <1>2 DEF TopologicalOrders
<1>4. /\ order \in Seq(source.nodes) /\ Len(order) \in Nat /\ DOMAIN order = 1..Len(order)
      /\ \A i, j \in DOMAIN order : order[i] = order[j] => i = j
      /\ \A x \in source.nodes : \E i \in DOMAIN order : order[i] = x
  BY <1>1, <1>3, AllOnce
<1>5. Len(tasks) \in Nat /\ DOMAIN tasks = 1..Len(tasks)
  BY <1>2
<1>6. id \in DOMAIN order /\ \A i \in DOMAIN order : i < id => i \in DOMAIN tasks
  BY <1>4, <1>5
<1>7. Node = order[id] /\ Node \in source.nodes
  BY <1>4, <1>6 DEF Node
<1>8. \A i \in P : i \in DOMAIN order /\ <<order[i], order[id]>> \in edges
  BY DEF Predecessors
<1>9. P \subseteq DOMAIN tasks
  <2>1. ASSUME NEW i \in P PROVE i < id
    BY <1>1, <1>2, <1>6, <1>8, OrderForward
  <2> QED BY <1>6, <1>8, <2>1
<1>10. \A k \in DOMAIN tasks : k \in DOMAIN order /\ tasks[k].node = order[k]
  BY <1>2, <1>4, <1>5, <1>6 DEF LinkedTask
<1>11. ASSUME NEW i \in P PROVE Ids(order[i]) = i
  <2>1. i \in DOMAIN tasks /\ tasks[i].node = order[i]
    BY <1>9, <1>10
  <2>2. \A k \in DOMAIN tasks : tasks[k].node = order[i] => k = i
    BY <1>4, <1>10, <2>1
  <2> QED BY <2>1, <2>2 DEF Ids
<1>12. To(Node) = {order[i] : i \in P}
  <2>1. ASSUME NEW m \in To(Node) PROVE m \in {order[i] : i \in P}
    <3>1. PICK e \in edges : e[2] = Node /\ m = e[1]
      BY DEF To
    <3>2. e = <<m, Node>> /\ m \in source.nodes
      BY <1>2, <3>1
    <3>3. PICK i \in DOMAIN order : order[i] = m
      BY <1>4, <3>2
    <3> QED BY <1>7, <3>2, <3>3 DEF Predecessors
  <2>2. ASSUME NEW i \in P PROVE order[i] \in To(Node)
    <3>1. PICK e \in edges : e = <<order[i], Node>>
      BY <1>7, <1>8
    <3>2. e[1] = order[i] /\ e[2] = Node
      BY <3>1
    <3> QED BY <3>2 DEF To
  <2> QED BY <2>1, <2>2
<1> QED BY <1>5, <1>6, <1>7, <1>9, <1>11, <1>12

LEMMA InputsLinked ==
  ASSUME GraphInv, stage = "link", Len(tasks) < Len(order),
         NEW P, P = Predecessors(Len(tasks) + 1), NEW s, s = SortedInputs(Node)
  PROVE  /\ s \in Seq([propagate : BOOLEAN, from : Nat])
         /\ {s[j].from : j \in DOMAIN s} = P
         /\ \A i, j \in DOMAIN s : i < j => s[i].from < s[j].from
         /\ \A j \in DOMAIN s : s[j].propagate <=> <<order[s[j].from], Node>> \notin implicit
<1>1. PICK id : id = Len(tasks) + 1
  OBVIOUS
<1>2. /\ Len(tasks) \in Nat /\ DOMAIN tasks = 1..Len(tasks) /\ P \subseteq DOMAIN tasks
      /\ \A i \in P : Ids(order[i]) = i
      /\ To(Node) = {order[i] : i \in P}
  BY <1>1, Linked
<1>3. PICK D : D = Dependencies(Node)
  OBVIOUS
<1>4. PICK d : d = [i \in P |-> [propagate |-> <<order[i], Node>> \notin implicit, from |-> i]]
  OBVIOUS
<1>5. D = {d[i] : i \in P}
  <2>1. \A i \in P : Dependency(order[i], Node) = d[i]
    BY <1>2, <1>4 DEF Dependency
  <2> QED BY <1>2, <1>3, <2>1 DEF Dependencies
<1>6. IsFiniteSet(D)
  <2>1. IsFiniteSet(1..Len(tasks))
    BY <1>2, FS_Interval, 1 \in Int, Len(tasks) \in Int
  <2>2. IsFiniteSet(P)
    BY <1>2, <2>1, FS_Subset
  <2>3. d \in Surjection(P, D)
    BY <1>4, <1>5 DEF Surjection
  <2> QED BY <2>2, <2>3, FS_Surjection
<1>7. \A i \in P : i \in Nat
  BY <1>2
<1>8. \A i \in P : d[i].from = i /\ d[i] \in [propagate : BOOLEAN, from : Nat]
                   /\ (d[i].propagate <=> <<order[i], Node>> \notin implicit)
  BY <1>4, <1>7
<1>9. \A x \in D : x.from \in P /\ x = d[x.from]
  <2>1. ASSUME NEW x \in D PROVE x.from \in P /\ x = d[x.from]
    <3>1. PICK i \in P : x = d[i]
      BY <1>5
    <3>2. x.from = i
      BY <1>8, <3>1
    <3> QED BY <3>1, <3>2
  <2> QED BY <2>1
<1>10. \A x \in D : x.from \in Nat
  BY <1>7, <1>9
<1>11. \A x, y \in D : x.from = y.from => x = y
  BY <1>9
<1>12. s \in SetToSeqs(D) /\ \A i, j \in DOMAIN s : i < j => s[i].from <= s[j].from
  <2>1. \E x \in SetToSeqs(D) : \A i, j \in DOMAIN x : i < j => x[i].from <= x[j].from
    BY <1>6, <1>10, <1>11, SortExists
  <2> QED BY <1>3, <2>1 DEF SortedInputs
<1>13. /\ s \in Seq(D) /\ Len(s) \in Nat /\ DOMAIN s = 1..Len(s)
       /\ \A i, j \in DOMAIN s : s[i] = s[j] => i = j
       /\ \A x \in D : \E i \in DOMAIN s : s[i] = x
  BY <1>6, <1>12, AllOnce
<1>14. \A j \in DOMAIN s : s[j] \in D
  BY <1>13
<1>15. \A x \in D : x \in [propagate : BOOLEAN, from : Nat]
  BY <1>8, <1>9
<1>16. s \in Seq([propagate : BOOLEAN, from : Nat])
  <2>1. PICK R : R = [propagate : BOOLEAN, from : Nat]
    OBVIOUS
  <2>2. \A j \in 1..Len(s) : s[j] \in R
    BY <1>13, <1>14, <1>15, <2>1
  <2>3. s \in Seq(R)
    BY <1>13, <2>2
  <2> QED BY <2>1, <2>3
<1>17. {s[j].from : j \in DOMAIN s} = P
  <2>1. ASSUME NEW i \in P PROVE \E j \in DOMAIN s : s[j].from = i
    <3>1. d[i] \in D /\ d[i].from = i
      BY <1>5, <1>8
    <3>2. PICK j \in DOMAIN s : s[j] = d[i]
      BY <1>13, <3>1
    <3> QED BY <3>1, <3>2
  <2> QED BY <1>9, <1>14, <2>1
<1>18. ASSUME NEW i \in DOMAIN s, NEW j \in DOMAIN s, i < j PROVE s[i].from < s[j].from
  <2>1. s[i].from <= s[j].from /\ s[i].from \in Nat /\ s[j].from \in Nat
    BY <1>10, <1>12, <1>14, <1>18
  <2>2. i # j
    BY <1>13, <1>18
  <2>3. s[i].from # s[j].from
    BY <1>11, <1>13, <1>14, <2>2
  <2> QED BY <2>1, <2>3
<1>19. \A j \in DOMAIN s : s[j].propagate <=> <<order[s[j].from], Node>> \notin implicit
  BY <1>8, <1>9, <1>14
<1> QED BY <1>16, <1>17, <1>18, <1>19

\* The outputs of a task with the id of a later one appended.
LEMMA OutputsAppended ==
  ASSUME NEW s \in Seq(Nat), NEW id \in Nat,
         \A i, j \in DOMAIN s : i < j => s[i] < s[j],
         \A j \in DOMAIN s : s[j] < id
  PROVE  \E r : /\ r = Append(s, id) /\ r \in Seq(Nat)
                /\ \A i, j \in DOMAIN r : i < j => r[i] < r[j]
                /\ {r[j] : j \in DOMAIN r} = {s[j] : j \in DOMAIN s} \cup {id}
<1>a. PICK r : r = Append(s, id)
  OBVIOUS
<1>1. PICK n \in Nat : n = Len(s)
  OBVIOUS
<1>2. /\ r \in Seq(Nat) /\ Len(r) = n + 1 /\ DOMAIN r = 1..(n + 1) /\ DOMAIN s = 1..n
      /\ r[n + 1] = id /\ \A j \in 1..n : r[j] = s[j]
  BY <1>1, <1>a
<1>3. \A j \in DOMAIN r : j = n + 1 \/ (j \in DOMAIN s /\ j < n + 1)
  BY <1>2
<1>4. \A j \in DOMAIN s : j \in DOMAIN r
  BY <1>2
<1>5. ASSUME NEW i \in DOMAIN r, NEW j \in DOMAIN r, i < j PROVE r[i] < r[j]
  <2>1. i \in DOMAIN s
    BY <1>2, <1>5
  <2>2. CASE j = n + 1
    BY <1>2, <2>1, <2>2
  <2>3. CASE j \in DOMAIN s
    BY <1>2, <1>5, <2>1, <2>3
  <2> QED BY <1>3, <2>2, <2>3
<1>6. {r[j] : j \in DOMAIN r} = {s[j] : j \in DOMAIN s} \cup {id}
  <2>1. n + 1 \in DOMAIN r
    BY <1>2
  <2>2. \A j \in DOMAIN s : r[j] = s[j]
    BY <1>2
  <2> QED BY <1>2, <1>3, <1>4, <2>1, <2>2
<1> QED BY <1>2, <1>5, <1>6, <1>a

LEMMA LinkTaskLinks ==
  ASSUME GraphInv, LinkTask
  PROVE  LinkInv'
<1>1. PICK id : id = Len(tasks) + 1
  OBVIOUS
<1>2. PICK P : P = Predecessors(id)
  OBVIOUS
<1>3. stage = "link" /\ Len(tasks) < Len(order) /\ UnmarshalTask(Node)
      /\ UNCHANGED <<source, edges, implicit, order>>
  BY DEF LinkTask
<1>4. /\ id \in DOMAIN order /\ Len(tasks) \in Nat /\ DOMAIN tasks = 1..Len(tasks)
      /\ Node = order[id] /\ Node \in source.nodes /\ P \subseteq DOMAIN tasks
      /\ \A i \in P : Ids(order[i]) = i
      /\ To(Node) = {order[i] : i \in P}
  BY <1>1, <1>2, <1>3, Linked
<1>5. PICK ins : ins = SortedInputs(Node)
  OBVIOUS
<1>6. /\ ins \in Seq([propagate : BOOLEAN, from : Nat])
      /\ {ins[j].from : j \in DOMAIN ins} = P
      /\ \A i, j \in DOMAIN ins : i < j => ins[i].from < ins[j].from
      /\ \A j \in DOMAIN ins : ins[j].propagate <=> <<order[ins[j].from], Node>> \notin implicit
  BY <1>1, <1>2, <1>3, <1>5, InputsLinked
<1>7. {Ids(m) : m \in To(Node)} = P
  BY <1>4
<1>8. PICK linked : linked = [k \in DOMAIN tasks |->
          IF k \in P THEN [tasks[k] EXCEPT !.outputs = Append(@, id)] ELSE tasks[k]]
  OBVIOUS
<1>9. PICK t : t = [node |-> Node, inputs |-> ins, outputs |-> <<>>]
  OBVIOUS
<1>10. tasks' = Append(linked, t)
  BY <1>1, <1>5, <1>7, <1>8, <1>9 DEF LinkTask
<1>11. tasks \in Seq(Task) /\ \A k \in DOMAIN tasks : tasks[k] \in Task /\ LinkedTask(k)
  <2>1. tasks \in Seq(Task) /\ \A k \in DOMAIN tasks : LinkedTask(k)
    BY DEF GraphInv, LinkInv
  <2>2. \A k \in DOMAIN tasks : tasks[k] \in Task
    BY <2>1
  <2> QED BY <2>1, <2>2
<1>12. /\ id \in Nat /\ id \notin DOMAIN tasks
       /\ \A k \in DOMAIN tasks : k \in Nat /\ k < id
       /\ 1..id = DOMAIN tasks \cup {id}
  BY <1>1, <1>4
\* The outputs of the tasks that are there already.
<1>13. ASSUME NEW k \in DOMAIN tasks
       PROVE  /\ linked[k] \in Task
              /\ linked[k].node = tasks[k].node /\ linked[k].inputs = tasks[k].inputs
              /\ \A i, j \in DOMAIN linked[k].outputs : i < j => linked[k].outputs[i] < linked[k].outputs[j]
              /\ {linked[k].outputs[j] : j \in DOMAIN linked[k].outputs}
                   = {o \in 1..id : k \in Predecessors(o)}
  <2>1. PICK s : s = tasks[k].outputs
    OBVIOUS
  <2>2. /\ tasks[k] \in Task /\ s \in Seq(Nat)
        /\ tasks[k] = [node |-> tasks[k].node, inputs |-> tasks[k].inputs, outputs |-> s]
    BY <1>11, <2>1 DEF Task
  <2>3. /\ \A i, j \in DOMAIN s : i < j => s[i] < s[j]
        /\ {s[j] : j \in DOMAIN s} = {o \in DOMAIN tasks : k \in Predecessors(o)}
    BY <1>11, <2>1 DEF LinkedTask
  <2>4. CASE k \in P
    <3>2. \A j \in DOMAIN s : s[j] \in DOMAIN tasks
      BY <2>3
    <3>3. \A j \in DOMAIN s : s[j] < id
      BY <1>12, <3>2
    <3>4. PICK r : /\ r = Append(s, id) /\ r \in Seq(Nat)
                   /\ \A i, j \in DOMAIN r : i < j => r[i] < r[j]
                   /\ {r[j] : j \in DOMAIN r} = {s[j] : j \in DOMAIN s} \cup {id}
      <4>1. s \in Seq(Nat) /\ id \in Nat
        BY <1>12, <2>2
      <4>2. \A i, j \in DOMAIN s : i < j => s[i] < s[j]
        BY <2>3
      <4> QED BY <3>3, <4>1, <4>2, OutputsAppended
    <3>5. linked[k] = [node |-> tasks[k].node, inputs |-> tasks[k].inputs, outputs |-> r]
      BY <1>8, <2>1, <2>2, <2>4, <3>4
    <3>6. {o \in 1..id : k \in Predecessors(o)} = {o \in DOMAIN tasks : k \in Predecessors(o)} \cup {id}
      BY <1>2, <1>12, <2>4
    <3>7. linked[k] \in Task
      BY <2>2, <3>4, <3>5 DEF Task
    <3>8. linked[k].node = tasks[k].node /\ linked[k].inputs = tasks[k].inputs /\ linked[k].outputs = r
      BY <3>5
    <3>9. {r[j] : j \in DOMAIN r} = {o \in 1..id : k \in Predecessors(o)}
      BY <2>3, <3>4, <3>6
    <3> QED BY <3>4, <3>7, <3>8, <3>9
  <2>5. CASE k \notin P
    <3>1. linked[k] = tasks[k]
      BY <1>8, <2>5
    <3>2. {o \in 1..id : k \in Predecessors(o)} = {o \in DOMAIN tasks : k \in Predecessors(o)}
      BY <1>2, <1>12, <2>5
    <3> QED BY <2>1, <2>2, <2>3, <3>1, <3>2
  <2> QED BY <2>4, <2>5
<1>14. t \in Task
  <2>1. <<>> \in Seq(Nat)
    OBVIOUS
  <2> QED BY <1>4, <1>6, <1>9, <2>1 DEF Task
<1>15. /\ tasks' \in Seq(Task) /\ DOMAIN tasks' = 1..id /\ Len(tasks') = id
       /\ tasks'[id] = t /\ \A k \in DOMAIN tasks : tasks'[k] = linked[k]
  <2>1. PICK T : T = Task
    OBVIOUS
  <2>2. linked \in Seq(T) /\ Len(linked) = Len(tasks)
    <3>1. \A k \in 1..Len(tasks) : linked[k] \in T
      BY <1>4, <1>13, <2>1
    <3>2. DOMAIN linked = 1..Len(tasks) /\ linked = [k \in 1..Len(tasks) |-> linked[k]]
      BY <1>4, <1>8
    <3> QED BY <1>4, <3>1, <3>2
  <2>3. tasks' \in Seq(T) /\ Len(tasks') = id /\ tasks'[id] = t
        /\ DOMAIN tasks' = 1..id /\ \A k \in 1..Len(tasks) : tasks'[k] = linked[k]
    BY <1>1, <1>4, <1>10, <1>14, <2>1, <2>2
  <2> QED BY <1>4, <2>1, <2>3
<1>16. Task' = Task
  BY <1>3 DEF Task
<1>17. \A k : Predecessors(k)' = Predecessors(k)
  BY <1>3 DEF Predecessors
<1>18. \A n : UnmarshalTask(n)' <=> UnmarshalTask(n)
  BY <1>3 DEF UnmarshalTask
<1>19. ASSUME NEW k \in DOMAIN tasks PROVE LinkedTask(k)'
  <2>1. tasks'[k] = linked[k]
    BY <1>15
  <2>2. InputTasks(k)' = InputTasks(k)
    BY <1>13, <2>1 DEF InputTasks
  <2>3. tasks'[k].node = tasks[k].node /\ tasks'[k].inputs = tasks[k].inputs
    BY <1>13, <2>1
  <2>4. /\ tasks[k].node = order[k] /\ UnmarshalTask(tasks[k].node)
        /\ InputTasks(k) = Predecessors(k)
        /\ \A i, j \in DOMAIN tasks[k].inputs : i < j => tasks[k].inputs[i].from < tasks[k].inputs[j].from
        /\ \A j \in DOMAIN tasks[k].inputs :
             tasks[k].inputs[j].propagate <=> <<order[tasks[k].inputs[j].from], tasks[k].node>> \notin implicit
    BY <1>11 DEF LinkedTask
  <2>5. /\ tasks'[k].node = order'[k] /\ UnmarshalTask(tasks[k].node)'
        /\ InputTasks(k)' = Predecessors(k)'
    BY <1>3, <1>17, <1>18, <2>2, <2>3, <2>4
  <2>6. /\ \A i, j \in DOMAIN tasks'[k].inputs : i < j => tasks'[k].inputs[i].from < tasks'[k].inputs[j].from
        /\ \A j \in DOMAIN tasks'[k].inputs :
             tasks'[k].inputs[j].propagate <=> <<order'[tasks'[k].inputs[j].from], tasks'[k].node>> \notin implicit'
    BY <1>3, <2>3, <2>4
  <2>7. /\ \A i, j \in DOMAIN tasks'[k].outputs : i < j => tasks'[k].outputs[i] < tasks'[k].outputs[j]
        /\ {tasks'[k].outputs[j] : j \in DOMAIN tasks'[k].outputs}
             = {o \in DOMAIN tasks' : k \in Predecessors(o)'}
    BY <1>13, <1>15, <1>17, <2>1
  <2> QED BY <2>5, <2>6, <2>7 DEF LinkedTask
<1>20. LinkedTask(id)'
  <2>1. tasks'[id].node = Node /\ tasks'[id].inputs = ins /\ tasks'[id].outputs = <<>>
    BY <1>9, <1>15
  <2>2. InputTasks(id)' = P
    BY <1>6, <2>1 DEF InputTasks
  <2>3. \A o \in 1..id : id \notin Predecessors(o)
    <3>1. ASSUME NEW o \in DOMAIN tasks PROVE id \notin Predecessors(o)
      <4>1. InputTasks(o) = Predecessors(o)
        BY <1>11 DEF LinkedTask
      <4>2. IsFiniteSet(source.nodes)
        BY SourceFacts DEF GraphInv, StageInv
      <4>3. order \in TopologicalOrders(edges) /\ order \in SetToSeqs(source.nodes)
        BY <1>3 DEF GraphInv, OrderInv, TopologicalOrders
      <4>4. DOMAIN order = 1..Len(order) /\ Len(order) \in Nat
        BY <4>2, <4>3, AllOnce
      <4>5. o \in DOMAIN order
        BY <1>4, <1>12, <4>4
      <4>6. id \in Predecessors(o) => id < o
        BY <1>4, <4>2, <4>3, <4>5, OrderForward DEF Predecessors
      <4> QED BY <1>12, <4>6
    <3>2. id \notin Predecessors(id)
      BY <1>2, <1>4, <1>12
    <3> QED BY <1>12, <3>1, <3>2
  <2>4. UnmarshalTask(tasks[id].node)'
    BY <1>3, <2>1 DEF UnmarshalTask
  <2>5. /\ \A i, j \in DOMAIN tasks'[id].inputs : i < j => tasks'[id].inputs[i].from < tasks'[id].inputs[j].from
        /\ \A j \in DOMAIN tasks'[id].inputs :
             tasks'[id].inputs[j].propagate <=> <<order'[tasks'[id].inputs[j].from], tasks'[id].node>> \notin implicit'
    BY <1>3, <1>6, <2>1
  <2>6. DOMAIN tasks'[id].outputs = {}
    BY <2>1
  <2>7. {o \in DOMAIN tasks' : id \in Predecessors(o)'} = {}
    BY <1>15, <1>17, <2>3
  <2> QED BY <1>2, <1>3, <1>4, <1>17, <2>1, <2>2, <2>4, <2>5, <2>6, <2>7 DEF LinkedTask
<1>21. Len(tasks') <= Len(order')
  <2>1. Len(order) \in Nat
    <3>1. IsFiniteSet(source.nodes) /\ order \in SetToSeqs(source.nodes)
      BY <1>3, SourceFacts DEF GraphInv, StageInv, OrderInv, TopologicalOrders
    <3> QED BY <3>1, AllOnce
  <2> QED BY <1>1, <1>3, <1>4, <1>15, <2>1
<1> QED BY <1>12, <1>15, <1>16, <1>19, <1>20, <1>21 DEF LinkInv

-----------------------------------------------------------------------------
(* The invariant holds.                                                      *)

LEMMA GraphInvInit == GraphInit => GraphInv
<1>1. <<>> \in Seq(Task) /\ DOMAIN <<>> = {}
  OBVIOUS
<1> QED BY <1>1 DEF GraphInit, GraphInv, StageInv, Stages, EdgesInv, OrderInv, LinkInv

\* When all nodes were visited the edges are the dependencies.
LEMMA FinalEdges ==
  ASSUME EdgesInv, stage \in {"sort", "link", "parsed"}, unvisited = {}
  PROVE  /\ edges \in SUBSET (source.nodes \X source.nodes)
         /\ \A m, n \in source.nodes : <<m, n>> \in edges <=> Depends(m, n)
BY DEF EdgesInv, Depends

LEMMA CyclicMeansNotWellfounded ==
  ASSUME \A m, n \in source.nodes : <<m, n>> \in edges <=> Depends(m, n)
  PROVE  Cyclic <=> ~Wellfounded(edges)
<1>1. ASSUME NEW C \in SUBSET source.nodes, NEW n \in C
      PROVE  (Declared(n) \cup (Named(n) \cap source.plain)) \cap C # {} <=> \E m \in C : <<m, n>> \in edges
  BY DEF Depends
<1> DEFINE Closed(C) == \A n \in C : \E m \in C : <<m, n>> \in edges
<1>2. Cyclic <=> \E C \in (SUBSET source.nodes) \ {{}} : Closed(C)
  BY <1>1 DEF Cyclic
<1>3. Wellfounded(edges) <=> \A C \in SUBSET source.nodes : C # {} => ~Closed(C)
  BY DEF Wellfounded
<1> HIDE DEF Closed
<1> QED BY <1>2, <1>3

LEMMA TasksUnchanged ==
  ASSUME LinkInv, UNCHANGED <<source, edges, implicit, order, tasks>>
  PROVE  LinkInv'
<1>1. Task' = Task
  BY DEF Task
<1>2. ASSUME NEW k \in DOMAIN tasks PROVE LinkedTask(k)'
  <2>1. LinkedTask(k)
    BY DEF LinkInv
  <2>2. InputTasks(k)' = InputTasks(k)
    BY DEF InputTasks
  <2>3. \A o : Predecessors(o)' = Predecessors(o)
    BY DEF Predecessors
  <2>4. UnmarshalTask(tasks[k].node)' <=> UnmarshalTask(tasks[k].node)
    BY DEF UnmarshalTask
  <2>5. {o \in DOMAIN tasks : k \in Predecessors(o)}' = {o \in DOMAIN tasks : k \in Predecessors(o)}
    BY <2>3
  <2> QED BY <2>1, <2>2, <2>3, <2>4, <2>5 DEF LinkedTask
<1> QED BY <1>1, <1>2 DEF LinkInv

\* Before the first task is linked the order and the edges may change.
LEMMA NoTasks ==
  ASSUME tasks' = <<>>
  PROVE  LinkInv'
<1>1. <<>> \in Seq(Task') /\ DOMAIN <<>> = {}
  OBVIOUS
<1> QED BY <1>1 DEF LinkInv

LEMMA BadUnchanged ==
  ASSUME source' = source
  PROVE  (Bad <=> Bad') /\ (Cyclic <=> Cyclic') /\ \A m, n : Depends(m, n) <=> Depends(m, n)'
<1>1. /\ SelfEdges' = SelfEdges /\ \A n : Declared(n)' = Declared(n) /\ Named(n)' = Named(n)
  BY DEF SelfEdges, Declared, Named
<1> QED BY <1>1 DEF Bad, Cyclic, Depends

LEMMA EdgesUnchanged ==
  ASSUME EdgesInv, UNCHANGED <<source, edges, implicit, unvisited>>,
         stage' = "rejected" \/ stage \notin {"unmarshal", "rejected"}
  PROVE  EdgesInv'
BY DEF EdgesInv, SelfEdges, Declared, Named

LEMMA Rejected ==
  ASSUME GraphInv, Reject, Bad \/ Cyclic
  PROVE  GraphInv'
<1>1. stage' = "rejected" /\ UNCHANGED <<source, edges, implicit, unvisited, order, tasks>>
  BY DEF Reject
<1>2. StageInv'
  BY <1>1, BadUnchanged DEF GraphInv, StageInv, Stages
<1>3. EdgesInv'
  BY <1>1 DEF EdgesInv
<1>4. OrderInv'
  BY <1>1 DEF GraphInv, OrderInv, TopologicalOrders
<1>5. LinkInv'
  BY <1>1, TasksUnchanged DEF GraphInv
<1> QED BY <1>2, <1>3, <1>4, <1>5 DEF GraphInv

LEMMA UnmarshalKeeps ==
  ASSUME GraphInv, Unmarshal
  PROVE  GraphInv'
<1>1. /\ stage = "unmarshal" /\ stage' = "implicit" /\ ~source.malformed /\ SelfEdges = {}
      /\ edges' = source.declared /\ unvisited' = source.nodes
      /\ UNCHANGED <<source, implicit, order, tasks>>
  BY DEF Unmarshal
<1>2. tasks = <<>> /\ implicit = {} /\ source \in Sources
  BY <1>1 DEF GraphInv, StageInv
<1>3. source.declared \in SUBSET (source.nodes \X source.nodes)
  BY <1>2, SourceFacts DEF IsSource
<1>4. StageInv'
  BY <1>1, <1>2 DEF StageInv, Stages
<1>5. EdgesInv'
  <2>1. ~source'.malformed /\ SelfEdges' = {} /\ edges' \in SUBSET (source'.nodes \X source'.nodes)
    BY <1>1, <1>3 DEF SelfEdges
  <2>2. \A m, n \in source.nodes : <<m, n>> \in edges' <=> m \in Declared(n)'
    BY <1>1 DEF Declared
  <2>3. \A n \in source.nodes : n \in unvisited'
    BY <1>1
  <2>4. \A m, n : <<m, n>> \notin implicit'
    BY <1>1, <1>2
  <2> QED BY <1>1, <2>1, <2>2, <2>3, <2>4 DEF EdgesInv
<1>6. OrderInv'
  BY <1>1, <1>2 DEF OrderInv
<1>7. LinkInv'
  BY <1>1, <1>2, NoTasks
<1> QED BY <1>4, <1>5, <1>6, <1>7 DEF GraphInv

\* A node that is visited gets an edge from every other it names, once.
LEMMA VisitKeeps ==
  ASSUME GraphInv, NEW n \in unvisited, AddImplicitEdges(n)
  PROVE  GraphInv'
<1>1. /\ stage = "implicit" /\ stage' \in {"implicit", "sort"}
      /\ stage' = "sort" => unvisited' = {}
      /\ unvisited' = unvisited \ {n}
      /\ edges' = edges \cup NewEdges(n) /\ implicit' = implicit \cup NewEdges(n)
      /\ UNCHANGED <<source, order, tasks>>
  BY DEF AddImplicitEdges
<1>2. tasks = <<>> /\ source \in Sources /\ unvisited \in SUBSET source.nodes /\ n \in source.nodes
  BY <1>1 DEF GraphInv, StageInv
<1>3. IsSource(source)
  BY <1>2, SourceFacts
<1>4. StageInv'
  BY <1>1, <1>2 DEF StageInv, Stages
<1>5. /\ ~source.malformed /\ SelfEdges = {}
      /\ edges \in SUBSET (source.nodes \X source.nodes)
      /\ \A m, o \in source.nodes :
           <<m, o>> \in edges <=> m \in Declared(o) \/ (o \notin unvisited /\ m \in Named(o) \cap source.plain)
      /\ \A m, o \in source.nodes : <<m, o>> \in implicit <=> <<m, o>> \in edges /\ m \notin Declared(o)
  BY <1>1 DEF GraphInv, EdgesInv
<1>6. Named(n) \subseteq source.nodes
  BY <1>2, <1>3 DEF Named, IsSource
<1>7. \A m, o : <<m, o>> \in NewEdges(n) <=> o = n /\ m \in Named(n) \cap source.plain /\ <<m, n>> \notin edges
  BY DEF NewEdges, Params, Named
<1>8. NewEdges(n) \in SUBSET (source.nodes \X source.nodes)
  <2>1. ASSUME NEW e \in NewEdges(n) PROVE e \in source.nodes \X source.nodes
    <3>1. PICK m \in Params(n) \ {n} : e = <<m, n>>
      BY DEF NewEdges
    <3>2. m \in source.nodes
      BY <1>6 DEF Params, Named
    <3> QED BY <1>2, <3>1, <3>2
  <2> QED BY <2>1
<1>9. \A o : Declared(o)' = Declared(o) /\ Named(o)' = Named(o)
  BY <1>1 DEF Declared, Named
<1>10. ASSUME NEW m \in source.nodes, NEW o \in source.nodes
       PROVE  /\ <<m, o>> \in edges' <=> m \in Declared(o) \/ (o \notin unvisited' /\ m \in Named(o) \cap source.plain)
              /\ <<m, o>> \in implicit' <=> <<m, o>> \in edges' /\ m \notin Declared(o)
  <2>1. CASE o = n
    <3>1. n \in unvisited /\ n \notin unvisited'
      BY <1>1
    <3> QED BY <1>1, <1>2, <1>5, <1>7, <2>1, <3>1
  <2>2. CASE o # n
    <3>1. o \in unvisited <=> o \in unvisited'
      BY <1>1, <2>2
    <3>2. (<<m, o>> \in edges' <=> <<m, o>> \in edges) /\ (<<m, o>> \in implicit' <=> <<m, o>> \in implicit)
      BY <1>1, <1>7, <2>2
    <3> QED BY <1>5, <3>1, <3>2
  <2> QED BY <2>1, <2>2
<1>11. EdgesInv'
  <2>1. ~source'.malformed /\ SelfEdges' = {} /\ edges' \in SUBSET (source'.nodes \X source'.nodes)
    BY <1>1, <1>5, <1>8 DEF SelfEdges
  <2> QED BY <1>1, <1>9, <1>10, <2>1 DEF EdgesInv
<1>12. OrderInv'
  BY <1>1, <1>2 DEF OrderInv
<1>13. LinkInv'
  BY <1>1, <1>2, NoTasks
<1> QED BY <1>4, <1>11, <1>12, <1>13 DEF GraphInv

LEMMA NothingToVisitKeeps ==
  ASSUME GraphInv, NothingToVisit
  PROVE  GraphInv'
<1>1. /\ stage = "implicit" /\ unvisited = {} /\ stage' = "sort"
      /\ UNCHANGED <<source, edges, implicit, unvisited, order, tasks>>
  BY DEF NothingToVisit
<1>2. StageInv'
  BY <1>1 DEF GraphInv, StageInv, Stages
<1>3. EdgesInv'
  BY <1>1, EdgesUnchanged DEF GraphInv
<1>4. OrderInv' /\ LinkInv'
  BY <1>1, <1>2, NoTasks DEF GraphInv, StageInv, OrderInv
<1> QED BY <1>2, <1>3, <1>4 DEF GraphInv

LEMMA SortKeeps ==
  ASSUME GraphInv, Sort
  PROVE  GraphInv'
<1>1. /\ stage = "sort" /\ stage' = "link" /\ order' \in TopologicalOrders(edges)
      /\ UNCHANGED <<source, edges, implicit, unvisited, tasks>>
  BY DEF Sort
<1>2. StageInv' /\ tasks = <<>>
  BY <1>1 DEF GraphInv, StageInv, Stages
<1>3. EdgesInv'
  BY <1>1, EdgesUnchanged DEF GraphInv
<1>4. OrderInv'
  BY <1>1 DEF GraphInv, EdgesInv, OrderInv, TopologicalOrders
<1>5. LinkInv'
  BY <1>1, <1>2, NoTasks
<1> QED BY <1>2, <1>3, <1>4, <1>5 DEF GraphInv

LEMMA SortFailsKeeps ==
  ASSUME GraphInv, SortFails
  PROVE  GraphInv'
<1>1. stage = "sort" /\ TopologicalOrders(edges) = {} /\ Reject
  BY DEF SortFails
<1>2. EdgesInv /\ unvisited = {} /\ source \in Sources
  BY <1>1 DEF GraphInv, StageInv
<1>3. /\ edges \in SUBSET (source.nodes \X source.nodes)
      /\ \A m, n \in source.nodes : <<m, n>> \in edges <=> Depends(m, n)
  BY <1>1, <1>2, FinalEdges
<1>4. ~Wellfounded(edges)
  BY <1>1, <1>2, <1>3, SourceFacts, TopologicalOrderExists
<1>5. Cyclic
  BY <1>3, <1>4, CyclicMeansNotWellfounded
<1> QED BY <1>1, <1>5, Rejected

LEMMA LinkTaskKeeps ==
  ASSUME GraphInv, LinkTask
  PROVE  GraphInv'
<1>1. stage = "link" /\ UNCHANGED <<source, stage, edges, implicit, unvisited, order>>
  BY DEF LinkTask
<1>2. StageInv'
  <2>1. stage' \notin {"unmarshal", "implicit", "sort", "parsed", "rejected"}
    BY <1>1
  <2> QED BY <1>1, <2>1 DEF GraphInv, StageInv
<1>3. EdgesInv'
  BY <1>1, EdgesUnchanged DEF GraphInv
<1>4. OrderInv'
  BY <1>1 DEF GraphInv, OrderInv, TopologicalOrders
<1> QED BY <1>2, <1>3, <1>4, LinkTaskLinks DEF GraphInv

LEMMA LinkFailsKeeps ==
  ASSUME GraphInv, LinkFails
  PROVE  GraphInv'
<1>1. stage = "link" /\ Len(tasks) < Len(order) /\ ~UnmarshalTask(Node) /\ Reject
  BY DEF LinkFails
<1>2. Node \in source.nodes
  BY <1>1, Linked
<1>3. Bad
  BY <1>1, <1>2 DEF Bad, UnmarshalTask
<1> QED BY <1>1, <1>3, Rejected

LEMMA ParseReturnsKeeps ==
  ASSUME GraphInv, ParseReturns
  PROVE  GraphInv'
<1>1. /\ stage = "link" /\ Len(tasks) = Len(order) /\ stage' = "parsed"
      /\ UNCHANGED <<source, edges, implicit, unvisited, order, tasks>>
  BY DEF ParseReturns
<1>2. StageInv'
  BY <1>1 DEF GraphInv, StageInv, Stages
<1>3. EdgesInv'
  BY <1>1, EdgesUnchanged DEF GraphInv
<1>4. OrderInv'
  BY <1>1 DEF GraphInv, OrderInv, TopologicalOrders
<1>5. LinkInv'
  BY <1>1, TasksUnchanged DEF GraphInv
<1> QED BY <1>2, <1>3, <1>4, <1>5 DEF GraphInv

LEMMA StutterKeeps ==
  ASSUME GraphInv, UNCHANGED graphVars
  PROVE  GraphInv'
<1>1. UNCHANGED <<source, stage, edges, implicit, unvisited, order, tasks>>
  BY DEF graphVars
<1>2. StageInv'
  BY <1>1, BadUnchanged DEF GraphInv, StageInv
<1>3. EdgesInv'
  BY <1>1 DEF GraphInv, EdgesInv, SelfEdges, Declared, Named
<1>4. OrderInv'
  BY <1>1 DEF GraphInv, OrderInv, TopologicalOrders
<1>5. LinkInv'
  BY <1>1, TasksUnchanged DEF GraphInv
<1> QED BY <1>2, <1>3, <1>4, <1>5 DEF GraphInv

LEMMA GraphInvStep == GraphInv /\ [GraphNext]_graphVars => GraphInv'
<1> SUFFICES ASSUME GraphInv, [GraphNext]_graphVars PROVE GraphInv'
  OBVIOUS
<1>1. CASE UnmarshalFails
  <2>1. Reject /\ Bad
    BY <1>1 DEF UnmarshalFails, Bad
  <2> QED BY <2>1, Rejected
<1>2. CASE Unmarshal
  BY <1>2, UnmarshalKeeps
<1>3. CASE \E n \in unvisited : AddImplicitEdges(n)
  BY <1>3, VisitKeeps
<1>4. CASE NothingToVisit
  BY <1>4, NothingToVisitKeeps
<1>5. CASE SortFails
  BY <1>5, SortFailsKeeps
<1>6. CASE Sort
  BY <1>6, SortKeeps
<1>7. CASE LinkTask
  BY <1>7, LinkTaskKeeps
<1>8. CASE LinkFails
  BY <1>8, LinkFailsKeeps
<1>9. CASE ParseReturns
  BY <1>9, ParseReturnsKeeps
<1>10. CASE UNCHANGED graphVars
  BY <1>10, StutterKeeps
<1> QED BY <1>1, <1>2, <1>3, <1>4, <1>5, <1>6, <1>7, <1>8, <1>9, <1>10 DEF GraphNext, ParseOver

LEMMA GraphInvariance == GraphSpec => []GraphInv
BY GraphInvInit, GraphInvStep, PTL DEF GraphSpec

-----------------------------------------------------------------------------
(* The properties.                                                           *)

LEMMA ParsedFacts ==
  ASSUME GraphInv, tasks # <<>> \/ stage = "parsed"
  PROVE  /\ source \in Sources /\ IsSource(source) /\ IsFiniteSet(source.nodes)
         /\ order \in TopologicalOrders(edges) /\ order \in SetToSeqs(source.nodes)
         /\ order \in Seq(source.nodes) /\ Len(order) \in Nat /\ DOMAIN order = 1..Len(order)
         /\ Len(order) = Cardinality(source.nodes)
         /\ \A x \in source.nodes : \E i \in DOMAIN order : order[i] = x
         /\ \A i \in DOMAIN order : order[i] \in source.nodes
         /\ tasks \in Seq(Task) /\ Len(tasks) \in Nat /\ DOMAIN tasks = 1..Len(tasks)
         /\ \A k \in DOMAIN tasks : tasks[k] \in Task /\ LinkedTask(k)
<1>1. source \in Sources /\ IsSource(source) /\ IsFiniteSet(source.nodes)
  BY SourceFacts DEF GraphInv, StageInv
<1>2. order \in TopologicalOrders(edges) /\ order \in SetToSeqs(source.nodes)
  BY DEF GraphInv, OrderInv, TopologicalOrders
<1>3. /\ order \in Seq(source.nodes) /\ Len(order) \in Nat /\ DOMAIN order = 1..Len(order)
      /\ Len(order) = Cardinality(source.nodes)
      /\ \A x \in source.nodes : \E i \in DOMAIN order : order[i] = x
  BY <1>1, <1>2, AllOnce
<1>4. \A i \in DOMAIN order : order[i] \in source.nodes
  BY <1>3
<1>5. tasks \in Seq(Task) /\ \A k \in DOMAIN tasks : LinkedTask(k)
  BY DEF GraphInv, LinkInv
<1>6. Len(tasks) \in Nat /\ DOMAIN tasks = 1..Len(tasks) /\ \A k \in DOMAIN tasks : tasks[k] \in Task
  BY <1>5
<1> QED BY <1>1, <1>2, <1>3, <1>4, <1>5, <1>6

LEMMA LinksOrdered == GraphInv => LinksAreOrdered
<1> SUFFICES ASSUME GraphInv, NEW k \in DOMAIN tasks
             PROVE  /\ \A i \in InputTasks(k) : i < k /\ \E j \in DOMAIN tasks[i].outputs : tasks[i].outputs[j] = k
                    /\ \A i, j \in DOMAIN tasks[k].inputs : i < j => tasks[k].inputs[i].from < tasks[k].inputs[j].from
                    /\ \A i, j \in DOMAIN tasks[k].outputs : i < j => tasks[k].outputs[i] < tasks[k].outputs[j]
                    /\ \A j \in DOMAIN tasks[k].outputs : k \in InputTasks(tasks[k].outputs[j])
  BY DEF LinksAreOrdered
<1>1. tasks # <<>>
  OBVIOUS
<1>2. /\ IsFiniteSet(source.nodes) /\ order \in TopologicalOrders(edges)
      /\ Len(order) \in Nat /\ DOMAIN order = 1..Len(order)
      /\ Len(tasks) \in Nat /\ DOMAIN tasks = 1..Len(tasks)
      /\ \A o \in DOMAIN tasks : LinkedTask(o)
  BY <1>1, ParsedFacts
<1>3. \A o \in DOMAIN tasks : o \in DOMAIN order
  <2>1. Len(tasks) <= Len(order)
    BY <1>1 DEF GraphInv, LinkInv
  <2> QED BY <1>2, <2>1
<1>4. \A o \in DOMAIN tasks :
        /\ InputTasks(o) = Predecessors(o)
        /\ {tasks[o].outputs[j] : j \in DOMAIN tasks[o].outputs} = {x \in DOMAIN tasks : o \in Predecessors(x)}
  BY <1>2 DEF LinkedTask
<1>5. ASSUME NEW i \in InputTasks(k)
      PROVE  i < k /\ \E j \in DOMAIN tasks[i].outputs : tasks[i].outputs[j] = k
  <2>1. i \in DOMAIN order /\ <<order[i], order[k]>> \in edges /\ i \in Predecessors(k)
    BY <1>4 DEF Predecessors
  <2>2. i < k
    BY <1>2, <1>3, <2>1, OrderForward
  <2>3. i \in DOMAIN tasks
    BY <1>2, <2>1, <2>2
  <2> QED BY <1>4, <2>1, <2>2, <2>3
<1>6. ASSUME NEW j \in DOMAIN tasks[k].outputs PROVE k \in InputTasks(tasks[k].outputs[j])
  BY <1>4
<1>7. /\ \A i, j \in DOMAIN tasks[k].inputs : i < j => tasks[k].inputs[i].from < tasks[k].inputs[j].from
      /\ \A i, j \in DOMAIN tasks[k].outputs : i < j => tasks[k].outputs[i] < tasks[k].outputs[j]
  BY <1>2 DEF LinkedTask
<1> QED BY <1>5, <1>6, <1>7

LEMMA ParsedTasks ==
  ASSUME GraphInv, stage = "parsed"
  PROVE  /\ DOMAIN tasks = DOMAIN order /\ unvisited = {} /\ EdgesInv
         /\ edges \in SUBSET (source.nodes \X source.nodes)
         /\ \A m, n \in source.nodes : <<m, n>> \in edges <=> Depends(m, n)
         /\ \A k \in DOMAIN tasks : tasks[k].node = order[k] /\ InputTasks(k) = Predecessors(k)
<1>1. Len(tasks) = Len(order) /\ unvisited = {} /\ EdgesInv
  BY DEF GraphInv, StageInv
<1>2. DOMAIN tasks = DOMAIN order
  BY <1>1, ParsedFacts
<1>3. \A k \in DOMAIN tasks : tasks[k].node = order[k] /\ InputTasks(k) = Predecessors(k)
  BY ParsedFacts DEF LinkedTask
<1> QED BY <1>1, <1>2, <1>3, FinalEdges

LEMMA DependenciesRight == GraphInv => DependenciesAreDeclaredOrNamed
<1> SUFFICES ASSUME GraphInv, stage = "parsed", NEW k \in DOMAIN tasks
             PROVE  /\ {tasks[i].node : i \in InputTasks(k)}
                         = Declared(tasks[k].node) \cup (Named(tasks[k].node) \cap source.plain)
                    /\ \A j \in DOMAIN tasks[k].inputs :
                         tasks[k].inputs[j].propagate
                           <=> tasks[tasks[k].inputs[j].from].node \in Declared(tasks[k].node)
  BY DEF DependenciesAreDeclaredOrNamed
<1>1. /\ IsSource(source)
      /\ \A x \in source.nodes : \E i \in DOMAIN order : order[i] = x
      /\ \A i \in DOMAIN order : order[i] \in source.nodes
      /\ LinkedTask(k)
  BY ParsedFacts
<1>2. /\ DOMAIN tasks = DOMAIN order /\ unvisited = {} /\ EdgesInv
      /\ \A m, n \in source.nodes : <<m, n>> \in edges <=> Depends(m, n)
      /\ \A i \in DOMAIN tasks : tasks[i].node = order[i]
      /\ InputTasks(k) = Predecessors(k)
  BY ParsedTasks
<1>3. PICK n \in source.nodes : n = tasks[k].node /\ n = order[k]
  BY <1>1, <1>2
<1>4. Declared(n) \subseteq source.nodes /\ Named(n) \subseteq source.nodes
  BY <1>1 DEF Declared, Named, IsSource
<1>5. {tasks[i].node : i \in InputTasks(k)} = {m \in source.nodes : <<m, n>> \in edges}
  <2>1. ASSUME NEW i \in InputTasks(k) PROVE tasks[i].node \in source.nodes /\ <<tasks[i].node, n>> \in edges
    BY <1>1, <1>2, <1>3 DEF Predecessors
  <2>2. ASSUME NEW m \in source.nodes, <<m, n>> \in edges PROVE \E i \in InputTasks(k) : tasks[i].node = m
    <3>1. PICK i \in DOMAIN order : order[i] = m
      BY <1>1
    <3>2. i \in InputTasks(k) /\ tasks[i].node = m
      BY <1>2, <1>3, <2>2, <3>1 DEF Predecessors
    <3> QED BY <3>2
  <2> QED BY <2>1, <2>2
<1>6. {m \in source.nodes : <<m, n>> \in edges} = Declared(n) \cup (Named(n) \cap source.plain)
  BY <1>2, <1>4 DEF Depends
<1>7. ASSUME NEW j \in DOMAIN tasks[k].inputs
      PROVE  tasks[k].inputs[j].propagate <=> tasks[tasks[k].inputs[j].from].node \in Declared(n)
  <2>1. PICK i : i = tasks[k].inputs[j].from
    OBVIOUS
  <2>2. i \in InputTasks(k)
    BY <2>1 DEF InputTasks
  <2>3. PICK m \in source.nodes : m = tasks[i].node /\ m = order[i] /\ <<m, n>> \in edges
    BY <1>1, <1>2, <1>3, <2>2 DEF Predecessors
  <2>4. tasks[k].inputs[j].propagate <=> <<m, n>> \notin implicit
    BY <1>1, <1>3, <2>1, <2>3 DEF LinkedTask
  <2>5. <<m, n>> \in implicit <=> m \notin Declared(n)
    BY <1>2, <2>3 DEF EdgesInv
  <2> QED BY <2>1, <2>3, <2>4, <2>5
<1> QED BY <1>3, <1>5, <1>6, <1>7

LEMMA PipelineYielded == GraphInv => YieldsPipeline
<1> SUFFICES ASSUME GraphInv, stage = "parsed"
             PROVE  /\ IsPipelineOver(DOMAIN tasks, Parsed)
                    /\ Cardinality(DOMAIN tasks) = Cardinality(source.nodes)
  BY DEF YieldsPipeline
<1>1. /\ IsSource(source) /\ Len(tasks) \in Nat /\ DOMAIN tasks = 1..Len(tasks)
      /\ Len(order) = Cardinality(source.nodes) /\ Len(tasks) = Len(order)
      /\ \A i \in DOMAIN order : order[i] \in source.nodes
  BY ParsedFacts DEF GraphInv, StageInv
<1>2. /\ DOMAIN tasks = DOMAIN order
      /\ \A k \in DOMAIN tasks : tasks[k].node = order[k] /\ InputTasks(k) = Predecessors(k)
  BY ParsedTasks
<1>3. \A k \in DOMAIN tasks : InputTasks(k) \in SUBSET DOMAIN tasks /\ \A i \in InputTasks(k) : i < k
  <2>1. \A k \in DOMAIN tasks : \A i \in InputTasks(k) : i < k
    BY LinksOrdered DEF LinksAreOrdered
  <2> QED BY <1>2, <2>1 DEF Predecessors
<1>4. \A k \in DOMAIN tasks : source.retries[tasks[k].node] \in Nat
  BY <1>1, <1>2 DEF IsSource
<1>5. PICK T : T = DOMAIN tasks
  OBVIOUS
<1>6. Parsed.inputs \in [T -> SUBSET T] /\ \A k \in T : \A i \in Parsed.inputs[k] : i < k
  BY <1>3, <1>5 DEF Parsed
<1>7. Parsed.implicit \in [T -> SUBSET T]
  <2>1. ASSUME NEW k \in T
        PROVE  {tasks[k].inputs[j].from : j \in {j \in DOMAIN tasks[k].inputs : ~tasks[k].inputs[j].propagate}}
                 \in SUBSET T
    BY <1>3, <1>5 DEF InputTasks
  <2> QED BY <1>5, <2>1 DEF Parsed
<1>8. Parsed.failEarly \in SUBSET T /\ Parsed.retries \in [T -> Nat]
  BY <1>4, <1>5 DEF Parsed
<1>9. IsPipelineOver(DOMAIN tasks, Parsed)
  BY <1>5, <1>6, <1>7, <1>8 DEF IsPipelineOver
<1>10. Cardinality(DOMAIN tasks) = Len(tasks)
  BY <1>1, FS_Interval, 1 \in Int, Len(tasks) \in Int
<1> QED BY <1>1, <1>9, <1>10

LEMMA RejectedRightly == GraphInv => RejectedForAReason
<1> SUFFICES ASSUME GraphInv
             PROVE  (stage = "rejected" => Bad \/ Cyclic) /\ (stage = "parsed" => ~Bad /\ ~Cyclic)
  BY DEF RejectedForAReason, Bad
<1>1. stage = "rejected" => Bad \/ Cyclic
  BY DEF GraphInv, StageInv
<1>2. ASSUME stage = "parsed" PROVE ~Bad /\ ~Cyclic
  <2>1. /\ IsSource(source) /\ IsFiniteSet(source.nodes) /\ order \in TopologicalOrders(edges)
        /\ \A x \in source.nodes : \E i \in DOMAIN order : order[i] = x
        /\ \A k \in DOMAIN tasks : LinkedTask(k)
    BY <1>2, ParsedFacts
  <2>2. /\ DOMAIN tasks = DOMAIN order /\ EdgesInv
        /\ \A m, n \in source.nodes : <<m, n>> \in edges <=> Depends(m, n)
        /\ \A k \in DOMAIN tasks : tasks[k].node = order[k]
    BY <1>2, ParsedTasks
  <2>3. \A n \in source.nodes : UnmarshalTask(n)
    <3>1. ASSUME NEW n \in source.nodes PROVE UnmarshalTask(n)
      <4>1. PICK k \in DOMAIN tasks : order[k] = n
        BY <2>1, <2>2
      <4>2. UnmarshalTask(tasks[k].node)
        BY <2>1 DEF LinkedTask
      <4> QED BY <2>2, <4>1, <4>2
    <3> QED BY <3>1
  <2>4. source.reserved = {} /\ \A n \in source.nodes : source.attributes[n] = "ok"
    BY <2>1, <2>3 DEF UnmarshalTask, IsSource
  <2>5. ~source.malformed /\ SelfEdges = {}
    BY <1>2, <2>2 DEF EdgesInv
  <2>6. ~Cyclic
    BY <2>1, <2>2, OrderedMeansWellfounded, CyclicMeansNotWellfounded
  <2> QED BY <2>4, <2>5, <2>6 DEF Bad
<1> QED BY <1>1, <1>2

\* At every moment of the linking loop of Parse (graph.go:221-256) the inputs of
\* a task come before it, both kinds of links ascend, and each is there in both
\* directions: whatever the document, and in whatever order Go visits its map.
THEOREM ParserLinksInOrder == GraphSpec => []LinksAreOrdered
BY GraphInvariance, LinksOrdered, PTL

\* A parsed task depends on the nodes it declares and those it names in a plain
\* variable, and the results of the declared ones are propagated: a result of
\* Parse does not depend on the order in which AddImplicitDependenciesAsEdges
\* visits the nodes (graph.go:57-87).
THEOREM ParserFindsDependencies == GraphSpec => []DependenciesAreDeclaredOrNamed
BY GraphInvariance, DependenciesRight, PTL

\* Whatever Parse returns has the shape the scheduler's proofs assume of their
\* pipelines: the assumption of Scheduler is what this component guarantees.
THEOREM ParserYieldsPipelines == GraphSpec => []YieldsPipeline
BY GraphInvariance, PipelineYielded, PTL

\* Parse rejects a document for a reason and accepts none that has one; without
\* a cycle there is always an order of its nodes (graph.go:196-236).
THEOREM ParserRejectsRightly == GraphSpec => []RejectedForAReason
BY GraphInvariance, RejectedRightly, PTL
=============================================================================

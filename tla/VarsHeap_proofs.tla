---------------------------- MODULE VarsHeap_proofs ----------------------------
(****************************************************************************)
(* Who sees which map change, for any programs, variables and number of     *)
(* task runs.                                                               *)
(****************************************************************************)
EXTENDS VarsHeap, FiniteSetTheorems, WellFoundedInduction, TLAPS

-----------------------------------------------------------------------------
(* The inductive invariant.                                                  *)

Stages == {"waiting", "decoding", "mapping", "failed", "merging", "reported", "settled"}

\* Where its document is, once it is decoded.
Held(g) == stage[g] \notin {"waiting", "decoding"}
Docs(g) == {base[g] + k : k \in DOMAIN program[g].doc}

\* The objects that values refer to: neither the map of the scheduler nor a copy of it.
Plain == (DOMAIN heap) \ ({top} \cup {copy[g] : g \in TaskRuns})

ItemTyped(it) ==
  /\ it.parent = 0 \/ (it.parent \in Plain /\ it.key \in DOMAIN heap[it.parent])
  /\ it.val.ref \in {0} \cup Plain
  /\ it.val.expr # NoName => it.val.ref = 0

HeapTyped ==
  /\ top = 1 /\ IsSeq(heap) /\ 1 \in DOMAIN heap
  /\ \A a \in DOMAIN heap : IsObject(heap[a], {0} \cup Plain)
  /\ DOMAIN stage = TaskRuns /\ DOMAIN copy = TaskRuns /\ DOMAIN base = TaskRuns
  /\ DOMAIN stack = TaskRuns /\ DOMAIN rest = TaskRuns

RunTyped(g) ==
  /\ program[g] \in Programs /\ stage[g] \in Stages
  /\ stage[g] = "waiting" => copy[g] = 0
  /\ stage[g] # "waiting" => copy[g] \in (DOMAIN heap) \ {top}
  /\ Held(g) => base[g] \in Nat /\ Docs(g) \subseteq Plain
  /\ IsSeq(stack[g]) /\ \A i \in DOMAIN stack[g] : ItemTyped(stack[g][i])
  /\ stage[g] \notin {"mapping", "failed"} => stack[g] = <<>>
  /\ stage[g] = "merging" => program[g].kind = "merge" /\ rest[g] \subseteq DOMAIN heap[base[g] + program[g].right]
  /\ stage[g] \in {"merging", "reported"} /\ IntoVariable(program[g]) =>
       /\ program[g].left.expr \in DOMAIN heap[copy[g]]
       /\ heap[copy[g]][program[g].left.expr].ref # 0

\* As long as its document is not in a variable nothing else refers to it.
Secret(g) == \/ stage[g] \in {"mapping", "failed"}
             \/ stage[g] \in {"merging", "reported"} /\ ~IntoVariable(program[g])

PrivateDocs(g) ==
  Secret(g) => \A a \in (DOMAIN heap) \ Docs(g) : \A k \in DOMAIN heap[a] : heap[a][k].ref \notin Docs(g)
Apart(g, h) ==
  /\ Held(g) /\ Held(h) => Docs(g) \cap Docs(h) = {}
  /\ Secret(g) => \A i \in DOMAIN stack[h] : /\ stack[h][i].parent \notin Docs(g)
                                             /\ stack[h][i].val.ref \notin Docs(g)

\* Expressions are only in documents that are being interpolated, or failed to be.
Interpolating(a) == \E g \in TaskRuns : stage[g] \in {"mapping", "failed"} /\ a \in Docs(g)
NoExprs(a) == \A k \in DOMAIN heap[a] : heap[a][k].expr = NoName
ExprInv == \A a \in DOMAIN heap : Interpolating(a) \/ NoExprs(a)
\* The items queued from an object of somebody else hold no expression and do not
\* lead back.
ItemExprs(g) ==
  \A i \in DOMAIN stack[g] : stack[g][i].parent \notin Docs(g) =>
    /\ stack[g][i].val.expr = NoName
    /\ stack[g][i].parent # 0 => stack[g][i].val.ref \notin Docs(g)

\* A value of a document as it was decoded, and as it will be.
Decoded(g, v) == IF v.ref > 0 THEN Ref(v.ref + base[g]) ELSE v
Replaced(g, v, x) ==
  IF v.expr # NoName THEN v.expr \in DOMAIN heap[copy[g]] /\ x = heap[copy[g]][v.expr] ELSE x = Decoded(g, v)
OnItsWay(g, v, x) == x = Decoded(g, v) \/ Replaced(g, v, x)

Queued(g, a, key) == \E i \in DOMAIN stack[g] : stack[g][i].parent = a /\ stack[g][i].key = key

\* S has the objects of the document that mapGoValue has not come to: what leads to
\* them is in S or queued, and of the others each entry is replaced or queued.
Unvisited(g, S) ==
  /\ 1 \in S => \E i \in DOMAIN stack[g] : stack[g][i].val.ref = Root(g)
  /\ \A k \in S \ {1} : \E p \in 1..(k - 1) : \E key \in DOMAIN program[g].doc[p] :
       program[g].doc[p][key].ref = k /\ (p \in S \/ Queued(g, base[g] + p, key))
  /\ \A k \in (DOMAIN program[g].doc) \ S : \A key \in DOMAIN program[g].doc[k] :
       Replaced(g, program[g].doc[k][key], heap[base[g] + k][key]) \/ Queued(g, base[g] + k, key)

Mapping(g) ==
  /\ \A k \in DOMAIN program[g].doc :
       /\ DOMAIN heap[base[g] + k] = DOMAIN program[g].doc[k]
       /\ \A key \in DOMAIN program[g].doc[k] : OnItsWay(g, program[g].doc[k][key], heap[base[g] + k][key])
  /\ \A i \in DOMAIN stack[g] : \A k \in DOMAIN program[g].doc : stack[g][i].parent = base[g] + k =>
       /\ stack[g][i].key \in DOMAIN program[g].doc[k]
       /\ OnItsWay(g, program[g].doc[k][stack[g][i].key], stack[g][i].val)
  /\ \E S \in SUBSET DOMAIN program[g].doc : Unvisited(g, S)

Mapped(g) ==
  \A k \in DOMAIN program[g].doc : \A key \in DOMAIN program[g].doc[k] :
    Replaced(g, program[g].doc[k][key], heap[base[g] + k][key])

DocInv(g) ==
  /\ stage[g] = "mapping" => Mapping(g)
  /\ stage[g] \in {"merging", "reported"} /\ program[g].kind = "json" => Mapped(g)

\* Without merges into variables, what is stored into an object of somebody else is
\* what was there.
StoresTheSame(g) ==
  \A i \in DOMAIN stack[g] : stack[g][i].parent \notin {0} \cup Docs(g) =>
    heap[stack[g][i].parent][stack[g][i].key] = stack[g][i].val

HeapInv ==
  /\ HeapTyped /\ ExprInv
  /\ \A g \in TaskRuns : RunTyped(g) /\ PrivateDocs(g) /\ ItemExprs(g) /\ DocInv(g)
  /\ \A g, h \in TaskRuns : g # h => Apart(g, h)
  /\ MergesIntoVariable \/ \A g \in TaskRuns : StoresTheSame(g)

-----------------------------------------------------------------------------
(* Sequences of objects.                                                     *)

LEMMA SeqIsFunction ==
  ASSUME NEW R, NEW s \in Seq(R)
  PROVE  Len(s) \in Nat /\ DOMAIN s = 1..Len(s) /\ s = [k \in DOMAIN s |-> s[k]]
OBVIOUS

\* What the definition of IsSeq stands for.
LEMMA SeqFacts ==
  ASSUME NEW s, IsSeq(s)
  PROVE  Len(s) \in Nat /\ DOMAIN s = 1..Len(s) /\ s = [k \in 1..Len(s) |-> s[k]]
<1> DEFINE R == {s[k] : k \in DOMAIN s}
<1>1. s \in Seq(R)
  BY DEF IsSeq
<1> HIDE DEF R
<1> QED BY <1>1

LEMMA ToSeq ==
  ASSUME NEW n \in Nat, NEW s, DOMAIN s = 1..n, s = [k \in DOMAIN s |-> s[k]]
  PROVE  IsSeq(s) /\ Len(s) = n
<1> DEFINE R == {s[k] : k \in DOMAIN s}
<1>1. s \in [1..n -> R]
  OBVIOUS
<1>2. s \in Seq(R)
  <2> HIDE DEF R
  <2> QED BY <1>1
<1>3. Len(s) = n
  <2> HIDE DEF R
  <2> QED BY <1>1, <1>2
<1> QED BY <1>2, <1>3 DEF IsSeq

\* An object more.
LEMMA AppendFacts ==
  ASSUME NEW s, IsSeq(s), NEW e
  PROVE  /\ IsSeq(Append(s, e)) /\ Len(Append(s, e)) = Len(s) + 1
         /\ DOMAIN Append(s, e) = DOMAIN s \cup {Len(s) + 1}
         /\ \A k \in DOMAIN s : Append(s, e)[k] = s[k]
         /\ Append(s, e)[Len(s) + 1] = e
<1> DEFINE R == {s[k] : k \in DOMAIN s} \cup {e}
           t == Append(s, e)
<1>1. s \in Seq(R) /\ e \in R
  <2>1. s \in Seq({s[k] : k \in DOMAIN s})
    BY DEF IsSeq
  <2>2. {s[k] : k \in DOMAIN s} \subseteq R
    OBVIOUS
  <2> HIDE DEF R
  <2>3. \A k \in 1..Len(s) : s[k] \in R
    BY <2>1, <2>2
  <2>4. Len(s) \in Nat /\ s = [k \in 1..Len(s) |-> s[k]]
    BY SeqFacts
  <2>5. s \in Seq(R)
    BY <2>3, <2>4
  <2>6. e \in R
    BY DEF R
  <2> QED BY <2>5, <2>6
<1> HIDE DEF R
<1>2. Len(s) \in Nat /\ DOMAIN s = 1..Len(s)
  BY SeqFacts
<1>3. t \in Seq(R) /\ Len(t) = Len(s) + 1 /\ DOMAIN t = 1..(Len(s) + 1)
  BY <1>1, <1>2
<1>4. t = [k \in DOMAIN t |-> t[k]]
  BY <1>3, SeqIsFunction
<1>5. IsSeq(t)
  <2> HIDE DEF t
  <2> QED BY <1>2, <1>3, <1>4, ToSeq
<1>6. /\ \A k \in DOMAIN s : t[k] = s[k]
      /\ t[Len(s) + 1] = e
  BY <1>1, <1>2
<1>7. 1..(Len(s) + 1) = (1..Len(s)) \cup {Len(s) + 1}
  BY <1>2
<1> QED BY <1>2, <1>3, <1>5, <1>6, <1>7

LEMMA ConcatFacts ==
  ASSUME NEW s, IsSeq(s), NEW t, IsSeq(t)
  PROVE  /\ IsSeq(s \o t) /\ Len(s \o t) = Len(s) + Len(t)
         /\ \A k \in DOMAIN s : (s \o t)[k] = s[k]
<1> DEFINE R == {s[k] : k \in DOMAIN s} \cup {t[k] : k \in DOMAIN t}
           u == s \o t
<1>1. /\ Len(s) \in Nat /\ DOMAIN s = 1..Len(s) /\ s = [k \in 1..Len(s) |-> s[k]]
      /\ Len(t) \in Nat /\ DOMAIN t = 1..Len(t) /\ t = [k \in 1..Len(t) |-> t[k]]
  BY SeqFacts
<1>2. (\A k \in 1..Len(s) : s[k] \in R) /\ \A k \in 1..Len(t) : t[k] \in R
  BY <1>1
<1> HIDE DEF R
<1>3. s \in Seq(R) /\ t \in Seq(R)
  BY <1>1, <1>2
<1>4. u \in Seq(R) /\ Len(u) = Len(s) + Len(t) /\ DOMAIN u = 1..(Len(s) + Len(t))
  BY <1>1, <1>3
<1>5. u = [k \in DOMAIN u |-> u[k]]
  BY <1>4, SeqIsFunction
<1>6. IsSeq(u)
  <2> HIDE DEF u
  <2>1. Len(s) + Len(t) \in Nat
    BY <1>1
  <2> QED BY <2>1, <1>4, <1>5, ToSeq
<1>7. \A k \in DOMAIN s : u[k] = s[k]
  BY <1>1, <1>3
<1> QED BY <1>1, <1>4, <1>6, <1>7

LEMMA ConcatRight ==
  ASSUME NEW s, IsSeq(s), NEW t, IsSeq(t), NEW k \in DOMAIN t
  PROVE  (s \o t)[Len(s) + k] = t[k]
<1> DEFINE R == {s[i] : i \in DOMAIN s} \cup {t[i] : i \in DOMAIN t}
<1>1. /\ Len(s) \in Nat /\ DOMAIN s = 1..Len(s) /\ s = [i \in 1..Len(s) |-> s[i]]
      /\ Len(t) \in Nat /\ DOMAIN t = 1..Len(t) /\ t = [i \in 1..Len(t) |-> t[i]]
  BY SeqFacts
<1>2. (\A i \in 1..Len(s) : s[i] \in R) /\ \A i \in 1..Len(t) : t[i] \in R
  BY <1>1
<1> HIDE DEF R
<1>3. s \in Seq(R) /\ t \in Seq(R)
  BY <1>1, <1>2
<1> QED BY <1>1, <1>3

LEMMA TwoIntervals ==
  ASSUME NEW m \in Nat, NEW n \in Nat
  PROVE  1..(m + n) = 1..m \cup {m + k : k \in 1..n}
<1>1. \A i \in 1..(m + n) : i \in 1..m \/ \E k \in 1..n : i = m + k
  <2> TAKE i \in 1..(m + n)
  <2>1. CASE i <= m
    BY <2>1
  <2>2. CASE i > m
    <3>1. i - m \in 1..n /\ i = m + (i - m)
      BY <2>2
    <3> QED BY <3>1
  <2> QED BY <2>1, <2>2
<1>2. (\A i \in 1..m : i \in 1..(m + n)) /\ \A k \in 1..n : m + k \in 1..(m + n)
  OBVIOUS
<1> QED BY <1>1, <1>2

LEMMA OneItem ==
  ASSUME NEW x
  PROVE  IsSeq(<<x>>) /\ DOMAIN <<x>> = {1} /\ <<x>>[1] = x
<1>1. <<x>> \in Seq({x}) /\ Len(<<x>>) = 1 /\ <<x>>[1] = x
  OBVIOUS
<1>2. DOMAIN <<x>> = {1} /\ {<<x>>[k] : k \in DOMAIN <<x>>} = {x}
  BY <1>1
<1> QED BY <1>1, <1>2 DEF IsSeq

\* The first item is taken off.
LEMMA TailFacts ==
  ASSUME NEW s, IsSeq(s), s # <<>>
  PROVE  /\ 1 \in DOMAIN s /\ Head(s) = s[1]
         /\ IsSeq(Tail(s))
         /\ \A i \in DOMAIN Tail(s) : \E j \in DOMAIN s : Tail(s)[i] = s[j]
         /\ \A j \in DOMAIN s : j # 1 => \E i \in DOMAIN Tail(s) : Tail(s)[i] = s[j]
<1> DEFINE R == {s[k] : k \in DOMAIN s}
           t == Tail(s)
<1>1. s \in Seq(R)
  BY DEF IsSeq
<1>2. Len(s) \in Nat /\ DOMAIN s = 1..Len(s)
  BY SeqFacts
<1> HIDE DEF R
<1>3. Len(s) > 0
  BY <1>1, <1>2
<1>4. t \in Seq(R) /\ Len(t) = Len(s) - 1 /\ DOMAIN t = 1..(Len(s) - 1) /\ Head(s) = s[1]
  BY <1>1, <1>2, <1>3
<1>5. \A i \in 1..(Len(s) - 1) : t[i] = s[i + 1]
  BY <1>1, <1>2, <1>3
<1>6. IsSeq(t)
  <2>1. t = [k \in DOMAIN t |-> t[k]]
    BY <1>4, SeqIsFunction
  <2>2. Len(s) - 1 \in Nat
    BY <1>2, <1>3
  <2> HIDE DEF t
  <2> QED BY <2>1, <2>2, <1>4, ToSeq
<1>7. \A i \in DOMAIN t : \E j \in DOMAIN s : t[i] = s[j]
  <2> TAKE i \in DOMAIN t
  <2>1. i + 1 \in DOMAIN s /\ t[i] = s[i + 1]
    BY <1>2, <1>4, <1>5
  <2> QED BY <2>1
<1>8. \A j \in DOMAIN s : j # 1 => \E i \in DOMAIN t : t[i] = s[j]
  <2> TAKE j \in DOMAIN s
  <2> HAVE j # 1
  <2>1. j - 1 \in 1..(Len(s) - 1) /\ (j - 1) + 1 = j
    BY <1>2
  <2>2. j - 1 \in DOMAIN t /\ t[j - 1] = s[j]
    BY <2>1, <1>4, <1>5
  <2> QED BY <2>2
<1>9. 1 \in DOMAIN s
  BY <1>2, <1>3
<1> QED BY <1>4, <1>6, <1>7, <1>8, <1>9

\* The same positions, another value at one of them.
LEMMA ExceptFacts ==
  ASSUME NEW s, IsSeq(s), NEW a \in DOMAIN s, NEW v
  PROVE  /\ IsSeq([s EXCEPT ![a] = v]) /\ DOMAIN [s EXCEPT ![a] = v] = DOMAIN s
         /\ [s EXCEPT ![a] = v][a] = v
         /\ \A b \in DOMAIN s : b # a => [s EXCEPT ![a] = v][b] = s[b]
<1> DEFINE t == [s EXCEPT ![a] = v]
<1>1. Len(s) \in Nat /\ DOMAIN s = 1..Len(s) /\ s = [k \in 1..Len(s) |-> s[k]]
  BY SeqFacts
<1>2. DOMAIN t = 1..Len(s) /\ t = [k \in DOMAIN t |-> t[k]] /\ t[a] = v
  BY <1>1
<1>3. \A b \in DOMAIN s : b # a => t[b] = s[b]
  BY <1>1
<1>4. IsSeq(t)
  <2> HIDE DEF t
  <2> QED BY <1>1, <1>2, ToSeq
<1> QED BY <1>1, <1>2, <1>3, <1>4

-----------------------------------------------------------------------------
(* What every step keeps of the runs that do not take it.                    *)

\* A step of one task run leaves the state of the others alone.
StepOf(g) ==
  /\ top' = top /\ program' = program
  /\ \A h \in TaskRuns : h # g =>
       stage'[h] = stage[h] /\ copy'[h] = copy[h] /\ base'[h] = base[h] /\ stack'[h] = stack[h] /\ rest'[h] = rest[h]
  /\ DOMAIN stage' = TaskRuns /\ DOMAIN copy' = TaskRuns /\ DOMAIN base' = TaskRuns
  /\ DOMAIN stack' = TaskRuns /\ DOMAIN rest' = TaskRuns

\* It writes neither into their copies nor into their secret documents, and stores
\* no reference to the latter.
Writes(g) ==
  /\ IsSeq(heap') /\ DOMAIN heap \subseteq DOMAIN heap' /\ Plain \subseteq Plain'
  /\ \A a \in DOMAIN heap : DOMAIN heap[a] \subseteq DOMAIN heap'[a]
  /\ \A a \in DOMAIN heap : heap'[a] # heap[a] => a \in {top} \cup Plain
  /\ \A h \in TaskRuns : h # g /\ Secret(h) =>
       /\ \A a \in Docs(h) : heap'[a] = heap[a]
       /\ \A a \in (DOMAIN heap') \ Docs(h) : \A k \in DOMAIN heap'[a] : heap'[a][k].ref \notin Docs(h)

\* What the program of a task run is.
LEMMA ProgramFacts ==
  ASSUME HeapInv, NEW g \in TaskRuns
  PROVE  /\ IsProgram(program[g])
         /\ Len(program[g].doc) \in Nat /\ DOMAIN program[g].doc = 1..Len(program[g].doc)
         /\ 1 \in DOMAIN program[g].doc
<1>1. IsProgram(program[g])
  BY HeapAssumption DEF HeapInv, RunTyped
<1>2. IsSeq(program[g].doc) /\ program[g].doc # <<>>
  BY <1>1 DEF IsProgram, IsDocument
<1>3. 1 \in DOMAIN program[g].doc
  BY <1>2, TailFacts
<1> QED BY <1>1, <1>2, <1>3, SeqFacts

LEMMA SecretIsHeld ==
  ASSUME NEW g, Secret(g)
  PROVE  Held(g) /\ stage[g] # "waiting"
BY DEF Secret, Held

\* The copies of task runs are not changed.
LEMMA CopiesAreKept ==
  ASSUME HeapInv, NEW g \in TaskRuns, Writes(g), NEW h \in TaskRuns, copy[h] # 0
  PROVE  copy[h] \in DOMAIN heap /\ heap'[copy[h]] = heap[copy[h]]
<1>1. copy[h] \in (DOMAIN heap) \ {top}
  BY DEF HeapInv, RunTyped
<1>2. copy[h] \notin Plain
  BY DEF Plain
<1> QED BY <1>1, <1>2 DEF Writes

LEMMA OtherRun ==
  ASSUME HeapInv, NEW g \in TaskRuns, StepOf(g), Writes(g), NEW h \in TaskRuns, h # g
  PROVE  (RunTyped(h) /\ PrivateDocs(h) /\ ItemExprs(h) /\ DocInv(h))'
<1>1. /\ stage'[h] = stage[h] /\ copy'[h] = copy[h] /\ base'[h] = base[h] /\ stack'[h] = stack[h]
      /\ rest'[h] = rest[h] /\ program' = program /\ top' = top
  BY DEF StepOf
<1>2. Held(h)' = Held(h) /\ Docs(h)' = Docs(h) /\ Secret(h)' = Secret(h)
  BY <1>1 DEF Held, Docs, Secret
<1>3. RunTyped(h) /\ PrivateDocs(h) /\ ItemExprs(h) /\ DocInv(h)
  BY DEF HeapInv
<1>4. copy[h] # 0 => copy[h] \in DOMAIN heap /\ heap'[copy[h]] = heap[copy[h]]
  BY CopiesAreKept
<1>5. /\ DOMAIN heap \subseteq DOMAIN heap' /\ Plain \subseteq Plain'
      /\ \A a \in DOMAIN heap : DOMAIN heap[a] \subseteq DOMAIN heap'[a]
  BY DEF Writes
<1>6. stage[h] # "waiting" => copy[h] # 0
  <2>1. 0 \notin DOMAIN heap
    BY SeqFacts DEF HeapInv, HeapTyped
  <2> QED BY <1>3, <2>1 DEF RunTyped
<1>7. RunTyped(h)'
  <2>1. program'[h] \in Programs /\ stage'[h] \in Stages
    BY <1>1, <1>3 DEF RunTyped
  <2>2. /\ stage'[h] = "waiting" => copy'[h] = 0
        /\ stage'[h] # "waiting" => copy'[h] \in (DOMAIN heap') \ {top'}
    BY <1>1, <1>3, <1>5 DEF RunTyped
  <2>3. Held(h)' => base'[h] \in Nat /\ Docs(h)' \subseteq Plain'
    BY <1>1, <1>2, <1>3, <1>5 DEF RunTyped
  <2>4. IsSeq(stack'[h]) /\ \A i \in DOMAIN stack'[h] : ItemTyped(stack[h][i])'
    <3>1. IsSeq(stack[h]) /\ \A i \in DOMAIN stack[h] : ItemTyped(stack[h][i])
      BY <1>3 DEF RunTyped
    <3>2. ASSUME NEW i \in DOMAIN stack[h]
          PROVE  ItemTyped(stack[h][i])'
      <4>1. ItemTyped(stack[h][i]) /\ stack'[h][i] = stack[h][i]
        BY <3>1, <1>1
      <4>2. Plain \subseteq DOMAIN heap
        BY DEF Plain
      <4> QED BY <4>1, <4>2, <1>5 DEF ItemTyped
    <3> QED BY <3>1, <3>2, <1>1
  <2>5. stage'[h] \notin {"mapping", "failed"} => stack'[h] = <<>>
    BY <1>1, <1>3 DEF RunTyped
  <2>6. stage'[h] = "merging" =>
          program'[h].kind = "merge" /\ rest'[h] \subseteq DOMAIN heap'[base'[h] + program'[h].right]
    <3> SUFFICES ASSUME stage[h] = "merging"
                 PROVE  program[h].kind = "merge" /\ rest[h] \subseteq DOMAIN heap'[base[h] + program[h].right]
      BY <1>1
    <3>1. program[h].kind = "merge" /\ rest[h] \subseteq DOMAIN heap[base[h] + program[h].right]
      BY <1>3 DEF RunTyped
    <3>2. program[h].right \in DOMAIN program[h].doc
      BY <3>1, ProgramFacts DEF IsProgram
    <3>3. base[h] + program[h].right \in Docs(h)
      BY <3>2 DEF Docs
    <3>4. Docs(h) \subseteq DOMAIN heap
      BY <1>3 DEF RunTyped, Held, Plain
    <3> QED BY <3>1, <3>3, <3>4, <1>5
  <2>7. stage'[h] \in {"merging", "reported"} /\ IntoVariable(program'[h]) =>
          /\ program'[h].left.expr \in DOMAIN heap'[copy'[h]]
          /\ heap'[copy'[h]][program'[h].left.expr].ref # 0
    <3> SUFFICES ASSUME stage[h] \in {"merging", "reported"}, IntoVariable(program[h])
                 PROVE  /\ program[h].left.expr \in DOMAIN heap'[copy[h]]
                        /\ heap'[copy[h]][program[h].left.expr].ref # 0
      BY <1>1
    <3> QED BY <1>3, <1>4, <1>6 DEF RunTyped
  <2> QED BY <2>1, <2>2, <2>3, <2>4, <2>5, <2>6, <2>7, <1>1 DEF RunTyped
<1>8. PrivateDocs(h)'
  BY <1>2 DEF PrivateDocs, Writes
<1>9. ItemExprs(h)'
  BY <1>1, <1>2, <1>3 DEF ItemExprs
<1>10. DocInv(h)'
  <2>1. ASSUME Secret(h), NEW k \in DOMAIN program[h].doc
        PROVE  heap'[base[h] + k] = heap[base[h] + k]
    <3>1. base[h] + k \in Docs(h)
      BY DEF Docs
    <3> QED BY <2>1, <3>1 DEF Writes
  <2>2. ASSUME Secret(h)
        PROVE  heap'[copy[h]] = heap[copy[h]]
    BY <2>2, SecretIsHeld, <1>4, <1>6
  <2>3. Secret(h) => /\ \A v, x : Replaced(h, v, x)' = Replaced(h, v, x)
                     /\ \A v, x : OnItsWay(h, v, x)' = OnItsWay(h, v, x)
                     /\ \A a, key : Queued(h, a, key)' = Queued(h, a, key)
    BY <1>1, <2>2 DEF Replaced, OnItsWay, Decoded, Queued
  <2>4. ASSUME stage'[h] = "mapping"
        PROVE  Mapping(h)'
    <3>1. Secret(h) /\ Mapping(h)
      BY <2>4, <1>1, <1>3 DEF Secret, DocInv
    <3>2. \A k \in DOMAIN program'[h].doc :
            /\ DOMAIN heap'[base'[h] + k] = DOMAIN program'[h].doc[k]
            /\ \A key \in DOMAIN program'[h].doc[k] : OnItsWay(h, program[h].doc[k][key], heap[base[h] + k][key])'
      BY <3>1, <2>1, <2>3, <1>1 DEF Mapping
    <3>3. \A i \in DOMAIN stack'[h] : \A k \in DOMAIN program'[h].doc : stack'[h][i].parent = base'[h] + k =>
            /\ stack'[h][i].key \in DOMAIN program'[h].doc[k]
            /\ OnItsWay(h, program[h].doc[k][stack[h][i].key], stack[h][i].val)'
      BY <3>1, <2>3, <1>1 DEF Mapping
    <3>4. PICK S \in SUBSET DOMAIN program[h].doc : Unvisited(h, S)
      BY <3>1 DEF Mapping
    <3>5. Unvisited(h, S)'
      <4>1. 1 \in S => \E i \in DOMAIN stack'[h] : stack'[h][i].val.ref = Root(h)'
        BY <3>4, <1>1 DEF Unvisited, Root
      <4>2. \A k \in S \ {1} : \E p \in 1..(k - 1) : \E key \in DOMAIN program'[h].doc[p] :
              program'[h].doc[p][key].ref = k /\ (p \in S \/ Queued(h, base[h] + p, key)')
        BY <3>1, <3>4, <2>3, <1>1 DEF Unvisited
      <4>3. \A k \in (DOMAIN program'[h].doc) \ S : \A key \in DOMAIN program'[h].doc[k] :
              \/ Replaced(h, program[h].doc[k][key], heap[base[h] + k][key])'
              \/ Queued(h, base[h] + k, key)'
        BY <3>1, <3>4, <2>1, <2>3, <1>1 DEF Unvisited
      <4> QED BY <4>1, <4>2, <4>3 DEF Unvisited
    <3> QED BY <3>2, <3>3, <3>5, <1>1 DEF Mapping
  <2>5. ASSUME stage'[h] \in {"merging", "reported"}, program'[h].kind = "json"
        PROVE  Mapped(h)'
    <3>1. Secret(h) /\ Mapped(h)
      BY <2>5, <1>1, <1>3 DEF Secret, DocInv, IntoVariable
    <3> QED BY <3>1, <2>1, <2>3, <1>1 DEF Mapped
  <2> QED BY <2>4, <2>5 DEF DocInv
<1> QED BY <1>7, <1>8, <1>9, <1>10

-----------------------------------------------------------------------------
(* The steps that store one value, or none.                                  *)

LEMMA PutFacts ==
  ASSUME NEW a, NEW key, NEW v, IsSeq(heap), a \in DOMAIN heap, Put(a, key, v)
  PROVE  /\ IsSeq(heap') /\ DOMAIN heap' = DOMAIN heap
         /\ \A b \in DOMAIN heap : b # a => heap'[b] = heap[b]
         /\ DOMAIN heap'[a] = DOMAIN heap[a] \cup {key}
         /\ heap'[a][key] = v
         /\ \A k \in DOMAIN heap[a] : k # key => heap'[a][k] = heap[a][k]
<1> DEFINE o == [k \in DOMAIN heap[a] \cup {key} |-> IF k = key THEN v ELSE heap[a][k]]
<1>1. heap' = [heap EXCEPT ![a] = o]
  BY DEF Put
<1>2. /\ DOMAIN o = DOMAIN heap[a] \cup {key} /\ o = [k \in DOMAIN o |-> o[k]] /\ o[key] = v
      /\ \A k \in DOMAIN heap[a] : k # key => o[k] = heap[a][k]
  OBVIOUS
<1> HIDE DEF o
<1>3. IsSeq(heap') /\ DOMAIN heap' = DOMAIN heap /\ heap'[a] = o /\ \A b \in DOMAIN heap : b # a => heap'[b] = heap[b]
  BY <1>1, ExceptFacts
<1> QED BY <1>2, <1>3

LEMMA PutFunction ==
  ASSUME NEW a, NEW key, NEW v, IsSeq(heap), a \in DOMAIN heap, Put(a, key, v)
  PROVE  heap'[a] = [k \in DOMAIN heap'[a] |-> heap'[a][k]]
<1> DEFINE o == [k \in DOMAIN heap[a] \cup {key} |-> IF k = key THEN v ELSE heap[a][k]]
<1>1. heap' = [heap EXCEPT ![a] = o]
  BY DEF Put
<1>2. /\ DOMAIN o = DOMAIN heap[a] \cup {key} /\ o = [k \in DOMAIN o |-> o[k]] /\ o[key] = v
      /\ \A k \in DOMAIN heap[a] : k # key => o[k] = heap[a][k]
  OBVIOUS
<1> HIDE DEF o
<1>3. IsSeq(heap') /\ DOMAIN heap' = DOMAIN heap /\ heap'[a] = o /\ \A b \in DOMAIN heap : b # a => heap'[b] = heap[b]
  BY <1>1, ExceptFacts
<1> QED BY <1>2, <1>3

\* What g may store where: not for another task run whose document is a secret.
Stores(g, a, v) ==
  /\ a \in {top} \cup Plain /\ v.ref \in {0} \cup Plain /\ v.expr = NoName
  /\ \A h \in TaskRuns : h # g /\ Secret(h) => a \notin Docs(h) /\ v.ref \notin Docs(h)

LEMMA SamePlain ==
  ASSUME NEW g, StepOf(g), copy' = copy, DOMAIN heap' = DOMAIN heap
  PROVE  Plain' = Plain
BY DEF StepOf, Plain

\* No object becomes an expression's place by the step of g.
LEMMA SameInterpolating ==
  ASSUME NEW g \in TaskRuns, StepOf(g),
         stage[g] \in {"mapping", "failed"} => stage'[g] \in {"mapping", "failed"} /\ base'[g] = base[g],
         NEW a, Interpolating(a)
  PROVE  Interpolating(a)'
<1>1. PICK h \in TaskRuns : stage[h] \in {"mapping", "failed"} /\ a \in Docs(h)
  BY DEF Interpolating
<1>2. Docs(h)' = Docs(h)
  BY <1>1 DEF StepOf, Docs
<1>3. stage'[h] \in {"mapping", "failed"}
  BY <1>1 DEF StepOf
<1> QED BY <1>1, <1>2, <1>3 DEF Interpolating

LEMMA NotStoring ==
  ASSUME HeapInv, NEW g \in TaskRuns, StepOf(g), copy' = copy, heap' = heap
  PROVE  HeapTyped' /\ Writes(g)
<1>1. Plain' = Plain
  BY SamePlain
<1>2. HeapTyped'
  BY <1>1 DEF HeapInv, HeapTyped, StepOf, IsObject
<1>3. \A h \in TaskRuns : h # g /\ Secret(h) =>
        \A a \in (DOMAIN heap) \ Docs(h) : \A k \in DOMAIN heap[a] : heap[a][k].ref \notin Docs(h)
  BY DEF HeapInv, PrivateDocs
<1>4. IsSeq(heap)
  BY DEF HeapInv, HeapTyped
<1> QED BY <1>1, <1>2, <1>3, <1>4 DEF Writes

LEMMA Storing ==
  ASSUME HeapInv, NEW g \in TaskRuns, StepOf(g), copy' = copy,
         NEW a, NEW key, NEW v, Stores(g, a, v), Put(a, key, v)
  PROVE  /\ HeapTyped' /\ Writes(g)
         /\ a \in DOMAIN heap
         /\ base' = base /\ (stage[g] \in {"mapping", "failed"} => stage'[g] \in {"mapping", "failed"}) => ExprInv'
<1>1. HeapTyped /\ ExprInv
  BY DEF HeapInv
<1>2. a \in DOMAIN heap
  BY <1>1 DEF Stores, Plain, HeapTyped
<1>3. /\ IsSeq(heap') /\ DOMAIN heap' = DOMAIN heap
      /\ \A b \in DOMAIN heap : b # a => heap'[b] = heap[b]
      /\ DOMAIN heap'[a] = DOMAIN heap[a] \cup {key}
      /\ heap'[a] = [k \in DOMAIN heap'[a] |-> heap'[a][k]]
      /\ heap'[a][key] = v
      /\ \A k \in DOMAIN heap[a] : k # key => heap'[a][k] = heap[a][k]
  <2>1. IsSeq(heap)
    BY <1>1 DEF HeapTyped
  <2> QED BY <1>2, <2>1, PutFacts, PutFunction
<1>4. Plain' = Plain
  BY <1>3, SamePlain
<1>5. HeapTyped'
  <2>1. ASSUME NEW b \in DOMAIN heap
        PROVE  IsObject(heap'[b], {0} \cup Plain)
    <3>1. IsObject(heap[b], {0} \cup Plain)
      BY <1>1 DEF HeapTyped
    <3>2. CASE b # a
      BY <3>1, <3>2, <1>3
    <3>3. CASE b = a
      <4>1. IsFiniteSet(DOMAIN heap'[a])
        <5>1. IsFiniteSet(DOMAIN heap[a])
          BY <3>1, <3>3 DEF IsObject
        <5> QED BY <5>1, <1>3, FS_AddElement
      <4>2. \A k \in DOMAIN heap'[a] : heap'[a][k].ref \in {0} \cup Plain /\ (heap'[a][k].expr # NoName => heap'[a][k].ref = 0)
        BY <3>1, <3>3, <1>3 DEF IsObject, Stores
      <4> QED BY <4>1, <4>2, <3>3, <1>3 DEF IsObject
    <3> QED BY <3>2, <3>3
  <2> QED BY <2>1, <1>1, <1>3, <1>4 DEF HeapTyped, StepOf
<1>6. Writes(g)
  <2>1. \A b \in DOMAIN heap : DOMAIN heap[b] \subseteq DOMAIN heap'[b] /\ (heap'[b] # heap[b] => b \in {top} \cup Plain)
    BY <1>3 DEF Stores
  <2>2. ASSUME NEW h \in TaskRuns, h # g, Secret(h)
        PROVE  /\ \A b \in Docs(h) : heap'[b] = heap[b]
               /\ \A b \in (DOMAIN heap') \ Docs(h) : \A k \in DOMAIN heap'[b] : heap'[b][k].ref \notin Docs(h)
    <3>1. a \notin Docs(h) /\ v.ref \notin Docs(h)
      BY <2>2 DEF Stores
    <3>2. Docs(h) \subseteq DOMAIN heap
      BY <2>2, SecretIsHeld DEF HeapInv, RunTyped, Plain
    <3>3. \A b \in (DOMAIN heap) \ Docs(h) : \A k \in DOMAIN heap[b] : heap[b][k].ref \notin Docs(h)
      BY <2>2 DEF HeapInv, PrivateDocs
    <3>4. ASSUME NEW b \in (DOMAIN heap') \ Docs(h), NEW k \in DOMAIN heap'[b]
          PROVE  heap'[b][k].ref \notin Docs(h)
      <4>1. CASE b # a
        BY <4>1, <3>3, <3>4, <1>3
      <4>2. CASE b = a /\ k # key
        BY <4>2, <3>3, <3>4, <1>3
      <4>3. CASE b = a /\ k = key
        BY <4>3, <3>1, <1>3
      <4> QED BY <4>1, <4>2, <4>3
    <3> QED BY <3>1, <3>2, <3>4, <1>3
  <2> QED BY <2>1, <2>2, <1>3, <1>4 DEF Writes
<1>7. ASSUME base' = base, stage[g] \in {"mapping", "failed"} => stage'[g] \in {"mapping", "failed"}
      PROVE  ExprInv'
  <2>1. ASSUME NEW b \in DOMAIN heap
        PROVE  Interpolating(b)' \/ NoExprs(b)'
    <3>1. CASE Interpolating(b)
      BY <3>1, <1>7, SameInterpolating
    <3>2. CASE NoExprs(b)
      BY <3>2, <1>2, <1>3 DEF NoExprs, Stores
    <3> QED BY <3>1, <3>2, <1>1 DEF ExprInv
  <2> QED BY <2>1, <1>3 DEF ExprInv
<1> QED BY <1>2, <1>5, <1>6, <1>7

\* What is left to show of a step.
Keeps(g) ==
  /\ (RunTyped(g) /\ PrivateDocs(g) /\ ItemExprs(g) /\ DocInv(g))'
  /\ \A h \in TaskRuns : h # g => Apart(g, h)' /\ Apart(h, g)'
  /\ ~MergesIntoVariable => \A h \in TaskRuns : StoresTheSame(h)'

LEMMA StepKeepsInv ==
  ASSUME HeapInv, NEW g \in TaskRuns, StepOf(g), Writes(g), HeapTyped', ExprInv', Keeps(g)
  PROVE  HeapInv'
<1>1. \A h \in TaskRuns : (RunTyped(h) /\ PrivateDocs(h) /\ ItemExprs(h) /\ DocInv(h))'
  <2> TAKE h \in TaskRuns
  <2>1. CASE h = g
    BY <2>1 DEF Keeps
  <2>2. CASE h # g
    BY <2>2, OtherRun
  <2> QED BY <2>1, <2>2
<1>2. ASSUME NEW h \in TaskRuns, NEW i \in TaskRuns, h # i
      PROVE  Apart(h, i)'
  <2>1. CASE h = g \/ i = g
    BY <2>1, <1>2 DEF Keeps
  <2>2. CASE h # g /\ i # g
    <3>1. Apart(h, i)
      BY <1>2 DEF HeapInv
    <3>2. /\ Held(h)' = Held(h) /\ Held(i)' = Held(i) /\ Docs(h)' = Docs(h) /\ Docs(i)' = Docs(i)
          /\ Secret(h)' = Secret(h) /\ stack'[i] = stack[i]
      BY <2>2 DEF StepOf, Held, Docs, Secret
    <3> QED BY <3>1, <3>2 DEF Apart
  <2> QED BY <2>1, <2>2
<1>3. MergesIntoVariable' = MergesIntoVariable
  BY DEF StepOf, MergesIntoVariable
<1>4. MergesIntoVariable' \/ \A h \in TaskRuns : StoresTheSame(h)'
  BY <1>3 DEF Keeps
<1> QED BY <1>1, <1>2, <1>4 DEF HeapInv

\* A step that leaves the documents where they are keeps them apart, if what it
\* queues leads into no secret.
LEMMA ApartIsKept ==
  ASSUME HeapInv, NEW g \in TaskRuns, StepOf(g), base' = base,
         Held(g)' => Held(g), Secret(g)' => Secret(g),
         NEW h \in TaskRuns, h # g,
         Secret(h) => \A i \in DOMAIN stack'[g] : /\ stack'[g][i].parent \notin Docs(h)
                                                  /\ stack'[g][i].val.ref \notin Docs(h)
  PROVE  Apart(g, h)' /\ Apart(h, g)'
<1>1. /\ Held(h)' = Held(h) /\ Docs(h)' = Docs(h) /\ Secret(h)' = Secret(h)
      /\ stack'[h] = stack[h] /\ Docs(g)' = Docs(g)
  BY DEF StepOf, Held, Docs, Secret
<1>2. Apart(g, h) /\ Apart(h, g)
  BY DEF HeapInv
<1>3. Apart(g, h)'
  BY <1>1, <1>2 DEF Apart
<1>4. Apart(h, g)'
  BY <1>1, <1>2 DEF Apart
<1> QED BY <1>3, <1>4

\* What is stored into the map of the scheduler or into the secret document of g is
\* stored into no object another task run is about to store into.
LEMMA TheSameIsStored ==
  ASSUME HeapInv, ~MergesIntoVariable, NEW g \in TaskRuns, StepOf(g),
         \A a \in Plain : heap'[a] # heap[a] => Secret(g) /\ a \in Docs(g),
         NEW h \in TaskRuns, h # g
  PROVE  StoresTheSame(h)'
<1>1. Docs(h)' = Docs(h) /\ stack'[h] = stack[h]
  BY DEF StepOf, Docs
<1>2. ASSUME NEW i \in DOMAIN stack[h], stack[h][i].parent \notin {0} \cup Docs(h)
      PROVE  heap'[stack[h][i].parent][stack[h][i].key] = stack[h][i].val
  <2>1. StoresTheSame(h) /\ ItemTyped(stack[h][i]) /\ Apart(g, h)
    BY DEF HeapInv, RunTyped
  <2>2. heap[stack[h][i].parent][stack[h][i].key] = stack[h][i].val
    BY <1>2, <2>1 DEF StoresTheSame
  <2>3. stack[h][i].parent \in Plain
    BY <1>2, <2>1 DEF ItemTyped
  <2>4. Secret(g) => stack[h][i].parent \notin Docs(g)
    BY <2>1 DEF Apart
  <2>5. heap'[stack[h][i].parent] = heap[stack[h][i].parent]
    BY <2>3, <2>4
  <2> QED BY <2>2, <2>5
<1> QED BY <1>1, <1>2 DEF StoresTheSame

-----------------------------------------------------------------------------
(* The steps.                                                                *)

LEMMA InitHeapInv ==
  ASSUME HeapInit
  PROVE  HeapInv
<1>1. /\ IsSeq(Given) /\ Given # <<>> /\ heap = Given /\ top = 1
      /\ \A a \in DOMAIN Given : /\ IsObject(Given[a], {0} \cup 2..Len(Given))
                                 /\ \A k \in DOMAIN Given[a] : Given[a][k].expr = NoName
  BY HeapAssumption DEF HeapInit
<1>2. /\ program \in [TaskRuns -> Programs]
      /\ \A g \in TaskRuns : stage[g] = "waiting" /\ copy[g] = 0 /\ base[g] = 0 /\ stack[g] = <<>> /\ rest[g] = {}
      /\ DOMAIN stage = TaskRuns /\ DOMAIN copy = TaskRuns /\ DOMAIN base = TaskRuns
      /\ DOMAIN stack = TaskRuns /\ DOMAIN rest = TaskRuns
  BY DEF HeapInit
<1>3. 1 \in DOMAIN Given /\ Len(Given) \in Nat /\ DOMAIN Given = 1..Len(Given)
  BY <1>1, TailFacts, SeqFacts
<1>4. Plain = 2..Len(Given)
  BY <1>1, <1>2, <1>3 DEF Plain
<1>5. HeapTyped
  BY <1>1, <1>2, <1>3, <1>4 DEF HeapTyped
<1>6. ExprInv
  BY <1>1 DEF ExprInv, NoExprs
<1>7. IsSeq(<<>>) /\ DOMAIN <<>> = {}
  BY DEF IsSeq
<1>8. ASSUME NEW g \in TaskRuns
      PROVE  RunTyped(g) /\ PrivateDocs(g) /\ ItemExprs(g) /\ DocInv(g) /\ StoresTheSame(g) /\ ~Held(g) /\ ~Secret(g)
  <2>1. stage[g] = "waiting" /\ copy[g] = 0 /\ stack[g] = <<>> /\ program[g] \in Programs
    BY <1>2
  <2>2. ~Held(g) /\ ~Secret(g)
    BY <2>1 DEF Held, Secret
  <2>3. RunTyped(g)
    BY <2>1, <2>2, <1>7 DEF RunTyped, Stages
  <2>4. PrivateDocs(g) /\ DocInv(g)
    BY <2>1, <2>2 DEF PrivateDocs, DocInv
  <2>5. ItemExprs(g) /\ StoresTheSame(g)
    BY <2>1, <1>7 DEF ItemExprs, StoresTheSame
  <2> QED BY <2>2, <2>3, <2>4, <2>5
<1>9. \A g, h \in TaskRuns : Apart(g, h)
  BY <1>8 DEF Apart
<1> QED BY <1>5, <1>6, <1>8, <1>9 DEF HeapInv

LEMMA StartTaskRunKeeps ==
  ASSUME HeapInv, NEW g \in TaskRuns, StartTaskRun(g)
  PROVE  HeapInv' /\ \A a \in DOMAIN heap : heap'[a] = heap[a]
<1>1. HeapTyped /\ ExprInv /\ RunTyped(g)
  BY DEF HeapInv
<1>0. PICK new : new = Len(heap) + 1
  OBVIOUS
<1>2. /\ stage[g] = "waiting" /\ stage' = [stage EXCEPT ![g] = "decoding"]
      /\ heap' = Append(heap, heap[top]) /\ copy' = [copy EXCEPT ![g] = new]
      /\ UNCHANGED <<top, program, base, stack, rest>>
  BY <1>0 DEF StartTaskRun, Copy, Stage
<1>3. /\ IsSeq(heap') /\ DOMAIN heap' = DOMAIN heap \cup {new}
      /\ \A a \in DOMAIN heap : heap'[a] = heap[a]
      /\ heap'[new] = heap[top]
  BY <1>1, <1>2, <1>0, AppendFacts DEF HeapTyped
<1>4. new \notin DOMAIN heap /\ new # 0 /\ top \in DOMAIN heap
  BY <1>1, <1>0, SeqFacts DEF HeapTyped
<1>5. StepOf(g)
  BY <1>1, <1>2 DEF HeapTyped, StepOf
<1>6. copy[g] = 0 /\ copy'[g] = new /\ stage'[g] = "decoding" /\ stack'[g] = <<>>
  BY <1>1, <1>2 DEF HeapTyped, RunTyped
<1>7. Plain' = Plain
  <2>1. 0 \notin DOMAIN heap
    BY <1>1, SeqFacts DEF HeapTyped
  <2>2. ASSUME NEW a
        PROVE  a \in Plain' <=> a \in Plain
    <3>1. a \in Plain' => a \in DOMAIN heap /\ a # top /\ \A h \in TaskRuns : a # copy[h]
      <4> SUFFICES ASSUME a \in Plain'
                   PROVE  a \in DOMAIN heap /\ a # top /\ \A h \in TaskRuns : a # copy[h]
        OBVIOUS
      <4>1. a \in DOMAIN heap' /\ a # top /\ \A h \in TaskRuns : a # copy'[h]
        BY <1>2 DEF Plain
      <4>2. a \in DOMAIN heap
        BY <4>1, <1>3, <1>6
      <4>3. \A h \in TaskRuns : a # copy[h]
        BY <4>1, <4>2, <2>1, <1>5, <1>6 DEF StepOf
      <4> QED BY <4>1, <4>2, <4>3
    <3>2. a \in Plain => a \in DOMAIN heap' /\ a # top' /\ \A h \in TaskRuns : a # copy'[h]
      BY <1>2, <1>3, <1>4, <1>5, <1>6 DEF Plain, StepOf
    <3> QED BY <3>1, <3>2 DEF Plain
  <2> QED BY <2>2
<1>8. top \notin Plain /\ \A h \in TaskRuns : Held(h) => Docs(h) \subseteq Plain
  BY DEF HeapInv, RunTyped, Plain
<1>9. HeapTyped'
  BY <1>1, <1>2, <1>3, <1>4, <1>5, <1>7 DEF HeapTyped, StepOf
<1>10. Writes(g)
  <2>1. ASSUME NEW h \in TaskRuns, Secret(h), NEW a \in (DOMAIN heap') \ Docs(h), NEW k \in DOMAIN heap'[a]
        PROVE  heap'[a][k].ref \notin Docs(h)
    <3>1. PICK b \in (DOMAIN heap) \ Docs(h) : heap'[a] = heap[b]
      BY <2>1, <1>3, <1>4, <1>8, SecretIsHeld
    <3> QED BY <2>1, <3>1 DEF HeapInv, PrivateDocs
  <2>2. \A h \in TaskRuns : Secret(h) => Docs(h) \subseteq DOMAIN heap
    BY <1>8, SecretIsHeld DEF Plain
  <2> QED BY <2>1, <2>2, <1>3, <1>7 DEF Writes
<1>11. ExprInv'
  <2>1. ASSUME NEW a \in DOMAIN heap
        PROVE  Interpolating(a)' \/ NoExprs(a)'
    <3>1. CASE Interpolating(a)
      BY <3>1, <1>2, <1>5, SameInterpolating
    <3>2. CASE NoExprs(a)
      BY <3>2, <1>3 DEF NoExprs
    <3> QED BY <3>1, <3>2, <1>1 DEF ExprInv
  <2>2. NoExprs(new)'
    <3>1. ~Interpolating(top)
      BY <1>8 DEF Interpolating, Held
    <3> QED BY <3>1, <1>1, <1>3, <1>4 DEF ExprInv, NoExprs
  <2> QED BY <2>1, <2>2, <1>3 DEF ExprInv
<1>12. Keeps(g)
  <2>1. ~Held(g)' /\ ~Secret(g)' /\ IsSeq(<<>>) /\ DOMAIN <<>> = {}
    BY <1>6 DEF Held, Secret, IsSeq
  <2>2. RunTyped(g)'
    <3>1. copy'[g] \in (DOMAIN heap') \ {top'}
      BY <1>2, <1>3, <1>4, <1>6
    <3>2. program'[g] \in Programs
      BY <1>1, <1>2 DEF RunTyped
    <3> QED BY <2>1, <3>1, <3>2, <1>6 DEF RunTyped, Stages
  <2>3. PrivateDocs(g)' /\ DocInv(g)'
    BY <2>1, <1>6 DEF PrivateDocs, DocInv
  <2>4. ItemExprs(g)' /\ StoresTheSame(g)'
    BY <2>1, <1>6 DEF ItemExprs, StoresTheSame
  <2>5. \A h \in TaskRuns : h # g => Apart(g, h)' /\ Apart(h, g)'
    BY <2>1, <1>6 DEF Apart
  <2>6. ASSUME ~MergesIntoVariable, NEW h \in TaskRuns, h # g
        PROVE  StoresTheSame(h)'
    <3>1. \A a \in Plain : heap'[a] = heap[a]
      BY <1>3 DEF Plain
    <3> QED BY <2>6, <3>1, <1>5, TheSameIsStored
  <2> QED BY <2>2, <2>3, <2>4, <2>5, <2>6 DEF Keeps
<1> QED BY <1>3, <1>5, <1>9, <1>10, <1>11, <1>12, StepKeepsInv

\* What a result or the object merged into refers to.
LEMMA ResultFacts ==
  ASSUME HeapInv, NEW g \in TaskRuns, stage[g] \in {"merging", "reported"}
  PROVE  /\ ResultOf(g).ref \in Plain /\ ResultOf(g).expr = NoName
         /\ \A h \in TaskRuns : h # g /\ Secret(h) => ResultOf(g).ref \notin Docs(h)
         /\ Secret(g) => ResultOf(g).ref \in Docs(g)
<1>1. RunTyped(g) /\ Held(g) /\ stage[g] # "waiting"
  BY DEF HeapInv, Held
<1>2. Docs(g) \subseteq Plain
  BY <1>1 DEF RunTyped
<1>3. ResultOf(g).expr = NoName
  BY DEF ResultOf, Ref
<1>4. CASE IntoVariable(program[g])
  <2>1. ResultOf(g).ref = heap[copy[g]][program[g].left.expr].ref
    BY <1>4 DEF ResultOf, Ref, IntoVariable
  <2>2. /\ copy[g] \in DOMAIN heap /\ copy[g] \notin Plain
        /\ program[g].left.expr \in DOMAIN heap[copy[g]] /\ ResultOf(g).ref # 0
    BY <1>1, <1>4, <2>1 DEF RunTyped, Plain
  <2>3. ResultOf(g).ref \in Plain
    BY <2>1, <2>2 DEF HeapInv, HeapTyped, IsObject
  <2>4. ASSUME NEW h \in TaskRuns, Secret(h)
        PROVE  ResultOf(g).ref \notin Docs(h)
    <3>1. copy[g] \notin Docs(h)
      BY <2>2, <2>4, SecretIsHeld DEF HeapInv, RunTyped
    <3>2. PrivateDocs(h)
      BY DEF HeapInv
    <3> QED BY <3>1, <3>2, <2>1, <2>2, <2>4 DEF PrivateDocs
  <2>5. ~Secret(g)
    BY <1>4 DEF Secret
  <2> QED BY <1>3, <2>3, <2>4, <2>5
<1>5. CASE ~IntoVariable(program[g])
  <2>1. ResultOf(g).ref \in Docs(g)
    <3>1. CASE program[g].kind = "json"
      BY <3>1, ProgramFacts DEF ResultOf, Ref, Root, Docs
    <3>2. CASE program[g].kind # "json"
      <4>1. program[g].kind = "merge" /\ program[g].left.expr = NoName /\ program[g].left.ref \in DOMAIN program[g].doc
        BY <3>2, <1>5, ProgramFacts DEF IsProgram, IntoVariable
      <4> QED BY <4>1, <3>2, <1>5 DEF ResultOf, Ref, Docs
    <3> QED BY <3>1, <3>2
  <2>2. \A h \in TaskRuns : h # g /\ Secret(h) => Docs(h) \cap Docs(g) = {}
    BY <1>1, SecretIsHeld DEF HeapInv, Apart
  <2> QED BY <1>2, <1>3, <2>1, <2>2
<1> QED BY <1>4, <1>5

LEMMA EmptyStack == IsSeq(<<>>) /\ DOMAIN <<>> = {}
BY DEF IsSeq

LEMMA SetVarKeeps ==
  ASSUME HeapInv, NEW g \in TaskRuns, SetVar(g)
  PROVE  HeapInv' /\ Writes(g) /\ \A a \in DOMAIN heap : heap'[a] # heap[a] => a = top
<1>1. HeapTyped /\ RunTyped(g) /\ DocInv(g)
  BY DEF HeapInv
<1>2. /\ stage[g] = "reported" /\ stage' = [stage EXCEPT ![g] = "settled"]
      /\ Put(top, ResultName, ResultOf(g))
      /\ UNCHANGED <<top, program, copy, base, stack, rest>>
  BY DEF SetVar, Stage
<1>3. StepOf(g)
  BY <1>1, <1>2 DEF HeapTyped, StepOf
<1>4. stage'[g] = "settled" /\ stack'[g] = <<>>
  BY <1>1, <1>2 DEF HeapTyped, RunTyped
<1>5. top \notin Plain /\ \A h \in TaskRuns : Secret(h) => Docs(h) \subseteq Plain
  BY SecretIsHeld DEF HeapInv, RunTyped, Plain
<1>6. Stores(g, top, ResultOf(g))
  BY <1>2, <1>5, ResultFacts DEF Stores
<1>7. HeapTyped' /\ Writes(g) /\ ExprInv'
  <2>1. stage[g] \notin {"mapping", "failed"}
    BY <1>2
  <2> QED BY <2>1, <1>2, <1>3, <1>6, Storing
<1>8. DOMAIN heap' = DOMAIN heap /\ \A a \in DOMAIN heap : a # top => heap'[a] = heap[a]
  <2>1. top \in DOMAIN heap /\ IsSeq(heap)
    BY <1>1 DEF HeapTyped
  <2> QED BY <2>1, <1>2, PutFacts
<1>9. Held(g) /\ Held(g)' /\ ~Secret(g)' /\ Docs(g)' = Docs(g)
  BY <1>2, <1>4 DEF Held, Secret, Docs
<1>10. Keeps(g)
  <2>1. RunTyped(g)'
    <3>1. Plain' = Plain
      BY <1>2, <1>3, <1>8, SamePlain
    <3>2. copy'[g] \in (DOMAIN heap') \ {top'} /\ program'[g] \in Programs
      BY <1>1, <1>2, <1>8 DEF RunTyped
    <3>3. base'[g] \in Nat /\ Docs(g)' \subseteq Plain'
      BY <1>1, <1>2, <1>9, <3>1 DEF RunTyped
    <3> QED BY <3>2, <3>3, <1>4, EmptyStack DEF RunTyped, Stages
  <2>2. PrivateDocs(g)' /\ DocInv(g)' /\ ItemExprs(g)' /\ StoresTheSame(g)'
    BY <1>4, <1>9, EmptyStack DEF PrivateDocs, DocInv, ItemExprs, StoresTheSame
  <2>3. \A h \in TaskRuns : h # g => Apart(g, h)' /\ Apart(h, g)'
    BY <1>2, <1>3, <1>4, <1>9, EmptyStack, ApartIsKept
  <2>4. ASSUME ~MergesIntoVariable, NEW h \in TaskRuns, h # g
        PROVE  StoresTheSame(h)'
    <3>1. \A a \in Plain : heap'[a] = heap[a]
      BY <1>5, <1>8 DEF Plain
    <3> QED BY <2>4, <3>1, <1>3, TheSameIsStored
  <2> QED BY <2>1, <2>2, <2>3, <2>4 DEF Keeps
<1> QED BY <1>3, <1>7, <1>8, <1>10, StepKeepsInv

LEMMA MergedAllKeeps ==
  ASSUME HeapInv, NEW g \in TaskRuns, MergedAll(g)
  PROVE  HeapInv' /\ heap' = heap
<1>1. HeapTyped /\ RunTyped(g) /\ PrivateDocs(g)
  BY DEF HeapInv
<1>2. /\ stage[g] = "merging" /\ stage' = [stage EXCEPT ![g] = "reported"]
      /\ UNCHANGED <<heap, top, program, copy, base, stack, rest>>
  BY DEF MergedAll, Stage
<1>3. StepOf(g)
  BY <1>1, <1>2 DEF HeapTyped, StepOf
<1>4. stage'[g] = "reported" /\ stack'[g] = <<>> /\ program[g].kind = "merge"
  BY <1>1, <1>2 DEF HeapTyped, RunTyped
<1>5. HeapTyped' /\ Writes(g)
  BY <1>2, <1>3, NotStoring
<1>6. ExprInv'
  <2>1. \A a : Interpolating(a) => Interpolating(a)'
    BY <1>2, <1>3, SameInterpolating
  <2> QED BY <2>1, <1>2 DEF HeapInv, ExprInv, NoExprs
<1>7. Held(g) /\ Held(g)' /\ Secret(g)' = Secret(g) /\ Docs(g)' = Docs(g)
  BY <1>2, <1>4 DEF Held, Secret, Docs
<1>8. Keeps(g)
  <2>1. RunTyped(g)'
    <3>1. Plain' = Plain
      BY <1>2, <1>3, SamePlain
    <3>2. copy'[g] \in (DOMAIN heap') \ {top'} /\ program'[g] \in Programs
      BY <1>1, <1>2 DEF RunTyped
    <3>3. base'[g] \in Nat /\ Docs(g)' \subseteq Plain'
      BY <1>1, <1>2, <1>7, <3>1 DEF RunTyped
    <3>4. IntoVariable(program'[g]) => /\ program'[g].left.expr \in DOMAIN heap'[copy'[g]]
                                       /\ heap'[copy'[g]][program'[g].left.expr].ref # 0
      BY <1>1, <1>2 DEF RunTyped
    <3> QED BY <3>2, <3>3, <3>4, <1>4, EmptyStack DEF RunTyped, Stages
  <2>2. PrivateDocs(g)'
    BY <1>1, <1>2, <1>7 DEF PrivateDocs
  <2>3. DocInv(g)' /\ ItemExprs(g)' /\ StoresTheSame(g)'
    BY <1>2, <1>4, EmptyStack DEF DocInv, ItemExprs, StoresTheSame
  <2>4. \A h \in TaskRuns : h # g => Apart(g, h)' /\ Apart(h, g)'
    BY <1>2, <1>3, <1>4, <1>7, EmptyStack, ApartIsKept
  <2>5. ASSUME ~MergesIntoVariable, NEW h \in TaskRuns, h # g
        PROVE  StoresTheSame(h)'
    BY <2>5, <1>2, <1>3, TheSameIsStored
  <2> QED BY <2>2, <2>1, <2>3, <2>4, <2>5 DEF Keeps
<1> QED BY <1>2, <1>3, <1>5, <1>6, <1>8, StepKeepsInv

LEMMA MergeKeyKeeps ==
  ASSUME HeapInv, NEW g \in TaskRuns, MergeKey(g)
  PROVE  /\ HeapInv' /\ Writes(g)
         /\ \A a \in DOMAIN heap : heap'[a] # heap[a] /\ ~IntoVariable(program[g]) => Secret(g) /\ a \in Docs(g)
<1>1. HeapTyped /\ ExprInv /\ RunTyped(g) /\ PrivateDocs(g)
  BY DEF HeapInv
<1> DEFINE right == base[g] + program[g].right
<1>2. PICK key \in rest[g] :
        Put(Left(g), key, heap[right][key]) /\ rest' = [rest EXCEPT ![g] = @ \ {key}]
  BY DEF MergeKey
<1>3. stage[g] = "merging" /\ UNCHANGED <<top, program, stage, copy, base, stack>>
  BY DEF MergeKey
<1>4. StepOf(g)
  BY <1>1, <1>2, <1>3 DEF HeapTyped, StepOf
<1>5. Held(g) /\ Held(g)' /\ Secret(g)' = Secret(g) /\ Docs(g)' = Docs(g) /\ (Secret(g) <=> ~IntoVariable(program[g]))
  BY <1>3 DEF Held, Secret, Docs
<1>6. stack[g] = <<>> /\ stack'[g] = <<>> /\ program[g].kind = "merge" /\ rest[g] \subseteq DOMAIN heap[right]
  BY <1>1, <1>3 DEF RunTyped
<1>7. right \in Docs(g) /\ Docs(g) \subseteq Plain
  <2>1. program[g].right \in DOMAIN program[g].doc
    BY <1>6, ProgramFacts DEF IsProgram
  <2> QED BY <2>1, <1>1, <1>5 DEF Docs, RunTyped
<1>8. right \in DOMAIN heap /\ key \in DOMAIN heap[right]
  BY <1>2, <1>6, <1>7 DEF Plain
<1> HIDE DEF right
<1>9. /\ Left(g) \in Plain
      /\ \A h \in TaskRuns : h # g /\ Secret(h) => Left(g) \notin Docs(h)
      /\ Secret(g) => Left(g) \in Docs(g)
  BY <1>3, ResultFacts DEF Left
<1>10. \A h \in TaskRuns : h # g /\ Held(h) => Docs(h) \cap Docs(g) = {}
  BY <1>5 DEF HeapInv, Apart
<1>11. Stores(g, Left(g), heap[right][key])
  <2>1. heap[right][key].ref \in {0} \cup Plain
    BY <1>1, <1>8 DEF HeapTyped, IsObject
  <2>2. ~Interpolating(right)
    BY <1>3, <1>7, <1>10 DEF Interpolating, Held
  <2>3. heap[right][key].expr = NoName
    BY <2>2, <1>1, <1>8 DEF ExprInv, NoExprs
  <2>4. ASSUME NEW h \in TaskRuns, h # g, Secret(h)
        PROVE  heap[right][key].ref \notin Docs(h)
    <3>1. right \notin Docs(h)
      BY <2>4, <1>7, <1>10, SecretIsHeld
    <3> QED BY <2>4, <3>1, <1>8 DEF HeapInv, PrivateDocs
  <2> QED BY <2>1, <2>3, <2>4, <1>9 DEF Stores
<1>12. HeapTyped' /\ Writes(g) /\ ExprInv'
  BY <1>2, <1>3, <1>4, <1>11, Storing
<1>13. /\ DOMAIN heap' = DOMAIN heap
       /\ \A a \in DOMAIN heap : a # Left(g) => heap'[a] = heap[a]
       /\ \A a \in DOMAIN heap : DOMAIN heap[a] \subseteq DOMAIN heap'[a]
  <2>1. Left(g) \in DOMAIN heap /\ IsSeq(heap)
    BY <1>1, <1>9 DEF Plain, HeapTyped
  <2>2. PICK left, v : left = Left(g) /\ v = heap[right][key]
    OBVIOUS
  <2>3. left \in DOMAIN heap /\ Put(left, key, v)
    BY <2>1, <2>2, <1>2
  <2>4. /\ DOMAIN heap' = DOMAIN heap
        /\ \A a \in DOMAIN heap : a # left => heap'[a] = heap[a]
        /\ DOMAIN heap'[left] = DOMAIN heap[left] \cup {key}
    BY <2>1, <2>3, PutFacts
  <2> QED BY <2>2, <2>4
<1>14. Keeps(g)
  <2>1. RunTyped(g)'
    <3>1. Plain' = Plain
      BY <1>3, <1>4, <1>13, SamePlain
    <3>2. copy'[g] \in (DOMAIN heap') \ {top'} /\ program'[g] \in Programs
      BY <1>1, <1>3, <1>13 DEF RunTyped
    <3>3. base'[g] \in Nat /\ Docs(g)' \subseteq Plain'
      BY <1>1, <1>3, <1>5, <3>1 DEF RunTyped
    <3>4. rest'[g] \subseteq DOMAIN heap'[base'[g] + program'[g].right]
      <4>1. rest'[g] \subseteq rest[g]
        BY <1>1, <1>2 DEF HeapTyped
      <4>2. DOMAIN heap[right] \subseteq DOMAIN heap'[right]
        BY <1>8, <1>13
      <4> QED BY <4>1, <4>2, <1>3, <1>6 DEF right
    <3>5. ASSUME IntoVariable(program'[g])
          PROVE  /\ program'[g].left.expr \in DOMAIN heap'[copy'[g]]
                 /\ heap'[copy'[g]][program'[g].left.expr].ref # 0
      <4>1. copy[g] \in DOMAIN heap /\ copy[g] \notin Plain
        BY <1>1, <1>3 DEF RunTyped, Plain
      <4>2. heap'[copy[g]] = heap[copy[g]]
        BY <4>1, <1>9, <1>13
      <4> QED BY <3>5, <4>2, <1>1, <1>3 DEF RunTyped
    <3> QED BY <3>2, <3>3, <3>4, <3>5, <1>3, <1>6, EmptyStack DEF RunTyped, Stages
  <2>2. PrivateDocs(g)'
    <3>1. ASSUME Secret(g), NEW a \in (DOMAIN heap) \ Docs(g), NEW k \in DOMAIN heap'[a]
          PROVE  heap'[a][k].ref \notin Docs(g)
      BY <3>1, <1>1, <1>9, <1>13 DEF PrivateDocs
    <3> QED BY <3>1, <1>5, <1>13 DEF PrivateDocs
  <2>3. DocInv(g)'
    BY <1>3, <1>6 DEF DocInv
  <2>4. ItemExprs(g)' /\ StoresTheSame(g)'
    BY <1>6, EmptyStack DEF ItemExprs, StoresTheSame
  <2>5. \A h \in TaskRuns : h # g => Apart(g, h)' /\ Apart(h, g)'
    BY <1>3, <1>4, <1>5, <1>6, EmptyStack, ApartIsKept
  <2>6. ASSUME ~MergesIntoVariable, NEW h \in TaskRuns, h # g
        PROVE  StoresTheSame(h)'
    <3>1. \A a \in Plain : heap'[a] # heap[a] => Secret(g) /\ a \in Docs(g)
      BY <2>6, <1>5, <1>9, <1>13 DEF Plain, MergesIntoVariable
    <3> QED BY <2>6, <3>1, <1>4, TheSameIsStored
  <2> QED BY <2>1, <2>2, <2>3, <2>4, <2>5, <2>6 DEF Keeps
<1> QED BY <1>4, <1>5, <1>9, <1>12, <1>13, <1>14, StepKeepsInv

\* When no item is left there is no object mapGoValue has not come to: the first
\* of those would be the root or an entry of an earlier one.
LEMMA NothingUnvisited ==
  ASSUME HeapInv, NEW g \in TaskRuns, stage[g] = "mapping", stack[g] = <<>>
  PROVE  Mapped(g)
<1>1. Mapping(g)
  BY DEF HeapInv, DocInv
<1>2. PICK S \in SUBSET DOMAIN program[g].doc : Unvisited(g, S)
  BY <1>1 DEF Mapping
<1>3. DOMAIN program[g].doc \subseteq Nat
  BY ProgramFacts
<1>4. S = {}
  <2> SUFFICES ASSUME S # {} PROVE FALSE
    OBVIOUS
  <2> DEFINE R == OpToRel(<, Nat)
  <2>1. IsWellFoundedOn(R, Nat)
    BY NatLessThanWellFounded
  <2>2. \A x, y \in Nat : y < x => <<y, x>> \in R
    BY DEF OpToRel
  <2> HIDE DEF R
  <2>3. S \subseteq Nat
    BY <1>3
  <2>4. PICK k \in S : \A p \in S : <<p, k>> \notin R
    BY <2>1, <2>3, WFMin
  <2>5. 1 \notin S
    BY <1>2, EmptyStack DEF Unvisited
  <2>6. \A a, key : ~Queued(g, a, key)
    BY EmptyStack DEF Queued
  <2>7. PICK p \in 1..(k - 1) : p \in S
    BY <2>4, <2>5, <2>6, <1>2 DEF Unvisited
  <2>8. p < k
    BY <2>3, <2>4, <2>7
  <2> QED BY <2>2, <2>3, <2>4, <2>7, <2>8
<1>5. \A k \in DOMAIN program[g].doc : \A key \in DOMAIN program[g].doc[k] :
        Replaced(g, program[g].doc[k][key], heap[base[g] + k][key])
  BY <1>2, <1>4, EmptyStack DEF Unvisited, Queued
<1> QED BY <1>5 DEF Mapped

\* No expression is left in a document that is done with.
LEMMA MappedHasNoExprs ==
  ASSUME HeapInv, NEW g \in TaskRuns, stage[g] = "mapping", Mapping(g), Mapped(g), NEW a \in Docs(g)
  PROVE  NoExprs(a)
<1>1. PICK k \in DOMAIN program[g].doc : a = base[g] + k
  BY DEF Docs
<1>2. DOMAIN heap[a] = DOMAIN program[g].doc[k]
  BY <1>1 DEF Mapping
<1>3. copy[g] \in DOMAIN heap /\ copy[g] \notin Plain
  BY DEF HeapInv, RunTyped, Plain
<1>4. NoExprs(copy[g])
  <2>1. ~Interpolating(copy[g])
    BY <1>3 DEF HeapInv, RunTyped, Interpolating, Held
  <2> QED BY <2>1, <1>3 DEF HeapInv, ExprInv
<1>5. ASSUME NEW key \in DOMAIN heap[a]
      PROVE  heap[a][key].expr = NoName
  <2>1. Replaced(g, program[g].doc[k][key], heap[a][key])
    BY <1>1, <1>2 DEF Mapped
  <2> QED BY <2>1, <1>4 DEF Replaced, NoExprs, Decoded, Ref
<1> QED BY <1>5 DEF NoExprs

LEMMA MappedAllKeeps ==
  ASSUME HeapInv, NEW g \in TaskRuns, MappedAll(g)
  PROVE  HeapInv' /\ heap' = heap
<1>1. HeapTyped /\ ExprInv /\ RunTyped(g) /\ PrivateDocs(g) /\ Mapping(g)
  BY DEF HeapInv, DocInv, MappedAll
<1>2. stage[g] = "mapping" /\ stack[g] = <<>> /\ UNCHANGED <<heap, top, program, copy, base, stack>>
  BY DEF MappedAll
<1>3. PICK s \in {"reported", "failed", "merging"} :
        /\ stage' = [stage EXCEPT ![g] = s]
        /\ s = "failed" => rest' = rest
        /\ s = "reported" => program[g].kind = "json" /\ rest' = rest
        /\ s = "merging" => /\ program[g].kind # "json"
                            /\ rest' = [rest EXCEPT ![g] = DOMAIN heap[base[g] + program[g].right]]
                            /\ IntoVariable(program[g]) => /\ program[g].left.expr \in DOMAIN heap[copy[g]]
                                                           /\ heap[copy[g]][program[g].left.expr].ref # 0
  BY Zenon DEF MappedAll, Stage
<1>4. stage'[g] = s /\ \A h \in TaskRuns : h # g => stage'[h] = stage[h] /\ rest'[h] = rest[h]
  BY <1>1, <1>3 DEF HeapTyped
<1>5. StepOf(g)
  <2>1. DOMAIN stage' = TaskRuns /\ DOMAIN rest' = TaskRuns
    BY <1>1, <1>3 DEF HeapTyped
  <2> QED BY <2>1, <1>1, <1>2, <1>4 DEF HeapTyped, StepOf
<1>6. HeapTyped' /\ Writes(g)
  BY <1>2, <1>5, NotStoring
<1>7. Mapped(g)
  BY <1>2, NothingUnvisited
<1>8. ExprInv'
  <2>1. ASSUME NEW a \in DOMAIN heap
        PROVE  Interpolating(a)' \/ NoExprs(a)
    <3>1. CASE a \in Docs(g)
      BY <3>1, <1>1, <1>2, <1>7, MappedHasNoExprs
    <3>2. CASE a \notin Docs(g) /\ Interpolating(a)
      <4>1. PICK h \in TaskRuns : stage[h] \in {"mapping", "failed"} /\ a \in Docs(h)
        BY <3>2 DEF Interpolating
      <4>2. h # g /\ Docs(h)' = Docs(h)
        BY <3>2, <4>1, <1>2 DEF Docs
      <4> QED BY <4>1, <4>2, <1>4 DEF Interpolating
    <3>3. CASE ~Interpolating(a)
      BY <3>3, <1>1 DEF ExprInv
    <3> QED BY <3>1, <3>2, <3>3
  <2> QED BY <2>1, <1>2 DEF ExprInv, NoExprs
<1>9. Held(g) /\ Held(g)' /\ Secret(g) /\ Docs(g)' = Docs(g)
  BY <1>2, <1>3, <1>4 DEF Held, Secret, Docs
<1>10. Keeps(g)
  <2>1. RunTyped(g)'
    <3>1. Plain' = Plain
      BY <1>2, <1>5, SamePlain
    <3>2. copy'[g] \in (DOMAIN heap') \ {top'} /\ program'[g] \in Programs
      BY <1>1, <1>2 DEF RunTyped
    <3>3. base'[g] \in Nat /\ Docs(g)' \subseteq Plain'
      BY <1>1, <1>2, <1>9, <3>1 DEF RunTyped
    <3>4. s \in Stages /\ s # "waiting"
      BY <1>3 DEF Stages
    <3>5. s = "merging" => program[g].kind = "merge" /\ rest'[g] \subseteq DOMAIN heap[base[g] + program[g].right]
      BY <1>1, <1>3, ProgramFacts DEF IsProgram, HeapTyped
    <3>6. s \in {"merging", "reported"} /\ IntoVariable(program[g]) =>
            program[g].left.expr \in DOMAIN heap[copy[g]] /\ heap[copy[g]][program[g].left.expr].ref # 0
      BY <1>3 DEF IntoVariable
    <3> QED BY <3>2, <3>3, <3>4, <3>5, <3>6, <1>2, <1>4, EmptyStack DEF RunTyped
  <2>2. PrivateDocs(g)'
    BY <1>1, <1>2, <1>9 DEF PrivateDocs
  <2>3. DocInv(g)'
    <3>1. Mapped(g)'
      BY <1>2, <1>7 DEF Mapped, Replaced, Decoded
    <3> QED BY <3>1, <1>3, <1>4 DEF DocInv
  <2>4. ItemExprs(g)' /\ StoresTheSame(g)'
    BY <1>2, EmptyStack DEF ItemExprs, StoresTheSame
  <2>5. \A h \in TaskRuns : h # g => Apart(g, h)' /\ Apart(h, g)'
    BY <1>2, <1>5, <1>9, EmptyStack, ApartIsKept
  <2>6. ASSUME ~MergesIntoVariable, NEW h \in TaskRuns, h # g
        PROVE  StoresTheSame(h)'
    BY <2>6, <1>2, <1>5, TheSameIsStored
  <2> QED BY <2>1, <2>2, <2>3, <2>4, <2>5, <2>6 DEF Keeps
<1> QED BY <1>2, <1>5, <1>6, <1>8, <1>10, StepKeepsInv

LEMMA DecodeKeeps ==
  ASSUME HeapInv, NEW g \in TaskRuns, Decode(g)
  PROVE  HeapInv' /\ \A a \in DOMAIN heap : heap'[a] = heap[a]
<1>1. HeapTyped /\ ExprInv /\ RunTyped(g)
  BY DEF HeapInv
<1>2. PICK n, doc : n = Len(heap) /\ doc = program[g].doc
  OBVIOUS
<1>3. n \in Nat /\ DOMAIN heap = 1..n
  BY <1>1, <1>2, SeqFacts DEF HeapTyped
<1>4. IsDocument(doc) /\ Len(doc) \in Nat /\ DOMAIN doc = 1..Len(doc) /\ 1 \in DOMAIN doc
  BY <1>2, ProgramFacts DEF IsProgram
<1> DEFINE Addressed(v) == IF v.ref > 0 THEN Ref(v.ref + n) ELSE v
           objects == [k \in DOMAIN doc |-> [key \in DOMAIN doc[k] |-> Addressed(doc[k][key])]]
<1>5. /\ stage[g] = "decoding" /\ stage' = [stage EXCEPT ![g] = "mapping"]
      /\ base' = [base EXCEPT ![g] = n] /\ heap' = heap \o objects
      /\ stack' = [stack EXCEPT ![g] = <<Item(Ref(n + 1), 0, NoName)>>]
      /\ UNCHANGED <<top, program, copy, rest>>
  BY <1>2 DEF Decode, Stage
<1>6. IsSeq(objects) /\ Len(objects) = Len(doc) /\ DOMAIN objects = DOMAIN doc
  <2>1. DOMAIN objects = 1..Len(doc) /\ objects = [k \in DOMAIN objects |-> objects[k]]
    BY <1>4
  <2> HIDE DEF objects
  <2> QED BY <2>1, <1>4, ToSeq
<1>7. \A k \in DOMAIN doc : /\ DOMAIN objects[k] = DOMAIN doc[k]
                            /\ objects[k] = [key \in DOMAIN objects[k] |-> objects[k][key]]
                            /\ \A key \in DOMAIN doc[k] : objects[k][key] = Addressed(doc[k][key])
  OBVIOUS
<1> HIDE DEF objects
<1>8. /\ IsSeq(heap') /\ DOMAIN heap' = DOMAIN heap \cup {n + k : k \in DOMAIN doc}
      /\ \A a \in DOMAIN heap : heap'[a] = heap[a]
      /\ \A k \in DOMAIN doc : heap'[n + k] = objects[k]
  <2>1. IsSeq(heap)
    BY <1>1 DEF HeapTyped
  <2>2. /\ IsSeq(heap \o objects) /\ Len(heap \o objects) = Len(heap) + Len(objects)
        /\ \A k \in DOMAIN heap : (heap \o objects)[k] = heap[k]
    BY <2>1, <1>6, ConcatFacts
  <2>3. \A k \in DOMAIN objects : (heap \o objects)[Len(heap) + k] = objects[k]
    BY <2>1, <1>6, ConcatRight
  <2>4. DOMAIN heap' = DOMAIN heap \cup {n + k : k \in DOMAIN doc}
    <3>1. DOMAIN heap' = 1..(n + Len(doc))
      BY <2>2, <1>2, <1>5, <1>6, SeqFacts
    <3> QED BY <3>1, <1>3, <1>4, TwoIntervals
  <2>5. IsSeq(heap') /\ \A a \in DOMAIN heap : heap'[a] = heap[a]
    BY <2>2, <1>5
  <2>6. \A k \in DOMAIN doc : heap'[n + k] = objects[k]
    BY <2>3, <1>2, <1>5, <1>6
  <2> QED BY <2>4, <2>5, <2>6
<1>9. /\ stage'[g] = "mapping" /\ base'[g] = n /\ stack'[g] = <<Item(Ref(n + 1), 0, NoName)>>
      /\ StepOf(g)
  BY <1>1, <1>5 DEF HeapTyped, StepOf
<1>10. Docs(g)' = {n + k : k \in DOMAIN doc}
  BY <1>2, <1>5, <1>9 DEF Docs
<1>11. \A k \in DOMAIN doc : n + k \notin DOMAIN heap /\ n + k # 0
  BY <1>3, <1>4
<1>12. Plain' = Plain \cup Docs(g)'
  <2>1. \A h \in TaskRuns : copy[h] \in DOMAIN heap \cup {0}
    BY DEF HeapInv, RunTyped
  <2>2. \A k \in DOMAIN doc : n + k # top /\ \A h \in TaskRuns : n + k # copy[h]
    BY <2>1, <1>1, <1>11 DEF HeapTyped
  <2> QED BY <2>2, <1>5, <1>8, <1>10 DEF Plain
<1>13. \A h \in TaskRuns : Held(h) => Docs(h) \subseteq Plain
  BY DEF HeapInv, RunTyped
<1>14. Plain \subseteq DOMAIN heap /\ 0 \notin DOMAIN heap
  BY <1>3 DEF Plain
<1>15. ASSUME NEW k \in DOMAIN doc, NEW key \in DOMAIN doc[k]
       PROVE  /\ objects[k][key].ref \in {0} \cup Docs(g)'
              /\ objects[k][key].expr # NoName => objects[k][key].ref = 0
  <2>1. PICK v, r : v = doc[k][key] /\ r = v.ref
    OBVIOUS
  <2>2. r \in {0} \cup 2..Len(doc) /\ (v.expr # NoName => r = 0)
    BY <2>1, <1>4 DEF IsDocument, IsObject
  <2>3. objects[k][key] = Addressed(v)
    BY <2>1, <1>7
  <2>4. CASE r > 0
    <3>1. r \in DOMAIN doc /\ r + n = n + r
      BY <2>2, <2>4, <1>3, <1>4
    <3>2. objects[k][key] = Ref(n + r)
      BY <2>1, <2>3, <2>4, <3>1
    <3>3. objects[k][key].ref = n + r /\ objects[k][key].expr = NoName
      BY <3>2 DEF Ref
    <3> QED BY <3>1, <3>3, <1>10
  <2>5. CASE ~(r > 0)
    <3>1. r = 0
      BY <2>2, <2>5, <1>4
    <3> QED BY <2>1, <2>3, <2>5, <3>1
  <2> QED BY <2>4, <2>5
<1>16. HeapTyped'
  <2>1. ASSUME NEW a \in DOMAIN heap'
        PROVE  IsObject(heap'[a], {0} \cup Plain')
    <3>1. CASE a \in DOMAIN heap
      BY <3>1, <1>1, <1>8, <1>12 DEF HeapTyped, IsObject
    <3>2. CASE a \notin DOMAIN heap
      <4>1. PICK k \in DOMAIN doc : heap'[a] = objects[k]
        BY <3>2, <2>1, <1>8
      <4>2. IsFiniteSet(DOMAIN objects[k])
        BY <1>4, <1>7 DEF IsDocument, IsObject
      <4>3. \A key \in DOMAIN objects[k] : /\ objects[k][key].ref \in {0} \cup Plain'
                                           /\ objects[k][key].expr # NoName => objects[k][key].ref = 0
        <5>1. DOMAIN objects[k] = DOMAIN doc[k]
          BY <1>7
        <5> QED BY <5>1, <1>12, <1>15
      <4> QED BY <4>1, <4>2, <4>3, <1>7 DEF IsObject
    <3> QED BY <3>1, <3>2
  <2> QED BY <2>1, <1>1, <1>5, <1>8, <1>9 DEF HeapTyped, StepOf
<1>17. Writes(g)
  <2>1. ASSUME NEW h \in TaskRuns, Secret(h), NEW a \in (DOMAIN heap') \ Docs(h), NEW k \in DOMAIN heap'[a]
        PROVE  heap'[a][k].ref \notin Docs(h)
    <3>1. CASE a \in DOMAIN heap
      BY <2>1, <3>1, <1>8 DEF HeapInv, PrivateDocs
    <3>2. CASE a \notin DOMAIN heap
      <4>1. PICK p \in DOMAIN doc : heap'[a] = objects[p]
        BY <3>2, <2>1, <1>8
      <4>2. heap'[a][k].ref \in {0} \cup Docs(g)'
        <5>1. DOMAIN objects[p] = DOMAIN doc[p]
          BY <1>7
        <5> QED BY <4>1, <5>1, <1>15, <2>1
      <4>3. Docs(h) \subseteq DOMAIN heap
        BY <2>1, <1>13, <1>14, SecretIsHeld
      <4> QED BY <4>2, <4>3, <1>10, <1>11, <1>14
    <3> QED BY <3>1, <3>2
  <2>2. \A h \in TaskRuns : Secret(h) => Docs(h) \subseteq DOMAIN heap
    BY <1>13, <1>14, SecretIsHeld
  <2> QED BY <2>1, <2>2, <1>8, <1>12 DEF Writes
<1>18. ExprInv'
  <2>1. ASSUME NEW a \in DOMAIN heap
        PROVE  Interpolating(a)' \/ NoExprs(a)'
    <3>1. CASE Interpolating(a)
      BY <3>1, <1>5, <1>9, SameInterpolating
    <3>2. CASE NoExprs(a)
      BY <3>2, <1>8 DEF NoExprs
    <3> QED BY <3>1, <3>2, <1>1 DEF ExprInv
  <2>2. \A a \in Docs(g)' : Interpolating(a)'
    BY <1>9 DEF Interpolating
  <2> QED BY <2>1, <2>2, <1>8, <1>10 DEF ExprInv
<1>19. PICK root : root = Item(Ref(n + 1), 0, NoName)
  OBVIOUS
<1>20. root.parent = 0 /\ root.val.ref = n + 1 /\ root.val.expr = NoName
  BY <1>19 DEF Item, Ref
<1>21. IsSeq(stack'[g]) /\ DOMAIN stack'[g] = {1} /\ stack'[g][1] = root
  <2>1. stack'[g] = <<root>>
    BY <1>9, <1>19
  <2> QED BY <2>1, OneItem
<1>22. n + 1 \in Docs(g)'
  BY <1>4, <1>10
<1>23. Held(g)' /\ Secret(g)' /\ \A a \in Docs(g)' : a \notin DOMAIN heap /\ a # 0
  BY <1>9, <1>10, <1>11 DEF Held, Secret
<1>24. Keeps(g)
  <2>1. RunTyped(g)'
    <3>1. copy'[g] \in (DOMAIN heap') \ {top'} /\ program'[g] \in Programs
      BY <1>1, <1>5, <1>8 DEF RunTyped
    <3>2. base'[g] \in Nat /\ Docs(g)' \subseteq Plain'
      BY <1>3, <1>9, <1>12
    <3>3. \A i \in DOMAIN stack'[g] : ItemTyped(stack[g][i])'
      BY <1>12, <1>20, <1>21, <1>22 DEF ItemTyped
    <3> QED BY <3>1, <3>2, <3>3, <1>9, <1>21 DEF RunTyped, Stages
  <2>2. PrivateDocs(g)'
    <3>1. \A a \in DOMAIN heap : \A k \in DOMAIN heap[a] : heap[a][k].ref \in {0} \cup DOMAIN heap
      BY <1>1, <1>14 DEF HeapTyped, IsObject
    <3>2. \A a \in (DOMAIN heap') \ Docs(g)' : a \in DOMAIN heap
      BY <1>8, <1>10
    <3> QED BY <3>1, <3>2, <1>8, <1>23 DEF PrivateDocs
  <2>3. ItemExprs(g)'
    BY <1>20, <1>21 DEF ItemExprs
  <2>4. DocInv(g)'
    <3>1. \A v : Decoded(g, v)' = Addressed(v)
      BY <1>9 DEF Decoded
    <3>2. \A k \in DOMAIN doc : /\ DOMAIN heap'[n + k] = DOMAIN doc[k]
                                /\ \A key \in DOMAIN doc[k] : heap'[n + k][key] = Decoded(g, doc[k][key])'
      <4>1. ASSUME NEW k \in DOMAIN doc, NEW key \in DOMAIN doc[k]
            PROVE  heap'[n + k][key] = Decoded(g, doc[k][key])'
        <5>1. heap'[n + k][key] = Addressed(doc[k][key])
          <6>1. heap'[n + k] = objects[k]
            BY <1>8
          <6>2. objects[k][key] = Addressed(doc[k][key])
            BY <1>7
          <6> QED BY <6>1, <6>2
        <5> QED BY <5>1, <3>1
      <4> QED BY <4>1, <1>7, <1>8
    <3>3. \A i \in DOMAIN stack'[g] : \A k \in DOMAIN doc : stack'[g][i].parent # n + k
      BY <1>11, <1>20, <1>21
    <3>4. Unvisited(g, DOMAIN doc)'
      <4>1. \E i \in DOMAIN stack'[g] : stack'[g][i].val.ref = Root(g)'
        BY <1>9, <1>20, <1>21 DEF Root
      <4>2. ASSUME NEW k \in (DOMAIN doc) \ {1}
            PROVE  \E p \in 1..(k - 1) : \E key \in DOMAIN doc[p] : doc[p][key].ref = k /\ p \in DOMAIN doc
        <5>1. k \in 2..Len(doc)
          BY <1>4
        <5>2. PICK p \in 1..(k - 1) : \E key \in DOMAIN doc[p] : doc[p][key].ref = k
          BY <5>1, <1>4 DEF IsDocument
        <5>3. p \in DOMAIN doc
          BY <5>1, <5>2, <1>4
        <5> QED BY <5>2, <5>3
      <4> QED BY <4>1, <4>2, <1>2, <1>5 DEF Unvisited
    <3>5. Mapping(g)'
      <4>1. \A k \in DOMAIN program'[g].doc :
              /\ DOMAIN heap'[base'[g] + k] = DOMAIN program'[g].doc[k]
              /\ \A key \in DOMAIN program'[g].doc[k] : OnItsWay(g, program[g].doc[k][key], heap[base[g] + k][key])'
        <5>1. program'[g].doc = doc /\ base'[g] = n
          BY <1>2, <1>5, <1>9
        <5>2. ASSUME NEW k \in DOMAIN doc, NEW key \in DOMAIN doc[k]
              PROVE  OnItsWay(g, program[g].doc[k][key], heap[base[g] + k][key])'
          BY <5>1, <3>2 DEF OnItsWay
        <5> QED BY <5>1, <5>2, <3>2
      <4>2. DOMAIN doc \in SUBSET DOMAIN program'[g].doc
        BY <1>2, <1>5
      <4> QED BY <4>1, <4>2, <3>3, <3>4, <1>2, <1>5, <1>9 DEF Mapping
    <3> QED BY <3>5, <1>9 DEF DocInv
  <2>5. ASSUME NEW h \in TaskRuns, h # g
        PROVE  Apart(g, h)' /\ Apart(h, g)'
    <3>1. Held(h)' = Held(h) /\ Docs(h)' = Docs(h) /\ Secret(h)' = Secret(h) /\ stack'[h] = stack[h]
      BY <2>5, <1>9 DEF StepOf, Held, Docs, Secret
    <3>2. Held(h) => Docs(h) \subseteq DOMAIN heap
      BY <1>13, <1>14
    <3>3. \A i \in DOMAIN stack[h] : stack[h][i].parent \in {0} \cup DOMAIN heap /\ stack[h][i].val.ref \in {0} \cup DOMAIN heap
      BY <1>14 DEF HeapInv, RunTyped, ItemTyped
    <3>4. Apart(g, h)'
      BY <3>1, <3>2, <3>3, <1>23 DEF Apart
    <3>5. Apart(h, g)'
      BY <3>1, <3>2, <1>14, <1>20, <1>21, <1>22, <1>23, SecretIsHeld DEF Apart
    <3> QED BY <3>4, <3>5
  <2>6. StoresTheSame(g)'
    BY <1>20, <1>21 DEF StoresTheSame
  <2>7. ASSUME ~MergesIntoVariable, NEW h \in TaskRuns, h # g
        PROVE  StoresTheSame(h)'
    BY <2>7, <1>8, <1>9, <1>14, TheSameIsStored
  <2> QED BY <2>1, <2>2, <2>3, <2>4, <2>5, <2>6, <2>7 DEF Keeps
<1> QED BY <1>8, <1>9, <1>16, <1>17, <1>18, <1>24, StepKeepsInv

-----------------------------------------------------------------------------
(* The visit of an item.                                                     *)

\* MapItem, if the item is no unknown expression.
Visits(g, item, val) ==
  /\ stage[g] = "mapping" /\ stack[g] # <<>>
  /\ item = Head(stack[g]) /\ ~Unknown(g, item.val) /\ val = Lookup(g, item.val)
  /\ IF item.parent = 0 THEN heap' = heap ELSE Put(item.parent, item.key, val)
  /\ \E children \in InAnyOrder(Children(heap', val)) : stack' = [stack EXCEPT ![g] = Tail(@) \o children]
  /\ UNCHANGED <<top, program, stage, copy, base, rest>>

\* An order of a finite set has each of its members.
LEMMA OrderFacts ==
  ASSUME NEW items, IsFiniteSet(items), NEW s \in InAnyOrder(items)
  PROVE  /\ IsSeq(s)
         /\ \A i \in DOMAIN s : s[i] \in items
         /\ \A x \in items : \E i \in DOMAIN s : s[i] = x
<1>1. PICK n \in Nat : n = Cardinality(items)
  BY FS_CardinalityType
<1>2. s \in [1..n -> items] /\ \A i, j \in DOMAIN s : s[i] = s[j] => i = j
  BY <1>1 DEF InAnyOrder
<1>3. IsSeq(s)
  BY <1>2, ToSeq
<1>4. s \in Injection(1..n, items)
  BY <1>2 DEF Injection, IsInjective
<1>5. Cardinality(1..n) = n
  <2>1. 1 \in Int /\ n \in Int
    OBVIOUS
  <2>2. Cardinality(1..n) = IF 1 > n THEN 0 ELSE n - 1 + 1
    BY <2>1, FS_Interval
  <2> QED BY <2>2
<1>6. s \in Surjection(1..n, items)
  BY <1>1, <1>4, <1>5, FS_Injection
<1> QED BY <1>2, <1>3, <1>6 DEF Surjection

\* What is stored and where it may be.
LEMMA VisitValue ==
  ASSUME HeapInv, NEW g \in TaskRuns, NEW item, NEW val, Visits(g, item, val)
  PROVE  /\ 1 \in DOMAIN stack[g] /\ item = stack[g][1] /\ ItemTyped(item)
         /\ val.ref \in {0} \cup Plain /\ val.expr = NoName
         /\ item.val.expr = NoName => val = item.val
         /\ item.val.expr # NoName => item.val.expr \in DOMAIN heap[copy[g]] /\ val = heap[copy[g]][item.val.expr]
         /\ item.parent \notin Docs(g) => val = item.val
         /\ item.parent \notin {0} \cup Docs(g) => val.ref \notin Docs(g)
         /\ \A h \in TaskRuns : h # g /\ Secret(h) => item.parent \notin Docs(h) /\ val.ref \notin Docs(h)
<1>1. RunTyped(g) /\ ItemExprs(g) /\ stage[g] = "mapping"
  BY DEF HeapInv, Visits
<1>2. 1 \in DOMAIN stack[g] /\ item = stack[g][1]
  BY <1>1, TailFacts DEF RunTyped, Visits
<1>3. ItemTyped(item)
  BY <1>1, <1>2 DEF RunTyped
<1>4. item.val.expr = NoName => val = item.val
  BY DEF Visits, Lookup
<1>5. item.val.expr # NoName => item.val.expr \in DOMAIN heap[copy[g]] /\ val = heap[copy[g]][item.val.expr]
  BY DEF Visits, Lookup, Unknown
<1>6. copy[g] \in DOMAIN heap /\ copy[g] \notin Plain
  BY <1>1 DEF RunTyped, Plain
<1>7. \A h \in TaskRuns : Held(h) => copy[g] \notin Docs(h)
  BY <1>6 DEF HeapInv, RunTyped
<1>8. val.ref \in {0} \cup Plain
  <2>1. CASE item.val.expr = NoName
    BY <2>1, <1>3, <1>4 DEF ItemTyped
  <2>2. CASE item.val.expr # NoName
    BY <2>2, <1>5, <1>6 DEF HeapInv, HeapTyped, IsObject
  <2> QED BY <2>1, <2>2
<1>9. val.expr = NoName
  <2>1. ~Interpolating(copy[g])
    BY <1>7 DEF Interpolating, Held
  <2>2. NoExprs(copy[g])
    BY <2>1, <1>6 DEF HeapInv, ExprInv
  <2> QED BY <2>2, <1>4, <1>5 DEF NoExprs
<1>10. item.parent \notin Docs(g) => item.val.expr = NoName /\ (item.parent # 0 => item.val.ref \notin Docs(g))
  BY <1>1, <1>2 DEF ItemExprs
<1>11. ASSUME NEW h \in TaskRuns, h # g, Secret(h)
       PROVE  item.parent \notin Docs(h) /\ val.ref \notin Docs(h)
  <2>1. item.parent \notin Docs(h) /\ item.val.ref \notin Docs(h)
    BY <1>2, <1>11 DEF HeapInv, Apart
  <2>2. CASE item.val.expr = NoName
    BY <2>1, <2>2, <1>4
  <2>3. CASE item.val.expr # NoName
    BY <2>1, <2>3, <1>5, <1>6, <1>7, <1>11, SecretIsHeld DEF HeapInv, PrivateDocs
  <2> QED BY <2>1, <2>2, <2>3
<1> QED BY <1>2, <1>3, <1>4, <1>5, <1>8, <1>9, <1>10, <1>11

\* What it does to the objects.
LEMMA VisitHeap ==
  ASSUME HeapInv, NEW g \in TaskRuns, NEW item, NEW val, Visits(g, item, val)
  PROVE  /\ StepOf(g) /\ HeapTyped' /\ Writes(g) /\ ExprInv'
         /\ DOMAIN heap' = DOMAIN heap /\ Plain' = Plain
         /\ \A a \in DOMAIN heap : DOMAIN heap'[a] = DOMAIN heap[a]
         /\ \A a \in DOMAIN heap : a # item.parent => heap'[a] = heap[a]
         /\ \A a \in DOMAIN heap : \A key \in DOMAIN heap[a] :
              heap'[a][key] = IF a = item.parent /\ key = item.key THEN val ELSE heap[a][key]
<1>1. HeapTyped /\ ExprInv
  BY DEF HeapInv
<1>2. /\ UNCHANGED <<top, program, stage, copy, base, rest>>
      /\ DOMAIN stack' = TaskRuns /\ \A h \in TaskRuns : h # g => stack'[h] = stack[h]
      /\ IF item.parent = 0 THEN heap' = heap ELSE Put(item.parent, item.key, val)
  BY <1>1 DEF Visits, HeapTyped
<1>3. StepOf(g)
  BY <1>1, <1>2 DEF HeapTyped, StepOf
<1>4. 0 \notin DOMAIN heap /\ IsSeq(heap)
  BY <1>1, SeqFacts DEF HeapTyped
<1>5. CASE item.parent = 0
  <2>1. HeapTyped' /\ Writes(g) /\ Plain' = Plain
    BY <1>2, <1>3, <1>5, NotStoring, SamePlain
  <2>2. ExprInv'
    <3>1. \A a : Interpolating(a) => Interpolating(a)'
      BY <1>2, <1>3, SameInterpolating
    <3> QED BY <3>1, <1>1, <1>2, <1>5 DEF ExprInv, NoExprs
  <2> QED BY <2>1, <2>2, <1>2, <1>3, <1>4, <1>5
<1>6. CASE item.parent # 0
  <2>1. item.parent \in Plain /\ item.key \in DOMAIN heap[item.parent]
    BY <1>6, VisitValue DEF ItemTyped
  <2>2. Stores(g, item.parent, val)
    BY <2>1, VisitValue DEF Stores
  <2>3. PICK a, key : a = item.parent /\ key = item.key
    OBVIOUS
  <2>4. Put(a, key, val) /\ Stores(g, a, val)
    BY <2>2, <2>3, <1>2, <1>6
  <2>5. HeapTyped' /\ Writes(g) /\ ExprInv' /\ a \in DOMAIN heap
    BY <2>4, <1>2, <1>3, Storing
  <2>6. /\ DOMAIN heap' = DOMAIN heap
        /\ \A b \in DOMAIN heap : b # a => heap'[b] = heap[b]
        /\ DOMAIN heap'[a] = DOMAIN heap[a] \cup {key}
        /\ heap'[a][key] = val
        /\ \A k \in DOMAIN heap[a] : k # key => heap'[a][k] = heap[a][k]
    <3>1. IsSeq(heap) /\ a \in DOMAIN heap /\ Put(a, key, val)
      BY <2>4, <2>5, <1>4
    <3> QED BY <3>1, PutFacts
  <2>7. Plain' = Plain
    BY <2>6, <1>2, <1>3, SamePlain
  <2>8. key \in DOMAIN heap[a]
    BY <2>1, <2>3
  <2>9. \A b \in DOMAIN heap : DOMAIN heap'[b] = DOMAIN heap[b]
    BY <2>6, <2>8
  <2>10. \A b \in DOMAIN heap : \A k \in DOMAIN heap[b] :
           heap'[b][k] = IF b = a /\ k = key THEN val ELSE heap[b][k]
    BY <2>6
  <2> QED BY <2>3, <2>5, <2>6, <2>7, <2>9, <2>10, <1>3
<1> QED BY <1>5, <1>6

\* What is left to visit.
LEMMA VisitStack ==
  ASSUME HeapInv, NEW g \in TaskRuns, NEW item, NEW val, Visits(g, item, val)
  PROVE  /\ IsSeq(stack'[g])
         /\ \A i \in DOMAIN stack'[g] :
              \/ \E j \in DOMAIN stack[g] : stack'[g][i] = stack[g][j]
              \/ val.ref # 0 /\ \E key \in DOMAIN heap'[val.ref] : stack'[g][i] = Item(heap'[val.ref][key], val.ref, key)
         /\ \A j \in DOMAIN stack[g] : j # 1 => \E i \in DOMAIN stack'[g] : stack'[g][i] = stack[g][j]
         /\ val.ref # 0 => \A key \in DOMAIN heap'[val.ref] :
              \E i \in DOMAIN stack'[g] : stack'[g][i] = Item(heap'[val.ref][key], val.ref, key)
<1>1. PICK items : items = Children(heap', val)
  OBVIOUS
<1>2. PICK children \in InAnyOrder(items) : stack' = [stack EXCEPT ![g] = Tail(@) \o children]
  BY <1>1 DEF Visits
<1>3. PICK left : left = Tail(stack[g])
  OBVIOUS
<1>4. stack'[g] = left \o children
  BY <1>2, <1>3 DEF HeapInv, HeapTyped
<1>5. IsSeq(stack[g]) /\ stack[g] # <<>>
  BY DEF HeapInv, RunTyped, Visits
<1>6. /\ IsSeq(left)
      /\ \A i \in DOMAIN left : \E j \in DOMAIN stack[g] : left[i] = stack[g][j]
      /\ \A j \in DOMAIN stack[g] : j # 1 => \E i \in DOMAIN left : left[i] = stack[g][j]
  BY <1>3, <1>5, TailFacts
<1>7. val.ref # 0 => items = {Item(heap'[val.ref][key], val.ref, key) : key \in DOMAIN heap'[val.ref]}
  BY <1>1 DEF Children
<1>8. val.ref = 0 => items = {}
  BY <1>1 DEF Children
<1>9. IsFiniteSet(items)
  <2>1. CASE val.ref = 0
    BY <2>1, <1>8, FS_EmptySet
  <2>2. CASE val.ref # 0
    <3>1. PICK keys : keys = DOMAIN heap'[val.ref]
      OBVIOUS
    <3>2. IsFiniteSet(keys)
      <4>1. val.ref \in DOMAIN heap' /\ HeapTyped'
        BY <2>2, VisitValue, VisitHeap DEF Plain
      <4> QED BY <3>1, <4>1 DEF HeapTyped, IsObject
    <3>3. PICK f : f = [key \in keys |-> Item(heap'[val.ref][key], val.ref, key)]
      OBVIOUS
    <3>4. f \in Surjection(keys, items)
      <4>1. items = {f[key] : key \in keys}
        BY <2>2, <1>7, <3>1, <3>3
      <4>2. f \in [keys -> items]
        BY <3>3, <4>1
      <4> QED BY <4>1, <4>2 DEF Surjection
    <3> QED BY <3>2, <3>4, FS_Surjection
  <2> QED BY <2>1, <2>2
<1>10. /\ IsSeq(children)
       /\ \A i \in DOMAIN children : children[i] \in items
       /\ \A x \in items : \E i \in DOMAIN children : children[i] = x
  BY <1>9, OrderFacts
<1>11. PICK s : s = left \o children
  OBVIOUS
<1>12. IsSeq(s) /\ Len(s) = Len(left) + Len(children) /\ \A i \in DOMAIN left : s[i] = left[i]
  BY <1>6, <1>10, <1>11, ConcatFacts
<1>13. \A i \in DOMAIN children : s[Len(left) + i] = children[i]
  BY <1>6, <1>10, <1>11, ConcatRight
<1>14. /\ DOMAIN left \subseteq DOMAIN s /\ \A i \in DOMAIN children : Len(left) + i \in DOMAIN s
       /\ \A j \in DOMAIN s : j \in DOMAIN left \/ \E i \in DOMAIN children : j = Len(left) + i
  <2>1. /\ DOMAIN left = 1..Len(left) /\ Len(left) \in Nat
        /\ DOMAIN children = 1..Len(children) /\ Len(children) \in Nat
        /\ DOMAIN s = 1..(Len(left) + Len(children))
    BY <1>6, <1>10, <1>12, SeqFacts
  <2>2. PICK m \in Nat, n \in Nat : m = Len(left) /\ n = Len(children)
    BY <2>1
  <2>3. DOMAIN left = 1..m /\ DOMAIN children = 1..n /\ DOMAIN s = 1..(m + n)
    BY <2>1, <2>2
  <2>4. DOMAIN s = 1..m \cup {m + k : k \in 1..n}
    BY <2>3, TwoIntervals
  <2>5. \A j \in DOMAIN s : j \in DOMAIN left \/ \E i \in DOMAIN children : j = m + i
    BY <2>3, <2>4
  <2>6. DOMAIN left \subseteq DOMAIN s /\ \A i \in DOMAIN children : m + i \in DOMAIN s
    BY <2>3, <2>4
  <2> QED BY <2>2, <2>5, <2>6
<1>15. \A j \in DOMAIN s : \/ \E i \in DOMAIN left : s[j] = left[i]
                           \/ \E i \in DOMAIN children : s[j] = children[i]
  BY <1>12, <1>13, <1>14
<1>16. /\ \A i \in DOMAIN left : \E j \in DOMAIN s : s[j] = left[i]
       /\ \A i \in DOMAIN children : \E j \in DOMAIN s : s[j] = children[i]
  BY <1>12, <1>13, <1>14
<1>17. stack'[g] = s
  BY <1>4, <1>11
<1>18. ASSUME NEW i \in DOMAIN s
       PROVE  \/ \E j \in DOMAIN stack[g] : s[i] = stack[g][j]
              \/ val.ref # 0 /\ \E key \in DOMAIN heap'[val.ref] : s[i] = Item(heap'[val.ref][key], val.ref, key)
  <2>1. CASE \E j \in DOMAIN left : s[i] = left[j]
    BY <2>1, <1>6
  <2>2. CASE \E j \in DOMAIN children : s[i] = children[j]
    <3>1. s[i] \in items
      BY <2>2, <1>10
    <3>2. val.ref # 0
      BY <3>1, <1>8
    <3> QED BY <3>1, <3>2, <1>7
  <2> QED BY <2>1, <2>2, <1>15
<1>19. \A j \in DOMAIN stack[g] : j # 1 => \E i \in DOMAIN s : s[i] = stack[g][j]
  BY <1>6, <1>16
<1>20. ASSUME val.ref # 0, NEW key \in DOMAIN heap'[val.ref]
       PROVE  \E i \in DOMAIN s : s[i] = Item(heap'[val.ref][key], val.ref, key)
  <2>1. Item(heap'[val.ref][key], val.ref, key) \in items
    BY <1>7, <1>20
  <2>2. \A x \in items : \E i \in DOMAIN s : s[i] = x
    BY <1>10, <1>16
  <2> QED BY <2>1, <2>2
<1> QED BY <1>12, <1>17, <1>18, <1>19, <1>20

\* The item holds the value of its place, and what is stored replaces it.
LEMMA VisitReplaces ==
  ASSUME HeapInv, NEW g \in TaskRuns, NEW item, NEW val, Visits(g, item, val),
         NEW k \in DOMAIN program[g].doc, item.parent = base[g] + k
  PROVE  /\ item.key \in DOMAIN program[g].doc[k]
         /\ Replaced(g, program[g].doc[k][item.key], val)
         /\ program[g].doc[k][item.key].ref > 0 => val = Ref(program[g].doc[k][item.key].ref + base[g])
<1>1. Mapping(g)
  BY DEF HeapInv, DocInv, Visits
<1>2. PICK key, v : key = item.key /\ v = program[g].doc[k][key]
  OBVIOUS
<1>3. 1 \in DOMAIN stack[g] /\ item = stack[g][1]
  BY VisitValue
<1>4. key \in DOMAIN program[g].doc[k] /\ OnItsWay(g, v, item.val)
  BY <1>1, <1>2, <1>3 DEF Mapping
<1>5. /\ item.val.expr = NoName => val = item.val
      /\ item.val.expr # NoName => item.val.expr \in DOMAIN heap[copy[g]] /\ val = heap[copy[g]][item.val.expr]
  BY VisitValue
<1>6. v.ref \in Nat /\ (v.expr # NoName => v.ref = 0)
  <2>1. IsDocument(program[g].doc) /\ Len(program[g].doc) \in Nat
    BY ProgramFacts DEF IsProgram
  <2>2. IsObject(program[g].doc[k], {0} \cup 2..Len(program[g].doc))
    BY <2>1 DEF IsDocument
  <2>3. v.ref \in {0} \cup 2..Len(program[g].doc) /\ (v.expr # NoName => v.ref = 0)
    BY <2>2, <1>2, <1>4 DEF IsObject
  <2> QED BY <2>1, <2>3
<1>7. CASE v.expr = NoName
  <2>1. item.val = Decoded(g, v)
    BY <1>4, <1>7 DEF OnItsWay, Replaced
  <2>2. item.val.expr = NoName
    BY <2>1, <1>7 DEF Decoded, Ref
  <2>3. val = Decoded(g, v)
    BY <2>1, <2>2, <1>5
  <2> QED BY <2>3, <1>2, <1>4, <1>7 DEF Replaced, Decoded
<1>8. CASE v.expr # NoName
  <2>1. v.ref = 0 /\ ~(v.ref > 0)
    BY <1>6, <1>8
  <2>2. Decoded(g, v) = v
    BY <2>1 DEF Decoded
  <2>3. CASE item.val = v
    BY <2>1, <2>3, <1>2, <1>4, <1>5, <1>8 DEF Replaced
  <2>4. CASE item.val # v
    <3>1. v.expr \in DOMAIN heap[copy[g]] /\ item.val = heap[copy[g]][v.expr]
      BY <2>2, <2>4, <1>4, <1>8 DEF OnItsWay, Replaced
    <3>2. NoExprs(copy[g])
      <4>1. copy[g] \in DOMAIN heap /\ copy[g] \notin Plain
        BY DEF HeapInv, RunTyped, Visits, Plain
      <4>2. ~Interpolating(copy[g])
        BY <4>1 DEF HeapInv, RunTyped, Interpolating, Held
      <4> QED BY <4>1, <4>2 DEF HeapInv, ExprInv
    <3>3. item.val.expr = NoName
      BY <3>1, <3>2 DEF NoExprs
    <3>4. val = heap[copy[g]][v.expr]
      BY <3>1, <3>3, <1>5
    <3> QED BY <3>1, <3>4, <2>1, <1>2, <1>4, <1>8 DEF Replaced
  <2> QED BY <2>3, <2>4
<1> QED BY <1>7, <1>8

LEMMA VisitDocInv ==
  ASSUME HeapInv, NEW g \in TaskRuns, NEW item, NEW val, Visits(g, item, val)
  PROVE  DocInv(g)'
<1>1. /\ stage[g] = "mapping" /\ UNCHANGED <<top, program, stage, copy, base, rest>>
      /\ Mapping(g) /\ RunTyped(g)
  BY DEF HeapInv, DocInv, Visits
<1>2. PICK doc, n : doc = program[g].doc /\ n = base[g]
  OBVIOUS
<1>3. /\ DOMAIN doc = 1..Len(doc) /\ Len(doc) \in Nat /\ n \in Nat
      /\ \A k \in DOMAIN doc : n + k \in DOMAIN heap
  <2>1. Held(g)
    BY <1>1 DEF Held
  <2>2. n \in Nat /\ Docs(g) \subseteq DOMAIN heap
    BY <2>1, <1>1, <1>2 DEF RunTyped, Plain
  <2> QED BY <2>2, <1>2, ProgramFacts DEF Docs
<1>4. program'[g].doc = doc /\ base'[g] = n
  BY <1>1, <1>2
<1>5. heap'[copy[g]] = heap[copy[g]]
  <2>1. copy[g] # 0
    <3>1. 0 \notin DOMAIN heap
      BY SeqFacts DEF HeapInv, HeapTyped
    <3> QED BY <3>1, <1>1 DEF RunTyped
  <2> QED BY <2>1, VisitHeap, CopiesAreKept
<1>6. /\ \A v, x : Replaced(g, v, x)' <=> Replaced(g, v, x)
      /\ \A v, x : OnItsWay(g, v, x)' <=> OnItsWay(g, v, x)
  BY <1>1, <1>5 DEF Replaced, OnItsWay, Decoded
<1>7. \A k \in DOMAIN doc : DOMAIN heap[n + k] = DOMAIN doc[k] /\ DOMAIN heap'[n + k] = DOMAIN doc[k]
  <2>1. \A k \in DOMAIN doc : DOMAIN heap[n + k] = DOMAIN doc[k]
    BY <1>1, <1>2 DEF Mapping
  <2> QED BY <2>1, <1>3, VisitHeap
\* What is stored into the document replaces what was there.
<1>8. ASSUME NEW k \in DOMAIN doc, NEW key \in DOMAIN doc[k]
      PROVE  /\ item.parent = n + k /\ item.key = key => Replaced(g, doc[k][key], heap'[n + k][key])
             /\ ~(item.parent = n + k /\ item.key = key) => heap'[n + k][key] = heap[n + k][key]
  <2>1. heap'[n + k][key] = IF n + k = item.parent /\ key = item.key THEN val ELSE heap[n + k][key]
    BY <1>3, <1>7, VisitHeap
  <2>2. item.parent = n + k => Replaced(g, doc[k][item.key], val)
    BY <1>2, VisitReplaces
  <2> QED BY <2>1, <2>2
<1>9. \A k \in DOMAIN doc : \A key \in DOMAIN doc[k] : OnItsWay(g, doc[k][key], heap'[n + k][key])
  <2>1. \A k \in DOMAIN doc : \A key \in DOMAIN doc[k] : OnItsWay(g, doc[k][key], heap[n + k][key])
    BY <1>1, <1>2 DEF Mapping
  <2> QED BY <2>1, <1>8 DEF OnItsWay
\* Each item is an old one but the first, or an entry of the object of the value.
<1>10. ASSUME NEW i \in DOMAIN stack'[g], NEW k \in DOMAIN doc, stack'[g][i].parent = n + k
       PROVE  stack'[g][i].key \in DOMAIN doc[k] /\ OnItsWay(g, doc[k][stack'[g][i].key], stack'[g][i].val)
  <2>1. CASE \E j \in DOMAIN stack[g] : stack'[g][i] = stack[g][j]
    BY <2>1, <1>1, <1>2, <1>10 DEF Mapping
  <2>2. CASE val.ref # 0 /\ \E key \in DOMAIN heap'[val.ref] : stack'[g][i] = Item(heap'[val.ref][key], val.ref, key)
    <3>1. PICK key \in DOMAIN heap'[val.ref] : stack'[g][i] = Item(heap'[val.ref][key], val.ref, key)
      BY <2>2
    <3>2. /\ stack'[g][i].parent = val.ref /\ stack'[g][i].key = key
          /\ stack'[g][i].val = heap'[val.ref][key]
      BY <3>1 DEF Item
    <3>3. val.ref = n + k /\ key \in DOMAIN doc[k]
      BY <3>2, <1>7, <1>10
    <3> QED BY <3>2, <3>3, <1>9
  <2> QED BY <2>1, <2>2, VisitStack
<1>11. \A a, key : Queued(g, a, key) => Queued(g, a, key)' \/ (item.parent = a /\ item.key = key)
  <2>1. item = stack[g][1]
    BY VisitValue
  <2>2. ASSUME NEW a, NEW key, Queued(g, a, key), ~(item.parent = a /\ item.key = key)
        PROVE  Queued(g, a, key)'
    <3>1. PICK j \in DOMAIN stack[g] : stack[g][j].parent = a /\ stack[g][j].key = key
      BY <2>2 DEF Queued
    <3>2. j # 1
      BY <3>1, <2>1, <2>2
    <3>3. PICK i \in DOMAIN stack'[g] : stack'[g][i] = stack[g][j]
      BY <3>1, <3>2, VisitStack
    <3> QED BY <3>1, <3>3 DEF Queued
  <2> QED BY <2>2
<1>12. ASSUME NEW k \in DOMAIN doc, val.ref = n + k, NEW key \in DOMAIN doc[k]
       PROVE  Queued(g, n + k, key)'
  <2>1. val.ref # 0 /\ key \in DOMAIN heap'[val.ref]
    BY <1>3, <1>7, <1>12
  <2>2. PICK i \in DOMAIN stack'[g] : stack'[g][i] = Item(heap'[val.ref][key], val.ref, key)
    BY <2>1, VisitStack
  <2>3. stack'[g][i].parent = n + k /\ stack'[g][i].key = key
    BY <2>2, <1>12 DEF Item
  <2> QED BY <2>3 DEF Queued
<1>13. PICK S \in SUBSET DOMAIN doc : Unvisited(g, S)
  BY <1>1, <1>2 DEF Mapping
<1>14. PICK T \in SUBSET DOMAIN doc : T = {k \in S : val.ref # n + k}
  OBVIOUS
<1>15. Unvisited(g, T)'
  <2>1. ASSUME 1 \in T
        PROVE  \E i \in DOMAIN stack'[g] : stack'[g][i].val.ref = n + 1
    <3>1. PICK j \in DOMAIN stack[g] : stack[g][j].val.ref = n + 1
      BY <2>1, <1>2, <1>13, <1>14 DEF Unvisited, Root
    <3>2. j # 1
      <4> SUFFICES ASSUME j = 1 PROVE FALSE
        OBVIOUS
      <4>1. item.val.ref = n + 1 /\ n + 1 # 0
        BY <3>1, <1>3, VisitValue
      <4>2. val = item.val
        BY <4>1, VisitValue DEF ItemTyped
      <4> QED BY <4>1, <4>2, <2>1, <1>14
    <3> QED BY <3>1, <3>2, VisitStack
  <2>2. ASSUME NEW k \in T \ {1}
        PROVE  \E p \in 1..(k - 1) : \E key \in DOMAIN doc[p] :
                 doc[p][key].ref = k /\ (p \in T \/ Queued(g, n + p, key)')
    <3>0. PICK p \in 1..(k - 1) : \E key \in DOMAIN doc[p] :
            doc[p][key].ref = k /\ (p \in S \/ Queued(g, n + p, key))
      BY <2>2, <1>2, <1>13, <1>14 DEF Unvisited
    <3>1. PICK key \in DOMAIN doc[p] : doc[p][key].ref = k /\ (p \in S \/ Queued(g, n + p, key))
      BY <3>0
    <3>2. k \in DOMAIN doc /\ p \in DOMAIN doc /\ k > 0
      BY <3>1, <2>2, <1>3
    <3>3. CASE p \in S
      <4>1. p \in T \/ val.ref = n + p
        BY <3>3, <1>14
      <4>2. p \in T \/ Queued(g, n + p, key)'
        BY <4>1, <3>1, <3>2, <1>12
      <4> QED BY <4>2, <3>1
    <3>4. CASE Queued(g, n + p, key)
      <4>1. ~(item.parent = n + p /\ item.key = key)
        <5> SUFFICES ASSUME item.parent = n + p, item.key = key PROVE FALSE
          OBVIOUS
        <5>1. val = Ref(k + n)
          BY <3>1, <3>2, <1>2, VisitReplaces
        <5>2. val.ref = n + k
          BY <5>1, <3>2, <1>3 DEF Ref
        <5> QED BY <5>2, <2>2, <1>14
      <4>2. Queued(g, n + p, key)'
        BY <4>1, <3>4, <1>11
      <4> QED BY <4>2, <3>1
    <3> QED BY <3>1, <3>3, <3>4
  <2>3. ASSUME NEW k \in (DOMAIN doc) \ T, NEW key \in DOMAIN doc[k]
        PROVE  Replaced(g, doc[k][key], heap'[n + k][key]) \/ Queued(g, n + k, key)'
    <3>1. CASE k \in S
      BY <3>1, <2>3, <1>12, <1>14
    <3>2. CASE k \notin S
      <4>1. Replaced(g, doc[k][key], heap[n + k][key]) \/ Queued(g, n + k, key)
        BY <3>2, <2>3, <1>2, <1>13 DEF Unvisited
      <4>2. CASE item.parent = n + k /\ item.key = key
        BY <4>2, <2>3, <1>8
      <4>3. CASE ~(item.parent = n + k /\ item.key = key)
        BY <4>1, <4>3, <2>3, <1>8, <1>11
      <4> QED BY <4>2, <4>3
    <3> QED BY <3>1, <3>2
  <2>4. Root(g)' = n + 1
    BY <1>4 DEF Root
  <2>5. \A k \in (DOMAIN doc) \ T : \A key \in DOMAIN doc[k] :
          Replaced(g, program[g].doc[k][key], heap[base[g] + k][key])' \/ Queued(g, base[g] + k, key)'
    BY <2>3, <1>4, <1>6
  <2> QED BY <2>1, <2>2, <2>4, <2>5, <1>4 DEF Unvisited
<1>16. Mapping(g)'
  <2>1. ASSUME NEW k \in DOMAIN doc, NEW key \in DOMAIN doc[k]
        PROVE  OnItsWay(g, program[g].doc[k][key], heap[base[g] + k][key])'
    BY <1>4, <1>6, <1>9
  <2>2. ASSUME NEW i \in DOMAIN stack'[g], NEW k \in DOMAIN doc, stack'[g][i].parent = n + k
        PROVE  /\ stack'[g][i].key \in DOMAIN doc[k]
               /\ OnItsWay(g, program[g].doc[k][stack[g][i].key], stack[g][i].val)'
    BY <2>2, <1>4, <1>6, <1>10
  <2> QED BY <2>1, <2>2, <1>4, <1>7, <1>15 DEF Mapping
<1> QED BY <1>1, <1>16 DEF DocInv

LEMMA VisitKeeps ==
  ASSUME HeapInv, NEW g \in TaskRuns, NEW item, NEW val, Visits(g, item, val)
  PROVE  /\ HeapInv' /\ Writes(g) /\ Secret(g)
         /\ ~MergesIntoVariable => \A a \in DOMAIN heap : heap'[a] # heap[a] => a \in Docs(g)
<1>1. stage[g] = "mapping" /\ UNCHANGED <<top, program, stage, copy, base, rest>>
  BY DEF Visits
<1>2. HeapTyped /\ ExprInv /\ RunTyped(g) /\ PrivateDocs(g) /\ ItemExprs(g)
  BY DEF HeapInv
<1>3. /\ StepOf(g) /\ HeapTyped' /\ Writes(g) /\ ExprInv'
      /\ DOMAIN heap' = DOMAIN heap /\ Plain' = Plain
      /\ \A a \in DOMAIN heap : DOMAIN heap'[a] = DOMAIN heap[a]
      /\ \A a \in DOMAIN heap : a # item.parent => heap'[a] = heap[a]
      /\ \A a \in DOMAIN heap : \A key \in DOMAIN heap[a] :
           heap'[a][key] = IF a = item.parent /\ key = item.key THEN val ELSE heap[a][key]
  BY VisitHeap
<1>4. /\ 1 \in DOMAIN stack[g] /\ item = stack[g][1] /\ ItemTyped(item)
      /\ val.ref \in {0} \cup Plain /\ val.expr = NoName
      /\ item.parent \notin Docs(g) => val = item.val
      /\ item.parent \notin {0} \cup Docs(g) => val.ref \notin Docs(g)
      /\ \A h \in TaskRuns : h # g /\ Secret(h) => item.parent \notin Docs(h) /\ val.ref \notin Docs(h)
  BY VisitValue
<1>5. Held(g) /\ Held(g)' /\ Secret(g) /\ Secret(g)' /\ Docs(g)' = Docs(g)
  BY <1>1 DEF Held, Secret, Docs
<1>6. Plain \subseteq DOMAIN heap /\ 0 \notin DOMAIN heap
  BY <1>2, SeqFacts DEF Plain, HeapTyped
<1>7. Docs(g) \subseteq Plain /\ copy[g] \notin Plain /\ copy[g] \in (DOMAIN heap) \ {top}
  BY <1>1, <1>2, <1>5 DEF RunTyped, Plain
\* The items queued are the entries of an object in use.
<1>8. ASSUME NEW i \in DOMAIN stack'[g], ~\E j \in DOMAIN stack[g] : stack'[g][i] = stack[g][j]
      PROVE  /\ val.ref \in Plain /\ stack'[g][i].parent = val.ref /\ stack'[g][i].key \in DOMAIN heap'[val.ref]
             /\ stack'[g][i].val = heap'[val.ref][stack'[g][i].key]
  <2>1. val.ref # 0 /\ \E key \in DOMAIN heap'[val.ref] : stack'[g][i] = Item(heap'[val.ref][key], val.ref, key)
    BY <1>8, VisitStack
  <2> QED BY <2>1, <1>4 DEF Item
<1>9. PrivateDocs(g)'
  <2>1. ASSUME NEW a \in (DOMAIN heap) \ Docs(g), NEW key \in DOMAIN heap[a]
        PROVE  heap'[a][key].ref \notin Docs(g)
    <3>1. heap[a][key].ref \notin Docs(g)
      BY <2>1, <1>2, <1>5 DEF PrivateDocs
    <3>2. a = item.parent => val.ref \notin Docs(g)
      BY <2>1, <1>4, <1>6
    <3> QED BY <3>1, <3>2, <1>3
  <2> QED BY <2>1, <1>3, <1>5 DEF PrivateDocs
<1>10. RunTyped(g)'
  <2>1. ASSUME NEW i \in DOMAIN stack'[g]
        PROVE  ItemTyped(stack[g][i])'
    <3>1. CASE \E j \in DOMAIN stack[g] : stack'[g][i] = stack[g][j]
      <4>1. PICK j \in DOMAIN stack[g] : stack'[g][i] = stack[g][j]
        BY <3>1
      <4>2. ItemTyped(stack[g][j])
        BY <1>2 DEF RunTyped
      <4> QED BY <4>1, <4>2, <1>3, <1>6 DEF ItemTyped
    <3>2. CASE ~\E j \in DOMAIN stack[g] : stack'[g][i] = stack[g][j]
      <4>1. /\ val.ref \in Plain /\ stack'[g][i].parent = val.ref /\ stack'[g][i].key \in DOMAIN heap'[val.ref]
            /\ stack'[g][i].val = heap'[val.ref][stack'[g][i].key]
        BY <3>2, <1>8
      <4>2. IsObject(heap'[val.ref], {0} \cup Plain)
        BY <4>1, <1>3, <1>6 DEF HeapTyped
      <4>3. /\ stack'[g][i].val.ref \in {0} \cup Plain
            /\ stack'[g][i].val.expr # NoName => stack'[g][i].val.ref = 0
        BY <4>1, <4>2 DEF IsObject
      <4> QED BY <4>1, <4>3, <1>3 DEF ItemTyped
    <3> QED BY <3>1, <3>2
  <2>2. IsSeq(stack'[g])
    BY VisitStack
  <2>3. base'[g] \in Nat /\ Docs(g)' \subseteq Plain' /\ program'[g] \in Programs
    BY <1>1, <1>2, <1>3, <1>5, <1>7 DEF RunTyped
  <2>4. stage'[g] = "mapping" /\ copy'[g] \in (DOMAIN heap') \ {top'}
    BY <1>1, <1>3, <1>7
  <2> QED BY <2>1, <2>2, <2>3, <2>4 DEF RunTyped, Stages
<1>11. ItemExprs(g)'
  <2>1. ASSUME NEW i \in DOMAIN stack'[g], stack'[g][i].parent \notin Docs(g)
        PROVE  /\ stack'[g][i].val.expr = NoName
               /\ stack'[g][i].parent # 0 => stack'[g][i].val.ref \notin Docs(g)
    <3>1. CASE \E j \in DOMAIN stack[g] : stack'[g][i] = stack[g][j]
      BY <2>1, <3>1, <1>2 DEF ItemExprs
    <3>2. CASE ~\E j \in DOMAIN stack[g] : stack'[g][i] = stack[g][j]
      <4>1. /\ val.ref \in Plain /\ stack'[g][i].parent = val.ref /\ stack'[g][i].key \in DOMAIN heap'[val.ref]
            /\ stack'[g][i].val = heap'[val.ref][stack'[g][i].key]
        BY <3>2, <1>8
      <4>2. val.ref \in DOMAIN heap' /\ val.ref \notin Docs(g)
        BY <2>1, <4>1, <1>3, <1>6
      <4>3. ~Interpolating(val.ref)'
        <5> SUFFICES ASSUME NEW h \in TaskRuns, stage'[h] \in {"mapping", "failed"}, val.ref \in Docs(h)'
                     PROVE  FALSE
          BY DEF Interpolating
        <5>1. h # g
          BY <4>2, <1>5
        <5>2. Secret(h) /\ val.ref \in Docs(h)
          BY <1>1 DEF Secret, Docs
        <5> QED BY <5>1, <5>2, <1>4
      <4>4. NoExprs(val.ref)'
        BY <4>2, <4>3, <1>3 DEF ExprInv
      <4>5. stack'[g][i].val.expr = NoName
        BY <4>1, <4>4 DEF NoExprs
      <4>6. stack'[g][i].val.ref \notin Docs(g)
        BY <4>1, <4>2, <1>5, <1>9 DEF PrivateDocs
      <4> QED BY <4>5, <4>6
    <3> QED BY <3>1, <3>2
  <2> QED BY <2>1, <1>5 DEF ItemExprs
<1>12. ASSUME NEW h \in TaskRuns, h # g
       PROVE  Apart(g, h)' /\ Apart(h, g)'
  <2>1. ASSUME Secret(h), NEW i \in DOMAIN stack'[g]
        PROVE  stack'[g][i].parent \notin Docs(h) /\ stack'[g][i].val.ref \notin Docs(h)
    <3>1. CASE \E j \in DOMAIN stack[g] : stack'[g][i] = stack[g][j]
      BY <2>1, <3>1, <1>12 DEF HeapInv, Apart
    <3>2. CASE ~\E j \in DOMAIN stack[g] : stack'[g][i] = stack[g][j]
      <4>1. /\ val.ref \in Plain /\ stack'[g][i].parent = val.ref /\ stack'[g][i].key \in DOMAIN heap'[val.ref]
            /\ stack'[g][i].val = heap'[val.ref][stack'[g][i].key]
        BY <3>2, <1>8
      <4>2. val.ref \notin Docs(h) /\ val.ref \in DOMAIN heap'
        BY <2>1, <4>1, <1>3, <1>4, <1>6, <1>12
      <4>3. heap'[val.ref][stack'[g][i].key].ref \notin Docs(h)
        BY <2>1, <4>1, <4>2, <1>3, <1>12 DEF Writes
      <4> QED BY <4>1, <4>2, <4>3
    <3> QED BY <3>1, <3>2
  <2> QED BY <2>1, <1>1, <1>3, <1>5, <1>12, ApartIsKept
\* What is stored outside the document is what was there.
<1>13. ASSUME ~MergesIntoVariable, NEW a \in DOMAIN heap, heap'[a] # heap[a]
       PROVE  a \in Docs(g)
  <2> SUFFICES ASSUME a \notin Docs(g) PROVE FALSE
    OBVIOUS
  <2>1. a = item.parent
    BY <1>3, <1>13
  <2>2. a # 0 /\ val = item.val
    BY <2>1, <1>4, <1>6
  <2>3. heap[a][item.key] = val
    BY <2>1, <2>2, <1>4, <1>13 DEF HeapInv, StoresTheSame
  <2>4. \A key \in DOMAIN heap[a] : heap'[a][key] = heap[a][key]
    BY <2>1, <2>3, <1>3
  <2>5. heap[a] = [key \in DOMAIN heap[a] |-> heap[a][key]] /\ heap'[a] = [key \in DOMAIN heap'[a] |-> heap'[a][key]]
    BY <1>2, <1>3 DEF HeapTyped, IsObject
  <2>6. heap'[a] = heap[a]
    BY <2>4, <2>5, <1>3
  <2> QED BY <2>6, <1>13
<1>14. ASSUME ~MergesIntoVariable, NEW h \in TaskRuns
       PROVE  StoresTheSame(h)'
  <2>1. CASE h # g
    BY <2>1, <1>3, <1>5, <1>6, <1>13, <1>14, TheSameIsStored
  <2>2. CASE h = g
    <3>1. ASSUME NEW i \in DOMAIN stack'[g], stack'[g][i].parent \notin {0} \cup Docs(g)
          PROVE  heap'[stack'[g][i].parent][stack'[g][i].key] = stack'[g][i].val
      <4>1. CASE \E j \in DOMAIN stack[g] : stack'[g][i] = stack[g][j]
        <5>1. PICK j \in DOMAIN stack[g] : stack'[g][i] = stack[g][j]
          BY <4>1
        <5>2. heap[stack[g][j].parent][stack[g][j].key] = stack[g][j].val
          BY <3>1, <5>1, <1>14 DEF HeapInv, StoresTheSame
        <5>3. stack[g][j].parent \in DOMAIN heap
          BY <3>1, <5>1, <1>2, <1>6 DEF RunTyped, ItemTyped
        <5>4. heap'[stack[g][j].parent] = heap[stack[g][j].parent]
          BY <3>1, <5>1, <5>3, <1>13, <1>14
        <5> QED BY <5>1, <5>2, <5>4
      <4>2. CASE ~\E j \in DOMAIN stack[g] : stack'[g][i] = stack[g][j]
        BY <4>2, <1>8
      <4> QED BY <4>1, <4>2
    <3> QED BY <3>1, <2>2, <1>5 DEF StoresTheSame
  <2> QED BY <2>1, <2>2
<1>15. Keeps(g)
  BY <1>9, <1>10, <1>11, <1>12, <1>14, VisitDocInv DEF Keeps
<1> QED BY <1>3, <1>5, <1>13, <1>15, StepKeepsInv

\* An unknown expression.
LEMMA UnknownKeeps ==
  ASSUME HeapInv, NEW g \in TaskRuns, MapItem(g), Unknown(g, Head(stack[g]).val)
  PROVE  HeapInv' /\ heap' = heap
<1>1. HeapTyped /\ ExprInv /\ RunTyped(g) /\ PrivateDocs(g) /\ ItemExprs(g)
  BY DEF HeapInv
<1>2. /\ stage[g] = "mapping" /\ stage' = [stage EXCEPT ![g] = "failed"]
      /\ UNCHANGED <<heap, top, program, copy, base, stack, rest>>
  BY DEF MapItem, Stage
<1>3. StepOf(g) /\ stage'[g] = "failed"
  BY <1>1, <1>2 DEF HeapTyped, StepOf
<1>4. HeapTyped' /\ Writes(g) /\ Plain' = Plain
  BY <1>2, <1>3, NotStoring, SamePlain
<1>5. ExprInv'
  <2>1. \A a : Interpolating(a) => Interpolating(a)'
    BY <1>2, <1>3, SameInterpolating
  <2> QED BY <2>1, <1>1, <1>2 DEF ExprInv, NoExprs
<1>6. Held(g) /\ Held(g)' /\ Secret(g) /\ Secret(g)' /\ Docs(g)' = Docs(g)
  BY <1>2, <1>3 DEF Held, Secret, Docs
<1>7. RunTyped(g)'
  <2>1. base'[g] \in Nat /\ Docs(g)' \subseteq Plain' /\ program'[g] \in Programs /\ copy'[g] \in (DOMAIN heap') \ {top'}
    BY <1>1, <1>2, <1>4, <1>6 DEF RunTyped
  <2>2. IsSeq(stack'[g]) /\ \A i \in DOMAIN stack'[g] : ItemTyped(stack[g][i])'
    BY <1>1, <1>2, <1>4 DEF RunTyped, ItemTyped
  <2> QED BY <2>1, <2>2, <1>3 DEF RunTyped, Stages
<1>8. PrivateDocs(g)' /\ ItemExprs(g)' /\ DocInv(g)'
  BY <1>1, <1>2, <1>3, <1>6 DEF PrivateDocs, ItemExprs, DocInv
<1>9. \A h \in TaskRuns : h # g => Apart(g, h)' /\ Apart(h, g)'
  <2>1. ASSUME NEW h \in TaskRuns, h # g, Secret(h)
        PROVE  \A i \in DOMAIN stack'[g] : stack'[g][i].parent \notin Docs(h) /\ stack'[g][i].val.ref \notin Docs(h)
    BY <2>1, <1>2 DEF HeapInv, Apart
  <2> QED BY <2>1, <1>2, <1>3, <1>6, ApartIsKept
<1>10. ~MergesIntoVariable => \A h \in TaskRuns : StoresTheSame(h)'
  <2>1. ASSUME ~MergesIntoVariable
        PROVE  StoresTheSame(g)'
    BY <2>1, <1>2, <1>6 DEF HeapInv, StoresTheSame
  <2> QED BY <2>1, <1>2, <1>3, TheSameIsStored
<1> QED BY <1>2, <1>3, <1>4, <1>5, <1>7, <1>8, <1>9, <1>10, StepKeepsInv DEF Keeps

-----------------------------------------------------------------------------
(* The theorems.                                                             *)

LEMMA StutterKeeps ==
  ASSUME HeapInv, UNCHANGED heapVars
  PROVE  HeapInv' /\ heap' = heap
<1>1. UNCHANGED <<heap, top, program, stage, copy, base, stack, rest>>
  BY DEF heapVars
<1>2. /\ Plain' = Plain /\ MergesIntoVariable' = MergesIntoVariable
      /\ \A g \in TaskRuns : Held(g)' = Held(g) /\ Docs(g)' = Docs(g) /\ Secret(g)' = Secret(g)
  BY <1>1 DEF Plain, MergesIntoVariable, Held, Docs, Secret
<1>3. HeapTyped' /\ ExprInv'
  <2>1. \A a : Interpolating(a)' = Interpolating(a) /\ NoExprs(a)' = NoExprs(a)
    BY <1>1, <1>2 DEF Interpolating, NoExprs
  <2> QED BY <2>1, <1>1, <1>2 DEF HeapInv, HeapTyped, ExprInv
<1>4. ASSUME NEW g \in TaskRuns
      PROVE  RunTyped(g)' /\ PrivateDocs(g)' /\ ItemExprs(g)' /\ DocInv(g)' /\ (StoresTheSame(g) => StoresTheSame(g)')
  <2>1. RunTyped(g)'
    <3>1. \A it : ItemTyped(it)' = ItemTyped(it)
      BY <1>1, <1>2 DEF ItemTyped
    <3> QED BY <3>1, <1>1, <1>2 DEF HeapInv, RunTyped
  <2>2. PrivateDocs(g)' /\ ItemExprs(g)'
    BY <1>1, <1>2 DEF HeapInv, PrivateDocs, ItemExprs
  <2>3. DocInv(g)'
    <3>1. Mapping(g)' = Mapping(g) /\ Mapped(g)' = Mapped(g)
      BY <1>1 DEF Mapping, Mapped, Unvisited, Replaced, OnItsWay, Decoded, Queued, Root
    <3> QED BY <3>1, <1>1 DEF HeapInv, DocInv
  <2>4. StoresTheSame(g) => StoresTheSame(g)'
    BY <1>1, <1>2 DEF StoresTheSame
  <2> QED BY <2>1, <2>2, <2>3, <2>4
<1>5. \A g, h \in TaskRuns : g # h => Apart(g, h)'
  BY <1>1, <1>2 DEF HeapInv, Apart
<1> QED BY <1>1, <1>2, <1>3, <1>4, <1>5 DEF HeapInv

\* Each step keeps the invariant, the copies, and all that is no secret document.
LEMMA NextKeeps ==
  ASSUME HeapInv, [HeapNext]_heapVars
  PROVE  /\ HeapInv'
         /\ \A h \in TaskRuns : copy[h] # 0 => heap'[copy[h]] = heap[copy[h]]
         /\ ~MergesIntoVariable => \A a \in (DOMAIN heap) \ {top} : heap'[a] # heap[a] =>
              \E g \in TaskRuns : Secret(g) /\ a \in Docs(g)
<1>1. \A h \in TaskRuns : copy[h] # 0 => copy[h] \in DOMAIN heap
  BY DEF HeapInv, RunTyped
<1>2. CASE UNCHANGED heapVars
  BY <1>2, StutterKeeps
<1>3. CASE AllSettled
  BY <1>3, StutterKeeps DEF AllSettled
<1>4. ASSUME NEW g \in TaskRuns, StartTaskRun(g)
      PROVE  HeapInv' /\ \A a \in DOMAIN heap : heap'[a] = heap[a]
  BY <1>4, StartTaskRunKeeps
<1>5. ASSUME NEW g \in TaskRuns, Decode(g)
      PROVE  HeapInv' /\ \A a \in DOMAIN heap : heap'[a] = heap[a]
  BY <1>5, DecodeKeeps
<1>6. ASSUME NEW g \in TaskRuns, MappedAll(g) \/ MergedAll(g)
      PROVE  HeapInv' /\ heap' = heap
  BY <1>6, MappedAllKeeps, MergedAllKeeps
<1>7. ASSUME NEW g \in TaskRuns, SetVar(g)
      PROVE  HeapInv' /\ Writes(g) /\ \A a \in DOMAIN heap : heap'[a] # heap[a] => a = top
  BY <1>7, SetVarKeeps
<1>8. ASSUME NEW g \in TaskRuns, MergeKey(g)
      PROVE  /\ HeapInv' /\ Writes(g)
             /\ ~MergesIntoVariable => \A a \in DOMAIN heap : heap'[a] # heap[a] => Secret(g) /\ a \in Docs(g)
  BY <1>8, MergeKeyKeeps DEF MergesIntoVariable
<1>9. ASSUME NEW g \in TaskRuns, MapItem(g)
      PROVE  \/ HeapInv' /\ heap' = heap
             \/ /\ HeapInv' /\ Writes(g) /\ Secret(g)
                /\ ~MergesIntoVariable => \A a \in DOMAIN heap : heap'[a] # heap[a] => a \in Docs(g)
  <2>1. PICK item, val : item = Head(stack[g]) /\ val = Lookup(g, item.val)
    OBVIOUS
  <2>2. CASE Unknown(g, item.val)
    BY <2>1, <2>2, <1>9, UnknownKeeps
  <2>3. CASE ~Unknown(g, item.val)
    <3>1. Visits(g, item, val)
      BY <2>1, <2>3, <1>9 DEF MapItem, Visits
    <3> QED BY <3>1, <1>9, VisitKeeps
  <2> QED BY <2>2, <2>3
<1>10. CASE \E g \in TaskRuns : StartTaskRun(g) \/ Decode(g) \/ MappedAll(g) \/ MergedAll(g)
  BY <1>1, <1>4, <1>5, <1>6, <1>10
<1>11. CASE \E g \in TaskRuns : SetVar(g) \/ MergeKey(g) \/ MapItem(g)
  <2>1. PICK g \in TaskRuns : SetVar(g) \/ MergeKey(g) \/ MapItem(g)
    BY <1>11
  <2>2. HeapInv' /\ (heap' = heap \/ Writes(g))
    BY <2>1, <1>7, <1>8, <1>9
  <2>3. \A h \in TaskRuns : copy[h] # 0 => heap'[copy[h]] = heap[copy[h]]
    BY <2>2, CopiesAreKept
  <2>4. ~MergesIntoVariable => \A a \in (DOMAIN heap) \ {top} : heap'[a] # heap[a] => Secret(g) /\ a \in Docs(g)
    BY <2>1, <1>7, <1>8, <1>9
  <2> QED BY <2>2, <2>3, <2>4
<1> QED BY <1>2, <1>3, <1>10, <1>11 DEF HeapNext

\* A document that is not in a variable is private.
LEMMA SecretIsPrivate ==
  ASSUME HeapInv, NEW g \in TaskRuns, Secret(g)
  PROVE  Own(g) = Docs(g) /\ Private(g)
<1>1. Own(g) = Docs(g)
  BY DEF Own, Docs, Secret
<1>2. PrivateDocs(g)
  BY DEF HeapInv
<1> QED BY <1>1, <1>2 DEF Private, PrivateDocs

LEMMA HeapInvariant == HeapSpec => []HeapInv
<1>1. HeapInit => HeapInv
  BY InitHeapInv
<1>2. HeapInv /\ [HeapNext]_heapVars => HeapInv'
  BY NextKeeps
<1> QED BY <1>1, <1>2, PTL DEF HeapSpec

\* Variables never change under those who look at them: whatever tasks do, the
\* copy of the variables a task run got stays what it was (variables.go:95-106),
\* and unless a task merges into a variable a step modifies nothing but the map of
\* the scheduler and documents only one task run can reach (getters.go:113-162).
THEOREM VariablesFrozen == HeapSpec => VariablesAreFrozen
<1>1. HeapInv /\ [HeapNext]_heapVars =>
        [\A g \in TaskRuns : copy[g] # 0 => heap'[copy[g]] = heap[copy[g]]]_heapVars
  BY NextKeeps
<1>2. HeapInv /\ [HeapNext]_heapVars => [MergesIntoVariable \/ ModifiesPrivate]_heapVars
  BY NextKeeps, SecretIsPrivate DEF ModifiesPrivate
<1>3. HeapSpec => [][\A g \in TaskRuns : copy[g] # 0 => heap'[copy[g]] = heap[copy[g]]]_heapVars
  BY <1>1, HeapInvariant, PTL DEF HeapSpec
<1>4. HeapSpec => [][MergesIntoVariable \/ ModifiesPrivate]_heapVars
  BY <1>2, HeapInvariant, PTL DEF HeapSpec
<1> QED BY <1>3, <1>4 DEF VariablesAreFrozen, ViewsAreFrozen, SharedIsFrozen

\* A decoded document a task run is done with has each of its expressions, at any
\* depth, replaced by the variable of that name and everything else unchanged,
\* whatever the other task runs do meanwhile (getters.go:113-162).
THEOREM AllInterpolated == HeapSpec => []InterpolatedAll
<1>1. HeapInv => InterpolatedAll
  <2> SUFFICES ASSUME HeapInv, NEW g \in TaskRuns, stage[g] \in {"merging", "reported"}, program[g].kind = "json",
                      NEW k \in DOMAIN program[g].doc, NEW key \in DOMAIN program[g].doc[k], NEW v, v = program[g].doc[k][key]
               PROVE  heap[base[g] + k][key] = IF v.expr # NoName THEN heap[copy[g]][v.expr]
                                               ELSE IF v.ref > 0 THEN Ref(v.ref + base[g]) ELSE v
    BY DEF InterpolatedAll
  <2>1. Mapped(g)
    BY DEF HeapInv, DocInv
  <2>2. Replaced(g, v, heap[base[g] + k][key])
    BY <2>1 DEF Mapped
  <2> QED BY <2>2 DEF Replaced, Decoded
<1> QED BY <1>1, HeapInvariant, PTL
=============================================================================

------------------------------- MODULE VarsHeap -------------------------------
(****************************************************************************)
(* The maps behind the variables.  Vars holds a reference to a map, and the *)
(* maps and slices nested in it are shared: Vars.Copy copies the top level  *)
(* only.  Task runs look variables up, interpolate them into a decoded      *)
(* document (mapGoValue) and merge maps, while the scheduler stores the     *)
(* results of others.                                                       *)
(*                                                                          *)
(* An object is a map or a slice, its entries are values: a number, a       *)
(* reference to an object, or an expression that was not replaced yet.      *)
(****************************************************************************)
EXTENDS Integers, Sequences, FiniteSets

CONSTANTS
  TaskRuns,  \* task runs that may be in flight at once, numbers
  Given,     \* the objects the run starts with; the first is its Inputs map
  Programs   \* what a task run may do

NoName == "none"
Scalar(n) == [ref |-> 0, n |-> n, expr |-> NoName]
Ref(a) == [ref |-> a, n |-> 0, expr |-> NoName]
ExprOf(name) == [ref |-> 0, n |-> 0, expr |-> name]

IsSeq(s) == s \in Seq({s[k] : k \in DOMAIN s})
IsObject(o, addresses) ==
  /\ o = [k \in DOMAIN o |-> o[k]] /\ IsFiniteSet(DOMAIN o)
  /\ \A k \in DOMAIN o : o[k].ref \in addresses /\ (o[k].expr # NoName => o[k].ref = 0)

\* What a text is decoded into: a sequence of objects that refer to each other
\* by position, the first being the root and each other an entry of an earlier one.
IsDocument(doc) ==
  /\ IsSeq(doc) /\ doc # <<>>
  /\ \A k \in DOMAIN doc : IsObject(doc[k], {0} \cup 2..Len(doc))
  /\ \A k \in 2..Len(doc) : \E p \in 1..(k - 1) : \E key \in DOMAIN doc[p] : doc[p][key].ref = k

\* A merge clobbers the object of the variable left, or the decoded object at
\* that position, with that at right.
IsProgram(p) ==
  /\ p.kind \in {"json", "merge"} /\ IsDocument(p.doc)
  /\ p.kind = "merge" => p.right \in DOMAIN p.doc /\ (p.left.expr = NoName => p.left.ref \in DOMAIN p.doc)
IntoVariable(p) == p.kind = "merge" /\ p.left.expr # NoName

ASSUME HeapAssumption ==
  /\ TaskRuns \in SUBSET (Nat \ {0})
  /\ IsSeq(Given) /\ Given # <<>>
  /\ \A a \in DOMAIN Given : /\ IsObject(Given[a], {0} \cup 2..Len(Given))
                             /\ \A k \in DOMAIN Given[a] : Given[a][k].expr = NoName
  /\ \A p \in Programs : IsProgram(p)

VARIABLES
  heap,      \* the objects, by address
  top,       \* the address of scheduler.vars
  program,   \* what each task run does
  stage,     \* where each task run is
  copy,      \* the address of its Vars
  base,      \* where the objects of its document start
  stack,     \* the items mapGoValue has still to visit
  rest,      \* the keys the merge has still to copy
  accesses   \* the objects each goroutine accesses at the moment, the scheduler being 0

heapVars == <<heap, top, program, stage, copy, base, stack, rest, accesses>>

Read(a) == [object |-> a, write |-> FALSE]
Write(a) == [object |-> a, write |-> TRUE]

HeapInit ==
  /\ heap = Given /\ top = 1
  /\ program \in [TaskRuns -> Programs]
  /\ stage = [g \in TaskRuns |-> "waiting"]
  /\ copy = [g \in TaskRuns |-> 0] /\ base = [g \in TaskRuns |-> 0]
  /\ stack = [g \in TaskRuns |-> <<>>] /\ rest = [g \in TaskRuns |-> {}]
  /\ accesses = [g \in TaskRuns \cup {0} |-> {}]

\* What happens between two accesses of g.
Accessing(g, objects) == accesses' = [accesses EXCEPT ![g] = objects]
Stage(g, s) == stage' = [stage EXCEPT ![g] = s]

\* A value is stored under a key of an object.
Put(a, key, v) ==
  heap' = [heap EXCEPT ![a] = [k \in DOMAIN @ \cup {key} |-> IF k = key THEN v ELSE @[k]]]

-----------------------------------------------------------------------------
(* The scheduler *)

CopyAlias(h, a) == <<h, a>>  \* mutant: the map itself is handed over
Copy(h, a) == <<Append(h, h[a]), Len(h) + 1>>

\* newMemoryTaskRun(task, s.vars.Copy())
StartTaskRun(g) ==
  /\ stage[g] = "waiting"
  /\ heap' = Copy(heap, top)[1]
  /\ copy' = [copy EXCEPT ![g] = Copy(heap, top)[2]]
  /\ Stage(g, "decoding")
  /\ Accessing(0, {Read(top)})
  /\ UNCHANGED <<top, program, base, stack, rest>>

\* The variable a result is stored under; all task runs share one name, so that
\* programs can refer to it.
ResultName == "result"
Root(g) == base[g] + 1
ResultOf(g) ==
  IF program[g].kind = "json" THEN Ref(Root(g))
  ELSE IF IntoVariable(program[g]) THEN Ref(heap[copy[g]][program[g].left.expr].ref)
  ELSE Ref(base[g] + program[g].left.ref)

\* Vars.Set of the scheduler.
SetVar(g) ==
  /\ stage[g] = "reported"
  /\ Put(top, ResultName, ResultOf(g))
  /\ Stage(g, "settled")
  /\ Accessing(0, {Write(top)})
  /\ UNCHANGED <<top, program, copy, base, stack, rest>>

-----------------------------------------------------------------------------
(* A task run *)

Item(val, parent, key) == [val |-> val, parent |-> parent, key |-> key]

\* The decoded document is new; its references are made addresses.
Decode(g) ==
  /\ stage[g] = "decoding"
  /\ base' = [base EXCEPT ![g] = Len(heap)]
  /\ heap' = heap \o [k \in DOMAIN program[g].doc |->
                        [key \in DOMAIN program[g].doc[k] |->
                           LET v == program[g].doc[k][key]
                           IN IF v.ref > 0 THEN Ref(v.ref + Len(heap)) ELSE v]]
  /\ stack' = [stack EXCEPT ![g] = <<Item(Ref(Len(heap) + 1), 0, NoName)>>]
  /\ Stage(g, "mapping")
  /\ Accessing(g, {})
  /\ UNCHANGED <<top, program, copy, rest>>

Lookup(g, v) == IF v.expr = NoName THEN v ELSE heap[copy[g]][v.expr]
Unknown(g, v) == v.expr # NoName /\ v.expr \notin DOMAIN heap[copy[g]]

ChildrenOfExprs(h, v) == {}  \* mutant: only the first level is visited
\* The entries of an object, queued in the order in which Go iterates over them.
Children(h, v) ==
  IF v.ref = 0 THEN {} ELSE {Item(h[v.ref][key], v.ref, key) : key \in DOMAIN h[v.ref]}

InAnyOrder(items) == {s \in [1..Cardinality(items) -> items] : \A i, j \in DOMAIN s : s[i] = s[j] => i = j}

\* One iteration of mapGoValue: the value of the item is stored into its parent,
\* also if it is no expression, and its own entries are queued.
MapItem(g) ==
  /\ stage[g] = "mapping" /\ stack[g] # <<>>
  /\ LET current == Head(stack[g])
         val == Lookup(g, current.val)
     IN IF Unknown(g, current.val)
        THEN /\ Stage(g, "failed") /\ Accessing(g, {})
             /\ UNCHANGED <<heap, stack>>
        ELSE /\ IF current.parent = 0 THEN heap' = heap ELSE Put(current.parent, current.key, val)
             /\ \E children \in InAnyOrder(Children(heap', val)) :
                  stack' = [stack EXCEPT ![g] = Tail(@) \o children]
             /\ Accessing(g, {Write(a) : a \in {current.parent} \ {0}} \cup {Read(a) : a \in {val.ref} \ {0}}
                             \cup (IF current.val.expr = NoName THEN {} ELSE {Read(copy[g])}))
             /\ UNCHANGED stage
  /\ UNCHANGED <<top, program, copy, base, rest>>

\* Merge: the variable on the left is looked up, not copied.
Left(g) == ResultOf(g).ref
MappedAll(g) ==
  /\ stage[g] = "mapping" /\ stack[g] = <<>>
  /\ IF program[g].kind = "json" THEN Stage(g, "reported") /\ UNCHANGED rest
     ELSE IF IntoVariable(program[g]) /\ (program[g].left.expr \notin DOMAIN heap[copy[g]]
                                          \/ heap[copy[g]][program[g].left.expr].ref = 0)
     THEN Stage(g, "failed") /\ UNCHANGED rest
     ELSE /\ Stage(g, "merging")
          /\ rest' = [rest EXCEPT ![g] = DOMAIN heap[base[g] + program[g].right]]
  /\ Accessing(g, {})
  /\ UNCHANGED <<heap, top, program, copy, base, stack>>

MergeKey(g) ==
  /\ stage[g] = "merging" /\ rest[g] # {}
  /\ \E key \in rest[g] :
       /\ Put(Left(g), key, heap[base[g] + program[g].right][key])
       /\ rest' = [rest EXCEPT ![g] = @ \ {key}]
  /\ Accessing(g, {Read(base[g] + program[g].right), Write(Left(g))})
  /\ UNCHANGED <<top, program, stage, copy, base, stack>>

MergedAll(g) ==
  /\ stage[g] = "merging" /\ rest[g] = {}
  /\ Stage(g, "reported")
  /\ Accessing(g, {})
  /\ UNCHANGED <<heap, top, program, copy, base, stack, rest>>

AllSettled == (\A g \in TaskRuns : stage[g] \in {"settled", "failed"}) /\ UNCHANGED heapVars

HeapNext ==
  \/ \E g \in TaskRuns : StartTaskRun(g) \/ SetVar(g) \/ Decode(g) \/ MapItem(g)
                         \/ MappedAll(g) \/ MergeKey(g) \/ MergedAll(g)
  \/ AllSettled

HeapSpec == HeapInit /\ [][HeapNext]_heapVars

-----------------------------------------------------------------------------
(* Properties *)

\* "Used by scheduler for new tasks to avoid data races" (variables.go:96): the
\* variables of a task run stay what they were when it started, whichever
\* results are stored meanwhile.
ViewsAreFrozen ==
  [][\A g \in TaskRuns : copy[g] # 0 => heap'[copy[g]] = heap[copy[g]]]_heapVars

\* The objects a task run has decoded, until its result is stored, and whether
\* nothing else refers to one of them.
Own(g) == IF stage[g] \in {"waiting", "decoding", "settled"} THEN {}
          ELSE {base[g] + k : k \in DOMAIN program[g].doc}
Private(g) == \A a \in (DOMAIN heap) \ Own(g) : \A k \in DOMAIN heap[a] : heap[a][k].ref \notin Own(g)
ModifiesPrivate ==
  \A a \in (DOMAIN heap) \ {top} : heap'[a] # heap[a] => \E g \in TaskRuns : a \in Own(g) /\ Private(g)

\* "only the top-level map is mutable" (variables.go:97): what can be reached from
\* the variables, a settled result above all, never changes, although mapGoValue
\* stores into every object it visits: what a step modifies can be reached by one
\* task run only; unless a task run merges into a variable.
MergesIntoVariable == \E g \in TaskRuns : IntoVariable(program[g])
SharedIsFrozen == [][MergesIntoVariable \/ ModifiesPrivate]_heapVars

\* The two together: variables never change under those who look at them.
VariablesAreFrozen == ViewsAreFrozen /\ SharedIsFrozen

\* When a task run is done with its document no expression is left in it, at any
\* depth, and every expression became the variable of that name
\* (getters.go:113-162).
InterpolatedAll ==
  \A g \in TaskRuns : stage[g] \in {"merging", "reported"} /\ program[g].kind = "json" =>
    \A k \in DOMAIN program[g].doc : \A key \in DOMAIN program[g].doc[k] :
      LET v == program[g].doc[k][key]
      IN heap[base[g] + k][key] = IF v.expr # NoName THEN heap[copy[g]][v.expr]
                                  ELSE IF v.ref > 0 THEN Ref(v.ref + base[g]) ELSE v

-----------------------------------------------------------------------------
(* What the comment says and the code does not keep *)

\* "only the top-level map is mutable" (variables.go:97), with merges into a
\* variable as well.
NestedIsFrozen == [][ModifiesPrivate]_heapVars

\* No two goroutines access a map at once if one of them writes it
\* (variables.go:96-97).
NoConcurrentAccess ==
  \A g, h \in DOMAIN accesses : g # h =>
    \A x \in accesses[g], y \in accesses[h] : x.object = y.object => ~x.write /\ ~y.write
=============================================================================

---------------------------- MODULE PipelineGraph ----------------------------
(****************************************************************************)
(* Parse of graph.go: a DOT document becomes a graph, variable expressions  *)
(* in the attributes of its nodes become implicit edges, the nodes are      *)
(* sorted topologically and become tasks that are linked to each other.     *)
(* Go iterates over a map in any order: over the nodes when the edges are   *)
(* added, and over the inputs of a node when it is linked.                  *)
(*                                                                          *)
(* A node stands for its dot id.  Of the attributes only the nodes they     *)
(* name and whether they can be decoded into a task are kept.               *)
(****************************************************************************)
EXTENDS PipelineShape, FiniteSets, SequencesExt

CONSTANTS
  Nodes,   \* the nodes a document may have
  Sources  \* the documents that are parsed

AttributeKinds == {"ok", "unknownType", "undecodable"}

\* references: the nodes named by variable expressions that VarExpr resolves;
\* plain: the nodes whose dot id is made of the characters variableRegexp knows;
\* reserved: the node called "input", if there is one.
IsSource(s) ==
  /\ s.nodes \in SUBSET Nodes
  /\ s.declared \subseteq s.nodes \X s.nodes
  /\ s.references \in [s.nodes -> SUBSET s.nodes]
  /\ s.plain \in SUBSET s.nodes
  /\ s.reserved \in SUBSET s.nodes
  /\ s.attributes \in [s.nodes -> AttributeKinds]
  /\ s.failEarly \in SUBSET s.nodes
  /\ s.retries \in [s.nodes -> Nat]
  /\ s.malformed \in BOOLEAN

ASSUME GraphAssumption ==
  /\ Nodes \in SUBSET Nat /\ IsFiniteSet(Nodes)
  /\ \A s \in Sources : IsSource(s)

VARIABLES
  source,     \* the document
  stage,      \* where Parse is
  edges,      \* the edges of the graph, pairs <<from, to>>
  implicit,   \* those added by AddImplicitDependenciesAsEdges
  unvisited,  \* nodes its outer loop has not come to
  order,      \* what topo.SortStabilized returned
  tasks       \* Pipeline.Tasks; the id of a task is its position

graphVars == <<source, stage, edges, implicit, unvisited, order, tasks>>

Stages == {"unmarshal", "implicit", "sort", "link", "parsed", "rejected"}

GraphInit ==
  /\ source \in Sources
  /\ stage = "unmarshal"
  /\ edges = {} /\ implicit = {} /\ unvisited = {}
  /\ order = <<>> /\ tasks = <<>>

Reject == stage' = "rejected" /\ UNCHANGED <<source, edges, implicit, unvisited, order, tasks>>

-----------------------------------------------------------------------------
(* Graph.UnmarshalText *)

SelfEdges == {e \in source.declared : e[1] = e[2]}

\* SetEdge of the graph library panics on a self edge; UnmarshalText recovers.
UnmarshalFails ==
  /\ stage = "unmarshal"
  /\ source.malformed \/ SelfEdges # {}
  /\ Reject

Unmarshal ==
  /\ stage = "unmarshal"
  /\ ~source.malformed /\ SelfEdges = {}
  /\ stage' = "implicit"
  /\ edges' = source.declared
  /\ unvisited' = source.nodes
  /\ UNCHANGED <<source, implicit, order, tasks>>

\* The nodes whose dot id variableRegexp finds in the attributes of n.
Params(n) == source.references[n] \cap source.plain

NewEdgesEither(n) ==  \* mutant: an edge in the other direction is enough
  {<<m, n>> : m \in {m \in Params(n) \ {n} : <<m, n>> \notin edges /\ <<n, m>> \notin edges}}
NewEdges(n) == {<<m, n>> : m \in {m \in Params(n) \ {n} : <<m, n>> \notin edges}}

AddImplicitEdges(n) ==
  /\ stage = "implicit"
  /\ n \in unvisited
  /\ unvisited' = unvisited \ {n}
  /\ edges' = edges \cup NewEdges(n)
  /\ implicit' = implicit \cup NewEdges(n)
  /\ stage' = IF unvisited' = {} THEN "sort" ELSE "implicit"
  /\ UNCHANGED <<source, order, tasks>>

\* A document without nodes: the loop has nothing to visit.
NothingToVisit ==
  /\ stage = "implicit" /\ unvisited = {}
  /\ stage' = "sort"
  /\ UNCHANGED <<source, edges, implicit, unvisited, order, tasks>>

-----------------------------------------------------------------------------
(* Parse *)

Position(s, n) == CHOOSE k \in DOMAIN s : s[k] = n

TopologicalOrdersAny(E) == SetToSeqs(source.nodes)  \* mutant: the order of the document
\* What topo.SortStabilized may return: every edge leads forward.
TopologicalOrders(E) ==
  {s \in SetToSeqs(source.nodes) : \A e \in E : Position(s, e[1]) < Position(s, e[2])}

SortFails ==
  /\ stage = "sort"
  /\ TopologicalOrders(edges) = {}
  /\ Reject

Sort ==
  /\ stage = "sort"
  /\ order' \in TopologicalOrders(edges)
  /\ stage' = "link"
  /\ UNCHANGED <<source, edges, implicit, unvisited, tasks>>

Node == order[Len(tasks) + 1]
To(n) == {e[1] : e \in {e \in edges : e[2] = n}}

UnmarshalTaskAnyName(n) == source.attributes[n] = "ok"  \* mutant: the reserved name is accepted
UnmarshalTask(n) == n \notin source.reserved /\ source.attributes[n] = "ok"

\* ids[...] of Parse: a node that has no task yet would be taken for the first.
Ids(n) == IF \E k \in DOMAIN tasks : tasks[k].node = n
          THEN CHOOSE k \in DOMAIN tasks : tasks[k].node = n ELSE 1

Dependency(m, n) == [propagate |-> <<m, n>> \notin implicit, from |-> Ids(m)]

Dependencies(n) == {Dependency(m, n) : m \in To(n)}
InputsByNode(n) ==  \* mutant: in the order of the nodes
  CHOOSE s \in SetToSeqs(Dependencies(n)) :
    \A i, j \in DOMAIN s : i < j => tasks[s[i].from].node <= tasks[s[j].from].node
SortedInputs(n) ==
  CHOOSE s \in SetToSeqs(Dependencies(n)) : \A i, j \in DOMAIN s : i < j => s[i].from <= s[j].from

LinkTask ==
  /\ stage = "link" /\ Len(tasks) < Len(order)
  /\ UnmarshalTask(Node)
  /\ LET id == Len(tasks) + 1
         linked == [k \in DOMAIN tasks |->
                     IF k \in {Ids(m) : m \in To(Node)}
                     THEN [tasks[k] EXCEPT !.outputs = Append(@, id)] ELSE tasks[k]]
     IN tasks' = Append(linked, [node |-> Node, inputs |-> SortedInputs(Node), outputs |-> <<>>])
  /\ UNCHANGED <<source, stage, edges, implicit, unvisited, order>>

LinkFails ==
  /\ stage = "link" /\ Len(tasks) < Len(order)
  /\ ~UnmarshalTask(Node)
  /\ Reject

ParseReturns ==
  /\ stage = "link" /\ Len(tasks) = Len(order)
  /\ stage' = "parsed"
  /\ UNCHANGED <<source, edges, implicit, unvisited, order, tasks>>

ParseOver == stage \in {"parsed", "rejected"} /\ UNCHANGED graphVars

GraphNext ==
  \/ UnmarshalFails \/ Unmarshal
  \/ (\E n \in unvisited : AddImplicitEdges(n)) \/ NothingToVisit
  \/ SortFails \/ Sort
  \/ LinkTask \/ LinkFails \/ ParseReturns
  \/ ParseOver

GraphSpec == GraphInit /\ [][GraphNext]_graphVars

-----------------------------------------------------------------------------
(* Properties *)

InputTasks(k) == {tasks[k].inputs[j].from : j \in DOMAIN tasks[k].inputs}

Declared(n) == {m \in source.nodes : <<m, n>> \in source.declared}
Named(n) == source.references[n] \ {n}

\* The dependencies of a parsed task are the nodes it declares or names, and the
\* results of exactly the declared ones are propagated: neither the order in
\* which the nodes are visited nor a dependency that is both declared and named
\* makes a difference (graph.go:57-87).
DependenciesAreDeclaredOrNamed ==
  stage = "parsed" => \A k \in DOMAIN tasks :
     LET t == tasks[k] IN
     /\ {tasks[i].node : i \in InputTasks(k)} = Declared(t.node) \cup (Named(t.node) \cap source.plain)
     /\ \A j \in DOMAIN t.inputs :
          t.inputs[j].propagate <=> tasks[t.inputs[j].from].node \in Declared(t.node)

\* "dependencies ordered before outputs" (graph.go:212) and "g.To doesn't return
\* nodes in deterministic order ... therefore we manually sort" (graph.go:247):
\* at every moment inputs come before the task, both kinds of links ascend, none
\* is doubled, and a link is there in both directions.
LinksAreOrdered ==
  \A k \in DOMAIN tasks :
    /\ \A i \in InputTasks(k) : i < k /\ \E j \in DOMAIN tasks[i].outputs : tasks[i].outputs[j] = k
    /\ \A i, j \in DOMAIN tasks[k].inputs : i < j => tasks[k].inputs[i].from < tasks[k].inputs[j].from
    /\ \A i, j \in DOMAIN tasks[k].outputs : i < j => tasks[k].outputs[i] < tasks[k].outputs[j]
    /\ \A j \in DOMAIN tasks[k].outputs : k \in InputTasks(tasks[k].outputs[j])

\* No task can be put before all others it leads to: the declared and implicit
\* dependencies have a cycle.
Cyclic ==
  \E C \in (SUBSET source.nodes) \ {{}} :
     \A n \in C : (Declared(n) \cup (Named(n) \cap source.plain)) \cap C # {}

\* A document is rejected for one of these reasons and no other: it is not DOT,
\* has a self edge, a cycle of declared or implicit edges, a task with the
\* reserved name or one that cannot be decoded (graph.go:196-236).
RejectedForAReason ==
  LET bad == \/ source.malformed \/ SelfEdges # {} \/ source.reserved # {}
             \/ \E n \in source.nodes : source.attributes[n] # "ok"
  IN /\ stage = "rejected" => bad \/ Cyclic
     /\ stage = "parsed" => ~bad /\ ~Cyclic

\* What the scheduler is given.
Parsed ==
  [inputs |-> [k \in DOMAIN tasks |-> InputTasks(k)],
   implicit |-> [k \in DOMAIN tasks |->
      {tasks[k].inputs[j].from : j \in {j \in DOMAIN tasks[k].inputs : ~tasks[k].inputs[j].propagate}}],
   failEarly |-> {k \in DOMAIN tasks : tasks[k].node \in source.failEarly},
   retries |-> [k \in DOMAIN tasks |-> source.retries[tasks[k].node]]]

\* The parser keeps the promise the scheduler rests on: whatever it returns is a
\* pipeline, with the settings of a node at the position of its task.
YieldsPipeline ==
  stage = "parsed" =>
    /\ IsPipelineOver(DOMAIN tasks, Parsed)
    /\ Cardinality(DOMAIN tasks) = Cardinality(source.nodes)

-----------------------------------------------------------------------------
(* What the comment says and the code does not keep *)

\* "Walk through all attributes and find all Params which this node depends on"
\* (graph.go:62): a task that names another one in a variable expression waits
\* for it.
EveryNamedNodeIsAnInput ==
  stage = "parsed" =>
    \A k \in DOMAIN tasks : Named(tasks[k].node) \subseteq {tasks[i].node : i \in InputTasks(k)}
=============================================================================

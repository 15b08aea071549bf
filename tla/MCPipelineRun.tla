---------------------------- MODULE MCPipelineRun ----------------------------
(* Small runs for TLC. *)
EXTENDS PipelineRun

Tasks3 == 0..2
Graph(i1, i2) ==
  [inputs |-> [t \in 0..2 |-> CASE t = 0 -> {} [] t = 1 -> i1 [] t = 2 -> i2],
   implicit |-> [t \in 0..2 |-> {}]]
\* Three unrelated tasks, a chain, a fork, a join and a triangle.
Graphs == {Graph({}, {}), Graph({0}, {1}), Graph({0}, {0}), Graph({}, {0, 1}), Graph({0}, {0, 1})}
With(g, fe, x) == [inputs |-> g.inputs, implicit |-> g.implicit, failEarly |-> fe,
                   retries |-> [t \in 0..2 |-> IF t = x THEN 2 ELSE 0]]

\* Every task may be retried if none fails early; otherwise the second may be.
Pipelines3 == {With(g, {}, x) : g \in Graphs, x \in 0..2} \cup {With(g, fe, 1) : g \in Graphs, fe \in SUBSET (0..2)}
\* The join whose first root fails early while the second is suspended.
JoinPipelines == {With(Graph({}, {0, 1}), {0}, 2)}
=============================================================================

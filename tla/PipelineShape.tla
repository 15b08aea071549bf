---------------------------- MODULE PipelineShape ----------------------------
(* What Parse (graph.go) returns and the scheduler works on.                 *)
EXTENDS Naturals

\* A pipeline over the task ids in T.  An implicit input is a dependency whose
\* result is not propagated (TaskDependency.PropagateResult).
IsPipelineOver(T, p) ==
  /\ p.inputs \in [T -> SUBSET T]
  /\ p.implicit \in [T -> SUBSET T]
  /\ p.failEarly \in SUBSET T
  /\ p.retries \in [T -> Nat]
  /\ \A t \in T : \A i \in p.inputs[t] : i < t
=============================================================================

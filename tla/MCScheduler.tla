----------------------------- MODULE MCScheduler -----------------------------
(* Small pipelines for TLC. *)
EXTENDS SchedulerImplementsDataflow

Graphs3 ==  \* every graph of three tasks, an edge being explicit or implicit
  LET Edges == {<<0, 1>>, <<0, 2>>, <<1, 2>>} IN
  {[inputs |-> [t \in 0..2 |-> {i \in 0..2 : <<i, t>> \in E}],
    implicit |-> [t \in 0..2 |-> {i \in 0..2 : <<i, t>> \in M}]] :
      <<E, M>> \in {x \in (SUBSET Edges) \X (SUBSET Edges) : x[2] \subseteq x[1]}}

With(g, fe, re) == [inputs |-> g.inputs, implicit |-> g.implicit, failEarly |-> fe, retries |-> re]

Tasks3 == 0..2
\* One task is retried, at most one fails early.
Pipelines3 ==
  {With(g, fe, [t \in 0..2 |-> IF t = x THEN 2 ELSE 0]) :
     g \in Graphs3, x \in 0..2, fe \in {{}, {0}, {1}, {2}}}

Tasks4 == 0..3
Diamond ==
  [inputs |-> [t \in 0..3 |-> CASE t = 0 -> {} [] t = 3 -> {1, 2} [] OTHER -> {0}],
   implicit |-> [t \in 0..3 |-> IF t = 3 THEN {2} ELSE {}]]
\* Two siblings back off at the same time and both may be retried.
Diamonds ==
  {With(Diamond, fe, [t \in 0..3 |-> CASE t = 0 -> 0 [] t = 1 -> 3 [] OTHER -> 2]) :
     fe \in SUBSET (0..3)}
=============================================================================

------------------------------ MODULE MCTaskRunIds ------------------------------
(* Two runs of a pipeline of two tasks. *)
EXTENDS TaskRunIds

TwoRuns == {1, 2}
=============================================================================

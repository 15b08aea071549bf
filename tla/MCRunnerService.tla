--------------------------- MODULE MCRunnerService ---------------------------
(* Two goroutines that start and close a runner, each twice or three times. *)
EXTENDS RunnerService, TLC

CONSTANTS c1, c2

Callers2 == {c1, c2}
=============================================================================

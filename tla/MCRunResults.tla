----------------------------- MODULE MCRunResults -----------------------------
(* Result tables of three tasks, and that of a pipeline without tasks. *)
EXTENDS RunResults

Entry(i, f, t, e, v) == [index |-> i, finished |-> f, terminal |-> t, error |-> e, value |-> v]
Entries(v) == {Entry(i, f, t, e, v) : i \in {-1, 0, 1}, f \in {1, 2}, t \in BOOLEAN, e \in BOOLEAN}

\* In a graph the last task is terminal.
Tables3 == {<<>>} \cup {<<a, b, c>> : a \in Entries("a"), b \in Entries("b"), c \in {c \in Entries("c") : c.terminal}}
=============================================================================

---------------------------- MODULE MCTaskContext ----------------------------
(* Settings in a small unit of time. *)
EXTENDS TaskContext

NoLimit == [parent |-> Forever, maxRun |-> 0, maxTask |-> 0, defaultHTTP |-> 0, closing |-> Forever,
            timeoutSet |-> FALSE, timeout |-> 0, http |-> FALSE, retries |-> 0, minBackoff |-> 0, maxBackoff |-> 0]

\* One attempt, under every combination of limits.
Once == {[parent |-> p, maxRun |-> r, maxTask |-> j, defaultHTTP |-> d, closing |-> c, timeoutSet |-> b, timeout |-> t,
          http |-> h, retries |-> 0, minBackoff |-> 0, maxBackoff |-> 0] :
           p \in {-10, 10, 20, 30, Forever}, r \in {0, 4}, j \in {0, 3}, d \in {0, 2}, c \in {5, Forever},
           b \in BOOLEAN, t \in {0, 2, 6}, h \in BOOLEAN}

\* Up to four attempts.
Retried == {[NoLimit EXCEPT !.parent = p, !.maxRun = r, !.maxTask = j, !.closing = c, !.retries = n,
                            !.minBackoff = lo, !.maxBackoff = hi] :
              p \in {10, Forever}, r \in {0, 2}, j \in {0, 3}, c \in {1, Forever}, n \in {1, 2, 4}, lo \in {0, 1, 5}, hi \in {0, 3, 7}}
AllSettings == Once \cup Retried
=============================================================================

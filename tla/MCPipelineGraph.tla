--------------------------- MODULE MCPipelineGraph ---------------------------
(* Small documents for TLC. *)
EXTENDS PipelineGraph

Nodes3 == 0..2
Pairs == {e \in (0..2) \X (0..2) : e[1] # e[2]}
Document(E, R) ==
  [nodes |-> 0..2, declared |-> E, references |-> [n \in 0..2 |-> {m \in 0..2 : <<m, n>> \in R}],
   plain |-> 0..2, reserved |-> {}, attributes |-> [n \in 0..2 |-> "ok"],
   failEarly |-> {0}, retries |-> [n \in 0..2 |-> n], malformed |-> FALSE]

\* Up to three declared edges, up to two references.
Graphs3 == {Document(E, R) : <<E, R>> \in
              {x \in (SUBSET Pairs) \X (SUBSET Pairs) : Cardinality(x[1]) <= 3 /\ Cardinality(x[2]) <= 2}}
Fork == Document({<<1, 0>>}, {<<2, 0>>})
Odd == {Document({}, {<<0, 0>>}), Document({<<1, 1>>}, {}),
        [Fork EXCEPT !.malformed = TRUE],
        [nodes |-> {}, declared |-> {}, references |-> <<>>, plain |-> {}, reserved |-> {},
         attributes |-> <<>>, failEarly |-> {}, retries |-> <<>>, malformed |-> FALSE]}
       \cup {[Fork EXCEPT !.reserved = {n}] : n \in 0..2}
       \cup {[Fork EXCEPT !.attributes[n] = a] : n \in 0..2, a \in {"unknownType", "undecodable"}}

\* A dot id such as my-task, in quotes, is not made of the characters of a name.
Quoted == {[Fork EXCEPT !.plain = P] : P \in SUBSET (0..2)}

Documents == Graphs3 \cup Odd \cup Quoted
=============================================================================

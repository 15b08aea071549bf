------------------------------ MODULE MCVarsHeap ------------------------------
(* Two or three task runs that use one nested variable. *)
EXTENDS VarsHeap

\* The input of the run is an object with a nested one.
Given3 == <<[in |-> Ref(2)], [a |-> Scalar(1), b |-> Ref(3)], [a |-> Scalar(5)]>>

Nothing == Scalar(0)
Json(doc) == [kind |-> "json", doc |-> doc, left |-> Nothing, right |-> 0]
Merge(doc, left, right) == [kind |-> "merge", doc |-> doc, left |-> left, right |-> right]

Embed == Json(<<[a |-> ExprOf("in")]>>)
Deep == Json(<<[a |-> Ref(2), b |-> Scalar(9)], [b |-> ExprOf("in")]>>)
Later == Json(<<[a |-> ExprOf(ResultName)]>>)
\* merge(left: {a: $(in)}, right: {a: 4, b: 7}), merge(left: $(in), right: {a: 4})
MergeDocs == Merge(<<[a |-> Ref(2), b |-> Ref(3)], [a |-> ExprOf("in")], [a |-> Scalar(4), b |-> Scalar(7)]>>, Ref(2), 3)
MergeVar == Merge(<<[a |-> Scalar(4)]>>, ExprOf("in"), 1)
MergeLater == Merge(<<[b |-> Scalar(4)]>>, ExprOf(ResultName), 1)

Runs2 == {1, 2}
AllPrograms == {Embed, Deep, Later, MergeDocs, MergeVar, MergeLater}
=============================================================================

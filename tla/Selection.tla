------------------------------- MODULE Selection -------------------------------
(***************************************************************************)
(* A loop that walks over a vector and appends the elements that pass a     *)
(* test to another one: process() in postprocess.cc keeps cells,            *)
(* DeepSortWrapper::Update boxes, getRectsFeature crops.                     *)
(***************************************************************************)
EXTENDS Integers, FiniteSets, Sequences

\* The k-th smallest of a set of positions.
Kth(S, k) == CHOOSE i \in S : Cardinality({j \in S : j < i}) = k - 1

\* The elements of s at the positions S, in their order.
Selected(s, S) == [k \in 1 .. Cardinality(S) |-> s[Kth(S, k)]]
=============================================================================

------------------------------- MODULE Ascents -------------------------------
(***************************************************************************)
(* Sets of numbers in ascending order, without recursion, so that proofs   *)
(* can expand it.                                                          *)
(***************************************************************************)
EXTENDS Integers, FiniteSets

\* How many members of S are at most i.
Rank(S, i) == Cardinality({j \in S : j <= i})

\* The members of S, the least one first.
Ascending(S) == [n \in 1 .. Cardinality(S) |-> CHOOSE i \in S : Rank(S, i) = n]

\* The elements of sequence s at the indices in I, in their order.
At(s, I) == [n \in 1 .. Cardinality(I) |-> s[Ascending(I)[n]]]

=============================================================================

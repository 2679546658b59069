---------------------------- MODULE Subsequences ----------------------------
(***************************************************************************)
(* What a filter keeps of a list.  The standard SelectSeq is a recursion   *)
(* over the list; these definitions say the same by counting positions,    *)
(* and can be reasoned about.                                              *)
(***************************************************************************)
EXTENDS Integers, Sequences, FiniteSets

\* The position of the j-th member of a set of positions.
Nth(K, j) == CHOOSE i \in K : Cardinality({k \in K : k <= i}) = j

\* The elements of s at the positions in K, in their order.
Subsequence(s, K) == [j \in 1 .. Cardinality(K) |-> s[Nth(K, j)]]

\* What is left of s without the members of S.
Without(s, S) == Subsequence(s, {i \in DOMAIN s : s[i] \notin S})
=============================================================================

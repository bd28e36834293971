----------------------------- MODULE Subsequences -----------------------------
(***************************************************************************)
(* The entries of a sequence at some of its positions, in order, by their  *)
(* rank among these positions: what an ordered dictionary keeps when some  *)
(* of its keys are deleted.                                                *)
(***************************************************************************)
EXTENDS Naturals, Sequences, FiniteSets

\* The n-th smallest number of K.
Nth(K, n) == CHOOSE i \in K : Cardinality({j \in K : j <= i}) = n

\* The entries of s at the positions in K.
KeepAt(s, K) == [n \in 1 .. Cardinality(K) |-> s[Nth(K, n)]]
=============================================================================

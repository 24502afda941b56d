---------------------------- MODULE Subsequences ----------------------------
(* The part of a sequence at some of its positions, without recursion, so   *)
(* that it can be reasoned about.                                           *)
EXTENDS Naturals, Sequences, FiniteSets

\* The k-th of a finite set of numbers, in ascending order.
Nth(P, k) == CHOOSE i \in P : Cardinality({j \in P : j <= i}) = k

\* The elements of s at the positions P, in their order.
Subsequence(s, P) == [k \in 1 .. Cardinality(P) |-> s[Nth(P, k)]]
=============================================================================

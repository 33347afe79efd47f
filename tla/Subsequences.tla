---------------------------- MODULE Subsequences ----------------------------
(***************************************************************************)
(* The elements of a sequence at some of its positions, in their order:    *)
(* what SelectSeq says, given by the positions that are kept.              *)
(***************************************************************************)
EXTENDS Integers, Sequences, FiniteSets

\* The n-th of a set of positions.
Nth(I, n) == CHOOSE i \in I : Cardinality({j \in I : j <= i}) = n

\* The elements of s at the positions in I, a subset of DOMAIN s.
Keeping(s, I) == [n \in 1 .. Cardinality(I) |-> s[Nth(I, n)]]
=============================================================================

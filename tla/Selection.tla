----------------------------- MODULE Selection -----------------------------
(***************************************************************************)
(* The part of a sequence that stands at given positions, in its order.    *)
(* SelectSeq says the same of a test; here the positions are a set, which  *)
(* two selections can have in common.                                      *)
(***************************************************************************)
EXTENDS Integers, FiniteSets

\* The p-th of a finite set of numbers, the smallest being the first.
Nth(I, p) == CHOOSE j \in I : Cardinality({l \in I : l < j}) = p - 1

Selected(seq, I) == [p \in 1 .. Cardinality(I) |-> seq[Nth(I, p)]]
=============================================================================

----------------------------- MODULE MCJobStore -----------------------------
(* Instances of JobStore for TLC.                                          *)
EXTENDS JobStore, TLC

CONSTANTS c1, c2, c3, a1, u1, p1, upper, lower, other, standup, digest

(* Two spellings of one name, and one of another.                          *)
Folded == [s \in Spellings |-> IF s = other THEN digest ELSE standup]

Symmetry == Permutations(Calls)
=============================================================================

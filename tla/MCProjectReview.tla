-------------------------- MODULE MCProjectReview --------------------------
(***************************************************************************)
(* Three reviews: two proposals of one fact and a third one, or a chain of *)
(* two replacements.                                                       *)
(***************************************************************************)
EXTENDS ProjectReview, TLC

CONSTANTS p1, f1, f2, c1, c2

Symmetry == Permutations(Facts) \cup Permutations(Callers)
=============================================================================

---------------------------- MODULE MCPromotion ----------------------------
(***************************************************************************)
(* Two texts and two items: the items may have the same text or not, and   *)
(* a run may reach one after the other has failed.                         *)
(***************************************************************************)
EXTENDS Promotion, TLC

CONSTANTS t1, t2

Symmetry == Permutations(Texts)
=============================================================================

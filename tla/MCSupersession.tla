--------------------------- MODULE MCSupersession ---------------------------
(***************************************************************************)
(* The rows of Supersession are numbers that are compared (the newer of a  *)
(* contradiction has the larger id), so there is no symmetry to use.       *)
(***************************************************************************)
EXTENDS Supersession, FiniteSets

CONSTANT MaxRows  \* bound: how many relations and staging rows there are at a time

FewRows == Cardinality(rels) + Cardinality({p \in Pairs : staged[p] # "none"}) <= MaxRows
=============================================================================

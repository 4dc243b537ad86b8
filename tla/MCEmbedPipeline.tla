-------------------------- MODULE MCEmbedPipeline --------------------------
(***************************************************************************)
(* The ids are compared (batches are in their order) and name who is       *)
(* secret and who is poisonous; with several workers these are alike, but  *)
(* liveness is checked, so that symmetry is not used.                      *)
(***************************************************************************)
EXTENDS EmbedPipeline

CONSTANTS w1, w2
=============================================================================

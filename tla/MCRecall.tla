------------------------------- MODULE MCRecall -------------------------------
(***************************************************************************)
(* Four memories, each as good as the next ones or better: the first one   *)
(* is stronger than the second, which is not stale as the third is and of  *)
(* the project as the fourth is not.  The last two are near-duplicates;    *)
(* the third may be retired or private, the fourth is of another workspace. *)
(***************************************************************************)
EXTENDS Recall

MCDecay == <<1500, 500, 500, 500>>
MCImportance == <<4, 3, 3, 3>>
MCFrequency == <<40, 0, 0, 0>>
MCAlike == {<<3, 4>>, <<4, 3>>}
=============================================================================

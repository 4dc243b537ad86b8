---------------------------- MODULE MCLifecycle ----------------------------
(***************************************************************************)
(* Two memories, one of which may be private, and the processes of hooks;  *)
(* liveness is checked, so that their symmetry is not used.                *)
(***************************************************************************)
EXTENDS Lifecycle

CONSTANTS m1, m2, h1
=============================================================================

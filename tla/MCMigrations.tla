---------------------------- MODULE MCMigrations ----------------------------
(***************************************************************************)
(* Two hosts with different releases and the command line; the second of   *)
(* three migrations adds a column.                                         *)
(***************************************************************************)
EXTENDS Migrations

CONSTANTS older, newer, cli

MCRelease == [p \in Procs |-> IF p = older THEN 2 ELSE 3]
=============================================================================

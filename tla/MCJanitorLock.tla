--------------------------- MODULE MCJanitorLock ---------------------------
(***************************************************************************)
(* Three processes on two hosts: two share a host, so that each can see    *)
(* the other's death; the third sees only the age of the file.             *)
(***************************************************************************)
EXTENDS JanitorLock

CONSTANTS p1, p2, p3

MCOneHost == [p \in Procs |-> "server"]
MCTwoHosts == [p \in Procs |-> IF p = p3 THEN "laptop" ELSE "server"]
=============================================================================

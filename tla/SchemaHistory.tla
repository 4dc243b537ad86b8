--------------------------- MODULE SchemaHistory ---------------------------
(***************************************************************************)
(* What opening the database promises: its schema moves from one version   *)
(* to the next, each migration has its effect at the moment at which its   *)
(* version is recorded and never again, and the migrated connection is     *)
(* handed to a process only on a schema of its release, which it then      *)
(* never loses.                                                            *)
(***************************************************************************)
EXTENDS Naturals

CONSTANTS
    Procs,    \* processes that open the database
    Latest,   \* the versions are 1..Latest
    Release   \* the version each process needs

VARIABLES
    known,    \* the versions that are recorded
    effects,  \* how often each migration has had its effect
    ready     \* the processes that have the migrated connection

vars == <<known, effects, ready>>

Init ==
    /\ \E n \in 0..Latest : known = 1..n
    /\ effects = [v \in 1..Latest |-> IF v \in known THEN 1 ELSE 0]
    /\ ready = {}

Upgrade(v) ==
    /\ known = 1..(v - 1) /\ known' = 1..v
    /\ effects' = [effects EXCEPT ![v] = @ + 1]
    /\ UNCHANGED ready

Join(p) ==
    /\ p \notin ready
    /\ 1..Release[p] \subseteq known
    /\ ready' = ready \cup {p}
    /\ UNCHANGED <<known, effects>>

Leave(p) ==
    /\ p \in ready
    /\ ready' = ready \ {p}
    /\ UNCHANGED <<known, effects>>

Next ==
    \/ \E v \in 1..Latest : Upgrade(v)
    \/ \E p \in Procs : Join(p) \/ Leave(p)

Spec == Init /\ [][Next]_vars
=============================================================================

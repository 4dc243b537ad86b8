---------------------------- MODULE ExclusiveRun ----------------------------
(***************************************************************************)
(* What <db>.janitor.lock promises to its callers: a lease, not a mutex.   *)
(* A run may start only when every run still in progress has been evicted, *)
(* that is, has had its lock file taken away by somebody else; and ending  *)
(* a run may evict another one only if the run that ends was itself        *)
(* evicted before; a process that dies takes its runs with it.             *)
(***************************************************************************)
CONSTANT Procs

VARIABLES holders,  \* processes between a successful acquire and release
          evicted   \* holders whose lock file somebody else has removed

vars == <<holders, evicted>>

Init == holders = {} /\ evicted = {}

Acquire(p) ==
    /\ p \notin holders
    /\ holders \subseteq evicted
    /\ holders' = holders \cup {p}
    /\ UNCHANGED evicted

Evict(p) ==
    /\ p \in holders
    /\ evicted' = evicted \cup {p}
    /\ UNCHANGED holders

Release(p) ==
    /\ p \in holders
    /\ holders' = holders \ {p}
    /\ \/ evicted' = evicted \ {p}
       \/ /\ p \in evicted
          /\ \E q \in holders \ {p} : evicted' = (evicted \ {p}) \cup {q}

\* Several runs may be tasks of one process.
Die(gone) ==
    /\ gone \subseteq holders
    /\ holders' = holders \ gone /\ evicted' = evicted \ gone

Next ==
    \/ \E p \in Procs : Acquire(p) \/ Evict(p) \/ Release(p)
    \/ \E gone \in SUBSET Procs : Die(gone)

Spec == Init /\ [][Next]_vars
=============================================================================

--------------------------- MODULE ReviewedFacts ---------------------------
(***************************************************************************)
(* What the reviewed memory of a project promises to an agent: a fact is   *)
(* shown after somebody admitted it, and once withdrawn it does not come   *)
(* back, unless it has been forgotten and is admitted anew.                *)
(***************************************************************************)
CONSTANT Keys   \* facts of projects

VARIABLES
    shown,      \* the facts an agent is given
    withdrawn   \* the facts that were, or would have been, shown once

vars == <<shown, withdrawn>>

Init == shown = {} /\ withdrawn = {}

Admit(k) ==
    /\ k \notin shown \cup withdrawn
    /\ shown' = shown \cup {k}
    /\ UNCHANGED withdrawn

Withdraw(k) ==
    /\ k \notin withdrawn
    /\ shown' = shown \ {k}
    /\ withdrawn' = withdrawn \cup {k}

Forget(k) ==
    /\ shown' = shown \ {k}
    /\ withdrawn' = withdrawn \ {k}

Next == \E k \in Keys : Admit(k) \/ Withdraw(k) \/ Forget(k)

Spec == Init /\ [][Next]_vars
=============================================================================

----------------------------- MODULE JanitorRuns -----------------------------
(***************************************************************************)
(* Who runs the janitor, and when: runOnce of cli/janitor.ts and runJanitor *)
(* of janitor/index.ts.                                                    *)
(*                                                                         *)
(* A timer, the end of a session, a daemon and the user start              *)
(* "ltm janitor run" in a process of its own, mostly with --if-due; the    *)
(* graph server runs the same pipeline on an interval and on request.  The *)
(* lock file is what ExclusiveRun promises, a lease.  The steps of a run   *)
(* are grouped by where they wait: the embedding provider, nothing, the    *)
(* LLM, the writes of the settings.  Every step but the last is caught, so *)
(* that its failure shows only in the exit code.                           *)
(***************************************************************************)
EXTENDS Naturals

CONSTANTS
    Tasks,     \* the callers of the janitor
    Processes,
    Process,   \* the process of a task
    Server,    \* tasks of a graph server; the others have a process each
    IfDue,     \* tasks of the command line with --if-due
    Interval,  \* the interval that such a task resolves (flag, environment, setting)
    Horizon,   \* bound: the clock stops counting there
    MaxFaults  \* bound: crashes, hangs, failed writes, runs that are too slow

ASSUME RunsAssumption ==
    /\ Process \in [Tasks -> Processes]
    /\ Server \subseteq Tasks /\ IfDue \subseteq Tasks \ Server
    /\ \A t \in Tasks \ Server, u \in Tasks : Process[t] = Process[u] => t = u
    /\ Horizon \in Nat /\ MaxFaults \in Nat
    /\ Interval \in [IfDue -> 1..Horizon]

VARIABLES
    holders, evicted, \* the lock
    pc,       \* where a task is
    stuck,    \* tasks whose provider does not answer
    running,  \* processes with _running set
    since,    \* time since ltm.janitor.lastRunAt
    late,     \* tasks whose lock was taken away although they go on
    faults

lock == <<holders, evicted>>
vars == <<lock, pc, stuck, running, since, late, faults>>

Lock == INSTANCE ExclusiveRun WITH Procs <- Tasks

Waiting == {"embed", "dedup"}        \* for a provider
Working == {"embed", "curate", "dedup"}
Recording == {"record", "stats"}

Init ==
    /\ Lock!Init
    /\ pc = [t \in Tasks |-> "off"]
    /\ stuck = {} /\ running = {}
    /\ since \in 0..Horizon
    /\ late = {} /\ faults = 0

At(t, from, to) == pc[t] = from /\ pc' = [pc EXCEPT ![t] = to]

Fault == faults < MaxFaults /\ faults' = faults + 1

\* The finally of runOnce and of runJanitorExclusive.
Return(t) ==
    /\ pc' = [pc EXCEPT ![t] = "off"]
    /\ Lock!Release(t)
    /\ late' = late \cup (evicted' \ evicted)

-----------------------------------------------------------------------------
\* runOnce: who does not get the lock exits.
Acquire(t) ==
    /\ t \notin Server
    /\ At(t, "off", "locked")
    /\ Lock!Acquire(t)
    /\ UNCHANGED <<stuck, running, since, late, faults>>

\* isJanitorDue
Due(t) == t \in IfDue => since >= Interval[t]

\* Mutant: the return of a run that is not due leaves the lock.
CheckKeepingLock(t) ==
    /\ \/ Due(t) /\ At(t, "locked", "checked")
       \/ ~Due(t) /\ At(t, "locked", "off")
    /\ UNCHANGED <<lock, stuck, running, since, late, faults>>

\* The database is opened, which may fail, and --if-due is decided under the lock.
Check(t) ==
    /\ pc[t] = "locked"
    /\ \/ Due(t) /\ At(t, "locked", "checked") /\ UNCHANGED <<lock, late, faults>>
       \/ ~Due(t) /\ Return(t) /\ UNCHANGED faults
       \/ Fault /\ Return(t)
    /\ UNCHANGED <<stuck, running, since>>

\* runJanitor
Start(t) ==
    /\ At(t, "checked", "embed")
    /\ running' = running \cup {Process[t]}
    /\ UNCHANGED <<lock, stuck, since, late, faults>>

\* Mutant: the lock is taken to be enough.
ServeAnyway(t) ==
    /\ t \in Server
    /\ At(t, "off", "embed")
    /\ Lock!Acquire(t)
    /\ running' = running \cup {Process[t]}
    /\ UNCHANGED <<stuck, since, late, faults>>

\* runJanitorExclusive on the interval, and POST /api/janitor/run: the lock is
\* taken, and a run in the same process refuses.
Serve(t) ==
    /\ t \in Server
    /\ Process[t] \notin running
    /\ At(t, "off", "embed")
    /\ Lock!Acquire(t)
    /\ running' = running \cup {Process[t]}
    /\ UNCHANGED <<stuck, since, late, faults>>

\* embedMissingMemories
Embed(t) ==
    /\ t \notin stuck /\ At(t, "embed", "curate")
    /\ UNCHANGED <<lock, stuck, running, since, late, faults>>

\* runDecay, runArchive, runPromote, runAutoAccept, stageContradictions
Curate(t) ==
    /\ At(t, "curate", "dedup")
    /\ UNCHANGED <<lock, stuck, running, since, late, faults>>

\* Mutant: the lock is released when the steps are done.
DedupReleasing(t) ==
    /\ t \notin stuck /\ At(t, "dedup", "record")
    /\ running' = running \ {Process[t]}
    /\ Lock!Release(t)
    /\ UNCHANGED <<stuck, since, late, faults>>

\* findDuplicates; the finally that clears _running.
Dedup(t) ==
    /\ t \notin stuck /\ At(t, "dedup", "record")
    /\ running' = running \ {Process[t]}
    /\ UNCHANGED <<lock, stuck, since, late, faults>>

\* setSetting(JANITOR_LAST_RUN_AT), or the exception of a failed write.
Record(t) ==
    /\ pc[t] = "record"
    /\ \/ At(t, "record", "stats") /\ since' = 0 /\ UNCHANGED <<lock, late, faults>>
       \/ Fault /\ Return(t) /\ UNCHANGED since
    /\ UNCHANGED <<stuck, running>>

\* The numbers of the run, the checkpoint, the return.
Finish(t) ==
    /\ pc[t] = "stats" /\ Return(t)
    /\ UNCHANGED <<stuck, running, since, faults>>

-----------------------------------------------------------------------------
\* The provider does not answer, ever.
Hang(t) ==
    /\ pc[t] \in Waiting /\ t \notin stuck /\ Fault
    /\ stuck' = stuck \cup {t}
    /\ UNCHANGED <<lock, pc, running, since, late>>

\* --max-minutes: only the command line has it.
Abort(t) ==
    /\ t \notin Server
    /\ pc[t] \in Working \cup Recording
    /\ \/ t \in stuck /\ UNCHANGED faults
       \/ t \notin stuck /\ Fault
    /\ Return(t)
    /\ running' = running \ {Process[t]} /\ stuck' = stuck \ {t}
    /\ UNCHANGED since

\* A lock of more than six hours may be taken away: from a run that hangs, or
\* from one that goes on (a machine that was suspended).
Evict(t) ==
    /\ t \notin evicted /\ Lock!Evict(t)
    /\ \/ t \in stuck /\ UNCHANGED <<late, faults>>
       \/ t \notin stuck /\ Fault /\ late' = late \cup {t}
    /\ UNCHANGED <<pc, stuck, running, since>>

\* A process dies; the lock file it leaves protects nothing.
Crash(p) ==
    LET dead == {t \in Tasks : Process[t] = p /\ pc[t] # "off"}
    IN  /\ dead # {} /\ Fault
        /\ pc' = [t \in Tasks |-> IF t \in dead THEN "off" ELSE pc[t]]
        /\ holders' = holders \ dead /\ evicted' = evicted \ dead
        /\ stuck' = stuck \ dead /\ running' = running \ {p}
        /\ UNCHANGED <<since, late>>

Tick ==
    /\ since < Horizon /\ since' = since + 1
    /\ UNCHANGED <<lock, pc, stuck, running, late, faults>>

Step(t) ==
    \/ Acquire(t) \/ Check(t) \/ Start(t) \/ Serve(t) \/ Embed(t) \/ Curate(t)
    \/ Dedup(t) \/ Record(t) \/ Finish(t)

Next ==
    \/ \E t \in Tasks : Step(t) \/ Hang(t) \/ Abort(t) \/ Evict(t)
    \/ \E p \in Processes : Crash(p)
    \/ Tick

Spec == Init /\ [][Next]_vars

\* A process that is not stuck runs on; the timer fires again and again, and so
\* finds the lock free if it is free again and again; the watchdog fires, and
\* so does the age of a lock.
FairSpec ==
    /\ Spec
    /\ \A t \in Tasks : WF_vars(Step(t) /\ pc[t] # "off")
    /\ \A t \in IfDue : SF_vars(Acquire(t))
    /\ \A t \in Tasks : WF_vars(t \in stuck /\ Abort(t)) /\ WF_vars(t \in stuck /\ Evict(t))

-----------------------------------------------------------------------------
TypeOK ==
    /\ holders \subseteq Tasks /\ evicted \subseteq holders
    /\ pc \in [Tasks -> {"off", "locked", "checked"} \cup Working \cup Recording]
    /\ stuck \subseteq {t \in Tasks : pc[t] \in Waiting}
    /\ running \subseteq Processes
    /\ since \in 0..Horizon
    /\ late \subseteq Tasks
    /\ faults \in 0..MaxFaults

\* Of the runs in progress, on whatever trigger and until the last setting is
\* written, at most one still has the lock.
OneCurator ==
    \A t, u \in Tasks :
        pc[t] # "off" /\ pc[u] # "off" /\ {t, u} \cap evicted = {} => t = u

\* Within a process the steps of two runs never overlap, not even when the lock
\* was taken from the first one after six hours.
OneRunPerProcess ==
    \A t, u \in Tasks :
        pc[t] \in Working /\ pc[u] \in Working /\ Process[t] = Process[u] => t = u

\* The timer, the end of a session and the daemon do not double up: a run with
\* --if-due starts only when nothing has been recorded for its interval.
Throttled ==
    [][\A t \in IfDue :
        pc[t] = "checked" /\ pc'[t] = "embed" /\ late = {} => since >= Interval[t]]_vars

\* When nothing was recorded for the longest interval, a run is: no lock is left
\* behind, and no hang stops more than one process.
DueIsRun == since = Horizon ~> since = 0
=============================================================================

----------------------------- MODULE JanitorLock -----------------------------
(***************************************************************************)
(* The cross-process lock file of the janitor (janitor/lock.ts), also used *)
(* under another name around the migrations (shared-db.ts, migrateDb).     *)
(*                                                                         *)
(* acquireJanitorLock is a sequence of system calls on one path; another   *)
(* process may do anything between two of them:                            *)
(*                                                                         *)
(*   Look    existsSync + statSync    is there a lock, how old is it       *)
(*   Read    readFileSync             whose is it                          *)
(*   Probe   kill(pid, 0)             is the owner that was read dead      *)
(*   Rename  renameSync + unlinkSync  reclaim what was judged stale        *)
(*   Open    openSync "wx"            create, or fail when it exists       *)
(*   Write   writeSync                put the owner into the file          *)
(*                                                                         *)
(* and release() is Release (read, compare) then Unlink.  The clock is the *)
(* age class of the file, the only thing the code compares it with.        *)
(***************************************************************************)
EXTENDS Naturals

CONSTANTS
    Procs,       \* the processes that may run the janitor (a pid each)
    NoOwner,     \* the owner of the lock file when there is no file
    HostOf,      \* HostOf[p]: the host p runs on
    ShortLived,  \* processes that end when their run is over (CLI, SessionEnd)
    MaxAge,      \* bound: the oldest age class a lock file reaches
    MaxCrashes   \* bound: how many crashes a behaviour has

Fresh   == 0     \* younger than the 5 s grace of an unreadable file
Settled == 1     \* older than 5 s, younger than maxAgeMs
Expired == 2     \* older than maxAgeMs

ASSUME ProcsAssumption == NoOwner \notin Procs /\ ShortLived \subseteq Procs
ASSUME BoundsAssumption == MaxAge \in Fresh..Expired /\ MaxCrashes \in Nat

VARIABLES
    owner,     \* who created the file at the path now, or NoOwner
    written,   \* its content is on disk
    age,       \* its age class
    pc,        \* where each process stands
    seen,      \* the age class each process read with stat
    holder,    \* the owner each process read from the file and is to probe
    evicted,   \* running processes whose file somebody else removed (history)
    crashes    \* crashes so far

vars == <<owner, written, age, pc, seen, holder, evicted, crashes>>

Points == {"idle", "read", "probe", "rename", "open", "write", "run", "unlink",
           "dead"}

\* Processes between the creation of their lock file and the end of release().
Running == {p \in Procs : pc[p] \in {"write", "run", "unlink"}}

Exists == owner # NoOwner
Readable == Exists /\ written

At(p, point) == pc[p] = point
Goto(p, point) == pc' = [pc EXCEPT ![p] = point]

\* Mutant: the content of the removed file is still taken for the lock's.
RemoveFileKeepingContent(by) ==
    /\ owner' = NoOwner
    /\ age' = Fresh
    /\ evicted' = (evicted \cup ({owner} \cap Running)) \ {by}
    /\ UNCHANGED written

\* The path no longer names a file; whoever runs under it is evicted.
RemoveFile(by) ==
    /\ owner' = NoOwner
    /\ written' = FALSE
    /\ age' = Fresh
    /\ evicted' = (evicted \cup ({owner} \cap Running)) \ {by}

FileUnchanged == UNCHANGED <<owner, written, age, evicted>>

-----------------------------------------------------------------------------
Init ==
    /\ owner = NoOwner
    /\ written = FALSE
    /\ age = Fresh
    /\ pc = [p \in Procs |-> "idle"]
    /\ seen = [p \in Procs |-> Fresh]
    /\ holder = [p \in Procs |-> NoOwner]
    /\ evicted = {}
    /\ crashes = 0

\* Mutant: a lock is never too old.
LookWithoutMaxAge(p) ==
    /\ At(p, "idle")
    /\ \/ ~Exists /\ Goto(p, "open") /\ UNCHANGED seen
       \/ Exists /\ Goto(p, "read") /\ seen' = [seen EXCEPT ![p] = age]
    /\ FileUnchanged /\ UNCHANGED <<holder, crashes>>

\* existsSync(path), then the stat of isJanitorLockStale.
Look(p) ==
    /\ At(p, "idle")
    /\ \/ ~Exists /\ Goto(p, "open") /\ UNCHANGED seen
       \/ Exists /\ age = Expired /\ Goto(p, "rename") /\ UNCHANGED seen
       \/ /\ Exists /\ age # Expired /\ Goto(p, "read")
          /\ seen' = [seen EXCEPT ![p] = age]
    /\ FileUnchanged /\ UNCHANGED <<holder, crashes>>

\* readFileSync: unreadable content is judged by the age of the earlier stat,
\* a lock of another host is left alone, one of this host has its pid probed.
Read(p) ==
    /\ At(p, "read")
    /\ \/ ~Readable /\ seen[p] > Fresh /\ Goto(p, "rename") /\ UNCHANGED holder
       \/ ~Readable /\ seen[p] = Fresh /\ Goto(p, "open") /\ UNCHANGED holder
       \/ /\ Readable /\ HostOf[owner] # HostOf[p]
          /\ Goto(p, "open") /\ UNCHANGED holder
       \/ /\ Readable /\ HostOf[owner] = HostOf[p]
          /\ Goto(p, "probe") /\ holder' = [holder EXCEPT ![p] = owner]
    /\ FileUnchanged /\ UNCHANGED <<seen, crashes>>

\* process.kill(pid, 0) of the owner read before, which may have ended since,
\* or have been replaced by another process at the path.
Probe(p) ==
    /\ At(p, "probe")
    /\ Goto(p, IF At(holder[p], "dead") THEN "rename" ELSE "open")
    /\ holder' = [holder EXCEPT ![p] = NoOwner]
    /\ FileUnchanged /\ UNCHANGED <<seen, crashes>>

\* The rename moves whatever file the path names by now; ENOENT is caught.
Rename(p) ==
    /\ At(p, "rename")
    /\ IF Exists THEN RemoveFile(p) ELSE FileUnchanged
    /\ Goto(p, "open")
    /\ UNCHANGED <<seen, holder, crashes>>

Create(p) ==
    /\ ~Exists
    /\ owner' = p
    /\ written' = FALSE
    /\ age' = Fresh
    /\ Goto(p, "write")
    /\ UNCHANGED evicted

\* openSync(path, "wx"): creates the file, or { acquired: false }.
Open(p) ==
    /\ At(p, "open")
    /\ Create(p) \/ (Exists /\ Goto(p, "idle") /\ FileUnchanged)
    /\ UNCHANGED <<seen, holder, crashes>>

\* The content goes through the descriptor: a file renamed away meanwhile
\* takes it along, and acquireJanitorLock still reports success.
Write(p) ==
    /\ At(p, "write")
    /\ IF owner = p THEN written' = TRUE /\ age' = Fresh
                    ELSE UNCHANGED <<written, age>>
    /\ Goto(p, "run")
    /\ UNCHANGED <<owner, evicted, seen, holder, crashes>>

\* release(): somebody else's readable lock is left alone; one's own, a
\* missing one and an unreadable one are all unlinked.
Release(p) ==
    /\ At(p, "run")
    /\ \/ /\ Readable /\ owner # p
          /\ Goto(p, "idle")
          /\ evicted' = evicted \ {p}
          /\ UNCHANGED <<owner, written, age>>
       \/ /\ ~(Readable /\ owner # p)
          /\ Goto(p, "unlink") /\ FileUnchanged
    /\ UNCHANGED <<seen, holder, crashes>>

\* Mutant: the lock is released before the run is over.
UnlinkEarly(p) ==
    /\ At(p, "unlink")
    /\ RemoveFile(p)
    /\ Goto(p, "run")
    /\ UNCHANGED <<seen, holder, crashes>>

Unlink(p) ==
    /\ At(p, "unlink")
    /\ RemoveFile(p)
    /\ Goto(p, "idle")
    /\ UNCHANGED <<seen, holder, crashes>>

\* A process dies wherever it is and leaves its lock file behind.
Crash(p) ==
    /\ ~At(p, "dead")
    /\ crashes < MaxCrashes
    /\ crashes' = crashes + 1
    /\ Goto(p, "dead")
    /\ evicted' = evicted \ {p}
    /\ holder' = [holder EXCEPT ![p] = NoOwner]
    /\ UNCHANGED <<owner, written, age, seen>>

\* A process that is not in a run ends the ordinary way.
Exit(p) ==
    /\ p \in ShortLived
    /\ At(p, "idle")
    /\ Goto(p, "dead")
    /\ FileUnchanged /\ UNCHANGED <<seen, holder, crashes>>

\* A process with the same pid comes up (a daemon in a restarted container, a
\* CLI started again).
Restart(p) ==
    /\ At(p, "dead")
    /\ Goto(p, "idle")
    /\ FileUnchanged /\ UNCHANGED <<seen, holder, crashes>>

Tick ==
    /\ Exists
    /\ age < MaxAge
    /\ age' = age + 1
    /\ UNCHANGED <<owner, written, pc, seen, holder, evicted, crashes>>

Step(p) == Look(p) \/ Read(p) \/ Probe(p) \/ Rename(p) \/ Open(p) \/ Write(p)
             \/ Release(p) \/ Unlink(p)

Next == Tick \/ \E p \in Procs : Step(p) \/ Crash(p) \/ Exit(p) \/ Restart(p)

Spec == Init /\ [][Next]_vars

\* Timers and the daemon loop keep trying, a run ends (the CLI has a
\* watchdog), a process that ended is started again, and time passes.
Fairness ==
    /\ WF_vars(Tick)
    /\ \A p \in Procs : WF_vars(Step(p)) /\ WF_vars(Restart(p))

FairSpec == Spec /\ Fairness

-----------------------------------------------------------------------------
TypeOK ==
    /\ owner \in Procs \cup {NoOwner}
    /\ written \in BOOLEAN /\ (written => Exists)
    /\ age \in Fresh..MaxAge
    /\ pc \in [Procs -> Points]
    /\ seen \in [Procs -> Fresh..MaxAge]
    /\ holder \in [Procs -> Procs \cup {NoOwner}]
    /\ \A p \in Procs : At(p, "probe") <=> holder[p] # NoOwner
    /\ evicted \subseteq Running
    /\ crashes \in 0..MaxCrashes

\* A process whose file nobody took away runs alone: of two processes between
\* acquire and release, one has lost its lock file (janitor/lock.ts "wx").
ExclusiveUnlessEvicted ==
    \A p, q \in Running : p # q => p \in evicted \/ q \in evicted

\* The path of a process that still has its lock names that process's file,
\* which is what makes the "wx" create of every other process fail.
LockNamesItsHolder == \A p \in Running \ evicted : owner = p

\* Two processes never curate one database at once (comment of
\* runJanitorExclusive, janitor/index.ts).
Curating == {p \in Procs : pc[p] = "run"}
MutualExclusion == \A p, q \in Curating : p = q

\* The lock promises a lease: see ExclusiveRun.
Lease == INSTANCE ExclusiveRun WITH holders <- Running, evicted <- evicted
ImplementsLease == Lease!Spec

\* Every abandoned lock file is eventually taken away: its owner is dead, or a
\* new process has its pid and is not in a run.
Abandoned == Exists /\ owner \notin Running
AbandonedIsReclaimed == Abandoned ~> ~Abandoned
=============================================================================

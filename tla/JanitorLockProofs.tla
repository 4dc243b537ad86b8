-------------------------- MODULE JanitorLockProofs --------------------------
(***************************************************************************)
(* Proofs about the janitor lock, for any set of processes, hosts, number  *)
(* of crashes and age of the files.                                        *)
(*                                                                         *)
(* ExclusiveUnlessEvicted is not inductive.  It follows from               *)
(* LockNamesItsHolder, which is inductive with TypeOK: the only steps that *)
(* change the owner of the path are the "wx" create, which needs the path  *)
(* to be free, and RemoveFile, which evicts the owner it removes.          *)
(***************************************************************************)
EXTENDS JanitorLock, TLAPS

Inv == TypeOK /\ LockNamesItsHolder

\* A file just written or removed has an age of the model.
LEMMA FreshInRange == Fresh \in Fresh..MaxAge /\ 0 \in 0..MaxCrashes
  BY BoundsAssumption DEF Fresh, Expired

\* The initial state: nobody runs.
LEMMA InitInv == Init => Inv
  <1> SUFFICES ASSUME Init PROVE Inv
    OBVIOUS
  <1>1. Running = {}
    BY DEF Init, Running
  <1> QED
    BY <1>1, FreshInRange DEF Init, Inv, TypeOK, LockNamesItsHolder, Points, At

\* What removing the file does to the processes that run, whoever removes it
\* and wherever it goes then, provided nobody else moves.
LEMMA RemoveFileEvicts ==
  ASSUME Inv, NEW p \in Procs, RemoveFile(p), NEW point \in Points \ {"write", "run", "unlink"},
         Goto(p, point)
  PROVE  /\ Running' = Running \ {p}
         /\ evicted' \subseteq Running'
         /\ Running' \ evicted' = {}
  <1>1. Running' = Running \ {p}
    BY DEF Inv, TypeOK, Running, Goto, Points
  <1>2. Running \ evicted \subseteq {owner}
    BY DEF Inv, LockNamesItsHolder
  <1> QED
    BY <1>1, <1>2 DEF RemoveFile, Inv, TypeOK

\* Every step of the protocol keeps the invariant.
LEMMA StepInv ==
  ASSUME Inv, NEW p \in Procs, Step(p)
  PROVE  Inv'
  <1> USE DEF At, Goto
  <1>1. CASE Look(p)
    BY <1>1 DEF Inv, TypeOK, LockNamesItsHolder, Look, Running, FileUnchanged, Points, Exists
  <1>2. CASE Read(p)
    <2>1. CASE Readable /\ HostOf[owner] = HostOf[p]
      BY <1>2, <2>1, ProcsAssumption
         DEF Inv, TypeOK, Exists, Readable, LockNamesItsHolder, Read, Running, FileUnchanged, Points
    <2>2. CASE ~(Readable /\ HostOf[owner] = HostOf[p])
      <3>1. UNCHANGED holder /\ pc' \in {[pc EXCEPT ![p] = "rename"], [pc EXCEPT ![p] = "open"]}
        BY <1>2, <2>2 DEF Read
      <3> QED
        BY <1>2, <3>1 DEF Inv, TypeOK, Exists, LockNamesItsHolder, Read, Running, FileUnchanged, Points
    <2> QED BY <2>1, <2>2
  <1>8. CASE Probe(p)
    BY <1>8 DEF Inv, TypeOK, Exists, LockNamesItsHolder, Probe, Running, FileUnchanged, Points
  <1>3. CASE Rename(p)
    <2>1. CASE Exists
      <3>1. RemoveFile(p) /\ Goto(p, "open")
        BY <1>3, <2>1 DEF Rename
      <3>2. evicted' \subseteq Running' /\ Running' \ evicted' = {}
        BY <3>1, RemoveFileEvicts DEF Points
      <3> QED
        BY <3>1, <3>2, <1>3, FreshInRange
           DEF Inv, TypeOK, LockNamesItsHolder, Rename, RemoveFile, Goto, Points
    <2>2. CASE ~Exists
      BY <1>3, <2>2 DEF Inv, TypeOK, LockNamesItsHolder, Rename, Running, FileUnchanged, Points
    <2> QED BY <2>1, <2>2
  <1>4. CASE Open(p)
    <2>1. CASE Create(p)
      <3>1. Running \ evicted = {}
        BY <2>1, ProcsAssumption DEF Inv, TypeOK, LockNamesItsHolder, Create, Exists, Running
      <3>2. Running' = Running \cup {p}
        BY <2>1, <1>4 DEF Inv, TypeOK, Create, Running, Open
      <3> QED
        BY <1>4, <2>1, <3>1, <3>2, FreshInRange
           DEF Inv, TypeOK, LockNamesItsHolder, Open, Create, Points
    <2>2. CASE Exists /\ Goto(p, "idle") /\ FileUnchanged
      BY <1>4, <2>2 DEF Inv, TypeOK, Exists, LockNamesItsHolder, Open, Running, FileUnchanged, Points
    <2> QED BY <1>4, <2>1, <2>2 DEF Open
  <1>5. CASE Write(p)
    <2>1. Running' = Running
      BY <1>5 DEF Inv, TypeOK, Write, Running
    <2> QED
      BY <1>5, <2>1, FreshInRange, ProcsAssumption DEF Inv, TypeOK, Exists, LockNamesItsHolder, Write, Points
  <1>6. CASE Release(p)
    BY <1>6 DEF Inv, TypeOK, Exists, LockNamesItsHolder, Release, Running, FileUnchanged, Points
  <1>7. CASE Unlink(p)
    <2>1. RemoveFile(p) /\ Goto(p, "idle")
      BY <1>7 DEF Unlink
    <2>2. evicted' \subseteq Running' /\ Running' \ evicted' = {}
      BY <2>1, RemoveFileEvicts DEF Points
    <2> QED
      BY <2>1, <2>2, <1>7, FreshInRange
         DEF Inv, TypeOK, LockNamesItsHolder, Unlink, RemoveFile, Points
  <1> QED
    BY <1>1, <1>2, <1>3, <1>4, <1>5, <1>6, <1>7, <1>8 DEF Step

\* So do crashes, exits, restarts and the clock.
LEMMA NextInv == Inv /\ [Next]_vars => Inv'
  <1> SUFFICES ASSUME Inv, [Next]_vars PROVE Inv'
    OBVIOUS
  <1>1. CASE UNCHANGED vars
    BY <1>1 DEF vars, Inv, TypeOK, Exists, LockNamesItsHolder, Running, At
  <1>2. CASE Tick
    BY <1>2, BoundsAssumption
       DEF Tick, Inv, TypeOK, Exists, LockNamesItsHolder, Running, Fresh, Settled, Expired, At
  <1>3. ASSUME NEW p \in Procs, Step(p) PROVE Inv'
    BY <1>3, StepInv
  <1>4. ASSUME NEW p \in Procs, Crash(p) PROVE Inv'
    BY <1>4, BoundsAssumption
       DEF Crash, Inv, TypeOK, Exists, LockNamesItsHolder, Running, At, Goto, Points
  <1>5. ASSUME NEW p \in Procs, Restart(p) PROVE Inv'
    BY <1>5 DEF Restart, Inv, TypeOK, Exists, LockNamesItsHolder, Running, At, Goto, Points, FileUnchanged
  <1>6. ASSUME NEW p \in Procs, Exit(p) PROVE Inv'
    BY <1>6 DEF Exit, Inv, TypeOK, Exists, LockNamesItsHolder, Running, At, Goto, Points, FileUnchanged
  <1> QED
    BY <1>1, <1>2, <1>3, <1>4, <1>5, <1>6 DEF Next

\* The inductive invariant holds in every reachable state.
THEOREM Invariance == Spec => []Inv
  BY InitInv, NextInv, PTL DEF Spec

\* Type correctness of the lock model.
THEOREM TypeCorrect == Spec => []TypeOK
  <1>1. Inv => TypeOK
    BY DEF Inv
  <1> QED BY <1>1, Invariance, PTL

\* Of two processes between acquire and release, one has lost its lock file:
\* whatever the interleaving of the system calls, the crashes and the clock.
THEOREM ExclusionTheorem == Spec => []ExclusiveUnlessEvicted
  <1>1. Inv => ExclusiveUnlessEvicted
    BY DEF Inv, LockNamesItsHolder, ExclusiveUnlessEvicted
  <1> QED BY <1>1, Invariance, PTL

-----------------------------------------------------------------------------
\* Two steps that leave the runs and the evictions alone are one for ExclusiveRun.
LEMMA StutterMaps ==
  ASSUME Running' = Running, evicted' = evicted
  PROVE  [Lease!Next]_(Lease!vars)
  BY DEF Lease!vars

\* Each step of the protocol is a step of ExclusiveRun, or none.
LEMMA StepMaps ==
  ASSUME Inv, NEW p \in Procs, Step(p)
  PROVE  [Lease!Next]_(Lease!vars)
  <1> USE DEF At, Goto
  <1>1. CASE Look(p) \/ Read(p) \/ Probe(p) \/ Write(p)
    <2>1. Running' = Running /\ evicted' = evicted
      BY <1>1 DEF Inv, TypeOK, Look, Read, Probe, Write, Running, FileUnchanged
    <2> QED BY <2>1, StutterMaps
  <1>2. CASE Rename(p)
    <2>1. Running' = Running
      BY <1>2 DEF Inv, TypeOK, Rename, Running
    <2>2. p \notin evicted
      BY <1>2 DEF Inv, TypeOK, Rename, Running
    <2>3. CASE Exists /\ owner \in Running
      <3>1. evicted' = evicted \cup {owner}
        BY <1>2, <2>2, <2>3 DEF Rename, RemoveFile, Running
      <3>2. Lease!Evict(owner) /\ owner \in Procs
        BY <2>1, <2>3, <3>1 DEF Lease!Evict, Running
      <3> QED BY <3>2 DEF Lease!Next
    <2>4. CASE ~(Exists /\ owner \in Running)
      <3>1. evicted' = evicted
        BY <1>2, <2>2, <2>4 DEF Rename, RemoveFile, FileUnchanged
      <3> QED BY <2>1, <3>1, StutterMaps
    <2> QED BY <2>3, <2>4
  <1>3. CASE Open(p)
    <2>1. CASE Create(p)
      <3>1. Running \ evicted = {}
        BY <2>1, ProcsAssumption DEF Inv, TypeOK, LockNamesItsHolder, Create, Exists, Running
      <3>2. Running' = Running \cup {p} /\ p \notin Running /\ evicted' = evicted
        BY <2>1, <1>3 DEF Inv, TypeOK, Create, Running, Open
      <3>3. Lease!Acquire(p)
        BY <3>1, <3>2 DEF Lease!Acquire
      <3> QED BY <3>3 DEF Lease!Next
    <2>2. CASE Exists /\ Goto(p, "idle") /\ FileUnchanged
      <3>1. Running' = Running /\ evicted' = evicted
        BY <1>3, <2>2 DEF Inv, TypeOK, Open, Running, FileUnchanged
      <3> QED BY <3>1, StutterMaps
    <2> QED BY <1>3, <2>1, <2>2 DEF Open
  <1>4. CASE Release(p)
    <2>1. CASE pc' = [pc EXCEPT ![p] = "unlink"]
      <3>1. Running' = Running /\ evicted' = evicted
        BY <1>4, <2>1 DEF Inv, TypeOK, Release, Running, FileUnchanged
      <3> QED BY <3>1, StutterMaps
    <2>2. CASE pc' = [pc EXCEPT ![p] = "idle"] /\ evicted' = evicted \ {p}
      <3>1. Running' = Running \ {p} /\ p \in Running
        BY <1>4, <2>2 DEF Inv, TypeOK, Release, Running
      <3>2. Lease!Release(p)
        BY <2>2, <3>1 DEF Lease!Release
      <3> QED BY <3>2 DEF Lease!Next
    <2> QED BY <1>4, <2>1, <2>2 DEF Release
  <1>5. CASE Unlink(p)
    <2>1. Running' = Running \ {p} /\ p \in Running
      BY <1>5 DEF Inv, TypeOK, Unlink, Running
    <2>2. evicted' = (evicted \cup ({owner} \cap Running)) \ {p}
      BY <1>5 DEF Unlink, RemoveFile
    <2>3. CASE owner \in Running \ {p}
      <3>1. p \in evicted
        BY <2>1, <2>3 DEF Inv, LockNamesItsHolder
      <3>2. evicted' = (evicted \ {p}) \cup {owner}
        BY <2>2, <2>3
      <3>3. Lease!Release(p)
        BY <2>1, <2>3, <3>1, <3>2 DEF Lease!Release
      <3> QED BY <3>3 DEF Lease!Next
    <2>4. CASE owner \notin Running \ {p}
      <3>1. evicted' = evicted \ {p}
        BY <2>2, <2>4
      <3>2. Lease!Release(p)
        BY <2>1, <3>1 DEF Lease!Release
      <3> QED BY <3>2 DEF Lease!Next
    <2> QED BY <2>3, <2>4
  <1> QED
    BY <1>1, <1>2, <1>3, <1>4, <1>5 DEF Step

\* A crash ends a run without removing a file; the rest stutters.
LEMMA NextMaps == Inv /\ [Next]_vars => [Lease!Next]_(Lease!vars)
  <1> SUFFICES ASSUME Inv, [Next]_vars PROVE [Lease!Next]_(Lease!vars)
    OBVIOUS
  <1>1. CASE UNCHANGED vars \/ Tick
    <2>1. Running' = Running /\ evicted' = evicted
      BY <1>1 DEF vars, Tick, Running
    <2> QED BY <2>1, StutterMaps
  <1>2. ASSUME NEW p \in Procs, Step(p) PROVE [Lease!Next]_(Lease!vars)
    BY <1>2, StepMaps
  <1>3. ASSUME NEW p \in Procs, Crash(p) PROVE [Lease!Next]_(Lease!vars)
    <2>1. Running' = Running \ {p} /\ evicted' = evicted \ {p}
      BY <1>3 DEF Inv, TypeOK, Crash, Goto, Running
    <2>2. CASE p \in Running
      <3>1. Lease!Release(p)
        BY <2>1, <2>2 DEF Lease!Release
      <3> QED BY <3>1 DEF Lease!Next
    <2>3. CASE p \notin Running
      <3>1. Running' = Running /\ evicted' = evicted
        BY <2>1, <2>3 DEF Inv, TypeOK
      <3> QED BY <3>1, StutterMaps
    <2> QED BY <2>2, <2>3
  <1>4. ASSUME NEW p \in Procs, Restart(p) \/ Exit(p) PROVE [Lease!Next]_(Lease!vars)
    <2>1. Running' = Running /\ evicted' = evicted
      BY <1>4 DEF Inv, TypeOK, Restart, Exit, At, Goto, Running, FileUnchanged
    <2> QED BY <2>1, StutterMaps
  <1> QED
    BY <1>1, <1>2, <1>3, <1>4 DEF Next

\* The lock file implements the lease of ExclusiveRun: a run starts only when
\* every run still in progress has been evicted, and only an evicted run can
\* evict another one when it ends.
THEOREM LeaseTheorem == Spec => ImplementsLease
  <1>1. Init => Lease!Init
    BY DEF Init, Lease!Init, Running
  <1> QED
    BY <1>1, NextMaps, Invariance, PTL DEF Spec, ImplementsLease, Lease!Spec

-----------------------------------------------------------------------------
\* Nobody has ended, by a crash or in the ordinary way.
NobodyEnded == \A p \in Procs : ~At(p, "dead")

\* Every lock file is younger than the grace.
FilesFresh == age = Fresh

\* Then no lock is ever judged stale: the age read with stat, the pid probed
\* and the age of the file all say that somebody runs.
NothingIsStale ==
    /\ evicted = {}
    /\ \A p \in Procs : ~At(p, "rename") /\ seen[p] = Fresh

LEMMA QuickStep ==
  Inv /\ NothingIsStale /\ NobodyEnded /\ FilesFresh /\ [Next]_vars => NothingIsStale'
  <1> SUFFICES ASSUME Inv, NothingIsStale, NobodyEnded, FilesFresh, [Next]_vars
               PROVE  NothingIsStale'
    OBVIOUS
  <1> USE DEF At, Goto
  <1>2. CASE UNCHANGED vars \/ Tick
    BY <1>2 DEF vars, Tick, NothingIsStale
  <1>3. ASSUME NEW p \in Procs, Look(p) PROVE NothingIsStale'
    BY <1>3 DEF Inv, TypeOK, NothingIsStale, FilesFresh, Look, FileUnchanged, Fresh, Expired
  <1>4. ASSUME NEW p \in Procs, Read(p) PROVE NothingIsStale'
    <2>1. pc' \in {[pc EXCEPT ![p] = "open"], [pc EXCEPT ![p] = "probe"]}
      BY <1>4 DEF Inv, TypeOK, NothingIsStale, Read, Fresh
    <2> QED BY <1>4, <2>1 DEF Inv, TypeOK, NothingIsStale, Read, FileUnchanged
  <1>5. ASSUME NEW p \in Procs, Probe(p) PROVE NothingIsStale'
    <2>1. holder[p] \in Procs
      BY <1>5 DEF Inv, TypeOK, Probe
    <2> QED BY <1>5, <2>1 DEF Inv, TypeOK, NothingIsStale, NobodyEnded, Probe, FileUnchanged
  <1>6. ASSUME NEW p \in Procs, Open(p) \/ Write(p) PROVE NothingIsStale'
    BY <1>6 DEF Inv, TypeOK, NothingIsStale, Open, Create, Write, FileUnchanged
  <1>7. ASSUME NEW p \in Procs, Release(p) PROVE NothingIsStale'
    BY <1>7 DEF Inv, TypeOK, NothingIsStale, Release, FileUnchanged
  <1>8. ASSUME NEW p \in Procs, Unlink(p) PROVE NothingIsStale'
    <2>1. owner = p
      BY <1>8 DEF Inv, LockNamesItsHolder, NothingIsStale, Running, Unlink
    <2> QED BY <1>8, <2>1 DEF Inv, TypeOK, NothingIsStale, Unlink, RemoveFile
  <1>9. ASSUME NEW p \in Procs, Rename(p) \/ Restart(p) \/ Crash(p) \/ Exit(p)
        PROVE NothingIsStale'
    BY <1>9 DEF Inv, TypeOK, NothingIsStale, Rename, Restart, Crash, Exit, FileUnchanged
  <1> QED
    BY <1>2, <1>3, <1>4, <1>5, <1>6, <1>7, <1>8, <1>9 DEF Next, Step

\* In a behaviour in which no process ends, by a crash or by an ordinary exit,
\* and no lock file outlives the grace, the lease is a mutex: at most one
\* process at a time runs the janitor.  Both hypotheses are needed: an owner
\* that exits between the read of its lock and the probe of its pid is enough
\* for a fresh lock to be renamed away (janitor/lock.ts, isJanitorLockStale).
THEOREM QuickRunsExclude ==
  Spec /\ []NobodyEnded /\ []FilesFresh => []MutualExclusion
  <1>1. Init => NothingIsStale
    BY DEF Init, NothingIsStale, At
  <1>2. Inv /\ NothingIsStale => MutualExclusion
    BY DEF Inv, LockNamesItsHolder, NothingIsStale, MutualExclusion, Curating, Running
  <1> QED
    BY <1>1, <1>2, QuickStep, Invariance, PTL DEF Spec
=============================================================================

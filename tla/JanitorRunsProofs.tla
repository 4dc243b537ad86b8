-------------------------- MODULE JanitorRunsProofs --------------------------
(***************************************************************************)
(* For any tasks, processes and intervals: the types of JanitorRuns, that  *)
(* at most one run in progress has the lock, that the runs of one process  *)
(* do not overlap, and that --if-due is still true when the run starts.    *)
(***************************************************************************)
EXTENDS JanitorRuns, TLAPS

\* A task has taken the lock from Acquire or Serve until it returns.
Held == \A t \in Tasks : pc[t] # "off" <=> t \in holders

\* The lease: the lock file names one run.
OneLease == \A t, u \in holders \ evicted : t = u

\* _running is set while the steps run.
Flagged == \A t \in Tasks : pc[t] \in Working => Process[t] \in running

\* Only the command line checks, and so only it comes to runJanitor from there.
Routed == \A t \in Server : pc[t] \notin {"locked", "checked"}

\* Whoever lost the lock hangs, or has been seen.
Seen == evicted \subseteq stuck \cup late

\* Nobody records a run between the check and the start of another one.
StillDue ==
    late = {} => \A t \in IfDue : pc[t] = "checked" => since >= Interval[t]

IInv == TypeOK /\ Held /\ OneLease /\ Flagged /\ OneRunPerProcess /\ Routed /\ Seen /\ StillDue

USE DEF Working, Recording, Waiting

LEMMA InitInv == Init => IInv
BY RunsAssumption
   DEF Init, Lock!Init, IInv, TypeOK, Held, OneLease, Flagged, OneRunPerProcess, Routed, Seen, StillDue

LEMMA CuratorFollows == IInv => OneCurator
BY DEF IInv, Held, OneLease, OneCurator, TypeOK

-----------------------------------------------------------------------------
\* A step that takes the lock.
LEMMA TakeStep ==
    ASSUME IInv, NEW t \in Tasks, Acquire(t) \/ Serve(t)
    PROVE  IInv'
<1>1. /\ pc[t] = "off" /\ t \notin holders
      /\ holders \subseteq evicted /\ holders' = holders \cup {t}
      /\ UNCHANGED <<evicted, stuck, since, late, faults>>
  BY DEF Acquire, Serve, At, Lock!Acquire
<1>2. \/ pc' = [pc EXCEPT ![t] = "locked"] /\ UNCHANGED running /\ t \notin Server
      \/ /\ pc' = [pc EXCEPT ![t] = "embed"] /\ running' = running \cup {Process[t]}
         /\ Process[t] \notin running
  BY DEF Acquire, Serve, At
<1>3. TypeOK'
  BY <1>1, <1>2, RunsAssumption DEF IInv, TypeOK
<1>4. Held' /\ OneLease' /\ Seen'
  BY <1>1, <1>2 DEF IInv, TypeOK, Held, OneLease, Seen
<1>5. Flagged' /\ OneRunPerProcess' /\ Routed'
  BY <1>1, <1>2, RunsAssumption DEF IInv, TypeOK, Flagged, OneRunPerProcess, Routed
<1>6. StillDue'
  BY <1>1, <1>2, RunsAssumption DEF IInv, TypeOK, StillDue
<1> QED BY <1>3, <1>4, <1>5, <1>6 DEF IInv

\* A step that returns: the lock is released and the task is off.
LEMMA ReturnStep ==
    ASSUME IInv, NEW t \in Tasks, pc[t] # "off", Return(t),
           \/ running' = running
           \/ running' = running \ {Process[t]} /\ t \notin Server,
           stuck' = stuck \ {t}, since' = since,
           faults' \in 0..MaxFaults
    PROVE  IInv'
<1>1. /\ holders' = holders \ {t} /\ pc' = [pc EXCEPT ![t] = "off"]
      /\ late' = late \cup (evicted' \ evicted)
  BY DEF Return, Lock!Release
<1>2. evicted' \subseteq holders' /\ evicted \ {t} \subseteq evicted'
  BY DEF Return, Lock!Release, IInv, TypeOK
<1>3. TypeOK'
  BY <1>1, <1>2 DEF IInv, TypeOK
<1>4. Held' /\ OneLease' /\ Seen'
  BY <1>1, <1>2 DEF IInv, TypeOK, Held, OneLease, Seen
<1>5. \A u \in Tasks : pc'[u] = IF u = t THEN "off" ELSE pc[u]
  BY <1>1 DEF IInv, TypeOK
<1>6. OneRunPerProcess' /\ Routed'
  BY <1>5, RunsAssumption DEF IInv, OneRunPerProcess, Routed
<1>7. Flagged'
  <2> SUFFICES ASSUME NEW u \in Tasks, pc'[u] \in Working PROVE Process[u] \in running'
    BY DEF Flagged
  <2>1. u # t /\ pc[u] \in Working /\ Process[u] \in running
    BY <1>5 DEF IInv, Flagged
  <2>2. CASE running' = running
    BY <2>1, <2>2
  <2>3. CASE running' = running \ {Process[t]} /\ t \notin Server
    <3>1. Process[t] # Process[u]
      BY <2>1, <2>3, RunsAssumption
    <3> QED BY <2>1, <2>3, <3>1
  <2> QED BY <2>2, <2>3
<1>8. StillDue'
  BY <1>1, RunsAssumption DEF IInv, TypeOK, StillDue
<1> QED BY <1>3, <1>4, <1>6, <1>7, <1>8 DEF IInv

\* A step of a run from one place to the next, with nothing recorded.
LEMMA WalkStep ==
    ASSUME IInv, NEW t \in Tasks, Start(t) \/ Embed(t) \/ Curate(t) \/ Dedup(t)
    PROVE  IInv'
<1>1. UNCHANGED <<holders, evicted, stuck, since, late, faults>>
  BY DEF Start, Embed, Curate, Dedup, lock
<1>2. \/ /\ At(t, "checked", "embed") /\ running' = running \cup {Process[t]}
      \/ /\ At(t, "embed", "curate") \/ At(t, "curate", "dedup")
         /\ UNCHANGED running
      \/ /\ At(t, "dedup", "record") /\ running' = running \ {Process[t]}
  BY DEF Start, Embed, Curate, Dedup
<1>3. pc[t] \in Waiting => t \notin stuck
  BY DEF Start, Embed, Curate, Dedup, At
<1>4. TypeOK'
  BY <1>1, <1>2, <1>3, RunsAssumption DEF IInv, TypeOK, At
<1>5. Held' /\ OneLease' /\ Seen'
  BY <1>1, <1>2 DEF IInv, TypeOK, Held, OneLease, Seen, At
<1>6. Flagged' /\ OneRunPerProcess' /\ Routed'
  <2>1. CASE At(t, "checked", "embed") /\ running' = running \cup {Process[t]}
    <3>1. \A u \in Tasks : pc'[u] = IF u = t THEN "embed" ELSE pc[u]
      BY <2>1 DEF IInv, TypeOK, At
    <3>2. t \notin Server
      BY <2>1 DEF IInv, Routed, At
    <3>3. \A u \in Tasks : Process[u] = Process[t] => u = t
      BY <3>2, RunsAssumption
    <3> QED BY <2>1, <3>1, <3>2, <3>3, RunsAssumption DEF IInv, Flagged, OneRunPerProcess, Routed
  <2>2. CASE (At(t, "embed", "curate") \/ At(t, "curate", "dedup")) /\ UNCHANGED running
    <3>1. \A u \in Tasks :
             /\ pc'[u] \in Working => pc[u] \in Working
             /\ pc'[u] \in {"locked", "checked"} => pc'[u] = pc[u]
      BY <2>2 DEF IInv, TypeOK, At
    <3> QED BY <2>2, <3>1, RunsAssumption DEF IInv, Flagged, OneRunPerProcess, Routed
  <2>3. CASE At(t, "dedup", "record") /\ running' = running \ {Process[t]}
    <3>1. \A u \in Tasks :
             /\ pc'[u] \in Working => pc[u] \in Working /\ u # t
             /\ pc'[u] \in {"locked", "checked"} => pc'[u] = pc[u]
      BY <2>3 DEF IInv, TypeOK, At
    <3>2. pc[t] \in Working
      BY <2>3 DEF At
    <3> QED BY <2>3, <3>1, <3>2, RunsAssumption DEF IInv, Flagged, OneRunPerProcess, Routed
  <2> QED BY <1>2, <2>1, <2>2, <2>3
<1>7. StillDue'
  BY <1>1, <1>2, RunsAssumption DEF IInv, TypeOK, StillDue, At
<1> QED BY <1>4, <1>5, <1>6, <1>7 DEF IInv

LEMMA CheckStep == ASSUME IInv, NEW t \in Tasks, Check(t) PROVE IInv'
<1>1. CASE Due(t) /\ At(t, "locked", "checked") /\ UNCHANGED <<lock, late, faults>>
  <2>1. UNCHANGED <<holders, evicted, stuck, running, since, late, faults>>
    BY <1>1 DEF Check, lock
  <2>2. pc[t] = "locked" /\ pc' = [pc EXCEPT ![t] = "checked"]
    BY <1>1 DEF At
  <2>3. TypeOK'
    BY <2>1, <2>2 DEF IInv, TypeOK
  <2>4. Held' /\ OneLease' /\ Seen' /\ Flagged' /\ OneRunPerProcess' /\ Routed'
    BY <2>1, <2>2 DEF IInv, TypeOK, Held, OneLease, Seen, Flagged, OneRunPerProcess, Routed
  <2>5. StillDue'
    BY <1>1, <2>1, <2>2 DEF IInv, TypeOK, StillDue, Due
  <2> QED BY <2>3, <2>4, <2>5 DEF IInv
<1>2. CASE Return(t) /\ (UNCHANGED faults \/ Fault)
  <2>1. pc[t] = "locked" /\ UNCHANGED <<stuck, running, since>>
    BY DEF Check
  <2>2. t \notin stuck
    BY <2>1 DEF IInv, TypeOK
  <2>3. faults' \in 0..MaxFaults
    BY <1>2, RunsAssumption DEF IInv, TypeOK, Fault
  <2> QED BY <1>2, <2>1, <2>2, <2>3, ReturnStep
<1> QED BY <1>1, <1>2 DEF Check

LEMMA RecordStep == ASSUME IInv, NEW t \in Tasks, Record(t) PROVE IInv'
<1>1. pc[t] = "record" /\ t \notin stuck /\ UNCHANGED <<stuck, running>>
  BY DEF Record, IInv, TypeOK
<1>2. CASE At(t, "record", "stats") /\ since' = 0 /\ UNCHANGED <<lock, late, faults>>
  <2>1. UNCHANGED <<holders, evicted, stuck, running, late, faults>> /\ since' = 0
    BY <1>1, <1>2 DEF lock
  <2>2. pc' = [pc EXCEPT ![t] = "stats"]
    BY <1>2 DEF At
  <2>3. TypeOK'
    BY <1>1, <2>1, <2>2, RunsAssumption DEF IInv, TypeOK
  <2>4. Held' /\ OneLease' /\ Seen'
    BY <1>1, <2>1, <2>2 DEF IInv, TypeOK, Held, OneLease, Seen
  <2>5. Flagged' /\ OneRunPerProcess' /\ Routed'
    BY <1>1, <2>1, <2>2 DEF IInv, TypeOK, Flagged, OneRunPerProcess, Routed
  <2>6. ASSUME late = {}, NEW u \in Tasks, pc[u] = "checked" PROVE FALSE
    <3>1. u \notin stuck /\ t # u
      BY <1>1, <2>6 DEF IInv, TypeOK
    <3>2. {t, u} \subseteq holders \ evicted
      BY <1>1, <2>6, <3>1 DEF IInv, Held, Seen
    <3> QED BY <3>1, <3>2 DEF IInv, OneLease
  <2>7. StillDue'
    BY <2>1, <2>2, <2>6, RunsAssumption DEF IInv, TypeOK, StillDue
  <2> QED BY <2>3, <2>4, <2>5, <2>7 DEF IInv
<1>3. CASE Fault /\ Return(t) /\ UNCHANGED since
  <2>1. faults' \in 0..MaxFaults
    BY <1>3, RunsAssumption DEF IInv, TypeOK, Fault
  <2> QED BY <1>1, <1>3, <2>1, ReturnStep
<1> QED BY <1>2, <1>3 DEF Record

LEMMA EndStep == ASSUME IInv, NEW t \in Tasks, Finish(t) \/ Abort(t) PROVE IInv'
<1>1. CASE Finish(t)
  <2>1. pc[t] = "stats" /\ t \notin stuck /\ UNCHANGED <<stuck, running, since, faults>>
    BY <1>1 DEF Finish, IInv, TypeOK
  <2>2. faults' \in 0..MaxFaults
    BY <2>1 DEF IInv, TypeOK
  <2> QED BY <1>1, <2>1, <2>2, ReturnStep DEF Finish
<1>2. CASE Abort(t)
  <2>1. /\ pc[t] # "off" /\ Return(t) /\ UNCHANGED since /\ t \notin Server
        /\ running' = running \ {Process[t]} /\ stuck' = stuck \ {t}
    BY <1>2 DEF Abort
  <2>2. faults' \in 0..MaxFaults
    BY <1>2, RunsAssumption DEF Abort, Fault, IInv, TypeOK
  <2> QED BY <2>1, <2>2, ReturnStep
<1> QED BY <1>1, <1>2

LEMMA LossStep == ASSUME IInv, NEW t \in Tasks, Hang(t) \/ Evict(t) PROVE IInv'
<1>0. UNCHANGED <<holders, pc, running, since>>
  BY DEF Hang, Evict, Lock!Evict, lock
<1>1. \/ /\ stuck' = stuck \cup {t} /\ pc[t] \in Waiting
         /\ UNCHANGED <<evicted, late>> /\ Fault
      \/ /\ t \in holders /\ evicted' = evicted \cup {t} /\ UNCHANGED stuck
         /\ \/ t \in stuck /\ UNCHANGED <<late, faults>>
            \/ late' = late \cup {t} /\ Fault
  BY DEF Hang, Evict, Lock!Evict, lock
<1>2. TypeOK'
  BY <1>0, <1>1, RunsAssumption DEF IInv, TypeOK, Fault
<1>3. Held' /\ OneLease' /\ Seen'
  BY <1>0, <1>1 DEF IInv, Held, OneLease, Seen
<1>4. Flagged' /\ OneRunPerProcess' /\ Routed'
  BY <1>0 DEF IInv, Flagged, OneRunPerProcess, Routed
<1>5. StillDue'
  BY <1>0, <1>1 DEF IInv, StillDue
<1> QED BY <1>2, <1>3, <1>4, <1>5 DEF IInv

LEMMA CrashStep == ASSUME IInv, NEW p \in Processes, Crash(p) PROVE IInv'
<1> DEFINE dead == {t \in Tasks : Process[t] = p /\ pc[t] # "off"}
<1>1. /\ pc' = [t \in Tasks |-> IF t \in dead THEN "off" ELSE pc[t]]
      /\ holders' = holders \ dead /\ evicted' = evicted \ dead
      /\ stuck' = stuck \ dead /\ running' = running \ {p}
      /\ UNCHANGED <<since, late>> /\ Fault
  BY DEF Crash
<1>2. \A t \in Tasks : pc'[t] = IF t \in dead THEN "off" ELSE pc[t]
  BY <1>1
<1>3. TypeOK'
  BY <1>1, <1>2, RunsAssumption DEF IInv, TypeOK, Fault
<1>4. Held' /\ OneLease' /\ Seen'
  BY <1>1, <1>2 DEF IInv, Held, OneLease, Seen
<1>5. Flagged' /\ OneRunPerProcess' /\ Routed'
  BY <1>1, <1>2, RunsAssumption DEF IInv, Flagged, OneRunPerProcess, Routed
<1>6. StillDue'
  BY <1>1, <1>2, RunsAssumption DEF IInv, StillDue
<1> QED BY <1>3, <1>4, <1>5, <1>6 DEF IInv

LEMMA TickStep == ASSUME IInv, Tick \/ UNCHANGED vars PROVE IInv'
<1>1. /\ UNCHANGED <<holders, evicted, pc, stuck, running, late, faults>>
      /\ since' = since \/ (since < Horizon /\ since' = since + 1)
  BY DEF Tick, vars, lock
<1>2. TypeOK'
  BY <1>1, RunsAssumption DEF IInv, TypeOK
<1>3. Held' /\ OneLease' /\ Seen' /\ Flagged' /\ OneRunPerProcess' /\ Routed'
  BY <1>1 DEF IInv, Held, OneLease, Seen, Flagged, OneRunPerProcess, Routed
<1>4. StillDue'
  BY <1>1, RunsAssumption DEF IInv, TypeOK, StillDue
<1> QED BY <1>2, <1>3, <1>4 DEF IInv

LEMMA StepInv == IInv /\ [Next]_vars => IInv'
BY TakeStep, WalkStep, CheckStep, RecordStep, EndStep, LossStep, CrashStep, TickStep
   DEF Next, Step

THEOREM Invariance == Spec => []IInv
BY InitInv, StepInv, PTL DEF Spec

-----------------------------------------------------------------------------
\* The lock, the tasks and the processes keep their types.
THEOREM TypeCorrect == Spec => []TypeOK
BY Invariance, PTL DEF IInv

\* At most one run in progress has not lost the lock, whoever started it.
THEOREM CuratorTheorem == Spec => []OneCurator
BY Invariance, CuratorFollows, PTL

\* The steps of two runs of one process never overlap.
THEOREM ProcessTheorem == Spec => []OneRunPerProcess
BY Invariance, PTL DEF IInv

LEMMA ThrottledStep ==
    IInv /\ [Next]_vars
        => [\A t \in IfDue :
              pc[t] = "checked" /\ pc'[t] = "embed" /\ late = {} => since >= Interval[t]]_vars
BY DEF IInv, StillDue

\* A run with --if-due starts only when its interval is over.
THEOREM ThrottleTheorem == Spec => Throttled
BY Invariance, ThrottledStep, PTL DEF Spec, Throttled
=============================================================================

-------------------------- MODULE MigrationsProofs --------------------------
(***************************************************************************)
(* For any processes, releases, migrations and bounds: the types of        *)
(* Migrations, that every recorded migration has taken effect exactly once *)
(* and in order, that a process that is ready finds all of its release,    *)
(* that the whole implements SchemaHistory and, for a retention of at      *)
(* least one, that a database with rows is changed only beside a backup    *)
(* that is as new as the one that was made for the change.                 *)
(***************************************************************************)
EXTENDS Migrations, FiniteSetTheorems, WellFoundedInduction, TLAPS

\* Recorded versions are not removed, so that what a process found recorded, or
\* recorded itself, stays.
WorkLeft ==
    \A p \in Procs :
        /\ pc[p] \in {"backup", "apply"} =>
                /\ pending[p] # {} /\ pending[p] \subseteq Files(p)
                /\ Files(p) \ pending[p] \subseteq recorded
        /\ pc[p] \in {"retain", "end"} => Files(p) \subseteq recorded

\* There is the n-th backup or a newer one.
BackedUp(n) == \E b \in backups : b >= n

\* A process that is about to change rows has made a backup, and a rotation
\* that removes it leaves a newer one.
Covered ==
    Retention # 0 =>
        \A p \in Procs \ early :
            pc[p] = "apply" /\ content = "rows" => backup[p] # 0 /\ BackedUp(backup[p])

\* A file without tables has no columns.
NoTables == content = "none" => columns = {} /\ recorded \cap Alters = {}

IInv == /\ TypeOK /\ EffectOnce /\ InOrder /\ ReadyIsCurrent
        /\ WorkLeft /\ Covered /\ NoTables

LEMMA InitInv == Init => IInv
BY MigrationsAssumption
   DEF Init, IInv, TypeOK, EffectOnce, InOrder, ReadyIsCurrent, WorkLeft, Covered,
       NoTables, Versions

\* A non-empty set of backups has a newest one.
LEMMA Newest ==
    ASSUME NEW n \in Nat, NEW S \in SUBSET (1..n), S # {}
    PROVE  \E b \in S : \A c \in S : ~(b < c)
<1> DEFINE Above(b) == {c \in S : b < c}
           T == {Above(b) : b \in S}
           R == StrictSubsetOrdering(S)
<1>1. IsFiniteSet(S)
  <2>1. IsFiniteSet(1..n) /\ S \subseteq 1..n
    BY FS_Interval
  <2> QED BY <2>1, FS_Subset, Zenon
<1>2. T \subseteq SUBSET S /\ T # {}
  OBVIOUS
<1>3. IsWellFoundedOn(R, SUBSET S)
  BY <1>1, FS_StrictSubsetOrderingWellFounded, FS_FiniteSubsetsOfFinite
<1>4. PICK x \in T : \A y \in T : <<y, x>> \notin R
  <2> HIDE DEF T, R
  <2> QED BY <1>2, <1>3, WFMin
<1>5. PICK b \in S : x = Above(b)
  BY <1>4
<1>6. ASSUME NEW c \in S, b < c PROVE FALSE
  <2>1. Above(c) \subseteq Above(b) /\ c \in Above(b) /\ c \notin Above(c)
    <3>1. b \in Nat /\ \A d \in S : d \in Nat
      BY <1>5
    <3>2. c \in Above(b) /\ c \notin Above(c)
      BY <1>6, <3>1
    <3>3. ASSUME NEW d \in Above(c) PROVE d \in Above(b)
      BY <1>6, <3>1, <3>3
    <3> QED BY <3>2, <3>3
  <2>2. <<Above(c), Above(b)>> \in R
    BY <2>1 DEF StrictSubsetOrdering
  <2> QED BY <1>4, <1>5, <2>2
<1> QED BY <1>6

\* A rotation that keeps at least one backup removes none but for a newer one.
LEMMA RetainLeaves ==
    ASSUME TypeOK, Retention # 0, NEW p \in Procs, Retain(p),
           NEW n \in Nat, BackedUp(n)
    PROVE  BackedUp(n)'
<1> DEFINE eligible == (backups \cap aged) \ {backup[p]}
           kept == {b \in eligible : Cardinality({c \in eligible : b < c}) < Retention}
<1>1. backups' = backups \ (eligible \ kept)
  BY DEF Retain
<1>2. PICK a \in backups : a >= n
  BY DEF BackedUp
<1>3. CASE a \notin eligible
  BY <1>1, <1>2, <1>3 DEF BackedUp
<1>4. CASE a \in eligible
  <2>1. eligible \in SUBSET (1..taken) /\ taken \in Nat
    BY DEF TypeOK
  <2> HIDE DEF eligible
  <2>2. PICK b \in eligible : \A c \in eligible : ~(b < c)
    BY <1>4, <2>1, Newest
  <2>3. {c \in eligible : b < c} = {}
    BY <2>2
  <2>4. Cardinality({c \in eligible : b < c}) = 0
    BY <2>3, FS_EmptySet
  <2>5. b \in kept
    BY <2>4, MigrationsAssumption
  <2>6. b \in backups
    BY DEF eligible
  <2>7. a \in Nat /\ b \in Nat /\ ~(b < a)
    BY <1>4, <2>1, <2>2
  <2> QED BY <1>1, <1>2, <2>5, <2>6, <2>7 DEF BackedUp
<1> QED BY <1>3, <1>4

-----------------------------------------------------------------------------
\* What holds of a process by itself.
Local(p) ==
    /\ pc[p] = "ready" => Files(p) \subseteq recorded
    /\ pc[p] \in {"backup", "apply"} =>
            /\ pending[p] # {} /\ pending[p] \subseteq Files(p)
            /\ Files(p) \ pending[p] \subseteq recorded
    /\ pc[p] \in {"retain", "end"} => Files(p) \subseteq recorded
    /\ Retention # 0 /\ p \notin early /\ pc[p] = "apply" /\ content = "rows" =>
            backup[p] # 0 /\ BackedUp(backup[p])

LEMMA LocalIsAll ==
    IInv <=> TypeOK /\ EffectOnce /\ InOrder /\ NoTables /\ \A p \in Procs : Local(p)
BY DEF IInv, Local, ReadyIsCurrent, WorkLeft, Covered

\* The step of a process leaves what the others keep in their variables.
Alone(p) ==
    \A q \in Procs \ {p} :
        /\ pc'[q] = pc[q] /\ pending'[q] = pending[q] /\ backup'[q] = backup[q]
        /\ q \in early' <=> q \in early

\* A step of one process that records nothing.
LEMMA OneProcess ==
    ASSUME IInv, NEW p \in Procs, TypeOK', NoTables', Local(p)',
           UNCHANGED <<recorded, filled>>,
           columns \subseteq columns' \/ content = "none",
           content' = "rows" => content = "rows",
           Retention # 0 => \A n \in Nat : BackedUp(n) => BackedUp(n)',
           Alone(p)
    PROVE  IInv'
<1>1. EffectOnce'
  BY DEF IInv, EffectOnce, NoTables
<1>2. InOrder'
  BY DEF IInv, InOrder
<1>3. ASSUME NEW q \in Procs PROVE Local(q)'
  <2>1. CASE q = p
    BY <2>1
  <2>2. CASE q # p
    <3>1. Local(q) /\ backup[q] \in Nat
      BY LocalIsAll DEF IInv, TypeOK
    <3>2. /\ pc'[q] = pc[q] /\ pending'[q] = pending[q] /\ backup'[q] = backup[q]
          /\ q \in early' <=> q \in early
      BY <2>2 DEF Alone
    <3> QED BY <3>1, <3>2 DEF Local, Files, BackedUp
  <2> QED BY <2>1, <2>2
<1>4. ReadyIsCurrent' /\ Covered'
  BY <1>3 DEF Local, ReadyIsCurrent, Covered
<1>5. WorkLeft'
  BY <1>3 DEF Local, WorkLeft
<1> QED BY <1>1, <1>2, <1>4, <1>5 DEF IInv

\* A step that removes no backup.
LEMMA BackupsStay ==
    ASSUME backups \subseteq backups'
    PROVE  \A n \in Nat : BackedUp(n) => BackedUp(n)'
BY DEF BackedUp

\* An exception ends the run of one process and leaves what was done.
LEMMA ThrowStep ==
    ASSUME IInv, NEW p \in Procs, Throw(p),
           UNCHANGED <<database, files, opens>>, faults' \in 0..MaxFaults
    PROVE  IInv'
<1>1. TypeOK /\ NoTables
  BY LocalIsAll
<1> USE <1>1, MigrationsAssumption DEF TypeOK, Versions, database, files, Throw, Return, Unlock
<1>2. TypeOK'
  OBVIOUS
<1>3. Local(p)' /\ NoTables'
  BY DEF Local, NoTables
<1>4. Alone(p) /\ backups' = backups
  BY DEF Alone
<1> QED BY <1>2, <1>3, <1>4, BackupsStay, OneProcess

\* The step of one process, up to the migrations.
LEMMA StartStep ==
    ASSUME IInv, NEW p \in Procs,
           Open(p) \/ ColdOpen(p) \/ Look(p) \/ Acquire(p) \/ Schema(p) \/ Begin(p)
    PROVE  IInv'
<1>0. TypeOK /\ Local(p) /\ NoTables /\ EffectOnce
  BY LocalIsAll
<1> USE <1>0, MigrationsAssumption
    DEF TypeOK, Versions, Files, database, files, process, counts, At, Fault, Unlock, Throw,
        Return, Ended
<1>1. CASE Open(p)
  <2>1. TypeOK'
    BY <1>1 DEF Open
  <2>2. Local(p)' /\ NoTables' /\ UNCHANGED database /\ UNCHANGED backups
    BY <1>1 DEF Open, Local, NoTables, BackedUp
  <2>3. Alone(p) /\ backups' = backups
    BY <1>1 DEF Open, Alone
  <2> QED BY <1>1, <2>1, <2>2, <2>3, BackupsStay, OneProcess DEF Open
<1>2. CASE ColdOpen(p)
  <2>1. TypeOK'
    BY <1>2 DEF ColdOpen
  <2>2. Local(p)' /\ NoTables'
    BY <1>2 DEF ColdOpen, Local, NoTables
  <2>3. Alone(p) /\ backups' = backups
    BY <1>2 DEF ColdOpen, Alone
  <2> QED BY <1>2, <2>1, <2>2, <2>3, BackupsStay, OneProcess DEF ColdOpen
<1>3. CASE Look(p)
  <2>1. TypeOK'
    BY <1>3 DEF Look
  <2>2. Local(p)' /\ NoTables'
    <3>1. Current(p) => Files(p) \subseteq recorded
      BY DEF Current, IInv, InOrder
    <3> QED BY <1>3, <3>1 DEF Look, Local, NoTables
  <2>3. Alone(p) /\ backups' = backups
    BY <1>3 DEF Look, Alone
  <2> QED BY <1>3, <2>1, <2>2, <2>3, BackupsStay, OneProcess DEF Look
<1>4. CASE Acquire(p)
  <2>1. TypeOK'
    <3>1. lock' = p /\ faults' \in 0..MaxFaults
      BY <1>4 DEF Acquire
    <3>2. pc' = [pc EXCEPT ![p] = "begin"] \/ pc' = [pc EXCEPT ![p] = "schema"]
      BY <1>4 DEF Acquire
    <3>3. UNCHANGED <<database, files, existed, pending, backup, early, opens>>
      BY <1>4 DEF Acquire
    <3> QED BY <3>1, <3>2, <3>3
  <2>2. Local(p)' /\ NoTables'
    BY <1>4 DEF Acquire, Local, NoTables
  <2>3. Alone(p) /\ backups' = backups
    BY <1>4 DEF Acquire, Alone
  <2> QED BY <1>4, <2>1, <2>2, <2>3, BackupsStay, OneProcess DEF Acquire
<1>5. CASE Schema(p)
  <2>1. /\ content' \in {"none", "empty", "rows"} /\ columns' \subseteq Alters
        /\ UNCHANGED <<filled, recorded, files, counts>>
    BY <1>5 DEF Schema
  <2>2. CASE Throw(p)
    BY <1>5, <2>1, <2>2, ThrowStep DEF Schema
  <2>3. CASE ~Throw(p)
    <3>1. pc' = [pc EXCEPT ![p] = "begin"] /\ UNCHANGED <<lock, existed, pending, backup, early>>
      BY <1>5, <2>3 DEF Schema
    <3>2. TypeOK'
      BY <2>1, <3>1
    <3>3. Local(p)' /\ NoTables'
      BY <1>5, <2>3, <3>1 DEF Schema, Local, NoTables
    <3>4. Alone(p) /\ backups' = backups
      BY <2>1, <3>1 DEF Alone
    <3>5. (columns \subseteq columns' \/ content = "none") /\ (content' = "rows" => content = "rows")
      BY <1>5, <2>3 DEF Schema
    <3> QED BY <2>1, <3>2, <3>3, <3>4, <3>5, BackupsStay, OneProcess
  <2> QED BY <2>2, <2>3
<1>6. CASE Begin(p)
  <2>0. UNCHANGED <<database, files, counts>>
    BY <1>6 DEF Begin
  <2>1. CASE Throw(p)
    BY <2>0, <2>1, ThrowStep
  <2>2. CASE ~Throw(p)
    <3>1. /\ pc' = [pc EXCEPT ![p] = IF recorded = Files(p) THEN "end" ELSE "backup"]
          /\ pending' = [pending EXCEPT ![p] = Files(p) \ recorded]
          /\ recorded \subseteq Files(p)
          /\ UNCHANGED <<lock, existed, backup, early>>
      BY <1>6, <2>2 DEF Begin
    <3>2. Files(p) \subseteq Versions
      OBVIOUS
    <3> HIDE DEF Files, Versions
    <3>3. TypeOK'
      BY <2>0, <3>1, <3>2
    <3>4. Files(p)' = Files(p)
      BY DEF Files
    <3>5. NoTables'
      BY <2>0 DEF NoTables
    <3>6. Local(p)'
      <4>1. CASE recorded = Files(p)
        BY <2>0, <3>1, <3>4, <4>1 DEF Local
      <4>2. CASE recorded # Files(p)
        <5>1. pc'[p] = "backup" /\ pending'[p] = Files(p) \ recorded
          BY <3>1, <4>2
        <5> QED BY <2>0, <3>1, <3>4, <4>2, <5>1 DEF Local
      <4> QED BY <4>1, <4>2
    <3>7. Alone(p) /\ backups' = backups
      BY <2>0, <3>1 DEF Alone
    <3> QED BY <2>0, <3>3, <3>5, <3>6, <3>7, BackupsStay, OneProcess
  <2> QED BY <2>1, <2>2
<1> QED BY <1>1, <1>2, <1>3, <1>4, <1>5, <1>6

LEMMA BackupStep == ASSUME IInv, NEW p \in Procs, Backup(p) PROVE IInv'
<1>0. TypeOK /\ Local(p) /\ NoTables
  BY LocalIsAll
<1> USE <1>0, MigrationsAssumption DEF TypeOK, Versions, Files, database, At, Fault, Backup
<1>1. UNCHANGED <<database, aged, opens>> /\ faults' \in 0..MaxFaults
  OBVIOUS
<1>2. CASE Throw(p)
  <2>1. UNCHANGED <<database, files, opens>>
    BY <1>2 DEF Throw, files
  <2> HIDE DEF Backup
  <2> QED BY <1>1, <1>2, <2>1, ThrowStep
<1>3. CASE ~Throw(p)
  <2>1. /\ pc[p] = "backup" /\ pc' = [pc EXCEPT ![p] = "apply"]
        /\ UNCHANGED <<lock, existed, pending, early>>
    BY <1>3
  <2>2. \/ /\ taken' = taken + 1 /\ backups' = backups \cup {taken'}
           /\ backup' = [backup EXCEPT ![p] = taken']
        \/ content # "rows" /\ UNCHANGED <<backups, taken, backup>>
    BY <1>3
  <2> HIDE DEF Backup
  <2>3. TypeOK'
    <3>1. taken' \in Nat /\ taken <= taken' /\ 1..taken \subseteq 1..taken'
      <4>1. taken' = taken \/ taken' = taken + 1
        BY <2>2
      <4> QED BY <4>1
    <3>2. backups' \subseteq 1..taken' /\ aged' \subseteq backups'
      <4>1. backups' = backups \/ (backups' = backups \cup {taken'} /\ taken' = taken + 1)
        BY <2>2
      <4>2. aged' = aged /\ aged \subseteq backups /\ backups \subseteq 1..taken
        BY <1>1
      <4>3. taken' = taken + 1 => taken' \in 1..taken'
        OBVIOUS
      <4> HIDE DEF TypeOK
      <4> QED BY <3>1, <4>1, <4>2, <4>3
    <3>3. backup' \in [Procs -> 0..taken']
      <4>1. backup \in [Procs -> 0..taken'] /\ taken' \in 0..taken'
        BY <3>1
      <4>2. backup' = backup \/ backup' = [backup EXCEPT ![p] = taken']
        BY <2>2
      <4> HIDE DEF TypeOK
      <4> QED BY <4>1, <4>2
    <3> QED BY <1>1, <2>1, <3>1, <3>2, <3>3
  <2>4. NoTables'
    BY <1>1 DEF NoTables
  <2>5. Local(p)'
    <3>1. content' = "rows" => backup'[p] # 0 /\ BackedUp(backup[p])'
      BY <1>1, <2>2 DEF BackedUp
    <3> QED BY <1>1, <2>1, <3>1 DEF Local
  <2>6. Alone(p) /\ backups \subseteq backups'
    BY <2>1, <2>2 DEF Alone
  <2> QED BY <1>1, <2>3, <2>4, <2>5, <2>6, BackupsStay, OneProcess
<1> QED BY <1>2, <1>3

\* One version more is recorded, the lowest that was pending.
LEMMA RecordStep ==
    ASSUME IInv, NEW p \in Procs, pc[p] = "apply",
           NEW v \in pending[p], \A w \in pending[p] : v <= w,
           Migrate(p, v) \/ Reconcile(p, v),
           UNCHANGED <<content, files, counts>>
    PROVE  IInv'
<1> USE MigrationsAssumption
    DEF IInv, TypeOK, Versions, Files, files, counts, At, Proceed, Migrate, Reconcile
<1>0. /\ v \in Versions /\ v \notin recorded /\ recorded' = recorded \cup {v}
      /\ pending' = [pending EXCEPT ![p] = @ \ {v}]
  OBVIOUS
<1>1. TypeOK'
  <2>1. filled' = [filled EXCEPT ![v] = @ + 1] /\ columns' \subseteq Alters
    OBVIOUS
  <2>2. filled' \in [Versions -> Nat]
    BY <1>0, <2>1
  <2>3. pc' = [pc EXCEPT ![p] = "retain"] \/ pc' = pc
    BY DEF TypeOK
  <2>4. pending' \in [Procs -> SUBSET Versions]
    BY <1>0
  <2> QED BY <1>0, <2>1, <2>2, <2>3, <2>4
<1>2. EffectOnce'
  BY <1>0 DEF EffectOnce
<1>3. InOrder'
  <2>1. \A w \in 1..v : w # v => w \in Files(p) \ pending[p]
    BY <1>0 DEF WorkLeft
  <2>2. \A w \in 1..v : w \in recorded'
    BY <1>0, <2>1 DEF WorkLeft
  <2> QED BY <1>0, <2>2 DEF InOrder
<1>4. ReadyIsCurrent'
  BY <1>0 DEF ReadyIsCurrent
<1>5. WorkLeft'
  <2> SUFFICES ASSUME NEW q \in Procs
               PROVE  /\ pc'[q] \in {"backup", "apply"} =>
                           /\ pending'[q] # {} /\ pending'[q] \subseteq Files(q)
                           /\ Files(q) \ pending'[q] \subseteq recorded'
                      /\ pc'[q] \in {"retain", "end"} => Files(q) \subseteq recorded'
    BY DEF WorkLeft
  <2>1. CASE q # p
    BY <1>0, <2>1 DEF WorkLeft
  <2>2. CASE q = p /\ pending[p] = {v}
    BY <1>0, <2>2 DEF WorkLeft
  <2>3. CASE q = p /\ pending[p] # {v}
    BY <1>0, <2>3 DEF WorkLeft
  <2> QED BY <2>1, <2>2, <2>3
<1>6. Covered'
  <2>1. pc' = [pc EXCEPT ![p] = "retain"] \/ pc' = pc
    BY DEF TypeOK
  <2>2. UNCHANGED <<content, backups, backup, early>>
    OBVIOUS
  <2> QED BY <2>1, <2>2 DEF Covered, BackedUp
<1>7. NoTables'
  <2>1. content = "none" => v \notin Alters
    BY DEF NoTables
  <2>2. columns' \subseteq columns \cup ({v} \cap Alters)
    OBVIOUS
  <2>3. content' = content
    OBVIOUS
  <2> HIDE DEF IInv, TypeOK, Migrate, Reconcile, Proceed, At
  <2>4. NoTables
    BY DEF IInv
  <2> QED BY <1>0, <2>1, <2>2, <2>3, <2>4 DEF NoTables
<1> QED BY <1>1, <1>2, <1>3, <1>4, <1>5, <1>6, <1>7

LEMMA ApplyStep == ASSUME IInv, NEW p \in Procs, Apply(p) PROVE IInv'
<1>1. PICK v \in pending[p] :
        /\ \A w \in pending[p] : v <= w
        /\ \/ (Migrate(p, v) \/ Reconcile(p, v)) /\ UNCHANGED faults
           \/ Refuse(p, v)
  BY DEF Apply
<1>2. pc[p] = "apply" /\ UNCHANGED <<content, files, opens>>
  BY DEF Apply
<1>3. CASE (Migrate(p, v) \/ Reconcile(p, v)) /\ UNCHANGED faults
  BY <1>1, <1>2, <1>3, RecordStep DEF counts
<1>4. CASE Refuse(p, v)
  <2>1. faults' \in 0..MaxFaults /\ Throw(p) /\ UNCHANGED database
    BY <1>2, <1>4, MigrationsAssumption DEF Refuse, Fault, IInv, TypeOK, database
  <2> QED BY <1>2, <2>1, ThrowStep
<1> QED BY <1>1, <1>3, <1>4

LEMMA EndStep ==
    ASSUME IInv, NEW p \in Procs, Retain(p) \/ End(p)
    PROVE  IInv'
<1>0. TypeOK /\ Local(p) /\ NoTables
  BY LocalIsAll
<1> USE <1>0, MigrationsAssumption
    DEF TypeOK, Versions, Files, database, files, counts, At, Unlock, Return
<1>1. CASE Retain(p)
  <2>1. Retention # 0 => \A n \in Nat : BackedUp(n) => BackedUp(n)'
    BY <1>1, RetainLeaves
  <2>2. UNCHANGED <<database, taken, lock, existed, pending, backup, early, counts>>
    BY <1>1 DEF Retain
  <2>3. pc[p] = "retain" /\ pc' = [pc EXCEPT ![p] = "end"]
    BY <1>1 DEF Retain
  <2>4. backups' \subseteq backups /\ aged' \subseteq backups'
    BY <1>1 DEF Retain
  <2>5. TypeOK'
    BY <2>2, <2>3, <2>4
  <2>6. Local(p)' /\ NoTables' /\ Alone(p)
    BY <2>2, <2>3 DEF Local, NoTables, Alone
  <2> QED BY <2>1, <2>2, <2>3, <2>5, <2>6, OneProcess
<1>2. CASE End(p)
  <2>1. TypeOK'
    BY <1>2 DEF End
  <2>2. Local(p)' /\ NoTables'
    BY <1>2 DEF End, Local, NoTables
  <2>3. Alone(p) /\ backups' = backups
    BY <1>2 DEF End, Alone
  <2> QED BY <1>2, <2>1, <2>2, <2>3, BackupsStay, OneProcess DEF End
<1> QED BY <1>1, <1>2

LEMMA CrashStep == ASSUME IInv, NEW p \in Procs, Crash(p) PROVE IInv'
<1>0. TypeOK /\ Local(p) /\ NoTables
  BY LocalIsAll
<1> USE <1>0, MigrationsAssumption
    DEF TypeOK, Versions, Files, database, files, Fault, Return, Crash
<1>1. TypeOK'
  OBVIOUS
<1>2. Local(p)' /\ NoTables'
  BY DEF Local, NoTables
<1>3. Alone(p) /\ backups' = backups
  BY DEF Alone
<1> QED BY <1>1, <1>2, <1>3, BackupsStay, OneProcess

LEMMA OtherStep == ASSUME IInv, Hermes \/ AddRows \/ Age \/ UNCHANGED vars PROVE IInv'
<1> USE MigrationsAssumption
    DEF IInv, TypeOK, EffectOnce, InOrder, ReadyIsCurrent, WorkLeft, Covered, NoTables,
        BackedUp, Versions, Files, database, files, process, counts
<1>1. CASE Hermes
  <2>1. /\ columns' \subseteq Alters /\ (columns \subseteq columns' \/ content = "none")
        /\ UNCHANGED <<filled, recorded, files, lock, process, counts>>
    <3>1. HermesAdds \subseteq Alters /\ columns \subseteq Alters
      OBVIOUS
    <3> HIDE MigrationsAssumption
    <3> HIDE DEF IInv, TypeOK
    <3> QED BY <1>1, <3>1 DEF Hermes
  <2>2. content' # "none" /\ (content' = content \/ content' = "empty")
    BY <1>1 DEF Hermes
  <2> QED BY <2>1, <2>2
<1>2. CASE AddRows
  <2>1. /\ content = "empty" /\ content' = "rows" /\ early' = {p \in Procs : pc[p] = "apply"}
        /\ UNCHANGED <<columns, filled, recorded, files, lock, pc, existed, pending, backup, counts>>
    BY <1>2 DEF AddRows
  <2> QED BY <2>1
<1>3. CASE Age
  BY <1>3 DEF Age
<1>4. CASE UNCHANGED vars
  BY <1>4 DEF vars
<1> QED BY <1>1, <1>2, <1>3, <1>4

LEMMA StepInv == IInv /\ [Next]_vars => IInv'
BY StartStep, BackupStep, ApplyStep, EndStep, CrashStep, OtherStep DEF Next, Step

THEOREM Invariance == Spec => []IInv
BY InitInv, StepInv, PTL DEF Spec

-----------------------------------------------------------------------------
\* The state of the database, the backups and the processes keeps its types.
THEOREM TypeCorrect == Spec => []TypeOK
BY Invariance, PTL DEF IInv

\* A migration is recorded if and only if it has taken effect, once.
THEOREM EffectOnceTheorem == Spec => []EffectOnce
BY Invariance, PTL DEF IInv

\* The newest recorded version stands for all before it.
THEOREM InOrderTheorem == Spec => []InOrder
BY Invariance, PTL DEF IInv

\* A process that is ready has a database of its release.
THEOREM ReadyTheorem == Spec => []ReadyIsCurrent
BY Invariance, PTL DEF IInv

LEMMA CoveredStep ==
    ASSUME Retention # 0
    PROVE  IInv /\ [Next]_vars =>
               [\A p \in Procs \ early :
                    Migrates(p) /\ content = "rows" =>
                        backup[p] # 0 /\ \E b \in backups : b >= backup[p]]_vars
BY DEF IInv, Covered, BackedUp, Migrates

\* With a retention of at least one, a process that changes a database with rows
\* has made a backup of it, and that one or a newer one is there until the last
\* migration, whatever other processes rotate.  (With LTM_BACKUP_RETENTION=0 it
\* may be gone.)
THEOREM BackupTheorem == ASSUME Retention # 0 PROVE Spec => ChangedWithBackup
BY Invariance, CoveredStep, PTL DEF Spec, ChangedWithBackup
-----------------------------------------------------------------------------
\* The processes that are ready, which SchemaHistory says are at work.
Working == {p \in Procs : pc[p] = "ready"}

\* A version is recorded in the place that the history gives it: every earlier
\* one is recorded, and no later one is.
LEMMA RecordIsNext ==
    ASSUME IInv, NEW p \in Procs, pc[p] = "apply",
           NEW v \in pending[p], \A w \in pending[p] : v <= w, v \notin recorded
    PROVE  v \in Versions /\ recorded = 1..(v - 1)
<1> USE MigrationsAssumption DEF IInv, TypeOK, Versions, Files
<1>1. v \in 1..Release[p] /\ Release[p] \in 1..Latest
  BY DEF WorkLeft
<1>2. ASSUME NEW w \in 1..(v - 1) PROVE w \in recorded
  <2>1. w \in Files(p) /\ w < v
    BY <1>1
  <2>2. w \notin pending[p]
    BY <1>1, <2>1
  <2> QED BY <2>1, <2>2 DEF WorkLeft
<1>3. ASSUME NEW w \in recorded PROVE w \in 1..(v - 1)
  <2>1. w \in 1..Latest /\ ~(v \in 1..w)
    BY DEF InOrder
  <2> QED BY <1>1, <2>1
<1> QED BY <1>1, <1>2, <1>3

LEMMA ApplyRefines ==
    ASSUME IInv, NEW p \in Procs, Apply(p)
    PROVE  [History!Next]_(History!vars)
<1>1. PICK v \in pending[p] :
        /\ \A w \in pending[p] : v <= w
        /\ (Migrate(p, v) \/ Reconcile(p, v)) \/ Refuse(p, v)
  BY DEF Apply
<1>2. pc[p] = "apply"
  BY DEF Apply
<1>3. pc = [q \in Procs |-> pc[q]] /\ filled \in [Versions -> Nat]
  BY DEF IInv, TypeOK
<1>4. Working' = Working
  <2>1. \E to \in {"apply", "retain", "failed"} : pc' = [pc EXCEPT ![p] = to]
    BY <1>1, <1>2, <1>3 DEF Migrate, Reconcile, Refuse, Proceed, At, Throw
  <2> QED BY <1>2, <1>3, <2>1 DEF Working
<1>5. CASE Migrate(p, v) \/ Reconcile(p, v)
  <2>1. v \notin recorded /\ recorded' = recorded \cup {v}
        /\ filled' = [filled EXCEPT ![v] = @ + 1]
    BY <1>5 DEF Migrate, Reconcile
  <2>2. v \in 1..Latest /\ recorded = 1..(v - 1)
    BY <1>1, <1>2, <2>1, RecordIsNext DEF Versions
  <2>3. recorded' = 1..v
    BY <2>1, <2>2, MigrationsAssumption
  <2>4. History!Upgrade(v)
    BY <1>4, <2>1, <2>2, <2>3 DEF History!Upgrade, Working
  <2> QED BY <2>2, <2>4 DEF History!Next
<1>6. CASE Refuse(p, v)
  BY <1>4, <1>6 DEF Refuse, History!vars, Working
<1> QED BY <1>1, <1>5, <1>6

\* Every other step of a process leaves the database as it is, and may begin or
\* end the work of that process.
LEMMA WorkRefines ==
    ASSUME IInv, IInv', NEW p \in Procs, UNCHANGED <<recorded, filled>>,
           \A q \in Procs \ {p} : pc'[q] = pc[q]
    PROVE  [History!Next]_(History!vars)
<1>1. CASE pc[p] # "ready" /\ pc'[p] = "ready"
  <2>1. Working' = Working \cup {p} /\ p \notin Working
    BY <1>1 DEF Working
  <2>2. 1..Release[p] \subseteq recorded
    BY <1>1 DEF IInv, ReadyIsCurrent, Files
  <2>3. History!Join(p)
    BY <2>1, <2>2 DEF History!Join, Working
  <2> QED BY <2>3 DEF History!Next
<1>2. CASE pc[p] = "ready" /\ pc'[p] # "ready"
  <2>1. Working' = Working \ {p} /\ p \in Working
    BY <1>2 DEF Working
  <2>2. History!Leave(p)
    BY <2>1 DEF History!Leave, Working
  <2> QED BY <2>2 DEF History!Next
<1>3. CASE pc[p] = "ready" <=> pc'[p] = "ready"
  <2>1. Working' = Working
    BY <1>3 DEF Working
  <2> QED BY <2>1 DEF History!vars, Working
<1> QED BY <1>1, <1>2, <1>3

LEMMA InitRefines == Init => History!Init
<1> SUFFICES ASSUME Init PROVE History!Init
  OBVIOUS
<1>1. Working = {}
  BY DEF Init, Working
<1> QED BY <1>1 DEF Init, Versions, Working, History!Init

LEMMA StepRefines == IInv /\ IInv' /\ [Next]_vars => [History!Next]_(History!vars)
<1> SUFFICES ASSUME IInv, IInv', [Next]_vars PROVE [History!Next]_(History!vars)
  OBVIOUS
<1>0. pc = [q \in Procs |-> pc[q]]
  BY DEF IInv, TypeOK
<1> USE <1>0 DEF database, process
<1>1. ASSUME NEW p \in Procs, Open(p) \/ ColdOpen(p) \/ Step(p) \/ Crash(p)
      PROVE  [History!Next]_(History!vars)
  <2>1. CASE Apply(p)
    BY <2>1, ApplyRefines
  <2>2. CASE Open(p)
    BY <2>2, WorkRefines DEF Open
  <2>3. CASE ColdOpen(p)
    BY <2>3, WorkRefines DEF ColdOpen
  <2>4. CASE Look(p)
    BY <2>4, WorkRefines DEF Look, At
  <2>5. CASE Acquire(p)
    BY <2>5, WorkRefines DEF Acquire, At
  <2>6. CASE Schema(p)
    BY <2>6, WorkRefines DEF Schema, At, Throw
  <2>7. CASE Begin(p)
    BY <2>7, WorkRefines DEF Begin, At, Throw
  <2>8. CASE Backup(p)
    BY <2>8, WorkRefines DEF Backup, At, Throw
  <2>9. CASE Retain(p) \/ End(p)
    BY <2>9, WorkRefines DEF Retain, End, At
  <2>10. CASE Crash(p)
    BY <2>10, WorkRefines DEF Crash
  <2> QED BY <1>1, <2>1, <2>2, <2>3, <2>4, <2>5, <2>6, <2>7, <2>8, <2>9, <2>10 DEF Step
<1>2. CASE Hermes \/ AddRows \/ Age \/ UNCHANGED vars
  BY <1>2 DEF Hermes, AddRows, Age, vars, History!vars
<1> QED BY <1>1, <1>2 DEF Next

\* All starts together, with or without the lock, in any order and whichever of
\* them die, are one history of the schema, for any releases and migrations.
THEOREM HistoryTheorem == Spec => ImplementsHistory
<1>1. Init => History!Init
  BY InitRefines
<1>2. IInv /\ IInv' /\ [Next]_vars => [History!Next]_(History!vars)
  BY StepRefines
<1> QED BY <1>1, <1>2, Invariance, PTL DEF Spec, ImplementsHistory, History!Spec
=============================================================================

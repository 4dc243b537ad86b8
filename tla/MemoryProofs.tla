---------------------------- MODULE MemoryProofs ----------------------------
(***************************************************************************)
(* How memories fade and how they are recalled.                            *)
(*                                                                         *)
(* Of Lifecycle: its types and EvictsOnlyCondemned, for any memories,      *)
(* hooks and bounds.  The rows runArchive has read stay out of recall and  *)
(* keep their score until it moves them: nothing makes such a row active   *)
(* again, scores are refreshed for active rows only, and a deleted id is   *)
(* not used again.                                                         *)
(*                                                                         *)
(* Of Recall: NothingWithdrawn and FullPage, for any finite set of rows,   *)
(* any matches and any limits.  The selection is one statement; the text   *)
(* search filters before it cuts, and each change meanwhile costs one hit. *)
(***************************************************************************)
EXTENDS Lifecycle, Recall, FiniteSetTheorems, SequenceTheorems, TLAPS

USE DEF Strong, Weak, Dead, Minor, Major, Lasting

\* What runArchive has read is out of recall and keeps its score, and only a run
\* that is about to move rows holds any.
Doomed ==
    /\ evicting \subseteq {m \in Memories : status[m] \in {"deprecated", "superseded"} /\ score[m] = Dead}
    /\ jan # "move" => evicting = {}

IInv == TypeOK /\ Doomed

LEMMA LearnedAsType == \A m \in Memories : LearnedAs(m) \in Minor..Lasting
BY DEF LearnedAs

LEMMA InitInv == Init => IInv
BY LifecycleAssumption, LearnedAsType DEF Init, IInv, TypeOK, Doomed

\* A rising confidence keeps the type of the scores.
LEMMA LiftType ==
    ASSUME TypeOK, NEW m \in Memories, Lift(m)
    PROVE  fade' \in [Memories -> Strong..Dead]
<1>1. PICK f \in Strong..fade[m] : fade' = [fade EXCEPT ![m] = f]
  BY DEF Lift
<1>2. f \in Strong..Dead
  BY DEF TypeOK
<1> QED BY <1>1, <1>2 DEF TypeOK

\* One step of one memory: what agents and the owner do, and what time does.
LEMMA MemoryStep ==
    ASSUME IInv, NEW m \in Memories, NEW b \in BOOLEAN, NEW t \in BOOLEAN,
           \/ LearnNew(m, b) \/ Restate(m, b, t) \/ RecordUsage(m, b) \/ HermesRestate(m, b)
           \/ HermesDoubt(m) \/ Recall(m) \/ Revalidate(m) \/ Forget(m) \/ Fade(m) \/ Brood(m)
    PROVE  IInv'
<1> USE LifecycleAssumption DEF IInv, TypeOK, Doomed, columns, traits, held, Exists, Active, Edit
<1>1. CASE LearnNew(m, b)
  BY <1>1, LearnedAsType DEF LearnNew
<1>2. CASE Restate(m, b, t)
  <2>1. fade' \in [Memories -> Strong..Dead]
    BY <1>2, LiftType DEF Restate
  <2>2. /\ confirms' \in [Memories -> 1..FirmAt]
        /\ owners' \subseteq Memories /\ tagged' \subseteq Memories
    BY <1>2 DEF Restate
  <2>3. /\ flag' = [flag EXCEPT ![m] = "none"] /\ edits' \in 0..MaxEdits
        /\ UNCHANGED <<status, score, uses, importance, before, held, jan, evicting>>
    BY <1>2 DEF Restate
  <2> QED BY <2>1, <2>2, <2>3
<1>3. CASE RecordUsage(m, b)
  BY <1>3 DEF RecordUsage
<1>4. CASE Recall(m)
  BY <1>4 DEF Recall
<1>5. CASE Revalidate(m)
  BY <1>5 DEF Revalidate
<1>6. CASE Forget(m)
  BY <1>6, LearnedAsType DEF Forget, Delete
<1>7. CASE Fade(m)
  BY <1>7 DEF Fade
<1>8. CASE Brood(m)
  BY <1>8 DEF Brood
<1>9. CASE HermesRestate(m, b)
  BY <1>9 DEF HermesRestate
<1>10. CASE HermesDoubt(m)
  BY <1>10 DEF HermesDoubt
<1> QED BY <1>1, <1>2, <1>3, <1>4, <1>5, <1>6, <1>7, <1>8, <1>9, <1>10

\* The graph app and reviews: none of them makes a row active, or writes a score.
LEMMA ReviewStep ==
    ASSUME IInv, NEW m \in Memories, NEW n \in Memories, NEW b \in BOOLEAN, NEW i \in Minor..Lasting,
           Regrade(m, i) \/ Retag(m, b) \/ Boost(m) \/ Replace(m, n, b) \/ Expire(m)
    PROVE  IInv'
<1> USE LifecycleAssumption DEF IInv, TypeOK, Doomed, columns, traits, held, Exists, Active, Edit
<1>1. CASE Regrade(m, i)
  BY <1>1 DEF Regrade
<1>2. CASE Retag(m, b)
  BY <1>2 DEF Retag
<1>3. CASE Boost(m)
  BY <1>3 DEF Boost
<1>4. CASE Replace(m, n, b)
  <2>1. fade' \in [Memories -> Strong..Dead] /\ confirms' \in [Memories -> 1..FirmAt]
    BY <1>4, LiftType DEF Replace
  <2>2. tagged' \subseteq Memories /\ edits' \in 0..MaxEdits
    BY <1>4 DEF Replace
  <2>3. /\ status' = [status EXCEPT ![n] = "superseded"]
        /\ UNCHANGED <<score, flag, uses, owners, importance, before, held, jan, evicting>>
    BY <1>4 DEF Replace
  <2> QED BY <2>1, <2>2, <2>3
<1>5. CASE Expire(m)
  BY <1>5 DEF Expire
<1> QED BY <1>1, <1>2, <1>3, <1>4, <1>5

\* A hook only writes flags, and the set of rows it has read.
LEMMA HookStep ==
    ASSUME IInv, NEW h \in Hooks, Commit(h) \/ Flag(h)
    PROVE  IInv'
<1> USE LifecycleAssumption DEF IInv, TypeOK, Doomed, columns, traits, held
<1>1. CASE Commit(h)
  BY <1>1 DEF Commit, Doubtful
<1>2. CASE Flag(h)
  BY <1>2 DEF Flag
<1> QED BY <1>1, <1>2

LEMMA RefreshedType == TypeOK => \A m \in Memories : Refreshed(m) \in Strong..Dead
BY DEF Refreshed, TypeOK

LEMMA JanitorStep ==
    ASSUME IInv, Janitor \/ Crash
    PROVE  IInv'
<1> USE LifecycleAssumption DEF IInv, TypeOK, Doomed, columns, traits, held
<1>1. CASE Decay
  <2>1. TypeOK'
    BY <1>1, RefreshedType DEF Decay
  <2>2. evicting' = {}
    BY <1>1 DEF Decay
  <2> QED BY <2>1, <2>2
<1>2. CASE Select
  BY <1>2 DEF Select, Batches, Fits, Evictable
<1>3. CASE Move
  BY <1>3, LearnedAsType DEF Move, Delete
<1>4. CASE Crash
  BY <1>4 DEF Crash
<1> QED BY <1>1, <1>2, <1>3, <1>4 DEF Janitor

\* Hermes refreshes active rows, which the archive has not read, and flags any.
LEMMA HermesStep ==
    ASSUME IInv, HermesSweep \/ HermesFlag
    PROVE  IInv'
<1> USE LifecycleAssumption DEF IInv, TypeOK, Doomed, columns, traits, held
<1>1. CASE HermesSweep
  <2>1. \A m \in evicting : Refreshed(m) = score[m]
    BY DEF Refreshed, Active
  <2>2. flag' \in [Memories -> {"none", "new", "old"}] /\ sweep' \subseteq Memories
    BY <1>1 DEF HermesSweep
  <2>3. /\ score' = [m \in Memories |-> Refreshed(m)]
        /\ UNCHANGED <<status, fade, confirms, uses, owners, traits, serving, hook, jan, evicting, edits>>
    BY <1>1 DEF HermesSweep
  <2>4. TypeOK'
    BY <2>2, <2>3, RefreshedType
  <2>5. Doomed'
    BY <2>1, <2>3
  <2> QED BY <2>4, <2>5
<1>2. CASE HermesFlag
  BY <1>2 DEF HermesFlag
<1> QED BY <1>1, <1>2

\* The steps of Next, by who takes them.
LEMMA NextCases ==
    ASSUME Next
    PROVE  \/ \E m \in Memories, b, t \in BOOLEAN :
                \/ LearnNew(m, b) \/ Restate(m, b, t) \/ RecordUsage(m, b) \/ HermesRestate(m, b)
                \/ HermesDoubt(m) \/ Recall(m) \/ Revalidate(m) \/ Forget(m) \/ Fade(m) \/ Brood(m)
           \/ \E m, n \in Memories, b \in BOOLEAN, i \in Minor..Lasting :
                Regrade(m, i) \/ Retag(m, b) \/ Boost(m) \/ Replace(m, n, b) \/ Expire(m)
           \/ \E h \in Hooks : Commit(h) \/ Flag(h)
           \/ Janitor \/ Crash \/ HermesSweep \/ HermesFlag
<1>1. Minor \in Minor..Lasting
  OBVIOUS
<1> QED BY <1>1, Zenon DEF Next

LEMMA NextInv == IInv /\ [Next]_vars => IInv'
<1> SUFFICES ASSUME IInv, [Next]_vars PROVE IInv'
  OBVIOUS
<1>1. CASE Next
  BY <1>1, NextCases, MemoryStep, ReviewStep, HookStep, JanitorStep, HermesStep, Zenon
<1>2. CASE UNCHANGED vars
  BY <1>2 DEF vars, columns, traits, held, IInv, TypeOK, Doomed
<1> QED BY <1>1, <1>2

LEMMA Invariance == Spec => []IInv
BY InitInv, NextInv, PTL DEF Spec

\* The columns, the janitor and the processes that have read rows keep their
\* types, for any memories, hooks, batch size and bounds.
THEOREM TypeCorrect == Spec => []TypeOK
<1>1. IInv => TypeOK
  BY DEF IInv
<1> QED BY <1>1, Invariance, PTL

-----------------------------------------------------------------------------
\* A row the archive has read and that meets its criteria goes on meeting them,
\* unless it is reprieved.
Kept(m) == Condemned(m)' \/ (m \in evicting /\ (~Condemned(m) \/ Reprieved(m)))

LEMMA KeptByMemoryStep ==
    ASSUME IInv, NEW x \in Memories, NEW b \in BOOLEAN, NEW t \in BOOLEAN,
           \/ LearnNew(x, b) \/ Restate(x, b, t) \/ RecordUsage(x, b) \/ HermesRestate(x, b)
           \/ HermesDoubt(x) \/ Recall(x) \/ Revalidate(x) \/ Forget(x) \/ Fade(x) \/ Brood(x),
           NEW m \in evicting'
    PROVE  Kept(m)
<1>1. m \in evicting /\ m \in Memories
  BY DEF IInv, TypeOK, LearnNew, Restate, RecordUsage, HermesRestate, HermesDoubt, Recall,
         Revalidate, Forget, Fade, Brood
<1> SUFFICES ASSUME Condemned(m), ~Reprieved(m) PROVE Condemned(m)'
  BY <1>1 DEF Kept
<1> USE <1>1 DEF IInv, TypeOK, Condemned, columns, traits, held
<1>2. CASE LearnNew(x, b)
  BY <1>2 DEF LearnNew
<1>3. CASE Restate(x, b, t)
  <2>1. ~(x = m /\ t)
    BY <1>3 DEF Reprieved
  <2> QED BY <1>3, <2>1 DEF Restate
<1>4. CASE Forget(x)
  BY <1>4 DEF Forget, Delete
<1>5. CASE \/ RecordUsage(x, b) \/ HermesRestate(x, b) \/ HermesDoubt(x) \/ Recall(x)
           \/ Revalidate(x) \/ Fade(x) \/ Brood(x)
  BY <1>5 DEF RecordUsage, HermesRestate, HermesDoubt, Recall, Revalidate, Fade, Brood
<1> QED BY <1>2, <1>3, <1>4, <1>5

LEMMA KeptByReviewStep ==
    ASSUME IInv, NEW x \in Memories, NEW y \in Memories, NEW b \in BOOLEAN, NEW i \in Minor..Lasting,
           Regrade(x, i) \/ Retag(x, b) \/ Boost(x) \/ Replace(x, y, b) \/ Expire(x),
           NEW m \in evicting'
    PROVE  Kept(m)
<1>1. m \in evicting /\ m \in Memories
  BY DEF IInv, TypeOK, Regrade, Retag, Boost, Replace, Expire
<1> SUFFICES ASSUME Condemned(m), ~Reprieved(m) PROVE Condemned(m)'
  BY <1>1 DEF Kept
<1> USE <1>1 DEF IInv, TypeOK, Condemned, columns, traits, held
<1>2. CASE Regrade(x, i)
  <2>1. x # m
    BY <1>2 DEF Reprieved
  <2> QED BY <1>2, <2>1 DEF Regrade
<1>3. CASE Retag(x, b)
  <2>1. ~(x = m /\ b = TRUE)
    BY <1>3 DEF Reprieved
  <2> QED BY <1>3, <2>1 DEF Retag
<1>4. CASE Replace(x, y, b)
  <2>1. x # m /\ y # m
    BY <1>4 DEF Reprieved
  <2> QED BY <1>4, <2>1 DEF Replace
<1>5. CASE Boost(x) \/ Expire(x)
  BY <1>5 DEF Boost, Expire
<1> QED BY <1>2, <1>3, <1>4, <1>5

LEMMA KeptByOthers ==
    ASSUME IInv, NEW m \in evicting',
           \/ \E h \in Hooks : Commit(h) \/ Flag(h)
           \/ Janitor \/ Crash \/ HermesSweep \/ HermesFlag
    PROVE  Kept(m)
<1> USE DEF IInv, TypeOK, Doomed, Condemned, columns, traits, held
<1>1. CASE \E h \in Hooks : Commit(h) \/ Flag(h)
  BY <1>1 DEF Commit, Flag, Kept
<1>2. CASE Decay \/ Move \/ Crash
  BY <1>2 DEF Decay, Move, Crash
<1>3. CASE Select
  BY <1>3 DEF Select, Batches, Fits, Evictable, Kept
<1>4. CASE HermesSweep
  <2>1. Refreshed(m) = score[m] /\ m \in evicting
    BY <1>4 DEF HermesSweep, Refreshed, Active
  <2> QED BY <1>4, <2>1 DEF HermesSweep, Kept
<1>5. CASE HermesFlag
  BY <1>5 DEF HermesFlag, Kept
<1> QED BY <1>1, <1>2, <1>3, <1>4, <1>5 DEF Janitor

\* What runArchive deletes has a dead score and is out of recall; and of the
\* criteria it read before, only an edit of the very row - its importance, the
\* tag private, a replacement - is overlooked.
THEOREM EvictsOnlyCondemnedTheorem == Spec => EvictsOnlyCondemned
<1>1. IInv /\ [Next]_vars =>
        [/\ Move => \A m \in evicting : status[m] \in {"deprecated", "superseded"} /\ score[m] = Dead
         /\ \A m \in evicting' :
               Condemned(m)' \/ (m \in evicting /\ (~Condemned(m) \/ Reprieved(m)))]_vars
  <2> SUFFICES ASSUME IInv, Next
               PROVE  /\ Move => \A m \in evicting :
                                    status[m] \in {"deprecated", "superseded"} /\ score[m] = Dead
                      /\ \A m \in evicting' : Kept(m)
    BY DEF Kept
  <2>1. \A m \in evicting : status[m] \in {"deprecated", "superseded"} /\ score[m] = Dead
    BY DEF IInv, Doomed
  <2>2. ASSUME NEW m \in evicting' PROVE Kept(m)
    BY <2>2, NextCases, KeptByMemoryStep, KeptByReviewStep, KeptByOthers, Zenon
  <2> QED BY <2>1, <2>2
<1> QED BY <1>1, Invariance, PTL DEF Spec, EvictsOnlyCondemned

-----------------------------------------------------------------------------
\* Before the selection nothing that was withdrawn can be selected; after it,
\* nothing that had been withdrawn is on the page, which is all that is counted
\* and served.
Selected ==
    /\ pc \in {"start", "await", "record", "enrich", "done"}
    /\ active \subseteq Ids
    /\ pc \in {"start", "await"} =>
            withdrawn \cap Servable = {} /\ counted = {} /\ served = {}
    /\ pc \in {"record", "enrich", "done"} => withdrawn \cap ToSet(page) = {}
    /\ counted \subseteq ToSet(page) /\ served \subseteq ToSet(page)

\* A page holds rows of the set it is ranked from, as many as fit.
LEMMA PageOf ==
    ASSUME NEW S \in SUBSET Ids, NEW C \in Candidates(S), NEW s \in Ranked(C)
    PROVE  ToSet(s) \subseteq S /\ Len(s) = Least(Limit, Cardinality(S))
<1>1. C \in SUBSET S /\ Cardinality(C) = Least(3 * Limit, Cardinality(S))
  <2>1. \E order : C \in Best(S, order, 3 * Limit)
    BY DEF Candidates
  <2> QED BY <2>1 DEF Best
<1>2. IsFiniteSet(S) /\ IsFiniteSet(C)
  BY <1>1, RecallAssumption, FS_Subset
<1>3. Cardinality(S) \in Nat /\ Cardinality(C) \in Nat /\ Limit \in Nat
  BY <1>2, RecallAssumption, FS_CardinalityType
<1>4. s \in [1..Least(Limit, Cardinality(C)) -> C]
  <2>1. \E final : s \in {t \in [1..Least(Limit, Cardinality(C)) -> C] : IsPrefix(t, final)}
    BY DEF Ranked
  <2> QED BY <2>1
<1>5. Least(Limit, Cardinality(C)) = Least(Limit, Cardinality(S))
  BY <1>1, <1>3 DEF Least
<1>6. Least(Limit, Cardinality(S)) \in Nat
  BY <1>3 DEF Least
<1>7. Len(s) = Least(Limit, Cardinality(S))
  BY <1>4, <1>5, <1>6
<1>8. ToSet(s) \subseteq C
  BY <1>4 DEF ToSet
<1> QED BY <1>1, <1>7, <1>8

LEMMA SelectedInit == RecallInit => Selected
BY RecallAssumption DEF RecallInit, Selected, Servable, ToSet

LEMMA SelectedNext == Selected /\ [RecallNext]_recallVars => Selected'
<1> SUFFICES ASSUME Selected, [RecallNext]_recallVars PROVE Selected'
  OBVIOUS
<1> USE DEF Selected, Servable, ToSet, rows, input
<1>1. CASE Search \/ Answer \/ Fail \/ Timeout
  BY <1>1 DEF Search, Answer, Fail, Timeout
<1>2. CASE SelectRows
  <2>1. PICK C \in Candidates(Found \cap Servable) : page' \in Ranked(C)
    BY <1>2 DEF SelectRows
  <2>2. Found \cap Servable \in SUBSET Ids
    OBVIOUS
  <2>3. ToSet(page') \subseteq Found \cap Servable
    <3> HIDE DEF Servable, ToSet
    <3> QED BY <2>1, <2>2, PageOf
  <2>4. pc \in {"start", "await"} /\ pc' = "record"
        /\ UNCHANGED <<rows, input, counted, served, withdrawn>>
    BY <1>2 DEF SelectRows
  <2> QED BY <2>3, <2>4
<1>3. CASE Record \/ Enrich
  BY <1>3 DEF Record, Enrich
<1>4. ASSUME NEW m \in Ids, Withdraw(m) PROVE Selected'
  BY <1>4 DEF Withdraw, Change, call
<1>5. ASSUME NEW m \in Ids, Restore(m) PROVE Selected'
  BY <1>5 DEF Restore, Change, call
<1>6. CASE UNCHANGED recallVars
  BY <1>6 DEF recallVars, call
<1> QED BY <1>1, <1>2, <1>3, <1>4, <1>5, <1>6 DEF RecallNext, Step

\* What other processes took out of recall while the provider was awaited is
\* neither served nor counted as recalled.
THEOREM WithdrawnTheorem == RecallSpec => []NothingWithdrawn
<1>1. Selected => NothingWithdrawn
  BY DEF Selected, NothingWithdrawn
<1> QED BY <1>1, SelectedInit, SelectedNext, PTL DEF RecallSpec

\* Taking a row out of a set, or adding one, changes its size by one at most.
LEMMA OneRow ==
    ASSUME NEW S, IsFiniteSet(S), NEW T, NEW m,
           S \ {m} \subseteq T, T \subseteq S \cup {m}
    PROVE  /\ IsFiniteSet(T) /\ Cardinality(S) \in Nat /\ Cardinality(T) \in Nat
           /\ Cardinality(T) >= Cardinality(S) - 1 /\ Cardinality(T) <= Cardinality(S) + 1
<1>1. /\ IsFiniteSet(S \cup {m}) /\ IsFiniteSet(S \ {m})
      /\ Cardinality(S \cup {m}) <= Cardinality(S) + 1
      /\ Cardinality(S \ {m}) >= Cardinality(S) - 1
  <2>1. Cardinality(S) \in Nat
    BY FS_CardinalityType
  <2> QED BY <2>1, FS_AddElement, FS_RemoveElement
<1>2. IsFiniteSet(T) /\ Cardinality(T) <= Cardinality(S \cup {m})
  BY <1>1, FS_Subset
<1>3. Cardinality(S \ {m}) <= Cardinality(T)
  BY <1>2, FS_Subset
<1>4. /\ Cardinality(S) \in Nat /\ Cardinality(T) \in Nat
      /\ Cardinality(S \ {m}) \in Nat /\ Cardinality(S \cup {m}) \in Nat
  BY <1>1, <1>2, FS_CardinalityType
<1> QED BY <1>1, <1>2, <1>3, <1>4

Usable == text \cap Servable

\* The hits of the words that may still be served: each change costs one at most.
Enough ==
    /\ changes \in Nat
    /\ pc = "await" =>
          Cardinality(Usable) >= Least(TextLimit, Cardinality(Matching)) - changes

LEMMA EnoughInit == RecallInit => Enough
BY DEF RecallInit, Enough

\* Both of the sets that Enough compares are sets of rows.
LEMMA FiniteHits ==
    ASSUME Selected
    PROVE  /\ IsFiniteSet(Servable) /\ Cardinality(Servable) \in Nat
           /\ IsFiniteSet(Usable) /\ Cardinality(Usable) \in Nat
           /\ IsFiniteSet(Matching) /\ Cardinality(Matching) \in Nat
<1>1. Servable \subseteq Ids /\ Usable \subseteq Ids /\ Matching \subseteq Ids
  BY DEF Selected, Servable, Matching, Usable
<1> QED BY <1>1, RecallAssumption, FS_Subset, FS_CardinalityType

LEMMA EnoughNext == Selected /\ Enough /\ [RecallNext]_recallVars => Enough'
<1> SUFFICES ASSUME Selected, Enough, [RecallNext]_recallVars PROVE Enough'
  OBVIOUS
<1>1. CASE Search
  <2>1. PICK T \in Best(Matching, words, TextLimit) : text' = T
    BY <1>1 DEF Search, Matching
  <2>2. T \subseteq Servable /\ Cardinality(T) = Least(TextLimit, Cardinality(Matching))
    BY <2>1 DEF Best, Matching
  <2>3. UNCHANGED <<Servable, Matching, changes>>
    BY <1>1 DEF Search, rows, input, Servable, Matching
  <2>4. Usable' = T
    BY <2>1, <2>2, <2>3 DEF Usable
  <2>5. Least(TextLimit, Cardinality(Matching)) \in Int
    BY FiniteHits, RecallAssumption DEF Least
  <2> QED BY <2>2, <2>3, <2>4, <2>5 DEF Enough
<1>2. CASE Answer \/ Fail \/ Timeout
  <2>1. UNCHANGED <<query, narrow, words, active, private, pc, text, changes>>
    BY <1>2 DEF Answer, Fail, Timeout, rows, input
  <2>2. UNCHANGED <<Usable, Matching>>
    BY <2>1 DEF Usable, Matching, Servable
  <2> QED BY <2>1, <2>2 DEF Enough
<1>3. CASE SelectRows \/ Record \/ Enrich
  BY <1>3 DEF SelectRows, Record, Enrich, Enough
<1>4. ASSUME NEW m \in Ids, Withdraw(m) \/ Restore(m) PROVE Enough'
  <2>1. UNCHANGED <<query, narrow, words, pc, text>> /\ changes' = changes + 1
    BY <1>4 DEF Withdraw, Restore, Change, call, input
  <2>2. /\ Servable \ {m} \subseteq Servable' /\ Servable' \subseteq Servable \cup {m}
        /\ Servable' \subseteq Servable \/ Servable \subseteq Servable'
    BY <1>4, <2>1 DEF Withdraw, Restore, Servable
  <2>3. /\ Usable \ {m} \subseteq Usable' /\ Usable' \subseteq Usable \cup {m}
        /\ Matching \ {m} \subseteq Matching' /\ Matching' \subseteq Matching \cup {m}
        /\ Matching' \subseteq Matching \/ Usable \subseteq Usable'
    BY <2>1, <2>2 DEF Matching, Usable
  <2>4. /\ IsFiniteSet(Usable') /\ Cardinality(Usable') \in Nat
        /\ Cardinality(Usable') >= Cardinality(Usable) - 1
    BY <2>3, FiniteHits, OneRow
  <2>5. /\ Cardinality(Matching') \in Nat
        /\ Cardinality(Matching') <= Cardinality(Matching) + 1
    BY <2>3, FiniteHits, OneRow
  <2>6. \/ Cardinality(Matching') <= Cardinality(Matching)
        \/ Cardinality(Usable') >= Cardinality(Usable)
    BY <2>3, <2>4, FiniteHits, FS_Subset
  <2> QED BY <2>1, <2>4, <2>5, <2>6, FiniteHits, RecallAssumption DEF Enough, Least
<1>5. CASE UNCHANGED recallVars
  BY <1>5 DEF recallVars, call, rows, input, Enough, Servable, Matching, Usable
<1> QED BY <1>1, <1>2, <1>3, <1>4, <1>5 DEF RecallNext, Step

\* Every match of the words that may be served can be on the page, for any
\* matches and limits: rows that may not be served take no place in the text
\* search, and each change of another process costs one hit at most.
THEOREM FullPageTheorem == RecallSpec => FullPage
<1>1. Selected /\ Enough /\ [RecallNext]_recallVars =>
        [Ranking =>
            Len(page') >= Least(Limit, IF query THEN Least(TextLimit, Cardinality(Matching)) - changes
                                                ELSE Cardinality(Servable))]_recallVars
  <2> DEFINE Due == IF query THEN Least(TextLimit, Cardinality(Matching)) - changes
                             ELSE Cardinality(Servable)
  <2> SUFFICES ASSUME Selected, Enough, RecallNext, Ranking
               PROVE  Len(page') >= Least(Limit, Due)
    OBVIOUS
  <2>1. SelectRows
    BY DEF RecallNext, Step, Ranking, Search, Answer, Fail, Timeout,
           Record, Enrich, Withdraw, Restore, Change, call
  <2>2. PICK C \in Candidates(Found \cap Servable) : page' \in Ranked(C)
    BY <2>1 DEF SelectRows
  <2>3. Found \cap Servable \in SUBSET Ids /\ IsFiniteSet(Found \cap Servable)
    BY FiniteHits, FS_Subset DEF Selected, Servable
  <2>4. Len(page') = Least(Limit, Cardinality(Found \cap Servable))
    BY <2>2, <2>3, PageOf
  <2>5. Cardinality(Found \cap Servable) \in Nat
    BY <2>3, FS_CardinalityType
  <2>6. Cardinality(Found \cap Servable) >= Due
    <3>1. CASE query
      <4>1. pc = "await" /\ Usable \subseteq Found \cap Servable
        BY <2>1, <3>1 DEF SelectRows, Found, Usable
      <4>2. Cardinality(Usable) <= Cardinality(Found \cap Servable)
        BY <4>1, <2>3, FS_Subset
      <4>3. Least(TextLimit, Cardinality(Matching)) \in Int
        BY FiniteHits, RecallAssumption DEF Least
      <4> QED BY <3>1, <4>1, <4>2, <4>3, <2>5, FiniteHits DEF Enough
    <3>2. CASE ~query
      <4>1. Found \cap Servable = Servable
        BY <3>2 DEF Found, Selected, Servable
      <4> QED BY <3>2, <4>1, <2>5
    <3> QED BY <3>1, <3>2
  <2>7. Due \in Int
    BY FiniteHits, RecallAssumption DEF Least, Enough
  <2> HIDE DEF Due
  <2> QED BY <2>4, <2>5, <2>6, <2>7, RecallAssumption DEF Least
<1> QED BY <1>1, SelectedInit, SelectedNext, EnoughInit, EnoughNext, PTL DEF RecallSpec, FullPage
=============================================================================

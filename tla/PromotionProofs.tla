-------------------------- MODULE PromotionProofs --------------------------
(***************************************************************************)
(* A memory_id in context_items is that of a row that is there, for any    *)
(* texts and items.  What makes it inductive is that the ids the janitor   *)
(* and the graph server hold between two statements are of rows that are   *)
(* there, or known to be Gone.                                             *)
(***************************************************************************)
EXTENDS Promotion, TLAPS

USE DEF memories, contextItems, janitor, review, bounds

\* The janitor has an item and a row when it comes to link them.
AtWork ==
    /\ jan \in {"look", "insert", "link", "linkExisting"} => item \in Items
    /\ jan \in {"link", "linkExisting"} => ref # None
    /\ rev # "idle" => chosen # None

\* An id held between two statements is not of a deleted row.
RefHolds == ref \in Texts => row[ref] # "none"

IInv == TypeOK /\ AtWork /\ RefHolds /\ LinksHold

LEMMA InitIInv == Init => IInv
  BY PromotionAssumption
  DEF Init, IInv, TypeOK, AtWork, RefHolds, LinksHold, Items, Rows, Statuses

-----------------------------------------------------------------------------
(* The two things several actions do. *)

\* Wherever the scan goes on, the janitor's part of the invariant holds.
LEMMA ContinueOK ==
  ASSUME NEW S \in SUBSET Items, Continue(S)
  PROVE  /\ jan' \in {"accept", "look"} /\ todo' \subseteq Items
         /\ item' \in Items \cup {0} /\ ref' = None
         /\ jan' = "look" => item' \in Items
  BY DEF Continue

\* A deletion leaves no id of the deleted row behind.
LEMMA DeleteOK ==
  ASSUME IInv, NEW t \in Texts, Delete(t)
  PROVE  /\ row' \in [Texts -> {"none", "pending", "active", "retired"}]
         /\ due' \subseteq Texts /\ accepted' \subseteq Texts
         /\ link' \in [Items -> Rows] /\ ref' \in Rows
         /\ ref # None => ref' # None
         /\ RefHolds' /\ LinksHold'
  <1>1. /\ row' \in [Texts -> {"none", "pending", "active", "retired"}]
        /\ due' \subseteq Texts /\ accepted' \subseteq Texts
    BY DEF Delete, IInv, TypeOK
  <1>2. link' \in [Items -> Rows] /\ ref' \in Rows /\ (ref # None => ref' # None)
    BY PromotionAssumption DEF Delete, IInv, TypeOK, Rows
  <1>3. RefHolds'
    BY PromotionAssumption DEF Delete, IInv, TypeOK, RefHolds, Rows
  <1>4. LinksHold'
    BY PromotionAssumption DEF Delete, IInv, TypeOK, LinksHold, Rows
  <1> QED
    BY <1>1, <1>2, <1>3, <1>4

-----------------------------------------------------------------------------
LEMMA ItemInv ==
  ASSUME IInv, NEW i \in Items, AddItem(i) \/ DeleteItem(i)
  PROVE  IInv'
  <1>1. TypeOK'
    BY PromotionAssumption
    DEF AddItem, DeleteItem, Edit, IInv, TypeOK, Statuses, Rows
  <1>2. AtWork' /\ RefHolds' /\ LinksHold'
    BY DEF AddItem, DeleteItem, IInv, TypeOK, AtWork, RefHolds, LinksHold
  <1> QED
    BY <1>1, <1>2 DEF IInv

LEMMA TextInv ==
  ASSUME IInv, NEW t \in Texts, NEW u \in Texts,
         \/ Learn(t) \/ Retire(t) \/ Age(t)
         \/ Supersede(t, u) \/ Forget(t)
  PROVE  IInv'
  <1>1. CASE Learn(t) \/ Retire(t) \/ Age(t)
    <2>1. TypeOK'
      BY <1>1, PromotionAssumption
      DEF Learn, Retire, Age, Edit, IInv, TypeOK
    <2>2. AtWork' /\ RefHolds'
      BY <1>1 DEF Learn, Retire, Age, IInv, TypeOK, AtWork, RefHolds
    <2>3. LinksHold'
      BY <1>1, PromotionAssumption
      DEF Learn, Retire, Age, IInv, TypeOK, LinksHold, Rows
    <2> QED
      BY <2>1, <2>2, <2>3 DEF IInv
  <1>2. CASE Supersede(t, u)
    <2>1. TypeOK'
      BY <1>2, PromotionAssumption DEF Supersede, Edit, IInv, TypeOK, Rows
    <2>2. AtWork' /\ RefHolds'
      BY <1>2 DEF Supersede, IInv, TypeOK, AtWork, RefHolds
    <2>3. LinksHold'
      BY <1>2, PromotionAssumption DEF Supersede, IInv, TypeOK, LinksHold, Rows
    <2> QED
      BY <2>1, <2>2, <2>3 DEF IInv
  <1>3. CASE Forget(t)
    <2>1. Delete(t)
      BY <1>3 DEF Forget
    <2>2. TypeOK'
      BY <1>3, <2>1, DeleteOK, PromotionAssumption
      DEF Forget, Edit, IInv, TypeOK, Rows
    <2>3. AtWork'
      BY <1>3, <2>1, DeleteOK, PromotionAssumption DEF Forget, IInv, AtWork
    <2> QED
      BY <2>1, <2>2, <2>3, DeleteOK DEF IInv
  <1> QED
    BY <1>1, <1>2, <1>3

LEMMA JanitorInv ==
  ASSUME IInv, Janitor \/ JanitorCrash
  PROVE  IInv'
  <1>1. CASE Scan
    <2>1. {i \in Items : Eligible(i)} \in SUBSET Items
      OBVIOUS
    <2> QED
      BY <1>1, <2>1, ContinueOK, PromotionAssumption
      DEF Scan, IInv, TypeOK, AtWork, RefHolds, LinksHold, Rows
  <1>2. CASE Look
    BY <1>2, PromotionAssumption
    DEF Look, IInv, TypeOK, AtWork, RefHolds, LinksHold, Rows
  <1>3. CASE Insert
    <2>1. {} \in SUBSET Items
      OBVIOUS
    <2>2. TypeOK' /\ AtWork' /\ RefHolds'
      BY <1>3, <2>1, ContinueOK, PromotionAssumption
      DEF Insert, Abort, IInv, TypeOK, AtWork, RefHolds, Rows
    <2>3. LinksHold'
      BY <1>3, PromotionAssumption DEF Insert, IInv, TypeOK, AtWork, LinksHold, Rows
    <2> QED
      BY <2>2, <2>3 DEF IInv
  <1>4. CASE Link
    <2>1. todo \in SUBSET Items /\ {} \in SUBSET Items
      BY DEF IInv, TypeOK
    <2>2. TypeOK' /\ AtWork' /\ RefHolds'
      BY <1>4, <2>1, ContinueOK, PromotionAssumption
      DEF Link, Abort, IInv, TypeOK, AtWork, RefHolds, Rows, Statuses
    <2>3. LinksHold'
      BY <1>4, PromotionAssumption
      DEF Link, IInv, TypeOK, AtWork, RefHolds, LinksHold, Rows
    <2> QED
      BY <2>2, <2>3 DEF IInv
  <1>5. CASE Accept
    <2>1. TypeOK' /\ AtWork' /\ RefHolds'
      BY <1>5, PromotionAssumption
      DEF Accept, Activate, Overdue, IInv, TypeOK, AtWork, RefHolds, Statuses
    <2>2. LinksHold'
      BY <1>5, PromotionAssumption
      DEF Accept, Activate, Overdue, IInv, TypeOK, LinksHold, Rows
    <2> QED
      BY <2>1, <2>2 DEF IInv
  <1>6. CASE JanitorCrash
    BY <1>6, PromotionAssumption
    DEF JanitorCrash, IInv, TypeOK, AtWork, RefHolds, LinksHold, Rows
  <1> QED
    BY <1>1, <1>2, <1>3, <1>4, <1>5, <1>6 DEF Janitor

LEMMA ReviewInv ==
  ASSUME IInv, Review \/ ReviewCrash
  PROVE  IInv'
  <1>1. ASSUME NEW t \in Texts, NEW d \in {"approve", "reject"}, Open(t, d)
        PROVE  IInv'
    BY <1>1, PromotionAssumption
    DEF Open, IInv, TypeOK, AtWork, RefHolds, LinksHold, Rows
  <1>2. CASE ApproveRow
    <2>1. TypeOK' /\ AtWork' /\ RefHolds'
      BY <1>2, PromotionAssumption
      DEF ApproveRow, IInv, TypeOK, AtWork, RefHolds, Rows
    <2>2. LinksHold'
      BY <1>2, PromotionAssumption DEF ApproveRow, IInv, TypeOK, LinksHold, Rows
    <2> QED
      BY <2>1, <2>2 DEF IInv
  <1>3. CASE ApproveItems
    BY <1>3, PromotionAssumption
    DEF ApproveItems, Close, IInv, TypeOK, AtWork, RefHolds, LinksHold, Rows, Statuses
  <1>4. CASE RejectItems
    <2>1. TypeOK'
      BY <1>4, PromotionAssumption
      DEF RejectItems, Edit, IInv, TypeOK, Rows, Statuses
    <2>2. AtWork' /\ RefHolds' /\ LinksHold'
      BY <1>4 DEF RejectItems, IInv, TypeOK, AtWork, RefHolds, LinksHold
    <2> QED
      BY <2>1, <2>2 DEF IInv
  <1>5. CASE RejectRow
    <2>1. CASE chosen # Gone /\ Delete(chosen)
      <3>1. chosen \in Texts
        BY <1>5, <2>1 DEF RejectRow, IInv, TypeOK, AtWork, Rows
      <3>2. TypeOK' /\ AtWork'
        BY <1>5, <2>1, <3>1, DeleteOK, PromotionAssumption
        DEF RejectRow, Close, IInv, TypeOK, AtWork, Rows
      <3> QED
        BY <2>1, <3>1, <3>2, DeleteOK DEF IInv
    <2>2. CASE chosen = Gone
      BY <1>5, <2>2, PromotionAssumption
      DEF RejectRow, Close, IInv, TypeOK, AtWork, RefHolds, LinksHold, Rows
    <2> QED
      BY <1>5, <2>1, <2>2 DEF RejectRow
  <1>6. CASE ReviewCrash
    BY <1>6, PromotionAssumption
    DEF ReviewCrash, Close, IInv, TypeOK, AtWork, RefHolds, LinksHold, Rows
  <1> QED
    BY <1>1, <1>2, <1>3, <1>4, <1>5, <1>6 DEF Review

LEMMA NextIInv == IInv /\ [Next]_vars => IInv'
  <1> SUFFICES ASSUME IInv, [Next]_vars PROVE IInv'
    OBVIOUS
  <1>1. CASE UNCHANGED vars
    BY <1>1 DEF vars, IInv, TypeOK, AtWork, RefHolds, LinksHold
  <1>2. CASE \E i \in Items : AddItem(i) \/ DeleteItem(i)
    BY <1>2, ItemInv
  <1>3. CASE \/ \E t \in Texts : Learn(t) \/ Retire(t) \/ Forget(t) \/ Age(t)
             \/ \E old, new \in Texts : Supersede(old, new)
    BY <1>3, TextInv
  <1> QED
    BY <1>1, <1>2, <1>3, JanitorInv, ReviewInv DEF Next

\* IInv is an invariant of the specification.
THEOREM Invariance == Spec => []IInv
  BY InitIInv, NextIInv, PTL DEF Spec

\* The state keeps its types for any texts, items and bounds.
THEOREM TypeCorrect == Spec => []TypeOK
  <1>1. IInv => TypeOK
    BY DEF IInv
  <1> QED
    BY <1>1, Invariance, PTL

\* runPromote never leaves a memory_id without a row, whoever deletes the row
\* between its statements.
THEOREM LinksHoldTheorem == Spec => []LinksHold
  <1>1. IInv => LinksHold
    BY DEF IInv
  <1> QED
    BY <1>1, Invariance, PTL
=============================================================================

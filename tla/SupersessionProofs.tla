------------------------- MODULE SupersessionProofs -------------------------
(***************************************************************************)
(* Proofs about Supersession for any number of rows.                       *)
(*                                                                         *)
(* With every way of replacing a memory in use, the references between the *)
(* rows hold, a row that names its replacement is superseded, and a        *)
(* resolved pair is not staged again. Without edits by hand an accepted    *)
(* pair stays applied; without suggestions a review leaves one of its two  *)
(* memories. With the conflict queue alone, replacements form no cycle,    *)
(* because every replacement is newer than what it replaces, and the three *)
(* records of a replacement agree, because relations and pointers come and *)
(* go together.                                                            *)
(***************************************************************************)
EXTENDS Supersession, WellFoundedInduction, TLAPS

Inv == TypeOK /\ References /\ PointerMeansSuperseded

AllStatuses == Statuses \cup {"absent"}

\* The initial state: no rows at all.
LEMMA InitInv == Init => Inv
  BY SupersessionAssumption
     DEF Init, Inv, TypeOK, Duplicates, References, PointerMeansSuperseded, Pairs, Ids, None

\* Inserting a row.
LEMMA InsertInv ==
  ASSUME Inv, NEW st \in {"active", "pending"}, NEW about \in Duplicates,
         Insert(st, about), UNCHANGED <<by, rels, staged>>, found' \in Duplicates
  PROVE  Inv'
  <1>1. next \in Ids /\ next' \in 1..(MaxId + 1) /\ next' = next + 1
    BY SupersessionAssumption DEF Insert, Ids, Inv, TypeOK
  <1>2. TypeOK'
    BY <1>1 DEF Inv, TypeOK, Insert, Statuses
  <1>3. by[next] = None
    BY <1>1 DEF Inv, TypeOK, References, PointerMeansSuperseded, Ids
  <1>4. References'
    <2>1. \A m \in Ids : m >= next' => status'[m] = "absent"
      BY <1>1, SupersessionAssumption DEF Inv, TypeOK, References, Insert, Ids
    <2>2. \A m \in Ids : Exists(m) => Exists(m)'
      BY DEF Inv, TypeOK, Insert, Exists
    <2> QED
      BY <2>1, <2>2 DEF Inv, TypeOK, References, Pairs, Ids, None
  <1>5. PointerMeansSuperseded'
    BY <1>3 DEF Inv, TypeOK, PointerMeansSuperseded, Insert
  <1> QED
    BY <1>2, <1>4, <1>5 DEF Inv

\* Deleting rows from tables whose references are in order.
LEMMA DeleteInv ==
  ASSUME Inv, NEW gone \in SUBSET Ids,
         NEW st \in [Ids -> AllStatuses], NEW sb \in [Ids -> Ids \cup {None}],
         NEW R \in SUBSET Pairs,
         \A m \in Ids : st[m] = "absent" <=> status[m] = "absent",
         \A m \in Ids : sb[m] # None => st[sb[m]] # "absent" /\ st[m] = "superseded",
         \A r \in R : st[r[1]] # "absent" /\ st[r[2]] # "absent",
         Delete(gone, st, sb, R), UNCHANGED <<found, next>>
  PROVE  Inv'
  <1>1. TypeOK'
    BY DEF Inv, TypeOK, Duplicates, Delete, AllStatuses, Ids, None
  <1>2. \A m \in Ids : m >= next' => status'[m] = "absent"
    BY DEF Inv, TypeOK, References, Delete, Ids
  <1>3. \A m \in Ids : by'[m] # None => Exists(by[m])' /\ status'[m] = "superseded"
    BY DEF Inv, TypeOK, Delete, Exists, Ids, None
  <1>4. \A r \in rels' : Exists(r[1])' /\ Exists(r[2])'
    BY DEF Inv, TypeOK, Delete, Exists, Pairs
  <1>5. \A p \in Pairs : staged'[p] # "none" => Exists(p[1])' /\ Exists(p[2])'
    BY DEF Inv, TypeOK, References, Delete, Exists, Pairs
  <1> QED
    BY <1>1, <1>2, <1>3, <1>4, <1>5 DEF Inv, References, PointerMeansSuperseded

\* mergeMemories only writes relations between memories that have a row.
LEMMA MergedRelsInv ==
  ASSUME Inv, NEW keep \in Ids, NEW drop \in Ids, Exists(keep), Exists(drop)
  PROVE  /\ MergedRels(keep, drop) \subseteq Pairs
         /\ \A r \in MergedRels(keep, drop) : Exists(r[1]) /\ Exists(r[2])
  <1> DEFINE Good(R) == R \subseteq Pairs /\ \A r \in R : Exists(r[1]) /\ Exists(r[2])
  <1>1. Good(rels \cup {<<keep, drop>>})
    BY DEF Inv, TypeOK, References, Pairs
  <1>2. ASSUME NEW R, Good(R) PROVE Good(RepointTargets(R, keep, drop))
    <2>1. \A r \in RepointTargets(R, keep, drop) :
             r \in R \/ \E x \in R : r = <<x[1], keep>>
      BY Zenon DEF RepointTargets
    <2> QED
      BY <1>2, <2>1 DEF Pairs
  <1>3. ASSUME NEW R, Good(R) PROVE Good(RepointSources(R, keep, drop))
    <2>1. \A r \in RepointSources(R, keep, drop) :
             r \in R \/ \E x \in R : r = <<keep, x[2]>>
      BY Zenon DEF RepointSources
    <2> QED
      BY <1>3, <2>1 DEF Pairs
  <1> HIDE DEF Good
  <1>4. Good(MergedRels(keep, drop))
    BY <1>1, <1>2, <1>3 DEF MergedRels
  <1> QED
    BY <1>4 DEF Good

\* mergeMemories, with or without the deletion that follows it.
LEMMA MergeInv ==
  ASSUME Inv, NEW keep \in Ids, NEW drop \in Ids, NEW gone \in SUBSET Ids,
         Merge(keep, drop, gone), UNCHANGED <<found, next>>
  PROVE  Inv'
  <1> DEFINE st == [status EXCEPT ![drop] = "superseded"]
             sb == [by EXCEPT ![drop] = keep]
             R == MergedRels(keep, drop)
  <1>1. st \in [Ids -> AllStatuses] /\ sb \in [Ids -> Ids \cup {None}]
    BY DEF Inv, TypeOK, AllStatuses, Statuses
  <1>2. R \in SUBSET Pairs /\ \A r \in R : Exists(r[1]) /\ Exists(r[2])
    BY MergedRelsInv DEF Merge
  <1>3. \A m \in Ids : st[m] = "absent" <=> status[m] = "absent"
    BY DEF Inv, TypeOK, Merge, Exists
  <1>4. \A m \in Ids : sb[m] # None => st[sb[m]] # "absent" /\ st[m] = "superseded"
    BY DEF Inv, TypeOK, References, PointerMeansSuperseded, Merge, Exists, Ids, None
  <1>5. \A r \in R : st[r[1]] # "absent" /\ st[r[2]] # "absent"
    BY <1>2, <1>3 DEF Exists, Pairs
  <1>6. Delete(gone, st, sb, R)
    BY DEF Merge
  <1> HIDE DEF st, sb, R
  <1> QED
    BY <1>1, <1>2, <1>3, <1>4, <1>5, <1>6, DeleteInv

\* supersede() between two rows that exist, together with what the staging row
\* of the pair becomes.
LEMMA ReplaceInv ==
  ASSUME Inv, NEW n \in Ids, NEW o \in Ids, Exists(n), Exists(o), Replace(n, o),
         UNCHANGED <<pair, found, next>>,
         staged' \in [Pairs -> Resolved \cup {"none", "pending"}],
         \A p \in Pairs : staged'[p] # "none" => staged[p] # "none"
  PROVE  Inv'
  <1>1. \A m \in Ids : Exists(m)' <=> Exists(m)
    BY DEF Inv, TypeOK, Replace, Exists
  <1>2. TypeOK'
    BY DEF Inv, TypeOK, Replace, Statuses, Pairs
  <1>3. \A m \in Ids : m >= next' => status'[m] = "absent"
    BY <1>1 DEF Inv, References, Exists
  <1>4. \A m \in Ids : by'[m] # None => Exists(by'[m]) /\ status'[m] = "superseded"
    BY DEF Inv, TypeOK, References, PointerMeansSuperseded, Replace, Ids, None
  <1>5. \A r \in rels' : Exists(r[1]) /\ Exists(r[2])
    BY DEF Inv, TypeOK, References, Replace
  <1>6. \A p \in Pairs : staged'[p] # "none" => Exists(p[1]) /\ Exists(p[2])
    BY DEF Inv, References
  <1>7. by' \in [Ids -> Ids \cup {None}] /\ rels' \subseteq Pairs
    BY <1>2 DEF TypeOK
  <1> QED
    BY <1>1, <1>2, <1>3, <1>4, <1>5, <1>6, <1>7
       DEF Inv, References, PointerMeansSuperseded, Pairs

\* Every step keeps the references.
LEMMA NextInv == Inv /\ [Next]_vars => Inv'
  <1> SUFFICES ASSUME Inv, [Next]_vars PROVE Inv'
    OBVIOUS
  <1>1. CASE Learn
    <2>1. Insert("active", NoPair) /\ UNCHANGED <<by, rels, staged>> /\ found' = found
      BY <1>1 DEF Learn
    <2>2. found' \in Duplicates
      BY <2>1 DEF Inv, TypeOK
    <2> QED
      BY <2>1, <2>2, InsertInv DEF Duplicates
  <1>2. CASE SaveCandidate
    <2>1. CASE \E m \in Ids : status[m] = "pending" /\ pair[m] = found
      BY <1>2, <2>1
         DEF SaveCandidate, Inv, TypeOK, Duplicates, References, PointerMeansSuperseded, Exists
    <2>2. CASE ~\E m \in Ids : status[m] = "pending" /\ pair[m] = found
      <3>1. found \in Duplicates /\ found' = NoPair /\ Insert("pending", found)
              /\ UNCHANGED <<by, rels, staged>>
        BY <1>2, <2>2 DEF SaveCandidate, Inv, TypeOK
      <3> QED
        BY <3>1, InsertInv DEF Duplicates
    <2> QED
      BY <2>1, <2>2
  <1>3. ASSUME NEW m \in Ids, Forget(m) PROVE Inv'
    <2>1. status \in [Ids -> AllStatuses] /\ by \in [Ids -> Ids \cup {None}] /\ rels \in SUBSET Pairs
      BY DEF Inv, TypeOK, AllStatuses
    <2>2. \A x \in Ids : by[x] # None => status[by[x]] # "absent" /\ status[x] = "superseded"
      BY DEF Inv, References, PointerMeansSuperseded, Exists
    <2>3. \A r \in rels : status[r[1]] # "absent" /\ status[r[2]] # "absent"
      BY DEF Inv, References, Exists
    <2> QED
      BY <1>3, <2>1, <2>2, <2>3, DeleteInv DEF Forget
  <1>4. ASSUME NEW m \in Ids, ApproveSuggestion(m) PROVE Inv'
    <2>1. pair[m] \in Pairs
      BY <1>4 DEF ApproveSuggestion, Inv, TypeOK, Duplicates
    <2>2. PICK gone \in {{m}, {}} : Merge(pair[m][1], pair[m][2], gone)
      BY <1>4 DEF ApproveSuggestion
    <2> QED
      BY <1>4, <2>1, <2>2, MergeInv DEF ApproveSuggestion, Pairs
  <1>5. ASSUME NEW S \in SUBSET Ids, Deprecate(S) PROVE Inv'
    BY <1>5 DEF Deprecate, Active, Inv, TypeOK, References, PointerMeansSuperseded, Exists,
                Statuses, Pairs
  <1>6. ASSUME NEW S \in SUBSET Ids, Archive(S) PROVE Inv'
    <2>1. status \in [Ids -> AllStatuses] /\ by \in [Ids -> Ids \cup {None}] /\ rels \in SUBSET Pairs
      BY DEF Inv, TypeOK, AllStatuses
    <2>2. \A x \in Ids : by[x] # None => status[by[x]] # "absent" /\ status[x] = "superseded"
      BY DEF Inv, References, PointerMeansSuperseded, Exists
    <2>3. \A r \in rels : status[r[1]] # "absent" /\ status[r[2]] # "absent"
      BY DEF Inv, References, Exists
    <2> QED
      BY <1>6, <2>1, <2>2, <2>3, DeleteInv DEF Archive
  <1>7. ASSUME NEW x \in Ids, NEW y \in Ids, Stage(x, y) PROVE Inv'
    BY <1>7 DEF Stage, Active, Inv, TypeOK, References, PointerMeansSuperseded, Exists, Pairs
  <1>8. ASSUME NEW x \in Ids, NEW y \in Ids, AcceptConflict(x, y) PROVE Inv'
    <2>1. staged' \in [Pairs -> Resolved \cup {"none", "pending"}]
            /\ \A p \in Pairs : staged'[p] # "none" => staged[p] # "none"
      BY <1>8 DEF AcceptConflict, Resolve, Resolved, Inv, TypeOK, Pairs
    <2>2. CASE x # y /\ {x, y} \subseteq Active
      <3>1. Exists(x) /\ Exists(y) /\ Replace(y, x)
        BY <1>8, <2>2 DEF AcceptConflict, Active, Exists
      <3> QED
        BY <1>8, <2>1, <3>1, ReplaceInv DEF AcceptConflict
    <2>3. CASE ~(x # y /\ {x, y} \subseteq Active)
      BY <1>8, <2>1, <2>3
         DEF AcceptConflict, Inv, TypeOK, References, PointerMeansSuperseded, Exists
    <2> QED
      BY <2>2, <2>3
  <1>9. ASSUME NEW x \in Ids, NEW y \in Ids, DismissConflict(x, y) PROVE Inv'
    BY <1>9 DEF DismissConflict, Resolve, Resolved, Inv, TypeOK, References,
                PointerMeansSuperseded, Exists, Pairs
  <1>10. ASSUME NEW x \in Ids, NEW y \in Ids, FindDuplicate(x, y) PROVE Inv'
    BY <1>10 DEF FindDuplicate, Inv, TypeOK, Duplicates, References, PointerMeansSuperseded, Exists, Pairs
  <1>11. ASSUME NEW x \in Ids, NEW y \in Ids, ManualSupersede(x, y) PROVE Inv'
    BY <1>11, ReplaceInv DEF ManualSupersede, Inv, TypeOK
  <1>12. ASSUME NEW x \in Ids, NEW y \in Ids, ManualMerge(x, y) PROVE Inv'
    BY <1>12, MergeInv DEF ManualMerge
  <1>13. ASSUME NEW x \in Ids, NEW y \in Ids, Relate(x, y) PROVE Inv'
    BY <1>13 DEF Relate, Inv, TypeOK, References, PointerMeansSuperseded, Exists, Pairs
  <1>14. ASSUME NEW x \in Ids, NEW y \in Ids, Unsupersede(x, y) PROVE Inv'
    <2>1. CASE UNCHANGED <<status, by>>
      BY <1>14, <2>1 DEF Unsupersede, Inv, TypeOK, References, PointerMeansSuperseded, Exists
    <2>2. CASE /\ status[y] = "superseded"
               /\ status' = [status EXCEPT ![y] = "active"] /\ by' = [by EXCEPT ![y] = None]
      BY <1>14, <2>2 DEF Unsupersede, Inv, TypeOK, References, PointerMeansSuperseded, Exists,
                         Statuses, Ids, None, Pairs
    <2> QED
      BY <1>14, <2>1, <2>2 DEF Unsupersede
  <1>15. ASSUME NEW x \in Ids, NEW y \in Ids, Consolidate(x, y) PROVE Inv'
    BY <1>15, ReplaceInv DEF Consolidate, Inv, TypeOK
  <1>16. CASE UNCHANGED vars
    BY <1>16 DEF vars, Inv, TypeOK, References, PointerMeansSuperseded, Exists
  <1> QED
    BY <1>1, <1>2, <1>3, <1>4, <1>5, <1>6, <1>7, <1>8, <1>9, <1>10, <1>11, <1>12, <1>13,
       <1>14, <1>15, <1>16 DEF Next

\* The invariant holds in every behaviour.
THEOREM Invariance == Spec => []Inv
  BY InitInv, NextInv, PTL DEF Spec

\* The rows keep their types, whichever of the review channels are in use.
THEOREM TypeCorrect == Spec => []TypeOK
  <1>1. Inv => TypeOK
    BY DEF Inv
  <1> QED
    BY <1>1, Invariance, PTL

\* No column, relation or staging row of the database ever names a memory that
\* has no row.
THEOREM ReferencesTheorem == Spec => []References
  <1>1. Inv => References
    BY DEF Inv
  <1> QED
    BY <1>1, Invariance, PTL

\* A memory that says what replaced it is never served by recall.
THEOREM PointerTheorem == Spec => []PointerMeansSuperseded
  <1>1. Inv => PointerMeansSuperseded
    BY DEF Inv
  <1> QED
    BY <1>1, Invariance, PTL

-----------------------------------------------------------------------------
\* Without replacement by hand, a superseded memory stays so until its row is
\* deleted, and a pair becomes accepted only when its older memory is replaced.
LEMMA ReplacedForGood ==
  ASSUME ~ManualCuration, Inv, [Next]_vars
  PROVE  /\ \A m \in Ids : status[m] = "superseded" => status'[m] \in {"superseded", "absent"}
         /\ \A p \in Pairs : staged'[p] = "accepted" =>
                staged[p] = "accepted" \/ status'[p[1]] = "superseded"
  <1> DEFINE Goal ==
        /\ \A m \in Ids : status[m] = "superseded" => status'[m] \in {"superseded", "absent"}
        /\ \A p \in Pairs : staged'[p] = "accepted" =>
               staged[p] = "accepted" \/ status'[p[1]] = "superseded"
  <1> SUFFICES Goal
    OBVIOUS
  <1>1. ASSUME NEW st, NEW about, Insert(st, about), staged' = staged PROVE Goal
    <2>1. next \in Ids /\ status[next] = "absent"
      BY <1>1 DEF Insert, Inv, TypeOK, References
    <2> QED
      BY <1>1, <2>1 DEF Insert, Inv, TypeOK
  <1>2. ASSUME NEW gone, NEW st, NEW sb, NEW R, Delete(gone, st, sb, R),
               \A m \in Ids : status[m] = "superseded" => st[m] = "superseded"
        PROVE  Goal
    BY <1>2 DEF Delete
  <1>3. ASSUME NEW m \in Ids, Forget(m) PROVE Goal
    BY <1>2, <1>3 DEF Forget
  <1>4. ASSUME NEW S \in SUBSET Ids, Archive(S) PROVE Goal
    BY <1>2, <1>4 DEF Archive
  <1>5. ASSUME NEW m \in Ids, ApproveSuggestion(m) PROVE Goal
    <2>1. PICK gone \in {{m}, {}} : Merge(pair[m][1], pair[m][2], gone)
      BY <1>5 DEF ApproveSuggestion
    <2>2. \A x \in Ids : status[x] = "superseded"
             => [status EXCEPT ![pair[m][2]] = "superseded"][x] = "superseded"
      BY DEF Inv, TypeOK
    <2> QED
      BY <1>2, <2>1, <2>2 DEF Merge
  <1>6. CASE SaveCandidate
    BY <1>1, <1>6 DEF SaveCandidate
  <1>7. CASE Learn
    BY <1>1, <1>7 DEF Learn
  <1>8. ASSUME NEW S \in SUBSET Ids, Deprecate(S) PROVE Goal
    BY <1>8 DEF Deprecate, Active, Inv, TypeOK
  <1>9. ASSUME NEW x \in Ids, NEW y \in Ids,
               Stage(x, y) \/ DismissConflict(x, y) \/ FindDuplicate(x, y)
        PROVE  Goal
    BY <1>9 DEF Stage, DismissConflict, Resolve, FindDuplicate, Inv, TypeOK
  <1>10. ASSUME NEW x \in Ids, NEW y \in Ids, AcceptConflict(x, y) PROVE Goal
    <2>1. CASE Resolve(x, y, "accepted") /\ Replace(y, x)
      BY <2>1 DEF Resolve, Replace, Inv, TypeOK, Pairs
    <2>2. CASE Resolve(x, y, "stale") /\ UNCHANGED status
      BY <2>2 DEF Resolve, Inv, TypeOK, Pairs
    <2> QED
      BY <1>10, <2>1, <2>2 DEF AcceptConflict
  <1>11. CASE UNCHANGED vars
    BY <1>11 DEF vars
  <1>12. ASSUME NEW x \in Ids, NEW y \in Ids,
                \/ ManualSupersede(x, y) \/ ManualMerge(x, y) \/ Consolidate(x, y)
                \/ Relate(x, y) \/ Unsupersede(x, y)
         PROVE  FALSE
    BY <1>12 DEF ManualSupersede, ManualMerge, Consolidate, Relate, Unsupersede
  <1> HIDE DEF Goal
  <1> QED
    BY <1>3, <1>4, <1>5, <1>6, <1>7, <1>8, <1>9, <1>10, <1>11, <1>12 DEF Next

\* Nothing decay, the archive or a later review does brings back a memory whose
\* replacement the owner accepted (as long as nobody undoes it by hand).
THEOREM AcceptedTheorem ==
  ASSUME ~ManualCuration
  PROVE  Spec => []AcceptedStaysApplied
  <1>1. Init => AcceptedStaysApplied
    BY DEF Init, AcceptedStaysApplied, Pairs
  <1>2. Inv /\ AcceptedStaysApplied /\ [Next]_vars => AcceptedStaysApplied'
    <2> SUFFICES ASSUME Inv, AcceptedStaysApplied, [Next]_vars,
                        NEW o \in Ids, NEW n \in Ids, staged'[<<o, n>>] = "accepted"
                 PROVE  status'[o] = "superseded"
      BY DEF AcceptedStaysApplied
    <2>1. Exists(o)' /\ <<o, n>> \in Pairs
      BY NextInv DEF Inv, References, Pairs
    <2>2. CASE staged[<<o, n>>] = "accepted"
      BY <2>1, <2>2, ReplacedForGood DEF AcceptedStaysApplied, Exists
    <2>3. CASE staged[<<o, n>>] # "accepted"
      BY <2>1, <2>3, ReplacedForGood
    <2> QED
      BY <2>2, <2>3
  <1>3. Inv /\ [Next]_vars => Inv'
    BY NextInv
  <1> QED
    BY <1>1, <1>2, <1>3, InitInv, PTL DEF Spec

-----------------------------------------------------------------------------
\* Every nonempty set of numbers has a smallest one (from the well-foundedness
\* of < that the library proves).
LessThan == {ss \in Nat \X Nat : ss[1] < ss[2]}

LEMMA LessThanWellFounded == IsWellFoundedOn(LessThan, Nat)
  BY NatLessThanWellFounded, Zenon DEF OpToRel, LessThan

LEMMA SmallestExists ==
  ASSUME NEW S \in SUBSET Nat, S # {}
  PROVE  \E m \in S : \A k \in S : m <= k
  <1>1. PICK m \in S : \A k \in S : ~ (<<k, m>> \in LessThan)
    BY LessThanWellFounded, WFMin, Zenon
  <1>2. ASSUME NEW k \in S PROVE m <= k
    <2>1. <<k, m>> \in Nat \X Nat /\ <<k, m>>[1] = k /\ <<k, m>>[2] = m
      OBVIOUS
    <2>2. ~ (k < m)
      BY <1>1, <2>1, Zenon DEF LessThan
    <2> QED
      BY <2>2
  <1> QED
    BY <1>2

\* With the conflict queue alone, what replaces a memory was learned after it.
Forward ==
    /\ \A p \in Pairs : staged[p] # "none" => p[1] < p[2]
    /\ \A m \in Ids : by[m] # None => m < by[m]
    /\ \A m \in Ids : pair[m] = NoPair
    /\ found = NoPair

LEMMA ForwardInit == Init => Forward
  BY DEF Init, Forward, Pairs, None

LEMMA ForwardNext ==
  ASSUME ~DedupReview, ~ManualCuration, Inv, Forward, [Next]_vars
  PROVE  Forward'
  <1> USE DEF Forward
  <1>1. CASE Learn
    BY <1>1 DEF Learn, Insert, Inv, TypeOK
  <1>2. ASSUME NEW gone, Delete(gone, status, by, rels), found' = found PROVE Forward'
    BY <1>2 DEF Delete, Inv, TypeOK, Pairs, Ids, None
  <1>3. ASSUME NEW m \in Ids, Forget(m) PROVE Forward'
    BY <1>2, <1>3 DEF Forget
  <1>4. ASSUME NEW S \in SUBSET Ids, Archive(S) PROVE Forward'
    BY <1>2, <1>4 DEF Archive
  <1>5. ASSUME NEW S \in SUBSET Ids, Deprecate(S) PROVE Forward'
    BY <1>5 DEF Deprecate
  <1>6. ASSUME NEW x \in Ids, NEW y \in Ids, Stage(x, y) PROVE Forward'
    BY <1>6 DEF Stage, Inv, TypeOK, Pairs, Ids
  <1>7. ASSUME NEW x \in Ids, NEW y \in Ids, AcceptConflict(x, y) PROVE Forward'
    <2>1. x < y /\ \A p \in Pairs : staged'[p] # "none" => staged[p] # "none"
      BY <1>7 DEF AcceptConflict, Resolve, Inv, TypeOK, Pairs
    <2> QED
      BY <1>7, <2>1 DEF AcceptConflict, Replace, Inv, TypeOK, Ids, None
  <1>8. ASSUME NEW x \in Ids, NEW y \in Ids, DismissConflict(x, y) PROVE Forward'
    BY <1>8 DEF DismissConflict, Resolve, Inv, TypeOK, Pairs
  <1>9. ASSUME NEW x \in Ids, NEW y \in Ids,
               \/ FindDuplicate(x, y) \/ ManualSupersede(x, y) \/ Consolidate(x, y)
               \/ ManualMerge(x, y) \/ Relate(x, y) \/ Unsupersede(x, y)
        PROVE  FALSE
    BY <1>9 DEF FindDuplicate, ManualSupersede, Consolidate, ManualMerge, Relate, Unsupersede
  <1>10. ASSUME NEW m \in Ids, ApproveSuggestion(m) PROVE FALSE
    BY <1>10 DEF ApproveSuggestion
  <1>11. CASE SaveCandidate
    BY <1>11 DEF SaveCandidate
  <1>12. CASE UNCHANGED vars
    BY <1>12 DEF vars
  <1> HIDE DEF Forward
  <1> QED
    BY <1>1, <1>3, <1>4, <1>5, <1>6, <1>7, <1>8, <1>9, <1>10, <1>11, <1>12 DEF Next

\* The largest member of a set is replaced by nothing in the set.
LEMMA ForwardHasNoCycle == Inv /\ Forward => NoCycle
  <1> SUFFICES ASSUME Inv, Forward, NEW S \in SUBSET Ids, S # {}
               PROVE  \E m \in S : by[m] \notin S
    BY DEF NoCycle
  <1> DEFINE Depths == {MaxId - m : m \in S}
  <1>1. \A m \in S : MaxId - m \in Nat
    BY SupersessionAssumption DEF Ids
  <1>2. Depths \subseteq Nat /\ Depths # {}
    BY <1>1
  <1>3. \A m \in S : MaxId - m \in Depths
    OBVIOUS
  <1>4. \A d \in Depths : \E m \in S : d = MaxId - m
    OBVIOUS
  <1> HIDE DEF Depths
  <1>5. PICK d \in Depths : \A k \in Depths : d <= k
    BY <1>2, SmallestExists
  <1>6. PICK top \in S : d = MaxId - top
    BY <1>4
  <1>7. \A m \in S : m <= top
    BY <1>3, <1>5, <1>6, SupersessionAssumption DEF Ids
  <1>8. ASSUME by[top] \in S PROVE FALSE
    <2>1. top \in Ids /\ by[top] \in Ids
      BY <1>8
    <2>2. None \notin Ids
      BY SupersessionAssumption DEF Ids, None
    <2>3. top < by[top]
      BY <2>1, <2>2 DEF Forward
    <2>4. by[top] <= top
      BY <1>7, <1>8
    <2> QED
      BY <2>1, <2>3, <2>4, SupersessionAssumption DEF Ids
  <1> QED
    BY <1>8

\* No memories replace one another in a circle, so that the newest of any
\* chain of replacements is still there to be recalled.
THEOREM NoCycleTheorem ==
  ASSUME ~DedupReview, ~ManualCuration
  PROVE  Spec => []NoCycle
  <1>1. Inv /\ Forward /\ [Next]_vars => Forward'
    BY ForwardNext
  <1>2. Inv /\ [Next]_vars => Inv'
    BY NextInv
  <1> QED
    BY <1>1, <1>2, InitInv, ForwardInit, ForwardHasNoCycle, PTL DEF Spec

-----------------------------------------------------------------------------
\* With the conflict queue alone a memory is replaced once, while no relation
\* replaces it: the relation and the column name the same replacement.
\* (Two relations that replace one memory would agree with its column until a
\* deletion takes the one that the column names.)
Recorded == \A m, x \in Ids : <<x, m>> \in rels <=> by[m] = x

LEMMA RecordedNext ==
  ASSUME ~DedupReview, ~ManualCuration, Inv, Forward, Recorded, [Next]_vars
  PROVE  Recorded'
  <1> USE DEF Recorded
  <1>1. ASSUME NEW gone, Delete(gone, status, by, rels) PROVE Recorded'
    <2> SUFFICES ASSUME NEW m \in Ids, NEW x \in Ids PROVE <<x, m>> \in rels' <=> by'[m] = x
      OBVIOUS
    <2>1. None \notin Ids
      BY DEF Ids, None
    <2>2. <<x, m>> \in rels' <=> <<x, m>> \in rels /\ x \notin gone /\ m \notin gone
      BY <1>1 DEF Delete
    <2>3. by'[m] = IF m \in gone \/ by[m] \in gone THEN None ELSE by[m]
      BY <1>1 DEF Delete
    <2> QED
      BY <2>1, <2>2, <2>3
  <1>2. ASSUME NEW m \in Ids, Forget(m) PROVE Recorded'
    BY <1>1, <1>2 DEF Forget
  <1>3. ASSUME NEW S \in SUBSET Ids, Archive(S) PROVE Recorded'
    BY <1>1, <1>3 DEF Archive
  <1>4. ASSUME NEW o \in Ids, NEW n \in Ids, AcceptConflict(o, n) PROVE Recorded'
    <2>1. CASE {o, n} \subseteq Active /\ Replace(n, o)
      <3>1. by[o] = None
        BY <2>1 DEF Inv, PointerMeansSuperseded, Active
      <3>2. \A x \in Ids : <<x, o>> \notin rels
        BY <3>1, SupersessionAssumption DEF Ids, None
      <3> QED
        BY <2>1, <3>2 DEF Replace, Inv, TypeOK
    <2> QED
      BY <1>4, <2>1 DEF AcceptConflict
  <1>5. ASSUME NEW m \in Ids, ApproveSuggestion(m) PROVE FALSE
    BY <1>5 DEF ApproveSuggestion, Forward
  <1>6. ASSUME NEW x \in Ids, NEW y \in Ids,
               \/ ManualSupersede(x, y) \/ Consolidate(x, y)
               \/ ManualMerge(x, y) \/ Relate(x, y) \/ Unsupersede(x, y)
        PROVE  FALSE
    BY <1>6 DEF ManualSupersede, Consolidate, ManualMerge, Relate, Unsupersede
  <1>7. CASE UNCHANGED <<by, rels>>
    BY <1>7
  <1> HIDE DEF Recorded
  <1> QED
    BY <1>2, <1>3, <1>4, <1>5, <1>6, <1>7
       DEF Next, vars, Learn, SaveCandidate, Deprecate, Stage, DismissConflict, FindDuplicate

\* Only a deletion takes the replacement away from a superseded row, and no row
\* becomes superseded without naming one.
OrphanedByDeletion(m) ==
    status'[m] = "superseded" /\ by'[m] = None
        => \/ status[m] = "superseded" /\ by[m] = None
           \/ by[m] # None /\ status'[by[m]] = "absent"

LEMMA OrphanedStep ==
  ASSUME ~DedupReview, ~ManualCuration, Inv, Forward, [Next]_vars, NEW m \in Ids
  PROVE  OrphanedByDeletion(m)
  <1> USE DEF OrphanedByDeletion
  <1>1. ASSUME NEW gone \in SUBSET Ids, Delete(gone, status, by, rels)
        PROVE  OrphanedByDeletion(m)
    <2>1. CASE status'[m] = "superseded" /\ by'[m] = None /\ by[m] # None
      <3>1. by[m] \in gone /\ by[m] \in Ids
        BY <1>1, <2>1 DEF Delete, Inv, TypeOK
      <3> QED BY <1>1, <2>1, <3>1 DEF Delete
    <2>2. CASE by[m] = None
      BY <1>1, <2>2 DEF Delete
    <2> QED BY <2>1, <2>2
  <1>2. ASSUME NEW x \in Ids, Forget(x) PROVE OrphanedByDeletion(m)
    BY <1>1, <1>2 DEF Forget
  <1>3. ASSUME NEW S \in SUBSET Ids, Archive(S) PROVE OrphanedByDeletion(m)
    BY <1>1, <1>3 DEF Archive
  <1>4. ASSUME NEW o \in Ids, NEW n \in Ids, AcceptConflict(o, n) PROVE OrphanedByDeletion(m)
    <2>1. CASE Replace(n, o)
      <3>1. by' = [by EXCEPT ![o] = n] /\ status' = [status EXCEPT ![o] = "superseded"]
        BY <2>1 DEF Replace
      <3>2. n # None
        BY DEF Ids, None
      <3> QED BY <3>1, <3>2 DEF Inv, TypeOK
    <2> QED BY <1>4, <2>1 DEF AcceptConflict
  <1>5. ASSUME NEW x \in Ids, ApproveSuggestion(x) PROVE FALSE
    BY <1>5 DEF ApproveSuggestion, Forward
  <1>6. ASSUME NEW x \in Ids, NEW y \in Ids,
               \/ ManualSupersede(x, y) \/ Consolidate(x, y)
               \/ ManualMerge(x, y) \/ Relate(x, y) \/ Unsupersede(x, y)
        PROVE  FALSE
    BY <1>6 DEF ManualSupersede, Consolidate, ManualMerge, Relate, Unsupersede
  <1>7. CASE Learn \/ SaveCandidate
    BY <1>7 DEF Learn, SaveCandidate, Insert, Inv, TypeOK
  <1>8. ASSUME NEW S \in SUBSET Ids, Deprecate(S) PROVE OrphanedByDeletion(m)
    BY <1>8 DEF Deprecate, Inv, TypeOK
  <1>9. CASE UNCHANGED <<status, by>>
    BY <1>9
  <1> HIDE DEF OrphanedByDeletion
  <1> QED
    BY <1>2, <1>3, <1>4, <1>5, <1>6, <1>7, <1>8, <1>9
       DEF Next, vars, Stage, DismissConflict, FindDuplicate

\* The status, the column and the relation of a replacement tell the same story,
\* however reviews, decay, the archive and deletions follow one another.
THEOREM RecordsAgreeTheorem ==
  ASSUME ~DedupReview, ~ManualCuration
  PROVE  Spec => RecordsAgree
  <1>1. Init => Recorded
    BY SupersessionAssumption DEF Init, Recorded, Ids, None
  <1>2. Inv /\ Forward /\ Recorded /\ [Next]_vars => Recorded'
    BY RecordedNext
  <1>3. Inv /\ Forward /\ [Next]_vars => Forward'
    BY ForwardNext
  <1>5. Inv /\ [Next]_vars => Inv'
    BY NextInv
  <1> DEFINE Agree ==
        \A m \in Ids :
          /\ by'[m] # None => status'[m] = "superseded" /\ <<by'[m], m>> \in rels'
          /\ (\E x \in Ids : <<x, m>> \in rels') => by'[m] # None
          /\ status'[m] = "superseded" /\ by'[m] = None
               => \/ status[m] = "superseded" /\ by[m] = None
                  \/ by[m] # None /\ status'[by[m]] = "absent"
  <1>6. Inv /\ Forward /\ Inv' /\ Recorded' /\ [Next]_vars => Agree
    <2> SUFFICES ASSUME Inv, Forward, Inv', Recorded', [Next]_vars, NEW m \in Ids
                 PROVE  /\ by'[m] # None => status'[m] = "superseded" /\ <<by'[m], m>> \in rels'
                        /\ (\E x \in Ids : <<x, m>> \in rels') => by'[m] # None
                        /\ OrphanedByDeletion(m)
      BY DEF OrphanedByDeletion
    <2>1. None \notin Ids
      BY DEF Ids, None
    <2>2. by'[m] # None => status'[m] = "superseded" /\ <<by'[m], m>> \in rels'
      BY DEF Inv, TypeOK, PointerMeansSuperseded, Recorded
    <2>3. (\E x \in Ids : <<x, m>> \in rels') => by'[m] # None
      BY <2>1 DEF Recorded
    <2> QED BY <2>2, <2>3, OrphanedStep
  <1> HIDE DEF Agree
  <1>7. Spec => [][Agree]_vars
    BY <1>1, <1>2, <1>3, <1>5, <1>6, InitInv, ForwardInit, PTL DEF Spec
  <1> QED
    BY <1>7 DEF Agree, RecordsAgree

-----------------------------------------------------------------------------
\* What a step may do to the staging rows.
LEMMA ResolvedStep ==
  ASSUME Inv, [Next]_vars, NEW p \in Pairs
  PROVE  /\ staged[p] \in Resolved /\ staged'[p] # staged[p]
               => status'[p[1]] = "absent" \/ status'[p[2]] = "absent"
         /\ staged[p] = "none" /\ staged'[p] # "none" => staged'[p] = "pending"
         /\ p[1] < next /\ status[p[1]] = "absent" => staged'[p] = "none"
  <1> DEFINE Goal ==
         /\ staged[p] \in Resolved /\ staged'[p] # staged[p]
               => status'[p[1]] = "absent" \/ status'[p[2]] = "absent"
         /\ staged[p] = "none" /\ staged'[p] # "none" => staged'[p] = "pending"
         /\ p[1] < next /\ status[p[1]] = "absent" => staged'[p] = "none"
  <1> SUFFICES Goal
    OBVIOUS
  <1>1. p[1] \in Ids /\ p[2] \in Ids /\ (status[p[1]] = "absent" => staged[p] = "none")
    BY DEF Pairs, Inv, References, Exists
  <1>2. ASSUME NEW gone, NEW st, NEW sb, NEW R, Delete(gone, st, sb, R) PROVE Goal
    BY <1>1, <1>2 DEF Delete, Resolved
  <1>3. ASSUME NEW o \in Ids, NEW n \in Ids, NEW out \in Resolved, Resolve(o, n, out) PROVE Goal
    <2>1. staged[<<o, n>>] = "pending" /\ \A q \in Pairs : q # <<o, n>> => staged'[q] = staged[q]
      BY <1>3 DEF Resolve, Inv, TypeOK
    <2> QED
      BY <1>1, <2>1 DEF Resolved
  <1>4. ASSUME NEW o \in Ids, NEW n \in Ids, Stage(o, n) PROVE Goal
    <2>1. /\ staged[<<o, n>>] = "none" /\ staged'[<<o, n>>] = "pending" /\ status[o] = "active"
          /\ \A q \in Pairs : q # <<o, n>> => staged'[q] = staged[q]
      BY <1>4 DEF Stage, Active, Inv, TypeOK, Pairs
    <2> QED
      BY <1>1, <2>1 DEF Resolved
  <1>5. CASE staged' = staged
    BY <1>1, <1>5
  <1> HIDE DEF Goal
  <1>6. ASSUME NEW m \in Ids, Forget(m) \/ ApproveSuggestion(m) PROVE Goal
    BY <1>2, <1>6 DEF Forget, ApproveSuggestion, Merge
  <1>7. ASSUME NEW o \in Ids, NEW n \in Ids, AcceptConflict(o, n) \/ DismissConflict(o, n) PROVE Goal
    BY <1>3, <1>7 DEF AcceptConflict, DismissConflict, Resolved
  <1>8. ASSUME NEW o \in Ids, NEW n \in Ids, ManualMerge(o, n) PROVE Goal
    BY <1>2, <1>8 DEF ManualMerge, Merge
  <1>9. ASSUME NEW S \in SUBSET Ids, Archive(S) PROVE Goal
    BY <1>2, <1>9 DEF Archive
  <1> QED
    BY <1>4, <1>5, <1>6, <1>7, <1>8, <1>9
       DEF Next, vars, Learn, SaveCandidate, Deprecate, FindDuplicate, ManualSupersede,
           Consolidate, Relate, Unsupersede

\* A pair somebody has resolved is not staged again, whichever of the review
\* channels and edits by hand are in use.
THEOREM ResolvedOnceTheorem == Spec => ResolvedOnce
  <1>1. Inv /\ [Next]_vars =>
          \A p \in Pairs :
            /\ staged[p] \in Resolved /\ staged'[p] # staged[p]
                  => status'[p[1]] = "absent" \/ status'[p[2]] = "absent"
            /\ staged[p] = "none" /\ staged'[p] # "none" => staged'[p] = "pending"
            /\ p[1] < next /\ status[p[1]] = "absent" => staged'[p] = "none"
    BY ResolvedStep
  <1> QED
    BY <1>1, Invariance, PTL DEF Spec, ResolvedOnce

-----------------------------------------------------------------------------
\* Nobody looks for duplicates: there are no suggestions.
NoSuggestions == found = NoPair /\ \A m \in Ids : pair[m] = NoPair

LEMMA NoSuggestionsNext ==
  ASSUME ~DedupReview, Inv, NoSuggestions, [Next]_vars
  PROVE  NoSuggestions'
  <1> USE DEF NoSuggestions
  <1>1. CASE Learn
    BY <1>1 DEF Learn, Insert, Inv, TypeOK
  <1>2. ASSUME NEW gone, NEW st, NEW sb, NEW R, Delete(gone, st, sb, R), found' = found
        PROVE  NoSuggestions'
    BY <1>2 DEF Delete
  <1>3. ASSUME NEW m \in Ids, Forget(m) PROVE NoSuggestions'
    BY <1>2, <1>3 DEF Forget
  <1>4. ASSUME NEW S \in SUBSET Ids, Archive(S) PROVE NoSuggestions'
    BY <1>2, <1>4 DEF Archive
  <1>5. ASSUME NEW x \in Ids, NEW y \in Ids, ManualMerge(x, y) PROVE NoSuggestions'
    BY <1>2, <1>5 DEF ManualMerge, Merge
  <1>6. ASSUME NEW m \in Ids, ApproveSuggestion(m) PROVE FALSE
    BY <1>6 DEF ApproveSuggestion
  <1>7. CASE UNCHANGED <<found, pair>>
    BY <1>7
  <1> HIDE DEF NoSuggestions
  <1>8. CASE SaveCandidate
    BY <1>8 DEF SaveCandidate, NoSuggestions
  <1> QED
    BY <1>1, <1>3, <1>4, <1>5, <1>6, <1>7, <1>8
       DEF Next, vars, Deprecate, Stage, AcceptConflict, DismissConflict, FindDuplicate,
           ManualSupersede, Consolidate, Relate, Unsupersede

\* A review of a conflict leaves one of its two memories to recall, although the
\* memories may have been replaced, deprecated or deleted since it was staged.
THEOREM ReviewKeepsOneTheorem ==
  ASSUME ~DedupReview
  PROVE  Spec => ReviewKeepsOne
  <1>1. Init => NoSuggestions
    BY DEF Init, NoSuggestions
  <1>2. Inv /\ NoSuggestions /\ [Next]_vars => NoSuggestions'
    BY NoSuggestionsNext
  <1>3. ASSUME Inv, NoSuggestions, NEW x \in Ids, NEW y \in Ids,
               \/ AcceptConflict(x, y) \/ DismissConflict(x, y)
               \/ \E m \in Ids : pair[m] = <<x, y>> /\ ApproveSuggestion(m),
               {x, y} \cap Active # {}
        PROVE  {x, y} \cap Active' # {}
    <2>1. CASE AcceptConflict(x, y)
      BY <1>3, <2>1 DEF AcceptConflict, Replace, Active, Inv, TypeOK
    <2>2. CASE DismissConflict(x, y)
      BY <1>3, <2>2 DEF DismissConflict, Active
    <2>3. CASE \E m \in Ids : pair[m] = <<x, y>> /\ ApproveSuggestion(m)
      BY <1>3, <2>3 DEF NoSuggestions, ApproveSuggestion
    <2> QED
      BY <1>3, <2>1, <2>2, <2>3
  <1>4. Inv /\ NoSuggestions =>
          \A x, y \in Ids :
            (\/ AcceptConflict(x, y) \/ DismissConflict(x, y)
             \/ \E m \in Ids : pair[m] = <<x, y>> /\ ApproveSuggestion(m))
            => ({x, y} \cap Active # {} => {x, y} \cap Active' # {})
    BY <1>3
  <1>5. Inv /\ [Next]_vars => Inv'
    BY NextInv
  <1> QED
    BY <1>1, <1>2, <1>4, <1>5, InitInv, PTL DEF Spec, ReviewKeepsOne
=============================================================================

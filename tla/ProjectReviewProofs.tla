------------------------ MODULE ProjectReviewProofs ------------------------
(***************************************************************************)
(* For any projects, facts, callers and bounds: the types of ProjectReview,*)
(* the agreement of the ledger with the memories, that replacement never   *)
(* closes a cycle, that verdicts are final, and that the strict context    *)
(* implements ReviewedFacts.                                               *)
(***************************************************************************)
EXTENDS ProjectReview, TLAPS

\* A row has a key, a caller about to insert has a fact, and only an approval
\* makes a memory.
Written ==
    /\ \A r \in Reviews : state[r] # "none" => key[r] \in Keys
    /\ \A c \in Callers : pc[c] = "insert" => wanted[c] \in Keys
    /\ \A r \in Reviews : Linked(r) => state[r] \in {"approved", "superseded", "expired"}

\* UNIQUE(dedup_key)
OneMemoryPerFact ==
    \A r, s \in Reviews : Linked(r) /\ Linked(s) /\ SameFact(r, s) => r = s

ReplacedIsSuperseded == \A r \in Reviews : by[r] # 0 => state[r] = "superseded"

IInv == /\ TypeOK /\ Written /\ LedgerAgrees
        /\ OneMemoryPerFact /\ ReplacedIsSuperseded

LEMMA InitInv == Init => IInv
BY ReviewAssumption DEF Init, IInv, TypeOK, Written, LedgerAgrees, OneMemoryPerFact,
   ReplacedIsSuperseded, Linked, Reviews

\* A step of a prune expires one review or ends it.
LEMMA PruneCases ==
    ASSUME NEW c \in Callers, PruneNext(c)
    PROVE  \/ EndPrune(c) /\ UNCHANGED <<ledger, lapsed, memory, writer, wanted, crashes>>
           \/ \E r \in due[c] :
                 /\ ExpireReview(r)
                 /\ EndPrune(c) \/ (due' = [due EXCEPT ![c] = @ \ {r}] /\ UNCHANGED pc)
<1>1. PICK r \in due[c] :
        \/ /\ ExpireReview(r)
           /\ \/ EndPrune(c)
              \/ due' = [due EXCEPT ![c] = @ \ {r}] /\ UNCHANGED pc
        \/ EndPrune(c) /\ UNCHANGED <<ledger, lapsed, memory, writer, wanted, crashes>>
  BY Zenon DEF PruneNext
<1> QED BY <1>1, Zenon

\* What one caller does to the ledger.
LEMMA CallStep ==
    ASSUME IInv, NEW c \in Callers, Call(c)
    PROVE  IInv'
<1> USE ReviewAssumption DEF IInv, TypeOK, Written, LedgerAgrees, OneMemoryPerFact,
        ReplacedIsSuperseded, Linked, SameFact, Reviews, ledger, callers, Commit
<1>1. ASSUME NEW k \in Keys, ProposeLook(c, k) PROVE IInv'
  BY <1>1 DEF ProposeLook
<1>2. ASSUME NEW r \in Reviews, ProposeInsert(c, r) PROVE IInv'
  BY <1>2 DEF ProposeInsert
<1>3. ASSUME NEW r \in Reviews, Approve(c, r) PROVE IInv'
  BY <1>3 DEF Approve
<1>4. ASSUME NEW r \in Reviews, Reject(c, r) PROVE IInv'
  BY <1>4 DEF Reject
<1>5. ASSUME NEW r \in Reviews, Expire(c, r) PROVE IInv'
  BY <1>5 DEF Expire, ExpireReview
<1>6. ASSUME NEW p \in Projects, PruneSelect(c, p) PROVE IInv'
  BY <1>6 DEF PruneSelect
<1>7. CASE PruneNext(c)
  <2>1. CASE EndPrune(c) /\ UNCHANGED <<ledger, lapsed, memory, writer, wanted, crashes>>
    BY <2>1 DEF EndPrune
  <2>2. ASSUME NEW r \in due[c], ExpireReview(r),
               EndPrune(c) \/ (due' = [due EXCEPT ![c] = @ \ {r}] /\ UNCHANGED pc)
        PROVE  IInv'
    BY <2>2 DEF ExpireReview, EndPrune
  <2> QED BY <1>7, <2>1, <2>2, PruneCases, Zenon
<1>8. ASSUME NEW old \in Reviews, NEW new \in Reviews, Supersede(c, old, new) PROVE IInv'
  BY <1>8 DEF Supersede
<1>9. CASE OtherWrite(c)
  BY <1>9 DEF OtherWrite
<1> QED BY <1>1, <1>2, <1>3, <1>4, <1>5, <1>6, <1>7, <1>8, <1>9 DEF Call

LEMMA Step == IInv /\ [Next]_vars => IInv'
<1> SUFFICES ASSUME IInv, [Next]_vars PROVE IInv'
  OBVIOUS
<1> USE ReviewAssumption DEF IInv, TypeOK, Written, LedgerAgrees, OneMemoryPerFact,
        ReplacedIsSuperseded, Linked, SameFact, Reviews, ledger, callers
<1>1. ASSUME NEW c \in Callers, Call(c) PROVE IInv'
  BY <1>1, CallStep
<1>2. ASSUME NEW c \in Callers, Crash(c) PROVE IInv'
  BY <1>2 DEF Crash, EndPrune
<1>3. ASSUME NEW r \in Reviews, Forget(r) PROVE IInv'
  BY <1>3 DEF Forget
<1>4. ASSUME NEW r \in Reviews, Retire(r) PROVE IInv'
  BY <1>4 DEF Retire
<1>5. ASSUME NEW r \in Reviews, Lapse(r) PROVE IInv'
  BY <1>5 DEF Lapse
<1>6. CASE UNCHANGED vars
  BY <1>6 DEF vars
<1> QED BY <1>1, <1>2, <1>3, <1>4, <1>5, <1>6 DEF Next

THEOREM Invariance == Spec => []IInv
BY InitInv, Step, PTL DEF Spec

-----------------------------------------------------------------------------
\* Verdicts.

LEMMA VerdictStep ==
    ASSUME IInv, [Next]_vars, NEW r \in Reviews,
           state[r] \in {"rejected", "superseded", "expired"}
    PROVE  state'[r] = state[r] /\ by'[r] = by[r]
<1> USE DEF IInv, TypeOK, ledger, callers
<1>1. ASSUME NEW s \in Reviews, ExpireReview(s) PROVE state'[r] = state[r] /\ by'[r] = by[r]
  BY <1>1 DEF ExpireReview
<1>2. ASSUME NEW c \in Callers, Call(c) PROVE state'[r] = state[r] /\ by'[r] = by[r]
  <2>1. CASE PruneNext(c)
    BY <2>1, <1>1, PruneCases
  <2>2. CASE \E s \in Reviews : Expire(c, s)
    BY <2>2, <1>1 DEF Expire
  <2>3. CASE \E s \in Reviews : ProposeInsert(c, s) \/ Approve(c, s) \/ Reject(c, s)
    BY <2>3 DEF ProposeInsert, Approve, Reject
  <2>4. CASE \E old, new \in Reviews : Supersede(c, old, new)
    BY <2>4 DEF Supersede
  <2>5. CASE \/ \E k \in Keys : ProposeLook(c, k)
             \/ \E p \in Projects : PruneSelect(c, p)
             \/ OtherWrite(c)
    BY <2>5 DEF ProposeLook, PruneSelect, OtherWrite
  <2> QED BY <1>2, <2>1, <2>2, <2>3, <2>4, <2>5 DEF Call
<1>3. CASE UNCHANGED ledger
  BY <1>3
<1> QED BY <1>2, <1>3 DEF Next, vars, Crash, Forget, Retire, Lapse

-----------------------------------------------------------------------------
\* Replacement.

\* The replacement of a superseded fact is approved, and so has none itself.
LEMMA CycleStep == IInv /\ NoSupersessionCycle /\ [Next]_vars => NoSupersessionCycle'
<1> SUFFICES ASSUME IInv, NoSupersessionCycle, [Next]_vars, NEW S \in SUBSET Reviews, S # {}
             PROVE  \E r \in S : by'[r] \notin S
  BY DEF NoSupersessionCycle
<1> USE DEF ledger, callers
<1>1. PICK r \in S : by[r] \notin S
  BY DEF NoSupersessionCycle
<1>2. ASSUME NEW c \in Callers, NEW old \in Reviews, NEW new \in Reviews, Supersede(c, old, new)
      PROVE  \E s \in S : by'[s] \notin S
  <2>1. by' = [by EXCEPT ![old] = new] /\ old # new /\ state[new] = "approved"
    BY <1>2 DEF Supersede
  <2>2. by'[new] = 0 /\ 0 \notin S
    BY <2>1 DEF IInv, TypeOK, ReplacedIsSuperseded, Reviews
  <2>3. CASE old \in S /\ new \notin S
    BY <2>1, <2>3 DEF IInv, TypeOK
  <2>4. CASE old \in S /\ new \in S
    BY <2>2, <2>4
  <2>5. CASE old \notin S
    BY <1>1, <2>1, <2>5 DEF IInv, TypeOK
  <2> QED BY <2>3, <2>4, <2>5
<1>3. CASE by' = by
  BY <1>1, <1>3
<1>4. ASSUME NEW c \in Callers, Call(c) PROVE \E s \in S : by'[s] \notin S
  <2>1. CASE PruneNext(c)
    BY <1>3, <2>1, PruneCases DEF ExpireReview
  <2>2. CASE \E old, new \in Reviews : Supersede(c, old, new)
    BY <1>2, <2>2
  <2>3. CASE ~PruneNext(c) /\ ~\E old, new \in Reviews : Supersede(c, old, new)
    BY <1>3, <1>4, <2>3
       DEF Call, ProposeLook, ProposeInsert, Approve, Reject, Expire, ExpireReview,
           PruneSelect, OtherWrite
  <2> QED BY <2>1, <2>2, <2>3
<1> QED BY <1>3, <1>4 DEF Next, vars, Crash, Forget, Retire, Lapse

LEMMA CycleInit == Init => NoSupersessionCycle
<1> SUFFICES ASSUME Init, NEW S \in SUBSET Reviews, S # {} PROVE \E r \in S : by[r] \notin S
  BY DEF NoSupersessionCycle
<1>1. PICK r \in S : TRUE
  OBVIOUS
<1>2. by[r] = 0 /\ 0 \notin S
  BY DEF Init, Reviews
<1> QED BY <1>1, <1>2

-----------------------------------------------------------------------------
\* The strict context.

Visible(r) == state[r] = "approved" /\ r \notin lapsed /\ memory[r] = "active"
ShownNow == {key[r] : r \in {s \in Reviews : Visible(s)}}
WithdrawnNow == {key[r] : r \in {s \in Reviews : Linked(s) /\ ~Visible(s)}}

LEMMA Maps == TypeOK /\ Written => ShownFacts = ShownNow /\ WithdrawnFacts = WithdrawnNow
<1> SUFFICES ASSUME TypeOK, Written PROVE ShownFacts = ShownNow /\ WithdrawnFacts = WithdrawnNow
  OBVIOUS
<1>1. \A r \in Reviews : state[r] # "none" => Project(r) \in Projects
  BY DEF Written, Keys, Project
<1>2. UNION {StrictContext(p) : p \in Projects} = {s \in Reviews : Visible(s)}
  BY <1>1 DEF StrictContext, Visible
<1>3. \A s \in Reviews : s \in StrictContext(Project(s)) <=> Visible(s)
  BY DEF StrictContext, Visible
<1> QED BY <1>2, <1>3 DEF ShownNow, WithdrawnNow, ShownFacts, WithdrawnFacts

\* A step that touches one row, and does not show it again once it is hidden.
LEMMA OneRow ==
    ASSUME IInv, IInv', NEW r \in Reviews,
           \A s \in Reviews \ {r} : /\ (Linked(s) \/ Linked(s)') => key'[s] = key[s]
                                    /\ Linked(s)' <=> Linked(s)
                                    /\ Visible(s)' <=> Visible(s),
           (Linked(r) \/ Linked(r)') => key'[r] = key[r],
           ~(Linked(r) /\ ~Visible(r) /\ Visible(r)')
    PROVE  [Shown!Next]_(Shown!vars)
<1>a. ShownFacts = ShownNow /\ WithdrawnFacts = WithdrawnNow
  BY Maps DEF IInv
<1>b. (TypeOK /\ Written => ShownFacts = ShownNow /\ WithdrawnFacts = WithdrawnNow)'
  BY Maps, PTL
<1>c. ShownFacts' = ShownNow' /\ WithdrawnFacts' = WithdrawnNow'
  BY <1>b DEF IInv
<1> DEFINE k == key'[r]
<1>0. \A s \in Reviews : Visible(s) => Linked(s)
  BY DEF Visible, Linked
<1>00. \A s \in Reviews : (Visible(s) => Linked(s))'
  BY DEF Visible, Linked
<1>1. \A s \in Reviews \ {r} : Linked(s) => key[s] = key'[s] /\ (Linked(r)' \/ Linked(r) => key[s] # k)
  BY DEF IInv, OneMemoryPerFact, SameFact
<1>2. CASE ~Linked(r) /\ ~Linked(r)'
  <2>1. ShownNow' = ShownNow /\ WithdrawnNow' = WithdrawnNow
    BY <1>0, <1>00, <1>1, <1>2 DEF ShownNow, WithdrawnNow
  <2> QED BY <1>a, <1>c, <2>1 DEF Shown!vars
<1>3. CASE Linked(r) \/ Linked(r)'
  <2>1. k \in Keys
    BY <1>3 DEF IInv, Written, TypeOK
  <2>2. ShownNow \ {k} = ShownNow' \ {k} /\ WithdrawnNow \ {k} = WithdrawnNow' \ {k}
    BY <1>0, <1>00, <1>1, <1>3 DEF ShownNow, WithdrawnNow
  <2>3. /\ k \in ShownNow <=> Visible(r)
        /\ k \in WithdrawnNow <=> Linked(r) /\ ~Visible(r)
    BY <1>0, <1>1, <1>3 DEF ShownNow, WithdrawnNow
  <2>4. /\ k \in ShownNow' <=> Visible(r)'
        /\ k \in WithdrawnNow' <=> Linked(r)' /\ ~Visible(r)'
    BY <1>00, <1>1, <1>3 DEF ShownNow, WithdrawnNow
  <2> HIDE DEF k
  <2>5. ~(Visible(r) /\ ~Linked(r)) /\ ~(Visible(r) /\ ~Linked(r))'
    BY <1>0, <1>00
  <2>6. \/ Shown!Admit(k) \/ Shown!Withdraw(k) \/ Shown!Forget(k)
        \/ ShownNow' = ShownNow /\ WithdrawnNow' = WithdrawnNow
    <3>1. CASE Linked(r)' /\ Visible(r)'
      BY <1>a, <1>c, <2>2, <2>3, <2>4, <2>5, <3>1 DEF Shown!Admit
    <3>2. CASE Linked(r)' /\ ~Visible(r)'
      BY <1>a, <1>c, <2>2, <2>3, <2>4, <2>5, <3>2 DEF Shown!Withdraw
    <3>3. CASE ~Linked(r)'
      BY <1>a, <1>c, <2>2, <2>3, <2>4, <2>5, <3>3 DEF Shown!Forget
    <3> QED BY <3>1, <3>2, <3>3
  <2> QED BY <1>a, <1>c, <2>1, <2>6 DEF Shown!Next, Shown!vars
<1> QED BY <1>2, <1>3

LEMMA Untouched ==
    ASSUME UNCHANGED <<state, key, lapsed, memory>>
    PROVE  UNCHANGED Shown!vars
BY DEF Shown!vars, ShownFacts, WithdrawnFacts, StrictContext, Linked, Project

LEMMA CallRefines ==
    ASSUME IInv, IInv', NEW c \in Callers, Call(c)
    PROVE  [Shown!Next]_(Shown!vars)
<1> USE DEF IInv, TypeOK, Written, Linked, Visible, ledger, callers
<1>1. ASSUME NEW r \in Reviews, ProposeInsert(c, r) PROVE [Shown!Next]_(Shown!vars)
  BY <1>1, OneRow DEF ProposeInsert
<1>2. ASSUME NEW r \in Reviews, Approve(c, r) PROVE [Shown!Next]_(Shown!vars)
  BY <1>2, OneRow DEF Approve
<1>3. ASSUME NEW r \in Reviews, Reject(c, r) PROVE [Shown!Next]_(Shown!vars)
  BY <1>3, OneRow DEF Reject
<1>4. ASSUME NEW r \in Reviews, ExpireReview(r) PROVE [Shown!Next]_(Shown!vars)
  BY <1>4, OneRow DEF ExpireReview
<1>5. ASSUME NEW old \in Reviews, NEW new \in Reviews, Supersede(c, old, new)
      PROVE  [Shown!Next]_(Shown!vars)
  BY <1>5, OneRow DEF Supersede
<1>6. CASE PruneNext(c)
  <2>1. CASE EndPrune(c) /\ UNCHANGED <<ledger, lapsed, memory, writer, wanted, crashes>>
    BY <2>1, Untouched
  <2>2. CASE \E r \in Reviews : ExpireReview(r)
    BY <2>2, <1>4
  <2> QED BY <1>6, <2>1, <2>2, PruneCases
<1>7. CASE \/ \E k \in Keys : ProposeLook(c, k)
           \/ \E p \in Projects : PruneSelect(c, p)
           \/ OtherWrite(c)
  BY <1>7, Untouched DEF ProposeLook, PruneSelect, OtherWrite
<1> QED BY <1>1, <1>2, <1>3, <1>4, <1>5, <1>6, <1>7 DEF Call, Expire

LEMMA StepRefines == IInv /\ IInv' /\ [Next]_vars => [Shown!Next]_(Shown!vars)
<1> SUFFICES ASSUME IInv, IInv', [Next]_vars PROVE [Shown!Next]_(Shown!vars)
  OBVIOUS
<1> USE DEF IInv, TypeOK, Written, Linked, Visible, ledger, callers
<1>1. ASSUME NEW c \in Callers, Call(c) PROVE [Shown!Next]_(Shown!vars)
  BY <1>1, CallRefines
<1>2. ASSUME NEW r \in Reviews, Forget(r) PROVE [Shown!Next]_(Shown!vars)
  BY <1>2, OneRow DEF Forget
<1>3. ASSUME NEW r \in Reviews, Retire(r) PROVE [Shown!Next]_(Shown!vars)
  BY <1>3, OneRow DEF Retire
<1>4. ASSUME NEW r \in Reviews, Lapse(r) PROVE [Shown!Next]_(Shown!vars)
  BY <1>4, OneRow DEF Lapse
<1>5. CASE \/ \E c \in Callers : Crash(c)
           \/ UNCHANGED vars
  BY <1>5, Untouched DEF Crash, vars
<1> QED BY <1>1, <1>2, <1>3, <1>4, <1>5 DEF Next

LEMMA InitRefines == Init => Shown!Init
<1> SUFFICES ASSUME Init PROVE Shown!Init
  OBVIOUS
<1>1. \A r \in Reviews : state[r] = "none" /\ ~Linked(r)
  BY DEF Init, Linked
<1>2. UNION {StrictContext(p) : p \in Projects} = {}
  BY <1>1 DEF StrictContext
<1> QED BY <1>1, <1>2 DEF Shown!Init, ShownFacts, WithdrawnFacts

-----------------------------------------------------------------------------
\* The state of the ledger keeps its types.
THEOREM TypeCorrect == Spec => []TypeOK
BY Invariance, PTL DEF IInv

\* An active memory belongs to an approved review.
THEOREM LedgerAgreesTheorem == Spec => []LedgerAgrees
BY Invariance, PTL DEF IInv

\* No chain of replacements closes.
THEOREM NoCycleTheorem == Spec => []NoSupersessionCycle
BY Invariance, CycleInit, CycleStep, PTL DEF Spec

\* No verdict overrides an earlier one.
THEOREM VerdictsFinalTheorem == Spec => VerdictsFinal
<1>1. IInv /\ [Next]_vars =>
        [\A r \in Reviews : state[r] \in {"rejected", "superseded", "expired"}
                              => state'[r] = state[r] /\ by'[r] = by[r]]_vars
  BY VerdictStep
<1> QED BY <1>1, Invariance, PTL DEF Spec, VerdictsFinal

\* What the strict context shows of a fact follows ReviewedFacts.
THEOREM ImplementsTheorem == Spec => ImplementsFacts
<1>1. Init => Shown!Init
  BY InitRefines
<1>2. IInv /\ IInv' /\ [Next]_vars => [Shown!Next]_(Shown!vars)
  BY StepRefines
<1> QED BY <1>1, <1>2, Invariance, PTL DEF Spec, ImplementsFacts, Shown!Spec
=============================================================================

------------------------ MODULE EmbedPipelineProofs ------------------------
(***************************************************************************)
(* Proofs about EmbedPipeline for any number of memories, workers, retries *)
(* and crashes and any batch size.                                         *)
(*                                                                         *)
(* OwnVector is not inductive: it holds because the vectors of a batch     *)
(* stay aligned with its texts (Aligned) while they are collected and      *)
(* while they are stored one by one.  That tries stays below MaxAttempts   *)
(* needs that a job is ready only when it has an attempt left (HasTries).  *)
(***************************************************************************)
EXTENDS EmbedPipeline, SequenceTheorems, TLAPS

Working == \A w \in Workers : at[w] # "idle" => of[w] \in Memories

HasTries ==
    \A m \in Memories :
        /\ job[m] = "ready" => tries[m] < MaxAttempts
        /\ learn[m] # "done" => /\ job[m] = "none" /\ tries[m] = 0
                                /\ holder[m] = NoWorker

Aligned ==
    /\ Len(got) <= Len(batch)
    /\ \A i \in 1..Len(got) : got[i] = batch[i]
    /\ jan = "sent" => Len(got) < Len(batch)

IInv == TypeOK /\ Working /\ HasTries /\ Aligned /\ OwnVector /\ VectorHasMemory

\* The initial state: nothing has been learned.
LEMMA InitIInv == Init => IInv
  BY EmbedAssumption
     DEF Init, IInv, TypeOK, Working, HasTries, Aligned, OwnVector, VectorHasMemory,
         Memories, NoVector

\* What learn() does, and what befalls a memory afterwards.
LEMMA TableInv ==
  ASSUME IInv, NEW m \in Memories,
         \/ LearnInsert(m) \/ LearnTags(m) \/ LearnEnqueue(m) \/ LearnCrash(m)
         \/ Retire(m) \/ Forget(m) \/ Retag(m)
  PROVE  IInv'
  <1> USE EmbedAssumption DEF tables, queue, worker, janitor, environment, Exists
  <1>1. CASE LearnInsert(m)
    <2>1. TypeOK'
      BY <1>1 DEF LearnInsert, IInv, TypeOK
    <2> QED
      BY <1>1, <2>1 DEF LearnInsert, IInv, TypeOK, Working, HasTries, Aligned, OwnVector, VectorHasMemory
  <1>2. CASE LearnTags(m)
    <2>1. TypeOK'
      BY <1>2 DEF LearnTags, IInv, TypeOK
    <2>2. Working' /\ Aligned' /\ OwnVector' /\ VectorHasMemory'
      BY <1>2 DEF LearnTags, IInv, Working, Aligned, OwnVector, VectorHasMemory
    <2>3. HasTries'
      BY <1>2 DEF LearnTags, IInv, TypeOK, HasTries
    <2> QED
      BY <2>1, <2>2, <2>3 DEF IInv
  <1>3. CASE LearnEnqueue(m)
    <2>1. TypeOK'
      BY <1>3 DEF LearnEnqueue, IInv, TypeOK
    <2>2. Working'
      BY <1>3 DEF LearnEnqueue, IInv, TypeOK, Working
    <2>3. HasTries'
      BY <1>3 DEF LearnEnqueue, IInv, TypeOK, HasTries
    <2> QED
      BY <1>3, <2>1, <2>2, <2>3 DEF LearnEnqueue, IInv, Aligned, OwnVector, VectorHasMemory
  <1>4. CASE LearnCrash(m)
    <2>1. TypeOK'
      BY <1>4 DEF LearnCrash, IInv, TypeOK
    <2> QED
      BY <1>4, <2>1 DEF LearnCrash, IInv, TypeOK, Working, HasTries, Aligned, OwnVector, VectorHasMemory
  <1>5. CASE Retire(m)
    <2>1. TypeOK'
      BY <1>5 DEF Retire, IInv, TypeOK
    <2> QED
      BY <1>5, <2>1 DEF Retire, IInv, TypeOK, Working, HasTries, Aligned, OwnVector, VectorHasMemory
  <1>6. CASE Forget(m)
    <2>1. TypeOK'
      BY <1>6 DEF Forget, IInv, TypeOK
    <2> QED
      BY <1>6, <2>1 DEF Forget, IInv, TypeOK, Working, HasTries, Aligned, OwnVector, VectorHasMemory
  <1>7. CASE Retag(m)
    <2>1. TypeOK'
      BY <1>7 DEF Retag, IInv, TypeOK
    <2> QED
      BY <1>7, <2>1 DEF Retag, IInv, TypeOK, Working, HasTries, Aligned, OwnVector, VectorHasMemory
  <1> QED
    BY <1>1, <1>2, <1>3, <1>4, <1>5, <1>6, <1>7

\* The visibility timeout.
LEMMA ExpireInv ==
  ASSUME IInv, NEW m \in Memories, Expire(m)
  PROVE  IInv'
  <1> USE EmbedAssumption DEF tables, queue, worker, janitor, environment
  <1>1. TypeOK'
    BY DEF Expire, AfterFailure, IInv, TypeOK
  <1>2. HasTries'
    BY DEF Expire, AfterFailure, IInv, TypeOK, HasTries
  <1> QED
    BY <1>1, <1>2 DEF Expire, IInv, Working, Aligned, OwnVector, VectorHasMemory, Exists

\* A worker.
LEMMA WorkerInv ==
  ASSUME IInv, NEW w \in Workers,
         \/ \E m \in Memories : Claim(w, m)
         \/ EmbedMemory(w) \/ WorkerCrash(w)
  PROVE  IInv'
  <1> USE EmbedAssumption DEF tables, queue, worker, janitor, environment
  <1>1. ASSUME NEW m \in Memories, Claim(w, m) PROVE IInv'
    <2>1. TypeOK'
      BY <1>1 DEF Claim, IInv, TypeOK, HasTries
    <2>2. Working' /\ HasTries'
      BY <1>1 DEF Claim, IInv, TypeOK, Working, HasTries
    <2> QED
      BY <1>1, <2>1, <2>2 DEF Claim, IInv, Aligned, OwnVector, VectorHasMemory, Exists
  <1>3. CASE Look(w) \/ Send(w) \/ Receive(w)
    <2>1. /\ at[w] # "idle"
          /\ \E place \in {"probe", "sent", "store", "ack"} : Move(w, place)
      BY <1>3 DEF Look, Send, Receive
    <2>2. TypeOK' /\ Working'
      BY <2>1 DEF Move, IInv, TypeOK, Working
    <2> QED
      BY <2>1, <2>2 DEF Move, IInv, HasTries, Aligned, OwnVector, VectorHasMemory, Exists
  <1>4. CASE Store(w)
    <2>1. of[w] \in Memories /\ at[w] # "idle"
      BY <1>4 DEF Store, IInv, Working
    <2>2. TypeOK' /\ Working'
      BY <1>4, <2>1 DEF Store, IInv, TypeOK, Working
    <2>3. OwnVector' /\ VectorHasMemory'
      BY <1>4, <2>1 DEF Store, IInv, TypeOK, OwnVector, VectorHasMemory, Exists
    <2> QED
      BY <1>4, <2>2, <2>3 DEF Store, IInv, HasTries, Aligned
  <1>5. CASE Ack(w)
    <2>1. of[w] \in Memories
      BY <1>5 DEF Ack, IInv, Working
    <2>2. TypeOK' /\ Working'
      BY <1>5, <2>1 DEF Ack, IInv, TypeOK, Working
    <2>3. HasTries'
      BY <1>5, <2>1 DEF Ack, Holds, IInv, TypeOK, HasTries
    <2> QED
      BY <1>5, <2>2, <2>3 DEF Ack, IInv, Aligned, OwnVector, VectorHasMemory, Exists
  <1>6. CASE Retry(w)
    <2>1. of[w] \in Memories
      BY <1>6 DEF Retry, IInv, Working
    <2>2. TypeOK' /\ Working'
      BY <1>6, <2>1 DEF Retry, AfterFailure, IInv, TypeOK, Working
    <2>3. HasTries'
      BY <1>6, <2>1 DEF Retry, AfterFailure, Holds, IInv, TypeOK, HasTries
    <2> QED
      BY <1>6, <2>2, <2>3 DEF Retry, IInv, Aligned, OwnVector, VectorHasMemory, Exists
  <1>7. CASE WorkerCrash(w)
    <2>1. TypeOK' /\ Working'
      BY <1>7 DEF WorkerCrash, IInv, TypeOK, Working
    <2> QED
      BY <1>7, <2>1 DEF WorkerCrash, IInv, HasTries, Aligned, OwnVector, VectorHasMemory, Exists
  <1> QED
    BY <1>1, <1>3, <1>4, <1>5, <1>6, <1>7 DEF EmbedMemory

\* A step of the janitor that leaves the tables alone.
LEMMA BatchOnly ==
  ASSUME IInv, UNCHANGED <<tables, queue, worker>>, TypeOK', Aligned'
  PROVE  IInv'
  BY DEF IInv, Working, HasTries, OwnVector, VectorHasMemory, Exists, tables, queue, worker

\* The janitor's backfill.
LEMMA JanitorInv ==
  ASSUME IInv, Backfill \/ JanitorCrash
  PROVE  IInv'
  <1> USE EmbedAssumption DEF tables, queue, worker, janitor, environment
  <1>1. CASE Select \/ Finish \/ JanitorCrash
    <2>0. <<>> \in Seq(Memories)
      OBVIOUS
    <2>1. TypeOK'
      <3>1. CASE Select
        BY <3>1 DEF Select, Needed, IInv, TypeOK
      <3>2. CASE Finish
        BY <2>0, <3>2 DEF Finish, IInv, TypeOK
      <3>3. CASE JanitorCrash
        BY <2>0, <3>3 DEF JanitorCrash, IInv, TypeOK
      <3> QED
        BY <1>1, <3>1, <3>2, <3>3
    <2>2. Aligned'
      BY <1>1 DEF Select, Finish, JanitorCrash, IInv, TypeOK, Aligned
    <2> QED
      BY <1>1, <2>1, <2>2, BatchOnly DEF Select, Finish, JanitorCrash
  <1>2. CASE Choose
    <2>1. /\ batch' \in Seq(Memories) /\ Len(batch') \in Nat \ {0}
          /\ todo' \subseteq todo
      <3>1. PICK n \in 1..BatchSize : \E b \in [1..n -> todo] :
               IsSlice(b, todo) /\ batch' = b /\ todo' = todo \ Taken(b)
        BY <1>2 DEF Choose
      <3>2. batch' \in [1..n -> Memories] /\ n \in Nat \ {0}
        BY <3>1 DEF IInv, TypeOK
      <3> QED
        BY <3>1, <3>2, SeqDef
    <2>2. TypeOK'
      BY <1>2, <2>1 DEF Choose, IInv, TypeOK
    <2>3. Aligned'
      BY <1>2, <2>1 DEF Choose, IInv, Aligned
    <2> QED
      BY <1>2, <2>2, <2>3, BatchOnly DEF Choose
  <1>3. CASE Hit
    <2>1. /\ Len(got) \in Nat /\ Len(batch) \in Nat /\ Len(got) < Len(batch)
          /\ Len(got) + 1 \in 1..Len(batch)
      BY <1>3 DEF Hit, IInv, TypeOK, Aligned
    <2>2. Asked \in Memories
      BY <2>1, ElementOfSeq DEF Asked, IInv, TypeOK
    <2>3. TypeOK'
      BY <1>3, <2>2 DEF Hit, IInv, TypeOK
    <2>4. Aligned'
      BY <1>3, <2>1, <2>2 DEF Hit, Asked, IInv, TypeOK, Aligned
    <2> QED
      BY <1>3, <2>3, <2>4, BatchOnly DEF Hit
  <1>4. CASE Miss \/ Stored
    <2>1. TypeOK'
      BY <1>4 DEF Miss, Stored, IInv, TypeOK
    <2>2. Aligned'
      BY <1>4 DEF Miss, Stored, IInv, TypeOK, Aligned
    <2> QED
      BY <1>4, <2>1, <2>2, BatchOnly DEF Miss, Stored
  <1>5. CASE StoreNext
    <2>1. /\ got # <<>> /\ Len(got) \in Nat \ {0} /\ Len(batch) \in Nat
          /\ Len(got) <= Len(batch) /\ batch # <<>>
      BY <1>5 DEF StoreNext, IInv, TypeOK, Aligned
    <2>2. Head(got) = Head(batch) /\ Head(batch) \in Memories
      BY <2>1, HeadTailProperties DEF IInv, TypeOK, Aligned
    <2>3. CASE Exists(Head(batch))
      <3>1. /\ vec' = [vec EXCEPT ![Head(batch)] = Head(batch)]
            /\ batch' = Tail(batch) /\ got' = Tail(got) /\ UNCHANGED <<jan, todo>>
        BY <1>5, <2>2, <2>3 DEF StoreNext
      <3>2. TypeOK'
        BY <1>5, <2>1, <2>2, <3>1, HeadTailProperties DEF StoreNext, IInv, TypeOK
      <3>3. Aligned'
        BY <1>5, <2>1, <3>1 DEF StoreNext, IInv, TypeOK, Aligned
      <3>4. OwnVector' /\ VectorHasMemory'
        BY <1>5, <2>2, <2>3, <3>1 DEF StoreNext, IInv, TypeOK, OwnVector, VectorHasMemory, Exists
      <3> QED
        BY <1>5, <3>2, <3>3, <3>4 DEF StoreNext, IInv, Working, HasTries
    <2>4. CASE ~Exists(Head(batch))
      <3>0. <<>> \in Seq(Memories)
        OBVIOUS
      <3>1. TypeOK'
        BY <1>5, <2>4, <3>0 DEF StoreNext, IInv, TypeOK
      <3>2. Aligned'
        BY <1>5, <2>4 DEF StoreNext, Aligned
      <3> QED
        BY <1>5, <2>4, <3>1, <3>2, BatchOnly DEF StoreNext
    <2> QED
      BY <2>3, <2>4
  <1> QED
    BY <1>1, <1>2, <1>3, <1>4, <1>5 DEF Backfill

\* Every step keeps the invariant.
LEMMA NextIInv == IInv /\ [Next]_vars => IInv'
  <1> SUFFICES ASSUME IInv, [Next]_vars PROVE IInv'
    OBVIOUS
  <1>1. CASE ProviderDown \/ ProviderUp
    <2>1. TypeOK'
      <3>1. CASE ProviderDown
        <4>1. outages' \in 0..MaxOutages
          BY <3>1, EmbedAssumption DEF ProviderDown, IInv, TypeOK
        <4> QED
          BY <3>1, <4>1 DEF ProviderDown, IInv, TypeOK, tables, queue, worker, janitor
      <3>2. CASE ProviderUp
        BY <3>2 DEF ProviderUp, IInv, TypeOK, tables, queue, worker, janitor
      <3> QED
        BY <1>1, <3>1, <3>2
    <2> QED
      BY <1>1, <2>1 DEF ProviderDown, ProviderUp, IInv, Working, HasTries, Aligned,
                        OwnVector, VectorHasMemory, Exists, tables, queue, worker, janitor
  <1>2. CASE UNCHANGED vars
    BY <1>2 DEF vars, tables, queue, worker, janitor, environment, IInv, TypeOK, Working,
                HasTries, Aligned, OwnVector, VectorHasMemory, Exists
  <1>3. CASE Next
    <2>1. ASSUME NEW m \in Memories, NEW w \in Workers, Claim(w, m) PROVE IInv'
      BY <2>1, WorkerInv
    <2>2. ASSUME NEW m \in Memories, Expire(m) PROVE IInv'
      BY <2>2, ExpireInv
    <2> QED
      BY <1>1, <1>3, <2>1, <2>2, TableInv, WorkerInv, JanitorInv DEF Next
  <1> QED
    BY <1>2, <1>3

\* The inductive invariant, for any number of memories and workers.
THEOREM Invariance == Spec => []IInv
  BY InitIInv, NextIInv, PTL DEF Spec

\* The state keeps its types; no job is tried more than MaxAttempts times.
THEOREM TypeCorrect == Spec => []TypeOK
  <1>1. IInv => TypeOK
    BY DEF IInv
  <1> QED
    BY <1>1, Invariance, PTL

\* However a batch is cut short, every vector is of its own memory's text.
THEOREM OwnVectorTheorem == Spec => []OwnVector
  <1>1. IInv => OwnVector
    BY DEF IInv
  <1> QED
    BY <1>1, Invariance, PTL

\* No vector is stored for a memory that was forgotten during the await.
THEOREM VectorHasMemoryTheorem == Spec => []VectorHasMemory
  <1>1. IInv => VectorHasMemory
    BY DEF IInv
  <1> QED
    BY <1>1, Invariance, PTL
=============================================================================

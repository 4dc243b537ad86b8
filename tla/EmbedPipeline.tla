--------------------------- MODULE EmbedPipeline ---------------------------
(***************************************************************************)
(* How a memory gets the vector that semantic recall needs.                *)
(*                                                                         *)
(* learn() (db.ts) inserts the row, attaches the tags and enqueues a job,  *)
(* each with a statement of its own.  Long-lived processes run a worker    *)
(* (queue/worker.ts) that claims jobs and awaits the provider              *)
(* (embeddings.ts); without the Honker queue the process that learns does  *)
(* the same in the background, once.  A job is acknowledged when the       *)
(* provider is down, too: what the workers leave is found by the janitor's *)
(* backfill (janitor/embeddings.ts), which embeds in batches.              *)
(*                                                                         *)
(* Meanwhile memories are tagged, retired and forgotten.  The provider is  *)
(* the default one, llama.cpp, which answers with a vector or with nothing *)
(* (providers/llamacpp.ts, janitor/providers/llamacpp.ts).                 *)
(***************************************************************************)
EXTENDS Naturals, Sequences

CONSTANTS
    MaxId,        \* bound: the memories are 1..MaxId, in the order of their ids
    Secret,       \* those learned with the tag private
    Poison,       \* those whose text the provider never answers, e.g. too long
    Workers,      \* embedding tasks: worker loops, or background tasks of learn()
    NoWorker,
    Queued,       \* those learned in a process that has the durable queue
    Retagged,     \* those on which the tag private is put and taken off later
    MaxAttempts,  \* EMBED_MAX_ATTEMPTS
    BatchSize,    \* texts of one provider.embed() call of the janitor
    MaxOutages,   \* bound: how often the provider goes down
    MaxCrashes    \* bound: how many processes die half-way

Memories == 1..MaxId
NoVector == 0

ASSUME EmbedAssumption ==
    /\ MaxId \in Nat /\ MaxAttempts \in Nat \ {0} /\ BatchSize \in Nat \ {0}
    /\ MaxOutages \in Nat /\ MaxCrashes \in Nat
    /\ Secret \subseteq Memories /\ Poison \subseteq Memories /\ Queued \subseteq Memories
    /\ NoWorker \notin Workers
    /\ Retagged \subseteq Memories

VARIABLES
    row,      \* memories: is there a row, and is it active
    learn,    \* how far learn() has come with it
    private,  \* memory_tags has the tag private
    vec,      \* memory_embeddings: the memory whose text the vector is of
    job,      \* its job in the queue
    tries,    \* attempts of the job
    holder,   \* the worker that has claimed it
    at,       \* where each worker is in embedMemory
    of,       \* the memory it is working on
    jan,      \* where the janitor is in embedMissingMemories
    todo,     \* publicRows that no batch has taken yet
    batch,    \* the batch being embedded
    got,      \* the vectors the provider has returned for it, by text
    up,       \* the provider answers
    outages,
    crashes

tables == <<row, learn, private, vec>>
queue == <<job, tries, holder>>
worker == <<at, of>>
janitor == <<jan, todo, batch, got>>
environment == <<up, outages, crashes>>
vars == <<tables, queue, worker, janitor, environment>>

Exists(m) == row[m] \in {"active", "retired"}
Answers(m) == up /\ m \notin Poison

Init ==
    /\ row = [m \in Memories |-> "none"]
    /\ learn = [m \in Memories |-> "insert"]
    /\ private = [m \in Memories |-> FALSE]
    /\ vec = [m \in Memories |-> NoVector]
    /\ job = [m \in Memories |-> "none"]
    /\ tries = [m \in Memories |-> 0]
    /\ holder = [m \in Memories |-> NoWorker]
    /\ at = [w \in Workers |-> "idle"]
    /\ of \in [Workers -> {NoVector}]
    /\ jan = "idle" /\ todo = {} /\ batch = <<>> /\ got = <<>>
    /\ up = TRUE /\ outages = 0 /\ crashes = 0

-----------------------------------------------------------------------------
(* learn(), one statement at a time. *)

LearnInsert(m) ==
    /\ learn[m] = "insert"
    /\ \A n \in Memories : n < m => learn[n] # "insert"
    /\ learn' = [learn EXCEPT ![m] = "tag"]
    /\ row' = [row EXCEPT ![m] = "active"]
    /\ UNCHANGED <<private, vec, queue, worker, janitor, environment>>

\* attachTags, and the decision not to embed what was learned as private.
LearnTags(m) ==
    /\ learn[m] = "tag"
    /\ learn' = [learn EXCEPT ![m] = IF m \in Secret THEN "done" ELSE "enqueue"]
    /\ private' = [private EXCEPT ![m] = Exists(m) /\ (m \in Secret \/ private[m])]
    /\ UNCHANGED <<row, vec, queue, worker, janitor, environment>>

\* enqueueEmbedding, or embedMemory in the background.
LearnEnqueue(m) ==
    /\ learn[m] = "enqueue"
    /\ learn' = [learn EXCEPT ![m] = "done"]
    /\ \/ /\ m \in Queued
          /\ job' = [job EXCEPT ![m] = "ready"]
          /\ UNCHANGED worker
       \/ /\ m \notin Queued
          /\ \E w \in Workers : /\ at[w] = "idle"
                                /\ at' = [at EXCEPT ![w] = "look"]
                                /\ of' = [of EXCEPT ![w] = m]
          /\ UNCHANGED job
    /\ UNCHANGED <<row, private, vec, tries, holder, janitor, environment>>

\* The process that learns dies between two statements.
LearnCrash(m) ==
    /\ learn[m] \in {"tag", "enqueue"} /\ crashes < MaxCrashes
    /\ learn' = [learn EXCEPT ![m] = "done"]
    /\ crashes' = crashes + 1
    /\ UNCHANGED <<row, private, vec, queue, worker, janitor, up, outages>>

-----------------------------------------------------------------------------
(* What else happens to a memory. *)

\* Decay, supersession.
Retire(m) ==
    /\ row[m] = "active"
    /\ row' = [row EXCEPT ![m] = "retired"]
    /\ UNCHANGED <<learn, private, vec, queue, worker, janitor, environment>>

\* DELETE FROM memories; tags and vector cascade, the job does not.
Forget(m) ==
    /\ Exists(m)
    /\ row' = [row EXCEPT ![m] = "deleted"]
    /\ private' = [private EXCEPT ![m] = FALSE]
    /\ vec' = [vec EXCEPT ![m] = NoVector]
    /\ UNCHANGED <<learn, queue, worker, janitor, environment>>

\* The tags are replaced in the graph app, or added when a memory is learned
\* again or merged; no vector is removed.
Retag(m) ==
    /\ m \in Retagged /\ Exists(m)
    /\ private' = [private EXCEPT ![m] = ~private[m]]
    /\ UNCHANGED <<row, learn, vec, queue, worker, janitor, environment>>

-----------------------------------------------------------------------------
(* The worker: claim, embedMemory with its two awaits, ack or retry. *)

\* waker.next(): a claim is atomic and counts as an attempt.
Claim(w, m) ==
    /\ at[w] = "idle" /\ job[m] = "ready"
    /\ job' = [job EXCEPT ![m] = "claimed"]
    /\ tries' = [tries EXCEPT ![m] = @ + 1]
    /\ holder' = [holder EXCEPT ![m] = w]
    /\ at' = [at EXCEPT ![w] = "look"]
    /\ of' = [of EXCEPT ![w] = m]
    /\ UNCHANGED <<tables, janitor, environment>>

Move(w, place) ==
    /\ at' = [at EXCEPT ![w] = place]
    /\ UNCHANGED <<tables, of, queue, janitor, environment>>

\* The row is read; a private memory is left alone.
Look(w) ==
    /\ at[w] = "look"
    /\ Move(w, IF Exists(of[w]) /\ ~private[of[w]] THEN "probe" ELSE "ack")

\* await provider.available(); when it is, the text read before goes out.
Send(w) ==
    /\ at[w] = "probe"
    /\ Move(w, IF up THEN "sent" ELSE "ack")

\* await provider.generate(): a vector, or null.
Receive(w) ==
    /\ at[w] = "sent"
    /\ Move(w, IF Answers(of[w]) THEN "store" ELSE "ack")

\* Mutant: foreign keys are off on this connection.
StoreUnchecked(w) ==
    /\ at[w] = "store"
    /\ at' = [at EXCEPT ![w] = "ack"]
    /\ vec' = [vec EXCEPT ![of[w]] = of[w]]
    /\ UNCHANGED <<row, learn, private, of, queue, janitor, environment>>

\* setEmbedding: an upsert in a transaction; it throws when the row is gone.
Store(w) ==
    /\ at[w] = "store"
    /\ at' = [at EXCEPT ![w] = IF Exists(of[w]) THEN "ack" ELSE "retry"]
    /\ vec' = [vec EXCEPT ![of[w]] = IF Exists(of[w]) THEN of[w] ELSE @]
    /\ UNCHANGED <<row, learn, private, of, queue, janitor, environment>>

Holds(w) == holder[of[w]] = w

\* job.ack(), which is void when the claim has expired.
Ack(w) ==
    /\ at[w] = "ack"
    /\ at' = [at EXCEPT ![w] = "idle"]
    /\ of' = [of EXCEPT ![w] = NoVector]
    /\ job' = [job EXCEPT ![of[w]] = IF Holds(w) THEN "acked" ELSE @]
    /\ holder' = [holder EXCEPT ![of[w]] = IF Holds(w) THEN NoWorker ELSE @]
    /\ UNCHANGED <<tables, tries, janitor, environment>>

\* Mutant: a job is never dead-lettered.
AlwaysRetry(m) == "ready"

AfterFailure(m) == IF tries[m] < MaxAttempts THEN "ready" ELSE "dead"

\* job.retry(): again after a backoff, or dead-lettered.
Retry(w) ==
    /\ at[w] = "retry"
    /\ at' = [at EXCEPT ![w] = "idle"]
    /\ of' = [of EXCEPT ![w] = NoVector]
    /\ job' = [job EXCEPT ![of[w]] = IF Holds(w) THEN AfterFailure(of[w]) ELSE @]
    /\ holder' = [holder EXCEPT ![of[w]] = IF Holds(w) THEN NoWorker ELSE @]
    /\ UNCHANGED <<tables, tries, janitor, environment>>

\* Mutant: claims have no visibility timeout.
ExpireNever(m) == job[m] = "claimed" /\ FALSE /\ UNCHANGED vars

\* The visibility timeout of a claim, whether its worker is dead or slow.
Expire(m) ==
    /\ job[m] = "claimed"
    /\ job' = [job EXCEPT ![m] = AfterFailure(m)]
    /\ holder' = [holder EXCEPT ![m] = NoWorker]
    /\ UNCHANGED <<tables, tries, worker, janitor, environment>>

WorkerCrash(w) ==
    /\ at[w] # "idle" /\ crashes < MaxCrashes
    /\ at' = [at EXCEPT ![w] = "idle"]
    /\ of' = [of EXCEPT ![w] = NoVector]
    /\ crashes' = crashes + 1
    /\ UNCHANGED <<tables, queue, janitor, up, outages>>

-----------------------------------------------------------------------------
(* The janitor's backfill. *)

Needed == {m \in Memories : row[m] = "active" /\ ~private[m] /\ vec[m] = NoVector}

\* Mutant: what has been in the queue is left to the queue.
SelectUntried ==
    /\ jan = "idle"
    /\ \E m \in Needed : job[m] = "none"
    /\ todo' = {m \in Needed : job[m] = "none"}
    /\ jan' = "choose"
    /\ UNCHANGED <<tables, queue, worker, batch, got, environment>>

\* A run starts: active memories without a vector that are not private.
Select ==
    /\ jan = "idle" /\ Needed # {}
    /\ todo' = Needed
    /\ jan' = "choose"
    /\ UNCHANGED <<tables, queue, worker, batch, got, environment>>

Finish ==
    /\ jan = "choose" /\ todo = {}
    /\ jan' = "idle" /\ batch' = <<>> /\ got' = <<>>
    /\ UNCHANGED <<tables, queue, worker, todo, environment>>

Taken(b) == {b[i] : i \in DOMAIN b}

\* b is the next slice of the rows, which are ordered by id.
IsSlice(b, rows) ==
    /\ \A i, j \in DOMAIN b : i < j => b[i] < b[j]
    /\ \A m \in rows \ Taken(b) : Len(b) = BatchSize /\ \A n \in Taken(b) : n < m

\* The next batch; when the probe fails there is no vector for any of it.
Choose ==
    /\ jan = "choose"
    /\ \E n \in 1..BatchSize : \E b \in [1..n -> todo] :
           /\ IsSlice(b, todo)
           /\ batch' = b
           /\ todo' = todo \ Taken(b)
    /\ got' = <<>>
    /\ jan' = IF up THEN "sent" ELSE "store"
    /\ UNCHANGED <<tables, queue, worker, environment>>

Asked == batch[Len(got) + 1]

\* A vector for the text that was sent; the next text goes out.
Hit ==
    /\ jan = "sent" /\ Answers(Asked)
    /\ got' = Append(got, Asked)
    /\ jan' = IF Len(got) + 1 = Len(batch) THEN "store" ELSE "sent"
    /\ UNCHANGED <<tables, queue, worker, todo, batch, environment>>

\* Mutant: a text without an answer is left out and the loop goes on, perhaps
\* when the provider is back.
MissSkipping ==
    /\ jan = "sent" /\ ~Answers(Asked)
    /\ batch' = batch
    /\ \/ jan' = "store" /\ got' = got
       \/ /\ Len(got) + 2 <= Len(batch) /\ batch[Len(got) + 2] \notin Poison
          /\ jan' = "store" /\ got' = Append(got, batch[Len(got) + 2])
    /\ UNCHANGED <<tables, queue, worker, todo, environment>>

\* No answer: the loop stops, the vectors so far stay aligned with their texts.
Miss ==
    /\ jan = "sent" /\ ~Answers(Asked)
    /\ jan' = "store"
    /\ UNCHANGED <<tables, queue, worker, todo, batch, got, environment>>

\* setEmbedding for the next row of the batch that has a vector; when a row is
\* gone it throws, and the whole step of the run ends.
StoreNext ==
    /\ jan = "store" /\ got # <<>>
    /\ LET m == Head(batch) IN
           \/ /\ Exists(m)
              /\ vec' = [vec EXCEPT ![m] = Head(got)]
              /\ batch' = Tail(batch) /\ got' = Tail(got)
              /\ UNCHANGED <<jan, todo>>
           \/ /\ ~Exists(m)
              /\ jan' = "idle" /\ todo' = {} /\ batch' = <<>> /\ got' = <<>>
              /\ UNCHANGED vec
    /\ UNCHANGED <<row, learn, private, queue, worker, environment>>

Stored ==
    /\ jan = "store" /\ got = <<>>
    /\ jan' = "choose" /\ batch' = <<>>
    /\ UNCHANGED <<tables, queue, worker, todo, got, environment>>

JanitorCrash ==
    /\ jan # "idle" /\ crashes < MaxCrashes
    /\ jan' = "idle" /\ todo' = {} /\ batch' = <<>> /\ got' = <<>>
    /\ crashes' = crashes + 1
    /\ UNCHANGED <<tables, queue, worker, up, outages>>

-----------------------------------------------------------------------------
ProviderDown ==
    /\ up /\ outages < MaxOutages
    /\ up' = FALSE /\ outages' = outages + 1
    /\ UNCHANGED <<tables, queue, worker, janitor, crashes>>

ProviderUp ==
    /\ ~up
    /\ up' = TRUE
    /\ UNCHANGED <<tables, queue, worker, janitor, outages, crashes>>

EmbedMemory(w) ==
    Look(w) \/ Send(w) \/ Receive(w) \/ Store(w) \/ Ack(w) \/ Retry(w)

Backfill == Select \/ Finish \/ Choose \/ Hit \/ Miss \/ StoreNext \/ Stored

Next ==
    \/ \E m \in Memories :
          \/ LearnInsert(m) \/ LearnTags(m) \/ LearnEnqueue(m) \/ LearnCrash(m)
          \/ Retire(m) \/ Forget(m) \/ Retag(m) \/ Expire(m)
          \/ \E w \in Workers : Claim(w, m)
    \/ \E w \in Workers : EmbedMemory(w) \/ WorkerCrash(w)
    \/ Backfill \/ JanitorCrash \/ ProviderDown \/ ProviderUp

Spec == Init /\ [][Next]_vars

\* The owner decides what is learned, tagged and forgotten, and chance what
\* crashes; a worker loop keeps claiming, the janitor is started again and
\* again by its schedule, and the provider comes back.
Fairness ==
    /\ \A w \in Workers :
          WF_vars(EmbedMemory(w)) /\ WF_vars(\E m \in Memories : Claim(w, m))
    /\ \A m \in Memories : WF_vars(Expire(m)) /\ WF_vars(LearnEnqueue(m))
    /\ WF_vars(Backfill)
    /\ WF_vars(ProviderUp)

FairSpec == Spec /\ Fairness

-----------------------------------------------------------------------------
TypeOK ==
    /\ row \in [Memories -> {"none", "active", "retired", "deleted"}]
    /\ learn \in [Memories -> {"insert", "tag", "enqueue", "done"}]
    /\ private \in [Memories -> BOOLEAN]
    /\ vec \in [Memories -> Memories \cup {NoVector}]
    /\ job \in [Memories -> {"none", "ready", "claimed", "acked", "dead"}]
    /\ tries \in [Memories -> 0..MaxAttempts]
    /\ holder \in [Memories -> Workers \cup {NoWorker}]
    /\ at \in [Workers -> {"idle", "look", "probe", "sent", "store", "ack", "retry"}]
    /\ of \in [Workers -> Memories \cup {NoVector}]
    /\ jan \in {"idle", "choose", "sent", "store"}
    /\ todo \subseteq Memories
    /\ batch \in Seq(Memories) /\ got \in Seq(Memories)
    /\ up \in BOOLEAN /\ outages \in 0..MaxOutages /\ crashes \in 0..MaxCrashes

\* A vector is the embedding of the memory's own text, although the provider
\* answers a batch by position and may stop short (janitor/providers/llamacpp.ts:
\* "a gap would shift every later vector onto the wrong memory").
OwnVector == \A m \in Memories : vec[m] \in {m, NoVector}

\* A vector never outlives its memory, although the two await the provider
\* between reading the row and storing the vector (setEmbedding).
VectorHasMemory == \A m \in Memories : vec[m] # NoVector => Exists(m)

\* A job is settled, acknowledged or dead-lettered, whatever its workers do:
\* crash, lose their claim, or find the memory gone (queue/worker.ts).
JobsSettle == \A m \in Memories : job[m] = "ready" ~> job[m] \in {"acked", "dead"}

Embeddable(m) == row[m] = "active" /\ ~private[m] /\ m \notin Poison

\* Every active public memory that the provider can embed gets its vector,
\* though its job was acknowledged during an outage, dead-lettered or never
\* enqueued: the backfill comes for it ("vectors for memories that have none").
EventuallyEmbedded ==
    \A m \in Memories : Embeddable(m) ~> (vec[m] = m \/ ~Embeddable(m))
=============================================================================

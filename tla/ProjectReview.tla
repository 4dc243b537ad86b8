--------------------------- MODULE ProjectReview ---------------------------
(***************************************************************************)
(* The reviewed project memory of the Hermes plugin                        *)
(* (hermes/openltm_hermes/_project_memory.py).                             *)
(*                                                                         *)
(* A fact enters the table project_memory_reviews as a proposal; approval  *)
(* creates the memory that the strict context of its project shows.        *)
(* approve, expire and supersede are transactions (BEGIN IMMEDIATE);       *)
(* propose reads before it writes, prune_expired reads a list and expires  *)
(* one review after the other, and reject is a single UPDATE.  Callers are *)
(* threads or processes with a connection each; the core's processes write *)
(* the same memories.                                                      *)
(*                                                                         *)
(* A review creates at most one memory, which bears its number here; ids   *)
(* are not used again (AUTOINCREMENT).                                     *)
(***************************************************************************)
EXTENDS Naturals

CONSTANTS
    Projects, Facts,  \* project scopes; normalised contents
    Callers,          \* connections of Hermes
    NoOne,            \* nobody has a write transaction open
    NoKey,            \* a review not yet written
    MaxReview,        \* bound: the reviews are 1..MaxReview, in id order
    MaxCrashes        \* bound: how many callers die half-way

Reviews == 1..MaxReview
Keys == Projects \X Facts

ASSUME ReviewAssumption ==
    /\ MaxReview \in Nat /\ MaxCrashes \in Nat
    /\ NoOne \notin Callers /\ NoKey \notin Keys

VARIABLES
    state,    \* project_memory_reviews: state
    key,      \*   project_scope and content_sha256
    by,       \*   superseded_by, 0 when NULL
    lapsed,   \* reviews whose expires_at has passed; one that never does is none
    memory,   \* memories: the status of the row approve() created
    writer,   \* whose write transaction is open between two calls
    pc,       \* what a caller is doing: idle, insert, prune
    wanted,   \* the fact it is about to insert
    due,      \* the reviews its prune has yet to expire
    crashes

ledger == <<state, key, by>>
callers == <<pc, wanted, due>>
vars == <<ledger, lapsed, memory, writer, callers, crashes>>

Init ==
    /\ state = [r \in Reviews |-> "none"]
    /\ key = [r \in Reviews |-> NoKey]
    /\ by = [r \in Reviews |-> 0]
    /\ lapsed = {}
    /\ memory = [r \in Reviews |-> "none"]
    /\ writer = NoOne
    /\ pc = [c \in Callers |-> "idle"]
    /\ wanted = [c \in Callers |-> NoKey]
    /\ due = [c \in Callers |-> {}]
    /\ crashes = 0

\* memory_id: ON DELETE SET NULL.
Linked(r) == memory[r] # "none"

Project(r) == key[r][1]

\* dedup_key of the memory: a digest of project and content.
SameFact(r, s) == key[r] = key[s]

\* strict_project_context: approved, not lapsed, its memory active.
StrictContext(p) ==
    {r \in Reviews : /\ state[r] = "approved" /\ Project(r) = p
                     /\ r \notin lapsed
                     /\ memory[r] = "active"}

\* A statement that writes waits while another connection has a write
\* transaction open; BEGIN IMMEDIATE fails in one of one's own as well.
MayWrite(c) == writer \in {NoOne, c}
MayBegin == writer = NoOne
Commit == writer' = NoOne

-----------------------------------------------------------------------------
\* propose(): is there an open or approved review of the fact?
ProposeLook(c, k) ==
    /\ pc[c] = "idle"
    /\ \A r \in Reviews : key[r] = k => state[r] \notin {"proposed", "approved"}
    /\ pc' = [pc EXCEPT ![c] = "insert"]
    /\ wanted' = [wanted EXCEPT ![c] = k]
    /\ UNCHANGED <<ledger, lapsed, memory, writer, due, crashes>>

ProposeInsert(c, r) ==
    /\ pc[c] = "insert" /\ MayWrite(c)
    /\ state[r] = "none" /\ \A s \in Reviews : s < r => state[s] # "none"
    /\ state' = [state EXCEPT ![r] = "proposed"]
    /\ key' = [key EXCEPT ![r] = wanted[c]]
    /\ Commit
    /\ pc' = [pc EXCEPT ![c] = "idle"]
    /\ wanted' = [wanted EXCEPT ![c] = NoKey]
    /\ UNCHANGED <<by, lapsed, memory, due, crashes>>

\* Mutant: only an active memory of the fact is in the way.
ApproveUnlessActive(c, r) ==
    /\ pc[c] = "idle" /\ MayBegin
    /\ state[r] = "proposed"
    /\ \A s \in Reviews : SameFact(r, s) => memory[s] # "active"
    /\ state' = [state EXCEPT ![r] = "approved"]
    /\ memory' = [memory EXCEPT ![r] = "active"]
    /\ UNCHANGED <<key, by, lapsed, writer, callers, crashes>>

\* The memory and the verdict in one transaction; a memory of the same fact,
\* whatever its status, is in the way.
Approve(c, r) ==
    /\ pc[c] = "idle" /\ MayBegin
    /\ state[r] = "proposed"
    /\ \A s \in Reviews : SameFact(r, s) => ~Linked(s)
    /\ state' = [state EXCEPT ![r] = "approved"]
    /\ memory' = [memory EXCEPT ![r] = "active"]
    /\ UNCHANGED <<key, by, lapsed, writer, callers, crashes>>

\* Mutant: the UPDATE spares approved reviews only.
RejectUnapproved(c, r) ==
    /\ pc[c] = "idle" /\ MayWrite(c)
    /\ state[r] \notin {"none", "approved"}
    /\ state' = [state EXCEPT ![r] = "rejected"]
    /\ Commit
    /\ UNCHANGED <<key, by, lapsed, memory, callers, crashes>>

\* One UPDATE ... AND state = 'proposed'.  When it changes no row the function
\* raises, and the transaction that sqlite3 began for it stays open.
Reject(c, r) ==
    /\ pc[c] = "idle" /\ MayWrite(c)
    /\ \/ /\ state[r] = "proposed"
          /\ state' = [state EXCEPT ![r] = "rejected"]
          /\ Commit
       \/ /\ state[r] # "proposed"
          /\ writer' = c
          /\ UNCHANGED state
    /\ UNCHANGED <<key, by, lapsed, memory, callers, crashes>>

\* Mutant: the memory is left as it is.
ExpireReviewOnly(r) ==
    /\ MayBegin /\ state[r] = "approved" /\ Linked(r)
    /\ state' = [state EXCEPT ![r] = "expired"]
    /\ UNCHANGED <<key, by, lapsed, memory, writer, wanted, crashes>>

\* The transaction of expire(), for a review it accepts.
ExpireReview(r) ==
    /\ MayBegin /\ state[r] = "approved" /\ Linked(r)
    /\ state' = [state EXCEPT ![r] = "expired"]
    /\ memory' = [memory EXCEPT ![r] = "deprecated"]
    /\ UNCHANGED <<key, by, lapsed, writer, wanted, crashes>>

Expire(c, r) ==
    /\ pc[c] = "idle" /\ ExpireReview(r)
    /\ UNCHANGED <<pc, due>>

\* prune_expired(): the lapsed reviews of a project ...
PruneSelect(c, p) ==
    /\ pc[c] = "idle"
    /\ LET found == {r \in lapsed : state[r] = "approved" /\ Project(r) = p} IN
       /\ found # {}
       /\ due' = [due EXCEPT ![c] = found]
    /\ pc' = [pc EXCEPT ![c] = "prune"]
    /\ UNCHANGED <<ledger, lapsed, memory, writer, wanted, crashes>>

EndPrune(c) == pc' = [pc EXCEPT ![c] = "idle"] /\ due' = [due EXCEPT ![c] = {}]

\* ... are expired in the order of ids; the first one that expire() refuses
\* ends the prune with its exception.
PruneNext(c) ==
    /\ pc[c] = "prune"
    /\ \E r \in due[c] :
        /\ \A s \in due[c] : r <= s
        /\ \/ /\ ExpireReview(r)
              /\ \/ /\ due[c] = {r} /\ EndPrune(c)
                 \/ /\ due[c] # {r}
                    /\ due' = [due EXCEPT ![c] = @ \ {r}]
                    /\ UNCHANGED pc
           \/ /\ \/ writer = c
                 \/ MayBegin /\ ~(state[r] = "approved" /\ Linked(r))
              /\ EndPrune(c)
              /\ UNCHANGED <<ledger, lapsed, memory, writer, wanted, crashes>>

\* Mutant: the replacement needs a memory, in whatever state its review is.
SupersedeByAny(c, old, new) ==
    /\ pc[c] = "idle" /\ MayBegin
    /\ old # new
    /\ state[old] = "approved" /\ Linked(old) /\ Linked(new)
    /\ Project(old) = Project(new)
    /\ state' = [state EXCEPT ![old] = "superseded"]
    /\ by' = [by EXCEPT ![old] = new]
    /\ memory' = [memory EXCEPT ![old] = "superseded"]
    /\ UNCHANGED <<key, lapsed, writer, callers, crashes>>

\* Both reviews are approved and have their memories.
Supersede(c, old, new) ==
    /\ pc[c] = "idle" /\ MayBegin
    /\ old # new
    /\ \A r \in {old, new} : state[r] = "approved" /\ Linked(r)
    /\ Project(old) = Project(new)
    /\ state' = [state EXCEPT ![old] = "superseded"]
    /\ by' = [by EXCEPT ![old] = new]
    /\ memory' = [memory EXCEPT ![old] = "superseded"]
    /\ UNCHANGED <<key, lapsed, writer, callers, crashes>>

-----------------------------------------------------------------------------
\* Any other call of the plugin that writes commits: it ends an open
\* transaction of its connection.
OtherWrite(c) ==
    /\ pc[c] = "idle" /\ writer = c
    /\ Commit
    /\ UNCHANGED <<ledger, lapsed, memory, callers, crashes>>

\* openltm_forget, the core's forget, and the archive for what is retired.
Forget(r) ==
    /\ MayBegin /\ Linked(r)
    /\ memory' = [memory EXCEPT ![r] = "none"]
    /\ UNCHANGED <<ledger, lapsed, writer, callers, crashes>>

\* The core's janitor deprecates the memory of an approved fact like any other.
Retire(r) ==
    /\ MayBegin /\ memory[r] = "active"
    /\ memory' = [memory EXCEPT ![r] = "deprecated"]
    /\ UNCHANGED <<ledger, lapsed, writer, callers, crashes>>

\* The expires_at of a review passes.
Lapse(r) ==
    /\ state[r] # "none" /\ r \notin lapsed
    /\ lapsed' = lapsed \cup {r}
    /\ UNCHANGED <<ledger, memory, writer, callers, crashes>>

\* The process of a caller ends: its transaction is rolled back.
Crash(c) ==
    /\ pc[c] # "idle" \/ writer = c
    /\ crashes < MaxCrashes /\ crashes' = crashes + 1
    /\ writer' = IF writer = c THEN NoOne ELSE writer
    /\ wanted' = [wanted EXCEPT ![c] = NoKey]
    /\ EndPrune(c)
    /\ UNCHANGED <<ledger, lapsed, memory>>

Call(c) ==
    \/ \E k \in Keys : ProposeLook(c, k)
    \/ \E r \in Reviews : ProposeInsert(c, r) \/ Approve(c, r)
                            \/ Reject(c, r) \/ Expire(c, r)
    \/ \E p \in Projects : PruneSelect(c, p)
    \/ PruneNext(c)
    \/ \E old, new \in Reviews : Supersede(c, old, new)
    \/ OtherWrite(c)

Next ==
    \/ \E c \in Callers : Call(c) \/ Crash(c)
    \/ \E r \in Reviews : Forget(r) \/ Retire(r) \/ Lapse(r)

Spec == Init /\ [][Next]_vars

-----------------------------------------------------------------------------
TypeOK ==
    /\ state \in [Reviews -> {"none", "proposed", "approved", "rejected",
                              "superseded", "expired"}]
    /\ key \in [Reviews -> Keys \cup {NoKey}]
    /\ by \in [Reviews -> 0..MaxReview]
    /\ lapsed \subseteq Reviews
    /\ memory \in [Reviews -> {"none", "active", "deprecated", "superseded"}]
    /\ writer \in Callers \cup {NoOne}
    /\ pc \in [Callers -> {"idle", "insert", "prune"}]
    /\ wanted \in [Callers -> Keys \cup {NoKey}]
    /\ due \in [Callers -> SUBSET Reviews]
    /\ crashes \in 0..MaxCrashes

\* The ledger and the memories are two tables: an active memory always belongs
\* to an approved review, although a review may be expired by a prune that
\* selected it long before, and one of the two proposals of a fact that raced
\* may be approved at any time.
LedgerAgrees ==
    \A r \in Reviews : memory[r] = "active" => state[r] = "approved"

\* Following superseded_by from a fact leads to one that was not superseded:
\* no set of reviews, however it came about, is closed under replacement.
NoSupersessionCycle ==
    \A S \in SUBSET Reviews : S # {} => \E r \in S : by[r] \notin S

\* Reviewers act at the same time, from several processes: a verdict is final,
\* and nobody's rejection, expiry or supersession overrides an earlier one.
VerdictsFinal ==
    [][\A r \in Reviews : state[r] \in {"rejected", "superseded", "expired"}
                              => state'[r] = state[r] /\ by'[r] = by[r]]_vars

ShownFacts == {key[r] : r \in UNION {StrictContext(p) : p \in Projects}}

WithdrawnFacts ==
    {key[r] : r \in {s \in Reviews : Linked(s) /\ s \notin StrictContext(Project(s))}}

Shown == INSTANCE ReviewedFacts WITH shown <- ShownFacts, withdrawn <- WithdrawnFacts

\* What the strict context shows of a fact is what ReviewedFacts promises: at
\* most one memory per fact of a project, and none that was withdrawn.
ImplementsFacts == Shown!Spec
=============================================================================

----------------------------- MODULE Promotion -----------------------------
(***************************************************************************)
(* How a decision or gotcha of a project becomes a memory.                 *)
(*                                                                         *)
(* The janitor proposes each one as a pending memory (promote.ts,          *)
(* runPromote); the owner approves or rejects it in the graph app          *)
(* (approveMemory, rejectMemory in the graph server's process), and what   *)
(* nobody reviews for a week is accepted (runAutoAccept).  Every statement *)
(* commits by itself, and agents learn, forget and record further items    *)
(* from other processes all the while.                                     *)
(*                                                                         *)
(* dedup_key is unique, so that a text names its row.  An id is never used *)
(* again (AUTOINCREMENT): what holds the id of a deleted row holds Gone.   *)
(***************************************************************************)
EXTENDS Naturals

CONSTANTS
    Texts,       \* normalised contents
    None, Gone,  \* no row; a row that has been deleted
    MaxItem,     \* bound: the context items are 1..MaxItem, in id order
    MaxEdits,    \* bound: how often learn, forget, reject, decay ... interfere
    MaxCrashes   \* bound: how many processes die half-way

Items == 1..MaxItem
Rows == Texts \cup {None, Gone}

ASSUME PromotionAssumption ==
    /\ MaxItem \in Nat /\ MaxEdits \in Nat /\ MaxCrashes \in Nat
    /\ None \notin Texts /\ Gone \notin Texts /\ None # Gone

VARIABLES
    row,       \* memories: the status of the row with this dedup_key
    due,       \* rows created more than AUTO_ACCEPT_DAYS ago
    accepted,  \* rows with an audit entry of janitor:auto-accept
    text,      \* context_items: content
    status,    \*                status
    link,      \*                memory_id
    jan,       \* where the janitor is in its promote and accept steps
    todo,      \* the items runPromote has selected and not reached
    item,      \* the item it is at
    ref,       \* the id of the row it is about to link
    rev,       \* where the graph server is in a review
    chosen,    \* the id of the row under review
    edits,
    crashes

memories == <<row, due, accepted>>
contextItems == <<text, status, link>>
janitor == <<jan, todo, item, ref>>
review == <<rev, chosen>>
bounds == <<edits, crashes>>
vars == <<memories, contextItems, janitor, review, bounds>>

Init ==
    /\ row = [t \in Texts |-> "none"]
    /\ due = {} /\ accepted = {}
    /\ text \in [Items -> Texts]
    /\ status = [i \in Items |-> "none"]
    /\ link = [i \in Items |-> None]
    /\ jan = "idle" /\ todo = {} /\ item = 0 /\ ref = None
    /\ rev = "idle" /\ chosen = None
    /\ edits = 0 /\ crashes = 0

Exists(i) == status[i] \notin {"none", "deleted"}

\* decision or gotcha, active, not linked
Eligible(i) == status[i] = "active" /\ link[i] = None

Edit == edits < MaxEdits /\ edits' = edits + 1 /\ UNCHANGED crashes

-----------------------------------------------------------------------------
(* Agents and the owner. *)

\* addItem, addDecision, addGotcha: the same text may be recorded again, for
\* another project or as another type.
AddItem(i) ==
    /\ status[i] = "none" /\ \A j \in Items : j < i => status[j] # "none"
    /\ status' = [status EXCEPT ![i] = "active"]
    /\ UNCHANGED <<memories, text, link, janitor, review, bounds>>

DeleteItem(i) ==
    /\ Exists(i) /\ Edit
    /\ status' = [status EXCEPT ![i] = "deleted"]
    /\ link' = [link EXCEPT ![i] = None]
    /\ UNCHANGED <<memories, text, janitor, review>>

\* A new row, or the existing one is reinforced whatever its status.
Learn(t) ==
    /\ Edit
    /\ row' = [row EXCEPT ![t] = IF @ = "none" THEN "active" ELSE @]
    /\ UNCHANGED <<due, accepted, contextItems, janitor, review>>

\* Decay, supersession without items: only active memories are retired.
Retire(t) ==
    /\ row[t] = "active" /\ Edit
    /\ row' = [row EXCEPT ![t] = "retired"]
    /\ UNCHANGED <<due, accepted, contextItems, janitor, review>>

\* supersede(): the items of the old memory follow to the new one.
Supersede(old, new) ==
    /\ old # new /\ row[old] = "active" /\ row[new] = "active" /\ Edit
    /\ row' = [row EXCEPT ![old] = "retired"]
    /\ link' = [i \in Items |-> IF link[i] = old THEN new ELSE link[i]]
    /\ UNCHANGED <<due, accepted, text, status, janitor, review>>

\* DELETE FROM memories: memory_id ... ON DELETE SET NULL.
Delete(t) ==
    /\ row' = [row EXCEPT ![t] = "none"]
    /\ due' = due \ {t} /\ accepted' = accepted \ {t}
    /\ link' = [i \in Items |-> IF link[i] = t THEN None ELSE link[i]]
    /\ ref' = IF ref = t THEN Gone ELSE ref

\* forget(), the graph app's delete, and the archive for what is retired.
Forget(t) ==
    /\ row[t] # "none" /\ Edit
    /\ Delete(t)
    /\ chosen' = IF chosen = t THEN Gone ELSE chosen
    /\ UNCHANGED <<text, status, jan, todo, item, rev>>

\* A week passes.
Age(t) ==
    /\ row[t] = "pending" /\ t \notin due
    /\ due' = due \cup {t}
    /\ UNCHANGED <<row, accepted, contextItems, janitor, review, bounds>>

-----------------------------------------------------------------------------
(* The janitor: runPromote, statement by statement, then runAutoAccept. *)

\* The next item of the scan, in id order; after the last one, the next step.
Continue(items) ==
    \/ /\ items = {}
       /\ jan' = "accept" /\ todo' = {} /\ item' = 0 /\ ref' = None
    \/ \E i \in items :
          /\ \A j \in items : i <= j
          /\ jan' = "look" /\ todo' = items \ {i} /\ item' = i /\ ref' = None

\* An exception ends the step, not the run.
Abort == Continue({})

Scan ==
    /\ jan = "idle"
    /\ Continue({i \in Items : Eligible(i)})
    /\ UNCHANGED <<memories, contextItems, review, bounds>>

\* Mutant: an item whose text is known is skipped and not linked.
LookSkipping ==
    /\ jan = "look"
    /\ \/ /\ row[text[item]] # "none" /\ Continue(todo)
       \/ /\ row[text[item]] = "none"
          /\ jan' = "insert" /\ UNCHANGED <<todo, item, ref>>
    /\ UNCHANGED <<memories, contextItems, review, bounds>>

\* Is there a memory with this dedup_key?
Look ==
    /\ jan = "look"
    /\ \/ /\ row[text[item]] # "none"
          /\ jan' = "linkExisting" /\ ref' = text[item]
       \/ /\ row[text[item]] = "none"
          /\ jan' = "insert" /\ UNCHANGED ref
    /\ UNCHANGED <<memories, contextItems, todo, item, review, bounds>>

\* The pending memory; UNIQUE fails when the text has been learned meanwhile.
Insert ==
    /\ jan = "insert"
    /\ LET t == text[item] IN
       \/ /\ row[t] = "none"
          /\ row' = [row EXCEPT ![t] = "pending"]
          /\ jan' = "link" /\ ref' = t
          /\ UNCHANGED <<todo, item>>
       \/ /\ row[t] # "none" /\ Abort
          /\ UNCHANGED row
    /\ UNCHANGED <<due, accepted, contextItems, review, bounds>>

\* Mutant: foreign keys are not enforced.
LinkUnchecked ==
    /\ jan \in {"link", "linkExisting"}
    /\ link' = [link EXCEPT ![item] = IF Exists(item) THEN ref ELSE @]
    /\ status' = [status EXCEPT ![item] =
                     IF ~Exists(item) THEN @
                     ELSE IF jan = "link" THEN "pending_promotion" ELSE "promoted"]
    /\ Continue(todo)
    /\ UNCHANGED <<memories, text, review, bounds>>

\* The item gets its memory_id; the foreign key fails when the row is gone,
\* unless the item is gone as well.
Link ==
    /\ jan \in {"link", "linkExisting"}
    /\ \/ /\ Exists(item) /\ ref # Gone
          /\ link' = [link EXCEPT ![item] = ref]
          /\ status' = [status EXCEPT ![item] =
                           IF jan = "link" THEN "pending_promotion" ELSE "promoted"]
          /\ Continue(todo)
       \/ /\ Exists(item) /\ ref = Gone
          /\ Abort
          /\ UNCHANGED <<link, status>>
       \/ /\ ~Exists(item)
          /\ Continue(todo)
          /\ UNCHANGED <<link, status>>
    /\ UNCHANGED <<memories, text, review, bounds>>

\* The rows a transaction sets active, and their items.
Activate(rows) ==
    /\ row' = [t \in Texts |-> IF t \in rows THEN "active" ELSE row[t]]
    /\ accepted' = accepted \cup rows
    /\ status' = [i \in Items |-> IF link[i] \in rows THEN "promoted" ELSE status[i]]

Overdue == {t \in due : row[t] = "pending"}

\* Mutant: only rows that an item is linked to are accepted.
AcceptLinked ==
    /\ jan = "accept"
    /\ Activate({t \in Overdue : \E i \in Items : link[i] = t})
    /\ jan' = "idle"
    /\ UNCHANGED <<due, text, link, todo, item, ref, review, bounds>>

\* runAutoAccept, in a transaction; approveMemory looks at the status again.
Accept ==
    /\ jan = "accept"
    /\ Activate(Overdue)
    /\ jan' = "idle"
    /\ UNCHANGED <<due, text, link, todo, item, ref, review, bounds>>

JanitorCrash ==
    /\ jan # "idle" /\ crashes < MaxCrashes
    /\ crashes' = crashes + 1
    /\ jan' = "idle" /\ todo' = {} /\ item' = 0 /\ ref' = None
    /\ UNCHANGED <<memories, contextItems, review, edits>>

-----------------------------------------------------------------------------
(* The graph server: one review at a time, statement by statement. *)

\* Both functions go on only with a row that is pending.
Open(t, decision) ==
    /\ rev = "idle" /\ row[t] = "pending"
    /\ rev' = decision /\ chosen' = t
    /\ UNCHANGED <<memories, contextItems, janitor, bounds>>

Close == rev' = "idle" /\ chosen' = None

ApproveRow ==
    /\ rev = "approve"
    /\ rev' = "approveItems"
    /\ row' = IF chosen = Gone THEN row ELSE [row EXCEPT ![chosen] = "active"]
    /\ UNCHANGED <<due, accepted, contextItems, janitor, chosen, bounds>>

ApproveItems ==
    /\ rev = "approveItems"
    /\ status' = [i \in Items |-> IF link[i] = chosen THEN "promoted" ELSE status[i]]
    /\ Close
    /\ UNCHANGED <<memories, text, link, janitor, bounds>>

\* The items are reset to active.
RejectItems ==
    /\ rev = "reject" /\ Edit
    /\ rev' = "rejectRow"
    /\ status' = [i \in Items |-> IF link[i] = chosen THEN "active" ELSE status[i]]
    /\ link' = [i \in Items |-> IF link[i] = chosen THEN None ELSE link[i]]
    /\ UNCHANGED <<memories, text, janitor, chosen>>

\* The row is deleted, whatever it is by now.
RejectRow ==
    /\ rev = "rejectRow"
    /\ Close
    /\ \/ /\ chosen # Gone /\ Delete(chosen)
       \/ /\ chosen = Gone
          /\ UNCHANGED <<memories, link, ref>>
    /\ UNCHANGED <<text, status, jan, todo, item, bounds>>

ReviewCrash ==
    /\ rev # "idle" /\ crashes < MaxCrashes
    /\ crashes' = crashes + 1
    /\ Close
    /\ UNCHANGED <<memories, contextItems, janitor, edits>>

-----------------------------------------------------------------------------
Janitor == Scan \/ Look \/ Insert \/ Link \/ Accept

Review ==
    \/ \E t \in Texts, d \in {"approve", "reject"} : Open(t, d)
    \/ ApproveRow \/ ApproveItems \/ RejectItems \/ RejectRow

Next ==
    \/ \E i \in Items : AddItem(i) \/ DeleteItem(i)
    \/ \E t \in Texts : Learn(t) \/ Retire(t) \/ Forget(t) \/ Age(t)
    \/ \E old, new \in Texts : Supersede(old, new)
    \/ Janitor \/ JanitorCrash
    \/ Review \/ ReviewCrash

Spec == Init /\ [][Next]_vars

\* Time passes and the schedule starts the janitor again and again; agents and
\* the owner need not do anything.
Fairness == WF_vars(Janitor) /\ \A t \in Texts : WF_vars(Age(t))

FairSpec == Spec /\ Fairness

-----------------------------------------------------------------------------
Statuses == {"none", "active", "pending_promotion", "promoted", "deleted"}

TypeOK ==
    /\ row \in [Texts -> {"none", "pending", "active", "retired"}]
    /\ due \subseteq Texts /\ accepted \subseteq Texts
    /\ text \in [Items -> Texts]
    /\ status \in [Items -> Statuses]
    /\ link \in [Items -> Rows]
    /\ jan \in {"idle", "look", "insert", "link", "linkExisting", "accept"}
    /\ todo \subseteq Items /\ item \in Items \cup {0} /\ ref \in Rows
    /\ rev \in {"idle", "approve", "approveItems", "reject", "rejectRow"}
    /\ chosen \in Rows
    /\ edits \in 0..MaxEdits /\ crashes \in 0..MaxCrashes

\* The memory_id of an item is always that of a row that is there, although
\* runPromote links a row it looked up or inserted by an earlier statement.
LinksHold ==
    \A i \in Items : link[i] # None => link[i] # Gone /\ row[link[i]] # "none"

\* "unreviewed proposals otherwise rot in the inbox" (promote.ts): a pending
\* memory does not stay pending, whatever became of its item or of the run
\* that proposed it.
NoRot == \A t \in Texts : row[t] = "pending" ~> row[t] # "pending"

\* An eligible decision or gotcha is promoted or linked in the end, although
\* an exception at one item ends the step for all that follow.
EveryItemHandled == \A i \in Items : Eligible(i) ~> ~Eligible(i)
=============================================================================

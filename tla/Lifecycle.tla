----------------------------- MODULE Lifecycle -----------------------------
(***************************************************************************)
(* How a memory fades.  It is learned and restated, used by recall, put in *)
(* doubt by a commit that touches its files (flagStaleByPaths, run by      *)
(* hooks in processes of their own), deprecated when its score is low or   *)
(* the doubt is old (janitor/decay.ts), and moved to memory_archive when   *)
(* it is dead (janitor/archive.ts).  Meanwhile the owner edits importance  *)
(* and tags in the graph app, reviews replace rows and expire them, and    *)
(* the Hermes plugin restates, doubts and sweeps the same rows with        *)
(* statements of its own (_db.py).                                         *)
(*                                                                         *)
(* The score is importance * confidence * 0.5^(time since the last use):   *)
(* fade is the class it would have now, score the class in the column      *)
(* decay_score, which the janitor refreshes for active rows.  A memory is  *)
(* learned with a confidence that makes its score strong.  A text that is  *)
(* learned again after its row was deleted gets a new row with a new id.   *)
(***************************************************************************)
EXTENDS Naturals, FiniteSets

CONSTANTS
    Memories,     \* normalised texts
    Low,          \* those learned with importance 1 or 2
    Permanent,    \* those learned with importance 5
    Private,      \* those learned with the tag private
    Anchored,     \* those whose statements name files, and no preferences
    Hooks,        \* processes that report commits
    FirmAt,       \* confirmations that end the decay: 10
    BatchSize,    \* LIMIT of the archive: 100
    MaxUses,      \* bound: the recall_count of a row
    MaxEdits      \* bound: how often memories are restated, recalled, edited

Strong == 0   \* decay_score >= 0.25
Weak   == 1   \* 0.10 <= decay_score < 0.25
Dead   == 2   \* decay_score < 0.10

Minor   == 0  \* importance 1 or 2
Major   == 1  \* importance 3 or 4
Lasting == 2  \* importance 5

ASSUME LifecycleAssumption ==
    /\ IsFiniteSet(Memories)
    /\ Low \subseteq Memories /\ Permanent \subseteq Memories \ Low
    /\ Private \subseteq Memories /\ Anchored \subseteq Memories
    /\ FirmAt \in Nat \ {0} /\ BatchSize \in Nat
    /\ MaxUses \in Nat \ {0, 1} /\ MaxEdits \in Nat

VARIABLES
    status,    \* memories.status, "none" where there is no row
    score,     \* decay_score
    fade,      \* the score as of now
    flag,      \* stale_flagged_at: none, or more than 30 days old or not
    confirms,  \* confirm_count, counted up to FirmAt
    uses,      \* recall_count, counted up to MaxUses
    owners,    \* rows with files whose origin is owner-statement
    importance,
    tagged,   \* the rows with the tag private
    before,    \* <<m, n>>: the row of m has a smaller id than that of n
    serving,   \* the rows that recalls have read and not yet counted as used
    hook,      \* the rows each hook has read and not yet flagged
    sweep,     \* the rows Hermes' run_janitor has read and not yet flagged
    jan,       \* the next step of the janitor
    evicting,  \* the rows runArchive has read and not yet moved
    edits

traits == <<importance, tagged, before>>
columns == <<status, score, fade, flag, confirms, uses, owners, traits>>
held == <<serving, hook, sweep>>
vars == <<columns, held, jan, evicting, edits>>

Exists(m) == status[m] # "none"
Active(m) == status[m] = "active"

LearnedAs(m) == IF m \in Low THEN Minor ELSE IF m \in Permanent THEN Lasting ELSE Major

Init ==
    /\ status = [m \in Memories |-> "none"]
    /\ score = [m \in Memories |-> Strong]
    /\ fade = [m \in Memories |-> Strong]
    /\ flag = [m \in Memories |-> "none"]
    /\ confirms = [m \in Memories |-> 1]
    /\ uses = [m \in Memories |-> 0]
    /\ owners = {} /\ serving = {}
    /\ importance = [m \in Memories |-> LearnedAs(m)]
    /\ tagged = Private /\ before = {}
    /\ hook = [h \in Hooks |-> {}] /\ sweep = {}
    /\ jan = "decay" /\ evicting = {}
    /\ edits = 0

Edit == edits < MaxEdits /\ edits' = edits + 1

\* DELETE FROM memories.  Where there is no row the columns have the values of
\* a new one, so that a model checker does not tell dead rows apart; and the
\* ids that somebody has read name nothing any more.
Delete(rows) ==
    /\ status' = [m \in Memories |-> IF m \in rows THEN "none" ELSE status[m]]
    /\ score' = [m \in Memories |-> IF m \in rows THEN Strong ELSE score[m]]
    /\ fade' = [m \in Memories |-> IF m \in rows THEN Strong ELSE fade[m]]
    /\ flag' = [m \in Memories |-> IF m \in rows THEN "none" ELSE flag[m]]
    /\ confirms' = [m \in Memories |-> IF m \in rows THEN 1 ELSE confirms[m]]
    /\ uses' = [m \in Memories |-> IF m \in rows THEN 0 ELSE uses[m]]
    /\ owners' = owners \ rows
    /\ importance' = [m \in Memories |-> IF m \in rows THEN LearnedAs(m) ELSE importance[m]]
    /\ tagged' = (tagged \ rows) \cup (Private \cap rows)
    /\ before' = {o \in before : o[1] \notin rows /\ o[2] \notin rows}
    /\ serving' = serving \ rows /\ sweep' = sweep \ rows
    /\ hook' = [h \in Hooks |-> hook[h] \ rows]

-----------------------------------------------------------------------------
(* What agents and the owner do. *)

\* learn(): a new row, stated by the owner or by an agent.
LearnNew(m, byOwner) ==
    /\ status[m] = "none"
    /\ status' = [status EXCEPT ![m] = "active"]
    /\ score' = [score EXCEPT ![m] = Strong]
    /\ fade' = [fade EXCEPT ![m] = Strong]
    /\ flag' = [flag EXCEPT ![m] = "none"]
    /\ confirms' = [confirms EXCEPT ![m] = 1]
    /\ uses' = [uses EXCEPT ![m] = 0]
    /\ owners' = IF byOwner THEN owners \cup ({m} \cap Anchored) ELSE owners \ {m}
    /\ importance' = [importance EXCEPT ![m] = LearnedAs(m)]
    /\ tagged' = (tagged \ {m}) \cup (Private \cap {m})
    /\ before' = {o \in before : m \notin {o[1], o[2]}}
                     \cup {<<x, m>> : x \in {y \in Memories : Exists(y)}}
    /\ UNCHANGED <<held, jan, evicting, edits>>

\* A confidence that rises may lift the score by a class.
Lift(m) == \E f \in Strong..fade[m] : f + 1 >= fade[m] /\ fade' = [fade EXCEPT ![m] = f]

\* learn() of a known text, whatever the status of its row: the doubt is
\* cleared, the tags it comes with are added; last_used_at, which the score
\* counts from, is not touched, but the confidence rises and may lift it.
Restate(m, byOwner, hide) ==
    /\ Exists(m) /\ Edit
    /\ confirms' = [confirms EXCEPT ![m] = IF @ < FirmAt THEN @ + 1 ELSE @]
    /\ flag' = [flag EXCEPT ![m] = "none"]
    /\ owners' = IF byOwner THEN owners \cup ({m} \cap Anchored) ELSE owners
    /\ tagged' = IF hide THEN tagged \cup {m} ELSE tagged
    /\ Lift(m)
    /\ UNCHANGED <<status, score, uses, importance, before, held, jan, evicting>>

\* recall() and the hooks that inject memories read the active rows and record
\* their use later, by id; recall_count is not raised for a context that is
\* injected (updateLastUsed).
Recall(m) ==
    /\ Active(m) /\ Edit
    /\ serving' = serving \cup {m}
    /\ UNCHANGED <<columns, hook, sweep, jan, evicting>>

RecordUsage(m, counted) ==
    /\ m \in serving
    /\ serving' = serving \ {m}
    /\ fade' = [fade EXCEPT ![m] = Strong]
    /\ uses' = [uses EXCEPT ![m] = IF counted /\ @ < MaxUses THEN @ + 1 ELSE @]
    /\ UNCHANGED <<status, score, flag, confirms, owners, traits, hook, sweep, jan, evicting, edits>>

Revalidate(m) ==
    /\ Exists(m) /\ flag[m] # "none" /\ Edit
    /\ flag' = [flag EXCEPT ![m] = "none"]
    /\ UNCHANGED <<status, score, fade, confirms, uses, owners, traits, held, jan, evicting>>

\* Mutant: without AUTOINCREMENT, a row learned later may get the same id.
ForgetReusingId(m) ==
    /\ Exists(m)
    /\ status' = [status EXCEPT ![m] = "none"]
    /\ UNCHANGED <<score, fade, flag, confirms, uses, owners, traits, held, jan, evicting, edits>>

\* forget(): the janitor does not find the id any more, either.
Forget(m) ==
    /\ Exists(m)
    /\ Delete({m})
    /\ evicting' = evicting \ {m}
    /\ UNCHANGED <<jan, edits>>

\* Mutant: the score falls by a constant, below zero in the end.
FadeOn(m) ==
    /\ Exists(m)
    /\ fade' = [fade EXCEPT ![m] = @ + 1]
    /\ UNCHANGED <<status, score, flag, confirms, uses, owners, traits, held, jan, evicting, edits>>

\* Half-lives of the memory pass.
Fade(m) ==
    /\ Exists(m) /\ fade[m] < Dead
    /\ fade' = [fade EXCEPT ![m] = @ + 1]
    /\ UNCHANGED <<status, score, flag, confirms, uses, owners, traits, held, jan, evicting, edits>>

\* 30 days pass.
Brood(m) ==
    /\ Exists(m) /\ flag[m] = "new"
    /\ flag' = [flag EXCEPT ![m] = "old"]
    /\ UNCHANGED <<status, score, fade, confirms, uses, owners, traits, held, jan, evicting, edits>>

-----------------------------------------------------------------------------
(* What the graph app and reviews change on a row, whatever its status. *)

\* PUT /api/memory/:id with an importance: the half-life changes with it.
Regrade(m, i) ==
    /\ Exists(m) /\ Edit
    /\ importance' = [importance EXCEPT ![m] = i]
    /\ \E f \in Strong..Dead :
          /\ i > importance[m] => f <= fade[m]
          /\ i < importance[m] => f >= fade[m]
          /\ fade' = [fade EXCEPT ![m] = f]
    /\ UNCHANGED <<status, score, flag, confirms, uses, owners, tagged, before, held, jan, evicting>>

\* PUT with tags: replaceMemoryTags.
Retag(m, hide) ==
    /\ Exists(m) /\ Edit
    /\ tagged' = IF hide THEN tagged \cup {m} ELSE tagged \ {m}
    /\ UNCHANGED <<status, score, fade, flag, confirms, uses, owners, importance, before, held, jan, evicting>>

\* POST /api/memory/:id/boost: the confidence is 0.6, whatever it was.
Boost(m) ==
    /\ Exists(m) /\ Edit
    /\ \E f \in Strong..Dead : fade' = [fade EXCEPT ![m] = f]
    /\ UNCHANGED <<status, score, flag, confirms, uses, owners, traits, held, jan, evicting>>

\* supersede() and mergeMemories: the kept row gets the tags of the other, and
\* of a merge some confidence and a confirmation.
Replace(keep, drop, merged) ==
    /\ Exists(keep) /\ Exists(drop) /\ keep # drop /\ Edit
    /\ status' = [status EXCEPT ![drop] = "superseded"]
    /\ tagged' = IF drop \in tagged THEN tagged \cup {keep} ELSE tagged
    /\ IF merged
       THEN Lift(keep) /\ confirms' = [confirms EXCEPT ![keep] = IF @ < FirmAt THEN @ + 1 ELSE @]
       ELSE UNCHANGED <<fade, confirms>>
    /\ UNCHANGED <<score, flag, uses, owners, importance, before, held, jan, evicting>>

\* expire() of a project review, by the id of the memory.
Expire(m) ==
    /\ Exists(m) /\ Edit
    /\ status' = [status EXCEPT ![m] = "deprecated"]
    /\ UNCHANGED <<score, fade, flag, confirms, uses, owners, traits, held, jan, evicting>>

-----------------------------------------------------------------------------
(* flagStaleByPaths: one SELECT, then an UPDATE for each id. *)

\* Mutant: every commit doubts the memory anew.
DoubtfulAgain == {m \in Anchored \ owners : importance[m] # Lasting /\ Active(m)}

Doubtful ==
    {m \in Anchored \ owners :
        importance[m] # Lasting /\ Active(m) /\ flag[m] = "none"}

Commit(h) ==
    /\ hook[h] = {}
    /\ \E touched \in SUBSET Doubtful \ {{}} : hook' = [hook EXCEPT ![h] = touched]
    /\ UNCHANGED <<columns, serving, sweep, jan, evicting, edits>>

Flag(h) ==
    \E m \in hook[h] :
        /\ flag' = [flag EXCEPT ![m] = "new"]
        /\ hook' = [hook EXCEPT ![h] = @ \ {m}]
        /\ UNCHANGED <<status, score, fade, confirms, uses, owners, traits, serving, sweep, jan, evicting, edits>>

-----------------------------------------------------------------------------
(* The janitor. *)

\* The three statements of runDecay, in one transaction.
Refreshed(m) ==
    IF ~Active(m) THEN score[m]
    ELSE IF importance[m] = Lasting \/ confirms[m] >= FirmAt THEN Strong ELSE fade[m]

Spent(m) ==
    /\ Active(m) /\ importance[m] # Lasting
    /\ \/ confirms[m] < FirmAt /\ Refreshed(m) >= Weak
       \/ flag[m] = "old"

Decay ==
    /\ jan = "decay"
    /\ jan' = "select"
    /\ score' = [m \in Memories |-> Refreshed(m)]
    /\ status' = [m \in Memories |-> IF Spent(m) THEN "deprecated" ELSE status[m]]
    /\ UNCHANGED <<fade, flag, confirms, uses, owners, traits, held, evicting, edits>>

Evictable ==
    {m \in Memories : status[m] = "deprecated" /\ importance[m] = Minor
                         /\ uses[m] <= 1 /\ score[m] = Dead}

\* As many as the LIMIT lets through.
Fits(S) == /\ S \subseteq Evictable /\ Cardinality(S) <= BatchSize
           /\ S # Evictable => Cardinality(S) = BatchSize

\* Mutant: ORDER BY id DESC.
NewestBatches ==
    {S \in SUBSET Evictable : Fits(S) /\ \A m \in S, n \in Evictable \ S : <<n, m>> \in before}

\* The SELECT has a LIMIT and no ORDER BY; SQLite reads the deprecated rows
\* through the index on status, in the order of their ids.
Batches ==
    {S \in SUBSET Evictable : Fits(S) /\ \A m \in S, n \in Evictable \ S : <<m, n>> \in before}

\* runArchive reads a batch; what is private is dropped afterwards, and if
\* nothing is left the run is over.
Select ==
    /\ jan = "select"
    /\ \E S \in Batches : evicting' = S \ tagged
    /\ jan' = IF evicting' = {} THEN "decay" ELSE "move"
    /\ UNCHANGED <<columns, held, edits>>

\* The rows go to memory_archive and are deleted by id, in one transaction; no
\* criterion is looked at again.  (A row forgotten meanwhile gets its copy in
\* memory_archive all the same; the copies are not part of the model.)
Move ==
    /\ jan = "move"
    /\ jan' = "decay" /\ evicting' = {}
    /\ Delete(evicting)
    /\ UNCHANGED edits

\* The process ends, or the step fails and the next run starts over.
Crash ==
    /\ jan # "decay"
    /\ jan' = "decay" /\ evicting' = {}
    /\ UNCHANGED <<columns, held, edits>>

-----------------------------------------------------------------------------
(* Hermes, whose recall, forget and revalidate are as above. *)

\* learn() of a known text counts as a use, and leaves a doubt as it is.
HermesRestate(m, byOwner) ==
    /\ Exists(m) /\ Edit
    /\ confirms' = [confirms EXCEPT ![m] = IF @ < FirmAt THEN @ + 1 ELSE @]
    /\ fade' = [fade EXCEPT ![m] = Strong]
    /\ owners' = IF byOwner THEN owners \cup ({m} \cap Anchored) ELSE owners
    /\ UNCHANGED <<status, score, flag, uses, traits, held, jan, evicting>>

\* flag_stale(): an agent may doubt any row, and doubt it again.
HermesDoubt(m) ==
    /\ Exists(m) /\ Edit
    /\ flag' = [flag EXCEPT ![m] = "new"]
    /\ UNCHANGED <<status, score, fade, confirms, uses, owners, traits, held, jan, evicting>>

\* run_janitor(), without the lock: the scores are refreshed and what is weak is
\* read in one transaction, which ends with the flag of the first row.
HermesSweep ==
    /\ sweep = {}
    /\ score' = [m \in Memories |-> Refreshed(m)]
    /\ LET weak == {m \in Memories :
                       importance[m] # Lasting /\ Active(m) /\ flag[m] = "none" /\ confirms[m] < FirmAt
                       /\ Refreshed(m) >= Weak}
       IN \/ weak = {} /\ UNCHANGED <<flag, sweep>>
          \/ \E first \in weak : /\ flag' = [flag EXCEPT ![first] = "new"]
                                 /\ sweep' = weak \ {first}
    /\ UNCHANGED <<status, fade, confirms, uses, owners, traits, serving, hook, jan, evicting, edits>>

\* The other rows are flagged one by one, whatever they are by now.
HermesFlag ==
    \E m \in sweep :
        /\ flag' = [flag EXCEPT ![m] = "new"]
        /\ sweep' = sweep \ {m}
        /\ UNCHANGED <<status, score, fade, confirms, uses, owners, traits, serving, hook, jan, evicting, edits>>

-----------------------------------------------------------------------------
Janitor == Decay \/ Select \/ Move

Next ==
    \/ \E m \in Memories :
          \/ \E b \in BOOLEAN : LearnNew(m, b) \/ RecordUsage(m, b) \/ HermesRestate(m, b)
                              \/ Retag(m, b)
          \/ \E b, t \in BOOLEAN : Restate(m, b, t)
          \/ \E n \in Memories, b \in BOOLEAN : Replace(m, n, b)
          \/ \E i \in Minor..Lasting : Regrade(m, i)
          \/ Boost(m) \/ Expire(m)
          \/ HermesDoubt(m) \/ Recall(m) \/ Revalidate(m) \/ Forget(m) \/ Fade(m) \/ Brood(m)
    \/ \E h \in Hooks : Commit(h) \/ Flag(h)
    \/ Janitor \/ Crash \/ HermesSweep \/ HermesFlag

Spec == Init /\ [][Next]_vars

\* A doubt grows old, and the schedule starts the janitor again and again, and
\* not every run of it is cut short; nobody need use, restate or revalidate
\* anything, and hooks may die.
Fairness ==
    /\ WF_vars(Decay) /\ SF_vars(Select) /\ SF_vars(Move)
    /\ \A m \in Memories : WF_vars(Brood(m))

FairSpec == Spec /\ Fairness

-----------------------------------------------------------------------------
TypeOK ==
    /\ status \in [Memories -> {"none", "active", "deprecated", "superseded"}]
    /\ score \in [Memories -> Strong..Dead] /\ fade \in [Memories -> Strong..Dead]
    /\ flag \in [Memories -> {"none", "new", "old"}]
    /\ confirms \in [Memories -> 1..FirmAt] /\ uses \in [Memories -> 0..MaxUses]
    /\ importance \in [Memories -> Minor..Lasting]
    /\ tagged \subseteq Memories /\ before \subseteq Memories \X Memories
    /\ owners \subseteq Memories /\ serving \subseteq Memories
    /\ hook \in [Hooks -> SUBSET Memories] /\ sweep \subseteq Memories
    /\ jan \in {"decay", "select", "move"} /\ evicting \subseteq Memories
    /\ edits \in 0..MaxEdits

\* archive.ts, "Eviction criteria (all must match)", without the recall count,
\* which a recall that read the row while it was active may still raise.
Condemned(m) ==
    /\ status[m] = "deprecated" /\ score[m] = Dead
    /\ importance[m] = Minor /\ m \notin tagged

\* The statements that may change a criterion of a row the archive has read.
Reprieved(m) ==
    \/ \E i \in Minor..Lasting : Regrade(m, i)
    \/ Retag(m, TRUE)
    \/ \E b \in BOOLEAN : Restate(m, b, TRUE)
    \/ \E n \in Memories, b \in BOOLEAN : Replace(m, n, b) \/ Replace(n, m, b)

\* runArchive reads rows in one statement and deletes them by id in another.
\* What it deletes has a score below 0.10 and is out of recall; and of the
\* criteria it read, only an edit of that very row - importance, the tag
\* private, a replacement - is overlooked.  Decay, hooks, recalls, Hermes and
\* crashes leave them alone, and no text learned again is deleted for its
\* predecessor.
EvictsOnlyCondemned ==
    [][/\ Move => \A m \in evicting : status[m] \in {"deprecated", "superseded"} /\ score[m] = Dead
       /\ \A m \in evicting' :
             Condemned(m)' \/ (m \in evicting /\ (~Condemned(m) \/ Reprieved(m)))]_vars

Doubted(m) == flag[m] # "none"
Faded(m) == fade[m] = Dead /\ confirms[m] < FirmAt
Neglected(m) == Active(m) /\ importance[m] # Lasting /\ (Doubted(m) \/ Faded(m))

\* docs/13-janitor.md: a memory flagged by a code change "that nobody
\* revalidated" is deprecated, however often the code changes again meanwhile,
\* whatever Hermes sweeps, and however often the memory was confirmed before;
\* and so is a memory nobody uses, unless it was confirmed often enough.
\* (Agents who flag a memory by hand again and again would keep it; Edit bounds
\* them.)
NeglectEnds == \A m \in Memories : Neglected(m) ~> ~Neglected(m)

\* What the criteria of the archive name is moved in the end, unless private
\* rows that meet them as well fill the batch: they are dropped after the LIMIT
\* (archive.ts) and stay, and the rows behind them are never reached.
Crowded == Cardinality(Evictable \cap tagged) >= BatchSize
DeadMoved ==
    \A m \in Memories : m \in Evictable \ tagged ~> m \notin Evictable \ tagged \/ Crowded

Forsaken(m) ==
    /\ status[m] = "deprecated" /\ fade[m] = Dead /\ confirms[m] < FirmAt
    /\ uses[m] <= 1 /\ importance[m] = Minor /\ m \notin tagged

\* archive.ts: "Evict fully-decayed deprecated memories into memory_archive":
\* a deprecated memory that has decayed fully, by the formula of decay.ts, is
\* moved in the end.
FullyDecayedMoved == \A m \in Memories : Forsaken(m) ~> ~Forsaken(m)
=============================================================================

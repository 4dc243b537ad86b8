-------------------------------- MODULE Recall --------------------------------
(***************************************************************************)
(* One recall() of db.ts: the text search and the embedding search are     *)
(* started together, the second one is awaited for two seconds at most,    *)
(* the ids of both are fused, selected, ranked, counted as recalled and    *)
(* completed with their tags.  Between any two of these statements other   *)
(* processes retire, restore and tag the memories.  Scores are thousandths *)
(* of those of the code.  Left out: the literal sorts, the filters by      *)
(* category and by time (they act like the one by workspace), a request    *)
(* for a tag, relations and provenance of the rows that are served.  The   *)
(* specification has names of its own, so that one module can extend this  *)
(* one and Lifecycle.                                                      *)
(***************************************************************************)
EXTENDS Integers, FiniteSets, SequencesExt

CONSTANTS
    Ids,        \* of the memories of the project in question and of no project
    DecayScore, \* decay_score, 0..5000
    Importance, \* 1..5
    Frequency,  \* the recall frequency term, 0..1000
    Local,      \* memories of the project; the others have none
    Foreign,    \* memories of another workspace or agent
    Stale,      \* memories flagged stale
    Alike,      \* pairs of near-duplicates
    Hidden,     \* those that may be retired, or private, to begin with
    Limit,
    TextLimit, MeaningLimit, NearestLimit, \* 50, max(2 * Limit, 20), four times that
    WordScores, MeaningScores, \* bound: the classes of a match
    MaxChanges  \* bound: what other processes do meanwhile

ASSUME RecallAssumption ==
    /\ Ids \subseteq Nat /\ IsFiniteSet(Ids)
    /\ {DecayScore, Importance, Frequency} \subseteq [Ids -> Nat]
    /\ Alike \subseteq Ids \X Ids /\ Hidden \subseteq Ids
    /\ {Limit, TextLimit} \subseteq Nat \ {0} /\ MeaningLimit \in 1..NearestLimit

VARIABLES
    query,     \* whether there is one
    narrow,    \* whether the caller names its workspace or agent
    words,     \* how well the words match a memory, 0 if not
    nearness,  \* how close the vector of a memory is to that of the query, 0 below the threshold
    private,   \* tagged private
    active,
    pc,
    text,      \* hits of the text search
    meaning,   \* hits of the embedding search
    provider,  \* "none", "asked", or what became of it
    page,      \* the ranked ids
    counted,   \* recall_count was increased
    served,    \* the rows of the result
    withdrawn, \* the rows that recall may not use, as of its selection
    changes

input == <<query, narrow, words, nearness>>
rows == <<private, active>>
call == <<input, pc, text, meaning, provider, page, counted, served>>
recallVars == <<rows, call, withdrawn, changes>>

Least(a, b) == IF a < b THEN a ELSE b

\* The filters of the FTS probe and of the selection.
Servable == active \ (private \cup IF narrow THEN Foreign ELSE {})

\* Some n best of S; SQLite chooses among equals.
Best(S, score, n) ==
    {T \in SUBSET S : /\ Cardinality(T) = Least(n, Cardinality(S))
                      /\ \A a \in T, b \in S \ T : score[a] >= score[b]}

-----------------------------------------------------------------------------
\* Mutant: the hits are sorted the other way round.
RankAscending(hits, score, m) == 1 + Cardinality({h \in hits : score[h] < score[m]})

\* reciprocalRankFusion: equal scores share a rank.
Rank(hits, score, m) == 1 + Cardinality({h \in hits : score[h] > score[m]})

Reciprocal(hits, score, m) ==
    IF m \in hits THEN (61 * 1000) \div (60 + Rank(hits, score, m)) ELSE 0

\* fuseRecallRankings
Fused(m) == Reciprocal(text, words, m) + Reciprocal(meaning, nearness, m)

\* The score of rankRecallResults.
Score(m) ==
    (IF query THEN 20 * Fused(m) + Least(1000, DecayScore[m] \div 5) ELSE DecayScore[m])
    + 120 * Importance[m]
    + (IF m \in Local THEN 900 ELSE 0)
    + Frequency[m] \div 4
    - (IF m \in Stale THEN 800 ELSE 0)

\* What a repetition of the k-th text loses.
Penalty(score, k) == Least(1000, (score * 2^(k - 1)) \div (2 * 5^(k - 1)))

\* The first of a cluster keeps its score, the others are demoted.
Demoted(order) ==
    FoldLeft(LAMBDA acc, m :
        LET like == {k \in DOMAIN acc.seen : <<acc.seen[k], m>> \in Alike}
        IN  IF like = {}
            THEN [seen |-> Append(acc.seen, m), final |-> acc.final]
            ELSE [acc EXCEPT !.final[m] =
                    @ - Penalty(@, CHOOSE k \in like : \A l \in like : k <= l)],
        [seen |-> <<>>, final |-> [m \in Ids |-> Score(m)]], order).final

ByScore(S, score) ==
    SetToSortSeq(S, LAMBDA a, b :
        \/ score[a] > score[b]
        \/ score[a] = score[b] /\ DecayScore[a] > DecayScore[b]
        \/ score[a] = score[b] /\ DecayScore[a] = DecayScore[b] /\ a < b)

\* rankRecallResults: the first Limit of the final order.
Ranked(S) ==
    LET order == ByScore(S, [m \in Ids |-> Score(m)])
        final == ByScore(S, Demoted(order))
    IN  {s \in [1..Least(Limit, Cardinality(S)) -> S] : IsPrefix(s, final)}

\* The limit * 3 most relevant, equals by their ids, or the strongest.
Candidates(S) ==
    IF query
    THEN {T \in Best(S, [m \in Ids |-> Fused(m)], 3 * Limit) :
            \A a \in T, b \in S \ T : Fused(a) = Fused(b) => a < b}
    ELSE Best(S, DecayScore, 3 * Limit)

-----------------------------------------------------------------------------
RecallInit ==
    /\ query \in BOOLEAN /\ narrow \in BOOLEAN
    /\ words \in [Ids -> 0..WordScores] /\ nearness \in [Ids -> 0..MeaningScores]
    /\ ~query => \A m \in Ids : words[m] = 0 /\ nearness[m] = 0
    /\ \/ private = {} /\ active \in {Ids, Ids \ Hidden}
       \/ private = Hidden /\ active = Ids
    /\ pc = "start" /\ provider = "none"
    /\ text = {} /\ meaning = {} /\ page = <<>> /\ counted = {} /\ served = {}
    /\ withdrawn = Ids \ Servable /\ changes = 0

\* Mutant: the probe of the text search does not filter.
SearchAll ==
    /\ pc = "start" /\ query
    /\ \E T \in Best({m \in Ids : words[m] > 0}, words, TextLimit) : text' = T
    /\ provider' \in {"none", "asked"} /\ pc' = "await"
    /\ UNCHANGED <<rows, input, meaning, page, counted, served, withdrawn, changes>>

\* The embedding search is started unless it is switched off, then the text search.
Search ==
    /\ pc = "start" /\ query
    /\ \E T \in Best({m \in Servable : words[m] > 0}, words, TextLimit) : text' = T
    /\ provider' \in {"none", "asked"} /\ pc' = "await"
    /\ UNCHANGED <<rows, input, meaning, page, counted, served, withdrawn, changes>>

\* getSimilarMemories: it filters by status and project, before the limit, or
\* after it when the vector index answers.
Answer ==
    /\ provider = "asked" /\ provider' = "answered"
    /\ LET near == {m \in Ids : nearness[m] > 0}
       IN  \E N \in {near} \cup Best(near, nearness, NearestLimit) :
               \E T \in Best(N \cap active, nearness, MeaningLimit) : meaning' = T
    /\ UNCHANGED <<rows, input, pc, text, page, counted, served, withdrawn, changes>>

\* An error, or two seconds without an answer.
Fail ==
    /\ provider = "asked" /\ provider' = "failed"
    /\ UNCHANGED <<rows, input, pc, text, meaning, page, counted, served, withdrawn, changes>>

\* Mutant: without a hit of the words the answer is waited for.
TimeoutWithText ==
    /\ text # {}
    /\ provider = "asked" /\ provider' = "late"
    /\ UNCHANGED <<rows, input, pc, text, meaning, page, counted, served, withdrawn, changes>>

Timeout ==
    /\ provider = "asked" /\ provider' = "late"
    /\ UNCHANGED <<rows, input, pc, text, meaning, page, counted, served, withdrawn, changes>>

Found == IF query THEN text \cup meaning ELSE Ids

\* Mutant: the ids were filtered when they were found.
SelectFound ==
    /\ pc = IF query THEN "await" ELSE "start"
    /\ provider # "asked"
    /\ \E C \in Candidates(Found) : page' \in Ranked(C)
    /\ pc' = "record"
    /\ UNCHANGED <<rows, input, text, meaning, provider, counted, served, withdrawn, changes>>

\* The final SELECT and rankRecallResults.
SelectRows ==
    /\ pc = IF query THEN "await" ELSE "start"
    /\ provider # "asked"
    /\ \E C \in Candidates(Found \cap Servable) : page' \in Ranked(C)
    /\ pc' = "record"
    /\ UNCHANGED <<rows, input, text, meaning, provider, counted, served, withdrawn, changes>>

\* RECORD_USAGE_SQL, then the tags of every row and filterPrivateMemories.
Record ==
    /\ pc = "record" /\ pc' = "enrich"
    /\ counted' = ToSet(page)
    /\ UNCHANGED <<rows, input, text, meaning, provider, page, served, withdrawn, changes>>

Enrich ==
    /\ pc = "enrich" /\ pc' = "done"
    /\ served' = ToSet(page) \ private
    /\ UNCHANGED <<rows, input, text, meaning, provider, page, counted, withdrawn, changes>>

-----------------------------------------------------------------------------
\* Other processes: deprecate, supersede or forget; restore; set tags.
Change ==
    /\ changes < MaxChanges /\ changes' = changes + 1
    /\ UNCHANGED call

Withdraw(m) ==
    /\ Change
    /\ \/ m \in active /\ active' = active \ {m} /\ UNCHANGED private
       \/ m \notin private /\ private' = private \cup {m} /\ UNCHANGED active
    /\ withdrawn' = IF pc \in {"start", "await"} THEN withdrawn \cup {m} ELSE withdrawn

Restore(m) ==
    /\ Change
    /\ \/ m \notin active /\ active' = active \cup {m} /\ UNCHANGED private
       \/ m \in private /\ private' = private \ {m} /\ UNCHANGED active
    /\ withdrawn' = IF m \in Servable' THEN withdrawn \ {m} ELSE withdrawn

Step == Search \/ Answer \/ Fail \/ Timeout \/ SelectRows \/ Record \/ Enrich

RecallNext == Step \/ \E m \in Ids : Withdraw(m) \/ Restore(m)

RecallSpec == RecallInit /\ [][RecallNext]_recallVars

\* recall runs on, and its timer fires; the provider may never answer.
RecallFairSpec ==
    /\ RecallSpec
    /\ WF_recallVars(Search) /\ WF_recallVars(Timeout) /\ WF_recallVars(SelectRows) /\ WF_recallVars(Record) /\ WF_recallVars(Enrich)
-----------------------------------------------------------------------------
\* What another process took out of recall while the provider was awaited is
\* neither served nor counted as recalled, whichever search had found it; nor
\* is what recall could not use from the start, unless it was given back.
NothingWithdrawn == withdrawn \cap (served \cup counted) = {}

Ranking == pc # "record" /\ pc' = "record"

Matching == {m \in Servable : words[m] > 0}

\* Every match of the words that may be served can be on the page, whatever else
\* matches them: the rows of another workspace and the private ones take no
\* place in the text search, and each change of another process during the await
\* costs one hit at most.  (The hits of the embedding search are not filtered
\* like this, and promise nothing.)
FullPage ==
    [][Ranking =>
        Len(page') >= Least(Limit, IF query THEN Least(TextLimit, Cardinality(Matching)) - changes
                                            ELSE Cardinality(Servable))]_recallVars

\* a is at least as good as b in every respect, and repeats nothing.
Better(a, b) ==
    /\ b \in text => a \in text /\ words[a] >= words[b]
    /\ b \in meaning => a \in meaning /\ nearness[a] >= nearness[b]
    /\ \/ a < b
       \/ a \in text /\ (b \notin text \/ words[a] > words[b])
       \/ a \in meaning /\ (b \notin meaning \/ nearness[a] > nearness[b])
    /\ DecayScore[a] >= DecayScore[b] /\ Importance[a] >= Importance[b] /\ Frequency[a] >= Frequency[b]
    /\ b \in Local => a \in Local
    /\ a \in Stale => b \in Stale
    /\ \A m \in Ids : <<m, a>> \notin Alike

\* The answer to a query never puts a memory before one that is better in every
\* respect, nor leaves that one out, for all the cuts, ties and penalties.
Dominance ==
    [][query /\ Ranking =>
        \A i \in DOMAIN page', a \in Found \cap Servable :
            a # page'[i] /\ Better(a, page'[i]) => \E j \in 1..(i - 1) : page'[j] = a]_recallVars

\* The provider does not keep recall from answering.
RecallEnds == <>(pc = "done")
=============================================================================

---------------------------- MODULE Supersession ----------------------------
(***************************************************************************)
(* Which memory replaces which.  A memory is replaced when the owner       *)
(* accepts a staged contradiction (janitor/supersedes.ts), approves a      *)
(* duplicate suggestion (janitor/dedup.ts, graph-server.ts), or says so in *)
(* the graph app; meanwhile decay deprecates, the archive evicts and the   *)
(* owner forgets, so that a review item may be resolved long after the     *)
(* memories it names have changed.                                         *)
(*                                                                         *)
(* A replacement is recorded three times - the status and the column       *)
(* superseded_by of the old row, and a 'supersedes' relation - and every   *)
(* writer has to keep the three together.                                  *)
(***************************************************************************)
EXTENDS Naturals

CONSTANTS
    MaxId,          \* bound: how many memory rows are ever inserted
    DedupReview,    \* duplicate suggestions are in use
    ManualCuration  \* replacements are also made and undone by hand

ASSUME SupersessionAssumption ==
    MaxId \in Nat /\ DedupReview \in BOOLEAN /\ ManualCuration \in BOOLEAN

Ids == 1..MaxId
None == 0
Pairs == Ids \X Ids
NoPair == <<None, None>>

\* What a suggestion is about: dedup:a:b has a < b.
Duplicates == {p \in Pairs : p[1] < p[2]} \cup {NoPair}

Statuses == {"active", "pending", "deprecated", "superseded"}
Resolved == {"accepted", "dismissed", "stale"}

VARIABLES
    status,  \* memories.status, "absent" where there is no row
    by,      \* memories.superseded_by
    rels,    \* memory_relations of type supersedes: <<source, target>>
    staged,  \* memory_conflict_staging.status of <<older, newer>>, or "none"
    pair,    \* what a suggestion row (source dedup:a:b) is about, or NoPair
    found,   \* the candidate findDuplicates holds while it awaits the LLM
    next     \* AUTOINCREMENT: ids are never used again

vars == <<status, by, rels, staged, pair, found, next>>

Exists(m) == status[m] # "absent"
Active == {m \in Ids : status[m] = "active"}

-----------------------------------------------------------------------------
Init ==
    /\ status = [m \in Ids |-> "absent"]
    /\ by = [m \in Ids |-> None]
    /\ rels = {}
    /\ staged = [p \in Pairs |-> "none"]
    /\ pair = [m \in Ids |-> NoPair]
    /\ found = NoPair
    /\ next = 1

\* INSERT INTO memories.
Insert(st, about) ==
    /\ next \in Ids
    /\ status' = [status EXCEPT ![next] = st]
    /\ pair' = [pair EXCEPT ![next] = about]
    /\ next' = next + 1

\* DELETE FROM memories, with what the foreign keys do: superseded_by is set
\* to NULL, relations and staging rows go with the memory.
Delete(gone, st, supersededBy, relations) ==
    /\ status' = [m \in Ids |-> IF m \in gone THEN "absent" ELSE st[m]]
    /\ by' = [m \in Ids |-> IF m \in gone \/ supersededBy[m] \in gone
                            THEN None ELSE supersededBy[m]]
    /\ rels' = {r \in relations : r[1] \notin gone /\ r[2] \notin gone}
    /\ staged' = [p \in Pairs |-> IF p[1] \in gone \/ p[2] \in gone
                                  THEN "none" ELSE staged[p]]
    /\ pair' = [m \in Ids |-> IF m \in gone THEN NoPair ELSE pair[m]]

Learn == Insert("active", NoPair) /\ UNCHANGED <<by, rels, staged, found>>

\* forget, the graph app's delete, and the rejection of a suggestion.
Forget(m) ==
    /\ Exists(m)
    /\ Delete({m}, status, by, rels)
    /\ UNCHANGED <<found, next>>

\* Mutant: the UPDATE has lost its status = 'active'.
DeprecateAny(S) ==
    /\ S # {} /\ \A m \in S : Exists(m)
    /\ status' = [m \in Ids |-> IF m \in S THEN "deprecated" ELSE status[m]]
    /\ UNCHANGED <<by, rels, staged, pair, found, next>>

\* runDecay: some of the active memories are below the threshold.
Deprecate(S) ==
    /\ S # {} /\ S \subseteq Active
    /\ status' = [m \in Ids |-> IF m \in S THEN "deprecated" ELSE status[m]]
    /\ UNCHANGED <<by, rels, staged, pair, found, next>>

\* runArchive: some of the deprecated ones are evicted.
Archive(S) ==
    /\ S # {} /\ \A m \in S : status[m] = "deprecated"
    /\ Delete(S, status, by, rels)
    /\ UNCHANGED <<found, next>>

-----------------------------------------------------------------------------
\* Mutant: INSERT OR REPLACE.
StageReplacing(o, n) ==
    /\ o \in Active /\ n \in Active /\ o < n
    /\ by[o] = None
    /\ staged' = [staged EXCEPT ![<<o, n>>] = "pending"]
    /\ UNCHANGED <<status, by, rels, pair, found, next>>

\* detectContradictions + stageContradictions, in one transaction: both sides
\* active, the newer one created later; a pair that has a row keeps it.
Stage(o, n) ==
    /\ o \in Active /\ n \in Active /\ o < n
    /\ by[o] = None
    /\ staged[<<o, n>>] = "none"
    /\ staged' = [staged EXCEPT ![<<o, n>>] = "pending"]
    /\ UNCHANGED <<status, by, rels, pair, found, next>>

\* Mutant: both placeholders of the UPDATE are bound to the old id.
ReplaceBySelf(n, o) ==
    /\ status' = [status EXCEPT ![o] = "superseded"]
    /\ by' = [by EXCEPT ![o] = o]
    /\ rels' = rels \cup {<<n, o>>}

\* supersede(): status, superseded_by and relation of o, whatever they were.
Replace(n, o) ==
    /\ status' = [status EXCEPT ![o] = "superseded"]
    /\ by' = [by EXCEPT ![o] = n]
    /\ rels' = rels \cup {<<n, o>>}

Resolve(o, n, outcome) ==
    /\ staged[<<o, n>>] = "pending"
    /\ staged' = [staged EXCEPT ![<<o, n>>] = outcome]

\* Mutant: no look at the two memories after the claim.
AcceptUnguarded(o, n) ==
    /\ Resolve(o, n, "accepted")
    /\ Replace(n, o)
    /\ UNCHANGED <<pair, found, next>>

\* acceptStagedConflict: the claim, the guard and supersede() commit together.
AcceptConflict(o, n) ==
    /\ \/ /\ o # n /\ {o, n} \subseteq Active
          /\ Resolve(o, n, "accepted")
          /\ Replace(n, o)
       \/ /\ ~(o # n /\ {o, n} \subseteq Active)
          /\ Resolve(o, n, "stale")
          /\ UNCHANGED <<status, by, rels>>
    /\ UNCHANGED <<pair, found, next>>

\* rejectStagedConflict and coexistStagedConflict, which differ in a label.
DismissConflict(o, n) ==
    /\ Resolve(o, n, "dismissed")
    /\ UNCHANGED <<status, by, rels, pair, found, next>>

-----------------------------------------------------------------------------
\* Mutant: all pairs instead of the upper triangle.
FindBothWays(a, b) ==
    /\ DedupReview
    /\ found = NoPair
    /\ a \in Active /\ b \in Active /\ a # b
    /\ found' = <<a, b>>
    /\ UNCHANGED <<status, by, rels, staged, pair, next>>

\* findDuplicates reads the active memories, then awaits the LLM verdict.
FindDuplicate(a, b) ==
    /\ DedupReview
    /\ found = NoPair
    /\ a \in Active /\ b \in Active /\ a < b
    /\ found' = <<a, b>>
    /\ UNCHANGED <<status, by, rels, staged, pair, next>>

\* saveDedupCandidates: a pending row, unless the pair has one; what became
\* of the two memories during the await is not looked at.
SaveCandidate ==
    /\ found # NoPair
    /\ found' = NoPair
    /\ IF \E m \in Ids : status[m] = "pending" /\ pair[m] = found
       THEN UNCHANGED <<status, pair, next>>
       ELSE Insert("pending", found)
    /\ UNCHANGED <<by, rels, staged>>

\* mergeMemories repoints the relations of the replaced memory, dropping those
\* that the kept one has already.
RepointTargets(R, keep, drop) ==
    LET moved == {r \in R : r[2] = drop /\ r[1] # keep}
        clash == {r \in moved : <<r[1], keep>> \in R}
    IN (R \ moved) \cup {<<r[1], keep>> : r \in moved \ clash}

RepointSources(R, keep, drop) ==
    LET moved == {r \in R : r[1] = drop /\ r[2] # keep}
        clash == {r \in moved : <<keep, r[2]>> \in R}
    IN (R \ moved) \cup {<<keep, r[2]>> : r \in moved \ clash}

MergedRels(keep, drop) ==
    RepointSources(RepointTargets(rels \cup {<<keep, drop>>}, keep, drop), keep, drop)

\* mergeMemories, then the deletion of gone: a foreign key stops it when one
\* of the two memories has no row any more.
Merge(keep, drop, gone) ==
    /\ Exists(keep) /\ Exists(drop)
    /\ Delete(gone, [status EXCEPT ![drop] = "superseded"], [by EXCEPT ![drop] = keep],
              MergedRels(keep, drop))

\* The approve route and merge-all: the suggestion is deleted after the merge,
\* by a statement of its own that a crash may prevent.
ApproveSuggestion(m) ==
    /\ status[m] = "pending" /\ pair[m] # NoPair
    /\ \E gone \in {{m}, {}} : Merge(pair[m][1], pair[m][2], gone)
    /\ UNCHANGED <<found, next>>

-----------------------------------------------------------------------------
\* POST /api/memory/:id/supersedes/:targetId.
ManualSupersede(n, o) ==
    /\ ManualCuration
    /\ Exists(n) /\ Exists(o) /\ n # o
    /\ Replace(n, o)
    /\ UNCHANGED <<staged, pair, found, next>>

\* consolidate_memories() of the Hermes plugin: relations, staging rows and the
\* status of the two are not looked at, nor whether they are one.
Consolidate(keep, drop) ==
    /\ ManualCuration
    /\ Exists(keep) /\ Exists(drop)
    /\ Replace(keep, drop)
    /\ UNCHANGED <<staged, pair, found, next>>

\* relate(), the ltm_relate tool, takes the type 'supersedes' like any other:
\* the relation alone, and a memory may be related to itself.
Relate(n, o) ==
    /\ ManualCuration
    /\ Exists(n) /\ Exists(o)
    /\ rels' = rels \cup {<<n, o>>}
    /\ UNCHANGED <<status, by, staged, pair, found, next>>

\* POST /api/memory/merge.
ManualMerge(keep, drop) ==
    /\ ManualCuration
    /\ Merge(keep, drop, {})
    /\ UNCHANGED <<found, next>>

\* Mutant: superseded_by is not cleared.
UnsupersedeStatusOnly(n, o) ==
    /\ ManualCuration
    /\ rels' = rels \ {<<n, o>>}
    /\ IF status[o] = "superseded" /\ \A x \in Ids : <<x, o>> \notin rels'
       THEN status' = [status EXCEPT ![o] = "active"] /\ UNCHANGED by
       ELSE UNCHANGED <<status, by>>
    /\ UNCHANGED <<staged, pair, found, next>>

\* unsupersede: active again once no supersedes relation is left.
Unsupersede(n, o) ==
    /\ ManualCuration
    /\ rels' = rels \ {<<n, o>>}
    /\ IF status[o] = "superseded" /\ \A x \in Ids : <<x, o>> \notin rels'
       THEN status' = [status EXCEPT ![o] = "active"] /\ by' = [by EXCEPT ![o] = None]
       ELSE UNCHANGED <<status, by>>
    /\ UNCHANGED <<staged, pair, found, next>>

Next ==
    \/ Learn \/ SaveCandidate
    \/ \E m \in Ids : Forget(m) \/ ApproveSuggestion(m)
    \/ \E S \in SUBSET Ids : Deprecate(S) \/ Archive(S)
    \/ \E x, y \in Ids : \/ Stage(x, y) \/ AcceptConflict(x, y) \/ DismissConflict(x, y)
                         \/ FindDuplicate(x, y)
                         \/ ManualSupersede(x, y) \/ ManualMerge(x, y) \/ Consolidate(x, y)
                         \/ Relate(x, y) \/ Unsupersede(x, y)

Spec == Init /\ [][Next]_vars

-----------------------------------------------------------------------------
TypeOK ==
    /\ status \in [Ids -> Statuses \cup {"absent"}]
    /\ by \in [Ids -> Ids \cup {None}]
    /\ rels \subseteq Pairs
    /\ staged \in [Pairs -> Resolved \cup {"none", "pending"}]
    /\ pair \in [Ids -> Duplicates]
    /\ found \in Duplicates
    /\ next \in 1..(MaxId + 1)

\* What the foreign keys guarantee: columns, relations and staging rows only
\* ever name memories that have a row, whatever is deleted.
References ==
    /\ \A m \in Ids : m >= next => status[m] = "absent"
    /\ \A m \in Ids : by[m] # None => Exists(by[m])
    /\ \A r \in rels : Exists(r[1]) /\ Exists(r[2])
    /\ \A p \in Pairs : staged[p] # "none" => Exists(p[1]) /\ Exists(p[2])

\* A pointer to a replacement is only on a row that recall skips: a memory is
\* never served while it says what replaced it.
PointerMeansSuperseded == \A m \in Ids : by[m] # None => status[m] = "superseded"

\* "Single source of truth: status + superseded_by/at + relation" (supersedes.ts):
\* a row that names its replacement is superseded and has the relation, a row
\* with a relation names a replacement, and a superseded row that names none has
\* lost it to the deletion of the replacement, never to a review, decay or the
\* archive.
RecordsAgree ==
    [][\A m \in Ids :
         /\ by'[m] # None => status'[m] = "superseded" /\ <<by'[m], m>> \in rels'
         /\ (\E x \in Ids : <<x, m>> \in rels') => by'[m] # None
         /\ status'[m] = "superseded" /\ by'[m] = None
               => \/ status[m] = "superseded" /\ by[m] = None
                  \/ by[m] # None /\ status'[by[m]] = "absent"]_vars

\* Following superseded_by always leaves any set of memories: no two memories
\* replace one another, directly or through others.
NoCycle == \A S \in (SUBSET Ids) \ {{}} : \E m \in S : by[m] \notin S

\* A pair the owner has accepted stays applied: what decay, the archive and
\* later reviews do never brings the older memory back.
AcceptedStaysApplied ==
    \A o, n \in Ids : staged[<<o, n>>] = "accepted" => status[o] = "superseded"

\* A pair somebody has resolved is never staged again: its row disappears only
\* with one of its memories, and then for good.
ResolvedOnce ==
    [][\A p \in Pairs :
         /\ staged[p] \in Resolved /\ staged'[p] # staged[p]
               => status'[p[1]] = "absent" \/ status'[p[2]] = "absent"
         /\ staged[p] = "none" /\ staged'[p] # "none" => staged'[p] = "pending"
         /\ (p[1] < next /\ status[p[1]] = "absent") => staged'[p] = "none"]_vars

\* Resolving a review item about two memories leaves one of them to recall, if
\* there was one before.
ReviewKeepsOne ==
    [][\A x, y \in Ids :
         (\/ AcceptConflict(x, y) \/ DismissConflict(x, y)
          \/ \E m \in Ids : pair[m] = <<x, y>> /\ ApproveSuggestion(m))
         => ({x, y} \cap Active # {} => {x, y} \cap Active' # {})]_vars
=============================================================================

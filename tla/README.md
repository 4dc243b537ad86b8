# OpenLTM in TLA+

OpenLTM gives coding agents a long-term memory: one SQLite database
(`openltm.db`, WAL mode, `busy_timeout` 5 s, foreign keys on) that many
processes open at once - MCP servers, the graph server, short-lived hooks, the
CLI and timers, and a Python plugin for Hermes. Nothing but SQLite's own
transactions, two lock files and the order of the statements keeps them apart.
This directory holds TLA+ modules of the parts whose correctness depends on
that order, the TLC configurations that check them and proofs checked by TLAPS.

Paths below are relative to `src/`; `core/` stands for
`packages/openltm-core/src/`.

## 1. The system

| Component | State | Operations | What is hard | What makes it correct |
|---|---|---|---|---|
| Memory store (`core/db.ts`, `core/schema.sql`) | `memories`, tags, relations, FTS | learn, recall, relate, forget, flag stale, revalidate | several processes; insert, tags and audit are separate statements; an embedder call between | a private memory never leaves the machine; references hold; a duplicate reinforces instead of inserting |
| Recall (`core/db.ts`, `core/similarity.ts`, `core/recall/`) | none | text search, embedding search with a timer, fusion, selection, ranking, recording of use | rows change during the await; the provider hangs; three cuts and a penalty make one order | nothing withdrawn is served; the page is full; a better memory comes first |
| Supersession and review (`core/janitor/supersedes.ts`, `dedup.ts`) | `superseded_by`, `supersedes` relations, staged conflicts, `dedup:a:b` suggestions | stage, accept, dismiss, find duplicates (awaits an LLM), merge, unsupersede | reviews of stale rows; decay, archive and forget in between | records of a replacement agree; a review never removes both memories; no cycles |
| Janitor steps (`core/janitor/decay.ts`, `archive.ts`, `promote.ts`) | `status`, `decay_score`, `stale_flagged_at`, `memory_archive`, `context_items` links | decay, archive, promote, auto-accept | steps not in transactions | only condemned rows are evicted; what is unused or doubted is retired; no proposal rots |
| Janitor lock (`core/janitor/lock.ts`) | the lock file | acquire, reclaim, release | system calls of several processes interleave; crashes; lock files of hosts that cannot be probed | never two curators at once; a dead owner's lock is reclaimed |
| Janitor runs (`core/cli/janitor.ts`, `core/janitor/index.ts`, `schedule.ts`, `unitWriter.ts`, `core/scheduler/`) | `ltm.janitor.lastRunAt`, `_running`, timers, Honker jobs | due check, run, record, watchdog, install | five triggers at once; hangs; locks taken away | a due run happens, and once per interval |
| Embedding pipeline (`core/queue/`, `core/janitor/embeddings.ts`, `core/embeddings.ts`, `core/dao/embeddings.ts`, `core/vec/`) | queue rows, vectors | enqueue, claim, embed, ack, retry, backfill | at-least-once delivery, provider down, a memory that changes during the call | every public memory gets a vector, of its own text |
| Shared database and migrations (`core/shared-db.ts`, `core/migrations.ts`) | schema version, checksums, backups, `<db>.migrate.lock` | open, migrate, back up, prune | concurrent starts of several releases, failure half-way | a migration takes effect once and in order; rows change only beside a backup |
| Write queue (`core/lib/`) | promise chain per process | enqueue a write | statements of other callers during an awaited transaction | a transaction holds only its own writes |
| Context items (`core/dao/contextItems.ts`, `core/context.ts`) | `context_items` | set goal, decision, gotcha, progress | promotion and rejection race with edits | one goal; at most 20 progress entries |
| Project registry (`hooks/lib/resolveProject.ts`, `core/project.ts`) | `registry.json`, lock file | resolve, register | fixed temporary name, lock stolen after 5 s | registrations are not lost |
| Proposals (`core/proposals.ts`, `hooks/lib/proposalQueue.ts`) | JSON files | append, accept by index, reject by index | no lock around read-modify-write | a decision hits the proposal the user saw |
| Hermes reviewed memory (`hermes/openltm_hermes/_project_memory.py`) | `project_memory_reviews`, the memories it makes | propose, approve, reject, expire, supersede, prune; the strict context | a Python writer beside the TypeScript ones, with its own transactions | only approved, unexpired facts are served, one memory per fact |
| Hermes store (`hermes/openltm_hermes/_db.py`) | the core's tables | learn, recall, doubt, a janitor of its own, consolidate | no lock, other rules for the same columns | what the core promises still holds |
| Privacy and secrets (`core/privacy.ts`, `core/secretsScrubber.ts`) | none | tag filter, scrub | | |
| Events (`core/events/`) | append-only stream and cursors | publish, subscribe | order, restart | |
| Graph (`core/graph.ts`, `src/graph-server.ts`, graph app), hooks, CLI, MCP server, adapters | none of their own | call the above | | |

The components meet in the database. The ones that write one another's columns
are: learning, restating, recall, commits, decay, archive and the sweep of
Hermes (`Lifecycle`); reviews and merges, which decay, the archive and forget
interrupt (`Supersession`); proposals, which reviews, learning and forgetting
interrupt (`Promotion`); the reviewed facts of Hermes, whose memories the core
retires and forgets (`ProjectReview`); the embedding tasks, which outlive the
memories they work on (`EmbedPipeline`); recall, which awaits the provider
between two readings of the same rows (`Recall`); and the processes that bring
one database to different releases (`Migrations`). The lock (`JanitorLock`,
abstractly `ExclusiveRun`, on which `JanitorRuns` is built) is what keeps two
janitors apart, so that each of the modules has one janitor.

## 2. Modules

| Module | Models | Composed with |
|---|---|---|
| `ExclusiveRun` | the abstract promise of the janitor lock: a lease, which a process may lose with several runs when it dies | |
| `JanitorLock` | `core/janitor/lock.ts`, system call by system call | implements `ExclusiveRun` (`Lease == INSTANCE ...`) |
| `JanitorRuns` | `runOnce` and the watchdog of `core/cli/janitor.ts`, `core/janitor/index.ts`, `isJanitorDue` | built on the actions of `ExclusiveRun` (`Lock == INSTANCE ...`) |
| `Lifecycle` | `core/janitor/decay.ts`, `archive.ts`; learn, recall, flagStaleByPaths, revalidate, forget of `core/db.ts`; the same of `hermes/openltm_hermes/_db.py`; the edits of `src/graph-server.ts`; what `supersede`, `mergeMemories` and `expire` do to the columns of a row | |
| `Supersession` | `core/janitor/supersedes.ts`, `dedup.ts`, the routes of `src/graph-server.ts` that call them, `consolidate_memories` of Hermes | |
| `Promotion` | `core/janitor/promote.ts` | |
| `EmbedPipeline` | `core/queue/`, `core/embeddings.ts`, `core/janitor/embeddings.ts`, `core/dao/embeddings.ts` | |
| `Recall` | `recall` and `rankRecallResults` of `core/db.ts`, `core/similarity.ts` | |
| `SchemaHistory` | the abstract promise of opening the database | |
| `Migrations` | `core/migrations.ts`, `core/shared-db.ts`, the columns Hermes adds | implements `SchemaHistory` (`History == INSTANCE ...`) |
| `ReviewedFacts` | the abstract promise of the reviewed memory | |
| `ProjectReview` | `hermes/openltm_hermes/_project_memory.py` | implements `ReviewedFacts` (`Shown == INSTANCE ...`) |
| `MC...` | the constants of the runs | each extends its module |
| `...Proofs` | the theorems | each extends its module and `TLAPS`; `MemoryProofs` extends `Lifecycle` and `Recall`, so that `Recall` calls its specification `RecallSpec` |

Operators whose comment begins with "Mutant:" are not part of a model. Each is
a definition with a plausible bug in it and stands before the definition it
would replace; it shows that a property depends on that definition.

### JanitorLock

One process stands for one OS process with a pid. `pc` is where it is in
`acquireJanitorLock` or `release`: Look (`existsSync`, `statSync`), Read
(`readFileSync`), Probe (`kill(0)`), Rename (reclaim), Open (`wx`), Write, Release,
Unlink. `owner`, `written` and `age` are the file at the path now. `age` has the
three classes the code distinguishes: younger than the 5 s grace of unreadable
content, older, and older than `maxAgeMs`. `seen` is the age a process read with
`stat`, which `isJanitorLockStale` uses for content it reads later; `holder` is the
owner it read from the file and is about to probe. `evicted` is
a history variable: the running processes whose file somebody else removed. A
crash leaves the file; a process of `ShortLived` (the CLI, a session end) also ends
the ordinary way when it is not in a run (`Exit`); a restart brings up a process
with the same pid. The unlink of the renamed file
is left out, since it does not touch the lock path. A process makes one attempt
at a time.

### JanitorRuns

A task is a caller of the janitor: a timer, the end of a session, a daemon or a
user that starts `ltm janitor run` in a process of its own, or the interval and
the POST route of a graph server. `pc` is where its run is: locked, checked, the
steps grouped by what they wait for (embed, curate, dedup), and the two settings
that record it (record, stats). The lock is the lease of `ExclusiveRun`, whose
actions are conjuncts here: that the system calls keep it is what
`LeaseTheorem` of `JanitorLockProofs` says. `running` is `_running`, per process;
`since` is the time since `ltm.janitor.lastRunAt`. A provider may hang (`Hang`);
the watchdog of `--max-minutes` ends such a run, the server has none; a lock of
six hours is taken away (`Evict`), from a run that hangs or from one that goes on
(`late`). Left out: the Honker queue of the scheduler, the writing of timer
units, a clock that goes backwards, and the numbers among the four settings.

### Lifecycle

`status`, `flag` (stale_flagged_at, with its 30 days), `confirms` and `uses` are
columns. The decay formula is kept as three classes, the two thresholds of the
code being their borders: `score` is the class in the column `decay_score`,
`fade` the class the formula would give now. `Fade` lets half-lives pass, `Brood`
30 days. Recall and `flagStaleByPaths` are a SELECT followed by UPDATEs by id, so
that each is two actions with the ids held in between (`serving`, `hook`), and so
is the janitor of Hermes (`HermesSweep`, `HermesFlag`, `sweep`); `runArchive`
selects in one statement and deletes in a transaction (`Select`, `Move`). `Decay`
is one transaction and one action. Hermes restates and doubts by rules of its own
(`HermesRestate`, `HermesDoubt`), the read of `confirm_count` being merged with
the write. A text that is deleted and learned again has a new id, so that
`Delete` empties the held sets; the columns of a row that is not there have the
values of a new one. `before` is the order of the ids.

Nothing protects a row between the two statements of the archive: its importance
(`Regrade`) and its tags (`Retag`) change by the graph app, its confidence by
`Boost`, its tags by a `Restate` that comes with some, and `Replace` (`supersede`
and `mergeMemories`, whose choices are those of `Supersession`) and `Expire` write
its status. These actions take a row of any status, as the code does. `importance`
has the three classes the code compares with, `tagged` the rows with the tag
private. Of a batch (`Batches`) what is private is dropped, and the run is over if
nothing is left.

Preferences are kept out by `Anchored`; pending rows are in `Promotion`; learn is
one step. SQL promises no order for the SELECT of the archive, which has none of
its own. `Batches` has the order that SQLite gives it: it reads the deprecated rows
through `idx_memories_status`, in the order of their ids. A row forgotten
between SELECT and DELETE still gets its copy in `memory_archive`; the copies are
not part of the model.

### Supersession

A replacement is recorded three times: `status`, `by` (superseded_by) and the
`supersedes` relation in `rels`. `staged` is the review queue, `pair` and `found`
the duplicate suggestions, computed before an await of the LLM (`FindDuplicate`,
`SaveCandidate`). Which memories are similar, what the LLM says and which memory
of a pair is older is any choice; the order of creation is the order of ids.
Rejecting a conflict and letting it coexist differ only in a label and are one
action. `runArchive`'s selection is part of its transaction here; `Lifecycle`
separates them. `unsupersede` and `consolidate_memories` have no caller outside
the tests; with the routes of the graph server and relate they are the manual
edits, which `ManualCuration` switches on.

### Promotion

`row` is the status of the memory with a `dedup_key`, which is unique, so that
the text names the row; what still holds the id of a deleted row holds `Gone`.
`runPromote` runs statement by statement (`Scan`, `Look`, `Insert`, `Link`), an
exception ends its step (`Abort`), `Accept` is the auto-accept of proposals a week old (`Age`).
The reviews of the graph server are statements of their own
(`Open`, `ApproveRow`, `ApproveItems`, `RejectItems`, `RejectRow`). The selection
of `runAutoAccept` is merged with the approval, which looks at the status again.
`promote()` of `core/context.ts` has no caller and is left out.

### EmbedPipeline

`learn` is how far `learn()` has come with a memory: INSERT, tags, enqueue.
`job`, `tries` and `holder` are the Honker queue, an external library modelled
from how `core/queue/` uses it: claims expire, ack and retry are void without the
claim, the last attempt dead-letters. A worker goes through `embedMemory` (`Look`,
`Send`, `Receive`, then `Store`, `Ack` or `Retry`); a memory learned without the
queue is embedded by such a task too, once. The backfill takes batches in the order
of ids (`Select`, `Choose`, `Hit`, `Miss`, `StoreNext`, `Finish`). `vec[m]` is the
memory whose text the vector is of. `Retag` puts the tag private on a memory of
`Retagged` and takes it off. The provider is the default one, llama.cpp.
Texts do not change, there is one model, the vec0 index is not separate from the
table, and the LIMIT of 10000 rows of the backfill is not reached.

### Recall

One call, from the text search to the tags of the rows it returns, with the
statements in between as actions and the other processes (`Withdraw`, `Restore`)
between any two of them. The matches of the words and of the vectors are any
assignment (`words`, `nearness`): full-text search and distances are data. The
arithmetic of the ranking is kept, in thousandths: rank fusion (`Fused`), the
score (`Score`), the demotion of near-duplicates (`Demoted`, with the exponent the
code uses, the position of the cluster in `seen`), the three cuts. `MaxChanges`
bounds what other processes do. `withdrawn` is a history variable.
The text search filters what may be served before its limit (`Search`); the embedding
search filters by status and project only, so that foreign and private rows may take
places in it (`Answer`).
A page is a first part of the one final order (`Ranked`); what is served is kept as a
set, `served`, since no property asks for the order in which it is printed.
Left out: the literal sorts, a request for one tag, the filters by category and
time, and relations and provenance of what is served.

### Migrations

A version adds a column (`Alters`) or does not, and fills in rows; `columns`,
`filled` and `recorded` say which columns there are, how often the rows were
filled in for a version, and what `_schema_version` records, so that "applied
twice" and "recorded without effect" are states. `pc` goes through `migrateDb`:
the fast path (`Look`), the lock, schema.sql on what was a new file, the refusal of
a newer database and the list of pending versions (`Begin`), the backup, the
migrations one transaction each (`Migrate`, `Reconcile` when a column is there, `Refuse`),
the rotation (`Retain`). What `migrateDb` keeps in variables ends with the call
(`Return`). `existed` is `hasMemories`, read before the lock. The
command line skips fast path and lock. `getDb` serves the callers of a process that
is still opening the database over a connection of its own, which has run
`schema.sql` alone (`ColdOpen`), and goes on doing so when the start fails. What is
done over it is outside `ReadyIsCurrent` and `SchemaHistory`, which speak of the
processes that were handed the migrated connection. The first rows may come at any
time, over such a connection or from another process (`AddRows`); `early` is a
history variable, the processes that were migrating by then and had found nothing to
back up. The lock is taken from a live process only
after ten minutes, which counts as a fault. `SchemaHistory` sees `recorded`, `filled`
and the processes that are ready: a version is recorded in the step that gives it its
effect, after all versions before it, and a process joins when its release is
there. Checksums, rolling back and what
migrations do beyond that are left out.

### ProjectReview

`state`, `key` and `by` are the review table, `memory` the status of the row
that `approve()` made, which the core's processes change (`Forget`, `Retire`).
`writer` is the connection whose write transaction is open between two calls:
SQLite lets nobody else write meanwhile. `propose` is a SELECT and an INSERT,
`prune_expired` a SELECT and one transaction per review. `Lapse` lets an
expires_at pass. The strict context is the operator `StrictContext`, and the
refinement mapping reads the shown and the withdrawn facts off it.
Audit rows and the evidence fields are left out.

## 3. Runs

| Run | Instance | What it shows |
|---|---|---|
| `lock` | 3 processes, 2 hosts, 2 of the processes short-lived, ages up to expired, 2 crashes | types; the protocol implements the lease (`ImplementsLease`): a run is overlapped only by one whose file was taken away; an abandoned file is reclaimed (`AbandonedIsReclaimed`) |
| `lock_reclaim` (violation) | 3 short-lived processes, 1 host, no file older than 5 s, no crash | `MutualExclusion` fails: see finding 1 |
| `janitor_runs` | a timer and a session end with intervals 1 and 2, a run by hand, a server with its interval and a request; the clock up to 2, 2 faults | `OneCurator`, `OneRunPerProcess`; a run with `--if-due` is still due when it starts (`Throttled`); a due run is made (`DueIsRun`) |
| `lifecycle` | 2 memories of low importance, one with files; batches of 1, 1 hook, 2 confirmations are enough, 1 edit, crashes, Hermes | types; of what the archive has read, only an edit of that very row is overlooked (`EvictsOnlyCondemned`); an unanswered doubt ends in deprecation whatever is committed or swept meanwhile, and so does lack of use (`NeglectEnds`); what the archive may take it takes, unless private rows fill the batch (`DeadMoved`) |
| `lifecycle_moved` (violation) | 1 memory | `FullyDecayedMoved` fails: see finding 2 |
| `supersession_queue` | 4 rows, the conflict queue with decay, archive and forget | `RecordsAgree`, `NoCycle`, `AcceptedStaysApplied`, `ReviewKeepsOne`, `ResolvedOnce` |
| `supersession_all` | 3 rows, at most 2 relations and staging rows together (`FewRows`), everything that replaces | types; what names its replacement is not served (`PointerMeansSuperseded`) |
| `promote` | 2 texts, 2 items, 2 edits, 1 crash | no item holds the id of a deleted row (`LinksHold`); no proposal stays pending (`NoRot`); every eligible item is handled (`EveryItemHandled`) |
| `embed` | 2 memories, one queued and one that is tagged private and untagged, 1 worker, 2 attempts, batches of 2, an outage, a crash | types and attempts; `OwnVector`; `VectorHasMemory`; `EventuallyEmbedded`; `JobsSettle` |
| `recall` | 4 memories (the first the strongest; three of the project; the third stale and perhaps retired or private to begin with; the fourth of another workspace and a near-duplicate of the third), every assignment of matches, 1 change | `NothingWithdrawn`, `FullPage`, `Dominance`, `RecallEnds` |
| `migrations` | 3 versions, of which the second adds a column that Hermes adds too; a process of release 2, one of release 3, the command line; 1 backup kept, 3 opens, 1 fault | `EffectOnce`, `ReadyIsCurrent`, `ChangedWithBackup`; opening the database implements `SchemaHistory` (`ImplementsHistory`): versions come one after the other, each with its effect; a start comes to an end (`StartEnds`) |
| `review` | 3 reviews, 2 facts of a project, 2 callers, 1 crash | `LedgerAgrees`, `NoSupersessionCycle`, `VerdictsFinal`; the strict context implements `ReviewedFacts` (`ImplementsFacts`) |

**Why the bounds are enough.** Three processes are what the interleaving of a
reclaim needs: a dead owner and two that judge its file. Two memories are what a
review, a batch and a shift of positions need; three or four rows let a
replacement be replaced and a cycle close, and a suggestion take a row of its own.
Two items with one text or two texts are the cases `runPromote` distinguishes.
Three reviews are two proposals of one fact and a third, or a chain of two
replacements; two callers are a prune and somebody who interferes. Three
migrations are one before, one with and one after the column that is there
already; a process of either release and one without the lock give each pair
that may migrate together. Four memories are more than the page, the candidates
and the embedding search hold: the limits of the code (50 hits of the words, 20
of the vectors, 80 neighbours) are scaled down to 2, 2 and 3 for a page of one.
Neighbours in the order of the four differ by strength, by staleness, and by the project with
the repetition, and each of these terms decides for some assignment of matches:
`Dominance` fails when the sign of the decay score, of staleness, of the project or of
the penalty is reversed in the ranking; importance and frequency never decide alone.
A batch of one is smaller
than the two rows that may be dead, so that the LIMIT of the archive cuts.
`MaxEdits`, `MaxChanges`, `MaxCrashes`, `MaxFaults` and `MaxOutages` bound how
often somebody interferes; each hazard listed in `PROJECT.json` needs one or two
interferences, and the theorems below hold for any number of them. `FewRows`
bounds the states of `supersession_all` and is the only state constraint; no
liveness is checked under it. Symmetry (facts and callers of `review`) is used
only where no liveness is checked. Deadlock is checked where something is always
enabled (`lock`, `promote`); the other instances stop when their bounds are used
up, or when the call they model has returned.

**Fairness.** The janitor is scheduled again and again (timers, session ends, the
daemon loop), so that its next step is weakly fair. In `lifecycle` not every run of it
is cut short, so that the steps after `Decay` are strongly fair. Dead processes are started
again in `lock`; workers loop; the provider comes back after an outage; claims
expire; the 30 days of a doubt and a week pass. Of half-lives nothing is assumed: what
has faded, has. In `janitor_runs` a run that has
begun and does not hang goes on, a run with `--if-due` is tried again and again
and so gets a lock that is free again and again (strong fairness), and watchdog
and age of the lock act on what hangs; nothing is assumed of the provider. In
`recall` the call and its timer go on; the provider need not answer. In
`migrations` a process that is not killed goes on; nobody need open the database.
Nothing is assumed of agents, owners, hooks, reviews or Hermes.

## 4. Findings

1. *A reclaim can remove a fresh lock* (`lock_reclaim`; `core/janitor/lock.ts:87`).
   The rename moves whatever the path names by then. A process reads the owner of a
   lock; the owner releases it and exits in the ordinary way; a third process takes a
   fresh lock; the probe finds the first owner dead, the rename takes the fresh lock
   away, and two processes curate, although `core/janitor/index.ts:50` says "never".
   No crash is needed. Two processes that judge one dead lock stale meet the same
   rename.
2. *Deprecated memories are not archived* (`lifecycle_moved`;
   `core/janitor/decay.ts:28`). Only active rows have their score refreshed and a
   row is deprecated at the first score below 0.25; the archive asks for a score
   below 0.10, which a row deprecated in between never reaches.

Seen while modelling, without a run of their own. Reviews and merges:

- A suggestion approved after its kept memory was replaced or deprecated
  supersedes the last active one (`core/janitor/dedup.ts:265`): with
  `DedupReview`, `ReviewKeepsOne` fails.
- `RecordsAgree` holds for the conflict queue and not for merges: `mergeMemories`
  moves `supersedes` relations to the kept memory and leaves `superseded_by` of the
  other rows.
- `unsupersede` and `consolidate_memories` have no caller outside the tests.
- A rejection is forgotten (`core/janitor/promote.ts:207`, against
  `docs/13-janitor.md:9`): the item becomes eligible again, is proposed by the next
  run and accepted a week later.
- An approval between the INSERT and the link of `runPromote` leaves the item in
  `pending_promotion`. A text that was auto-accepted and forgotten is proposed
  again when a second item has it.

Embedding:

- One refused text blocks its batch (`core/janitor/providers/llamacpp.ts:65`): the
  backfill sends the same batch in the same order at each run and stops at the
  same text. With such a text in `Poison`, `EventuallyEmbedded` fails for those
  behind it.
- A backfill that runs between the INSERT of `learn()` and its tags sends a memory
  that is about to be private; a tag put on later leaves the vector and its row a
  candidate for the classifier. Editing a text (`src/graph-server.ts:1166`) leaves
  the vector and the `dedup_key` of the old one.
- The embedding search filters by status and project before its limit
  (`core/embeddings.ts:307`), and by privacy and workspace only afterwards: private
  rows and those of another workspace use up its `topN`, so that a memory that only
  its meaning would find may be missed for them. `FullPage` speaks of the text search.

Lifecycle and Hermes:

- What the archive has read it deletes by id, whatever became of it between
  `core/janitor/archive.ts:28` and `:73`. A row that gets important, superseded, or
  private (by `learn()`, the graph app, or a replacement that hands on its tags) is
  moved all the same, although `archive.ts` says "all must match" and drops private
  rows at `:43`. `EvictsOnlyCondemned` says that nothing else is overlooked. A row
  that is forgotten in that window still gets a copy in `memory_archive`.
- Private rows are dropped after the LIMIT: a hundred of them that meet the other
  criteria fill the batch of each run, and the rows behind them are never moved.
  `DeadMoved` excepts that case (`Crowded`).
- `flagStaleByPaths` flags by id what it selected before: a memory the owner
  restates in between is flagged. A recall can record its use of a row the archive
  has already read. Restating a deprecated text reinforces its row and does not
  bring it back.
- The Hermes janitor takes no lock and flags every low score, owner statements
  and preferences included, although migration 032 says that no writer does; what
  it flags is deprecated 30 days later even if it has been used since. Its
  `flag_stale` renews a doubt, and flags permanent rows, which are never
  deprecated. `confirm_count` is written from a read that may be stale.
- A learn that races a forget may report that it reinforced a row that is gone;
  of two processes that learn one text, the second may fail on the unique key.

Locks and runs:

- `release()` unlinks an unreadable lock, which may be one that another process has
  created and not yet written; a writer slower than 5 s is evicted.
- `docs/13-janitor.md:43` says that the graph server does not take the lock; it does.
- A run whose steps failed records `lastRunAt` like any other; one that the
  watchdog ends does not, and is tried again at each check. The runs of a graph
  server have no watchdog. A `lastRunAt` in the future, from a clock that was
  set back, keeps runs with `--if-due` from being due.

Recall:

- Without a query, a stale weak memory has a negative score, and the penalty for a
  repetition raises it (`core/db.ts:642`); `Dominance` is about queries. The
  exponent of the penalty is the index of the cluster, where the comment at
  `core/db.ts:566` speaks of the repetition.
- `docs/02-how-it-works.md:83` describes a recall without the filter of active
  rows; it always has it. A request whose tags do not exist is served without
  the tag filter. The embedding search does not know the filters by workspace,
  agent, privacy and category: they act on its hits, afterwards.

Migrations:

- A migration is one transaction per version, not one for all (`PRD.md:266`).
  `migrate --down` and `reset` fail at the newest versions, which have no DOWN part
  (`docs/05-commands.md:105`, `docs/09-troubleshooting.md:114`).
- A start that fails after its backup leaves one more backup than
  `LTM_BACKUP_RETENTION` (`README.md:283`). A rotation spares its own backup and
  those younger than a minute: of a run that takes longer than that another one may
  remove the backup, with a newer one left in its place. With a retention of 0
  nothing is left in its place.
- Rows that are added after a migrating process has found none are migrated without a
  backup (`core/migrations.ts:117`).
- After a start that failed, `getDb` goes on serving the connection that has seen
  `schema.sql` alone (`core/shared-db.ts:135`): its callers work on a schema that is
  not migrated.
- An older release does not open a database that a newer one has migrated. A
  failed start is not tried again in the same process.

Reviewed memory:

- `approve` and `reject` are called by tests only. A refused `reject()` leaves its
  write transaction open (`_project_memory.py:349`), until that connection commits;
  every other writer waits (`writer`).
- A fact that was expired or superseded cannot be approved again while the row of
  its memory exists. A memory that is forgotten leaves its review approved: the
  fact cannot be proposed again, and, once lapsed, it ends every prune of its
  project before the reviews behind it.
- A fact superseded by one that has lapsed is withdrawn and nothing is shown in its
  place. The supersedes relation points from the old memory to the new one, the
  reverse of `supersedes.ts`.

## 5. Proofs

All proofs are checked by TLAPS, for every value of the constants that satisfies
the named assumption of the module (bounds are naturals, special values are
distinct from the members of the sets they extend).

- `JanitorLockProofs`. `ExclusiveUnlessEvicted` is not inductive;
  `LockNamesItsHolder` (whoever still has its lock owns the file at the path) is,
  with `TypeOK`, because only the `wx` create and the removal change the owner and
  the removal evicts it. Each step maps to a step or a stutter of `ExclusiveRun`
  (`LeaseTheorem`). `QuickRunsExclude`: in a behaviour in which
  no process ends, by a crash or an ordinary exit, and no file gets older than the
  grace, runs exclude one another. Finding 1 is what one exit is enough for.
- `JanitorRunsProofs`. `CuratorTheorem`, `ProcessTheorem` and `ThrottleTheorem`,
  from the lease. A task holds the lock from where it takes it to where it returns
  (`Held`) and one holder has not been evicted (`OneLease`): that gives
  `OneCurator`. `Flagged` (`_running` is set while steps run) gives
  `OneRunPerProcess` even without the lease. `Throttled` needs `StillDue`: nobody
  records a run between the check and the start of another one, as long as no
  working run has lost its lock (`Seen`).
- `MemoryProofs`. Of `Lifecycle`: `TypeCorrect`, and `EvictsOnlyCondemnedTheorem` from
  the invariant `Doomed`: what `runArchive` has read is out of recall and has a dead
  score, since no statement, of Hermes either, makes a row active again or writes the
  score of one that is not, and a deleted id is not used again. The other criteria
  are followed step by step: a row that meets them goes on doing so unless the step
  is an edit of that very row. The
  recall count is not among them (section 4). Of `Recall`: `WithdrawnTheorem` and
  `FullPageTheorem`, for any finite set of rows, any matches and any limits. The
  first follows from `Selected`: nothing on the page had been withdrawn when it was
  selected, and what is counted and served is on the page. The second is about the
  whole call: `Enough` compares, during the await, the hits that may still be served
  with the matches there are now, and each change of another process costs one of
  them at most (`OneRow`). Both use `PageOf`: a page holds rows it is ranked from, and as many
  as fit. The numbers of the ranking play no part; any order would do.
- `SupersessionProofs`. `TypeCorrect`, `ReferencesTheorem`, `PointerTheorem` and
  `ResolvedOnceTheorem`, for all review channels and edits by hand. The others need
  that some channel is not in use, and TLC shows that they need it:

  | Theorem | Without | What happens otherwise |
  |---|---|---|
  | `AcceptedTheorem` | edits by hand | `unsupersede` is such an edit |
  | `RecordsAgreeTheorem` | edits by hand, suggestions | a merge moves relations only (section 4) |
  | `ReviewKeepsOneTheorem` | suggestions | an approval uses stale rows (section 4) |
  | `NoCycleTheorem` | edits by hand, suggestions | a conflict replaces 1 by 2, a suggestion 2 by 1 |

  `superseded_by` grows along ids (`Forward`), so that the largest id of a set
  points out of it: no cycle. `RecordsAgree` is not inductive: it lets a row
  have a second relation, which would be left over when the row it points to is
  deleted. `Recorded` is: there is a relation exactly where there is a pointer. Accepting keeps it up since
  an active row has no pointer, and hence no relation left from before; a deletion
  cuts both. With it, a superseded row without a pointer can only have lost it to
  the deletion of its replacement, which is what the action property says of the
  status. `ReviewKeepsOne` rests on `NoSuggestions` and on the check of both
  statuses inside the transaction that accepts a conflict.
- `PromotionProofs`. `TypeCorrect` and `LinksHoldTheorem`, with the position of
  the janitor (`AtWork`) and the fact that the id it holds names a row or is known
  to be gone (`RefHolds`).
- `EmbedPipelineProofs`. `TypeCorrect`, `OwnVectorTheorem` and
  `VectorHasMemoryTheorem`, with the alignment of answers and texts (`Aligned`),
  the attempts left of a claimed job (`HasTries`) and the memory each worker holds
  (`Working`). They cover texts the provider refuses and any tagging, which the
  run does not.
- `MigrationsProofs`. `EffectOnceTheorem`, `InOrderTheorem`, `ReadyTheorem` and
  `BackupTheorem`, for any releases and any number of processes with or without
  the lock (`BackupTheorem` for a retention of at least one, and it is false for none);
  `HistoryTheorem` maps every step to a step or a stutter of
  `SchemaHistory`. The argument does not use the lock: what protects the database is
  that a version row is unique and commits with its effect, that a process works
  through its list in order (`WorkLeft`: what is not recorded of its release is on
  it), and that a rotation removes no backup but for a newer one (`Covered`). What is recorded
  has no gaps, so that the lowest version on the list of a process is, if nobody
  else has recorded it meanwhile, the very next one (`RecordIsNext`): that makes
  each commit an `Upgrade` of the abstract history.
- `ProjectReviewProofs`. `LedgerAgreesTheorem`, `NoCycleTheorem` and
  `VerdictsFinalTheorem`; `ImplementsTheorem` maps every step to a step or a
  stutter of `ReviewedFacts`. It needs that a fact has one memory at most
  (`OneMemoryPerFact`), which is what the check of `approve()` inside its
  transaction keeps up, however many proposals of the fact there are. That
  replacements form no cycle follows from `ReplacedIsSuperseded`: a review is
  approved when it replaces another one, and so has no replacement itself; a set
  that contains it is left there.

Only model-checked are:

- liveness (`AbandonedIsReclaimed`, `DueIsRun`, `NeglectEnds`, `DeadMoved`, `NoRot`,
  `EveryItemHandled`, `EventuallyEmbedded`, `JobsSettle`, `RecallEnds`, `StartEnds`), which needs ENABLED and fairness;
- `Dominance`, about the scores themselves: they come from folds over sequences,
  which take induction over data. It is also a property of the limits of the run
  only: with more rows than those, reciprocal ranks in thousandths tie;
- the two violations, which TLC shows by example.

Every other property of the runs is stated by a theorem.

## 6. What remains

In this order, each module with its MC module, its run and its invariant proofs:

1. `Registry` and `Proposals`: read-modify-write of files beside other processes
   (`hooks/lib/resolveProject.ts`, `core/proposals.ts`); lost updates, a decision
   that hits another proposal.
2. `WriteQueue` (`core/lib/writeQueue.ts`): transactions that stay open across an
   await on a shared connection; refines a sequence of atomic writes.
3. `ContextItems` (`core/dao/contextItems.ts`): one goal, the cap of progress rows.
4. Graph traversal (`core/graph.ts`) as operators, against reference definitions
   over bounded inputs.

Theorems to add, beside the invariants of these modules: an abstract specification
of replacement (what is served, and by what it was replaced) that the
conflict queue implements, and one of promotion, in which an item is proposed and
decided in single steps, for those interleavings that keep to it.

## 7. Not modelled

Full-text search, vector distances, the LLM's verdicts, secret scrubbing, framing
of recalled text and the layout of the graph are data, and appear as free choices
where a model needs them. Not modelled at all: the project registry, proposals,
the write queue, goals and the progress cap of context items, and graph
traversal (section 6); the durable scheduler job, rolling back and the checksums
of migrations, and the change of an embedding model; the search, capture and
extraction of Hermes, and its vectors. The CLI, the MCP server, the adapters and
the hooks translate calls; the calls are the actions of the modules. The graph app
is a browser user interface. Events notify and nothing depends on their delivery.
Audit rows, provenance and the markdown export are written beside a change and
read by no modelled action, except the audit of auto-accepts in `Promotion`.
Scripts are not part of the running system. `PROJECT.json` lists each component
with its status, and each hazard with the properties that cover it or the reason
why none does yet.

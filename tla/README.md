# A verification development of corpus-kb

corpus-kb is a local-first knowledge base: it ingests documents into Postgres
or DuckDB, embeds their chunks, projects an event log into read models, and
serves search over the result.  This directory models the parts of it whose
correctness depends on the order in which things happen, checks them with TLC
on small instances, and proves the main results with TLAPS for every value of
the constants.  All source paths below are relative to `src/src/corpus_kb/`
unless they begin with `src/`.

Contents: [1 the system](#1-the-system) · [2 the modules](#2-the-modules) ·
[3 the runs](#3-the-runs) · [4 the proofs](#4-the-proofs) ·
[5 what the runs found](#5-what-the-runs-found) ·
[6 what is left out](#6-what-is-left-out) · [7 the plan](#7-the-plan)

## 1 The system

| component | state it keeps | operations |
|---|---|---|
| **ingest queue** `queue/store.py`, `queue/sql.py` | table `ingest_queue`: status, attempts, max_attempts, content_hash, claimed_by, heartbeat_at, started_at | enqueue (probe, insert, re-read), cancel, claim, reclaim stale, heartbeat, release, finish, fail |
| **drain worker** `queue/worker.py`, `worker_support.py`, `autorun.py` | one loop per process: current book, pass watermark, stop flag, heartbeat task, report | start, pass, run a book, settle, stop, leave, crash |
| **projections** `projections/` | tables `projection_checkpoints`, `projection_dlq`, and the rows of three read models | read a window, dispatch an event, project, move the checkpoint, record a failure, catch up |
| **ingest pipeline and ledger** `tools/pipeline/`, `tools/ingest_*.py` | `documents`, `chunks`, `chunks_vectors`, `ingest_runs`; an advisory lock per content | probe, begin, store, embed, store vectors, commit, finish, fail |
| **repair** `tools/ingest_reembed.py` | none (reads rows, embeds, writes them) | scan, write |
| **delete** `tools/ingest_tools.py`, `storage/duckdb_cascade.py` | none (stages on DuckDB, a cascade on Postgres) | delete |
| **watch loop** `ingest_watch.py`, `cli/cli_ingest.py` | error, attempts and status per path, the counts of the summary, all in memory | scan pass, heal pass (probe, ingest, give up), pause, return, cancel |
| **release lifecycle** `domain/codebook.py`, `research/release/`, `handlers/release_handlers.py` | an event-sourced aggregate per codebook version | request, gate result, waiver, release, supersede, retire, propose; execute = the middle three |
| **research cycle** `research/cycle*.py` | an event-sourced run per call, read back from its projected row | start or resume, stage, seal, gates, halt, approval, complete |
| **code promotion** `research/promote_code.py`, `tools/research_tools.py` | `research_proposed_codes`; codebook versions in the event log, read back as `code_registry` | draft, promote (load, gate, block or mint, mark), catch up |
| command side `handlers/command_handler.py` | row store and event log | ingest, delete, tag with a best-effort event |
| storage gateways `storage/` | connections | transaction scopes |
| query side, strategies, extraction, research stages, API, CLI, UI | none, or one transaction each | reads and transformations |

**How they interact.**  A client enqueues a file; the queue hands it to a
worker under a lease; the worker runs the ingest pipeline on it; the pipeline
writes rows and closes its ledger row; the command side appends an event; the
projections follow the event log from background tasks of the server and from
catch-ups that every tool call and CLI command makes.  The watch loop of the
CLI runs the pipeline on the files of a directory, again and again.  The
research cycle runs stages over what was ingested, and its deductive stage asks
whether the codebook it codes with has been released.  An inductive run leaves
proposed codes, which people promote to new codebook versions.  Everything is shared
through the database.  A transaction is the only atomic step; between two of
them any other task, process or tool call may run.

**What is hard.**  Leases that expire under a worker that is slow, not dead;
settles by a worker that no longer owns the row; two enqueues of one content;
a crash between a write and its checkpoint, or between chunks and their
vectors; drainers that overlap on one checkpoint; a failure that must neither
block a subscription nor vanish; a ledger that must not call a broken ingest
complete; a repair that writes what it read some time ago; retry counts that
scans and heal passes write over; a release that is executed in ten saves while
others change the same draft; a cycle that resumes from a projection of what it
has saved; a promotion that checks against a projection, mints and only then
marks.  `PROJECT.json`
lists forty such places at their lines.

**What makes each correct.**

* queue: one active row per content hash; an exact retry cap; each claim is
  accounted for; a settled row is final; only the holder settles; every
  accepted row ends.
* projections: no handled event is passed over without a row or a dead letter;
  events are settled in log order; a quiet catch-up has caught up; a live loop
  serves every event.
* ledger: one run per content; a clean newest run means that its texts are
  stored; a skip as unchanged loses nothing on DuckDB, and on Postgres nothing
  that is not on record; a chunk without its vector is on record.

* watch loop: healing tries are bounded and used; no outage is dropped without a
  word; a broken file is counted; the heal set empties.
* release: the events of a version can always be replayed; an answer tells what
  is stored; a release stands on its own evidence; released records are final.
* cycle: a run has each stage before it behind it, run or blocked; it goes past
  no promotion it looks at; a call that reads the newest checkpoint of the last
  run begins beyond what that run has run; a cycle that is started again
  completes.
* promotion: no version without its proposal, unless its call has lost or died;
  alike codes only from calls that overlap or from a projection that failed or
  is behind; a proposal that people promote is decided.

## 2 The modules

| module | models | uses |
|---|---|---|
| `IngestQueue` | the queue table, its clients and its workers | |
| `WorkOrder` | what the queue promises: work items that are offered, taken, given back, ended | |
| `MCIngestQueue`, `MCQueuePasses` | instances; the second adds a history of one drain pass | `IngestQueue` |
| `IngestQueueProofs` | eleven theorems | `IngestQueue`, `TLAPS` |
| `Projections` | three projections, any number of drainers, one log | |
| `Subscriptions` | what the projections promise: each feed takes the events it wants, once, in order | |
| `MCProjections`, `MCFairProjections` | instances and the statement of the docs that fails; the second one for liveness, one projection at a time | `Projections` |
| `ProjectionsProofs` | five theorems | `Projections`, `TLAPS` |
| `IngestLedger` | ingests, repairs and deletes on the document rows and the ledger | |
| `MCIngestLedger` | instances | `IngestLedger` |
| `IngestLedgerProofs` | three theorems: types and locks | `IngestLedger`, `TLAPS` |
| `LedgerHonestyProofs` | three theorems: what the ledger says is so | `IngestLedgerProofs` |
| `IngestWatch` | the watch loop and its heal set | |
| `MCIngestWatch` | an instance | `IngestWatch` |
| `IngestWatchProofs` | five theorems | `IngestWatch`, `TLAPS` |
| `CodebookRelease` | the releases of a codebook version, and the calls that change them | `ReleaseLifecycle` |
| `ReleaseLifecycle` | what the lifecycle promises of each release | |
| `MCCodebookRelease` | an instance | `CodebookRelease` |
| `CodebookReleaseProofs` | five theorems | `CodebookRelease`, `TLAPS` |
| `ResearchCycle` | the calls of the research cycle, one after and beside the other | |
| `MCResearchCycle` | an instance, with a time from which nothing disturbs it | `ResearchCycle` |
| `ResearchCycleProofs` | four theorems | `ResearchCycle`, `TLAPS` |
| `CodePromotion` | proposals, the versions they become, and the calls that promote them | `CodebookGrowth` |
| `CodebookGrowth` | what promotion promises of proposals and of the codebook | |
| `MCCodePromotion` | an instance | `CodePromotion` |
| `CodePromotionProofs` | five theorems | `CodePromotion`, `TLAPS` |

`IngestQueue` implements `WorkOrder`, `Projections` implements `Subscriptions`
and `CodebookRelease` implements `ReleaseLifecycle`; each refinement mapping stands in the detailed module
(`Implements`), is checked by TLC and proved.  `CodePromotion` implements
`CodebookGrowth`; this refinement is proved, for every instance, and is in no run.

Definitions named `Fault_...` stand before the definition they change: they
are seeded faults (a dropped guard, an off-by-one, a record not written), and
for every property of every passing run one of them makes TLC report it
violated.  They are in no next-state relation.

### IngestQueue

One action per SQL statement or per step of the drain loop between two
statements.  `table` is the row store, `procs` the memory of the workers,
`clients` the callers of queue-enqueue, `runs` a history of claims that only
properties read.

| code | model |
|---|---|
| `enqueue`: FIND_ACTIVE, INSERT .. ON CONFLICT, FIND_ACTIVE again | `Enqueue`, `AnswerTwin`, `ProbeMisses`, `Insert`, `InsertConflicts`, `RereadMisses` |
| `cancel` | `Cancel` |
| `drain_once`: watermark, RECLAIM_STALE, CLAIM, the stop check | `StartPass`, `ReclaimStale`, `Claim`, `EndPass`, `Release` |
| `_run_book` with the heartbeat scope | `BeginRun`, `Beat`, `BeatRaises`, `IngestRaises`, `IngestAnswers` |
| `_settle`: FINISH, FAIL, their outcome in the report | `SettleDone`, `SettleFail`, `SettleExcept` |
| `watch`, autorun start and stop, the end of a process | `Start`, `RequestStop`, `Leave`, `Crash` |
| stale_lease_seconds pass | `LeaseAges` |

Abstractions.  Row ids follow `queued_at`, so the oldest claimable row is the
least.  `FOR UPDATE SKIP LOCKED` makes CLAIM an atomic choice of the oldest
row.  The comparison of `started_at` with the pass watermark is kept as the
set `recent` (rows first claimed since the watermark was read); clock skew
between hosts is ignored.  A lease is `fresh` or `stale`; it grows stale at
any time, which includes a worker that is merely slow.  `Crash` covers the
death of a process, the cancellation after the grace period and a store error
that ends the loop.  A single `queue-drain` of the CLI is a worker that leaves
after a pass.  `pages_total`, `run_id`, error texts and counters decide no
guard and are left out; the report keeps the rows it lists as done or failed.

### Projections

One log and three projections, each with the rows it has written, a checkpoint
and a dead-letter queue.  A drainer is a `run()` loop (`Background`) or a
catch-up with a bounded number of reads; several may drain one projection.

| code | model |
|---|---|
| aggregates save events | `Write` |
| `get_checkpoint` + `read_since` | `Read`, `Quiet`, `PassesSpent` |
| `dispatch_notification`, the early returns of `process_event` | `Pass`, `Skip` |
| `_project_document`, `_project_chunks`, embed batches, research writes | `Project`, `ProjectRaises` |
| `update_checkpoint` | `Mark`, `MoveCheckpoint` |
| `record_failure` | `RecordFailure` |
| exceptions out of the drain; death of a process | `StoreRaises`, `Crash` |

Abstractions.  One tenant, and events of others as `foreign`.  One `Window`
stands for the read limits of 200, 100 and 500.  A document has one Ingested
event and then one ChunksAdded, with texts or blank.  The foreign keys that
decide whether a write can succeed are kept (`HasParent`); all else about the
rows is not, and writing a row twice is writing it once (each statement is an
upsert or ON CONFLICT DO NOTHING).  Reading the checkpoint and then the window
is one step: both reads precede any write of the drainer, and the log only
grows.  The log is read in notification order, which the recorder of the
eventsourcing library is taken to keep.  A store error is taken where the code
takes it: the except clause of `process_event` also covers the checkpoint write,
so documents dead-letter an event of the tenant that writes no rows when its
checkpoint write fails, and go on (`Tried`), while the same write for an event of
another tenant ends the loop.  `Subscriptions` therefore lets a feed take events
it only admits (`Admits`).  `command_handler.py:225` writes
ChunksAdded with no texts today; texts come from tests.

### IngestLedger

A runner is one ingest at a time of any process.  `store` is the database,
`lock` the advisory locks, `task` the locals of `_run_document_stages`.

| code | model |
|---|---|
| `run_pipeline` up to the lock | `Ingest` (a taken lock changes nothing and is no action) |
| `unchanged_doc_id` on Postgres, on DuckDB | `Unchanged`, `Skip`, `ProbeMisses` |
| `begin_run` | `Begin`, with `Upserted` for the two upserts |
| `store_chunks`, with the DuckDB pre-pass that commits first | `PrePass`, `StoreChunks`, `StoreFails` |
| `embed_chunks` and what counts as fatal | `Embed` = `EmbedRaises` or `EmbedAnswers` |
| `store_vectors` | `StoreVectors`, `VectorsFail` |
| later stages, `update_document` | `UpdateDocument` |
| `finish_run`, leaving the lock | `Finish`, `Close` |
| `fail_run` on any exception or cancellation | `Raises` |
| death of the process | `Crash` |
| `reembed_degraded` | `RepairScan`, `RepairWrite` |
| `delete_document` on Postgres; the cascade on DuckDB | `Delete`; `DeleteVectors`, `DeleteChunks`, `DeleteRow` |

Abstractions.  One tenant.  The chunks a strategy plans are a function
`Parts` of the content; contents and chunk texts are told apart by their
hashes.  A row is named by the run that created it and its position.  A vector
is the text it was made from, `Zero` for the embedder-failure marker (its row
is then flagged degraded), or absent.  Two `store_chunks` of one document are
each atomic; on Postgres their statements could interleave, which only matters
where activities overlap, and of those nothing is claimed (`collided`).  Ties
of `started_at` are ignored.  Extraction, shadow tree, statements and the raw
mirror write other tables and appear as the errors they may add.  The limit of
the repair, the NULL vectors of migration 025, contextual blurbs, titles and
project links are left out.  The lock is the Postgres advisory lock or, on
DuckDB, the in-process one together with the file lock of the engine; a
session lost while its process lives, which would free the Postgres lock
early, is not modelled.

### IngestWatch

One loop over one directory.  `status` is how the last ingest of each path
ended and `attempts` its count in the watch ledger (`Settled` for -1); `failed`
says whether the summary has counted a failure; `pc`, `left`, `todo`, `armed`
and `attempt` are the locals of the loop.  `tries`, `rounds`, `succeeded` and
`gaveUp` are histories that only properties read.

| code | model |
|---|---|
| `scan_watch_dir`, the loop over its files | `BeginPass`, `ScanFile`, `EndScan` |
| `_ingest_isolated` and `_record` | `Endings`, `Recorded` |
| `_heal_pass`: nothing armed, the cap, backoff and probe, the ingests | `NothingArmed`, `GiveUp`, `BackOff`, `ProbeFails`, `ProbeAnswers`, `HealFile`, `EndHeal` |
| the pass limit, the pause, the summary | `Pause`, `Return` |
| the task is cancelled | `Cancel` |
| the directory | `FileAppears`, `FileVanishes` |

Abstractions.  An ingest ends in success, an outage of the embedder, another
error or "skipped"; the loop turns an exception into an error.  Backoff times and the wording of the summary
are left out.  The model has the loop of `ingest-watch`; the projections it
drives are in `Projections`.

### CodebookRelease

`aggregate` is what a load of the version returns, `version` the number of its
events; a handler has a `copy` and the number of events `seen` in it.

| code | model |
|---|---|
| the methods of `CodebookVersion`, as guard and effect | `Legal`, `After` |
| `repository.get`, `save` with its version check | `Load`, `Store`, `UpToDate` |
| an exception of a guard or of the store | `Refuse` |
| `request_release`, and supersede, retire, propose of the service | `Call`, `Save` |
| `execute_release`: load and await, gate results, waivers, release | `Execute`, `Grade`, `Waive`, `Publish` |
| death of the process | `Crash` |

Abstractions.  One version with its releases; manifests, hashes and texts are
left out, a verdict is a pass or not.  The gate functions are pure: what they
say is chosen when the result is saved.  The one approver of a call is chosen
at each use, so the model has calls the code does not (one that signs waivers
and release differently).  Superseding and retiring have no caller in the
package and are modelled as operations of the service.

### ResearchCycle

`runs` holds the runs that the next call can meet, in the order they started:
those in progress, the newest one that has a row and those after it.  A call that
has read stands among them without a run; its start moves it to the end.  A run has its last checkpoint
(`saved`), all of its checkpoints (`past`), what its row holds (`row`: none, the
last one, or an earlier one) and three histories: the stages that have run for it
(`covered`), those that were blocked (`barred`), and the halt gates it went past
(`unheeded`).

| code | model |
|---|---|
| `_last_cycle_run` | `Anchor`, `Held`, `Calls` |
| `resume_point`, `stages_after` | `Resumable`, `ResumePoint`, `FirstOf` |
| `_start_run`: what it reads; `start_coding_run`; its catch-up | `Load`, `Loaded`; `Start`; `Open` |
| `_advance_stage`, `_abort_unavailable_stage` | `RunStage`, `Unavailable` |
| `seal`: the event, then the catch-up | `Checkpointed`, `Seal` |
| `gate_findings_for`, `_halted_gate`, `halt` | `Findings`, `First`, `LookAtGates` |
| `effective_halt_on` | `HaltSet` |
| modes in, on, out | `StopAfterOne`; `AskApproval`, `Deny`; `Unattended` |
| `cycle_complete`; `stop_coding_run` | `Complete`; `Stopping`, `Ends` |
| the research projection, and any other catch-up of the server or a tool | `Projected`, `CatchUp` |
| `on_checkpoint`, an UPDATE that compares nothing | `WriteBack` |
| death of the process, an exception | `Crash` |

Abstractions.  Stages are positions in the chain; what they do is a success or
an unavailable, and for the deductive one also a block.  Gates find any subset
of what they can find.  The order of rows by `started_at` is the order of
starts.  A catch-up may leave any rows as they were (`F`): an event it fails on is
dead-lettered and passed, and its reads are bounded.  A drain that is behind may
write an older checkpoint back over the row of the anchor, and a row that is
behind may hold any earlier checkpoint of its run, or none; which of them is
chosen when the row is read.  A run that is over is forgotten once a later one
has a row, for no call reads it again.  Mode and configured halts are chosen where
they are used.

### CodePromotion

`status` and `named` (promoted_version_id) are the columns of a proposal that
decide something; `versions` is the event log, `head` and `lost` what the
research projection has made of it; `call` holds the locals of each call.
`answered`, `refused`, `crashed` and the field `before` are histories that only
properties read.

| code | model |
|---|---|
| the last transaction of an inductive run | `Draft` |
| `_load_proposal` and the status check; `_existing_prototypes` | `Load`; `ReadRegistry`, `Registry` |
| no unit view, `duplicate_gate`, the blocked mark | `NoMembers`, `Duplicate`, `Block` |
| `_mint_version` | `Mint` |
| `_mark_proposal` with `from_status`, and no row marked | `Promotable`, `Mark`, `MarkMisses` |
| `codebook_promote`: the catch-up, then the answer; a catch-up that spends its 20 reads first | `CaughtUp`, `Return`; `ReturnBehind` |
| the research projection, and its dead letters | `Project` |
| death of the process, an exception of the store | `Crash` |

Abstractions.  Vectors and the threshold are a relation (`Alike`): calls use the
threshold of the configuration, as the tool does unless it is given another.  A
version is one event here; it is three in one save, and it is shown once all of
them are projected.  Catch-ups that overlap count as one projection, which
`Projections` justifies, except that a version one of them has failed on and
another has written stays `lost` in the model.  Codes that were written by hand
are left out: a gate that finds one of them only blocks.

## 3 The runs

Every bound below is a constant of the module; `None`, `Zero`, workers, rows
and texts are model values.  Symmetry is used in `queue_safety` (workers,
clients), `ledger_safety` (runners) and `release` (calls, releases), where only
safety is checked.

| run | shows | bounds |
|---|---|---|
| `queue_safety` | types; one active row per hash; exact retries; claims accounted; no forgotten lease; a lost claim stays lost; honest reports; only holders settle; a conflict answer only when a row of the hash has ended during the call | 2 workers, 2 clients, 1 hash, 2 rows, 2 attempts |
| `queue_fair` | the queue implements `WorkOrder`; every accepted row ends | 2 workers, one of which may stop or crash; 1 client; 2 rows |
| `queue_retry_loop` | *violation*: one attempt per pass | 1 worker, 1 row, 3 attempts |
| `proj_safety` | types; nothing passed over; settled in order; quiet means caught up; implements `Subscriptions` | 2 drainers of documents and 1 of embeds, 3 events, windows of 2, 2 batches, every event may fail |
| `proj_fair` | a documents loop serves every event it handles; research catch-ups follow the log, however many events fail | a loop and catch-ups, one projection at a time: windows of 3 and 4 events for documents, windows of 2 and 3 events for research |
| `proj_event_head` | *violation*: the embeds reach the event head | |
| `ledger_safety` | types; one run per content; completed is stored; a skip is served, or on Postgres its loss is on record; gaps are on record | 2 runners, 1 source, 3 contents (two chunks, one, none), 3 runs, both backends |
| `ledger_vectors` | *violation*: skipped content is whole | 1 runner, 1 content, 2 runs |
| `watch` | types; heal tries are bounded and used up before a file is given up; no outage is dropped; the heal set empties | 2 files, 2 heal attempts; sessions of no pass, of two and without end |
| `release` | types; events stay loadable; answers are honest; evidence is the call's own; implements `ReleaseLifecycle` | 2 calls, 2 releases, 2 gates of which 1 is required, 6 events |
| `cycle` | types; no stage skipped that was not blocked; of the halt gates a run looks at it passes the one it resumed from, at one place only, and no promotion; a call that reads the newest run's last checkpoint begins beyond it; a cycle started again completes | 4 stages, 2 calls at a time, any number one after the other, 2 runs remembered; halts at the floor alone or at all gates |
| `promotion` | types; versions accounted; alike versions only from calls that overlap, a projection that failed or a catch-up that ended behind; every proposal that is promoted again and again is decided | 2 proposals that are alike, 1 caller that goes on and 1 that may crash; 3 versions, and those of the caller that goes on |

**How the bounds act.**  `MaxRows` stops new enqueue calls once all rows are
inserted, and an insert that comes later waits; `MaxLog` stops writes; a
ledger without an absent row lets no run begin.  Retries, reads per catch-up
and chunks are bounded as in the code (`Caps`, `Passes`, `MaxParts`).

**Why the bounds are enough.**  Queue: two workers and two clients suffice for
every race between two parties, two rows for a worker that leaves one behind
and takes the next, two attempts for the first failure to return the row and
the second to end it.  Projections: a window shorter than the log makes a
drainer read twice, two batches make an event half written, and two drainers
of one checkpoint can overtake each other both ways; the proofs remove these
bounds.  Ledger: three runs are a failed ingest, one that heals or hides it
and one that asks; the contents share a text, change a chunk, drop a chunk and
plan none.  In `ledger_safety` a state constraint (`Bound`) keeps behaviours
in which two activities have overlapped on a source to two runs, because the
properties about stored rows claim nothing for such a source any more;
`OneRunPerContent` and `TypeOK` still cover them.  Watch: two files let one
inherit the count of the other, two attempts let a count be inherited before it
is spent.  Release: two calls race on one draft, the second release is there to
be left alone or to be proposed, and six events take a release from its request
over two results and a waiver to released and withdrawn; the proofs remove all
of these bounds.  Cycle: the three stages with gates and one before them; the
chain of six differs by two stages that raise none and passes as well (two
minutes); one call may overlap another, and the runs before count only through
their anchor.  `MaxRuns` keeps two runs, calls that have only read
included: a call overlaps another whose run has a row, or one with no run before
it.  Two calls that both go on from one older run need three and are left to the
proofs, which hold for any number.  Promotion: two calls race for one proposal or for two that are
alike, and three versions let a call crash after its mint and others follow; the
proofs remove these bounds.

**Deadlock.**  `CHECK_DEADLOCK FALSE` where the system may rest: a queue whose
rows have ended and whose workers have left, a log that is full.

**Fairness.**  `IngestQueue!Fairness` asks that the event loop runs the tasks
that are ready (weak fairness of each loop's own steps and of each heartbeat)
and that a lease without a live heartbeat ages.  Stops, crashes, cancels,
enqueues and failures are never required.  Worker `w1` of `queue_fair` is
never stopped, as the background task of a server that stays up;
nothing is asked of the other.  `FairSpec` of `Projections` asks the
same of the `Steady` drainers: a server task that stays up, or, for research,
whose loop no code starts, that catch-ups go on being called, which every tool
call does.  `proj_fair` lets fewer documents events fail in a row than a window
holds: a window of failing events is read for ever (the documents checkpoint
does not pass a failure), and no doc promises otherwise.  `FairSpec` of
`IngestWatch` asks that the loop goes on, which is one task that awaits its own
calls; cancelling it is never required.  `CalmSpec` of `MCResearchCycle` lets
anything happen until a time that may never come; from then on somebody starts
the cycle whenever no call is in progress, calls do not crash, no stage is
unavailable and nobody denies, but every gate may halt every run.  That is not
fairness the code provides: it is what its users do, and the property says that
the code needs no more.  `FairSpec` of `CodePromotion` is of the same kind:
somebody (`Steady`) goes on promoting what is proposed, in calls that do not
crash and find their members, and the projection goes on; the other callers may
stop, crash or race at any point.

## 4 The proofs

`tlapm` checks every theorem listed here from the definitions alone; the
assumptions are the named ASSUMEs of the modules (`QueueAssumption`,
`ProjectionAssumption`, `LedgerAssumption`, `NullAssumption`, `WatchAssumption`,
`ReleaseAssumption`, `CycleAssumption`, `NoneAssumption` and
`PromotionAssumption`): finite bounds are naturals, caps are positive, `None` is
no real value, the drainer sets are disjoint, and the chain of the cycle is not
empty and has no stage twice, as the tuple `STAGES` (`research/cycle.py:64`).
TLC evaluates each of them.

**IngestQueueProofs.**
`TypeCorrect` splits `TypeOK` into table, loop, pass and client parts.
`RetriesAreBounded`, `ClaimsAreAccounted` and `OneActiveRowPerHash` rest on
one inductive invariant per row (`RowInv`) that ties attempts, cap, status,
holder and the claim history together: neither the cap nor the account is
inductive alone, because a reclaim is right only if the row it takes has
attempts left.  `LeasesAreKept` and `LostClaimsStayLost` come from one invariant,
inductive with `LossNoted` (a claim can be noted as lost only while its book
runs): a claim is the only step that hands a row to a worker, and a worker claims
only between books.  `TerminalRowsAreFinal` goes through the effect each worker
step has on the rows (`WorkerEffect`); `ReportsAreHonest` adds that a report gains
a row only in the step that takes it out of `running`, so two reports of one row
would need a terminal row to run again.  `OnlyTheHolderSettles` is a case split
over the ways a worker leaves its book, `ConflictsMeanTwinsEnded` needs that a
caller that reads again has met a row which had not ended when its call began
(`RereadInv`), that such a row stays in the table, and that ended rows stay ended
(`OverInv`).
In `QueueImplementsWorkOrder` each step is a step of `WorkOrder` or leaves its
variables alone.

**ProjectionsProofs.**
`ProjectionsTypeCorrect` includes that the event a drainer is on is one of the
batch it read.  `NoEventIsPassedOver` and `EventsSettleInOrder` are proved from
`InOrder`, their conjunction with two facts that make it inductive:
only handled events have rows or dead letters (`OnlyHandled`), and a drainer at
a part has written the parts before it, and one at the checkpoint write has
settled its event (`InWork`).  The point is that a checkpoint may move
backwards, and still only to an event whose predecessors are all settled.
`QuietCatchUpsAreDone` and `ProjectionsImplementSubscriptions` (every step
takes one event of a feed, with every wanted event before it taken, or stutters)
use the same invariant.

**IngestLedgerProofs.**
`TypeOK` is not inductive here: the vector a stage writes is the text its
content plans at the position of a row it was handed, and the positions come
from an earlier step.  `TypeInv` adds `TaskInv` (theorem `TasksCarryTheirRun`):
within the try block a runner has a run and a document, and what is left to
embed are chunks of its own content.  `LedgerTypeCorrect` is proved from it,
one lemma per group of variables.  `LockExcludes` rests on `LockHeld`: a
content's lock names a runner exactly while that runner is past it with that
content; a runner that leaves by any way out frees one lock, and it is its own.

**LedgerHonestyProofs.**  None of the three honesty properties is inductive: that
a completed run has stored its texts is decided when it passes the chunks, many
steps before the verdict, and only if no other activity has touched the source
since.  The invariant has three layers.  `OwnRuns`: rows are opened in the order
of their ids, and an open pipeline is the only one with its row.  `Alone`: a source
that is not in `collided` has one pipeline at most; its run is the newest, nobody is
deleting its document, and on Postgres the documents row has the hash of the
newest run, which is what the probe there reads.  `Texts` and `Vectors`: a run
past the chunks without an error has stored its texts; a row that lacks its
vector is one the run at work is still to write (`Due`), as long as all other
runs are clean; a repair in progress holds the text of each row it will
write.  Each layer is proved inductive with those below it, with one lemma per
group of actions, from lemmas on what a chunk write, a vector write and a
delete do to a source and that they leave the others alone.

**IngestWatchProofs.**  One inductive invariant (`WatchInv`) ties the counts of
the ledger to the heal rounds the session has made: a path may inherit the count
of another, so neither the bound on tries nor the round in which the set is given
up follows from a path's own count.  The remaining theorems are corollaries or
step lemmas of it.

**CodebookReleaseProofs.**  The argument turns on `CopyIsCurrent`: a handler
that has seen every event has the aggregate for its copy, and only such a
handler can save.  `StoreFacts` draws the consequence once: what is stored was
legal, and leaves released records alone.  `Busy` and `Evident` say what calls
in progress hold, `Untouched` that a release which is not there has nothing on
record, which the refinement needs when a release is opened.  All five theorems
follow from their conjunction `IInv`, with one lemma per action.

**CodePromotionProofs.**  `VersionsAccounted` needs `DecidedInv`, that a proposal
which is still proposed names nothing: otherwise a mark could take the name from
another version.  `DuplicatesOverlap` needs `AnsweredInv`: a call that has
caught up and returned has its version projected, so every call that reads the
registry later is shown it, or it is lost.  `NamesAreFinal` follows from `DecidedInv`.
`PromotionImplementsGrowth` hides the calls, the registry and the projection: a
mint is a step that adds a version, a mark one that names it, a block one that
overrules, and all else is a stutter.  It needs that a call is about a proposal
that is there (`DraftedInv`), and that `DecidedInv` holds when the mark lands.

**ResearchCycleProofs.**  The invariant (`CycleInv`) speaks of one run at a time:
what its checkpoints and its history say of each other.  The crux is that a resume
reads a row, and the row may hold any checkpoint of its run, so that what is
behind a run, as run or blocked, must be a whole prefix of the chain for each of
them: `Sound` says so of a checkpoint one can go on from, `SavedOK` of every one
of the run, and that the last one is exact.  `PlaceOK` ties them to the stage a
run in progress is at, and `GatesOK` says that the gate that is suppressed was
found at an earlier stage; since two stages share no gate but the escalation of
gray zones (`SharedGate`), nothing else can pass.  An action changes one run,
projects all, or reads one and starts another (`CallsSound`), and the runs that
are dropped (`Left`) are chosen by an increasing map of places, so `LeftFacts`
needs no induction.  `CallsResumeBeyond` needs the exact half of `SavedOK`, and
that the newest run is the anchor once its row is there; with a row that is
behind, or after a stage that was unavailable, what it says is false.

**Only model-checked.**  The liveness properties `EveryRowEnds`,
`LogIsFollowed`, `HealSettles`, `CycleCompletes` and `ProposalsEnd`:
liveness under fairness and ENABLED are beyond the prover.  Every safety property of
the passing runs is proved.  The statements of the violated runs are false.

## 5 What the runs found

Three statements of the repository that the program does not keep; each has a
run whose trace shows it.

1. `queue_retry_loop`.  "One drain pass gives each row one attempt"
   (`queue/worker.py:11-12`).  The claim compares `started_at` with the pass
   watermark, but only the first claim sets it (`queue/sql.py:73`): from its
   second pass on a failing book is claimed again at once.
2. `proj_event_head`.  Catch-ups advance the embeds "to the event head"
   (`projections/catchup.py:24`).  An own event without texts returns before
   its checkpoint write (`embed_projection.py:110`); a window of them is read
   for ever.
3. `ledger_vectors`.  A failed past run is healed by a re-ingest "instead of
   silently skipping" (`tools/ingest_store.py:161-165`).  After a crash between
   chunks and vectors the re-ingest sees unchanged chunks, embeds nothing and
   closes clean; the repair joins the vectors table and never finds them.

What else was met while modelling.  None of it has a run of its own; the
statements are quoted where the repository makes one.

* **Queue.**  The docstring of `reclaim_stale` says "attempts stays: a stale lease
  is a crash, not a counted failure" (`queue/store.py:153`); the statement counts
  it, as its comment (`queue/sql.py:102`) and `src/docs/ADMIN.md:253` say, and
  `ClaimsAccounted` follows the statement.  The error of a lost race says that the
  active row "was cancelled" (`queue/store.py:118`); a row that is done or failed
  ends it too.
* **Projections.**  Embeds that are ahead of the documents fail on the foreign
  key of `chunks`, are dead-lettered and passed, and nothing replays a dead
  letter, though `projections/_locks.py:33-35` counts on "the caller's DLQ/replay
  path".  `update_checkpoint` writes whatever it is given, so overlapping drainers
  move a checkpoint back (`NoEventIsPassedOver` proves that this loses nothing).
  A store error ends the documents loop for good while the other two sleep and go
  on (`documents_projection.py:109`).
* **Ledger.**  The probe "skips only content whose last run COMPLETED"
  (`tools/ingest_store.py:17-19`), but the one for Postgres takes any clean run of
  the hash (`ingest_sql_text.py:102`): after a failed last run, or for a second
  source of the same content whose run crashed, the content is skipped and
  its text is not there, though a failed past run "does NOT count as unchanged"
  (lines 161-165).  `SkipServedOrOnRecord` shows what is left of the promise on
  Postgres: the newest run of the source is open, failed or has errors.  Without
  that case it fails there.  Tombstoned rows "are leftovers of an earlier, larger chunking"
  (`tools/ingest_store.py:179-180`), but a document that shrinks and grows again
  keeps the tombstone on a chunk of its current text; a test
  (`src/tests/test_ingest_duckdb.py:336-347`) knows of the kept state.
* **Watch loop.**  "Returns an honest summary when ... the task cancelled"
  (`ingest_watch.py:214-216`), but a cancellation propagates and there is no
  summary.  A path leaves the heal set not only "on a successful re-ingest"
  (line 300): another error, a skip or a scan does it too.  With `--no-heal`
  failures are said to be never retried, and every pass ingests every file again.
  An unchanged file answers "skipped" on each later pass and is counted as
  failed.  A path may be reported as given up "after N attempts" that were those
  of another path.
* **Release.**  Nothing wires the release projector, although
  `research/release/service.py:20-22` and `deduction_guard.py:5-6` read its rows:
  no active release is ever found, so under enforcement = enforce every deductive
  run is blocked, and a cycle's proposals end as `no_active_release`.
  `request_release` says "idempotent by release_id" and raises on the second
  request.  Waivers and results of an execution that fails stay on the draft, and
  count for a later call and another approver.  The aggregate lets several
  releases of one version be released, the unique index of the read table one.
* **Cycle.**  A call that ends between sealing a stage and looking at its gates
  is resumed after the stage, so codes awaiting promotion halt nobody
  (`cycle.py:469-472`).  Of several gates that fire the first one is recorded:
  when it is drift, the resumed run goes on past a promotion that fired with it.
  After an `unreleased_draft` halt the next run goes on past the deductive stage
  that never ran, though `cycle_reads.py:67-69` halts "instead of marching past a
  stage that never ran": `NothingSkipped` counts a blocked stage as behind the run,
  and no other.  A gray
  zone that halted the inductive stage is suppressed at the deductive one,
  although `cycle.py:14-17` speaks of the same gate at the same checkpoint; since
  a resumed run starts after that checkpoint, another one is the only place where
  the suppression acts.  `seal` catches up so that the next call does not "re-run
  covered stages" (`cycle_render.py:100-101`), but stages do run again: after a stage
  that was unavailable (a deductive one without a codebook version,
  `cycle_stages.py:86-88`) `resume_point` starts from the first stage, and so do a
  crash before the first checkpoint and a call that overlaps an unfinished one; and
  a row on which the projection failed, or which another drain wrote back, sends
  the call to an earlier stage.  `ResumedBeyond` says only what is left when the
  row shows a checkpoint one can resume at.  Mode `in` after the last stage runs
  none.
* **Promotion.**  A call that loses the race answers "no second version was minted"
  (`promote_code.py:183`), but it has minted one before it tried to mark
  (`MarkMisses`), as the docstring of `_mark_proposal` knows; the version stays in
  the codebook, and no proposal names it.  A call that ends between the mint and
  the mark leaves one too, and the next promotion of the same proposal is blocked
  as a duplicate of it.  A late block overwrites "promoted" (line 138 asks for no
  status) and leaves the promoted version named.

## 6 What is left out

* Everything that is one transaction or a read: query side, tags, graph,
  classification, topics, notebooks.
* Data transformations: parsing, chunking strategies, ranking, prompts,
  formatting; they appear as constants (`Parts`) or as outcomes.
* Authorisation, tenancy isolation and SQL text.
* Overlapping activities on one source.  They are explored by TLC and typed,
  but the ledger promises nothing about them and neither do the properties:
  two ingests of one source with different contents mix their chunks, and a
  repair that overlaps a re-ingest writes the old text's vector.
* Deletes and re-ingests as seen by the projections.
* The release projector, keywords and rubric reviews of a codebook
  version; codes but for those that are promoted; the stages of the research cycle and the watch that re-arms it.
* The components with status `not_modelled` in `PROJECT.json`, each with its
  reason.

* Most of the code by size.  The package has some 130000 lines, the larger part
  of them registries, prompts, setup, SQL text, transport, ranking and analysis
  that keep no state between two steps.  A model of these would restate them.

## 7 The plan

Done: the queue, the projections and the ingest ledger, since a wrong lease, a
lost event and a wrong "completed" are the failures that would cost a user data
without a trace; then the watch loop, the release lifecycle, the research
cycle and code promotion, the four parts above them that keep state across failures.

Next, model:

1. `Commands`: the row store write, the best-effort event and the delete
   audit, composed with `Projections` to say what the read models hold after a
   delete or a re-ingest.
2. The composition of `ResearchCycle` with `CodePromotion` and `CodebookRelease`:
   a cycle that halts at the proposals of its inductive stage, goes on when they
   are promoted, and asks for a release of what they became.

Next, prove: every safety property the runs check is proved, and
each proof covers all values of the constants.  What would say more: abstract
specifications of the ledger and the cycle of the kind that the queue, the
projections, the release and promotion have, with their refinements.

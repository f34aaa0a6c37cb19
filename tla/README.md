# Formal models of the PDF generation service

TLA+ modules, TLC configurations and TLAPS proofs about the service in `src/pdf-service`: a client
posts a job of up to 100 documents, an API process records it, snapshots it and queues one task per
document, workers render the tasks with a pool of Chromium pages, and the client fetches a manifest
or a zip. The models are translated from the JavaScript; every definition is mapped to its lines in
`PROJECT.json`.

## The system

| Component | State it keeps | Operations | Talks to |
|---|---|---|---|
| API intake (`routes/jobs.js`, `jobs.js`) | the jobs row in Postgres | `POST /jobs`: validate, insert, snapshot, init counters, enqueue, promote | Postgres, S3, Redis, BullMQ |
| Queue (`queues.js`, BullMQ) | one task per document and lane: attempts, lock, stalls | `enqueueDocuments`; deliver, retry, stalled check | Redis |
| Worker (`worker.js`, `render/pipeline.js`) | slots, the per-process snapshot cache | `processTask`, `renderDocument` | all stores, the pool |
| Progress (`progress.js`) | Redis hash `job:{id}`, its `finalized` marker | init, increment, claim the finalize, flush, seed | Redis, Postgres |
| Ledger (`manifest.js`) | append-only rows in Postgres | append a rendered or an error row | Postgres |
| Page pool (`browserPool.js`) | Chromium, idle pages, two queues of waiters, the bulk counter | acquire, release, relaunch | puppeteer |
| Archive (`archive.js`) | Redis lock with a TTL, zip in S3 | `ensureArchive` | Redis, S3, the ledger |
| Delivery views (`delivery.js`, `GET` routes) | none | manifest, refresh, status poll | Postgres, Redis, S3 |
| Client (`scenarios/client`) | the job id, the files | trigger, poll, fetch the manifest, download and verify | the API, S3, the mock ERP |
| Rendering (`render/*.js`) | none | template, chunking, merge, stamp | a page |
| Validation (`validation.js`) | none | `validateJobRequest` against the field limits | - |
| Migrations (`migrate.js`) | `schema_migrations`, the schema, roles and grants | connect, apply the files, reconcile roles and grants, at every boot of the API | Postgres |
| Recovery (`scenarios/chaos_flush_redis.js`) | none | after a Redis flush: seed the counters from the ledger, add the missing tasks | the API, Redis, BullMQ |
| Mock ERP (`mock-erp`) | entities | list, PUT | HTTP |
| Other scripts, scenarios | none | harnesses of the service | HTTP |

What is hard here: nothing is transactional across Postgres, S3 and Redis, so every intermediate
point of a handler may be the last one; BullMQ delivers at least once, so every step of a task may
be repeated, also while the first delivery still runs; several processes race for one finalize, one
idempotency key, one archive; Node runs one callback at a time, but every `await` lets other tasks
change the pool. What makes each part correct:

- intake: a key creates one job; a queued job has its snapshot and all its tasks; a job that was
  refused renders nothing;
- worker and progress: no document is dropped, the terminal row says what the ledger holds, the
  status only moves forward, a job ends;
- ledger: a rendered row is backed by a stored artifact;
- pool: no page in two hands, N pages, bulk below its cap, singles first, no waiter forgotten;
- archive: one builder, built once, every request answered;
- rendering: either strategy gives the same pages, with every item once;
- validation: exactly the documents that fit the layout are accepted, and a refusal names every
  faulty document;
- delivery: a poll never counts what the ledger has not; a verified file shows the data that was
  submitted; the latest hash of a document is that of its stored artifact;
- migrations: each file takes effect once, in order; no replica listens on a schema or grants that
  are not those of its image; the ledger is append-only for the runtime roles all the while;
- recovery: after a flush no document is lost or rendered twice, and the job ends.

## The modules

| Module | Models | Checked by | Proofs |
|---|---|---|---|
| `RenderJob` | one job from POST to its terminal row | `job_*` | `RenderJobProofs` |
| `JobIntake`, refining `KeyedCreate` | concurrent POSTs on shared keys | `intake_faults` | `JobIntakeProofs` |
| `BrowserPool` | the page pool of a worker process | `pool_*` | `BrowserPoolProofs` |
| `Archive`, refining `BuildOnce` | concurrent archive requests | `archive_*` | `ArchiveProofs` |
| `Delivery` (extends `RenderJob`) | the bytes and hashes of a job, the ERP, the client that downloads | `delivery` | `DeliveryProofs` |
| `FlushRecovery` (extends `RenderJob`) | GET /jobs/:id, a Redis flush and the recovery by hand | `job_flush` | `FlushRecoveryProofs` |
| `Migrations`, refining `MigrationLog` | replicas that boot together; the append-only proof | `migrations` | `MigrationsProofs` |
| `ChunkedRender` | how a document is cut into chunks and sheets, merged and stamped | `render_chunks` | `DocumentsProofs` |
| `Validation`, `Payloads` | validateJobRequest; the bodies of the verification suite | `render_chunks` | `DocumentsProofs` |
| `Documents` (extends `Validation` and `ChunkedRender`) | a request validated, then one of its documents rendered | `render_chunks` | `DocumentsProofs` |

`MC*` modules hold the instances' model values.

**RenderJob.** The variables are the stores and the control state: `api`/`tries` (where the handler
is), `row` and `ledger` (Postgres), `bucket` (S3), `tasks` (BullMQ), `keys` and `live` (Redis
progress), `cache` (the snapshot promise of each process), `pc`, `doc`, `cnt`, `verdict` (each
slot). Each action is one awaited call of the handler or of `processTask`; a call may fail with or
without having taken effect. BullMQ is external: `Take`, `Settle`, `LoseLock`, `StalledCheck` model
what `queues.js` and `worker.js` rely on (a lock per active task, `attempts: 5`, one stalled
recovery). A slot that lost its lock goes on running, as the code does. The Redis client of `redis.js`
has no limit of retries and sends again what was unanswered when its connection dropped
(`ReplyLost`): an HINCRBY may count twice and return normally, a SET NX may find the marker it has
set itself. `resent` is a history variable, the increments that were sent again.

**JobIntake.** Here the job's later life is cut away and the requests are many: `rows` (status per
creator), `intake` (the calls that took effect), `pc`, `job`, `reply`. `Insert` is
`ON CONFLICT DO NOTHING`, `Select` the replay. `Reject` models an important detail: the UPDATE to
`failed` in the catch blocks is unguarded, so its own failure ends the process and everything it
serves (`Die`). `KeyedCreate` is the promise: two actions, create a job under a free key, answer
with the job of one's key.

**BrowserPool.** An action is the code between two awaits, and `Dispatch` ends each one that calls
`_dispatch`. Pages are identities, so that a page of a dead Chromium in somebody's hands is told
from a new one. `all` is a set because only its size and membership are used. `launch`/`opened` are
the relaunch in flight; tasks that joined it are at `relaunch`. `Shutdown` is `close()`, which comes
when every task has ended (`worker.js` closes its queues first): with waiters that a failed relaunch
left behind it never comes.

**Archive.** One action per awaited call, and `Tick` for time: the lock lives `TTL` ticks, a waiter
waits `WaitMax`, and a build may take any time. A SET NX or a DEL may be sent again; the second DEL
(`UnlockAgain`) may take the lock of the next request. `late` is a history variable: a request lost
its lock while it relied on it. `BuildOnce` is the promise: begin only when there is no zip, and no
builder either until a lock was lost; finish or abort; redirect to a stored zip.

**ChunkedRender.** The two strategies of `render/` as one sequential machine: `Select` chooses,
`PrintAll` or `PrintChunk` print sheets, `Merge` appends the chunks' pages, `Stamp` numbers them,
`Restart` is BullMQ's retry. A page is the record of what a reader can tell: rows with their line
numbers, header, total (as the set of items it sums), footer. `Page` in the properties is the
reference definition, written from the item numbers alone, without slices.

**Validation, Documents.** A text is its length, an address the lengths of its lines, a problem its
field and kind. `CheckRequest` and `CheckDocument` are the two halves of `validateJobRequest`, with
the map of the ids it has seen; `ValidateDocument` collects all problems of one document. A currency
is tested as a text, whatever it is (`HasCodeText`). `Documents`
lets a worker render one document of a valid request, so that what `ChunkedRender` prints is what
validation let through. `Payloads` are the bodies of `scenarios/phase2/gen.js` in these terms.

**Delivery.** `RenderJob` with what it leaves out: each rendering prints bytes (`printed`, a version
of the data and a print number: two prints of one document never have the same bytes), `PutBytes`
stores them, `AppendBytes` records their hash. Every action of `RenderJob` is conjoined with what it
does to the bytes, so a behaviour of `Delivery` is one of `RenderJob`. The client is
`scenarios/stale-data/run.js` with `client/trigger.js` and `client/download.js`: it resets an entity
in the mock ERP, lists and posts, changes the entity, polls, fetches the manifest, downloads.
`torn` is a history variable: documents with an upload that was cut off or overlapped another one.

**FlushRecovery.** `RenderJob` with the operator of `scenarios/chaos_flush_redis.js`. A poll is two
steps (`PollRow`, then the answer when the hash is read: `Answer`), and the job goes on between
them. `Flush` takes tasks, counters and marker; `Grace` waits for the slots; `Seed` is
`progress.seed` with the counts of the manifest; `EnqueueMissing` is `enqueueDocuments` with
`indexes`. The script ends with an exception when the manifest it fetched has no rendered document
(`FetchManifest`), and the job is then left where the flush put it.

**Migrations.** One action per statement of a replica. A file is a transaction (`RunSql`,
`RecordFile`, `CommitFile`); `RecordFile` waits for another transaction that holds the same name, as
the primary key makes it. The roles and grants are a sequence of statements (`Reconciliation`) that
commit one by one; Postgres fails one of two that change the same catalog row
(`ConflictingRoles`), also when one of them is the ALTER TABLE of file 002 or 003, whose open
transaction the other waits for (`Altered`, `CommitFile`). The privileges are those PostgreSQL can
grant to a role on the kind of object; grants to PUBLIC are left out. `MigrationLog` is the promise: files take effect in order, each in the step
that records it. `ProveAppendOnly` is `scripts/prove-append-only.js`, running beside further boots.

## The runs

| Run | Shows |
|---|---|
| `job_faults` | 2 documents, 2 attempts, any 2 failures of 9 kinds: `TypeOK`, `ReadyWhenPromoted`, `NothingRenderedUnlessPromoted`, `RenderedRowHasArtifact`, `AckedTaskIsAccounted`, `CountsBackedByLedger`, `StatusNeverRegresses` |
| `job_flush` | 3 documents (one unrenderable), 2 slots, one failed upload, a Redis flush once one document is accounted for: the job ends unless nothing was rendered when the script looked (`TerminalOrNothingRendered`), the terminal row agrees with the ledger (`TerminalMatchesLedger`), a poll is truthful between its two reads (`PollTruthful`), nothing is lost or done twice (`RecoveredExactly`) |
| `delivery` | 2 documents (one unrenderable), 2 slots in 2 processes, one failure (API or worker death, upload, lock, a Redis command sent again): `FilesAreFrozen`, `SealedAtRest`, `RefusedMeansRedone`, `ClientFinishes` |
| `intake_faults` | 3 requests on one key, one keyless, one invalid, 2 failures: `KeyCreatesOnce`, `CreatorDrives`, `ReplyTellsTheRow`, `NeverServerError` |
| `pool_faults` | 2 pages, one reserved, 2 single and 2 bulk tasks, 2 failures: `InFlightExact`, `NoPageShared`, `NoPageLost`, `SinglesFirst`, `EveryoneServed` |
| `archive_faults` | 3 requests on 2 API processes, 3 failures: `BuiltOnce`, `Answered` |
| `render_chunks` | about 200 request bodies around every limit, then all documents of 1-13 items, 1-4 rows a page, chunk sizes 0-9, thresholds 0 and 6, with retries: `ContractDecides`, `EveryFaultNamed`, `Equivalent` (both strategies give the reference pages), `ColumnsHold` |
| `migrations` | 2 new replicas and an old one, 2 files, drifted grants, one failure, one restart: `MigratesInOrder`, `ServingIsLocked`, `ProofPasses`, `SomeoneServes` |

Four runs show where a document or a comment of the repository says more than the code does; each
stops at a counterexample and is a finding in `PROJECT.json`:

| Run | What happens |
|---|---|
| `job_release_fault` | a page release that throws after the counter was incremented gets a counted document retried: `completed`, with another document missing |
| `job_snapshot_fault` | a failed snapshot read stays cached as a rejected promise: every retry in that process fails |
| `pool_relaunch_fails` | a relaunch that fails with nobody holding a page leaves the waiters queued for ever |
| `archive_crash` | waiters give up after 60 s; the crashed builder's lock lives up to 300 s |

The passing runs show more disagreements, in that their properties hold only as restricted:

- The death of the worker that won the finalize marker, before it has flushed the row, strands the
  job: the redelivered task loses SET NX to its own marker (`progress.js:89`); a SET NX that is sent
  again strands it the same way. `ClientFinishes` in `delivery` names that state
  (`FinalizeAbandoned`) as the only one in which the client waits for ever; without that disjunct the
  run fails on it.
- An HINCRBY that is sent again counts its document twice (`progress.js:53`), so a job can complete
  with another document missing, as in `job_release_fault`. `CountsBackedByLedger` allows for those
  increments and no others.
- Once a replacement of a page failed in a live browser, the single tasks, of which `worker.js:97-100`
  runs as many as the pool has pages, can pass the remaining pages on among themselves for ever
  (`browserPool.js:116-119`): `EveryoneServed` promises a bulk task a page only while no
  replacement failed, and a single one while a page is left.
- A build that outlives its lock, or a DEL that is sent again, lets a second builder in, against
  `archive.js:12` "a single builder per job". `BuildOnce` has one builder until then.
- `CURRENCY_RE.test` (`validation.js:93`) converts its argument to a text, so the currency `["USD"]`
  is accepted, against `docs/api.md:54`; `Acceptable` reads a currency by its text.
- The REVOKEs of `migrate.js:102-113` name neither REFERENCES nor TRIGGER, so a role that was granted
  them on a table keeps them, against `docs/phase-1.md:20-24`; `ServingIsLocked` excepts these two
  (`Leftover`).

**Bounds.** Two slots in two processes are what a race for the finalize, a redelivery alongside a
running delivery, and a shared or unshared snapshot cache need; a third document makes the last two
increments and the first claim distinct. Two failures cover a failure and the failure of its
handling. In the pool, two reach a dead browser whose relaunch fails, a page lost under a dying browser, and
the loss of both pages; two single tasks are as many as pages, so that they can keep a bulk task out.
`MaxAttempts` is 2 or 3 instead of 5 in the passing runs so that exhaustion happens. `TTL = 2`,
`WaitMax = 1` keep the code's order (the wait ends before the lock does); `archive_crash` uses 5 and
1 for the code's ratio of 300 s to 60 s. `MCPages` has enough identities that a stale page is never
reused while somebody holds it. In `render_chunks` a chunk size may be 0, below, equal to, above or
off a multiple of the rows per page, with up to 13 chunks and a partial last chunk and sheet; the
bodies take each length, count and amount at its limit and one beyond, the money limits in thousands
(TLC's integers have 32 bits), and at most 4 documents instead of 100. `job_flush` needs the third
document so that one is done, one in flight and one waiting when Redis is flushed; the flush comes
while some document still waits, as the script's 40 of 100 makes sure (in the window where the last
documents are finalized a flush lets the row get counts of 0). `delivery` has one failure, since two
renderings of one document need no more, and one download retry instead of two. `migrations` needs
three replicas for a race of two beside one that listens, and two files for an old image and a
partial schema. The theorems below have none of these bounds.

**Fairness.** Weak, on: the handler's steps (`ApiStep`), each slot (`SlotStep`), the delivery of
some waiting task (`Deliver`), the stalled check, the steps of a release, the relaunch, the steps
of an archive request, time, the operator's next step (the script runs to its end), the boot of each
replica. In `job_flush` and `delivery` one weaker condition stands for those of the job: the service
(in `delivery`, the service or the client) does not stop altogether while it can go on. Event loops
keep running, puppeteer calls time out, BullMQ polls and sweeps. Calls to Postgres and S3 settle
(their clients time out or are cut off); those to Redis wait and are sent again until Redis is back,
so fairness assumes that it comes back. In `BrowserPool`, that a task in `using`
starts its release says that rendering ends. No fault is ever required to happen or to stop; the
fault budget is finite because a system that keeps failing never ends. `PromptApi` is TRUE where
liveness is checked: the first retry comes after 500 ms, and the handler's remaining two calls are
assumed shorter; when they are not, the attempts may run out while the job is pending, which
`docs/queueing.md` (35-50) documents. `Acquire` has no fairness: nobody must ask for a page.

**Deadlock** is not checked: every system here really stops. A job ends, every request is answered, the
client has its files, replicas listen, and under launch failures the pool wedges
(`pool_relaunch_fails`). That nothing stops too early is what `TerminalOrNothingRendered`, `ClientFinishes`,
`Answered`, `EveryoneServed` and `SomeoneServes` say.

## What is proved

For every number of documents, slots, processes, tasks, pages, requests, replicas, line items,
settings, attempts and failures. The assumptions are the named ASSUMEs of each module; beside bounds
on the constants they say that a job has finitely many documents (the request holds at most 100), and
what a JSON body can hold: what passes `Array.isArray` is a sequence, a string has a length, and
prices and quantities are whole numbers (of the smallest unit). Each safety property below is an invariant or an
action property that some run checks as well; none of them is inductive alone, so each rests on a
stronger invariant, and TLC checked those on the runs' instances before they were proved.

- `RenderJobProofs`: the inductive invariant `IInv`, from it `TypeOK`, `ReadyWhenPromoted`,
  `NothingRenderedUnlessPromoted`, `RenderedRowHasArtifact`, `AckedTaskIsAccounted` and
  `StatusNeverRegresses`. `IntakeInv` ties the handler's place to what it made durable;
  `AdmissionInv` says that no slot passes the guard before promotion; `FinalizeInv` that one slot
  flushes, while the row is `processing` (this is what keeps a terminal row from being written
  again); `DeliveryInv` that a delivery which leaves the pipeline normally has its ledger row.
  `CountsBackedByLedger` is about cardinalities, and its invariant `Backed` counts ahead: a counter
  and the slots that have written their row and not yet counted it are together at most the rows and
  the increments that were sent again.
  `NoDocumentForgotten` is the safety half of `EventuallyTerminal` (which `job_snapshot_fault` refutes,
  and `TerminalOrNothingRendered` states across a flush): in a promoted job that is not over
  a document without a row has a waiting task, a slot at work on it, or a task without a lock, which
  the stalled check finds; a failed task has spent its attempts or its stalls. It rests on
  `OwnersWork`: the slot a task is locked for is at work, and on that document.
- `FlushRecoveryProofs`: `TerminalMatchesLedger`, `PollTruthful` and `RecoveredExactly`, under
  `Gentle`: the only calls that fail are uploads, as in `job_flush` (any number of them; with a page
  release that throws the first is false, which is the finding of `job_release_fault`). The invariant
  `FlushInv`: a document is in one pair of hands, also when the flush takes the tasks from under the
  deliveries (`Hands`); it has no row until its delivery is past the append, and one from then on
  (`Once`); the marker is claimed only once every document is written and counted (`Ends`); what the
  operator read of the manifest stays true until it has acted on it (`Read`). The flush keeps it
  because some document is then in nobody's hands, so nobody is finalizing.
  The other half has no hypothesis: with failures of every kind, any number of them, a document can
  have several rows or none, yet `CountsBackedAcrossFlush` (neither a counter nor the job row is ahead
  of the ledger but by increments that were sent again), `PollsNeverAhead` (nor is an answer of
  `GET /jobs/:id`, read in two steps),
  `FinishedStaysAlone` and `FinishedNotRedone` (what the manifest had is not given to anyone or
  written again). The invariant `BoundedInv`: from the flush to the re-enqueue there are no tasks, and
  after the grace period no deliveries, so nothing moves and the manifest stays true; the counters
  seeded from it are at most the rows, since each document has its latest row.
- `JobIntakeProofs`: `TypeCorrect`, `KeyedCreateRefined` (POST /jobs implements `KeyedCreate`),
  `OnlyTheCreatorDrives`, `RepliesTellTheRow`, `RacesAreNotErrors`. The invariant says that a request
  drives its own pending row and nobody else's, that a request at the replay has a key, and that an
  answered request's job carries its key; each step is then a `Create`, an `Answer` or a stutter.
- `BrowserPoolProofs`: `TypeOK`, `InFlightExact`, `NoPageShared`, `SinglesFirst`, `NoPageLost`. The
  central fact is about `Dispatch`, by itself: from queues without repetition and pages in one place
  each it serves as many tasks as it takes pages, and leaves a single task waiting only when no page
  is left. `PoolInv` carries these lanes through every action: each task is in exactly one of the
  two queues, using, releasing or out. `NoPageLost` needs `Whole` besides: a page of the pool that is
  neither idle nor in a hand is one of the replacements that failed, and a relaunch in flight has a
  task that waits for it. `WaitersAreNotForgotten` is the safety half of `EveryoneServed`: while
  relaunches succeed, a page is left and, for a bulk task, the reservation leaves that lane one, a
  waiting task has another one at work, releasing, or waiting for the relaunch. The pool dispatches only when a page comes back, so this says that every
  waiting task has a page to wait for (`Conserving`: pages and tasks in flight add up; `Counted`:
  what `bulkInFlight` counts is such a task).
- `ArchiveProofs`: `TypeCorrect` and `ArchiveBuildsOnce` (the handler implements `BuildOnce`, with no
  assumption on the time a build takes). The invariant `LockInv` says that until a request loses its
  lock one request is in the critical section and the lock lives as long as it is there, and that
  whoever answers has seen the zip or stored it; each step is then a `Begin`, a `Finish`, an `Abort`
  of some builders, a `Serve`, a lost lock or a stutter.
- `DeliveryProofs`: `DeliveryIsRenderJob` (every step of `Delivery` is one of `RenderJob`, or none: the
  theorems about jobs hold with the bytes and the client added), `DeliveryTypeOK`, `FilesAreFrozen`,
  `SealedAtRest`, `RefusedMeansRedone`. One invariant follows the posted data from the snapshot
  through the PDF in hand, the ledger row and the manifest to the file, and needs that nothing is
  delivered before the POST. The other, `KeptInv`, follows the prints: every copy of a document's
  bytes is one of the prints made so far, so two that differ mean a second print; and a delivery
  that is about to append holds what is stored, unless the document is torn.
- `MigrationsProofs`: `MigrationLogRefined` (`MigratesInOrder`, for any replicas, files and images),
  `ServesMigrated`, `TypeOK`, `ServingIsLocked`, `ProofPasses`. The first invariant says what an old
  reading of `schema_migrations` is worth: a file that is not on a replica's list is recorded, so an
  unrecorded head of a list is the file that comes next, and only one transaction at a time holds it.
  For the grants, no statement of `Reconciliation` undoes the effect of another (`NothingUndone`);
  so a replica at statement n has all statements before n in effect (`RoleInv`) whoever else is
  reconciling, and one that listens has all of them. The privileges a database may have before are
  those PostgreSQL can grant on that kind of object (`Grants`). `DriftInv`: a role holds on a table only
  what the reconciliation grants and what it had before, so what `ServingIsLocked` excepts is no more
  than REFERENCES and TRIGGER.
- `DocumentsProofs`: `Equivalent` and `TypeOK` of the renderer, for any counts and settings, and that
  `Documents` implements it (`DocumentsRender`). A chunk is a whole number of sheets (`WholeSheets`),
  so chunk i has the pages after those of the chunks before it (`ChunkIs`), and `RenderInv` says what
  part of the reference pages is printed or merged so far. `EveryFaultNamed` follows the loop of
  `validateJobRequest`: after document i, `seenIds` has the first index of every id up to i, and the
  errors are those of the documents up to i (`ChecksInv`). `ColumnsHold` joins the two: only a
  valid job is rendered, it was validated line by line, and a page shows its lines and the total
  of all of them. For `ContractDecides` the sums of the code and those of the written contract are
  compared: both are sums over a set of lines, and they are numbers by well-founded induction on
  that set. The empty request, the duplicate id and every limit then fall to one of the two sides.

Only model-checked:

- liveness (`TerminalOrNothingRendered`, `ClientFinishes`, `EveryoneServed`, `Answered`, `SomeoneServes`) and
  the findings' counterexamples: the prover does not do fairness.

Every invariant, action property and refinement that a passing run checks is a theorem. Three of them
(`TerminalMatchesLedger`, `PollTruthful`, `RecoveredExactly`) are so under `Gentle`: with other failures
a terminal row need not be the ledger's (`job_release_fault`), and they are not claimed.

## What is not modelled

- The store adapters (`s3.js`, `db.js`, `redis.js`): single calls in the modules that use them.
- Configuration, logging, the wiring of `app.js`; the shutdown of the API, which drains or cuts off its
  requests like the deaths that are modelled.
- The scripts and scenarios that load or measure the service (`stress_*`, `oom_probe`,
  `chaos_kill_chromium`, `matrix`) and the proofs about HTML and PDF text (`prove-injection`,
  `prove-no-truncation`, `prove-equivalence`): no state of their own.
- HTML, escaping, fonts, glyph widths and whether a sheet fits its page. An address of 75 characters
  in three lines can wrap to more than the three lines of its box, where `template.js` clips; the
  model has no widths.
- Entries of the zip (one step), expiry of presigned URLs, the 24 h expiry of the Redis keys, the
  script's 180 s limit on the recovery.
- The API of the mock ERP beyond list and PUT.

Behaviours the models contain and no run singles out are noted with their hazards in `PROJECT.json`:
the pool with more than N pages after a release during a relaunch, N-k+1 bulk pages in hand while one
is reset (only with more bulk tasks than `worker.js` runs), the page given up when `newPage` fails,
the 201 answer with a pending row, a latest
hash that stays wrong after two overlapping uploads, replicas that lose a boot race and exit.

## Plan

Modelled, checked and proved: all of the above. What is left:

1. An archive builder, a delivery and a job composed in one model, so that what a zip holds is tied to
   the rows of the job rather than to a job given as terminal.
2. Prices with fractions of the smallest unit, and the rounding of their sums: the models have whole
   numbers.

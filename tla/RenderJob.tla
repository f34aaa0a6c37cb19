----------------------------- MODULE RenderJob -----------------------------
(***************************************************************************)
(* The life of ONE render job of the PDF service, from POST /jobs to its   *)
(* terminal status:                                                        *)
(*                                                                         *)
(*   - the API handler (routes/jobs.js), one step per call it awaits;      *)
(*   - the BullMQ task of each document (queues.js): delivery, retry,      *)
(*     the stalled-task check;                                             *)
(*   - the worker slots (worker.js, render/pipeline.js), one step per      *)
(*     store call of processTask, interleaved in any order;                *)
(*   - the stores they share: the jobs row and the append-only ledger in   *)
(*     Postgres, the snapshot and the artifacts in S3, the progress hash   *)
(*     and the finalize marker in Redis.                                   *)
(*                                                                         *)
(* A call that fails may or may not have taken effect.  A Redis command    *)
(* whose connection drops does not fail: the client sends it again, so it  *)
(* may run twice and return normally.  The failures a behaviour may        *)
(* contain are those whose kind is in Faults, at most MaxFaults in all.    *)
(***************************************************************************)
EXTENDS Naturals, Sequences, FiniteSets

CONSTANTS
  Docs,             \* the documents of the job (its document indexes)
  Unrenderable,     \* those whose data makes the renderer throw
  Slots,            \* concurrent processors of the BullMQ workers
  Procs,            \* worker processes
  Host,             \* the process each slot runs in
  MaxAttempts,      \* BullMQ attempts of a task (queues.js: 5)
  MaxStalls,        \* BullMQ maxStalledCount (library default: 1)
  EnqueueAttempts,  \* addBulk attempts (queues.js: 3)
  PromptApi,        \* TRUE: the first retry backoff outlasts the queued flip
  Faults,           \* kinds of failure that may happen
  MaxFaults,        \* bound on the number of failures
  NoDoc, NoSlot     \* null values

FaultKinds == {"api", "postgres", "snapshot", "artifact", "redis",
               "resend", "browser", "worker", "lock"}

SnapshotKey == "snapshot"

ASSUME DocsAssumption == /\ IsFiniteSet(Docs) /\ NoDoc \notin Docs /\ SnapshotKey \notin Docs
                         /\ Unrenderable \subseteq Docs
ASSUME SlotsAssumption == NoSlot \notin Slots /\ Host \in [Slots -> Procs]
ASSUME BoundsAssumption == /\ MaxAttempts \in Nat \ {0}
                           /\ EnqueueAttempts \in Nat \ {0}
                           /\ MaxStalls \in Nat
                           /\ MaxFaults \in Nat
ASSUME FaultsAssumption == Faults \subseteq FaultKinds /\ PromptApi \in BOOLEAN

VARIABLES
  api,       \* where the POST handler is
  tries,     \* addBulk attempts that failed
  row,       \* the jobs row: status and flushed counters
  ledger,    \* manifest_entries of each document, oldest first
  bucket,    \* S3 objects: the snapshot, and artifacts named by document
  tasks,     \* the BullMQ task of each document
  keys,      \* Redis keys of the job: the progress hash, the finalize marker
  live,      \* the counters in the progress hash, zero while it is absent
  cache,     \* the snapshot cache of each worker process
  pc,        \* where each slot is in processTask
  doc,       \* the document each slot works on
  cnt,       \* the counters a slot last read from the hash
  verdict,   \* the terminal status a slot decided on
  faults,    \* failures so far
  resent     \* increments Redis ran whose reply was lost (history, for the properties)

apiVars  == <<api, tries>>
pgVars   == <<row, ledger>>
rdVars   == <<tasks, keys, live>>
slotVars == <<pc, doc, cnt, verdict>>
faultVars == <<faults, resent>>
vars     == <<apiVars, pgVars, bucket, rdVars, cache, slotVars, faultVars>>

-----------------------------------------------------------------------------
(* Data.                                                                   *)

Finals   == {"completed", "completed_with_errors", "failed"}
Statuses == {"none", "pending", "queued", "processing"} \union Finals
Outcomes == {"rendered", "error"}

ApiLabels  == {"insert", "snapshot", "init", "enqueue", "promote", "reject",
               "done", "dead"}
Rendering  == {"render", "put", "append", "incCompleted"}
Sealing    == {"appendError", "incFailed"}
Closing    == {"release", "releaseRaised"}
Claiming   == {"claimRead", "claimSet"}
Flushing   == {"flushRead", "flushRow", "flushDel"}
SlotLabels == {"idle", "readRow", "mark", "snapshot", "ack", "raise"}
                \union Rendering \union Sealing \union Closing
                \union Claiming \union Flushing

Counters   == [completed : Nat, failed : Nat]
Zero       == [completed |-> 0, failed |-> 0]
TaskStates == {"absent", "waiting", "active", "completed", "failed"}
Tasks      == [state : TaskStates, attempts : 0..MaxAttempts, stalls : 0..(MaxStalls + 1),
               owner : Slots \union {NoSlot}]
\* A task that may still be delivered is below its bounds; only an active
\* one is locked.
GoodTasks  == {t \in Tasks :
                 /\ t.state \in {"waiting", "active"} =>
                      t.attempts < MaxAttempts /\ t.stalls <= MaxStalls
                 /\ t.owner # NoSlot => t.state = "active"}
AbsentTask == [state |-> "absent", attempts |-> 0, stalls |-> 0, owner |-> NoSlot]
NewTask    == [AbsentTask EXCEPT !.state = "waiting"]
RedisKeys  == {"progress", "finalized"}

Total == Cardinality(Docs)

TerminalStatus(c) ==
  IF c.completed = 0 THEN "failed"
  ELSE IF c.failed > 0 THEN "completed_with_errors" ELSE "completed"

TypeOK ==
  /\ api \in ApiLabels
  /\ tries \in 0..EnqueueAttempts
  /\ row \in [status : Statuses, completed : Nat, failed : Nat]
  /\ ledger \in [Docs -> Seq(Outcomes)]
  /\ bucket \subseteq Docs \union {SnapshotKey}
  /\ tasks \in [Docs -> GoodTasks]
  /\ keys \subseteq RedisKeys
  /\ live \in Counters
  /\ cache \in [Procs -> {"empty", "loaded", "rejected"}]
  /\ pc \in [Slots -> SlotLabels]
  /\ doc \in [Slots -> Docs \union {NoDoc}]
  /\ \A s \in Slots : pc[s] # "idle" => doc[s] \in Docs
  /\ cnt \in [Slots -> Counters]
  /\ verdict \in [Slots -> Finals]
  /\ faults \in 0..MaxFaults
  /\ resent \in Counters

Init ==
  /\ api = "insert" /\ tries = 0
  /\ row = [status |-> "none", completed |-> 0, failed |-> 0]
  /\ ledger = [d \in Docs |-> <<>>]
  /\ bucket = {}
  /\ tasks = [d \in Docs |-> AbsentTask]
  /\ keys = {} /\ live = Zero
  /\ cache = [p \in Procs |-> "empty"]
  /\ pc = [s \in Slots |-> "idle"]
  /\ doc = [s \in Slots |-> NoDoc]
  /\ cnt = [s \in Slots |-> Zero]
  /\ verdict = [s \in Slots |-> "failed"]
  /\ faults = 0 /\ resent = Zero

\* One failure of the given kind happens in this step.
Happens(kind) == kind \in Faults /\ faults < MaxFaults /\ faults' = faults + 1
Fault(kind)   == Happens(kind) /\ UNCHANGED resent
NoFault       == UNCHANGED faultVars

-----------------------------------------------------------------------------
(* The POST /jobs handler.                                                 *)

ApiGoto(from, to) == api = from /\ api' = to

SetRow(status) == row' = [row EXCEPT !.status = status]

\* INSERT ... 'pending'; a failed insert answers 500, with or without the row.
InsertJob ==
  /\ \/ ApiGoto("insert", "snapshot") /\ NoFault /\ SetRow("pending")
     \/ /\ ApiGoto("insert", "done") /\ Fault("postgres")
        /\ SetRow("pending") \/ UNCHANGED row
  /\ UNCHANGED <<tries, ledger, bucket, rdVars, cache, slotVars>>

Store(key) == bucket' = bucket \union {key}

PutSnapshot ==
  /\ \/ ApiGoto("snapshot", "init") /\ NoFault /\ Store(SnapshotKey)
     \/ /\ ApiGoto("snapshot", "reject") /\ Fault("snapshot")
        /\ Store(SnapshotKey) \/ UNCHANGED bucket
  /\ UNCHANGED <<tries, pgVars, rdVars, cache, slotVars>>

WriteHash(c) == live' = c /\ keys' = keys \union {"progress"}

InitProgress ==
  /\ \/ ApiGoto("init", "enqueue") /\ NoFault /\ WriteHash(Zero)
     \/ /\ ApiGoto("init", "reject") /\ Fault("redis")
        /\ WriteHash(Zero) \/ UNCHANGED <<keys, live>>
  /\ UNCHANGED <<tries, pgVars, bucket, tasks, cache, slotVars>>

\* The task ids are deterministic, so adding a task that exists is a no-op.
Add(S) == tasks' = [d \in Docs |-> IF d \in S /\ tasks[d].state = "absent"
                                   THEN NewTask ELSE tasks[d]]

\* Mutant: the last addBulk failure is swallowed instead of rethrown.
EnqueueDocuments_Swallowed ==
  /\ \/ ApiGoto("enqueue", "promote") /\ NoFault /\ Add(Docs) /\ UNCHANGED tries
     \/ /\ api = "enqueue" /\ Fault("redis")
        /\ tries' = tries + 1
        /\ api' = IF tries' < EnqueueAttempts THEN "enqueue" ELSE "promote"
        /\ \E S \in SUBSET Docs : Add(S)
  /\ UNCHANGED <<pgVars, bucket, keys, live, cache, slotVars>>

\* addBulk; one that throws may have added any part of the tasks.
EnqueueDocuments ==
  /\ \/ ApiGoto("enqueue", "promote") /\ NoFault /\ Add(Docs) /\ UNCHANGED tries
     \/ /\ api = "enqueue" /\ Fault("redis")
        /\ tries' = tries + 1
        /\ api' = IF tries' < EnqueueAttempts THEN "enqueue" ELSE "reject"
        /\ \E S \in SUBSET Docs : Add(S)
  /\ UNCHANGED <<pgVars, bucket, keys, live, cache, slotVars>>

\* UPDATE status = 'queued'; its failure is only logged.
Promote ==
  /\ ApiGoto("promote", "done")
  /\ \/ NoFault /\ SetRow("queued")
     \/ Fault("postgres") /\ (SetRow("queued") \/ UNCHANGED row)
  /\ UNCHANGED <<tries, ledger, bucket, rdVars, cache, slotVars>>

\* UPDATE status = 'failed' after a failed intake step.  The UPDATE is not
\* guarded: its rejection is unhandled and ends the process.
Reject ==
  /\ \/ ApiGoto("reject", "done") /\ NoFault /\ SetRow("failed")
     \/ /\ ApiGoto("reject", "dead") /\ Fault("postgres")
        /\ SetRow("failed") \/ UNCHANGED row
  /\ UNCHANGED <<tries, ledger, bucket, rdVars, cache, slotVars>>

ApiStep == InsertJob \/ PutSnapshot \/ InitProgress \/ EnqueueDocuments
             \/ Promote \/ Reject

ApiCrash ==
  /\ api \notin {"done", "dead"} /\ api' = "dead" /\ Fault("api")
  /\ UNCHANGED <<tries, pgVars, bucket, rdVars, cache, slotVars>>

-----------------------------------------------------------------------------
(* processTask: the guard on the job row and the snapshot.                 *)

Goto(s, from, to) == pc[s] = from /\ pc' = [pc EXCEPT ![s] = to]

\* BullMQ hands a waiting task to an idle slot.  A retry comes after its
\* backoff, which under PromptApi outlasts the rest of the API handler.
Take(s, d) ==
  /\ Goto(s, "idle", "readRow")
  /\ tasks[d].state = "waiting"
  /\ PromptApi /\ tasks[d].attempts > 0 => api \notin {"enqueue", "promote"}
  /\ tasks' = [tasks EXCEPT ![d] = [@ EXCEPT !.state = "active", !.owner = s]]
  /\ doc' = [doc EXCEPT ![s] = d]
  /\ UNCHANGED <<apiVars, pgVars, bucket, keys, live, cache, cnt, verdict, faultVars>>

\* Mutants: a pending job is taken for a dead one, or for a queued one.
AfterRow_PendingAcked(status) ==
  CASE status = "queued"     -> "mark"
    [] status = "processing" -> "snapshot"
    [] OTHER                 -> "ack"

AfterRow_PendingRendered(status) ==
  CASE status \in {"pending", "queued"} -> "mark"
    [] status = "processing"            -> "snapshot"
    [] OTHER                            -> "ack"

\* 'pending' is retried, a job that is gone or no longer renderable is acked.
AfterRow(status) ==
  CASE status = "pending"    -> "raise"
    [] status = "queued"     -> "mark"
    [] status = "processing" -> "snapshot"
    [] OTHER                 -> "ack"

ReadRow(s) ==
  /\ \/ Goto(s, "readRow", AfterRow(row.status)) /\ NoFault
     \/ Goto(s, "readRow", "raise") /\ Fault("postgres")
  /\ UNCHANGED <<apiVars, pgVars, bucket, rdVars, cache, doc, cnt, verdict>>

\* Mutant: the UPDATE has no status in its WHERE.
QueuedToProcessing_Unguarded == SetRow("processing")

\* UPDATE ... SET status = 'processing' WHERE status = 'queued'
QueuedToProcessing == IF row.status = "queued" THEN SetRow("processing") ELSE UNCHANGED row

MarkProcessing(s) ==
  /\ \/ Goto(s, "mark", "snapshot") /\ NoFault /\ QueuedToProcessing
     \/ Goto(s, "mark", "raise") /\ Fault("postgres") /\ (QueuedToProcessing \/ UNCHANGED row)
  /\ UNCHANGED <<apiVars, ledger, bucket, rdVars, cache, doc, cnt, verdict>>

\* The cache keeps the promise of the first read, a rejected one too.
GetSnapshot(s) ==
  LET p == Host[s] IN
  /\ \/ /\ cache[p] = "loaded" \/ (cache[p] = "empty" /\ SnapshotKey \in bucket)
        /\ Goto(s, "snapshot", "render") /\ NoFault
        /\ cache' = [cache EXCEPT ![p] = "loaded"]
     \/ /\ \/ NoFault /\ (cache[p] = "rejected" \/ (cache[p] = "empty" /\ SnapshotKey \notin bucket))
           \/ Fault("snapshot") /\ cache[p] = "empty"
        /\ Goto(s, "snapshot", "raise")
        /\ cache' = [cache EXCEPT ![p] = "rejected"]
  /\ UNCHANGED <<apiVars, pgVars, bucket, rdVars, doc, cnt, verdict>>

-----------------------------------------------------------------------------
(* renderDocument.  An error thrown in its try block is classified by its  *)
(* message: an infrastructure error leaves through the finally block, any  *)
(* other one is sealed as an error entry.                                  *)

Caught(s, from) == Goto(s, from, "releaseRaised") \/ Goto(s, from, "appendError")

Render(s) ==
  /\ \/ Goto(s, "render", "put") /\ NoFault /\ doc[s] \notin Unrenderable
     \/ Goto(s, "render", "appendError") /\ NoFault /\ doc[s] \in Unrenderable
     \/ Caught(s, "render") /\ Fault("browser")
  /\ UNCHANGED <<apiVars, pgVars, bucket, rdVars, cache, doc, cnt, verdict>>

\* Mutant: a failed upload is not noticed.
PutArtifact_NotAwaited(s) ==
  /\ Goto(s, "put", "append") /\ (NoFault \/ Fault("artifact"))
  /\ IF faults' = faults THEN Store(doc[s]) ELSE UNCHANGED bucket
  /\ UNCHANGED <<apiVars, pgVars, rdVars, cache, doc, cnt, verdict>>

PutArtifact(s) ==
  /\ \/ Goto(s, "put", "append") /\ NoFault /\ Store(doc[s])
     \/ Caught(s, "put") /\ Fault("artifact") /\ (Store(doc[s]) \/ UNCHANGED bucket)
  /\ UNCHANGED <<apiVars, pgVars, rdVars, cache, doc, cnt, verdict>>

AppendEntry(s, outcome) == ledger' = [ledger EXCEPT ![doc[s]] = Append(@, outcome)]

\* Mutant: a failed INSERT is only logged.
AppendRendered_FailureLogged(s) ==
  /\ Goto(s, "append", "incCompleted")
  /\ \/ NoFault /\ AppendEntry(s, "rendered")
     \/ Fault("postgres") /\ UNCHANGED ledger
  /\ UNCHANGED <<apiVars, row, bucket, rdVars, cache, doc, cnt, verdict>>

AppendRendered(s) ==
  /\ \/ Goto(s, "append", "incCompleted") /\ NoFault /\ AppendEntry(s, "rendered")
     \/ /\ Caught(s, "append") /\ Fault("postgres")
        /\ AppendEntry(s, "rendered") \/ UNCHANGED ledger
  /\ UNCHANGED <<apiVars, row, bucket, rdVars, cache, doc, cnt, verdict>>

\* HINCRBY job:{id}:progress, which creates an absent hash.
Bump(c, f) == WriteHash([completed |-> live.completed + c, failed |-> live.failed + f])

\* The connection drops before the reply: Redis ran the command, and the client
\* (maxRetriesPerRequest null, ioredis re-sends what is unanswered) will send it
\* again: the slot stays where it is.
ReplyLost(s, at) == pc[s] = at /\ Happens("resend") /\ UNCHANGED pc

Twice(c, f) == resent' = [completed |-> resent.completed + c, failed |-> resent.failed + f]

IncrementCompleted(s) ==
  /\ \/ Goto(s, "incCompleted", "release") /\ NoFault /\ Bump(1, 0)
     \/ ReplyLost(s, "incCompleted") /\ Bump(1, 0) /\ Twice(1, 0)
     \/ Caught(s, "incCompleted") /\ Fault("redis") /\ (Bump(1, 0) \/ UNCHANGED <<keys, live>>)
  /\ UNCHANGED <<apiVars, pgVars, bucket, tasks, cache, doc, cnt, verdict>>

\* The catch block: what it throws leaves through the finally block.
AppendError(s) ==
  /\ \/ Goto(s, "appendError", "incFailed") /\ NoFault /\ AppendEntry(s, "error")
     \/ /\ Goto(s, "appendError", "releaseRaised") /\ Fault("postgres")
        /\ AppendEntry(s, "error") \/ UNCHANGED ledger
  /\ UNCHANGED <<apiVars, row, bucket, rdVars, cache, doc, cnt, verdict>>

IncrementFailed(s) ==
  /\ \/ Goto(s, "incFailed", "release") /\ NoFault /\ Bump(0, 1)
     \/ ReplyLost(s, "incFailed") /\ Bump(0, 1) /\ Twice(0, 1)
     \/ /\ Goto(s, "incFailed", "releaseRaised") /\ Fault("redis")
        /\ Bump(0, 1) \/ UNCHANGED <<keys, live>>
  /\ UNCHANGED <<apiVars, pgVars, bucket, tasks, cache, doc, cnt, verdict>>

\* finally: a release that throws replaces the result of the document.
Release(s) ==
  /\ \/ Goto(s, "release", "claimRead") /\ NoFault
     \/ Goto(s, "releaseRaised", "raise") /\ NoFault
     \/ Goto(s, "release", "raise") /\ Fault("browser")
     \/ Goto(s, "releaseRaised", "raise") /\ Fault("browser")
  /\ UNCHANGED <<apiVars, pgVars, bucket, rdVars, cache, doc, cnt, verdict>>

-----------------------------------------------------------------------------
(* The finalize: claimFinalizeIfDone, then flushToJobsRow.                 *)

ReadCounters(s) == cnt' = [cnt EXCEPT ![s] = live]

\* Mutant: off by one.
AllAccounted_OneShort(c) == c.completed + c.failed >= Total - 1

AllAccounted(c) == c.completed + c.failed >= Total

ClaimRead(s) ==
  /\ \/ /\ NoFault /\ ReadCounters(s)
        /\ Goto(s, "claimRead", IF AllAccounted(live) THEN "claimSet" ELSE "ack")
     \/ Goto(s, "claimRead", "raise") /\ Fault("redis") /\ UNCHANGED cnt
  /\ UNCHANGED <<apiVars, pgVars, bucket, rdVars, cache, doc, verdict>>

\* SET job:{id}:finalized NX.  Sent again, it finds the marker it has set and
\* answers that somebody else has the finalize.
Claimed == "finalized" \in keys
Claim   == keys' = keys \union {"finalized"}

ClaimMarker(s) ==
  /\ \/ Goto(s, "claimSet", IF Claimed THEN "ack" ELSE "flushRead") /\ NoFault /\ Claim
     \/ ReplyLost(s, "claimSet") /\ UNCHANGED resent /\ Claim
     \/ Goto(s, "claimSet", "raise") /\ Fault("redis") /\ (Claim \/ UNCHANGED keys)
  /\ verdict' = [verdict EXCEPT ![s] = TerminalStatus(cnt[s])]
  /\ UNCHANGED <<apiVars, pgVars, bucket, tasks, live, cache, doc, cnt>>

FlushRead(s) ==
  /\ \/ Goto(s, "flushRead", "flushRow") /\ NoFault /\ ReadCounters(s)
     \/ Goto(s, "flushRead", "raise") /\ Fault("redis") /\ UNCHANGED cnt
  /\ UNCHANGED <<apiVars, pgVars, bucket, rdVars, cache, doc, verdict>>

FlushRow(s) ==
  LET Flushed == row' = [status |-> verdict[s], completed |-> cnt[s].completed,
                         failed |-> cnt[s].failed] IN
  /\ \/ Goto(s, "flushRow", "flushDel") /\ NoFault /\ Flushed
     \/ Goto(s, "flushRow", "raise") /\ Fault("postgres") /\ (Flushed \/ UNCHANGED row)
  /\ UNCHANGED <<apiVars, ledger, bucket, rdVars, cache, doc, cnt, verdict>>

DropHash == live' = Zero /\ keys' = keys \ {"progress"}

\* DEL the hash and evict the snapshot; the finalize marker stays.
FlushDel(s) ==
  /\ \/ /\ Goto(s, "flushDel", "ack") /\ NoFault /\ DropHash
        /\ cache' = [cache EXCEPT ![Host[s]] = "empty"]
     \/ /\ Goto(s, "flushDel", "raise") /\ Fault("redis") /\ (DropHash \/ UNCHANGED <<keys, live>>)
        /\ UNCHANGED cache
  /\ UNCHANGED <<apiVars, pgVars, bucket, tasks, doc, cnt, verdict>>

-----------------------------------------------------------------------------
(* BullMQ: the end of a delivery, lost locks and stalled tasks.            *)

\* A slot whose lock was lost can no longer move the task.
Settle(s, state, attempts) ==
  LET d == doc[s] IN
  /\ tasks' = IF tasks[d].owner # s THEN tasks
              ELSE [tasks EXCEPT ![d] = [@ EXCEPT !.state = state, !.owner = NoSlot,
                                                  !.attempts = attempts]]
  /\ doc' = [doc EXCEPT ![s] = NoDoc]
  /\ cnt' = [cnt EXCEPT ![s] = Zero]
  /\ verdict' = [verdict EXCEPT ![s] = "failed"]
  /\ UNCHANGED <<apiVars, pgVars, bucket, keys, live, cache, faultVars>>

Ack(s) == Goto(s, "ack", "idle") /\ Settle(s, "completed", tasks[doc[s]].attempts)

\* Mutant: one retry too many is granted.
Raise_OneTooMany(s) ==
  LET attempts == tasks[doc[s]].attempts + 1 IN
  /\ Goto(s, "raise", "idle")
  /\ Settle(s, IF attempts <= MaxAttempts THEN "waiting" ELSE "failed", attempts)

\* The processor threw: retry with backoff, or the failed set.
Raise(s) ==
  LET attempts == tasks[doc[s]].attempts + 1 IN
  /\ Goto(s, "raise", "idle")
  /\ Settle(s, IF attempts < MaxAttempts THEN "waiting" ELSE "failed", attempts)

\* The lock of a running delivery expires; the delivery goes on.
LoseLock(d) ==
  /\ Fault("lock")
  /\ tasks[d].owner # NoSlot
  /\ tasks' = [tasks EXCEPT ![d] = [@ EXCEPT !.owner = NoSlot]]
  /\ UNCHANGED <<apiVars, pgVars, bucket, keys, live, cache, slotVars>>

StalledCheck(d) ==
  /\ tasks[d].state = "active" /\ tasks[d].owner = NoSlot
  /\ LET stalls == tasks[d].stalls + 1
         state  == IF stalls <= MaxStalls THEN "waiting" ELSE "failed"
     IN  tasks' = [tasks EXCEPT ![d] = [@ EXCEPT !.stalls = stalls, !.state = state]]
  /\ UNCHANGED <<apiVars, pgVars, bucket, keys, live, cache, slotVars, faultVars>>

\* A worker process dies and is started again: its slots and its cache are lost.
WorkerCrash(p) ==
  LET Reset(f, v) == [s \in Slots |-> IF Host[s] = p THEN v ELSE f[s]] IN
  /\ Fault("worker")
  /\ \E s \in Slots : Host[s] = p /\ pc[s] # "idle"
  /\ tasks' = [d \in Docs |-> IF tasks[d].owner \in {s \in Slots : Host[s] = p}
                              THEN [tasks[d] EXCEPT !.owner = NoSlot] ELSE tasks[d]]
  /\ cache' = [cache EXCEPT ![p] = "empty"]
  /\ pc' = Reset(pc, "idle") /\ doc' = Reset(doc, NoDoc)
  /\ cnt' = Reset(cnt, Zero) /\ verdict' = Reset(verdict, "failed")
  /\ UNCHANGED <<apiVars, pgVars, bucket, keys, live>>

SlotStep(s) ==
  \/ ReadRow(s) \/ MarkProcessing(s) \/ GetSnapshot(s)
  \/ Render(s) \/ PutArtifact(s) \/ AppendRendered(s) \/ IncrementCompleted(s)
  \/ AppendError(s) \/ IncrementFailed(s) \/ Release(s)
  \/ ClaimRead(s) \/ ClaimMarker(s) \/ FlushRead(s) \/ FlushRow(s) \/ FlushDel(s)
  \/ Ack(s) \/ Raise(s)

Deliver == \E s \in Slots, d \in Docs : Take(s, d)

Next ==
  \/ ApiStep \/ ApiCrash
  \/ Deliver
  \/ \E s \in Slots : SlotStep(s)
  \/ \E d \in Docs : LoseLock(d) \/ StalledCheck(d)
  \/ \E p \in Procs : WorkerCrash(p)

Spec == Init /\ [][Next]_vars

\* The event loops keep running, BullMQ keeps delivering and sweeping.
Fairness ==
  /\ WF_vars(ApiStep)
  /\ WF_vars(Deliver)
  /\ \A s \in Slots : WF_vars(SlotStep(s))
  /\ \A d \in Docs : WF_vars(StalledCheck(d))

FairSpec == Spec /\ Fairness

-----------------------------------------------------------------------------
(* Properties.                                                             *)

Terminal == row.status \in Finals

Promoted == row.status \notin {"none", "pending"} /\ (row.status = "failed" => Claimed)

\* Ledger rows of the job with the given outcome, over all its documents.
Rows(outcome) ==
  Cardinality(UNION {{d} \X {i \in DOMAIN ledger[d] : ledger[d][i] = outcome} : d \in Docs})

Latest(d) == IF ledger[d] = <<>> THEN "missing" ELSE ledger[d][Len(ledger[d])]

\* jobs.js:14-15: no window in which the job is queued (or further) while its
\* snapshot or one of its tasks is missing, whatever intake call failed.
ReadyWhenPromoted ==
  row.status \in {"queued", "processing"} =>
    SnapshotKey \in bucket /\ \A d \in Docs : tasks[d].state # "absent"

\* queues.js:36-38, phase-2.md:36: a task that leaked onto a job whose intake
\* did not finish, or failed, leaves no artifact and no ledger row.
NothingRenderedUnlessPromoted ==
  ~Promoted => \A d \in Docs : d \notin bucket /\ ledger[d] = <<>>

\* pipeline.js:37-46: a rendered row never points at an artifact that was not
\* stored, wherever the delivery that wrote it was cut short.
RenderedRowHasArtifact ==
  \A d \in Docs : d \in bucket \/ \A i \in DOMAIN ledger[d] : ledger[d][i] # "rendered"

\* worker.js:50-61: a task BullMQ counts as completed was rendered or sealed,
\* unless the job was already over; no document is dropped by an early ack.
AckedTaskIsAccounted ==
  \A d \in Docs : tasks[d].state = "completed" => ledger[d] # <<>> \/ Terminal

\* pipeline.js:38-47 and :69-75, redis.js:9-14: over every retry and redelivery
\* a counter is ahead of the ledger rows of its outcome by no more than the
\* increments Redis ran and was sent again.
CountsBackedByLedger ==
  /\ live.completed <= Rows("rendered") + resent.completed
  /\ live.failed <= Rows("error") + resent.failed

\* jobs.js:7-12: the status only moves forward, and a terminal row (status
\* and counters, progress.js:5-7 "written once") is never written again.
StatusRank == [pending |-> 1, queued |-> 2, processing |-> 3, none |-> 0,
               completed |-> 4, completed_with_errors |-> 4, failed |-> 4]

StatusNeverRegresses ==
  [][/\ StatusRank[row.status] <= StatusRank[row'.status]
     /\ Terminal => row' = row]_vars

\* api.md:66-67, progress.js:68-71: without failures a terminal row says
\* exactly what the ledger holds, one row per document.
TerminalMatchesLedger ==
  Terminal => /\ \A d \in Docs : Len(ledger[d]) = 1
              /\ row.completed = Rows("rendered") /\ row.failed = Rows("error")
              /\ row.status = TerminalStatus([completed |-> row.completed, failed |-> row.failed])

\* api.md:66 "`completed` (all rendered)".
CompletedMeansAllRendered ==
  row.status = "completed" => \A d \in Docs : Latest(d) = "rendered"

\* phase-2.md:31-36, worker.js:69-75: a promoted job reaches a terminal status.
EventuallyTerminal == Promoted ~> Terminal

-----------------------------------------------------------------------------
(* The inductive invariant behind the safety properties.                   *)

\* Slots that passed the guard on the job row, and those past the UPDATE
\* that leaves 'queued'.
Working  == {"snapshot"} \union Rendering \union Sealing \union Closing
              \union Claiming \union Flushing
Admitted == {"mark"} \union Working

\* Where the handler is says what it has already made durable.
IntakeInv ==
  /\ api = "insert" => row.status = "none"
  /\ api \in {"snapshot", "init", "enqueue", "promote", "reject"} => row.status = "pending"
  /\ api \in {"init", "enqueue", "promote"} => SnapshotKey \in bucket
  /\ api \in {"insert", "snapshot", "init", "enqueue"} => tries < EnqueueAttempts
  /\ api = "promote" => \A d \in Docs : tasks[d].state # "absent"
  /\ row.status = "none" => /\ \A d \in Docs : tasks[d].state = "absent"
                            /\ \A s \in Slots : pc[s] = "idle"

\* No slot is admitted, and the finalize is not claimed, before promotion.
AdmissionInv ==
  /\ ~Promoted => \A s \in Slots : pc[s] \notin Admitted
  /\ row.status \in {"none", "pending"} => ~Claimed
  /\ row.status \in {"completed", "completed_with_errors"} => Claimed

\* At most one slot flushes, and until it wrote the row the job is processing.
FinalizeInv ==
  /\ \A s \in Slots : pc[s] \in Working => row.status # "queued"
  /\ \A s \in Slots : pc[s] \in Flushing => Claimed
  /\ \A s \in Slots : pc[s] \in {"flushRead", "flushRow"} => row.status = "processing"
  /\ \A s, t \in Slots : pc[s] \in Flushing /\ pc[t] \in Flushing => s = t

\* A delivery that leaves renderDocument normally has written its ledger row.
DeliveryInv ==
  \A s \in Slots :
    /\ pc[s] = "append" => doc[s] \in bucket
    /\ pc[s] \in {"incCompleted", "incFailed", "release"} \union Claiming \union Flushing
         => ledger[doc[s]] # <<>>
    /\ pc[s] = "ack" => ledger[doc[s]] # <<>> \/ Terminal

IInv == /\ TypeOK /\ IntakeInv /\ AdmissionInv /\ FinalizeInv /\ DeliveryInv
        /\ ReadyWhenPromoted /\ NothingRenderedUnlessPromoted
        /\ RenderedRowHasArtifact /\ AckedTaskIsAccounted

=============================================================================

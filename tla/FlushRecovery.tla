--------------------------- MODULE FlushRecovery ---------------------------
(***************************************************************************)
(* The job protocol of RenderJob with the operator of                      *)
(* scenarios/chaos_flush_redis.js: it polls GET /jobs/:id (routes/jobs.js, *)
(* two reads, one after the other), flushes Redis in the middle of the     *)
(* job, waits for the deliveries in flight, seeds the counters from the    *)
(* manifest and adds the tasks of the missing documents again.             *)
(***************************************************************************)
EXTENDS RenderJob

CONSTANT FlushAt  \* documents accounted for in a poll before the flush

ASSUME FlushAssumption == FlushAt \in Nat

VARIABLES
  op,     \* where the operator is
  reply,  \* what its GET /jobs/:id has read of the row, between the two reads
  seen    \* the outcome of each document in the manifest it fetched

opVars  == <<op, reply, seen>>
allVars == <<vars, opVars>>

NoReply == [status |-> "none", source |-> "postgres", completed |-> 0, failed |-> 0]
FlushInit ==
  /\ Init
  /\ op = "submit" /\ reply = NoReply /\ seen = [d \in Docs |-> "missing"]

OpGoto(from, to) == op = from /\ op' = to

-----------------------------------------------------------------------------
(* GET /jobs/:id reads the row, then the hash, which replaces the counters *)
(* of the row when it is there.                                            *)

GetById == [status |-> row.status, source |-> "postgres",
            completed |-> row.completed, failed |-> row.failed]

\* Mutant: a hash that is not there counts as zero.
Answer_NoFallback ==
  [reply EXCEPT !.source = "redis", !.completed = live.completed, !.failed = live.failed]

\* What the operator is answered when the second read happens now.
Answer ==
  IF "progress" \in keys
  THEN [reply EXCEPT !.source = "redis", !.completed = live.completed, !.failed = live.failed]
  ELSE reply

-----------------------------------------------------------------------------
(* The operator.                                                           *)

Submitted == OpGoto("submit", "pollRow") /\ api = "done" /\ UNCHANGED <<vars, reply, seen>>

PollRow(from, to) == OpGoto(from, to) /\ reply' = GetById /\ UNCHANGED <<vars, seen>>

\* The loop that waits for the middle of the job.
Poll ==
  \/ PollRow("pollRow", "pollLive")
  \/ /\ OpGoto("pollLive", IF Answer.completed + Answer.failed >= FlushAt THEN "flush"
                            ELSE IF Answer.status \in Finals THEN "late" ELSE "pollRow")
     /\ reply' = NoReply /\ UNCHANGED <<vars, seen>>

Undelivered == {d \in Docs : tasks[d].state = "waiting"}

\* FLUSHALL in the middle of the bulk (40 of 100 documents): tasks, counters
\* and finalize marker are gone.
Flush ==
  /\ OpGoto("flush", "grace") /\ Undelivered # {}
  /\ tasks' = [d \in Docs |-> AbsentTask] /\ keys' = {} /\ live' = Zero
  /\ UNCHANGED <<apiVars, pgVars, bucket, cache, slotVars, faultVars, reply, seen>>

\* The flush of the script (40 of 100 documents) is not in the window where the
\* last documents are finalized; a run that gets there is left alone.
TooLate == OpGoto("flush", "late") /\ Undelivered = {} /\ UNCHANGED <<vars, reply, seen>>

\* The grace period outlasts the deliveries in flight.
Grace ==
  /\ OpGoto("grace", "manifest") /\ \A s \in Slots : pc[s] = "idle"
  /\ UNCHANGED <<vars, reply, seen>>

\* latestPerDocument: the last row of a document is its outcome.
LatestPerDocument == [d \in Docs |-> Latest(d)]

\* The script verifies a sample of the rendered files before it recovers the
\* job, and throws when the manifest has none.
FetchManifest ==
  /\ seen' = LatestPerDocument
  /\ OpGoto("manifest", IF \E d \in Docs : seen'[d] = "rendered" THEN "seed" ELSE "crashed")
  /\ UNCHANGED <<vars, reply>>

Seen(outcome) == {d \in Docs : seen[d] = outcome}

\* progress.seed: the counters from the manifest, and no finalize marker.
Seed ==
  /\ OpGoto("seed", "enqueue")
  /\ live' = [completed |-> Cardinality(Seen("rendered")), failed |-> Cardinality(Seen("error"))]
  /\ keys' = (keys \ {"finalized"}) \union {"progress"}
  /\ UNCHANGED <<apiVars, pgVars, bucket, tasks, cache, slotVars, faultVars, reply, seen>>

\* Mutant: every document is added again.
Missing_All == Docs

Missing == Seen("missing")

EnqueueMissing ==
  /\ OpGoto("enqueue", "watchRow") /\ Add(Missing)
  /\ UNCHANGED <<apiVars, pgVars, bucket, keys, live, cache, slotVars, faultVars, reply, seen>>

\* The loop that waits for the end of the recovered job.
Watch ==
  \/ PollRow("watchRow", "watchLive")
  \/ /\ OpGoto("watchLive", IF Answer.status \in Finals THEN "done" ELSE "watchRow")
     /\ reply' = NoReply /\ UNCHANGED <<vars, seen>>

Operator ==
  \/ Submitted \/ Poll \/ Flush \/ TooLate \/ Grace \/ FetchManifest \/ Seed
  \/ EnqueueMissing \/ Watch

FlushNext == (Next /\ UNCHANGED opVars) \/ Operator

FlushSpec == FlushInit /\ [][FlushNext]_allVars

\* A step of the protocol that is no failure.
Progress == ApiStep \/ Deliver \/ (\E s \in Slots : SlotStep(s)) \/ (\E d \in Docs : StalledCheck(d))

\* The script runs to its end, and the service does not stop altogether.
FlushFairSpec == /\ FlushSpec
                 /\ WF_allVars(Operator)
                 /\ WF_allVars(Progress /\ UNCHANGED opVars)

-----------------------------------------------------------------------------
(* Properties (TerminalMatchesLedger of RenderJob is checked here across   *)
(* the flush and the recovery).                                            *)

\* routes/jobs.js:140-141: an answer put together from two reads never counts
\* documents the ledger does not have, and a terminal one has the final counts.
PollTruthful ==
  op \in {"pollLive", "watchLive"} =>
    /\ Answer.completed <= Rows("rendered") /\ Answer.failed <= Rows("error")
    /\ Answer.status \in Finals =>
         /\ Answer.status = row.status
         /\ Answer.completed = row.completed /\ Answer.failed = row.failed

\* chaos_flush_redis.js:5-13 "what survives", :99-103 "exactly the missing
\* document indexes": no document is lost, none is rendered a second time, and
\* the operator that saw the end has every outcome in the ledger.
RecoveredExactly ==
  op = "done" => \A d \in Docs : Len(ledger[d]) = 1 /\ (seen[d] # "missing" => Latest(d) = seen[d])

\* queueing.md:35-50, stress-runbook.md:104-107: a promoted job reaches a terminal
\* status across the flush and the recovery by hand; the one that is left behind
\* had nothing rendered when its manifest was fetched.
TerminalOrNothingRendered ==
  Promoted ~> (Terminal \/ (op = "crashed" /\ Rows("rendered") = 0))

=============================================================================

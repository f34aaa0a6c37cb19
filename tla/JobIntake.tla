----------------------------- MODULE JobIntake -----------------------------
(***************************************************************************)
(* Concurrent POST /jobs requests (routes/jobs.js, jobs.js), clients that  *)
(* send the same idempotency key again while the first request is still    *)
(* running or after it failed.  One action per call the handler awaits;    *)
(* what the tasks of a job do afterwards is RenderJob.                     *)
(***************************************************************************)
EXTENDS Naturals, FiniteSets

CONSTANTS
  Requests,        \* POST /jobs requests; the id of a job is its request
  Invalid,         \* those whose body does not pass the validation
  NoKey,           \* no idempotency key
  KeyOf,           \* the idempotency key of each request
  Faults,          \* kinds of failure that may happen
  MaxFaults,       \* bound on the number of failures
  NoJob            \* null value

ASSUME RequestAssumption == Invalid \subseteq Requests /\ NoJob \notin Requests
ASSUME FaultAssumption   == Faults \subseteq {"postgres", "snapshot", "redis", "crash"}
                              /\ MaxFaults \in Nat

VARIABLES
  rows,       \* status of the jobs row of each request, "none" before INSERT
  intake,     \* the intake calls that took effect for each job
  pc,         \* where each request is
  job,        \* the job each request is about
  reply,      \* HTTP status and the job status it reports
  faults

vars == <<rows, intake, pc, job, reply, faults>>

Key(r) == KeyOf[r]

Statuses == {"none", "pending", "queued", "failed"}
Calls    == {"snapshot", "progress", "enqueue"}
Labels   == {"validate", "insert", "select", "promote", "reject", "end"} \union Calls
NoReply  == [code |-> 0, status |-> "none"]
Replies  == [code : {0, 200, 201, 400, 500, 502}, status : Statuses]

TypeOK ==
  /\ rows \in [Requests -> Statuses]
  /\ intake \in [Requests -> SUBSET Calls]
  /\ pc \in [Requests -> Labels]
  /\ job \in [Requests -> Requests \union {NoJob}]
  /\ reply \in [Requests -> Replies]
  /\ faults \in 0..MaxFaults

Init ==
  /\ rows = [r \in Requests |-> "none"]
  /\ intake = [r \in Requests |-> {}]
  /\ pc = [r \in Requests |-> "validate"]
  /\ job = [r \in Requests |-> NoJob]
  /\ reply = [r \in Requests |-> NoReply]
  /\ faults = 0

Fault(kind) == kind \in Faults /\ faults < MaxFaults /\ faults' = faults + 1
NoFault     == UNCHANGED faults

Goto(r, from, to) == pc[r] = from /\ pc' = [pc EXCEPT ![r] = to] /\ UNCHANGED reply

Respond(r, from, code, status) ==
  /\ pc[r] = from /\ pc' = [pc EXCEPT ![r] = "end"]
  /\ reply' = [reply EXCEPT ![r] = [code |-> code, status |-> status]]

SetRow(r, status) == rows' = [rows EXCEPT ![r] = status]

-----------------------------------------------------------------------------

Validate(r) ==
  /\ IF r \in Invalid THEN Respond(r, "validate", 400, "none") ELSE Goto(r, "validate", "insert")
  /\ UNCHANGED <<rows, intake, job, faults>>

\* Mutant: the index on the key is not unique.
Taken_NotUnique(r) == FALSE

\* The unique index on idempotency_key; keyless rows never conflict.
Taken(r) == Key(r) # NoKey /\ \E q \in Requests : rows[q] # "none" /\ Key(q) = Key(r)

Created(r) == SetRow(r, "pending") /\ job' = [job EXCEPT ![r] = r]

\* Mutant: without ON CONFLICT, the loser of the race answers 500.
Insert_NoConflict(r) ==
  /\ \/ ~Taken(r) /\ Goto(r, "insert", "snapshot") /\ NoFault /\ Created(r)
     \/ Taken(r) /\ Respond(r, "insert", 500, "none") /\ NoFault /\ UNCHANGED <<rows, job>>
  /\ UNCHANGED intake

\* INSERT ... ON CONFLICT (idempotency_key) DO NOTHING
Insert(r) ==
  /\ \/ ~Taken(r) /\ Goto(r, "insert", "snapshot") /\ NoFault /\ Created(r)
     \/ Taken(r) /\ Goto(r, "insert", "select") /\ NoFault /\ UNCHANGED <<rows, job>>
     \/ /\ Respond(r, "insert", 500, "none") /\ Fault("postgres") /\ UNCHANGED job
        /\ (~Taken(r) /\ SetRow(r, "pending")) \/ UNCHANGED rows
  /\ UNCHANGED intake

\* Mutant: the loser of the race goes on as if it had created the job.
Select_Resumed(r) ==
  \E q \in Requests :
    /\ rows[q] # "none" /\ Key(q) = Key(r)
    /\ Goto(r, "select", "snapshot") /\ job' = [job EXCEPT ![r] = q]
    /\ UNCHANGED <<rows, intake, faults>>

\* Mutant: the winner has not committed, and its row is not visible.
Select_NotVisible(r) ==
  /\ \E q \in Requests : rows[q] # "none" /\ Key(q) = Key(r)
  /\ Respond(r, "select", 200, NoJob) /\ UNCHANGED <<rows, intake, job, faults>>

\* The replay: the row of the key, as it is now.
Select(r) ==
  /\ \/ /\ NoFault
        /\ \E q \in Requests :
             /\ rows[q] # "none" /\ Key(q) = Key(r)
             /\ Respond(r, "select", 200, rows[q]) /\ job' = [job EXCEPT ![r] = q]
     \/ Respond(r, "select", 500, "none") /\ Fault("postgres") /\ UNCHANGED job
  /\ UNCHANGED <<rows, intake>>

Done(r, call) == intake' = [intake EXCEPT ![job[r]] = @ \union {call}]

\* One intake call: it succeeds, or fails with or without effect.
Call(r, call, next, kind) ==
  /\ \/ Goto(r, call, next) /\ NoFault /\ Done(r, call)
     \/ Goto(r, call, "reject") /\ Fault(kind) /\ (Done(r, call) \/ UNCHANGED intake)
  /\ UNCHANGED <<rows, job>>

PutSnapshot(r)  == Call(r, "snapshot", "progress", "snapshot")
InitProgress(r) == Call(r, "progress", "enqueue", "redis")
Enqueue(r)      == Call(r, "enqueue", "promote", "redis")

\* UPDATE status = 'queued'; its failure is only logged, and answered 201.
Promote(r) ==
  /\ \/ Respond(r, "promote", 201, "queued") /\ NoFault /\ SetRow(job[r], "queued")
     \/ /\ Respond(r, "promote", 201, "pending") /\ Fault("postgres")
        /\ SetRow(job[r], "queued") \/ UNCHANGED rows
  /\ UNCHANGED <<intake, job>>

\* Mutant: the row is left as it is.
Reject_Unrecorded(r) ==
  Respond(r, "reject", 502, "none") /\ UNCHANGED <<rows, intake, job, faults>>

Die == /\ pc' = [r \in Requests |-> IF pc[r] = "validate" THEN "validate" ELSE "end"]
       /\ UNCHANGED reply

\* UPDATE status = 'failed', then 502.  The UPDATE is not guarded: its
\* rejection is unhandled and ends the process, with all its requests.
Reject(r) ==
  /\ \/ Respond(r, "reject", 502, "none") /\ NoFault /\ SetRow(job[r], "failed")
     \/ /\ pc[r] = "reject" /\ Fault("postgres") /\ Die
        /\ SetRow(job[r], "failed") \/ UNCHANGED rows
  /\ UNCHANGED <<intake, job>>

Crash ==
  /\ Fault("crash") /\ Die
  /\ \E r \in Requests : pc[r] \notin {"validate", "end"}
  /\ UNCHANGED <<rows, intake, job>>

Step(r) == \/ Validate(r) \/ Insert(r) \/ Select(r)
           \/ PutSnapshot(r) \/ InitProgress(r) \/ Enqueue(r) \/ Promote(r) \/ Reject(r)

Next == Crash \/ \E r \in Requests : Step(r)

Spec == Init /\ [][Next]_vars

-----------------------------------------------------------------------------
(* Properties.                                                             *)

Answered(r) == reply[r].code \in {200, 201, 502}

\* jobs.js:22-26, api.md "idempotency-key replay": whatever the races and the
\* failures, a key creates one job and every answer is about it (KeyedCreate).
Promise == INSTANCE KeyedCreate WITH
  Unanswered <- NoJob,
  jobs   <- {r \in Requests : rows[r] # "none"},
  answer <- [r \in Requests |-> IF Answered(r) THEN job[r] ELSE NoJob]

KeyCreatesOnce == Promise!Spec

\* jobs.js:13-18: only its creator drives a job, so no call of the intake is
\* made twice; a queued row has seen all of them.
CreatorDrives ==
  /\ \A r, q \in Requests : pc[r] \in Calls \union {"promote", "reject"}
                              /\ pc[q] \in Calls \union {"promote", "reject"}
                              /\ job[r] = job[q] => r = q
  /\ \A r \in Requests : rows[r] = "queued" => intake[r] = Calls

\* api.md "502: job row exists with status failed, nothing will render"; and
\* "400: nothing was created".
ReplyTellsTheRow ==
  \A r \in Requests : /\ reply[r].code = 502 => rows[job[r]] = "failed"
                      /\ reply[r].code = 400 => rows[r] = "none"

\* jobs.js:22-26 "never a 500": losing a race is no reason for one; only a
\* failure is.
NeverServerError == faults = 0 => \A r \in Requests : reply[r].code # 500

=============================================================================

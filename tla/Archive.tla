------------------------------ MODULE Archive ------------------------------
(***************************************************************************)
(* ensureArchive (archive.js): concurrent GET /jobs/:id/archive of one     *)
(* terminal job, in several API processes, serialized by a Redis lock that *)
(* expires.  One action per call the handler awaits; the streaming of the  *)
(* entries into the upload is one long step.                               *)
(*                                                                         *)
(* Time advances by Tick: the lock lives TTL ticks, a waiter waits WaitMax *)
(* ticks.  The code has 300 s and 60 s, and no bound on a build.           *)
(*                                                                         *)
(* The Redis client sends again what was unanswered when its connection    *)
(* dropped (redis.js:9-15), so a SET NX or a DEL may run twice.            *)
(***************************************************************************)
EXTENDS Naturals, FiniteSets

CONSTANTS
  Requests,     \* GET /jobs/:id/archive requests
  Procs, Host,  \* the API process each request is served by
  TTL,          \* LOCK_TTL_SECONDS, in ticks
  WaitMax,      \* WAIT_MAX_MS, in ticks
  Faults,       \* kinds of failure that may happen
  MaxFaults     \* bound on the number of failures

ASSUME RequestAssumption == Host \in [Requests -> Procs]
ASSUME TimeAssumption    == TTL \in Nat \ {0} /\ WaitMax \in Nat \ {0}
ASSUME FaultAssumption   ==
  Faults \subseteq {"s3", "upload", "redis", "resend", "crash"} /\ MaxFaults \in Nat

VARIABLES
  zip,       \* "no" or "yes": archives/{jobId}.zip is stored
  lock,      \* ticks the lock has left, 0 when there is none
  pc,        \* where each request is
  waited,    \* ticks since its wait loop began
  late,      \* history: a request has lost the lock while it still relied on it
  faults

vars == <<zip, lock, pc, waited, late, faults>>

Critical == {"recheck", "build", "unlock", "unlockFailed"}
Waiting  == {"poll", "pollLock"}
Ended    == {"served", "failed", "timedOut", "gone"}
Labels   == {"new", "head", "lock", "unlockAgain", "unlockFailedAgain"}
              \union Critical \union Waiting \union Ended

TypeOK ==
  /\ zip \in {"no", "yes"}
  /\ lock \in 0..TTL
  /\ pc \in [Requests -> Labels]
  /\ waited \in [Requests -> 0..WaitMax]
  /\ late \in BOOLEAN
  /\ faults \in 0..MaxFaults

Init ==
  /\ zip = "no" /\ lock = 0
  /\ pc = [r \in Requests |-> "new"]
  /\ waited = [r \in Requests |-> 0]
  /\ late = FALSE /\ faults = 0

Fault(kind) == kind \in Faults /\ faults < MaxFaults /\ faults' = faults + 1
NoFault     == UNCHANGED faults

Goto(r, from, to) == pc[r] = from /\ pc' = [pc EXCEPT ![r] = to]

Arrive(r) == Goto(r, "new", "head") /\ UNCHANGED <<zip, lock, waited, late, faults>>

\* Somebody relies on the lock.
Relied == \E r \in Requests : pc[r] \in Critical

\* HEAD archives/{jobId}.zip, before the lock, under it, or while waiting.
Exists(r, from, found, missing, broken) ==
  /\ \/ Goto(r, from, IF zip = "yes" THEN found ELSE missing) /\ NoFault
     \/ Goto(r, from, broken) /\ Fault("s3")
  /\ UNCHANGED <<zip, lock, waited, late>>

Head(r) == Exists(r, "head", "served", "lock", "failed")

Wait(r) == Goto(r, "lock", "poll") /\ waited' = [waited EXCEPT ![r] = 0]

\* Mutant: a request that finds the lock taken prolongs it.
SetLock_Prolongs(r) ==
  \/ lock = 0 /\ lock' = TTL /\ Goto(r, "lock", "recheck") /\ UNCHANGED waited
  \/ lock > 0 /\ lock' = lock + TTL /\ Wait(r)

\* SET archive:{jobId}:building EX NX
SetLock(r) ==
  \/ lock = 0 /\ lock' = TTL /\ Goto(r, "lock", "recheck") /\ UNCHANGED waited
  \/ lock > 0 /\ UNCHANGED lock /\ Wait(r)

\* A SET whose answer is lost may have taken the lock, and nobody will drop
\* it; sent again it finds the lock taken, by itself.
TryLock(r) ==
  /\ \/ SetLock(r) /\ NoFault
     \/ /\ Goto(r, "lock", "failed") /\ Fault("redis") /\ UNCHANGED waited
        /\ (lock = 0 /\ lock' = TTL) \/ UNCHANGED lock
     \/ lock = 0 /\ lock' = TTL /\ Wait(r) /\ Fault("resend")
  /\ UNCHANGED <<zip, late>>

\* Mutant: the builder trusts the HEAD it did before it had the lock.
Recheck_Skipped(r) == Goto(r, "recheck", "build") /\ UNCHANGED <<zip, lock, waited, late, faults>>

Recheck(r) == Exists(r, "recheck", "unlock", "build", "unlockFailed")

Die(p) == pc' = [r \in Requests |-> IF Host[r] = p /\ pc[r] \notin Ended \union {"new"}
                                    THEN "gone" ELSE pc[r]]

\* buildArchive: the object appears when the upload completes, or not at all.
\* An upload that fails while an entry is awaited is an unhandled rejection,
\* which ends the process; any other failure reaches the finally block.
Build(r) ==
  /\ \/ Goto(r, "build", "unlock") /\ NoFault /\ zip' = "yes"
     \/ /\ Goto(r, "build", "unlockFailed") /\ Fault("s3")
        /\ zip' = "yes" \/ UNCHANGED zip
     \/ pc[r] = "build" /\ Fault("upload") /\ Die(Host[r]) /\ UNCHANGED zip
  /\ UNCHANGED <<lock, waited, late>>

\* finally: DEL, whoever holds the lock by now; its failure is swallowed.
Unlock(r) ==
  /\ \/ /\ Goto(r, "unlock", "served") \/ Goto(r, "unlockFailed", "failed")
        /\ \/ NoFault /\ lock' = 0
           \/ Fault("redis") /\ (lock' = 0 \/ UNCHANGED lock)
     \/ /\ Goto(r, "unlock", "unlockAgain") \/ Goto(r, "unlockFailed", "unlockFailedAgain")
        /\ Fault("resend") /\ lock' = 0
  /\ UNCHANGED <<zip, waited, late>>

\* The DEL that is sent again may find the lock of the next request.
UnlockAgain(r) ==
  /\ Goto(r, "unlockAgain", "served") \/ Goto(r, "unlockFailedAgain", "failed")
  /\ lock' = 0 /\ late' = (late \/ Relied)
  /\ UNCHANGED <<zip, waited, faults>>

Poll(r) == Exists(r, "poll", "served", "pollLock", "failed")

\* Mutant: a waiter looks for the zip only.
PollLock_Blind(r) ==
  Goto(r, "pollLock", "poll") /\ UNCHANGED <<zip, lock, waited, late, faults>>

\* EXISTS: without a lock the waiter starts over; otherwise it polls again
\* until its deadline.
PollLock(r) ==
  /\ \/ /\ NoFault
        /\ Goto(r, "pollLock", IF lock = 0 THEN "head"
                               ELSE IF waited[r] < WaitMax THEN "poll" ELSE "timedOut")
     \/ Goto(r, "pollLock", "failed") /\ Fault("redis")
  /\ UNCHANGED <<zip, lock, waited, late>>

Step(r) == \/ Head(r) \/ TryLock(r) \/ Recheck(r) \/ Build(r) \/ Unlock(r)
           \/ UnlockAgain(r) \/ Poll(r) \/ PollLock(r)

\* An API process dies and is started again; its requests are lost.
Crash(p) ==
  /\ Fault("crash")
  /\ \E r \in Requests : Host[r] = p /\ pc[r] \notin Ended \union {"new"}
  /\ Die(p)
  /\ UNCHANGED <<zip, lock, waited, late>>

\* A waiter polls many times in a tick: it does not sleep through one.
Tick ==
  /\ \A r \in Requests : pc[r] \in Waiting => waited[r] < WaitMax
  /\ lock > 0
  /\ lock' = lock - 1 /\ late' = (late \/ (lock = 1 /\ Relied))
  /\ waited' = [r \in Requests |-> IF pc[r] \in Waiting THEN waited[r] + 1 ELSE waited[r]]
  /\ UNCHANGED <<zip, pc, faults>>

Next ==
  \/ \E r \in Requests : Arrive(r) \/ Step(r)
  \/ \E p \in Procs : Crash(p)
  \/ Tick

Spec == Init /\ [][Next]_vars

\* Calls are answered, and time passes.
Fairness == WF_vars(Tick) /\ \A r \in Requests : WF_vars(Step(r))

FairSpec == Spec /\ Fairness

-----------------------------------------------------------------------------
(* Properties.                                                             *)

Builders == {r \in Requests : pc[r] = "build"}
Served   == {r \in Requests : pc[r] = "served"}

\* archive.js:83 "build-once semantics": no build of a zip that is stored, no
\* redirect to one that is not, and one builder at a time until a request
\* loses the lock while it still relies on it (BuildOnce).
Promise == INSTANCE BuildOnce WITH stored <- zip, builders <- Builders, served <- Served

BuiltOnce == Promise!Spec

\* api.md:126-129: waiting requests take over from a builder that is gone;
\* none of them gives up when there is none.
WaitersTakeOver ==
  [][\A r \in Requests : pc[r] # "timedOut" /\ pc'[r] = "timedOut" => Relied]_vars

\* No request waits for ever, whoever crashed with the lock.
Answered == \A r \in Requests : pc[r] = "head" ~> pc[r] \in Ended

=============================================================================

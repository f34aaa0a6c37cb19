---------------------------- MODULE KeyedCreate ----------------------------
(***************************************************************************)
(* What POST /jobs promises its clients about idempotency keys (jobs.js    *)
(* insertJob, api.md "idempotency-key replay"): a key creates at most one  *)
(* job, at one instant, and every answer to a request with that key is     *)
(* about that job.                                                         *)
(***************************************************************************)
CONSTANTS Requests, Key(_), NoKey, Unanswered

VARIABLES
  jobs,      \* the requests that created a job; a job has its creator's id
  answer     \* the job each request was answered with

vars == <<jobs, answer>>

Init == jobs = {} /\ answer = [r \in Requests |-> Unanswered]

SameKey(r, q) == r = q \/ (Key(r) = Key(q) /\ Key(r) # NoKey)

Create(r) == /\ \A q \in jobs : ~SameKey(r, q)
             /\ jobs' = jobs \union {r} /\ UNCHANGED answer

Answer(r) == /\ answer[r] = Unanswered
             /\ \E q \in jobs : SameKey(r, q) /\ answer' = [answer EXCEPT ![r] = q]
             /\ UNCHANGED jobs

Next == \E r \in Requests : Create(r) \/ Answer(r)

Spec == Init /\ [][Next]_vars

=============================================================================

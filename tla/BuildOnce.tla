----------------------------- MODULE BuildOnce -----------------------------
(***************************************************************************)
(* What the archive endpoint promises (archive.js, "build-once             *)
(* semantics"): the zip of a job is built by one request at a time, never  *)
(* again once it is stored, and a request is only redirected to a zip that *)
(* is there.  Once a builder has lost its lock others may build beside it; *)
(* the rest of the promise stays.                                          *)
(***************************************************************************)
CONSTANTS Requests

VARIABLES
  stored,     \* "no" or "yes": the zip is in the bucket
  builders,   \* the requests that build it
  served,     \* the requests redirected to it
  late        \* a lock was lost under a request that relied on it

vars == <<stored, builders, served, late>>

Init == stored = "no" /\ builders = {} /\ served = {} /\ late = FALSE

Begin(r) == /\ stored = "no" /\ r \notin builders
            /\ builders = {} \/ late
            /\ builders' = builders \union {r} /\ UNCHANGED <<stored, served, late>>

Finish(r) == /\ r \in builders
             /\ stored' = "yes" /\ builders' = builders \ {r} /\ UNCHANGED <<served, late>>

Abort(S) == /\ S # {} /\ S \subseteq builders
            /\ builders' = builders \ S /\ UNCHANGED <<stored, served, late>>

\* The answer may follow the very step that took another request's lock.
Serve(r) == /\ stored = "yes" /\ r \notin served
            /\ served' = served \union {r} /\ late' \in {late, TRUE}
            /\ UNCHANGED <<stored, builders>>

LoseLock == late' = TRUE /\ UNCHANGED <<stored, builders, served>>

Next ==
  \/ \E r \in Requests : Begin(r) \/ Finish(r) \/ Serve(r)
  \/ \E S \in SUBSET Requests : Abort(S)
  \/ LoseLock

Spec == Init /\ [][Next]_vars

=============================================================================

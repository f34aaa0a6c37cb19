---------------------------- MODULE MCJobIntake ----------------------------
(* Instances of JobIntake small enough for TLC. *)
EXTENDS JobIntake, TLC

CONSTANTS r1, r2, r3, r4, r5, k

\* Requests that race for one key, and one that has none.
KeyedAndNot == (r1 :> k) @@ (r2 :> k) @@ (r3 :> NoKey) @@ (r4 :> k) @@ (r5 :> k)

=============================================================================

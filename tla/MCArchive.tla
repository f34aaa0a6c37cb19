----------------------------- MODULE MCArchive -----------------------------
(* Instances of Archive small enough for TLC. *)
EXTENDS Archive, TLC

CONSTANTS r1, r2, r3, p1, p2

TwoProcs == (r1 :> p1) @@ (r2 :> p1) @@ (r3 :> p2)

=============================================================================

----------------------------- MODULE MCDelivery -----------------------------
(* Instances of Delivery small enough for TLC.                             *)
EXTENDS Delivery, TLC

CONSTANTS d1, d2, s1, s2, p1, p2

TwoProcs == (s1 :> p1) @@ (s2 :> p2)

=============================================================================

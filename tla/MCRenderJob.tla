---------------------------- MODULE MCRenderJob ----------------------------
(* Instances of RenderJob small enough for TLC.                            *)
EXTENDS RenderJob, TLC

CONSTANTS d1, d2, d3, s1, s2, p1, p2

OneProc  == [s \in {s1, s2} |-> p1]
TwoProcs == (s1 :> p1) @@ (s2 :> p2)

=============================================================================

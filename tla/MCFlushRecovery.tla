-------------------------- MODULE MCFlushRecovery --------------------------
(* Instances of FlushRecovery small enough for TLC.                        *)
EXTENDS FlushRecovery, TLC

CONSTANTS d1, d2, d3, s1, s2, p1, p2

OneProc == [s \in {s1, s2} |-> p1]

=============================================================================

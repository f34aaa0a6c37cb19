--------------------------- MODULE MCBrowserPool ---------------------------
(* Instances of BrowserPool small enough for TLC. *)
EXTENDS BrowserPool

CONSTANTS s1, s2, b1, b2

MCPages == 1..(2 * Size + Cardinality(Tasks))

=============================================================================

---------------------------- MODULE MigrationLog ----------------------------
(***************************************************************************)
(* What the boot migration promises of the schema (migrate.js:3-9): the    *)
(* files of migrations/ take effect in the order of their names, each of   *)
(* them once, and a file takes effect in the same step that records it,    *)
(* however many replicas boot together and wherever they die.              *)
(***************************************************************************)
EXTENDS Naturals, Sequences

CONSTANT NumFiles  \* the files of migrations/, numbered in sorted order

VARIABLES
  applied,   \* the files whose effects are committed, in commit order
  recorded   \* the names in schema_migrations

\* A database that an earlier release left: the first files are applied.
Init == \E n \in 0..NumFiles : /\ applied = [i \in 1..n |-> i]
                               /\ recorded = 1..n

Apply ==
  LET file == Len(applied) + 1 IN
  /\ file <= NumFiles
  /\ applied' = Append(applied, file)
  /\ recorded' = recorded \union {file}

Spec == Init /\ [][Apply]_<<applied, recorded>>

=============================================================================

---------------------------- MODULE MCMigrations ----------------------------
(* Instances of Migrations small enough for TLC.                           *)
EXTENDS Migrations, TLC

CONSTANTS r1, r2, r3

\* A rolling upgrade: the old release has one of the two files.
OldAndNew == (r1 :> 2) @@ (r2 :> 1) @@ (r3 :> 2)

\* Roles without privileges, or with every privilege on the tables.
Opened == [g \in Roles \X Objects |->
             IF g[2] \in {"jobs", "manifest_entries"} THEN TablePrivs ELSE {}]
MCDrifts == {NoGrants, Opened}

=============================================================================

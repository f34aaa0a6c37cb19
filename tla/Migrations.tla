----------------------------- MODULE Migrations -----------------------------
(***************************************************************************)
(* API replicas that boot against one Postgres (server.js, migrate.js):    *)
(* each applies the migration files schema_migrations does not list, then  *)
(* reconciles the two runtime roles and their grants, then listens.  The   *)
(* steps of a replica are its statements; those of the other replicas run  *)
(* between any two of them.                                                *)
(*                                                                         *)
(* A migration runs in a transaction that commits or rolls back as a       *)
(* whole.  The statements about roles and grants commit one by one; of two *)
(* that change the same catalog row at the same time Postgres fails the    *)
(* second ("tuple concurrently updated", or a duplicate name).             *)
(*                                                                         *)
(* scripts/prove-append-only.js may run once some replica listens.         *)
(***************************************************************************)
EXTENDS Naturals, Sequences

CONSTANTS
  Replicas,     \* API processes that boot
  NumFiles,     \* the files of migrations/, numbered in sorted order
  Image,        \* how many of them the image of each replica contains
  Drifts,       \* grants the runtime roles may hold before the first boot
  Retries,      \* connection attempts (migrate.js: 30)
  MaxFaults,    \* bound on deaths, cut connections and refused connections
  MaxRestarts   \* bound on restarts of a replica that exited

ASSUME ImageAssumption ==
  /\ NumFiles \in Nat \ {0}
  /\ Image \in [Replicas -> 1..NumFiles]
ASSUME RetriesAssumption == Retries \in Nat \ {0}
ASSUME MigrationBounds == MaxFaults \in Nat /\ MaxRestarts \in Nat

Roles   == {"pdf_app", "manifest_writer"}
Objects == {"database", "schema", "jobs", "manifest_entries", "id_seq"}
TablePrivs == {"SELECT", "INSERT", "UPDATE", "DELETE", "TRUNCATE", "REFERENCES", "TRIGGER"}
Privs      == {"CONNECT", "TEMPORARY", "USAGE", "CREATE"} \union TablePrivs

\* Of those, the privileges that an object can be granted.
PrivsOf(object) == CASE object = "database" -> {"CONNECT", "CREATE", "TEMPORARY"}
                     [] object = "schema"   -> {"USAGE", "CREATE"}
                     [] object = "id_seq"   -> {"USAGE", "SELECT", "UPDATE"}
                     [] OTHER               -> TablePrivs

Grants   == {g \in [Roles \X Objects -> SUBSET Privs] :
               \A h \in Roles \X Objects : g[h] \subseteq PrivsOf(h[2])}
NoGrants == [g \in Roles \X Objects |-> {}]

ASSUME DriftsAssumption == Drifts \subseteq Grants

Role(role) == [op |-> "role", role |-> role, object |-> role, privs |-> {}]
Grant(privs, object, role)  == [op |-> "grant", role |-> role, object |-> object, privs |-> privs]
Revoke(privs, object, role) == [op |-> "revoke", role |-> role, object |-> object, privs |-> privs]

RoleStatements == << Role("pdf_app"), Role("manifest_writer") >>

\* Mutant: access is taken away and given back.
AppGrants_RevokeFirst == <<
  Grant({"CONNECT"}, "database", "pdf_app"),
  Grant({"USAGE"}, "schema", "pdf_app"),
  Revoke(TablePrivs, "jobs", "pdf_app"),
  Grant({"SELECT", "INSERT", "UPDATE"}, "jobs", "pdf_app"),
  Revoke(TablePrivs, "manifest_entries", "pdf_app"),
  Grant({"SELECT"}, "manifest_entries", "pdf_app") >>

AppGrants == <<
  Grant({"CONNECT"}, "database", "pdf_app"),
  Grant({"USAGE"}, "schema", "pdf_app"),
  Grant({"SELECT", "INSERT", "UPDATE"}, "jobs", "pdf_app"),
  Revoke({"DELETE", "TRUNCATE"}, "jobs", "pdf_app"),
  Grant({"SELECT"}, "manifest_entries", "pdf_app"),
  Revoke({"INSERT", "UPDATE", "DELETE", "TRUNCATE"}, "manifest_entries", "pdf_app") >>

\* Mutant: what was granted before is not revoked.
WriterGrants_NoBelt == <<
  Grant({"CONNECT"}, "database", "manifest_writer"),
  Grant({"USAGE"}, "schema", "manifest_writer"),
  Grant({"SELECT", "INSERT"}, "manifest_entries", "manifest_writer"),
  Grant({"USAGE", "SELECT"}, "id_seq", "manifest_writer") >>

WriterGrants == <<
  Grant({"CONNECT"}, "database", "manifest_writer"),
  Grant({"USAGE"}, "schema", "manifest_writer"),
  Grant({"SELECT", "INSERT"}, "manifest_entries", "manifest_writer"),
  Grant({"USAGE", "SELECT"}, "id_seq", "manifest_writer"),
  Revoke({"UPDATE", "DELETE", "TRUNCATE"}, "manifest_entries", "manifest_writer"),
  Revoke(TablePrivs, "jobs", "manifest_writer") >>

\* Mutant: the grants name roles that do not exist yet.
Reconciliation_RolesLast == AppGrants \o WriterGrants \o RoleStatements

\* ensureRuntimeRoles: every boot runs all of it, statement by statement.
Reconciliation == RoleStatements \o AppGrants \o WriterGrants

VARIABLES
  table,     \* schema_migrations exists
  applied,   \* the files whose effects are committed, in commit order
  recorded,  \* the names in schema_migrations
  roles,     \* the runtime roles that exist
  grants,    \* what they hold
  pc,        \* where each replica is in its boot
  todo,      \* the files a replica has still to apply, by its reading
  at,        \* attempts to connect, then the statement of the reconciliation
  restarts,  \* restarts so far
  faults,    \* failures so far
  probe,     \* where prove-append-only.js is
  rows       \* manifest rows of the job that the script seeds

schemaVars == <<table, applied, recorded>>
roleVars   == <<roles, grants>>
bootVars   == <<pc, todo, at>>
probeVars  == <<probe, rows>>
vars == <<schemaVars, roleVars, bootVars, restarts, faults, probeVars>>

Labels == {"connect", "table", "list", "next", "sql", "record", "commit",
           "reconcile", "serving", "exited"}
Probes == {"off", "seed", "append", "update", "delete", "forge", "confirm",
           "passed", "failed"}

TypeOK ==
  /\ table \in BOOLEAN /\ applied \in Seq(1..NumFiles) /\ recorded \subseteq 1..NumFiles
  /\ roles \subseteq Roles /\ grants \in Grants
  /\ pc \in [Replicas -> Labels]
  /\ todo \in [Replicas -> SUBSET (1..NumFiles)]
  /\ \A r \in Replicas : pc[r] \in {"sql", "record", "commit"} => todo[r] # {}
  /\ \A r \in Replicas : at[r] \in 1..(Len(Reconciliation) + Retries)
  /\ \A r \in Replicas : pc[r] = "reconcile" => at[r] <= Len(Reconciliation)
  /\ restarts \in 0..MaxRestarts /\ faults \in 0..MaxFaults
  /\ probe \in Probes /\ rows \in Seq({"rendered", "error", "forged"})

\* An empty database, or one that an earlier release migrated and that was
\* then granted more or less by hand.
Init ==
  /\ \E n \in 0..NumFiles :
       /\ table = (n > 0)
       /\ applied = [i \in 1..n |-> i] /\ recorded = 1..n
       /\ \/ roles = {} /\ grants = NoGrants
          \/ n > 0 /\ roles = Roles /\ grants \in Drifts
  /\ pc = [r \in Replicas |-> "connect"]
  /\ todo = [r \in Replicas |-> {}]
  /\ at = [r \in Replicas |-> 1]
  /\ restarts = 0 /\ faults = 0
  /\ probe = "off" /\ rows = <<>>

Fault == faults < MaxFaults /\ faults' = faults + 1

Goto(r, from, to) == pc[r] = from /\ pc' = [pc EXCEPT ![r] = to]

First(S) == CHOOSE f \in S : \A g \in S : f <= g
File(r)  == First(todo[r])

Statement(r) == Reconciliation[at[r]]

\* The table whose catalog row a file changes: 002 and 003 are ALTER TABLEs.
Alters(file) == CASE file = 2 -> {"jobs"} [] file = 3 -> {"manifest_entries"} [] OTHER -> {}

\* The tables altered in transactions that are still open.
Altered == UNION {Alters(File(r)) : r \in {q \in Replicas : pc[q] \in {"record", "commit"}}}

-----------------------------------------------------------------------------
(* migrate.run: the connection, schema_migrations, the files.              *)

\* connectWithRetry: a bounded number of attempts.
Connect(r) ==
  /\ \/ Goto(r, "connect", "table") /\ at' = [at EXCEPT ![r] = 1] /\ UNCHANGED faults
     \/ /\ Goto(r, "connect", IF at[r] < Retries THEN "connect" ELSE "exited")
        /\ at' = [at EXCEPT ![r] = IF @ < Retries THEN @ + 1 ELSE 1]
        /\ Fault
  /\ UNCHANGED <<schemaVars, roleVars, todo, restarts, probeVars>>

EnsureMigrationsTable(r) ==
  /\ Goto(r, "table", "list") /\ table' = TRUE
  /\ UNCHANGED <<applied, recorded, roleVars, todo, at, restarts, faults, probeVars>>

\* The names are read once: files recorded later are still to be done.
AppliedSet(r) ==
  /\ Goto(r, "list", "next") /\ table
  /\ todo' = [todo EXCEPT ![r] = 1..Image[r] \ recorded]
  /\ UNCHANGED <<schemaVars, roleVars, at, restarts, faults, probeVars>>

\* Mutant: the loop has no end.
NextFile_NoEnd(r) ==
  /\ Goto(r, "next", "sql")
  /\ UNCHANGED <<schemaVars, roleVars, todo, at, restarts, faults, probeVars>>

\* BEGIN of the next file, or the end of the loop.
NextFile(r) ==
  /\ Goto(r, "next", IF todo[r] = {} THEN "reconcile" ELSE "sql")
  /\ UNCHANGED <<schemaVars, roleVars, todo, at, restarts, faults, probeVars>>

Exit(r) == /\ pc' = [pc EXCEPT ![r] = "exited"]
           /\ todo' = [todo EXCEPT ![r] = {}]
           /\ at' = [at EXCEPT ![r] = 1]

\* The SQL of the file, inside the transaction.  A CREATE fails when another
\* transaction has committed the same object meanwhile: ROLLBACK, throw.
RunSql(r) ==
  /\ \/ Goto(r, "sql", "record") /\ UNCHANGED <<todo, at>>
     \/ pc[r] = "sql" /\ File(r) \in recorded /\ Exit(r)
  /\ UNCHANGED <<schemaVars, roleVars, restarts, faults, probeVars>>

\* Mutant: the name is not a key.
RecordFile_NotUnique(r) ==
  /\ Goto(r, "record", "commit")
  /\ UNCHANGED <<schemaVars, roleVars, todo, at, restarts, faults, probeVars>>

\* INSERT of the name: it waits for a transaction that inserted the same
\* name, and fails when that one committed: ROLLBACK, throw.
RecordFile(r) ==
  /\ pc[r] = "record"
  /\ \A q \in Replicas : ~(pc[q] = "commit" /\ File(q) = File(r))
  /\ IF File(r) \in recorded THEN Exit(r)
     ELSE Goto(r, "record", "commit") /\ UNCHANGED <<todo, at>>
  /\ UNCHANGED <<schemaVars, roleVars, restarts, faults, probeVars>>

\* The replicas at a GRANT or REVOKE on a table.
Granting(tables) == {q \in Replicas : pc[q] = "reconcile" /\ Statement(q).object \in tables}

\* A GRANT or REVOKE that waited for the transaction fails once it commits.
CommitFile(r) ==
  /\ pc[r] = "commit"
  /\ applied' = Append(applied, File(r)) /\ recorded' = recorded \union {File(r)}
  /\ todo' = [todo EXCEPT ![r] = @ \ {File(r)}]
  /\ \E Failed \in SUBSET Granting(Alters(File(r))) :
       /\ pc' = [q \in Replicas |-> IF q = r THEN "next" ELSE IF q \in Failed THEN "exited" ELSE pc[q]]
       /\ at' = [q \in Replicas |-> IF q \in Failed THEN 1 ELSE at[q]]
  /\ UNCHANGED <<table, roleVars, restarts, faults, probeVars>>

-----------------------------------------------------------------------------
(* ensureRuntimeRoles, and app.listen once migrate.run has returned.       *)

\* A GRANT or REVOKE names a role and a table that must be there, and waits
\* for the end of a transaction that has altered the table.
Execute(st) ==
  /\ st.object \notin Altered
  /\ st.op # "role" => st.role \in roles
  /\ st.object \in {"jobs", "manifest_entries", "id_seq"} => 1 \in recorded
  /\ roles' = roles \union (IF st.op = "role" THEN {st.role} ELSE {})
  /\ grants' = CASE st.op = "grant"  -> [grants EXCEPT ![<<st.role, st.object>>] = @ \union st.privs]
                 [] st.op = "revoke" -> [grants EXCEPT ![<<st.role, st.object>>] = @ \ st.privs]
                 [] OTHER            -> grants

Advance(r) ==
  IF at[r] = Len(Reconciliation)
  THEN Goto(r, "reconcile", "serving") /\ at' = [at EXCEPT ![r] = 1]
  ELSE pc[r] = "reconcile" /\ at' = [at EXCEPT ![r] = @ + 1] /\ UNCHANGED pc

Reconcile(r) ==
  /\ Advance(r) /\ Execute(Statement(r))
  /\ UNCHANGED <<schemaVars, todo, restarts, faults, probeVars>>

\* Two replicas change one catalog row: q does, and the statement of r fails,
\* a GRANT or REVOKE or the ALTER TABLE of a file.
ConflictingRoles(q, r) ==
  /\ q # r /\ pc[q] = "reconcile"
  /\ \/ r \in Granting({Statement(q).object})
     \/ pc[r] = "sql" /\ Statement(q).object \in Alters(File(r))
  /\ Execute(Statement(q))
  /\ LET last == at[q] = Len(Reconciliation) IN
     /\ pc' = [pc EXCEPT ![q] = IF last THEN "serving" ELSE @, ![r] = "exited"]
     /\ at' = [at EXCEPT ![q] = IF last THEN 1 ELSE @ + 1, ![r] = 1]
  /\ todo' = [todo EXCEPT ![r] = {}]
  /\ UNCHANGED <<schemaVars, restarts, faults, probeVars>>

ConflictingTable(q, r) ==
  /\ q # r /\ pc[q] = "table" /\ pc[r] = "table" /\ ~table
  /\ pc' = [pc EXCEPT ![q] = "list", ![r] = "exited"] /\ table' = TRUE
  /\ UNCHANGED <<applied, recorded, roleVars, todo, at, restarts, faults, probeVars>>

-----------------------------------------------------------------------------
(* Deaths: the process is killed, or a statement fails because the         *)
(* connection is cut; an open transaction is rolled back.                  *)

Die(r) ==
  /\ pc[r] # "exited" /\ Fault /\ Exit(r)
  /\ UNCHANGED <<schemaVars, roleVars, restarts, probeVars>>

Restart(r) ==
  /\ Goto(r, "exited", "connect")
  /\ restarts < MaxRestarts /\ restarts' = restarts + 1
  /\ UNCHANGED <<schemaVars, roleVars, todo, at, faults, probeVars>>

-----------------------------------------------------------------------------
(* prove-append-only.js, against a database that has been migrated.        *)

Serving == {r \in Replicas : pc[r] = "serving"}

May(role, priv, object) == priv \in grants[role, object]

\* Step n of the script, which fails when the outcome is not the expected one.
Probe(from, to, expected, changed) ==
  /\ probe = from /\ probe' = IF expected THEN to ELSE "failed"
  /\ rows' = changed
  /\ UNCHANGED <<schemaVars, roleVars, bootVars, restarts, faults>>

ProveAppendOnly ==
  LET Writer(priv) == May("manifest_writer", priv, "manifest_entries")
      Forge        == May("pdf_app", "INSERT", "manifest_entries") IN
  \/ Serving # {} /\ Probe("off", "seed", TRUE, <<>>)
  \/ Probe("seed", "append", May("pdf_app", "INSERT", "jobs"), rows)
  \/ Probe("append", "update", Writer("INSERT"),
           IF Writer("INSERT") THEN Append(rows, "rendered") ELSE rows)
  \/ Probe("update", "delete", ~Writer("UPDATE"),
           IF Writer("UPDATE") THEN [i \in DOMAIN rows |-> "error"] ELSE rows)
  \/ Probe("delete", "forge", ~Writer("DELETE"), IF Writer("DELETE") THEN <<>> ELSE rows)
  \/ Probe("forge", "confirm", ~Forge, IF Forge THEN Append(rows, "forged") ELSE rows)
  \/ Probe("confirm", "passed", Writer("SELECT") /\ rows = <<"rendered">>, rows)

-----------------------------------------------------------------------------
Boot(r) ==
  \/ Connect(r) \/ EnsureMigrationsTable(r) \/ AppliedSet(r) \/ NextFile(r)
  \/ RunSql(r) \/ RecordFile(r) \/ CommitFile(r) \/ Reconcile(r)

Next ==
  \/ \E r \in Replicas : Boot(r) \/ Die(r) \/ Restart(r)
  \/ \E q, r \in Replicas : ConflictingRoles(q, r) \/ ConflictingTable(q, r)
  \/ ProveAppendOnly

Spec == Init /\ [][Next]_vars

\* Postgres answers, and the event loop of a replica goes on.
FairSpec == Spec /\ \A r \in Replicas : WF_vars(Boot(r))

-----------------------------------------------------------------------------
(* Properties.                                                             *)

\* migrate.js:3-9, phase-1.md:31-33: replicas that boot together on stale
\* readings, die and restart implement the log: each file takes effect once,
\* in order, with its record.
Log == INSTANCE MigrationLog
MigratesInOrder == Log!Spec

\* What a runtime role may hold on the tables (phase-1.md:17-26).
Allowed == [g \in Roles \X {"jobs", "manifest_entries"} |->
  CASE g = <<"pdf_app", "jobs">>                     -> {"SELECT", "INSERT", "UPDATE"}
    [] g = <<"pdf_app", "manifest_entries">>         -> {"SELECT"}
    [] g = <<"manifest_writer", "manifest_entries">> -> {"SELECT", "INSERT"}
    [] OTHER                                         -> {}]

\* What no REVOKE names: these stay with a role that was once granted them on
\* a table, but for the REVOKE ALL of migrate.js:114.
Leftover(g) ==
  {p \in {"REFERENCES", "TRIGGER"} : g # <<"manifest_writer", "jobs">> /\ \E d \in Drifts : p \in d[g]}

\* server.js:17-22: while any replica listens, the files of its image are
\* applied and the runtime roles hold what they need on the tables, and beyond
\* it at most what no REVOKE names, whatever was granted before and whoever is
\* reconciling again meanwhile.
ServingIsLocked ==
  Serving # {} =>
    /\ roles = Roles
    /\ \A r \in Serving : 1..Image[r] \subseteq recorded
    /\ \A g \in DOMAIN Allowed : grants[g] \ Leftover(g) = Allowed[g]

\* prove-append-only.js:1-16: the script never reports a failure on a migrated
\* database, even while other replicas boot.
ProofPasses == probe # "failed"

\* phase-1.md:30-33 "It's safe here": of replicas that boot together and are
\* not disturbed, some replica comes to listen, though the others may exit.
SomeoneServes == <>(faults > 0 \/ Serving # {})

=============================================================================

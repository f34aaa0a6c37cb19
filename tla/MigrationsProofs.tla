-------------------------- MODULE MigrationsProofs --------------------------
(***************************************************************************)
(* Machine-checked proofs about Migrations, for any number of replicas and *)
(* files, whatever the images contain and whoever dies: the boot of the    *)
(* replicas implements MigrationLog, and once a replica listens the roles  *)
(* stay locked, whatever was granted before and whoever reconciles again.  *)
(***************************************************************************)
EXTENDS Migrations, Integers, FiniteSets, FiniteSetTheorems, SequenceTheorems,
        WellFoundedInduction, TLAPS

USE DEF schemaVars, roleVars, bootVars, probeVars, vars, Goto, Fault

(* The first file of a list is one of them, and no other comes before it.  *)
LEMMA FirstIsLeast ==
  ASSUME NEW S, S \subseteq Nat, S # {}
  PROVE  First(S) \in S /\ \A g \in S : First(S) <= g
<1> DEFINE T == {0..f : f \in S}
<1>1. T \subseteq FiniteSubsetsOf(Nat) /\ T # {}
  <2>1. ASSUME NEW f \in S PROVE 0..f \in FiniteSubsetsOf(Nat)
    <3>1. IsFiniteSet(0..f)
      BY FS_Interval
    <3> QED BY <3>1 DEF FiniteSubsetsOf
  <2> QED BY <2>1
<1>2. PICK X \in T : \A Y \in T : ~ (<<Y, X>> \in StrictSubsetOrdering(Nat))
  <2>1. IsWellFoundedOn(StrictSubsetOrdering(Nat), FiniteSubsetsOf(Nat))
    BY FS_StrictSubsetOrderingWellFounded
  <2> HIDE DEF T
  <2> QED BY WFMin, <1>1, <2>1
<1>3. PICK x \in S : X = 0..x
  BY <1>2
<1>4. \A y \in S : x <= y
  <2> SUFFICES ASSUME NEW y \in S, y < x PROVE FALSE
    BY SMT
  <2>1. 0..y \in T /\ 0..y \subseteq X /\ 0..y # X
    BY <1>3
  <2>2. <<0..y, X>> \in StrictSubsetOrdering(Nat)
    BY <2>1, <1>3 DEF StrictSubsetOrdering
  <2> QED BY <1>2, <2>1, <2>2
<1> QED BY <1>4 DEF First

-----------------------------------------------------------------------------
Migrating == {"next", "sql", "record", "commit"}

(* What the reading of schema_migrations that a replica goes by is worth,  *)
(* however old it is: a file that is not on its list is recorded, and only *)
(* one replica at a time gets to commit, and then the file that comes next.*)
LogInv ==
  /\ applied \in Seq(Nat) /\ Len(applied) <= NumFiles
  /\ recorded = 1..Len(applied)
  /\ pc \in [Replicas -> Labels]
  /\ todo \in [Replicas -> SUBSET Nat]
  /\ \A r \in Replicas : todo[r] \subseteq 1..Image[r]
  /\ \A r \in Replicas : pc[r] \in Migrating => (1..Image[r]) \ todo[r] \subseteq recorded
  /\ \A r \in Replicas : pc[r] \in {"sql", "record", "commit"} => todo[r] # {}
  /\ \A r \in Replicas : pc[r] \in {"reconcile", "serving"} => 1..Image[r] \subseteq recorded
  /\ \A r \in Replicas : pc[r] = "commit" => File(r) = Len(applied) + 1
  /\ \A q, r \in Replicas : pc[q] = "commit" /\ pc[r] = "commit" => q = r

(* A file that heads the list of a replica and is not recorded comes next. *)
LEMMA HeadComesNext ==
  ASSUME LogInv, NEW r \in Replicas, pc[r] \in Migrating, todo[r] # {},
         File(r) \notin recorded
  PROVE  File(r) = Len(applied) + 1 /\ File(r) <= NumFiles
<1>1. todo[r] \subseteq Nat /\ todo[r] \subseteq 1..Image[r] /\ Image[r] \in 1..NumFiles
  BY ImageAssumption DEF LogInv
<1>2. File(r) \in todo[r] /\ \A g \in todo[r] : File(r) <= g
  BY <1>1, FirstIsLeast DEF File
<1>3. recorded = 1..Len(applied) /\ Len(applied) \in Nat /\ (1..Image[r]) \ todo[r] \subseteq recorded
  BY DEF LogInv
<1>4. CASE File(r) > Len(applied) + 1
  <2>1. Len(applied) + 1 \in 1..Image[r] /\ Len(applied) + 1 \notin todo[r]
    BY <1>1, <1>2, <1>3, <1>4, ImageAssumption
  <2> QED BY <2>1, <1>3
<1> QED BY <1>1, <1>2, <1>3, <1>4, ImageAssumption

(* A database an earlier release left has the first files. *)
LEMMA LogInit == Init => LogInv /\ Log!Init
<1> SUFFICES ASSUME Init PROVE LogInv /\ Log!Init
  OBVIOUS
<1>1. PICK n \in 0..NumFiles : applied = [i \in 1..n |-> i] /\ recorded = 1..n
  BY DEF Init
<1>2. applied \in Seq(Nat) /\ Len(applied) = n
  BY <1>1, ImageAssumption
<1>3. Log!Init
  BY <1>1 DEF Log!Init
<1> QED BY <1>1, <1>2, <1>3, ImageAssumption DEF Init, LogInv, Labels, Migrating

(* A replica that exits has no list any more. *)
LEMMA ExitStep ==
  ASSUME LogInv, NEW r \in Replicas, Exit(r), UNCHANGED <<applied, recorded>>
  PROVE  LogInv'
<1>1. pc' \in [Replicas -> Labels]
  BY DEF Exit, LogInv, Labels
<1>2. todo' \in [Replicas -> SUBSET Nat]
  BY DEF Exit, LogInv
<1>3. \A q \in Replicas : pc'[q] # "exited" => q # r /\ pc'[q] = pc[q] /\ todo'[q] = todo[q]
  BY DEF Exit, LogInv
<1>4. \A q \in Replicas : todo'[q] \subseteq 1..Image[q]
  BY DEF Exit, LogInv
<1> QED
  BY <1>1, <1>2, <1>3, <1>4 DEF LogInv, Migrating, File

(* Every step of a replica keeps what its reading is worth, and either     *)
(* commits the file that comes next or leaves the log alone.               *)
LEMMA LogStep ==
  ASSUME LogInv, [Next]_vars
  PROVE  LogInv' /\ [Log!Apply]_<<applied, recorded>>
<1> DEFINE Kept == UNCHANGED <<applied, recorded>>
<1> USE DEF LogInv, Labels, Migrating, File
<1>1. ASSUME NEW r \in Replicas, Connect(r) PROVE LogInv' /\ Kept
  BY <1>1 DEF Connect
<1>2. ASSUME NEW r \in Replicas, EnsureMigrationsTable(r) PROVE LogInv' /\ Kept
  BY <1>2 DEF EnsureMigrationsTable
<1>3. ASSUME NEW r \in Replicas, AppliedSet(r) PROVE LogInv' /\ Kept
  BY <1>3, ImageAssumption DEF AppliedSet
<1>4. ASSUME NEW r \in Replicas, NextFile(r) PROVE LogInv' /\ Kept
  BY <1>4 DEF NextFile
<1>5. ASSUME NEW r \in Replicas, RunSql(r) PROVE LogInv' /\ Kept
  <2>1. CASE Exit(r)
    BY <1>5, <2>1, ExitStep DEF RunSql
  <2>2. CASE Goto(r, "sql", "record") /\ UNCHANGED todo
    BY <1>5, <2>2 DEF RunSql
  <2> QED BY <1>5, <2>1, <2>2 DEF RunSql
<1>6. ASSUME NEW r \in Replicas, RecordFile(r) PROVE LogInv' /\ Kept
  <2>1. CASE File(r) \in recorded
    BY <1>6, <2>1, ExitStep DEF RecordFile
  <2>2. CASE File(r) \notin recorded
    <3>1. File(r) = Len(applied) + 1
      BY <1>6, <2>2, HeadComesNext DEF RecordFile
    <3>2. \A q \in Replicas : pc[q] # "commit"
      BY <1>6, <3>1 DEF RecordFile
    <3> QED BY <1>6, <2>2, <3>1, <3>2 DEF RecordFile
  <2> QED BY <2>1, <2>2
<1>7. ASSUME NEW r \in Replicas, CommitFile(r) PROVE LogInv' /\ Log!Apply
  <2> DEFINE next == Len(applied) + 1
  <2>1. pc[r] = "commit" /\ File(r) = next /\ next \in Nat \ {0}
    BY <1>7 DEF CommitFile
  <2>2. next \notin recorded
    BY <2>1
  <2>3. next <= NumFiles
    BY <2>1, <2>2, HeadComesNext
  <2>4. applied' = Append(applied, next) /\ recorded' = recorded \union {next}
    BY <1>7, <2>1 DEF CommitFile
  <2>5. applied' \in Seq(Nat) /\ Len(applied') = next
    BY <2>1, <2>4
  <2>6. recorded' = 1..Len(applied')
    BY <2>4, <2>5
  <2>7. /\ pc' \in [Replicas -> Labels] /\ pc'[r] = "next"
        /\ \A q \in Replicas \ {r} : pc'[q] = pc[q] \/ pc'[q] = "exited"
    BY <1>7 DEF CommitFile
  <2>8. todo' \in [Replicas -> SUBSET Nat] /\ \A q \in Replicas :
          todo'[q] = IF q = r THEN todo[q] \ {next} ELSE todo[q]
    BY <1>7, <2>1 DEF CommitFile
  <2>9. \A q \in Replicas : pc'[q] # "commit"
    BY <2>1, <2>7
  <2>10. \A q \in Replicas : pc'[q] \in Migrating =>
           (1..Image[q]) \ todo'[q] \subseteq recorded'
    BY <2>1, <2>4, <2>7, <2>8
  <2> QED BY <2>3, <2>4, <2>5, <2>6, <2>7, <2>8, <2>9, <2>10 DEF Log!Apply
<1>8. ASSUME NEW r \in Replicas, Reconcile(r) PROVE LogInv' /\ Kept
  BY <1>8 DEF Reconcile, Advance
<1>9. ASSUME NEW r \in Replicas, Die(r) \/ Restart(r) PROVE LogInv' /\ Kept
  <2>1. CASE Die(r)
    BY <2>1, ExitStep DEF Die
  <2>2. CASE Restart(r)
    BY <2>2 DEF Restart
  <2> QED BY <1>9, <2>1, <2>2
<1>10. ASSUME NEW q \in Replicas, NEW r \in Replicas, ConflictingRoles(q, r)
       PROVE  LogInv' /\ Kept
  <2>1. /\ pc' \in [Replicas -> Labels] /\ pc'[r] = "exited"
        /\ pc[q] = "reconcile" /\ pc'[q] \in {"reconcile", "serving"}
        /\ \A p \in Replicas \ {q, r} : pc'[p] = pc[p]
    BY <1>10 DEF ConflictingRoles
  <2>2. todo' \in [Replicas -> SUBSET Nat] /\ todo'[r] = {} /\ \A p \in Replicas \ {r} : todo'[p] = todo[p]
    BY <1>10 DEF ConflictingRoles
  <2>3. UNCHANGED <<applied, recorded>>
    BY <1>10 DEF ConflictingRoles
  <2> QED BY <2>1, <2>2, <2>3
<1>11. ASSUME NEW q \in Replicas, NEW r \in Replicas, ConflictingTable(q, r)
       PROVE  LogInv' /\ Kept
  BY <1>11 DEF ConflictingTable
<1>12. CASE ProveAppendOnly
  <2>1. UNCHANGED <<applied, recorded, pc, todo>>
    BY <1>12 DEF ProveAppendOnly, Probe
  <2> QED BY <2>1
<1>13. CASE UNCHANGED vars
  BY <1>13
<1> HIDE DEF LogInv
<1> QED
  BY <1>1, <1>2, <1>3, <1>4, <1>5, <1>6, <1>7, <1>8, <1>9, <1>10, <1>11, <1>12, <1>13
     DEF Next, Boot

(* migrate.js:3-9, phase-1.md:31-33: replicas that boot together, die and   *)
(* restart implement MigrationLog: each file takes effect once, in order,   *)
(* in the step that records it.                                             *)
THEOREM MigrationLogRefined == Spec => MigratesInOrder
<1>1. Spec => []LogInv
  BY LogInit, LogStep, PTL DEF Spec
<1> QED
  BY <1>1, LogInit, LogStep, PTL DEF Spec, MigratesInOrder, Log!Spec

(* server.js:17-22: a replica listens only once the files of its image are  *)
(* recorded and applied, though it read the list of them long before.       *)
THEOREM ServesMigrated ==
  Spec => [](\A r \in Serving : 1..Image[r] \subseteq recorded)
<1>1. LogInv => \A r \in Serving : 1..Image[r] \subseteq recorded
  BY DEF LogInv, Serving
<1> QED
  BY <1>1, LogInit, LogStep, PTL DEF Spec

-----------------------------------------------------------------------------
(* The roles: what a boot has reconciled, no other boot undoes.            *)

\* What the statements are after: no GRANT gives more, no REVOKE takes it.
Wanted == [h \in Roles \X Objects |->
  CASE h[2] = "database"                           -> {"CONNECT"}
    [] h[2] = "schema"                             -> {"USAGE"}
    [] h = <<"pdf_app", "jobs">>                   -> {"SELECT", "INSERT", "UPDATE"}
    [] h = <<"pdf_app", "manifest_entries">>       -> {"SELECT"}
    [] h = <<"pdf_app", "id_seq">>                 -> {}
    [] h = <<"manifest_writer", "jobs">>           -> {}
    [] h = <<"manifest_writer", "manifest_entries">> -> {"SELECT", "INSERT"}
    [] OTHER                                       -> {"USAGE", "SELECT"}]

Statements == [op : {"role", "grant", "revoke"}, role : Roles, object : Objects \union Roles,
               privs : SUBSET Privs]

Sound(st) ==
  /\ st \in Statements
  /\ st.op = "role" => st.object \in Roles
  /\ st.op # "role" => st.object \in Objects
  /\ st.op = "grant" => /\ st.privs \subseteq Wanted[<<st.role, st.object>>]
                        /\ st.privs \subseteq PrivsOf(st.object)
  /\ st.op = "revoke" => st.privs \intersect Wanted[<<st.role, st.object>>] = {}

\* A statement is in effect.
Holds(st) ==
  /\ st.op = "role"   => st.role \in roles
  /\ st.op = "grant"  => st.privs \subseteq grants[<<st.role, st.object>>]
  /\ st.op = "revoke" => st.privs \intersect grants[<<st.role, st.object>>] = {}

Locked == \A k \in 1..Len(Reconciliation) : Holds(Reconciliation[k])

(* The statements of a boot, all of them sound.                            *)
LEMMA StatementsSound ==
  /\ Reconciliation \in Seq(Statements) /\ Len(Reconciliation) \in Nat \ {0}
  /\ \A k \in 1..Len(Reconciliation) : Sound(Reconciliation[k])
  /\ Range(Reconciliation) = Range(RoleStatements) \union Range(AppGrants) \union Range(WriterGrants)
<1> DEFINE Good == {st \in Statements : Sound(st)}
<1>1. RoleStatements \in Seq(Good) /\ Len(RoleStatements) = 2
  <2>1. \A role \in Roles : Role(role) \in Good
    BY DEF Role, Statements, Sound
  <2> QED BY <2>1 DEF RoleStatements, Roles
<1>2. AppGrants \in Seq(Good)
  <2>1. /\ Grant({"CONNECT"}, "database", "pdf_app") \in Good
        /\ Grant({"USAGE"}, "schema", "pdf_app") \in Good
        /\ Grant({"SELECT", "INSERT", "UPDATE"}, "jobs", "pdf_app") \in Good
    BY DEF Grant, Statements, Sound, Roles, Objects, Privs, TablePrivs, Wanted, PrivsOf
  <2>2. /\ Revoke({"DELETE", "TRUNCATE"}, "jobs", "pdf_app") \in Good
        /\ Grant({"SELECT"}, "manifest_entries", "pdf_app") \in Good
        /\ Revoke({"INSERT", "UPDATE", "DELETE", "TRUNCATE"}, "manifest_entries", "pdf_app") \in Good
    BY DEF Grant, Revoke, Statements, Sound, Roles, Objects, Privs, TablePrivs, Wanted, PrivsOf
  <2> HIDE DEF Good
  <2> QED BY <2>1, <2>2 DEF AppGrants
<1>3. WriterGrants \in Seq(Good)
  <2>1. /\ Grant({"CONNECT"}, "database", "manifest_writer") \in Good
        /\ Grant({"USAGE"}, "schema", "manifest_writer") \in Good
        /\ Grant({"SELECT", "INSERT"}, "manifest_entries", "manifest_writer") \in Good
    BY DEF Grant, Statements, Sound, Roles, Objects, Privs, TablePrivs, Wanted, PrivsOf
  <2>2. /\ Grant({"USAGE", "SELECT"}, "id_seq", "manifest_writer") \in Good
        /\ Revoke({"UPDATE", "DELETE", "TRUNCATE"}, "manifest_entries", "manifest_writer") \in Good
        /\ Revoke(TablePrivs, "jobs", "manifest_writer") \in Good
    BY DEF Grant, Revoke, Statements, Sound, Roles, Objects, Privs, TablePrivs, Wanted, PrivsOf
  <2> HIDE DEF Good
  <2> QED BY <2>1, <2>2 DEF WriterGrants
<1> HIDE DEF Good
<1>4. /\ RoleStatements \o AppGrants \in Seq(Good)
      /\ Len(RoleStatements \o AppGrants) = Len(RoleStatements) + Len(AppGrants)
      /\ Range(RoleStatements \o AppGrants) = Range(RoleStatements) \union Range(AppGrants)
  <2>1. RoleStatements \in Seq(Good) /\ AppGrants \in Seq(Good)
    BY <1>1, <1>2
  <2>2. /\ RoleStatements \o AppGrants \in Seq(Good)
        /\ Len(RoleStatements \o AppGrants) = Len(RoleStatements) + Len(AppGrants)
    BY <2>1, ConcatProperties
  <2>3. Range(RoleStatements \o AppGrants) = Range(RoleStatements) \union Range(AppGrants)
    BY <2>1, RangeConcatenation
  <2> QED BY <2>2, <2>3
<1>5. /\ Reconciliation = (RoleStatements \o AppGrants) \o WriterGrants
      /\ Len(AppGrants) \in Nat /\ Len(WriterGrants) \in Nat
  BY <1>1, <1>2, <1>3, ConcatAssociative DEF Reconciliation
<1>6. /\ Reconciliation \in Seq(Good)
      /\ Len(Reconciliation) = Len(RoleStatements \o AppGrants) + Len(WriterGrants)
      /\ Range(Reconciliation) = Range(RoleStatements \o AppGrants) \union Range(WriterGrants)
  <2> DEFINE first == RoleStatements \o AppGrants
  <2>1. first \in Seq(Good) /\ Reconciliation = first \o WriterGrants
    BY <1>4, <1>5
  <2> HIDE DEF first
  <2>2. Reconciliation \in Seq(Good) /\ Len(Reconciliation) = Len(first) + Len(WriterGrants)
    BY <1>3, <2>1, ConcatProperties
  <2>3. Range(Reconciliation) = Range(first) \union Range(WriterGrants)
    BY <1>3, <2>1, RangeConcatenation
  <2> QED BY <2>2, <2>3 DEF first
<1>7. \A k \in 1..Len(Reconciliation) : Reconciliation[k] \in Good
  BY <1>6
<1>8. Reconciliation \in Seq(Statements)
  BY <1>6, <1>7 DEF Good
<1> QED BY <1>1, <1>4, <1>5, <1>6, <1>7, <1>8 DEF Good

(* A statement takes effect, and no other statement goes out of effect.    *)
LEMMA NothingUndone ==
  ASSUME NEW st, Sound(st), roles \subseteq Roles, grants \in Grants, Execute(st)
  PROVE  /\ roles' \subseteq Roles /\ grants' \in Grants /\ Holds(st)'
         /\ \A other : Sound(other) /\ Holds(other) => Holds(other)'
<1> DEFINE h == <<st.role, st.object>>
<1>1. CASE st.op = "role"
  <2>1. roles' = roles \union {st.role} /\ grants' = grants /\ st.role \in Roles
    BY <1>1 DEF Execute, Sound, Statements
  <2> QED BY <1>1, <2>1 DEF Holds
<1>2. ASSUME st.op \in {"grant", "revoke"},
             NEW new \in SUBSET Privs, new \subseteq PrivsOf(st.object),
             grants' = [grants EXCEPT ![h] = new],
             st.op = "grant" => new = grants[h] \union st.privs,
             st.op = "revoke" => new = grants[h] \ st.privs
      PROVE  /\ roles' \subseteq Roles /\ grants' \in Grants /\ Holds(st)'
             /\ \A other : Sound(other) /\ Holds(other) => Holds(other)'
  <2>1. roles' = roles /\ h \in Roles \X Objects
    BY <1>2 DEF Execute, Sound, Statements
  <2>2. /\ grants' \in [Roles \X Objects -> SUBSET Privs]
        /\ \A g \in Roles \X Objects : grants'[g] = IF g = h THEN new ELSE grants[g]
    BY <1>2, <2>1 DEF Grants
  <2>3. grants' \in Grants
    BY <1>2, <2>1, <2>2 DEF Grants
  <2>4. Holds(st)'
    BY <1>2, <2>1, <2>2 DEF Holds
  <2>5. ASSUME NEW other, Sound(other), Holds(other) PROVE Holds(other)'
    <3>1. CASE other.op = "role"
      BY <2>1, <2>5, <3>1 DEF Holds
    <3>2. CASE other.op # "role"
      <4> DEFINE g == <<other.role, other.object>>
      <4>1. g \in Roles \X Objects /\ other.op \in {"grant", "revoke"}
        BY <2>5, <3>2 DEF Sound, Statements
      <4>2. /\ other.op = "grant"  => other.privs \subseteq grants[g] /\ other.privs \subseteq Wanted[g]
            /\ other.op = "revoke" => other.privs \intersect grants[g] = {} /\ other.privs \intersect Wanted[g] = {}
        BY <2>5 DEF Holds, Sound
      <4>3. /\ st.op = "grant"  => st.privs \subseteq Wanted[h]
            /\ st.op = "revoke" => st.privs \intersect Wanted[h] = {}
        BY DEF Sound
      <4>4. /\ other.op = "grant"  => other.privs \subseteq grants'[g]
            /\ other.op = "revoke" => other.privs \intersect grants'[g] = {}
        BY <1>2, <2>2, <4>1, <4>2, <4>3
      <4> QED BY <3>2, <4>4 DEF Holds
    <3> QED BY <3>1, <3>2
  <2> QED BY <2>1, <2>3, <2>4, <2>5
<1>3. h \in Roles \X Objects => grants[h] \subseteq PrivsOf(st.object) /\ grants[h] \subseteq Privs
  BY DEF Grants
<1>4. CASE st.op = "grant"
  <2>1. /\ grants' = [grants EXCEPT ![h] = grants[h] \union st.privs]
        /\ h \in Roles \X Objects
        /\ st.privs \subseteq PrivsOf(st.object) /\ st.privs \subseteq Privs
    BY <1>4 DEF Execute, Sound, Statements
  <2> QED BY <1>2, <1>3, <1>4, <2>1
<1>5. CASE st.op = "revoke"
  <2>1. grants' = [grants EXCEPT ![h] = grants[h] \ st.privs] /\ h \in Roles \X Objects
    BY <1>5 DEF Execute, Sound, Statements
  <2> QED BY <1>2, <1>3, <1>5, <2>1
<1> QED BY <1>1, <1>4, <1>5 DEF Sound, Statements

-----------------------------------------------------------------------------
(* The replicas and the roles.                                             *)

\* A replica that has come to statement n has all before it in effect; once
\* one replica listens all of them are, and stay so.
RoleInv ==
  /\ roles \subseteq Roles /\ grants \in Grants
  /\ at \in [Replicas -> 1..(Len(Reconciliation) + Retries)]
  /\ \A r \in Replicas : pc[r] = "connect" => at[r] <= Retries
  /\ \A r \in Replicas : pc[r] \in Migrating \union {"table", "list", "exited"} => at[r] = 1
  /\ \A r \in Replicas : pc[r] = "reconcile" =>
        /\ at[r] <= Len(Reconciliation)
        /\ \A k \in 1..(at[r] - 1) : Holds(Reconciliation[k])
  /\ Serving # {} \/ probe # "off" => Locked

\* What the script has seen so far.
ProbeInv ==
  /\ probe \in Probes \ {"failed"}
  /\ probe \in {"off", "seed", "append"} => rows = <<>>
  /\ probe \in Probes \ {"off", "seed", "append"} => rows = <<"rendered">>

(* One statement more is in effect, and all that were before still are.    *)
LEMMA StatementTakesEffect ==
  ASSUME RoleInv, NEW n \in 1..Len(Reconciliation), Execute(Reconciliation[n])
  PROVE  /\ roles' \subseteq Roles /\ grants' \in Grants /\ Holds(Reconciliation[n])'
         /\ \A k \in 1..Len(Reconciliation) :
              Holds(Reconciliation[k]) => Holds(Reconciliation[k])'
         /\ Locked => Locked'
<1> DEFINE st == Reconciliation[n]
<1>1. Sound(st) /\ \A k \in 1..Len(Reconciliation) : Sound(Reconciliation[k])
  BY StatementsSound
<1>2. Execute(st) /\ roles \subseteq Roles /\ grants \in Grants
  BY DEF RoleInv
<1> HIDE DEF st
<1>3. /\ roles' \subseteq Roles /\ grants' \in Grants /\ Holds(st)'
      /\ \A other : Sound(other) /\ Holds(other) => Holds(other)'
  BY <1>1, <1>2, NothingUndone
<1>4. \A k \in 1..Len(Reconciliation) : Holds(Reconciliation[k]) => Holds(Reconciliation[k])'
  BY <1>1, <1>3
<1> QED BY <1>3, <1>4 DEF st, Locked

(* A step that changes no role leaves every statement as it was.           *)
LEMMA SameRoles ==
  ASSUME UNCHANGED <<roles, grants>>
  PROVE  /\ \A k \in 1..Len(Reconciliation) :
              Holds(Reconciliation[k]) => Holds(Reconciliation[k])'
         /\ Locked => Locked'
<1>1. \A k \in 1..Len(Reconciliation) : Holds(Reconciliation[k]) => Holds(Reconciliation[k])'
  BY DEF Holds
<1> QED BY <1>1 DEF Locked

(* Before anyone boots: no roles, or roles as an earlier release and hands *)
(* have left them.                                                         *)
LEMMA RoleInit == Init => RoleInv /\ ProbeInv
<1> SUFFICES ASSUME Init PROVE RoleInv /\ ProbeInv
  OBVIOUS
<1>1. roles \subseteq Roles /\ grants \in Grants
  <2>1. NoGrants \in Grants
    BY DEF NoGrants, Grants
  <2> QED BY <2>1, DriftsAssumption DEF Init
<1>2. Serving = {} /\ probe = "off"
  BY DEF Init, Serving
<1>3. at = [r \in Replicas |-> 1] /\ pc = [r \in Replicas |-> "connect"]
  BY DEF Init
<1>4. Len(Reconciliation) \in Nat
  BY StatementsSound
<1> QED BY <1>1, <1>2, <1>3, <1>4, RetriesAssumption DEF RoleInv, ProbeInv, Probes, Init, Migrating

(* A replica executes its statement: it has one more behind it, and nobody *)
(* has one fewer.                                                          *)
LEMMA ReconcileKeeps ==
  ASSUME RoleInv, LogInv, NEW q \in Replicas, pc[q] = "reconcile", Execute(Statement(q)),
         pc' \in [Replicas -> Labels], at' \in [Replicas -> Nat],
         IF at[q] = Len(Reconciliation) THEN pc'[q] = "serving" /\ at'[q] = 1
                                        ELSE pc'[q] = "reconcile" /\ at'[q] = at[q] + 1,
         \A r \in Replicas \ {q} : \/ pc'[r] = pc[r] /\ at'[r] = at[r]
                                   \/ pc'[r] = "exited" /\ at'[r] = 1,
         UNCHANGED probe
  PROVE  RoleInv'
<1> DEFINE L == Len(Reconciliation)
<1>1. L \in Nat \ {0} /\ at[q] \in 1..L /\ Retries \in Nat
  BY StatementsSound, RetriesAssumption DEF RoleInv
<1>. PICK n \in 1..L : n = at[q]
  BY <1>1
<1>2. /\ roles' \subseteq Roles /\ grants' \in Grants /\ Holds(Reconciliation[n])'
      /\ \A k \in 1..L : Holds(Reconciliation[k]) => Holds(Reconciliation[k])'
      /\ Locked => Locked'
  BY StatementTakesEffect DEF Statement
<1>3. \A k \in 1..n : Holds(Reconciliation[k])'
  <2>1. \A k \in 1..(n - 1) : Holds(Reconciliation[k])
    BY DEF RoleInv
  <2> QED BY <1>1, <1>2, <2>1
<1>4. at[q] = L => Locked'
  BY <1>3 DEF Locked
<1>5. at' \in [Replicas -> 1..(L + Retries)]
  <2>1. \A r \in Replicas : at'[r] \in 1..(L + Retries)
    BY <1>1 DEF RoleInv
  <2> QED BY <2>1
<1>6. \A r \in Replicas : pc'[r] = "connect" => at'[r] <= Retries
  BY DEF RoleInv
<1>7. \A r \in Replicas : pc'[r] \in Migrating \union {"table", "list", "exited"} => at'[r] = 1
  BY DEF RoleInv, Migrating
<1>8. ASSUME NEW r \in Replicas, pc'[r] = "reconcile"
      PROVE  at'[r] <= L /\ \A k \in 1..(at'[r] - 1) : Holds(Reconciliation[k])'
  <2>1. CASE r = q
    BY <1>1, <1>3, <1>8, <2>1
  <2>2. CASE r # q
    <3>1. pc[r] = "reconcile" /\ at'[r] = at[r]
      BY <1>8, <2>2
    <3>2. at[r] \in 1..L /\ \A k \in 1..(at[r] - 1) : Holds(Reconciliation[k])
      BY <3>1, <1>1 DEF RoleInv
    <3> QED BY <1>1, <1>2, <3>1, <3>2
  <2> QED BY <2>1, <2>2
<1>9. Serving' # {} \/ probe' # "off" => Locked'
  <2>1. Serving' # {} => Serving # {} \/ at[q] = L
    BY DEF Serving
  <2> QED BY <1>2, <1>4, <2>1 DEF RoleInv
<1> HIDE DEF L
<1> QED BY <1>2, <1>5, <1>6, <1>7, <1>8, <1>9 DEF RoleInv, L

(* Every other step of a replica changes only where it is.                 *)
LEMMA BootKeeps ==
  ASSUME RoleInv, LogInv, NEW r \in Replicas, UNCHANGED <<roles, grants, probe>>,
         pc' \in [Replicas -> Labels], at' \in [Replicas -> Nat],
         \A q \in Replicas \ {r} : \/ pc'[q] = pc[q] /\ at'[q] = at[q]
                                   \/ pc'[q] = "exited" /\ at'[q] = 1,
         at'[r] \in 1..Retries, pc'[r] # "connect" => at'[r] = 1, pc'[r] # "serving"
  PROVE  RoleInv'
<1> DEFINE L == Len(Reconciliation)
<1>1. L \in Nat \ {0} /\ Retries \in Nat \ {0}
  BY StatementsSound, RetriesAssumption
<1>2. /\ \A k \in 1..L : Holds(Reconciliation[k]) => Holds(Reconciliation[k])'
      /\ Locked => Locked'
  BY SameRoles
<1>3. at' \in [Replicas -> 1..(L + Retries)]
  <2>1. \A q \in Replicas : at'[q] \in 1..(L + Retries)
    BY <1>1 DEF RoleInv
  <2> QED BY <2>1
<1>4. \A q \in Replicas : pc'[q] = "connect" => at'[q] <= Retries
  BY <1>1 DEF RoleInv
<1>5. \A q \in Replicas : pc'[q] \in Migrating \union {"table", "list", "exited"} => at'[q] = 1
  BY DEF RoleInv, Migrating
<1>6. ASSUME NEW q \in Replicas, pc'[q] = "reconcile"
      PROVE  at'[q] <= L /\ \A k \in 1..(at'[q] - 1) : Holds(Reconciliation[k])'
  <2>1. CASE q = r
    BY <1>1, <1>6, <2>1
  <2>2. CASE q # r
    <3>1. pc[q] = "reconcile" /\ at'[q] = at[q]
      BY <1>6, <2>2
    <3>2. at[q] \in Nat /\ at[q] <= L /\ \A k \in 1..(at[q] - 1) : Holds(Reconciliation[k])
      BY <3>1, <1>1 DEF RoleInv
    <3> QED BY <1>1, <1>2, <3>1, <3>2
  <2> QED BY <2>1, <2>2
<1>7. Serving' # {} \/ probe' # "off" => Locked'
  <2>1. Serving' # {} => Serving # {}
    BY DEF Serving
  <2> QED BY <1>2, <2>1 DEF RoleInv
<1>8. roles' \subseteq Roles /\ grants' \in Grants
  BY DEF RoleInv
<1> HIDE DEF L
<1> QED BY <1>3, <1>4, <1>5, <1>6, <1>7, <1>8 DEF RoleInv, L

(* With every statement in effect the roles hold what the tables need of   *)
(* them, and beyond it at most what no REVOKE names.                       *)
LEMMA LockedIsAllowed ==
  ASSUME roles \subseteq Roles, grants \in Grants, Locked
  PROVE  /\ roles = Roles
         /\ \A g \in DOMAIN Allowed :
              /\ Allowed[g] \subseteq grants[g]
              /\ grants[g] \subseteq Allowed[g] \union {"REFERENCES", "TRIGGER"}
         /\ grants[<<"manifest_writer", "jobs">>] = {}
<1> DEFINE Rest == {"REFERENCES", "TRIGGER"}
<1>1. \A st \in Range(Reconciliation) : Holds(st)
  <2>1. \A st \in Range(Reconciliation) :
          \E k \in 1..Len(Reconciliation) : st = Reconciliation[k]
    BY StatementsSound DEF Range
  <2> QED BY <2>1 DEF Locked
<1>2. \A st \in Range(RoleStatements) \union Range(AppGrants) \union Range(WriterGrants) : Holds(st)
  BY <1>1, StatementsSound
<1>3. Holds(Role("pdf_app")) /\ Holds(Role("manifest_writer"))
  <2>1. Role("pdf_app") \in Range(RoleStatements) /\ Role("manifest_writer") \in Range(RoleStatements)
    BY DEF RoleStatements, Range
  <2> QED BY <1>2, <2>1
<1>4. /\ Holds(Grant({"SELECT", "INSERT", "UPDATE"}, "jobs", "pdf_app"))
      /\ Holds(Revoke({"DELETE", "TRUNCATE"}, "jobs", "pdf_app"))
      /\ Holds(Grant({"SELECT"}, "manifest_entries", "pdf_app"))
      /\ Holds(Revoke({"INSERT", "UPDATE", "DELETE", "TRUNCATE"}, "manifest_entries", "pdf_app"))
  <2>1. Len(AppGrants) = 6 /\ DOMAIN AppGrants = 1..6
    BY DEF AppGrants
  <2>2. \A k \in 1..6 : AppGrants[k] \in Range(AppGrants)
    BY <2>1 DEF Range
  <2>3. \A k \in 1..6 : Holds(AppGrants[k])
    BY <1>2, <2>2
  <2>4. /\ AppGrants[3] = Grant({"SELECT", "INSERT", "UPDATE"}, "jobs", "pdf_app")
        /\ AppGrants[4] = Revoke({"DELETE", "TRUNCATE"}, "jobs", "pdf_app")
        /\ AppGrants[5] = Grant({"SELECT"}, "manifest_entries", "pdf_app")
        /\ AppGrants[6] = Revoke({"INSERT", "UPDATE", "DELETE", "TRUNCATE"}, "manifest_entries", "pdf_app")
    BY DEF AppGrants
  <2> QED BY <2>3, <2>4
<1>5. /\ Holds(Grant({"SELECT", "INSERT"}, "manifest_entries", "manifest_writer"))
      /\ Holds(Revoke({"UPDATE", "DELETE", "TRUNCATE"}, "manifest_entries", "manifest_writer"))
      /\ Holds(Revoke(TablePrivs, "jobs", "manifest_writer"))
  <2>1. Len(WriterGrants) = 6 /\ DOMAIN WriterGrants = 1..6
    BY DEF WriterGrants
  <2>2. \A k \in 1..6 : WriterGrants[k] \in Range(WriterGrants)
    BY <2>1 DEF Range
  <2>3. \A k \in 1..6 : Holds(WriterGrants[k])
    BY <1>2, <2>2
  <2>4. /\ WriterGrants[3] = Grant({"SELECT", "INSERT"}, "manifest_entries", "manifest_writer")
        /\ WriterGrants[5] = Revoke({"UPDATE", "DELETE", "TRUNCATE"}, "manifest_entries", "manifest_writer")
        /\ WriterGrants[6] = Revoke(TablePrivs, "jobs", "manifest_writer")
    BY DEF WriterGrants
  <2> QED BY <2>3, <2>4
<1>6. roles = Roles
  BY <1>3 DEF Holds, Role, Roles
<1>7. \A role \in Roles : /\ grants[<<role, "jobs">>] \subseteq TablePrivs
                         /\ grants[<<role, "manifest_entries">>] \subseteq TablePrivs
  <2>1. ASSUME NEW role \in Roles, NEW object \in {"jobs", "manifest_entries"}
        PROVE  grants[<<role, object>>] \subseteq PrivsOf(object)
    BY <2>1 DEF Grants, Objects
  <2> QED BY <2>1 DEF PrivsOf
<1>8. /\ {"SELECT", "INSERT", "UPDATE"} \subseteq grants[<<"pdf_app", "jobs">>]
      /\ grants[<<"pdf_app", "jobs">>] \subseteq {"SELECT", "INSERT", "UPDATE"} \union Rest
      /\ {"SELECT"} \subseteq grants[<<"pdf_app", "manifest_entries">>]
      /\ grants[<<"pdf_app", "manifest_entries">>] \subseteq {"SELECT"} \union Rest
  BY <1>4, <1>7 DEF Holds, Grant, Revoke, Roles, TablePrivs
<1>9. /\ {"SELECT", "INSERT"} \subseteq grants[<<"manifest_writer", "manifest_entries">>]
      /\ grants[<<"manifest_writer", "manifest_entries">>] \subseteq {"SELECT", "INSERT"} \union Rest
      /\ grants[<<"manifest_writer", "jobs">>] = {}
  BY <1>5, <1>7 DEF Holds, Grant, Revoke, Roles, TablePrivs
<1>10. ASSUME NEW g \in Roles \X {"jobs", "manifest_entries"}
       PROVE  Allowed[g] \subseteq grants[g] /\ grants[g] \subseteq Allowed[g] \union Rest
  <2>1. g \in {<<"pdf_app", "jobs">>, <<"pdf_app", "manifest_entries">>,
               <<"manifest_writer", "jobs">>, <<"manifest_writer", "manifest_entries">>}
    BY <1>10 DEF Roles
  <2> HIDE DEF Rest
  <2> QED BY <1>8, <1>9, <2>1 DEF Allowed, Roles
<1> QED BY <1>6, <1>9, <1>10 DEF Allowed

(* No step of a replica undoes what another has in effect.                 *)
LEMMA RoleStep ==
  ASSUME LogInv, RoleInv, [Next]_vars, LogInv'
  PROVE  RoleInv'
<1> DEFINE L == Len(Reconciliation)
<1>0. L \in Nat \ {0} /\ Retries \in Nat \ {0}
  BY StatementsSound, RetriesAssumption
<1>a. /\ pc \in [Replicas -> Labels] /\ pc' \in [Replicas -> Labels]
      /\ at \in [Replicas -> 1..(L + Retries)]
      /\ \A r \in Replicas : pc[r] = "connect" => at[r] <= Retries
      /\ \A r \in Replicas : pc[r] \in Migrating \union {"table", "list", "exited"} => at[r] = 1
  BY DEF LogInv, RoleInv
<1> HIDE DEF L
<1>1. ASSUME NEW r \in Replicas, Connect(r) PROVE RoleInv'
  <2>1. UNCHANGED <<roles, grants, probe>> /\ at' \in [Replicas -> Nat]
    BY <1>0, <1>a, <1>1 DEF Connect
  <2>2. \A q \in Replicas \ {r} : pc'[q] = pc[q] /\ at'[q] = at[q]
    BY <1>a, <1>1 DEF Connect
  <2>3. at'[r] \in 1..Retries /\ (pc'[r] # "connect" => at'[r] = 1) /\ pc'[r] # "serving"
    BY <1>0, <1>a, <1>1 DEF Connect
  <2> QED BY <1>a, <2>1, <2>2, <2>3, BootKeeps
<1>2. ASSUME NEW r \in Replicas,
             UNCHANGED <<roles, grants, probe>>,
             \/ /\ pc[r] \in Migrating \union {"table", "list", "exited"} /\ UNCHANGED at
                /\ \E label \in Labels \ {"serving"} : pc' = [pc EXCEPT ![r] = label]
             \/ Exit(r)
      PROVE  RoleInv'
  <2>1. at' \in [Replicas -> Nat]
    BY <1>0, <1>a, <1>2 DEF Exit
  <2>2. \A q \in Replicas \ {r} : pc'[q] = pc[q] /\ at'[q] = at[q]
    BY <1>a, <1>2 DEF Exit
  <2>3. at'[r] = 1 /\ pc'[r] # "serving"
    BY <1>a, <1>2 DEF Exit
  <2> QED BY <1>0, <1>a, <1>2, <2>1, <2>2, <2>3, BootKeeps
<1>3. ASSUME NEW r \in Replicas,
             EnsureMigrationsTable(r) \/ AppliedSet(r) \/ NextFile(r) \/ Restart(r)
      PROVE  RoleInv'
  <2>1. UNCHANGED <<roles, grants, probe, at>>
    BY <1>3 DEF EnsureMigrationsTable, AppliedSet, NextFile, Restart
  <2>2. pc[r] \in Migrating \union {"table", "list", "exited"}
    BY <1>3 DEF EnsureMigrationsTable, AppliedSet, NextFile, Restart, Migrating
  <2>3. \E label \in Labels \ {"serving"} : pc' = [pc EXCEPT ![r] = label]
    BY <1>3 DEF EnsureMigrationsTable, AppliedSet, NextFile, Restart, Labels
  <2> QED BY <1>2, <2>1, <2>2, <2>3
<1>4. ASSUME NEW r \in Replicas, RunSql(r) \/ RecordFile(r) \/ Die(r) PROVE RoleInv'
  <2>1. UNCHANGED <<roles, grants, probe>>
    BY <1>4 DEF RunSql, RecordFile, Die
  <2>2. \/ Exit(r)
        \/ /\ pc[r] \in Migrating /\ UNCHANGED at
           /\ \E label \in Labels \ {"serving"} : pc' = [pc EXCEPT ![r] = label]
    BY <1>4 DEF RunSql, RecordFile, Die, Labels, Migrating
  <2> QED BY <1>2, <2>1, <2>2
<1>5. ASSUME NEW r \in Replicas, Reconcile(r) PROVE RoleInv'
  <2>1. pc[r] = "reconcile" /\ Execute(Statement(r)) /\ UNCHANGED probe
    BY <1>5 DEF Reconcile, Advance
  <2>2. at' \in [Replicas -> Nat]
    BY <1>0, <1>a, <1>5 DEF Reconcile, Advance
  <2>3. IF at[r] = Len(Reconciliation) THEN pc'[r] = "serving" /\ at'[r] = 1
                                       ELSE pc'[r] = "reconcile" /\ at'[r] = at[r] + 1
    BY <1>a, <1>5, <2>1 DEF Reconcile, Advance
  <2>4. \A q \in Replicas \ {r} : pc'[q] = pc[q] /\ at'[q] = at[q]
    BY <1>a, <1>5 DEF Reconcile, Advance
  <2> QED BY <1>a, <2>1, <2>2, <2>3, <2>4, ReconcileKeeps
<1>6. ASSUME NEW q \in Replicas, NEW r \in Replicas, ConflictingRoles(q, r) PROVE RoleInv'
  <2>1. q # r /\ pc[q] = "reconcile" /\ Execute(Statement(q)) /\ UNCHANGED probe
    BY <1>6 DEF ConflictingRoles
  <2>2. at' \in [Replicas -> Nat]
    BY <1>0, <1>a, <1>6 DEF ConflictingRoles
  <2>3. IF at[q] = Len(Reconciliation) THEN pc'[q] = "serving" /\ at'[q] = 1
                                       ELSE pc'[q] = "reconcile" /\ at'[q] = at[q] + 1
    BY <1>a, <1>6, <2>1 DEF ConflictingRoles
  <2>4. \A p \in Replicas \ {q} : \/ pc'[p] = pc[p] /\ at'[p] = at[p]
                                  \/ pc'[p] = "exited" /\ at'[p] = 1
    BY <1>a, <1>6 DEF ConflictingRoles
  <2> QED BY <1>a, <2>1, <2>2, <2>3, <2>4, ReconcileKeeps
<1>7. ASSUME NEW q \in Replicas, NEW r \in Replicas, ConflictingTable(q, r) PROVE RoleInv'
  <2>1. /\ q # r /\ pc[q] = "table" /\ pc[r] = "table" /\ UNCHANGED <<roles, grants, probe, at>>
        /\ pc' = [pc EXCEPT ![q] = "list", ![r] = "exited"]
    BY <1>7 DEF ConflictingTable
  <2>2. at[q] = 1 /\ at[r] = 1 /\ at' \in [Replicas -> Nat]
    BY <1>0, <1>a, <2>1
  <2>3. \A p \in Replicas \ {q} : \/ pc'[p] = pc[p] /\ at'[p] = at[p]
                                  \/ pc'[p] = "exited" /\ at'[p] = 1
    BY <1>a, <2>1, <2>2
  <2>4. pc'[q] = "list" /\ at'[q] = 1
    BY <1>a, <2>1, <2>2
  <2> QED BY <1>0, <1>a, <2>1, <2>2, <2>3, <2>4, BootKeeps
<1>9. ASSUME NEW r \in Replicas, CommitFile(r) PROVE RoleInv'
  <2>1. pc[r] = "commit" /\ at[r] = 1 /\ UNCHANGED <<roles, grants, probe>>
    BY <1>a, <1>9 DEF CommitFile, Migrating
  <2>2. PICK Failed \in SUBSET Granting(Alters(File(r))) :
          /\ pc' = [q \in Replicas |-> IF q = r THEN "next" ELSE IF q \in Failed THEN "exited" ELSE pc[q]]
          /\ at' = [q \in Replicas |-> IF q \in Failed THEN 1 ELSE at[q]]
    BY <1>9 DEF CommitFile
  <2>3. r \notin Failed
    BY <2>1 DEF Granting
  <2>4. at' \in [Replicas -> Nat]
    BY <1>0, <1>a, <2>2
  <2>5. \A q \in Replicas \ {r} : \/ pc'[q] = pc[q] /\ at'[q] = at[q]
                                  \/ pc'[q] = "exited" /\ at'[q] = 1
    BY <2>2
  <2>6. pc'[r] = "next" /\ at'[r] = 1
    BY <2>1, <2>2, <2>3
  <2> QED BY <1>0, <1>a, <2>1, <2>4, <2>5, <2>6, BootKeeps
<1>8. CASE ProveAppendOnly \/ UNCHANGED vars
  <2>1. UNCHANGED <<roles, grants, pc, at>>
    BY <1>8 DEF ProveAppendOnly, Probe
  <2>2. /\ \A k \in 1..Len(Reconciliation) :
             Holds(Reconciliation[k]) <=> Holds(Reconciliation[k])'
        /\ Locked => Locked'
    BY <2>1, SameRoles DEF Holds
  <2>3. Serving' = Serving /\ (probe' # "off" => probe # "off" \/ Serving # {})
    BY <1>8, <2>1 DEF ProveAppendOnly, Probe, Serving
  <2> QED BY <2>1, <2>2, <2>3 DEF RoleInv
<1> QED
  BY <1>1, <1>3, <1>4, <1>5, <1>6, <1>7, <1>8, <1>9 DEF Next, Boot

\* Beyond what it needs, a role holds only what it held before the first boot.
DriftInv ==
  \A g \in DOMAIN Allowed : \A p \in grants[g] \ Allowed[g] : \E d \in Drifts : p \in d[g]

LEMMA DriftInit == Init => DriftInv
<1> SUFFICES ASSUME Init, NEW g \in DOMAIN Allowed, NEW p \in grants[g] PROVE \E d \in Drifts : p \in d[g]
  BY DEF DriftInv
<1>1. g \in Roles \X Objects
  BY DEF Allowed, Objects
<1>2. grants # NoGrants
  BY <1>1 DEF NoGrants
<1> QED BY <1>2 DEF Init

(* No statement gives more than is needed.                                 *)
LEMMA DriftStep ==
  ASSUME RoleInv, DriftInv, [Next]_vars
  PROVE  DriftInv'
<1>1. UNCHANGED grants \/ \E r \in Replicas : pc[r] = "reconcile" /\ Execute(Statement(r))
  BY DEF Next, Boot, Connect, EnsureMigrationsTable, AppliedSet, NextFile, RunSql, RecordFile,
         CommitFile, Reconcile, Advance, ConflictingRoles, ConflictingTable, Die, Restart,
         ProveAppendOnly, Probe
<1>2. ASSUME NEW r \in Replicas, pc[r] = "reconcile", Execute(Statement(r)),
             NEW g \in DOMAIN Allowed
      PROVE  grants'[g] \ Allowed[g] \subseteq grants[g]
  <2> DEFINE st == Statement(r)
             h  == <<st.role, st.object>>
  <2>1. Sound(st)
    <3>1. at[r] \in 1..Len(Reconciliation)
      <4>1. at[r] \in 1..(Len(Reconciliation) + Retries) /\ at[r] <= Len(Reconciliation)
        BY <1>2 DEF RoleInv
      <4>2. Len(Reconciliation) \in Nat /\ Retries \in Nat
        BY StatementsSound, RetriesAssumption
      <4> QED BY <4>1, <4>2
    <3> QED BY <3>1, StatementsSound DEF Statement
  <2>2. g \in Roles \X {"jobs", "manifest_entries"} /\ Wanted[g] = Allowed[g]
    BY DEF Allowed, Wanted, Objects, Roles
  <2>3. grants \in [Roles \X Objects -> SUBSET Privs] /\ g \in Roles \X Objects
    BY <2>2 DEF RoleInv, Grants, Objects
  <2> HIDE DEF st
  <2>4. CASE st.op = "role"
    BY <1>2, <2>1, <2>4 DEF Execute, st
  <2>5. CASE st.op = "grant"
    <3>1. grants' = [grants EXCEPT ![h] = @ \union st.privs] /\ st.privs \subseteq Wanted[h]
      BY <1>2, <2>1, <2>5 DEF Execute, Sound, st
    <3> QED BY <2>2, <2>3, <3>1
  <2>6. CASE st.op = "revoke"
    <3>1. grants' = [grants EXCEPT ![h] = @ \ st.privs]
      BY <1>2, <2>6 DEF Execute, st
    <3> QED BY <2>3, <3>1
  <2> QED BY <2>1, <2>4, <2>5, <2>6 DEF Sound, Statements
<1> QED BY <1>1, <1>2 DEF DriftInv

(* Whatever the other replicas do meanwhile, no step of the script fails.  *)
LEMMA ProbeStep ==
  ASSUME RoleInv, ProbeInv, [Next]_vars
  PROVE  ProbeInv'
<1>1. CASE ProveAppendOnly
  <2> DEFINE Step(from, to) == probe = from /\ probe' = to
  <2>1. probe # "off" =>
          /\ May("pdf_app", "INSERT", "jobs") /\ ~May("pdf_app", "INSERT", "manifest_entries")
          /\ May("manifest_writer", "INSERT", "manifest_entries")
          /\ May("manifest_writer", "SELECT", "manifest_entries")
          /\ ~May("manifest_writer", "UPDATE", "manifest_entries")
          /\ ~May("manifest_writer", "DELETE", "manifest_entries")
    <3>1. probe # "off" => \A g \in DOMAIN Allowed :
             /\ Allowed[g] \subseteq grants[g]
             /\ grants[g] \subseteq Allowed[g] \union {"REFERENCES", "TRIGGER"}
      BY LockedIsAllowed DEF RoleInv
    <3>2. /\ DOMAIN Allowed = Roles \X {"jobs", "manifest_entries"}
          /\ Allowed[<<"pdf_app", "jobs">>] = {"SELECT", "INSERT", "UPDATE"}
          /\ Allowed[<<"pdf_app", "manifest_entries">>] = {"SELECT"}
          /\ Allowed[<<"manifest_writer", "manifest_entries">>] = {"SELECT", "INSERT"}
      BY DEF Allowed, Roles
    <3> QED BY <3>1, <3>2 DEF May, Roles
  <2>2. \/ Step("off", "seed") /\ rows' = <<>>
        \/ Step("seed", "append") /\ rows' = rows
        \/ Step("append", "update") /\ rows' = Append(rows, "rendered")
        \/ Step("update", "delete") /\ rows' = rows
        \/ Step("delete", "forge") /\ rows' = rows
        \/ Step("forge", "confirm") /\ rows' = rows
        \/ probe = "confirm" /\ rows' = rows
              /\ probe' = IF rows = <<"rendered">> THEN "passed" ELSE "failed"
    BY <1>1, <2>1 DEF ProveAppendOnly, Probe
  <2>3. Append(<<>>, "rendered") = <<"rendered">>
    OBVIOUS
  <2> QED BY <2>2, <2>3 DEF ProbeInv, Probes
<1>2. CASE UNCHANGED probeVars
  BY <1>2 DEF ProbeInv
<1>3. ProveAppendOnly \/ UNCHANGED probeVars
  BY DEF Next, Boot, Connect, EnsureMigrationsTable, AppliedSet, NextFile, RunSql, RecordFile,
         CommitFile, Reconcile, ConflictingRoles, ConflictingTable, Die, Restart
<1> QED BY <1>1, <1>2, <1>3

(* server.js:17-22: while any replica listens the schema of its image is   *)
(* there and the roles hold what they need on the tables; beyond it they   *)
(* hold at most REFERENCES or TRIGGER, where they held that before the     *)
(* first boot and no REVOKE names it, whoever reconciles, fails or dies    *)
(* meanwhile.                                                              *)
THEOREM ServedIsLocked == Spec => []ServingIsLocked
<1>1. LogInv /\ RoleInv /\ DriftInv => ServingIsLocked
  <2> SUFFICES ASSUME LogInv, RoleInv, DriftInv, Serving # {} PROVE ServingIsLocked
    BY DEF ServingIsLocked
  <2>1. /\ roles = Roles
        /\ \A g \in DOMAIN Allowed :
             /\ Allowed[g] \subseteq grants[g]
             /\ grants[g] \subseteq Allowed[g] \union {"REFERENCES", "TRIGGER"}
        /\ grants[<<"manifest_writer", "jobs">>] = {}
    BY LockedIsAllowed DEF RoleInv
  <2>2. ASSUME NEW g \in DOMAIN Allowed PROVE grants[g] \ Leftover(g) = Allowed[g]
    <3>1. grants[g] \ Allowed[g] \subseteq Leftover(g)
      BY <2>1 DEF DriftInv, Leftover
    <3>2. Leftover(g) \intersect Allowed[g] = {}
      BY DEF Leftover, Allowed
    <3> QED BY <2>1, <3>1, <3>2
  <2>3. \A r \in Serving : 1..Image[r] \subseteq recorded
    BY DEF LogInv, Serving
  <2> QED BY <2>1, <2>2, <2>3 DEF ServingIsLocked
<1> QED
  BY <1>1, LogInit, LogStep, RoleInit, RoleStep, DriftInit, DriftStep, PTL DEF Spec

(* prove-append-only.js:1-16: no step of the script finds anything but what *)
(* it expects, while replicas boot and reconcile around it.                 *)
THEOREM AppendOnlyProved == Spec => []ProofPasses
<1>1. ProbeInv => ProofPasses
  BY DEF ProbeInv, ProofPasses
<1> QED
  BY <1>1, LogInit, LogStep, RoleInit, RoleStep, ProbeStep, PTL DEF Spec

-----------------------------------------------------------------------------
(* The rest of the type invariant. *)

BoundsInv ==
  /\ table \in BOOLEAN /\ applied \in Seq(1..NumFiles)
  /\ restarts \in 0..MaxRestarts /\ faults \in 0..MaxFaults

LEMMA BoundsStep ==
  ASSUME LogInv, BoundsInv, [Next]_vars
  PROVE  BoundsInv'
<1>1. table' \in BOOLEAN
  <2>1. table' = table \/ table' = TRUE
    BY DEF Next, Boot, Connect, EnsureMigrationsTable, AppliedSet, NextFile, RunSql, RecordFile,
           CommitFile, Reconcile, ConflictingRoles, ConflictingTable, Die, Restart,
           ProveAppendOnly, Probe
  <2> QED BY <2>1 DEF BoundsInv
<1>2. applied' \in Seq(1..NumFiles)
  <2>1. [Log!Apply]_<<applied, recorded>>
    BY LogStep
  <2> DEFINE file == Len(applied) + 1
  <2>2. CASE file <= NumFiles /\ applied' = Append(applied, file)
    <3>1. file \in 1..NumFiles
      BY <2>2, ImageAssumption DEF LogInv
    <3> HIDE DEF file
    <3> QED BY <2>2, <3>1 DEF BoundsInv
  <2> QED BY <2>1, <2>2 DEF Log!Apply, BoundsInv
<1>3. restarts' \in 0..MaxRestarts
  <2>1. restarts' = restarts \/ (restarts < MaxRestarts /\ restarts' = restarts + 1)
    BY DEF Next, Boot, Connect, EnsureMigrationsTable, AppliedSet, NextFile, RunSql, RecordFile,
           CommitFile, Reconcile, ConflictingRoles, ConflictingTable, Die, Restart,
           ProveAppendOnly, Probe
  <2> QED BY <2>1, MigrationBounds DEF BoundsInv
<1>4. faults' \in 0..MaxFaults
  <2>1. faults' = faults \/ (faults < MaxFaults /\ faults' = faults + 1)
    BY DEF Next, Boot, Connect, EnsureMigrationsTable, AppliedSet, NextFile, RunSql, RecordFile,
           CommitFile, Reconcile, ConflictingRoles, ConflictingTable, Die, Restart,
           ProveAppendOnly, Probe
  <2> QED BY <2>1, MigrationBounds DEF BoundsInv
<1> QED BY <1>1, <1>2, <1>3, <1>4 DEF BoundsInv

(* Every variable keeps to its values; a replica inside a transaction has   *)
(* a file to apply, and one that reconciles has a statement to execute.     *)
THEOREM MigrationsTyped == Spec => []TypeOK
<1>1. LogInv /\ RoleInv /\ ProbeInv /\ BoundsInv => TypeOK
  <2> SUFFICES ASSUME LogInv, RoleInv, ProbeInv, BoundsInv PROVE TypeOK
    OBVIOUS
  <2>1. recorded \subseteq 1..NumFiles /\ todo \in [Replicas -> SUBSET (1..NumFiles)]
    BY ImageAssumption DEF LogInv
  <2>2. probe \in Probes /\ rows \in Seq({"rendered", "error", "forged"})
    <3>1. probe \in Probes /\ (rows = <<>> \/ rows = <<"rendered">>)
      BY DEF ProbeInv
    <3>2. <<>> \in Seq({"rendered", "error", "forged"}) /\ <<"rendered">> \in Seq({"rendered", "error", "forged"})
      OBVIOUS
    <3> QED BY <3>1, <3>2
  <2>3. \A r \in Replicas : at[r] \in 1..(Len(Reconciliation) + Retries)
    BY DEF RoleInv
  <2> QED BY <2>1, <2>2, <2>3 DEF TypeOK, LogInv, RoleInv, BoundsInv
<1>2. Init => BoundsInv
  <2> SUFFICES ASSUME Init PROVE BoundsInv
    OBVIOUS
  <2>1. PICK n \in 0..NumFiles : table = (n > 0) /\ applied = [i \in 1..n |-> i]
    BY DEF Init
  <2>2. applied \in Seq(1..NumFiles)
    BY <2>1, ImageAssumption
  <2> QED BY <2>1, <2>2, MigrationBounds DEF BoundsInv, Init
<1> QED
  BY <1>1, <1>2, LogInit, LogStep, RoleInit, RoleStep, ProbeStep, BoundsStep, PTL DEF Spec

=============================================================================

------------------------ MODULE FlushRecoveryProofs ------------------------
(***************************************************************************)
(* Machine-checked proofs about FlushRecovery, for every number of         *)
(* documents, slots and processes.  When the only failures are uploads     *)
(* that fail: across a flush of Redis and the recovery from it the         *)
(* terminal row is the ledger's, every poll is truthful, and no document   *)
(* is lost or done twice.  Under failures of every kind: nothing counts    *)
(* more than the ledger has and the increments that were sent again, and   *)
(* the recovery leaves alone what the manifest already had.                *)
(***************************************************************************)
EXTENDS FlushRecovery, RenderJobProofs

USE DEF vars, apiVars, pgVars, rdVars, slotVars, opVars, allVars, faultVars, Happens,
        Fault, NoFault, ReplyLost, Goto, ApiGoto, OpGoto, SetRow

\* The failures of the run: an upload may fail, and nothing else does.
Gentle == Faults \subseteq {"artifact"}

-----------------------------------------------------------------------------
(* The inductive invariant.                                                *)

\* Redis is empty and the missing tasks are not back yet.
Recovering == op \in {"grace", "manifest", "seed", "enqueue"}

\* Where a delivery has not written the ledger row of its document yet.
Unwritten == {"readRow", "mark", "snapshot", "render", "put", "append", "appendError",
              "raise", "releaseRaised"}

AllWritten == \A d \in Docs : ledger[d] # <<>>
AllCounted == AllWritten /\ \A o \in Outcomes : Uncounted(o) = {}
Totals     == [completed |-> Rows("rendered"), failed |-> Rows("error")]

\* Nothing happens before the job is promoted.
Intake ==
  /\ api \in {"insert", "snapshot", "init", "enqueue", "promote", "done"}
  /\ api = "done" => row.status \notin {"none", "pending"}
  /\ op # "submit" => api = "done"
  /\ row.status \in {"none", "pending"} => \A s \in Slots : pc[s] \in {"idle", "readRow", "raise"}
  /\ row.status = "queued" => \A s \in Slots : pc[s] \in {"idle", "readRow", "raise", "mark"}
  /\ row.status \in {"none", "pending", "queued"} =>
       (\A d \in Docs : ledger[d] = <<>>) /\ ~Claimed /\ live = Zero

\* A document is in one pair of hands, though a flush takes the tasks away
\* under the deliveries; some document is then in nobody's.
Hands ==
  /\ \A s, t \in Slots : pc[s] # "idle" /\ pc[t] # "idle" /\ doc[s] = doc[t] => s = t
  /\ \A d \in Docs : tasks[d].state = "active" =>
       \E s \in Slots : tasks[d].owner = s /\ pc[s] # "idle" /\ doc[s] = d
  /\ ~Recovering => \A s \in Slots : pc[s] # "idle" => tasks[doc[s]].owner = s
  /\ Recovering => \A d \in Docs : tasks[d] = AbsentTask
  /\ Recovering /\ op # "grace" => \A s \in Slots : pc[s] = "idle"
  /\ Recovering => \E d \in Docs : ledger[d] = <<>> /\ \A s \in Slots : pc[s] # "idle" => doc[s] # d

\* A document has at most one row, and the delivery that has passed it wrote it.
Once ==
  /\ \A d \in Docs : ledger[d] # <<>> => \E o \in Outcomes : ledger[d] = <<o>>
  /\ \A s \in Slots : pc[s] \in Unwritten => ledger[doc[s]] = <<>>
  /\ \A s \in Slots : pc[s] \notin Unwritten \union {"idle"} => ledger[doc[s]] # <<>>
  /\ \A d \in Docs : tasks[d].state = "waiting" => ledger[d] = <<>>

\* No increment is sent again.
Exact == Backed /\ resent = Zero

\* A count has its row, and the row of the job has the counts of the ledger.
Counts ==
  /\ Exact
  /\ ~Terminal => row.completed = 0 /\ row.failed = 0
  /\ Terminal => /\ row.completed = Rows("rendered") /\ row.failed = Rows("error")
                 /\ row.status = TerminalStatus(Totals)
                 /\ "progress" \in keys => live = Totals

\* The marker is claimed once every document is written and counted.
Ends ==
  /\ Terminal => Claimed
  /\ Claimed => AllCounted
  /\ \A s \in Slots : pc[s] = "claimSet" =>
       AllCounted /\ cnt[s] = Totals /\ (~Claimed => live = Totals)
  /\ \A s \in Slots : pc[s] \in Flushing => Claimed
  /\ \A s, t \in Slots : pc[s] \in Flushing /\ pc[t] \in Flushing => s = t
  /\ \A s \in Slots : pc[s] \in {"flushRead", "flushRow"} =>
       row.status = "processing" /\ live = Totals /\ verdict[s] = TerminalStatus(Totals)
  /\ \A s \in Slots : pc[s] = "flushRow" => cnt[s] = Totals
  /\ \A s \in Slots : pc[s] = "flushDel" => Terminal

\* What the operator has read.
Read ==
  /\ op \in {"pollLive", "watchLive"} =>
       /\ DOMAIN reply = {"status", "source", "completed", "failed"}
       /\ reply.status \in Finals => /\ reply.status = row.status
                                     /\ reply.completed = row.completed /\ reply.failed = row.failed
       /\ reply.status \notin Finals => reply.completed = 0 /\ reply.failed = 0
  /\ op = "done" => Terminal
  /\ op \in {"seed", "enqueue"} => seen = LatestPerDocument
  /\ op \in {"seed", "enqueue", "watchRow", "watchLive", "done"} =>
       \A d \in Docs : seen[d] # "missing" => ledger[d] # <<>> /\ seen[d] = Latest(d)

FlushInv == TypeOK /\ IntakeInv /\ Intake /\ Hands /\ Once /\ Counts /\ Ends /\ Read

-----------------------------------------------------------------------------
(* Counting the rows.                                                      *)

Of(outcome) == {d \in Docs : ledger[d] = <<outcome>>}
HasRow      == {d \in Docs : ledger[d] # <<>>}

(* While every document has at most one row, the rows of an outcome are as *)
(* many as the documents that have it.                                     *)
LEMMA RowsAreDocs ==
  ASSUME ledger \in [Docs -> Seq(Outcomes)], Once, NEW o \in Outcomes
  PROVE  Rows(o) = Cardinality(Of(o)) /\ IsFiniteSet(Of(o)) /\ IsFiniteSet(RowSet(o))
<1>1. RowSet(o) = {<<d, 1>> : d \in Of(o)}
  <2>1. \A x : x \in RowSet(o) <=>
               \E d \in Docs : \E i \in DOMAIN ledger[d] : ledger[d][i] = o /\ x = <<d, i>>
    BY DEF RowSet
  <2>2. ASSUME NEW d \in Docs, NEW i \in DOMAIN ledger[d], ledger[d][i] = o
        PROVE  d \in Of(o) /\ i = 1
    <3>1. ledger[d] # <<>>
      BY <2>2
    <3>2. PICK p \in Outcomes : ledger[d] = <<p>>
      BY <3>1 DEF Once
    <3> QED BY <2>2, <3>2 DEF Of
  <2>3. ASSUME NEW d \in Of(o) PROVE d \in Docs /\ 1 \in DOMAIN ledger[d] /\ ledger[d][1] = o
    BY <2>3 DEF Of
  <2> QED BY <2>1, <2>2, <2>3
<1>2. IsFiniteSet(Of(o))
  <2>1. Of(o) \in SUBSET Docs
    BY DEF Of
  <2> QED BY <2>1, FS_Subset, DocsAssumption
<1> DEFINE f == [d \in Of(o) |-> <<d, 1>>]
<1>3. f \in Bijection(Of(o), RowSet(o))
  <2>1. f \in [Of(o) -> RowSet(o)]
    BY <1>1
  <2>2. \A a, b \in Of(o) : f[a] = f[b] => a = b
    OBVIOUS
  <2>3. \A x \in RowSet(o) : \E a \in Of(o) : f[a] = x
    BY <1>1
  <2> HIDE DEF f
  <2>4. f \in Injection(Of(o), RowSet(o))
    BY <2>1, <2>2 DEF Injection, IsInjective
  <2>5. f \in Surjection(Of(o), RowSet(o))
    BY <2>1, <2>3 DEF Surjection
  <2> QED BY <2>4, <2>5 DEF Bijection
<1>4. ExistsBijection(Of(o), RowSet(o))
  BY <1>3 DEF ExistsBijection
<1>5. IsFiniteSet(RowSet(o)) /\ Cardinality(RowSet(o)) = Cardinality(Of(o))
  BY <1>2, <1>4, FS_Bijection
<1> QED BY <1>2, <1>5 DEF Rows, RowSet

(* They are never more than the documents, and as many only once every     *)
(* document has its row.                                                   *)
LEMMA RowsBounded ==
  ASSUME ledger \in [Docs -> Seq(Outcomes)], Once
  PROVE  /\ Rows("rendered") \in Nat /\ Rows("error") \in Nat /\ Total \in Nat
         /\ Rows("rendered") + Rows("error") <= Total
         /\ Rows("rendered") + Rows("error") = Total <=> AllWritten
<1> DEFINE A == Of("rendered")
           B == Of("error")
<1>1. /\ IsFiniteSet(A) /\ IsFiniteSet(B)
      /\ Rows("rendered") = Cardinality(A) /\ Rows("error") = Cardinality(B)
  BY RowsAreDocs DEF Outcomes
<1>2. A \union B = HasRow /\ A \intersect B = {}
  <2>1. <<"rendered">> # <<"error">> /\ <<"rendered">> # <<>> /\ <<"error">> # <<>>
    OBVIOUS
  <2>2. ASSUME NEW d \in HasRow PROVE d \in A \union B
    BY <2>2 DEF HasRow, Of, Once, Outcomes
  <2>3. A \union B \subseteq HasRow
    BY <2>1 DEF HasRow, Of
  <2>4. A \intersect B = {}
    BY <2>1 DEF Of
  <2> QED BY <2>2, <2>3, <2>4
<1>3. HasRow \in SUBSET Docs /\ (HasRow = Docs <=> AllWritten)
  BY DEF HasRow, AllWritten
<1> HIDE DEF A, B
<1>4. Cardinality(A \union B) = Cardinality(A) + Cardinality(B) - Cardinality(A \intersect B)
  BY <1>1, FS_Union
<1>5. Cardinality(A \intersect B) = 0
  BY <1>2, FS_EmptySet
<1>6. /\ Cardinality(HasRow) <= Cardinality(Docs)
      /\ Cardinality(Docs) = Cardinality(HasRow) => Docs = HasRow
  BY <1>3, DocsAssumption, FS_Subset
<1>7. Cardinality(A) \in Nat /\ Cardinality(B) \in Nat /\ Cardinality(Docs) \in Nat
  BY <1>1, DocsAssumption, FS_CardinalityType
<1>8. Cardinality(HasRow) = Cardinality(A) + Cardinality(B)
  <2>1. HasRow = A \union B
    BY <1>2
  <2>2. Cardinality(A) + Cardinality(B) - 0 = Cardinality(A) + Cardinality(B)
    BY <1>7
  <2> QED BY <1>4, <1>5, <2>1, <2>2, Zenon
<1>9. Cardinality(HasRow) = Total <=> AllWritten
  BY <1>3, <1>6 DEF Total
<1>10. Rows("rendered") + Rows("error") = Cardinality(HasRow)
  BY <1>1, <1>8
<1> QED BY <1>1, <1>6, <1>7, <1>9, <1>10 DEF Total

-----------------------------------------------------------------------------
(* The steps of a delivery when no call but an upload fails.               *)

\* Until its row is written; one of them takes the job out of 'queued'.
Early(s) ==
  /\ pc[s] \in Unwritten /\ pc'[s] \in Unwritten
  /\ UNCHANGED <<ledger, keys, live, cnt, verdict>>
  /\ \/ row' = row
     \/ row.status = "queued" /\ row' = [row EXCEPT !.status = "processing"]
  /\ row'.status \in {"none", "pending"} => pc'[s] = "raise"
  /\ row'.status = "queued" => pc'[s] \in {"raise", "mark"}

Writes(s, outcome) ==
  /\ pc[s] = IF outcome = "rendered" THEN "append" ELSE "appendError"
  /\ pc'[s] = IF outcome = "rendered" THEN "incCompleted" ELSE "incFailed"
  /\ AppendEntry(s, outcome) /\ UNCHANGED <<row, keys, live, cnt, verdict>>

Counted(s) ==
  /\ pc[s] \in Counting /\ pc'[s] = "release" /\ (Claimed' <=> Claimed)
  /\ UNCHANGED <<row, ledger, cnt, verdict>>

\* Not the last document, or not the first to see that all are done.
Leaves(s) ==
  /\ pc[s] \in {"release", "claimRead", "claimSet"} /\ pc'[s] \in {"claimRead", "ack"}
  /\ UNCHANGED <<row, ledger, keys, live>>

SeesAll(s) ==
  /\ pc[s] = "claimRead" /\ pc'[s] = "claimSet" /\ AllAccounted(live) /\ cnt'[s] = live
  /\ UNCHANGED <<row, ledger, keys, live>>

Wins(s) ==
  /\ pc[s] = "claimSet" /\ pc'[s] = "flushRead" /\ ~Claimed /\ Claimed'
  /\ verdict'[s] = TerminalStatus(cnt[s]) /\ UNCHANGED <<row, ledger, live>>

Rereads(s) ==
  /\ pc[s] = "flushRead" /\ pc'[s] = "flushRow" /\ cnt'[s] = live /\ verdict'[s] = verdict[s]
  /\ UNCHANGED <<row, ledger, keys, live>>

Closes(s) ==
  /\ pc[s] = "flushRow" /\ pc'[s] = "flushDel" /\ UNCHANGED <<ledger, keys, live>>
  /\ row' = [status |-> verdict[s], completed |-> cnt[s].completed, failed |-> cnt[s].failed]

Drops(s) ==
  /\ pc[s] = "flushDel" /\ pc'[s] = "ack" /\ UNCHANGED <<row, ledger>>
  /\ live' = Zero /\ keys' = keys \ {"progress"}

Work(s) ==
  /\ pc[s] # "idle" /\ UNCHANGED <<apiVars, tasks, doc>> /\ bucket \subseteq bucket'
  /\ \A t \in Slots : t # s => pc'[t] = pc[t] /\ cnt'[t] = cnt[t] /\ verdict'[t] = verdict[t]
  /\ \/ Early(s) \/ (\E o \in Outcomes : Writes(s, o)) \/ Counted(s)
     \/ Leaves(s) \/ SeesAll(s) \/ Wins(s) \/ Rereads(s) \/ Closes(s) \/ Drops(s)

(* Every step of a slot but the end of a delivery is one of those.         *)
LEMMA SlotWork ==
  ASSUME FlushInv, Gentle, NEW s \in Slots, SlotStep(s)
  PROVE  Work(s) \/ Ack(s) \/ Raise(s)
<1>0. /\ pc \in [Slots -> SlotLabels] /\ cnt \in [Slots -> Counters]
      /\ verdict \in [Slots -> Finals] /\ row \in RowType
  BY DEF FlushInv, TypeOK, RowType
<1>1. /\ row.status \in {"none", "pending"} => pc[s] \in {"idle", "readRow", "raise"}
      /\ row.status = "queued" => pc[s] \in {"idle", "readRow", "raise", "mark"}
      /\ row.status = "none" => pc[s] = "idle"
  BY DEF FlushInv, Intake, IntakeInv
<1>2. pc[s] = "readRow" => row.status \notin Finals
  BY DEF FlushInv, Ends, Once, AllCounted, AllWritten, Terminal, Unwritten, TypeOK
<1> USE DEF Gentle, Unwritten
<1>3. CASE ReadRow(s)
  BY <1>0, <1>1, <1>2, <1>3 DEF ReadRow, AfterRow, Work, Early, RowType, Statuses
<1>4. CASE MarkProcessing(s)
  BY <1>0, <1>1, <1>4 DEF MarkProcessing, QueuedToProcessing, Work, Early, RowType
<1>5. CASE GetSnapshot(s)
  BY <1>0, <1>1, <1>5 DEF GetSnapshot, Work, Early
<1>6. CASE Render(s)
  BY <1>0, <1>1, <1>6 DEF Render, Caught, Work, Early
<1>7. CASE PutArtifact(s)
  BY <1>0, <1>1, <1>7 DEF PutArtifact, Caught, Store, Work, Early
<1>8. CASE AppendRendered(s)
  BY <1>0, <1>8 DEF AppendRendered, Caught, Work, Writes, Outcomes
<1>9. CASE IncrementCompleted(s)
  BY <1>0, <1>9 DEF IncrementCompleted, Caught, Bump, WriteHash, Work, Counted, Counting, Claimed
<1>10. CASE AppendError(s)
  BY <1>0, <1>10 DEF AppendError, Work, Writes, Outcomes
<1>11. CASE IncrementFailed(s)
  BY <1>0, <1>11 DEF IncrementFailed, Bump, WriteHash, Work, Counted, Counting, Claimed
<1>12. CASE Release(s)
  BY <1>0, <1>1, <1>12 DEF Release, Work, Early, Leaves
<1>13. CASE ClaimRead(s)
  BY <1>0, <1>13 DEF ClaimRead, ReadCounters, Work, Leaves, SeesAll
<1>14. CASE ClaimMarker(s)
  BY <1>0, <1>14 DEF ClaimMarker, Claim, Claimed, Work, Leaves, Wins
<1>15. CASE FlushRead(s)
  BY <1>0, <1>15 DEF FlushRead, ReadCounters, Work, Rereads
<1>16. CASE FlushRow(s)
  BY <1>0, <1>16 DEF FlushRow, Work, Closes
<1>17. CASE FlushDel(s)
  BY <1>0, <1>17 DEF FlushDel, DropHash, Work, Drops
<1> QED
  BY <1>3, <1>4, <1>5, <1>6, <1>7, <1>8, <1>9, <1>10, <1>11, <1>12, <1>13, <1>14, <1>15,
     <1>16, <1>17 DEF SlotStep

(* Once every document is written and counted, a delivery changes neither   *)
(* the ledger nor the counters, but for the last one that drops the hash.   *)
LEMMA CountedStays ==
  ASSUME FlushInv, NEW s \in Slots, Work(s), AllCounted
  PROVE  /\ AllCounted' /\ ledger' = ledger /\ Totals' = Totals
         /\ live' = live \/ Drops(s)
         /\ Leaves(s) \/ SeesAll(s) \/ Wins(s) \/ Rereads(s) \/ Closes(s) \/ Drops(s)
<1>1. pc[s] \notin Unwritten /\ pc[s] \notin Counting
  <2>1. doc[s] \in Docs
    BY DEF FlushInv, TypeOK, Work
  <2>2. pc[s] \notin Unwritten
    BY <2>1 DEF FlushInv, Once, AllCounted, AllWritten
  <2>3. pc[s] \notin Counting
    BY DEF AllCounted, Uncounted, Outcomes, Counting
  <2> QED BY <2>2, <2>3
<1>2. Leaves(s) \/ SeesAll(s) \/ Wins(s) \/ Rereads(s) \/ Closes(s) \/ Drops(s)
  BY <1>1 DEF Work, Early, Writes, Counted, Unwritten
<1>3. ledger' = ledger /\ (live' = live \/ Drops(s)) /\ pc'[s] \notin Counting
  BY <1>2 DEF Leaves, SeesAll, Wins, Rereads, Closes, Drops, Counting
<1>4. Totals' = Totals
  BY <1>3 DEF Totals, Rows
<1>5. AllCounted'
  <2>1. AllWritten'
    BY <1>3 DEF AllCounted, AllWritten
  <2>2. ASSUME NEW o \in Outcomes, NEW t \in Slots PROVE t \notin Uncounted(o)'
    BY <1>3, <2>2 DEF AllCounted, Uncounted, Work, Counting
  <2>3. \A o \in Outcomes : Uncounted(o)' = {}
    BY <2>2 DEF Uncounted
  <2> QED BY <2>1, <2>3 DEF AllCounted
<1> QED BY <1>2, <1>3, <1>4, <1>5

LEMMA WorkIntake ==
  ASSUME FlushInv, NEW s \in Slots, Work(s), UNCHANGED opVars
  PROVE  IntakeInv' /\ Intake'
<1>1. /\ row.status \in {"none", "pending"} => pc[s] \in {"readRow", "raise"}
      /\ row.status = "queued" => pc[s] \in {"readRow", "raise", "mark"}
      /\ pc[s] = "flushRow" => row.status = "processing" /\ verdict[s] \in Finals
  BY DEF FlushInv, Intake, Ends, Work, TypeOK
<1>2. \/ row' = row
      \/ row.status \in {"queued", "processing"} /\ row'.status \in {"processing"} \union Finals
  <2>1. row \in RowType
    BY DEF FlushInv, TypeOK, RowType
  <2> QED BY <1>1, <2>1 DEF Work, Early, Writes, Counted, Leaves, SeesAll, Wins, Rereads, Closes, Drops, RowType
<1>3. IntakeInv'
  BY <1>2 DEF Work, FlushInv, IntakeInv, Finals
<1>4. row.status \in {"none", "pending", "queued"} => Early(s)
  BY <1>1 DEF Work, Writes, Counted, Leaves, SeesAll, Wins, Rereads, Closes, Drops, Counting
<1>5. row'.status \in {"none", "pending", "queued"} => row' = row
  BY <1>2 DEF Finals
<1>6. row'.status \in {"none", "pending"} =>
        \A t \in Slots : pc'[t] \in {"idle", "readRow", "raise"}
  BY <1>4, <1>5 DEF FlushInv, Intake, Work, Early
<1>7. row'.status = "queued" =>
        \A t \in Slots : pc'[t] \in {"idle", "readRow", "raise", "mark"}
  BY <1>4, <1>5 DEF FlushInv, Intake, Work, Early
<1>8. row'.status \in {"none", "pending", "queued"} =>
        (\A d \in Docs : ledger'[d] = <<>>) /\ ~Claimed' /\ live' = Zero
  BY <1>4, <1>5 DEF FlushInv, Intake, Early, Claimed
<1>9. /\ api' \in {"insert", "snapshot", "init", "enqueue", "promote", "done"}
      /\ api' = "done" => row'.status \notin {"none", "pending"}
      /\ op' # "submit" => api' = "done"
  BY <1>2 DEF FlushInv, Intake, Work, Finals
<1> QED BY <1>3, <1>6, <1>7, <1>8, <1>9 DEF Intake

(* Nobody else holds the document of a delivery.                           *)
LEMMA Alone ==
  ASSUME FlushInv, NEW s \in Slots, pc[s] # "idle"
  PROVE  /\ doc[s] \in Docs
         /\ \A t \in Slots : t # s /\ pc[t] # "idle" => doc[t] # doc[s]
         /\ tasks[doc[s]].state # "waiting"
<1>1. doc[s] \in Docs /\ \A t \in Slots : t # s /\ pc[t] # "idle" => doc[t] # doc[s]
  BY DEF FlushInv, TypeOK, Hands
<1>2. tasks[doc[s]].state # "waiting"
  <2>1. CASE Recovering
    BY <1>1, <2>1 DEF FlushInv, Hands, AbsentTask
  <2>2. CASE ~Recovering
    <3>1. tasks[doc[s]].owner = s /\ tasks[doc[s]] \in GoodTasks
      BY <1>1, <2>2 DEF FlushInv, Hands, TypeOK
    <3> QED BY <3>1, SlotsAssumption DEF GoodTasks
  <2> QED BY <2>1, <2>2
<1> QED BY <1>1, <1>2

(* What a delivery does to the rows of the documents.                      *)
LEMMA WorkLedger ==
  ASSUME FlushInv, NEW s \in Slots, Work(s)
  PROVE  /\ pc'[s] # "idle"
         /\ \A d \in Docs : d # doc[s] => ledger'[d] = ledger[d]
         /\ \/ ledger' = ledger /\ (pc[s] \in Unwritten <=> pc'[s] \in Unwritten)
            \/ /\ pc[s] \in Unwritten /\ pc'[s] \notin Unwritten
               /\ \E o \in Outcomes : ledger'[doc[s]] = <<o>>
<1>1. doc[s] \in Docs /\ ledger \in [Docs -> Seq(Outcomes)]
  BY Alone DEF Work, FlushInv, TypeOK
<1>2. ASSUME NEW o \in Outcomes, Writes(s, o)
      PROVE  /\ pc[s] \in Unwritten /\ pc'[s] \notin Unwritten /\ pc'[s] # "idle"
             /\ \A d \in Docs : d # doc[s] => ledger'[d] = ledger[d]
             /\ ledger'[doc[s]] = <<o>>
  <2>1. pc[s] \in Unwritten /\ pc'[s] \notin Unwritten /\ pc'[s] # "idle"
    BY <1>2 DEF Writes, Unwritten
  <2>2. ledger[doc[s]] = <<>>
    BY <2>1 DEF FlushInv, Once
  <2>3. Append(<<>>, o) = <<o>>
    OBVIOUS
  <2> QED BY <1>1, <1>2, <2>1, <2>2, <2>3 DEF Writes, AppendEntry
<1>3. ASSUME \A o \in Outcomes : ~Writes(s, o)
      PROVE  ledger' = ledger /\ (pc[s] \in Unwritten <=> pc'[s] \in Unwritten) /\ pc'[s] # "idle"
  BY <1>3 DEF Work, Early, Counted, Leaves, SeesAll, Wins, Rereads, Closes, Drops, Unwritten, Counting
<1> QED BY <1>2, <1>3

LEMMA WorkHands ==
  ASSUME FlushInv, NEW s \in Slots, Work(s), UNCHANGED opVars
  PROVE  Hands'
<1>1. \A t \in Slots : pc'[t] = "idle" <=> pc[t] = "idle"
  BY WorkLedger DEF Work
<1>2. UNCHANGED <<tasks, doc>> /\ (Recovering' <=> Recovering)
  BY DEF Work, Recovering
<1>3. ASSUME Recovering
      PROVE  \E d \in Docs : ledger'[d] = <<>> /\ \A t \in Slots : pc'[t] # "idle" => doc'[t] # d
  <2>1. PICK d \in Docs : ledger[d] = <<>> /\ \A t \in Slots : pc[t] # "idle" => doc[t] # d
    BY <1>3 DEF FlushInv, Hands
  <2>2. ledger'[d] = <<>>
    BY <2>1, WorkLedger DEF Work
  <2> QED BY <1>1, <1>2, <2>1, <2>2
<1>4. /\ \A t, u \in Slots : pc'[t] # "idle" /\ pc'[u] # "idle" /\ doc'[t] = doc'[u] => t = u
      /\ \A d \in Docs : tasks'[d].state = "active" =>
           \E t \in Slots : tasks'[d].owner = t /\ pc'[t] # "idle" /\ doc'[t] = d
  BY <1>1, <1>2 DEF FlushInv, Hands
<1>5. /\ ~Recovering' => \A t \in Slots : pc'[t] # "idle" => tasks'[doc'[t]].owner = t
      /\ Recovering' => \A d \in Docs : tasks'[d] = AbsentTask
      /\ Recovering' /\ op' # "grace" => \A t \in Slots : pc'[t] = "idle"
  BY <1>1, <1>2 DEF FlushInv, Hands
<1> QED BY <1>2, <1>3, <1>4, <1>5 DEF Hands

LEMMA WorkOnce ==
  ASSUME FlushInv, NEW s \in Slots, Work(s)
  PROVE  Once'
<1>1. /\ pc[s] # "idle" /\ pc'[s] # "idle" /\ UNCHANGED <<tasks, doc>>
      /\ \A t \in Slots : t # s => pc'[t] = pc[t]
      /\ \A d \in Docs : d # doc[s] => ledger'[d] = ledger[d]
  BY WorkLedger DEF Work
<1>2. /\ doc[s] \in Docs /\ tasks[doc[s]].state # "waiting"
      /\ \A t \in Slots : t # s /\ pc[t] # "idle" => doc[t] # doc[s] /\ doc[t] \in Docs
  BY <1>1, Alone DEF FlushInv, TypeOK
<1>3. CASE ledger' = ledger /\ (pc[s] \in Unwritten <=> pc'[s] \in Unwritten)
  BY <1>1, <1>2, <1>3 DEF FlushInv, Once
<1>4. CASE /\ pc[s] \in Unwritten /\ pc'[s] \notin Unwritten
           /\ \E o \in Outcomes : ledger'[doc[s]] = <<o>>
  <2>1. PICK o \in Outcomes : ledger'[doc[s]] = <<o>>
    BY <1>4
  <2>2. <<o>> # <<>>
    OBVIOUS
  <2>3. \A d \in Docs : ledger'[d] # <<>> => \E r \in Outcomes : ledger'[d] = <<r>>
    BY <1>1, <2>1 DEF FlushInv, Once
  <2>4. \A t \in Slots : pc'[t] \in Unwritten => ledger'[doc'[t]] = <<>>
    BY <1>1, <1>2, <1>4 DEF FlushInv, Once, Unwritten
  <2>5. \A t \in Slots : pc'[t] \notin Unwritten \union {"idle"} => ledger'[doc'[t]] # <<>>
    BY <1>1, <1>2, <2>1, <2>2 DEF FlushInv, Once
  <2>6. \A d \in Docs : tasks'[d].state = "waiting" => ledger'[d] = <<>>
    BY <1>1, <1>2 DEF FlushInv, Once
  <2> QED BY <2>3, <2>4, <2>5, <2>6 DEF Once
<1> QED BY <1>3, <1>4, WorkLedger

(* Counters that account for every document are those of the ledger, and   *)
(* every document has its row, whatever became of Redis: no count is       *)
(* without a row, and there are no more rows than documents.               *)
LEMMA AllSeen ==
  ASSUME FlushInv, AllAccounted(live)
  PROVE  AllCounted /\ live = Totals
<1>1. /\ Rows("rendered") \in Nat /\ Rows("error") \in Nat /\ Total \in Nat
      /\ Rows("rendered") + Rows("error") <= Total
      /\ Rows("rendered") + Rows("error") = Total <=> AllWritten
  BY RowsBounded DEF FlushInv, TypeOK
<1>2. ASSUME NEW o \in Outcomes
      PROVE  /\ IsFiniteSet(Uncounted(o)) /\ Cardinality(Uncounted(o)) \in Nat
             /\ Counter(o) + Cardinality(Uncounted(o)) <= Rows(o)
  <2>1. /\ IsFiniteSet(Uncounted(o)) /\ IsFiniteSet(RowSet(o)) /\ Resent(o) = 0
        /\ Counter(o) + Cardinality(Uncounted(o)) <= Cardinality(RowSet(o)) + Resent(o)
    BY DEF FlushInv, Counts, Exact, Backed, Resent, Zero
  <2>2. Cardinality(RowSet(o)) \in Nat /\ Cardinality(Uncounted(o)) \in Nat
    BY <2>1, FS_CardinalityType
  <2> QED BY <2>1, <2>2 DEF Rows, RowSet
<1>3. /\ live \in Counters /\ live.completed \in Nat /\ live.failed \in Nat
      /\ live.completed + live.failed >= Total
      /\ Counter("rendered") = live.completed /\ Counter("error") = live.failed
  BY DEF FlushInv, TypeOK, Counters, AllAccounted, Counter
<1>4. /\ live.completed + Cardinality(Uncounted("rendered")) <= Rows("rendered")
      /\ live.failed + Cardinality(Uncounted("error")) <= Rows("error")
      /\ Cardinality(Uncounted("rendered")) \in Nat /\ Cardinality(Uncounted("error")) \in Nat
  BY <1>2, <1>3 DEF Outcomes
<1>5. /\ live.completed = Rows("rendered") /\ live.failed = Rows("error")
      /\ Cardinality(Uncounted("rendered")) = 0 /\ Cardinality(Uncounted("error")) = 0
      /\ Rows("rendered") + Rows("error") = Total
  BY <1>1, <1>3, <1>4
<1>6. live = Totals
  BY <1>3, <1>5 DEF Totals, Counters
<1>7. \A o \in Outcomes : Uncounted(o) = {}
  BY <1>2, <1>5, FS_EmptySet DEF Outcomes
<1> QED BY <1>1, <1>5, <1>6, <1>7 DEF AllCounted

LEMMA WorkCounts ==
  ASSUME FlushInv, NEW s \in Slots, Work(s), Exact'
  PROVE  Counts'
<1>1. ASSUME Terminal
      PROVE  /\ Terminal' /\ row'.completed = Rows("rendered")' /\ row'.failed = Rows("error")'
             /\ row'.status = TerminalStatus(Totals')
             /\ "progress" \in keys' => live' = Totals'
  <2>1. /\ Claimed /\ AllCounted /\ pc[s] # "flushRow"
        /\ row.completed = Rows("rendered") /\ row.failed = Rows("error")
        /\ row.status = TerminalStatus(Totals) /\ ("progress" \in keys => live = Totals)
    BY <1>1 DEF FlushInv, Ends, Counts, Terminal, Finals
  <2>2. ledger' = ledger /\ Totals' = Totals /\ (Leaves(s) \/ SeesAll(s) \/ Rereads(s) \/ Drops(s))
    BY <2>1, CountedStays DEF Wins, Closes
  <2>3. row' = row /\ ("progress" \in keys' => "progress" \in keys /\ live' = live)
    BY <2>2 DEF Leaves, SeesAll, Rereads, Drops
  <2>4. Rows("rendered")' = Rows("rendered") /\ Rows("error")' = Rows("error")
    BY <2>2 DEF Rows
  <2> QED BY <1>1, <2>1, <2>2, <2>3, <2>4 DEF Terminal
<1>2. ASSUME ~Terminal, ~Closes(s)
      PROVE  ~Terminal' /\ row'.completed = 0 /\ row'.failed = 0
  <2>1. row.completed = 0 /\ row.failed = 0 /\ row \in RowType
    BY <1>2 DEF FlushInv, Counts, TypeOK, RowType
  <2>2. row' = row \/ row' = [row EXCEPT !.status = "processing"]
    BY <1>2 DEF Work, Early, Writes, Counted, Leaves, SeesAll, Wins, Rereads, Drops
  <2> QED BY <1>2, <2>1, <2>2 DEF Terminal, Finals, RowType
<1>3. ASSUME Closes(s)
      PROVE  /\ Terminal' /\ row'.completed = Rows("rendered")' /\ row'.failed = Rows("error")'
             /\ row'.status = TerminalStatus(Totals') /\ live' = Totals'
  <2>1. /\ cnt[s] = Totals /\ verdict[s] = TerminalStatus(Totals) /\ live = Totals
        /\ verdict[s] \in Finals
    BY <1>3 DEF Closes, FlushInv, Ends, TypeOK
  <2>2. ledger' = ledger /\ live' = live
    BY <1>3 DEF Closes
  <2>3. Totals' = Totals /\ Rows("rendered")' = Rows("rendered") /\ Rows("error")' = Rows("error")
    BY <2>2 DEF Totals, Rows
  <2>4. /\ row'.status = verdict[s] /\ row'.completed = cnt[s].completed
        /\ row'.failed = cnt[s].failed
    BY <1>3 DEF Closes
  <2>5. Totals.completed = Rows("rendered") /\ Totals.failed = Rows("error")
    BY DEF Totals
  <2> QED BY <2>1, <2>2, <2>3, <2>4, <2>5 DEF Terminal
<1> QED BY <1>1, <1>2, <1>3 DEF Counts

LEMMA WorkEnds ==
  ASSUME FlushInv, NEW s \in Slots, Work(s)
  PROVE  Ends'
<1>1. /\ Claimed => AllCounted
      /\ \A t \in Slots : pc[t] = "claimSet" =>
           AllCounted /\ cnt[t] = Totals /\ (~Claimed => live = Totals)
      /\ \A t \in Slots : pc[t] \in Flushing => Claimed
      /\ \A t \in Slots : pc[t] \in {"flushRead", "flushRow"} =>
           row.status = "processing" /\ live = Totals /\ verdict[t] = TerminalStatus(Totals)
      /\ \A t \in Slots : pc[t] = "flushRow" => cnt[t] = Totals
      /\ \A t \in Slots : pc[t] = "flushDel" => Terminal
  BY DEF FlushInv, Ends
<1>2. Claimed => Claimed'
  BY DEF Work, Early, Writes, Counted, Leaves, SeesAll, Wins, Rereads, Closes, Drops, Claimed
<1>3. Claimed' => Claimed \/ Wins(s)
  BY DEF Work, Early, Writes, Counted, Leaves, SeesAll, Rereads, Closes, Drops, Claimed
<1>4. AllCounted => AllCounted' /\ Totals' = Totals /\ (live' = live \/ Drops(s))
  BY CountedStays
<1>5. Terminal => row' = row
  <2>1. Terminal => row.status \notin {"queued", "processing"}
    BY DEF Terminal, Finals
  <2> QED BY <1>1, <2>1 DEF Work, Early, Writes, Counted, Leaves, SeesAll, Wins, Rereads, Closes, Drops
<1>6. Terminal' => Terminal \/ Closes(s)
  <2>1. row \in RowType
    BY DEF FlushInv, TypeOK, RowType
  <2>2. ~Closes(s) => row' = row \/ row' = [row EXCEPT !.status = "processing"]
    BY DEF Work, Early, Writes, Counted, Leaves, SeesAll, Wins, Rereads, Drops
  <2> QED BY <2>1, <2>2 DEF Terminal, Finals, RowType
<1>7. Terminal' => Claimed'
  BY <1>1, <1>2, <1>6 DEF FlushInv, Ends, Closes, Flushing
<1>8. Claimed' => AllCounted'
  BY <1>1, <1>3, <1>4 DEF Wins
<1>9. ASSUME NEW t \in Slots, pc'[t] = "claimSet"
      PROVE  AllCounted' /\ cnt'[t] = Totals' /\ (~Claimed' => live' = Totals')
  <2>1. CASE t = s
    <3>1. SeesAll(s)
      BY <1>9, <2>1 DEF Work, Early, Writes, Counted, Leaves, Wins, Rereads, Closes, Drops, Unwritten
    <3>2. AllCounted /\ live = Totals
      BY <3>1, AllSeen DEF SeesAll
    <3> QED BY <1>4, <2>1, <3>1, <3>2 DEF SeesAll, Drops
  <2>2. CASE t # s
    <3>1. pc[t] = "claimSet" /\ cnt'[t] = cnt[t]
      BY <1>9, <2>2 DEF Work
    <3>2. Drops(s) => Claimed
      BY <1>1 DEF Drops, Flushing
    <3> QED BY <1>1, <1>2, <1>4, <3>1, <3>2
  <2> QED BY <2>1, <2>2
<1>10. pc'[s] \in Flushing => pc[s] \in Flushing \/ Wins(s)
  BY DEF Work, Early, Writes, Counted, Leaves, SeesAll, Rereads, Closes, Drops, Unwritten, Flushing
<1>11. \A t \in Slots : pc'[t] \in Flushing => Claimed'
  BY <1>1, <1>2, <1>10 DEF Work, Wins
<1>12. \A t, u \in Slots : pc'[t] \in Flushing /\ pc'[u] \in Flushing => t = u
  <2>1. \A t, u \in Slots : pc[t] \in Flushing /\ pc[u] \in Flushing => t = u
    BY DEF FlushInv, Ends
  <2>2. Wins(s) => \A t \in Slots : pc[t] \notin Flushing
    BY <1>1 DEF Wins
  <2> QED BY <1>10, <2>1, <2>2 DEF Work
<1>13. ASSUME NEW t \in Slots, pc'[t] \in {"flushRead", "flushRow"}
       PROVE  /\ row'.status = "processing" /\ live' = Totals'
              /\ verdict'[t] = TerminalStatus(Totals')
  <2>1. CASE t = s
    <3>1. Wins(s) \/ Rereads(s)
      BY <1>13, <2>1 DEF Work, Early, Writes, Counted, Leaves, SeesAll, Closes, Drops, Unwritten
    <3>2. CASE Wins(s)
      <4>1. AllCounted /\ cnt[s] = Totals /\ live = Totals
        BY <1>1, <3>2 DEF Wins
      <4>2. row.status = "processing"
        <5>1. ~Terminal /\ row.status \notin {"none", "pending", "queued"}
          BY <3>2 DEF Wins, FlushInv, Ends, Intake
        <5> QED BY <5>1 DEF FlushInv, TypeOK, Statuses, Terminal
      <4> QED BY <1>4, <2>1, <3>2, <4>1, <4>2 DEF Wins
    <3>3. CASE Rereads(s)
      BY <1>1, <1>4, <2>1, <3>3 DEF Rereads, Flushing
    <3> QED BY <3>1, <3>2, <3>3
  <2>2. CASE t # s
    <3>1. pc[t] \in {"flushRead", "flushRow"} /\ verdict'[t] = verdict[t] /\ pc[t] \in Flushing
      BY <1>13, <2>2 DEF Work, Flushing
    <3>2. /\ row.status = "processing" /\ live = Totals /\ verdict[t] = TerminalStatus(Totals)
          /\ AllCounted /\ Claimed
      BY <1>1, <3>1
    <3>3. pc[s] \notin Flushing
      BY <2>2, <3>1 DEF FlushInv, Ends
    <3>4. Leaves(s) \/ SeesAll(s)
      BY <3>2, <3>3, CountedStays DEF Wins, Rereads, Closes, Drops, Flushing
    <3> QED BY <1>4, <3>1, <3>2, <3>4 DEF Leaves, SeesAll
  <2> QED BY <2>1, <2>2
<1>14. ASSUME NEW t \in Slots, pc'[t] = "flushRow" PROVE cnt'[t] = Totals'
  <2>1. CASE t = s
    <3>1. Rereads(s)
      BY <1>14, <2>1 DEF Work, Early, Writes, Counted, Leaves, SeesAll, Wins, Closes, Drops, Unwritten
    <3> QED BY <1>1, <1>4, <2>1, <3>1 DEF Rereads, Flushing
  <2>2. CASE t # s
    BY <1>1, <1>4, <1>14, <2>2 DEF Work, Flushing
  <2> QED BY <2>1, <2>2
<1>15. ASSUME NEW t \in Slots, pc'[t] = "flushDel" PROVE Terminal'
  <2>1. CASE t = s
    <3>1. Closes(s) /\ verdict[s] \in Finals
      BY <1>15, <2>1 DEF Work, Early, Writes, Counted, Leaves, SeesAll, Wins, Rereads, Drops,
                         Unwritten, FlushInv, TypeOK
    <3> QED BY <3>1 DEF Closes, Terminal
  <2>2. CASE t # s
    BY <1>1, <1>5, <1>15, <2>2 DEF Work, Terminal
  <2> QED BY <2>1, <2>2
<1> QED BY <1>7, <1>8, <1>9, <1>11, <1>12, <1>13, <1>14, <1>15 DEF Ends

(* What the operator has read of the ledger and the row stays true.        *)
LEMMA WorkRead ==
  ASSUME FlushInv, NEW s \in Slots, Work(s), UNCHANGED opVars
  PROVE  Read'
<1>1. UNCHANGED <<op, reply, seen>>
  OBVIOUS
<1>2. Terminal => row' = row
  <2>1. Terminal => row.status \notin {"queued", "processing"}
    BY DEF Terminal, Finals
  <2>2. pc[s] = "flushRow" => row.status = "processing"
    BY DEF FlushInv, Ends
  <2> QED BY <2>1, <2>2 DEF Work, Early, Writes, Counted, Leaves, SeesAll, Wins, Rereads, Closes, Drops
<1>3. op \in {"pollLive", "watchLive"} =>
        /\ DOMAIN reply' = {"status", "source", "completed", "failed"}
        /\ reply'.status \in Finals => /\ reply'.status = row'.status
                                       /\ reply'.completed = row'.completed
                                       /\ reply'.failed = row'.failed
        /\ reply'.status \notin Finals => reply'.completed = 0 /\ reply'.failed = 0
  BY <1>1, <1>2 DEF FlushInv, Read, Terminal
<1>4. op' = "done" => Terminal'
  BY <1>1, <1>2 DEF FlushInv, Read, Terminal
<1>5. ASSUME op \in {"seed", "enqueue", "watchRow", "watchLive", "done"}, NEW d \in Docs,
             seen[d] # "missing"
      PROVE  ledger'[d] # <<>> /\ seen[d] = Latest(d)'
  <2>1. ledger[d] # <<>> /\ seen[d] = Latest(d)
    BY <1>5 DEF FlushInv, Read
  <2>2. ledger'[d] = ledger[d]
    BY <2>1, WorkLedger DEF FlushInv, Once, Work
  <2> QED BY <2>1, <2>2 DEF Latest
<1>6. op \in {"seed", "enqueue"} => seen' = LatestPerDocument'
  <2>1. ASSUME op \in {"seed", "enqueue"} PROVE FALSE
    BY <2>1 DEF FlushInv, Hands, Recovering, Work
  <2> QED BY <2>1
<1> QED BY <1>1, <1>3, <1>4, <1>5, <1>6 DEF Read

-----------------------------------------------------------------------------
(* The end of a delivery, a new one, and the POST handler.                 *)

\* Nothing but the queue changes, and a slot works or idles.
Dispatch(s) ==
  /\ UNCHANGED <<apiVars, row, ledger, keys, live, bucket>>
  /\ \A t \in Slots : t # s => /\ pc'[t] = pc[t] /\ doc'[t] = doc[t]
                               /\ cnt'[t] = cnt[t] /\ verdict'[t] = verdict[t]

(* A step that changes the queue only keeps what is said of the row, the    *)
(* counters and the marker.                                                *)
LEMMA DispatchKeeps ==
  ASSUME FlushInv, NEW s \in Slots, Dispatch(s), Exact', UNCHANGED opVars,
         pc'[s] \in {"idle", "readRow"}
  PROVE  Intake' /\ Counts' /\ Ends' /\ Read'
<1>1. /\ Totals' = Totals /\ Rows("rendered")' = Rows("rendered") /\ Rows("error")' = Rows("error")
      /\ (Claimed' <=> Claimed) /\ (Terminal' <=> Terminal)
  BY DEF Dispatch, Totals, Rows, Claimed, Terminal
<1>2. Intake'
  BY <1>1 DEF FlushInv, Intake, Dispatch
<1>3. Counts'
  BY <1>1 DEF FlushInv, Counts, Dispatch
<1>4. AllCounted => AllCounted'
  <2>1. AllWritten => AllWritten'
    BY DEF AllWritten, Dispatch
  <2>2. \A o \in Outcomes : Uncounted(o)' \subseteq Uncounted(o)
    BY DEF Uncounted, Dispatch
  <2> QED BY <2>1, <2>2 DEF AllCounted
<1>5. \A t \in Slots : pc'[t] \in {"claimSet"} \union Flushing =>
        pc'[t] = pc[t] /\ cnt'[t] = cnt[t] /\ verdict'[t] = verdict[t]
  BY DEF Dispatch, Flushing
<1>6. Ends'
  <2>1. /\ Terminal' => Claimed'
        /\ Claimed' => AllCounted'
        /\ \A t \in Slots : pc'[t] = "claimSet" =>
             AllCounted' /\ cnt'[t] = Totals' /\ (~Claimed' => live' = Totals')
    BY <1>1, <1>4, <1>5 DEF FlushInv, Ends, Dispatch
  <2>2. /\ \A t \in Slots : pc'[t] \in Flushing => Claimed'
        /\ \A t, u \in Slots : pc'[t] \in Flushing /\ pc'[u] \in Flushing => t = u
    BY <1>1, <1>5 DEF FlushInv, Ends
  <2>3. /\ \A t \in Slots : pc'[t] \in {"flushRead", "flushRow"} =>
             /\ row'.status = "processing" /\ live' = Totals'
             /\ verdict'[t] = TerminalStatus(Totals')
        /\ \A t \in Slots : pc'[t] = "flushRow" => cnt'[t] = Totals'
        /\ \A t \in Slots : pc'[t] = "flushDel" => Terminal'
    BY <1>1, <1>5 DEF FlushInv, Ends, Dispatch, Flushing
  <2> QED BY <2>1, <2>2, <2>3 DEF Ends
<1>7. Read'
  BY <1>1 DEF FlushInv, Read, Dispatch, LatestPerDocument, Latest
<1> QED BY <1>2, <1>3, <1>6, <1>7

\* What becomes of the task of a delivery that ends.
Settled(s) ==
  \/ tasks' = tasks /\ tasks[doc[s]].owner # s
  \/ /\ tasks[doc[s]].owner = s
     /\ \A d \in Docs : d # doc[s] => tasks'[d] = tasks[d]
     /\ tasks'[doc[s]].state \in {"completed", "waiting", "failed"}
     /\ tasks'[doc[s]].state = "waiting" => pc[s] = "raise"

LEMMA SettleShape ==
  ASSUME FlushInv, NEW s \in Slots, Ack(s) \/ Raise(s)
  PROVE  /\ Dispatch(s) /\ Settled(s) /\ pc[s] \in {"ack", "raise"} /\ pc'[s] = "idle"
         /\ doc[s] \in Docs
<1>0. /\ pc \in [Slots -> SlotLabels] /\ doc \in [Slots -> Docs \union {NoDoc}]
      /\ cnt \in [Slots -> Counters] /\ verdict \in [Slots -> Finals]
      /\ tasks \in [Docs -> GoodTasks]
  BY DEF FlushInv, TypeOK
<1>1. pc[s] \in {"ack", "raise"} /\ doc[s] \in Docs
  BY DEF Ack, Raise, FlushInv, TypeOK
<1>2. Dispatch(s) /\ pc'[s] = "idle"
  BY <1>0 DEF Ack, Raise, Settle, Dispatch
<1>3. ASSUME NEW st, NEW n, Settle(s, st, n), st \in {"completed", "waiting", "failed"},
             st = "waiting" => pc[s] = "raise"
      PROVE  Settled(s)
  <2>1. tasks[doc[s]] \in Tasks
    BY <1>0, <1>1 DEF GoodTasks
  <2>2. CASE tasks[doc[s]].owner # s
    BY <1>3, <2>2 DEF Settle, Settled
  <2>3. CASE tasks[doc[s]].owner = s
    <3> DEFINE new == [tasks[doc[s]] EXCEPT !.state = st, !.owner = NoSlot, !.attempts = n]
    <3>1. tasks' = [tasks EXCEPT ![doc[s]] = new]
      BY <1>3, <2>3 DEF Settle
    <3>2. new.state = st
      BY <2>1 DEF Tasks
    <3> HIDE DEF new
    <3>3. /\ \A d \in Docs : d # doc[s] => tasks'[d] = tasks[d]
          /\ tasks'[doc[s]] = new
      BY <1>0, <1>1, <3>1
    <3> QED BY <1>3, <2>3, <3>2, <3>3 DEF Settled
  <2> QED BY <2>2, <2>3
<1>4. CASE Ack(s)
  <2>1. PICK n : Settle(s, "completed", n)
    BY <1>4 DEF Ack
  <2> QED BY <1>1, <1>2, <1>3, <2>1
<1>5. CASE Raise(s)
  <2> DEFINE st == IF tasks[doc[s]].attempts + 1 < MaxAttempts THEN "waiting" ELSE "failed"
  <2>1. pc[s] = "raise" /\ Settle(s, st, tasks[doc[s]].attempts + 1)
    BY <1>5 DEF Raise
  <2>2. st \in {"completed", "waiting", "failed"}
    OBVIOUS
  <2> HIDE DEF st
  <2> QED BY <1>1, <1>2, <1>3, <2>1, <2>2
<1> QED BY <1>1, <1>2, <1>4, <1>5

(* The end of a delivery keeps the invariant: a task to be retried is one   *)
(* whose row was not written.                                              *)
LEMMA SettleStep ==
  ASSUME FlushInv, NEW s \in Slots, Ack(s) \/ Raise(s), Exact', UNCHANGED opVars
  PROVE  IntakeInv' /\ Intake' /\ Hands' /\ Once' /\ Counts' /\ Ends' /\ Read'
<1>1. /\ Dispatch(s) /\ Settled(s) /\ pc[s] \in {"ack", "raise"} /\ pc'[s] = "idle"
      /\ doc[s] \in Docs
  BY SettleShape
<1>2. Intake' /\ Counts' /\ Ends' /\ Read'
  BY <1>1, DispatchKeeps
<1>3. IntakeInv'
  <2>1. \A d \in Docs : tasks[d].state # "absent" => tasks'[d].state # "absent"
    BY <1>1 DEF Settled
  <2> QED BY <1>1, <2>1 DEF FlushInv, IntakeInv, Dispatch
<1>4. /\ \A t \in Slots : pc'[t] # "idle" => t # s /\ pc[t] # "idle" /\ doc'[t] = doc[t]
      /\ \A t \in Slots : t # s => pc'[t] = pc[t] /\ doc'[t] = doc[t]
      /\ \A t \in Slots : t # s /\ pc[t] # "idle" => doc[t] # doc[s] /\ doc[t] \in Docs
      /\ ledger' = ledger /\ (Recovering' <=> Recovering)
  BY <1>1, Alone DEF Dispatch, Recovering, FlushInv, TypeOK
<1>5. Hands'
  <2>1. \A t, u \in Slots : pc'[t] # "idle" /\ pc'[u] # "idle" /\ doc'[t] = doc'[u] => t = u
    BY <1>4 DEF FlushInv, Hands
  <2>2. ASSUME NEW d \in Docs, tasks'[d].state = "active"
        PROVE  \E t \in Slots : tasks'[d].owner = t /\ pc'[t] # "idle" /\ doc'[t] = d
    <3>1. tasks'[d] = tasks[d] /\ (d = doc[s] => tasks[d].owner # s)
      BY <1>1, <2>2 DEF Settled
    <3>2. PICK t \in Slots : tasks[d].owner = t /\ pc[t] # "idle" /\ doc[t] = d
      BY <2>2, <3>1 DEF FlushInv, Hands
    <3>3. t # s
      BY <3>1, <3>2
    <3> QED BY <1>4, <3>1, <3>2, <3>3
  <2>3. ~Recovering' => \A t \in Slots : pc'[t] # "idle" => tasks'[doc'[t]].owner = t
    BY <1>1, <1>4 DEF FlushInv, Hands, Settled
  <2>4. ASSUME Recovering
        PROVE  /\ \A d \in Docs : tasks'[d] = AbsentTask
               /\ op' # "grace" => \A t \in Slots : pc'[t] = "idle"
               /\ \E d \in Docs : ledger'[d] = <<>> /\ \A t \in Slots : pc'[t] # "idle" => doc'[t] # d
    <3>1. \A d \in Docs : tasks[d] = AbsentTask
      BY <2>4 DEF FlushInv, Hands
    <3>2. tasks[doc[s]].owner # s
      BY <1>1, <3>1, SlotsAssumption DEF AbsentTask
    <3>3. tasks' = tasks
      BY <1>1, <3>2 DEF Settled
    <3>4. PICK d \in Docs : ledger[d] = <<>> /\ \A t \in Slots : pc[t] # "idle" => doc[t] # d
      BY <2>4 DEF FlushInv, Hands
    <3> QED BY <1>4, <2>4, <3>1, <3>3, <3>4 DEF FlushInv, Hands
  <2> QED BY <1>4, <2>1, <2>2, <2>3, <2>4 DEF Hands
<1>6. Once'
  <2>1. \A d \in Docs : tasks'[d].state = "waiting" => ledger[d] = <<>>
    <3>1. pc[s] = "raise" => ledger[doc[s]] = <<>>
      BY DEF FlushInv, Once, Unwritten
    <3> QED BY <1>1, <3>1 DEF FlushInv, Once, Settled
  <2>2. /\ \A t \in Slots : pc'[t] \in Unwritten => ledger[doc'[t]] = <<>>
        /\ \A t \in Slots : pc'[t] \notin Unwritten \union {"idle"} => ledger[doc'[t]] # <<>>
    <3>1. "idle" \notin Unwritten
      BY DEF Unwritten
    <3> QED BY <1>1, <1>4, <3>1 DEF FlushInv, Once
  <2> QED BY <1>4, <2>1, <2>2 DEF FlushInv, Once
<1> QED BY <1>2, <1>3, <1>5, <1>6

(* So does a delivery: a task that waits is in nobody's hands.             *)
LEMMA TakeStep ==
  ASSUME FlushInv, NEW s \in Slots, NEW d \in Docs, Take(s, d), Exact', UNCHANGED opVars
  PROVE  IntakeInv' /\ Intake' /\ Hands' /\ Once' /\ Counts' /\ Ends' /\ Read'
<1>0. /\ pc \in [Slots -> SlotLabels] /\ doc \in [Slots -> Docs \union {NoDoc}]
      /\ tasks \in [Docs -> GoodTasks] /\ tasks[d] \in Tasks
  BY DEF FlushInv, TypeOK, GoodTasks
<1>1. /\ Dispatch(s) /\ pc[s] = "idle" /\ pc'[s] = "readRow" /\ doc'[s] = d
      /\ tasks[d].state = "waiting" /\ ledger' = ledger
  BY <1>0 DEF Take, Dispatch
<1>2. /\ tasks'[d].state = "active" /\ tasks'[d].owner = s
      /\ \A e \in Docs : e # d => tasks'[e] = tasks[e]
  <2> DEFINE new == [tasks[d] EXCEPT !.state = "active", !.owner = s]
  <2>1. tasks' = [tasks EXCEPT ![d] = new]
    BY DEF Take
  <2>2. new.state = "active" /\ new.owner = s
    BY <1>0 DEF Tasks
  <2> HIDE DEF new
  <2> QED BY <1>0, <2>1, <2>2
<1>3. Intake' /\ Counts' /\ Ends' /\ Read'
  BY <1>1, DispatchKeeps
<1>4. IntakeInv'
  <2>1. row.status # "none"
    BY <1>1 DEF FlushInv, IntakeInv
  <2>2. \A e \in Docs : tasks[e].state # "absent" => tasks'[e].state # "absent"
    BY <1>2
  <2> QED BY <1>1, <2>1, <2>2 DEF FlushInv, IntakeInv, Dispatch
<1>5. ~Recovering /\ ~Recovering'
  BY <1>1 DEF FlushInv, Hands, AbsentTask, Recovering
<1>6. /\ \A t \in Slots : t # s => pc'[t] = pc[t] /\ doc'[t] = doc[t]
      /\ \A t \in Slots : pc[t] # "idle" => doc[t] # d /\ doc[t] \in Docs
  BY <1>1, Alone DEF Dispatch
<1>7. Hands'
  <2>1. \A t, u \in Slots : pc'[t] # "idle" /\ pc'[u] # "idle" /\ doc'[t] = doc'[u] => t = u
    BY <1>1, <1>6 DEF FlushInv, Hands
  <2>2. ASSUME NEW e \in Docs, tasks'[e].state = "active"
        PROVE  \E t \in Slots : tasks'[e].owner = t /\ pc'[t] # "idle" /\ doc'[t] = e
    <3>1. CASE e = d
      BY <1>1, <1>2, <3>1
    <3>2. CASE e # d
      <4>1. PICK t \in Slots : tasks[e].owner = t /\ pc[t] # "idle" /\ doc[t] = e
        BY <1>2, <2>2, <3>2 DEF FlushInv, Hands
      <4>2. t # s
        BY <1>1, <4>1
      <4> QED BY <1>2, <1>6, <3>2, <4>1, <4>2
    <3> QED BY <3>1, <3>2
  <2>3. \A t \in Slots : pc'[t] # "idle" => tasks'[doc'[t]].owner = t
    BY <1>1, <1>2, <1>5, <1>6 DEF FlushInv, Hands
  <2> QED BY <1>5, <2>1, <2>2, <2>3 DEF Hands
<1>8. Once'
  <2>1. ledger[d] = <<>>
    BY <1>1 DEF FlushInv, Once
  <2>2. \A e \in Docs : tasks'[e].state = "waiting" => ledger[e] = <<>>
    BY <1>2 DEF FlushInv, Once
  <2>3. "readRow" \in Unwritten
    BY DEF Unwritten
  <2>4. /\ \A t \in Slots : pc'[t] \in Unwritten => ledger[doc'[t]] = <<>>
        /\ \A t \in Slots : pc'[t] \notin Unwritten \union {"idle"} => ledger[doc'[t]] # <<>>
    BY <1>1, <1>6, <2>1, <2>3 DEF FlushInv, Once
  <2> QED BY <1>1, <2>2, <2>4 DEF FlushInv, Once
<1> QED BY <1>3, <1>4, <1>7, <1>8

\* The handler when no call of it fails.
Accepts ==
  /\ UNCHANGED <<ledger, slotVars>> /\ (Claimed' <=> Claimed) /\ live' \in {live, Zero}
  /\ api # "done" /\ row.status \in {"none", "pending"}
  /\ row'.status \in {"pending", "queued"}
  /\ row'.completed = row.completed /\ row'.failed = row.failed
  /\ api' \in {"snapshot", "init", "enqueue", "promote", "done"}
  /\ api' = "done" => row'.status = "queued"
  /\ \A d \in Docs : tasks'[d] = tasks[d]
                     \/ (tasks[d].state = "absent" /\ tasks'[d].state = "waiting")

LEMMA ApiAccepts == FlushInv /\ Gentle /\ ApiStep => Accepts
<1> SUFFICES ASSUME FlushInv, Gentle, ApiStep PROVE Accepts
  OBVIOUS
<1>0. /\ row \in RowType
      /\ api = "insert" => row.status = "none"
      /\ api \in {"snapshot", "init", "enqueue", "promote", "reject"} => row.status = "pending"
      /\ api # "reject"
  BY DEF FlushInv, TypeOK, RowType, IntakeInv, Intake
<1> USE DEF Gentle, Accepts
<1>1. CASE InsertJob
  BY <1>0, <1>1 DEF InsertJob, Claimed, RowType
<1>2. CASE PutSnapshot
  BY <1>0, <1>2 DEF PutSnapshot, Store, Claimed
<1>3. CASE InitProgress
  BY <1>0, <1>3 DEF InitProgress, WriteHash, Claimed
<1>4. CASE EnqueueDocuments
  BY <1>0, <1>4 DEF EnqueueDocuments, Add, NewTask, AbsentTask, Claimed
<1>5. CASE Promote
  BY <1>0, <1>5 DEF Promote, Claimed, RowType
<1>6. CASE Reject
  BY <1>0, <1>6 DEF Reject
<1> QED BY <1>1, <1>2, <1>3, <1>4, <1>5, <1>6 DEF ApiStep

(* The handler keeps the invariant: nothing is delivered beyond the guard   *)
(* on the row before it is done.                                           *)
LEMMA AcceptStep ==
  ASSUME FlushInv, Accepts, Exact', UNCHANGED opVars
  PROVE  Intake' /\ Hands' /\ Once' /\ Counts' /\ Ends' /\ Read'
<1>1. /\ op = "submit" /\ op' = "submit" /\ ~Recovering /\ ~Recovering'
      /\ \A s \in Slots : pc[s] \in {"idle", "readRow", "raise"}
      /\ (\A d \in Docs : ledger[d] = <<>>) /\ ~Claimed /\ live = Zero
  BY DEF FlushInv, Intake, Accepts, Recovering
<1>2. /\ UNCHANGED <<ledger, pc, doc>> /\ ~Claimed' /\ live' = Zero
  BY <1>1 DEF Accepts
<1>3. ~Terminal /\ ~Terminal'
  BY DEF Accepts, Terminal, Finals
<1>4. Intake'
  BY <1>1, <1>2 DEF Intake, Accepts
<1>5. Hands'
  <2>1. \A d \in Docs : tasks'[d].state = "active" => tasks'[d] = tasks[d]
    BY DEF Accepts
  <2>2. ASSUME NEW s \in Slots, pc[s] # "idle" PROVE tasks'[doc[s]].owner = s
    <3>1. doc[s] \in Docs /\ tasks[doc[s]].owner = s /\ tasks[doc[s]] \in GoodTasks
      BY <1>1, <2>2 DEF FlushInv, Hands, TypeOK
    <3>2. tasks[doc[s]].state = "active"
      BY <3>1, SlotsAssumption DEF GoodTasks
    <3> QED BY <3>1, <3>2 DEF Accepts
  <2> QED BY <1>1, <1>2, <2>1, <2>2 DEF FlushInv, Hands
<1>6. Once'
  BY <1>1, <1>2 DEF FlushInv, Once
<1>7. Counts'
  BY <1>3 DEF FlushInv, Counts, Accepts
<1>8. Ends'
  BY <1>1, <1>2, <1>3 DEF Ends, Flushing
<1>9. Read'
  BY <1>1 DEF Read
<1> QED BY <1>4, <1>5, <1>6, <1>7, <1>8, <1>9

(* No crash, no lock lost, and so no stalled task.                         *)
LEMMA NoOther ==
  ASSUME FlushInv, Gentle
  PROVE  /\ ~ApiCrash
         /\ \A d \in Docs : ~LoseLock(d) /\ ~StalledCheck(d)
         /\ \A p \in Procs : ~WorkerCrash(p)
<1>1. ~ApiCrash /\ (\A d \in Docs : ~LoseLock(d)) /\ \A p \in Procs : ~WorkerCrash(p)
  BY DEF Gentle, ApiCrash, LoseLock, WorkerCrash
<1>2. ASSUME NEW d \in Docs, StalledCheck(d) PROVE FALSE
  BY <1>2, SlotsAssumption DEF StalledCheck, FlushInv, Hands
<1> QED BY <1>1, <1>2

(* Every step of the protocol keeps the invariant.                         *)
LEMMA ProtocolStep ==
  ASSUME FlushInv, Gentle, Next, UNCHANGED opVars
  PROVE  FlushInv'
<1>1. TypeOK'
  BY TypeStep DEF FlushInv
<1>2. Exact'
  <2>1. Backed'
    BY BackedStep DEF FlushInv, Counts, Exact
  <2>2. UNCHANGED resent
    <3>1. ASSUME NEW s \in Slots, SlotStep(s) PROVE UNCHANGED resent
      BY <3>1, SlotCount DEF FlushInv, CountShape, RunsTwice, Gentle
    <3>2. CASE ApiStep
      BY <3>2 DEF ApiStep, InsertJob, PutSnapshot, InitProgress, EnqueueDocuments, Promote, Reject
    <3>3. CASE Deliver
      BY <3>3 DEF Deliver, Take
    <3> QED BY <3>1, <3>2, <3>3, NoOther DEF Next
  <2> QED BY <2>1, <2>2 DEF FlushInv, Counts, Exact
<1>3. CASE ApiStep
  BY <1>1, <1>2, <1>3, ApiIntake, ApiAccepts, AcceptStep DEF FlushInv
<1>4. ASSUME NEW s \in Slots, NEW d \in Docs, Take(s, d) PROVE FlushInv'
  BY <1>1, <1>2, <1>4, TakeStep DEF FlushInv
<1>5. ASSUME NEW s \in Slots, SlotStep(s) PROVE FlushInv'
  <2>1. CASE Ack(s) \/ Raise(s)
    BY <1>1, <1>2, <2>1, SettleStep DEF FlushInv
  <2>2. CASE Work(s)
    <3>1. IntakeInv' /\ Intake' /\ Hands' /\ Once'
      BY <2>2, WorkIntake, WorkHands, WorkOnce
    <3>2. Counts' /\ Ends' /\ Read'
      BY <1>2, <2>2, WorkCounts, WorkEnds, WorkRead
    <3> QED BY <1>1, <3>1, <3>2 DEF FlushInv
  <2> QED BY <1>5, <2>1, <2>2, SlotWork
<1> QED BY <1>3, <1>4, <1>5, NoOther DEF Next, Deliver

-----------------------------------------------------------------------------
(* The operator.                                                           *)

(* A step of the operator that touches no store keeps what is said of them. *)
LEMMA OperatorLooks ==
  ASSUME FlushInv, UNCHANGED vars, op # "submit" \/ api = "done", op' # "submit",
         Recovering' => Recovering, Recovering => Recovering' \/ \A s \in Slots : pc[s] = "idle",
         op' \in {"manifest", "seed"} => \A s \in Slots : pc[s] = "idle", op' # "enqueue"
  PROVE  TypeOK' /\ IntakeInv' /\ Intake' /\ Hands' /\ Once' /\ Counts' /\ Ends'
<1>1. TypeOK' /\ IntakeInv'
  BY DEF FlushInv, TypeOK, IntakeInv
<1>2. Intake'
  BY DEF FlushInv, Intake, Claimed
<1>3. Hands'
  BY DEF FlushInv, Hands, Recovering
<1>4. Once'
  BY DEF FlushInv, Once
<1>5. /\ Totals' = Totals /\ Rows("rendered")' = Rows("rendered") /\ Rows("error")' = Rows("error")
      /\ (Claimed' <=> Claimed) /\ (Terminal' <=> Terminal)
  BY DEF Totals, Rows, Claimed, Terminal
<1>6. Counts'
  <2>1. Backed'
    BY BackedStep DEF FlushInv, Counts, Exact
  <2> QED BY <1>5, <2>1 DEF FlushInv, Counts, Exact
<1>7. AllCounted' <=> AllCounted
  BY DEF AllCounted, AllWritten, Uncounted
<1>8. Ends'
  BY <1>5, <1>7 DEF FlushInv, Ends
<1> QED BY <1>1, <1>2, <1>3, <1>4, <1>6, <1>8

(* Polling, waiting and fetching the manifest.                             *)
LEMMA Looks ==
  ASSUME FlushInv, Submitted \/ Poll \/ TooLate \/ Grace \/ FetchManifest \/ Watch
  PROVE  FlushInv'
<1>1. ASSUME NEW from, NEW to, PollRow(from, to), to \in {"pollLive", "watchLive"},
             from \in {"pollRow", "watchRow"}, to = "watchLive" => from = "watchRow"
      PROVE  FlushInv'
  <2>1. TypeOK' /\ IntakeInv' /\ Intake' /\ Hands' /\ Once' /\ Counts' /\ Ends'
    BY <1>1, OperatorLooks DEF PollRow, Recovering
  <2>2. /\ reply' = [status |-> row.status, source |-> "postgres",
                     completed |-> row.completed, failed |-> row.failed]
        /\ row' = row
    BY <1>1 DEF PollRow, GetById
  <2>3. /\ DOMAIN reply' = {"status", "source", "completed", "failed"}
        /\ reply'.status = row'.status
        /\ reply'.completed = row'.completed /\ reply'.failed = row'.failed
    BY <2>2
  <2>4. row'.status \notin Finals => row'.completed = 0 /\ row'.failed = 0
    BY <2>2 DEF FlushInv, Counts, Terminal
  <2>5. /\ UNCHANGED <<ledger, seen>> /\ op' = to
        /\ to = "watchLive" => op = "watchRow"
    BY <1>1 DEF PollRow
  <2>6. to = "watchLive" =>
          \A d \in Docs : seen'[d] # "missing" => ledger'[d] # <<>> /\ seen'[d] = Latest(d)'
    BY <2>5 DEF FlushInv, Read, Latest
  <2> QED BY <1>1, <2>1, <2>3, <2>4, <2>5, <2>6 DEF FlushInv, Read
<1>2. CASE Submitted \/ TooLate \/ (Poll /\ op = "pollLive") \/ Grace
  <2>1. /\ UNCHANGED <<vars, seen>>
        /\ op' \notin {"pollLive", "watchLive", "seed", "enqueue", "watchRow", "done", "submit"}
        /\ op' = "manifest" => \A s \in Slots : pc[s] = "idle"
        /\ op # "submit" \/ api = "done"
        /\ Recovering' <=> Recovering
    BY <1>2 DEF Submitted, TooLate, Poll, PollRow, Grace, Recovering
  <2>2. TypeOK' /\ IntakeInv' /\ Intake' /\ Hands' /\ Once' /\ Counts' /\ Ends'
    BY <2>1, OperatorLooks
  <2>3. Read'
    BY <2>1 DEF Read
  <2> QED BY <2>2, <2>3 DEF FlushInv
<1>3. CASE FetchManifest
  <2>1. /\ UNCHANGED vars /\ op = "manifest" /\ op' \in {"seed", "crashed"}
        /\ seen' = LatestPerDocument
        /\ \A s \in Slots : pc[s] = "idle"
    BY <1>3 DEF FetchManifest, FlushInv, Hands, Recovering
  <2>2. TypeOK' /\ IntakeInv' /\ Intake' /\ Hands' /\ Once' /\ Counts' /\ Ends'
    BY <2>1, OperatorLooks DEF Recovering
  <2>3. LatestPerDocument' = LatestPerDocument /\ \A d \in Docs : Latest(d)' = Latest(d)
    BY <2>1 DEF LatestPerDocument, Latest
  <2>4. \A d \in Docs : seen'[d] # "missing" => ledger'[d] # <<>> /\ seen'[d] = Latest(d)'
    BY <2>1, <2>3 DEF LatestPerDocument, Latest
  <2> QED BY <2>1, <2>2, <2>3, <2>4 DEF FlushInv, Read
<1>4. CASE Watch /\ op = "watchLive"
  <2>1. /\ UNCHANGED <<vars, seen>> /\ op' = IF Answer.status \in Finals THEN "done" ELSE "watchRow"
    BY <1>4 DEF Watch, PollRow
  <2>2. TypeOK' /\ IntakeInv' /\ Intake' /\ Hands' /\ Once' /\ Counts' /\ Ends'
    BY <1>4, <2>1, OperatorLooks DEF Recovering
  <2>3. Answer.status = reply.status
    BY <1>4 DEF FlushInv, Read, Answer
  <2>4. op' = "done" => Terminal'
    BY <1>4, <2>1, <2>3 DEF FlushInv, Read, Terminal
  <2>5. \A d \in Docs : seen'[d] # "missing" => ledger'[d] # <<>> /\ seen'[d] = Latest(d)'
    BY <1>4, <2>1 DEF FlushInv, Read, Latest
  <2>6. op' \in {"done", "watchRow"}
    BY <2>1
  <2> QED BY <2>2, <2>4, <2>5, <2>6 DEF FlushInv, Read
<1>5. CASE Poll /\ op # "pollLive"
  BY <1>1, <1>5 DEF Poll
<1>6. CASE Watch /\ op # "watchLive"
  BY <1>1, <1>6 DEF Watch
<1> QED BY <1>2, <1>3, <1>4, <1>5, <1>6

(* While a task waits its document has no row, so nothing is claimed, and   *)
(* the document is in nobody's hands when Redis is emptied.                *)
LEMMA FlushKeeps == ASSUME FlushInv, Flush PROVE FlushInv'
<1>1. /\ op = "flush" /\ op' = "grace" /\ UNCHANGED <<apiVars, row, ledger, bucket, slotVars>>
      /\ UNCHANGED <<cache, faultVars, reply, seen>>
      /\ tasks' = [d \in Docs |-> AbsentTask] /\ keys' = {} /\ live' = Zero
      /\ ~Recovering /\ Recovering'
  BY DEF Flush, Recovering
<1>2. PICK e \in Docs : tasks[e].state = "waiting"
  BY DEF Flush, Undelivered
<1>3. ledger[e] = <<>> /\ ~AllWritten
  BY <1>2 DEF FlushInv, Once, AllWritten
<1>4. /\ ~Claimed /\ ~Terminal /\ ~Claimed' /\ ~Terminal'
      /\ \A s \in Slots : pc[s] \notin Flushing \union {"claimSet"}
  BY <1>1, <1>3 DEF FlushInv, Ends, AllCounted, Claimed, Terminal
<1>5. TypeOK'
  <2>1. AbsentTask \in GoodTasks
    BY BoundsAssumption DEF AbsentTask, GoodTasks, Tasks, TaskStates
  <2>2. Zero \in Counters
    BY DEF Zero, Counters
  <2> QED BY <1>1, <2>1, <2>2 DEF FlushInv, TypeOK
<1>6. IntakeInv'
  BY <1>1 DEF FlushInv, Intake, IntakeInv
<1>7. Intake'
  BY <1>1, <1>4 DEF FlushInv, Intake
<1>8. Hands'
  <2>1. \A s \in Slots : pc[s] # "idle" => doc[s] # e
    BY <1>2, Alone
  <2>2. \A d \in Docs : tasks'[d] = AbsentTask /\ tasks'[d].state # "active"
    BY <1>1 DEF AbsentTask
  <2> QED BY <1>1, <1>3, <2>1, <2>2 DEF FlushInv, Hands
<1>9. Once'
  <2>1. \A d \in Docs : tasks'[d].state # "waiting"
    BY <1>1 DEF AbsentTask
  <2> QED BY <1>1, <2>1 DEF FlushInv, Once
<1>10. Counts'
  <2>1. Backed'
    BY <1>1, BackedFrame DEF FlushInv, Counts, Exact
  <2> QED BY <1>1, <1>4, <2>1 DEF FlushInv, Counts, Exact
<1>11. Ends'
  BY <1>1, <1>4 DEF Ends, Flushing
<1>12. Read'
  BY <1>1 DEF Read
<1> QED BY <1>5, <1>6, <1>7, <1>8, <1>9, <1>10, <1>11, <1>12 DEF FlushInv

(* The counters seeded from the manifest are those of the ledger: no slot   *)
(* works, so no row is written after the manifest was read.                *)
LEMMA SeedKeeps == ASSUME FlushInv, Seed PROVE FlushInv'
<1>1. /\ op = "seed" /\ op' = "enqueue" /\ UNCHANGED <<apiVars, row, ledger, bucket, slotVars>>
      /\ UNCHANGED <<cache, faultVars, reply, seen, tasks>>
      /\ live' = [completed |-> Cardinality(Seen("rendered")), failed |-> Cardinality(Seen("error"))]
      /\ keys' = (keys \ {"finalized"}) \union {"progress"}
      /\ Recovering /\ Recovering'
  BY DEF Seed, Recovering
<1>2. /\ \A s \in Slots : pc[s] = "idle" /\ pc'[s] = "idle"
      /\ seen = LatestPerDocument /\ \E d \in Docs : ledger[d] = <<>>
  BY <1>1 DEF FlushInv, Hands, Read
<1>3. ~Claimed /\ ~Terminal /\ ~Claimed' /\ ~Terminal'
  BY <1>1, <1>2 DEF FlushInv, Ends, AllCounted, AllWritten, Claimed, Terminal
<1>4. ASSUME NEW o \in Outcomes
      PROVE  /\ Seen(o) = Of(o) /\ Cardinality(Seen(o)) = Rows(o) /\ Cardinality(Seen(o)) \in Nat
             /\ IsFiniteSet(RowSet(o))
  <2>1. ledger \in [Docs -> Seq(Outcomes)] /\ Once
    BY DEF FlushInv, TypeOK
  <2>2. ASSUME NEW d \in Docs PROVE seen[d] = o <=> ledger[d] = <<o>>
    <3>1. seen[d] = IF ledger[d] = <<>> THEN "missing" ELSE ledger[d][Len(ledger[d])]
      BY <1>2 DEF LatestPerDocument, Latest
    <3>2. o # "missing" /\ <<o>> # <<>>
      BY DEF Outcomes
    <3>3. CASE ledger[d] = <<>>
      BY <3>1, <3>2, <3>3
    <3>4. CASE ledger[d] # <<>>
      <4>1. PICK r \in Outcomes : ledger[d] = <<r>>
        BY <2>1, <3>4 DEF Once
      <4>2. seen[d] = r
        BY <3>1, <3>4, <4>1
      <4> QED BY <4>1, <4>2
    <3> QED BY <3>3, <3>4
  <2>3. Seen(o) = Of(o)
    BY <2>2 DEF Seen, Of
  <2>4. Rows(o) = Cardinality(Of(o)) /\ IsFiniteSet(Of(o)) /\ IsFiniteSet(RowSet(o))
    BY <2>1, RowsAreDocs
  <2> QED BY <2>3, <2>4, FS_CardinalityType
<1>5. /\ Cardinality(Seen("rendered")) = Rows("rendered") /\ Cardinality(Seen("error")) = Rows("error")
      /\ Cardinality(Seen("rendered")) \in Nat /\ Cardinality(Seen("error")) \in Nat
  BY <1>4 DEF Outcomes
<1>6. TypeOK'
  <2>1. live' \in Counters /\ keys' \subseteq RedisKeys
    BY <1>1, <1>5 DEF Counters, RedisKeys, FlushInv, TypeOK
  <2> QED BY <1>1, <2>1 DEF FlushInv, TypeOK
<1>7. IntakeInv'
  BY <1>1 DEF FlushInv, IntakeInv
<1>8. Intake'
  <2>1. ASSUME \A d \in Docs : ledger[d] = <<>> PROVE live' = Zero
    <3>1. ASSUME NEW o \in Outcomes PROVE Cardinality(Seen(o)) = 0
      <4>1. Of(o) = {}
        BY <2>1 DEF Of
      <4> QED BY <1>4, <4>1, FS_EmptySet
    <3> QED BY <1>1, <3>1 DEF Zero, Outcomes
  <2> QED BY <1>1, <1>3, <2>1 DEF FlushInv, Intake
<1>9. Hands'
  BY <1>1, <1>2 DEF FlushInv, Hands
<1>10. Once'
  BY <1>1 DEF FlushInv, Once
<1>11. Exact'
  <2>0. resent' = Zero
    BY <1>1 DEF FlushInv, Counts, Exact
  <2> SUFFICES ASSUME NEW o \in Outcomes
               PROVE  /\ IsFiniteSet(RowSet(o)') /\ IsFiniteSet(Uncounted(o)')
                      /\ Counter(o)' + Cardinality(Uncounted(o)') <= Cardinality(RowSet(o)') + Resent(o)'
    BY <2>0 DEF Exact, Backed
  <2>1. Uncounted(o)' = {}
    BY <1>2 DEF Uncounted
  <2>2. RowSet(o)' = RowSet(o)
    BY <1>1 DEF RowSet
  <2>5. IsFiniteSet(RowSet(o)) /\ Rows(o) = Cardinality(RowSet(o))
    <3>1. IsFiniteSet(RowSet(o))
      BY <1>4
    <3>2. Rows(o) = Cardinality(RowSet(o))
      BY DEF RowSet, Rows
    <3> QED BY <3>1, <3>2
  <2>3. Counter(o)' = Rows(o) /\ Rows(o) \in Nat
    BY <1>1, <1>5 DEF Counter, Outcomes
  <2>4. IsFiniteSet(Uncounted(o)') /\ Cardinality(Uncounted(o)') = 0
    BY <2>1, FS_EmptySet
  <2>6. Resent(o)' = 0
    BY <2>0 DEF Resent, Zero
  <2> QED BY <2>2, <2>3, <2>4, <2>5, <2>6
<1>12. Counts'
  BY <1>1, <1>3, <1>11 DEF FlushInv, Counts
<1>13. Ends'
  BY <1>2, <1>3 DEF Ends, Flushing
<1>14. Read'
  <2>1. LatestPerDocument' = LatestPerDocument /\ \A d \in Docs : Latest(d)' = Latest(d)
    BY <1>1 DEF LatestPerDocument, Latest
  <2> QED BY <1>1, <2>1 DEF FlushInv, Read
<1> QED BY <1>6, <1>7, <1>8, <1>9, <1>10, <1>12, <1>13, <1>14 DEF FlushInv

(* Exactly the documents without a row are given a task again.             *)
LEMMA EnqueueKeeps == ASSUME FlushInv, EnqueueMissing PROVE FlushInv'
<1>1. /\ op = "enqueue" /\ op' = "watchRow"
      /\ UNCHANGED <<apiVars, row, ledger, bucket, keys, live, slotVars>>
      /\ UNCHANGED <<cache, faultVars, reply, seen>> /\ Add(Missing)
      /\ Recovering /\ ~Recovering'
  BY DEF EnqueueMissing, Recovering
<1>2. /\ \A s \in Slots : pc[s] = "idle" /\ pc'[s] = "idle"
      /\ seen = LatestPerDocument /\ \A d \in Docs : tasks[d] = AbsentTask
  BY <1>1 DEF FlushInv, Hands, Read
<1>3. Missing \in SUBSET Docs /\ \A d \in Missing : ledger[d] = <<>>
  <2>1. ASSUME NEW d \in Missing PROVE d \in Docs /\ ledger[d] = <<>>
    <3>1. d \in Docs /\ Latest(d) = "missing"
      BY <1>2, <2>1 DEF Missing, Seen, LatestPerDocument
    <3>2. ASSUME ledger[d] # <<>> PROVE Latest(d) # "missing"
      <4>1. PICK r \in Outcomes : ledger[d] = <<r>>
        BY <3>1, <3>2 DEF FlushInv, Once
      <4>2. Latest(d) = r
        BY <3>2, <4>1 DEF Latest
      <4> QED BY <4>2 DEF Outcomes
    <3> QED BY <3>1, <3>2
  <2> QED BY <2>1
<1>4. \A d \in Docs : /\ tasks'[d] \in {NewTask, AbsentTask}
                      /\ tasks'[d] = NewTask => ledger[d] = <<>>
  BY <1>1, <1>2, <1>3 DEF Add, NewTask, AbsentTask
<1>5. /\ NewTask.state = "waiting" /\ AbsentTask.state = "absent"
  BY DEF NewTask, AbsentTask
<1>6. TypeOK'
  <2>1. tasks' \in [Docs -> GoodTasks]
    BY <1>1, <1>3, TaskNew DEF FlushInv, TypeOK
  <2> QED BY <1>1, <2>1 DEF FlushInv, TypeOK
<1>7. api = "done" /\ row.status # "none"
  BY <1>1 DEF FlushInv, Intake
<1>8. IntakeInv'
  BY <1>1, <1>7 DEF FlushInv, IntakeInv
<1>9. Intake'
  BY <1>1 DEF FlushInv, Intake, Claimed
<1>10. Hands'
  BY <1>1, <1>2, <1>4, <1>5 DEF Hands
<1>11. Once'
  BY <1>1, <1>4, <1>5 DEF FlushInv, Once
<1>12. /\ Totals' = Totals /\ Rows("rendered")' = Rows("rendered") /\ Rows("error")' = Rows("error")
       /\ (Claimed' <=> Claimed) /\ (Terminal' <=> Terminal) /\ (AllCounted' <=> AllCounted)
  BY <1>1 DEF Totals, Rows, Claimed, Terminal, AllCounted, AllWritten, Uncounted
<1>13. Counts'
  <2>1. Backed'
    BY <1>1, BackedFrame DEF FlushInv, Counts, Exact
  <2> QED BY <1>1, <1>12, <2>1 DEF FlushInv, Counts, Exact
<1>14. Ends'
  BY <1>1, <1>2, <1>12 DEF FlushInv, Ends, Flushing
<1>15. Read'
  BY <1>1 DEF FlushInv, Read, Latest
<1> QED BY <1>6, <1>8, <1>9, <1>10, <1>11, <1>13, <1>14, <1>15 DEF FlushInv

-----------------------------------------------------------------------------
(* The invariant, and what follows from it.                                *)

LEMMA FlushInvInit == FlushInit => FlushInv
<1> SUFFICES ASSUME FlushInit PROVE FlushInv
  OBVIOUS
<1>1. Init /\ op = "submit"
  BY DEF FlushInit
<1>2. TypeOK
  BY <1>1, TypeInit
<1>3. IntakeInv /\ Intake
  BY <1>1, BoundsAssumption DEF Init, IntakeInv, Intake, AbsentTask, Claimed
<1>4. Hands /\ Once
  BY <1>1 DEF Init, Hands, Once, AbsentTask, Recovering, Unwritten
<1>5. Counts
  <2>1. Backed
    BY <1>1, BackedInit
  <2> QED BY <1>1, <2>1 DEF Init, Counts, Exact, Terminal, Finals
<1>6. Ends /\ Read
  BY <1>1 DEF Init, Ends, Read, Terminal, Finals, Claimed, Flushing
<1> QED BY <1>2, <1>3, <1>4, <1>5, <1>6 DEF FlushInv

LEMMA FlushInvStep == ASSUME Gentle PROVE FlushInv /\ [FlushNext]_allVars => FlushInv'
<1> SUFFICES ASSUME FlushInv, [FlushNext]_allVars PROVE FlushInv'
  OBVIOUS
<1>1. CASE Next /\ UNCHANGED opVars
  BY <1>1, ProtocolStep
<1>2. CASE Operator
  BY <1>2, Looks, FlushKeeps, SeedKeeps, EnqueueKeeps DEF Operator
<1>3. CASE UNCHANGED allVars
  <2>1. TypeOK' /\ IntakeInv' /\ Intake' /\ Hands' /\ Once'
    BY <1>3 DEF FlushInv, TypeOK, IntakeInv, Intake, Hands, Once, Claimed, Recovering
  <2>2. Backed'
    BY <1>3, BackedStep DEF FlushInv, Counts, Exact
  <2>3. /\ Totals' = Totals /\ Rows("rendered")' = Rows("rendered") /\ Rows("error")' = Rows("error")
        /\ (Claimed' <=> Claimed) /\ (Terminal' <=> Terminal) /\ (AllCounted' <=> AllCounted)
    BY <1>3 DEF Totals, Rows, Claimed, Terminal, AllCounted, AllWritten, Uncounted
  <2>4. Counts' /\ Ends'
    BY <1>3, <2>2, <2>3 DEF FlushInv, Counts, Exact, Ends
  <2>5. Read'
    BY <1>3, <2>3 DEF FlushInv, Read, LatestPerDocument, Latest
  <2> QED BY <2>1, <2>4, <2>5 DEF FlushInv
<1> QED BY <1>1, <1>2, <1>3 DEF FlushNext

(* The inductive invariant of the protocol with the flush and the recovery. *)
THEOREM FlushInvariance == ASSUME Gentle PROVE FlushSpec => []FlushInv
<1>1. FlushInit => FlushInv
  BY FlushInvInit
<1>2. FlushInv /\ [FlushNext]_allVars => FlushInv'
  BY FlushInvStep
<1> QED
  BY <1>1, <1>2, PTL DEF FlushSpec

(* Without failures but of uploads a terminal row says exactly what the     *)
(* ledger holds, one row per document, and does so across a flush of Redis  *)
(* in the middle of the job and the recovery from it (api.md:66-67).        *)
THEOREM TerminalAcrossFlush == ASSUME Gentle PROVE FlushSpec => []TerminalMatchesLedger
<1>1. FlushInv => TerminalMatchesLedger
  <2> SUFFICES ASSUME FlushInv, Terminal
               PROVE  /\ \A d \in Docs : Len(ledger[d]) = 1
                      /\ row.completed = Rows("rendered") /\ row.failed = Rows("error")
                      /\ row.status = TerminalStatus([completed |-> row.completed,
                                                      failed |-> row.failed])
    BY DEF TerminalMatchesLedger
  <2>1. /\ row.completed = Rows("rendered") /\ row.failed = Rows("error")
        /\ row.status = TerminalStatus(Totals)
    BY DEF FlushInv, Counts
  <2>2. ASSUME NEW d \in Docs PROVE Len(ledger[d]) = 1
    <3>1. ledger[d] # <<>>
      BY DEF FlushInv, Ends, AllCounted, AllWritten
    <3>2. PICK o \in Outcomes : ledger[d] = <<o>>
      BY <3>1 DEF FlushInv, Once
    <3> QED BY <3>2
  <2> QED BY <2>1, <2>2 DEF Totals
<1> QED
  BY <1>1, FlushInvariance, PTL

(* An answer of GET /jobs/:id, put together from two reads, never counts a  *)
(* document the ledger does not have, and a terminal one has the final      *)
(* counts (routes/jobs.js).                                                *)
THEOREM PollsAreTruthful == ASSUME Gentle PROVE FlushSpec => []PollTruthful
<1>1. FlushInv => PollTruthful
  <2> SUFFICES ASSUME FlushInv, op \in {"pollLive", "watchLive"}
               PROVE  /\ Answer.completed <= Rows("rendered") /\ Answer.failed <= Rows("error")
                      /\ Answer.status \in Finals =>
                           /\ Answer.status = row.status
                           /\ Answer.completed = row.completed /\ Answer.failed = row.failed
    BY DEF PollTruthful
  <2>1. /\ DOMAIN reply = {"status", "source", "completed", "failed"}
        /\ reply.status \in Finals => /\ reply.status = row.status
                                      /\ reply.completed = row.completed /\ reply.failed = row.failed
        /\ reply.status \notin Finals => reply.completed = 0 /\ reply.failed = 0
    BY DEF FlushInv, Read
  <2>2. /\ live.completed <= Rows("rendered") /\ live.failed <= Rows("error")
        /\ Rows("rendered") \in Nat /\ Rows("error") \in Nat
    <3>1. TypeOK /\ Backed /\ Once /\ resent = Zero
      BY DEF FlushInv, Counts, Exact
    <3>2. CountsBackedByLedger
      BY <3>1, BackedCounts
    <3>3. Rows("rendered") \in Nat /\ Rows("error") \in Nat
      BY <3>1, RowsBounded DEF TypeOK
    <3> QED BY <3>1, <3>2, <3>3 DEF CountsBackedByLedger, Zero
  <2>3. Terminal => /\ row.completed = Rows("rendered") /\ row.failed = Rows("error")
                    /\ "progress" \in keys => /\ live.completed = Rows("rendered")
                                              /\ live.failed = Rows("error")
    BY DEF FlushInv, Counts, Totals
  <2>4. CASE "progress" \in keys
    <3>1. /\ Answer.status = reply.status
          /\ Answer.completed = live.completed /\ Answer.failed = live.failed
      BY <2>1, <2>4 DEF Answer
    <3> QED BY <2>1, <2>2, <2>3, <2>4, <3>1 DEF Terminal
  <2>5. CASE "progress" \notin keys
    <3>1. Answer = reply
      BY <2>5 DEF Answer
    <3>2. CASE reply.status \in Finals
      BY <2>1, <2>2, <2>3, <3>1, <3>2 DEF Terminal
    <3>3. CASE reply.status \notin Finals
      BY <2>1, <2>2, <3>1, <3>3
    <3> QED BY <3>2, <3>3
  <2> QED BY <2>4, <2>5
<1> QED
  BY <1>1, FlushInvariance, PTL

(* The recovered job has every document once, with the outcomes the         *)
(* manifest had before the missing tasks were added again                   *)
(* (chaos_flush_redis.js).                                                 *)
THEOREM Recovered == ASSUME Gentle PROVE FlushSpec => []RecoveredExactly
<1>1. FlushInv => RecoveredExactly
  <2> SUFFICES ASSUME FlushInv, op = "done", NEW d \in Docs
               PROVE  Len(ledger[d]) = 1 /\ (seen[d] # "missing" => Latest(d) = seen[d])
    BY DEF RecoveredExactly
  <2>1. ledger[d] # <<>>
    BY DEF FlushInv, Read, Ends, AllCounted, AllWritten
  <2>2. PICK o \in Outcomes : ledger[d] = <<o>>
    BY <2>1 DEF FlushInv, Once
  <2>3. Len(ledger[d]) = 1
    BY <2>2
  <2> QED BY <2>3 DEF FlushInv, Read
<1> QED
  BY <1>1, FlushInvariance, PTL

-----------------------------------------------------------------------------
(* Under every kind of failure.  A document can then have several rows, a   *)
(* lost one or an uncounted one, so the terminal row need not be the        *)
(* ledger's; but nothing ever counts more than the ledger has and the       *)
(* increments that were sent again, and what the manifest of the recovery   *)
(* has is left alone.                                                      *)

\* Before the flush, and after the missing tasks are back.
Before == {"submit", "pollRow", "pollLive", "flush", "late"}
After  == {"watchRow", "watchLive", "done"}

\* No more is counted than the ledger has, and the increments sent again.
Due(outcome) == Rows(outcome) + Resent(outcome)
Within(c) == c.completed <= Due("rendered") /\ c.failed <= Due("error")

\* Nobody has the document, or will be given it.
Aside(d) == tasks[d] = AbsentTask /\ \A s \in Slots : pc[s] # "idle" => doc[s] # d

\* GET /jobs/:id never answers with a count that neither the ledger nor an
\* increment sent again accounts for, nor when the read of the hash fails and
\* the row answers alone.
NeverAhead == op \in {"pollLive", "watchLive"} => Within(Answer) /\ Within(reply)

\* chaos_flush_redis.js:99-103: what the manifest had is not added again.
FinishedLeftAlone ==
  op \in After => \A d \in Docs : seen[d] # "missing" => seen[d] = Latest(d) /\ Aside(d)

BoundedInv ==
  /\ TypeOK /\ Backed
  /\ op \in Before => IInv
  /\ op \notin Before => row.status # "none"
  /\ op # "submit" => api = "done"
  /\ reply \in [status : Statuses, source : {"postgres"}, completed : Nat, failed : Nat]
  /\ Within(row) /\ Within(reply) /\ \A s \in Slots : Within(cnt[s])
  /\ Recovering => \A d \in Docs : tasks[d] = AbsentTask
  /\ Recovering /\ op # "grace" => \A s \in Slots : pc[s] = "idle"
  /\ op \in {"seed", "enqueue"} => seen = LatestPerDocument
  /\ FinishedLeftAlone

(* Rows are numbers, and there are never fewer of them.                    *)
LEMMA RowsCounted ==
  ASSUME Backed, NEW o \in Outcomes
  PROVE  Rows(o) \in Nat /\ Rows(o) = Cardinality(RowSet(o))
<1>1. IsFiniteSet(RowSet(o))
  BY DEF Backed
<1>2. Rows(o) = Cardinality(RowSet(o))
  BY DEF Rows, RowSet
<1> QED BY <1>1, <1>2, FS_CardinalityType

LEMMA DueCounted ==
  ASSUME TypeOK, Backed, NEW o \in Outcomes
  PROVE  Due(o) \in Nat /\ Rows(o) <= Due(o)
<1>1. Resent(o) \in Nat
  BY DEF Resent, TypeOK, Counters
<1> QED BY <1>1, RowsCounted DEF Due

LEMMA LedgerSteps ==
  ASSUME TypeOK, [Next]_vars
  PROVE  \/ UNCHANGED ledger
         \/ \E s \in Slots, p \in Outcomes : pc[s] # "idle" /\ doc[s] \in Docs /\ AppendEntry(s, p)
<1>1. ASSUME NEW s \in Slots, SlotStep(s)
      PROVE  \/ UNCHANGED ledger
             \/ \E p \in Outcomes : pc[s] # "idle" /\ doc[s] \in Docs /\ AppendEntry(s, p)
  <2>1. StoreShape(s) /\ PathShape(s)
    BY <1>1, SlotStore, SlotPath
  <2> QED BY <2>1 DEF StoreShape, PathShape, TypeOK, Outcomes
<1>2. CASE ApiStep
  BY <1>2, ApiShapes DEF ApiShape
<1>3. CASE ApiCrash \/ Deliver \/ (\E d \in Docs : LoseLock(d) \/ StalledCheck(d))
             \/ (\E p \in Procs : WorkerCrash(p)) \/ UNCHANGED vars
  BY <1>3 DEF ApiCrash, Deliver, Take, LoseLock, StalledCheck, WorkerCrash
<1> QED BY <1>1, <1>2, <1>3 DEF Next

LEMMA RowsGrow ==
  ASSUME TypeOK, Backed, [Next]_vars, NEW o \in Outcomes
  PROVE  /\ Rows(o) \in Nat /\ Rows(o)' \in Nat
         /\ Rows(o) <= Rows(o)'
<1>1. IsFiniteSet(RowSet(o)') /\ Rows(o) \in Nat /\ Rows(o) = Cardinality(RowSet(o))
  <2>1. Backed'
    BY BackedStep
  <2> QED BY <2>1, RowsCounted DEF Backed
<1>2. RowSet(o) \in SUBSET RowSet(o)'
  <2>1. CASE UNCHANGED ledger
    BY <2>1 DEF RowSet
  <2>2. ASSUME NEW s \in Slots, NEW p \in Outcomes, doc[s] \in Docs, AppendEntry(s, p)
        PROVE  RowSet(o) \in SUBSET RowSet(o)'
    <3>1. /\ o = p => \E new : new \notin RowSet(o) /\ RowSet(o)' = RowSet(o) \union {new}
          /\ o # p => RowSet(o)' = RowSet(o)
      BY <2>2, RowAppended DEF TypeOK
    <3> QED BY <3>1
  <2> QED BY <2>1, <2>2, LedgerSteps
<1>3. Rows(o)' = Cardinality(RowSet(o)')
  BY DEF Rows, RowSet
<1>4. Cardinality(RowSet(o)) <= Cardinality(RowSet(o)') /\ Cardinality(RowSet(o)') \in Nat
  BY <1>1, <1>2, FS_Subset, FS_CardinalityType
<1> QED BY <1>1, <1>3, <1>4

(* and so are the increments that were sent again.                         *)
LEMMA DueGrows ==
  ASSUME TypeOK, Backed, [Next]_vars, NEW o \in Outcomes
  PROVE  Due(o) \in Nat /\ Due(o)' \in Nat /\ Due(o) <= Due(o)'
<1>1. resent \in Counters
  BY DEF TypeOK
<1>2. resent' = resent \/ Twice(1, 0) \/ Twice(0, 1)
  <2>1. ASSUME NEW s \in Slots, SlotStep(s) PROVE resent' = resent \/ Twice(1, 0) \/ Twice(0, 1)
    BY <2>1, SlotCount DEF CountShape, RunsTwice
  <2>2. CASE ApiStep
    BY <2>2 DEF ApiStep, InsertJob, PutSnapshot, InitProgress, EnqueueDocuments, Promote, Reject
  <2>3. CASE ApiCrash \/ Deliver \/ (\E d \in Docs : LoseLock(d) \/ StalledCheck(d))
               \/ (\E p \in Procs : WorkerCrash(p)) \/ UNCHANGED vars
    BY <2>3 DEF ApiCrash, Deliver, Take, LoseLock, StalledCheck, WorkerCrash
  <2> QED BY <2>1, <2>2, <2>3 DEF Next
<1>3. Resent(o) \in Nat /\ Resent(o)' \in Nat /\ Resent(o) <= Resent(o)'
  BY <1>1, <1>2 DEF Resent, Twice, Counters
<1> QED BY <1>3, RowsGrow DEF Due

(* What was within the ledger stays within it.                             *)
LEMMA WithinGrows ==
  ASSUME TypeOK, Backed, [Next]_vars, NEW c \in Counters, Within(c)
  PROVE  c.completed <= Due("rendered")' /\ c.failed <= Due("error")'
<1>1. c.completed \in Nat /\ c.failed \in Nat
  BY DEF Counters
<1>2. /\ Due("rendered") \in Nat /\ Due("rendered")' \in Nat /\ Due("rendered") <= Due("rendered")'
      /\ Due("error") \in Nat /\ Due("error")' \in Nat /\ Due("error") <= Due("error")'
  BY DueGrows DEF Outcomes
<1> QED BY <1>1, <1>2 DEF Within

\* Where a step takes the counters of the row and of a slot from.
CountersShape(s) ==
  /\ \/ row'.completed = row.completed /\ row'.failed = row.failed
     \/ row'.completed = cnt[s].completed /\ row'.failed = cnt[s].failed
  /\ \A t \in Slots : cnt'[t] \in {cnt[t], live, Zero}

LEMMA SlotCounters == ASSUME NEW s \in Slots, TypeOK, SlotStep(s) PROVE CountersShape(s)
<1>0. row \in RowType /\ cnt \in [Slots -> Counters]
  BY DEF TypeOK, RowType
<1>1. CASE ReadRow(s)
  BY <1>0, <1>1 DEF ReadRow, CountersShape
<1>2. CASE MarkProcessing(s)
  BY <1>0, <1>2 DEF MarkProcessing, QueuedToProcessing, CountersShape, RowType
<1>3. CASE GetSnapshot(s)
  BY <1>0, <1>3 DEF GetSnapshot, CountersShape
<1>4. CASE Render(s)
  BY <1>0, <1>4 DEF Render, CountersShape
<1>5. CASE PutArtifact(s)
  BY <1>0, <1>5 DEF PutArtifact, CountersShape
<1>6. CASE AppendRendered(s)
  BY <1>0, <1>6 DEF AppendRendered, CountersShape
<1>7. CASE IncrementCompleted(s)
  BY <1>0, <1>7 DEF IncrementCompleted, CountersShape
<1>8. CASE AppendError(s)
  BY <1>0, <1>8 DEF AppendError, CountersShape
<1>9. CASE IncrementFailed(s)
  BY <1>0, <1>9 DEF IncrementFailed, CountersShape
<1>10. CASE Release(s)
  BY <1>0, <1>10 DEF Release, CountersShape
<1>11. CASE ClaimRead(s)
  BY <1>0, <1>11 DEF ClaimRead, ReadCounters, CountersShape
<1>12. CASE ClaimMarker(s)
  BY <1>0, <1>12 DEF ClaimMarker, CountersShape
<1>13. CASE FlushRead(s)
  BY <1>0, <1>13 DEF FlushRead, ReadCounters, CountersShape
<1>14. CASE FlushRow(s)
  BY <1>0, <1>14 DEF FlushRow, CountersShape
<1>15. CASE FlushDel(s)
  BY <1>0, <1>15 DEF FlushDel, CountersShape
<1>16. CASE Ack(s)
  BY <1>0, <1>16 DEF Ack, Settle, CountersShape
<1>17. CASE Raise(s)
  BY <1>0, <1>17 DEF Raise, Settle, CountersShape
<1> QED
  BY <1>1, <1>2, <1>3, <1>4, <1>5, <1>6, <1>7, <1>8, <1>9, <1>10, <1>11, <1>12, <1>13, <1>14, <1>15, <1>16, <1>17 DEF SlotStep

LEMMA CountersStep ==
  ASSUME TypeOK, [Next]_vars
  PROVE  /\ \/ row'.completed = row.completed /\ row'.failed = row.failed
            \/ \E s \in Slots : row'.completed = cnt[s].completed /\ row'.failed = cnt[s].failed
         /\ \A t \in Slots : cnt'[t] \in {cnt[t], live, Zero}
<1>0. row \in RowType /\ cnt \in [Slots -> Counters]
  BY DEF TypeOK, RowType
<1>1. ASSUME NEW s \in Slots, SlotStep(s) PROVE CountersShape(s)
  BY <1>1, SlotCounters
<1>2. CASE ApiStep
  BY <1>0, <1>2 DEF ApiStep, InsertJob, PutSnapshot, InitProgress, EnqueueDocuments, Promote,
                    Reject, RowType
<1>3. CASE ApiCrash \/ Deliver \/ (\E d \in Docs : LoseLock(d) \/ StalledCheck(d)) \/ UNCHANGED vars
  BY <1>3 DEF ApiCrash, Deliver, Take, LoseLock, StalledCheck
<1>4. CASE \E p \in Procs : WorkerCrash(p)
  BY <1>0, <1>4 DEF WorkerCrash
<1> QED BY <1>1, <1>2, <1>3, <1>4 DEF Next, CountersShape

(* Neither the row nor a slot counts more than the ledger has.             *)
LEMMA WithinStep ==
  ASSUME TypeOK, Backed, [Next]_vars, Within(row), \A s \in Slots : Within(cnt[s])
  PROVE  Within(row)' /\ \A s \in Slots : Within(cnt[s])'
<1>1. ASSUME NEW c \in Counters, Within(c)
      PROVE  c.completed <= Due("rendered")' /\ c.failed <= Due("error")'
  BY <1>1, WithinGrows
<1>2. live \in Counters /\ Within(live)
  BY BackedCounts DEF CountsBackedByLedger, Due, Resent, Within, TypeOK
<1>3. /\ Zero \in Counters /\ Within(Zero)
      /\ [completed |-> row.completed, failed |-> row.failed] \in Counters
      /\ Within([completed |-> row.completed, failed |-> row.failed])
      /\ \A s \in Slots : cnt[s] \in Counters
  <2>1. Due("rendered") \in Nat /\ Due("error") \in Nat
    BY DueCounted DEF Outcomes
  <2> QED BY <2>1 DEF Within, Zero, Counters, TypeOK
<1>4. Within(row)'
  <2>1. CASE row'.completed = row.completed /\ row'.failed = row.failed
    <3> DEFINE c == [completed |-> row.completed, failed |-> row.failed]
    <3>1. c \in Counters /\ Within(c) /\ c.completed = row'.completed /\ c.failed = row'.failed
      BY <1>3, <2>1
    <3> HIDE DEF c
    <3>2. c.completed <= Due("rendered")' /\ c.failed <= Due("error")'
      BY <1>1, <3>1
    <3> QED BY <3>1, <3>2 DEF Within
  <2>2. ASSUME NEW s \in Slots, row'.completed = cnt[s].completed, row'.failed = cnt[s].failed
        PROVE  Within(row)'
    <3>1. cnt[s].completed <= Due("rendered")' /\ cnt[s].failed <= Due("error")'
      BY <1>1, <1>3
    <3> QED BY <2>2, <3>1 DEF Within
  <2> QED BY <2>1, <2>2, CountersStep
<1>5. ASSUME NEW t \in Slots PROVE Within(cnt[t])'
  <2>1. cnt'[t] \in {cnt[t], live, Zero}
    BY CountersStep
  <2>2. cnt'[t] \in Counters /\ Within(cnt'[t])
    BY <1>2, <1>3, <2>1
  <2>3. cnt'[t].completed <= Due("rendered")' /\ cnt'[t].failed <= Due("error")'
    BY <1>1, <2>2
  <2> QED BY <2>3 DEF Within
<1> QED BY <1>4, <1>5

-----------------------------------------------------------------------------
(* Tasks that are gone stay gone.                                          *)

(* Once the handler is done nobody adds a task, and nobody moves one that   *)
(* is not there.                                                           *)
LEMMA AbsentStays ==
  ASSUME TypeOK, api = "done", [Next]_vars, NEW d \in Docs, tasks[d] = AbsentTask
  PROVE  tasks'[d] = AbsentTask
<1>0. /\ tasks \in [Docs -> GoodTasks] /\ AbsentTask.state = "absent" /\ AbsentTask.owner = NoSlot
      /\ NoSlot \notin Slots
  BY SlotsAssumption DEF TypeOK, AbsentTask
<1>1. ASSUME NEW s \in Slots, SlotStep(s) PROVE tasks'[d] = tasks[d]
  <2>1. StoreShape(s)
    BY <1>1, SlotStore
  <2>2. CASE tasks' = tasks
    BY <2>2
  <2>3. ASSUME NEW st, NEW n, tasks[doc[s]].owner = s,
               tasks' = [tasks EXCEPT ![doc[s]] = [@ EXCEPT !.state = st, !.owner = NoSlot,
                                                            !.attempts = n]]
        PROVE  tasks'[d] = tasks[d]
    <3>1. doc[s] # d
      BY <1>0, <2>3
    <3> QED BY <1>0, <2>3, <3>1
  <2> QED BY <2>1, <2>2, <2>3 DEF StoreShape
<1>2. ~ApiStep
  BY DEF ApiStep, InsertJob, PutSnapshot, InitProgress, EnqueueDocuments, Promote, Reject
<1>3. CASE Deliver
  BY <1>0, <1>3 DEF Deliver, Take
<1>4. ASSUME NEW e \in Docs, LoseLock(e) \/ StalledCheck(e) PROVE tasks'[d] = tasks[d]
  <2>1. e # d
    BY <1>0, <1>4 DEF LoseLock, StalledCheck
  <2> QED BY <1>0, <1>4, <2>1 DEF LoseLock, StalledCheck
<1>5. ASSUME NEW p \in Procs, WorkerCrash(p) PROVE tasks'[d] = tasks[d]
  BY <1>0, <1>5 DEF WorkerCrash
<1>6. CASE ApiCrash \/ UNCHANGED vars
  BY <1>6 DEF ApiCrash
<1> QED BY <1>1, <1>2, <1>3, <1>4, <1>5, <1>6 DEF Next

(* A document that nobody has and nobody will be given keeps its rows.     *)
LEMMA AsideStays ==
  ASSUME TypeOK, api = "done", [Next]_vars, NEW d \in Docs, Aside(d)
  PROVE  Aside(d)' /\ ledger'[d] = ledger[d]
<1>0. /\ tasks \in [Docs -> GoodTasks] /\ doc \in [Slots -> Docs \union {NoDoc}]
      /\ pc \in [Slots -> SlotLabels] /\ ledger \in [Docs -> Seq(Outcomes)]
      /\ AbsentTask.state = "absent"
  BY DEF TypeOK, AbsentTask
<1>1. tasks'[d] = AbsentTask
  BY AbsentStays DEF Aside
<1>2. ledger'[d] = ledger[d]
  <2>1. ASSUME NEW s \in Slots, NEW p \in Outcomes, pc[s] # "idle", AppendEntry(s, p)
        PROVE  ledger'[d] = ledger[d]
    <3>1. doc[s] # d
      BY <2>1 DEF Aside
    <3> QED BY <1>0, <2>1, <3>1 DEF AppendEntry
  <2> QED BY <2>1, LedgerSteps
<1>3. ASSUME NEW t \in Slots, pc'[t] # "idle" PROVE doc'[t] # d
  <2>1. ASSUME NEW s \in Slots, SlotStep(s) PROVE doc'[t] # d
    <3>1. PathShape(s)
      BY <2>1, SlotPath
    <3> QED BY <1>3, <3>1 DEF PathShape, Aside
  <2>2. CASE Deliver
    <3>1. PICK s \in Slots, e \in Docs : Take(s, e)
      BY <2>2 DEF Deliver
    <3>2. e # d
      BY <1>0, <3>1 DEF Take, Aside
    <3> QED BY <1>0, <1>3, <3>1, <3>2 DEF Take, Aside
  <2>3. ASSUME NEW p \in Procs, WorkerCrash(p) PROVE doc'[t] # d
    BY <1>3, <2>3 DEF WorkerCrash, Aside
  <2>4. CASE ApiStep \/ ApiCrash \/ (\E e \in Docs : LoseLock(e) \/ StalledCheck(e)) \/ UNCHANGED vars
    <3>1. UNCHANGED slotVars
      BY <2>4, ApiShapes DEF ApiShape, ApiCrash, LoseLock, StalledCheck
    <3> QED BY <1>3, <3>1 DEF Aside
  <2> QED BY <2>1, <2>2, <2>3, <2>4 DEF Next
<1> QED BY <1>1, <1>2, <1>3 DEF Aside

(* With no task and no delivery left nothing moves but the operator.       *)
LEMMA NothingMoves ==
  ASSUME TypeOK, api = "done", \A d \in Docs : tasks[d] = AbsentTask, \A s \in Slots : pc[s] = "idle"
  PROVE  ~Next
<1>1. AbsentTask.state = "absent" /\ AbsentTask.owner = NoSlot
  BY DEF AbsentTask
<1>2. ~ApiStep /\ ~ApiCrash
  BY DEF ApiStep, InsertJob, PutSnapshot, InitProgress, EnqueueDocuments, Promote, Reject, ApiCrash
<1>3. ~Deliver
  BY <1>1 DEF Deliver, Take
<1>4. ASSUME NEW s \in Slots PROVE ~SlotStep(s)
  BY SlotPath DEF PathShape
<1>5. ~(\E d \in Docs : LoseLock(d) \/ StalledCheck(d))
  BY <1>1 DEF LoseLock, StalledCheck
<1>6. ~(\E p \in Procs : WorkerCrash(p))
  BY DEF WorkerCrash
<1> QED BY <1>2, <1>3, <1>4, <1>5, <1>6 DEF Next

(* The handler stays done, and the row of the job stays.                   *)
LEMMA RowStays ==
  ASSUME TypeOK, api = "done", [Next]_vars
  PROVE  api' = "done" /\ (row.status # "none" => row'.status # "none")
<1>1. ASSUME NEW s \in Slots, SlotStep(s)
      PROVE  api' = "done" /\ (row.status # "none" => row'.status # "none")
  BY <1>1, SlotRow DEF RowShape, Finals
<1>2. ~ApiStep /\ ~ApiCrash
  BY DEF ApiStep, InsertJob, PutSnapshot, InitProgress, EnqueueDocuments, Promote, Reject, ApiCrash
<1>3. CASE Deliver \/ (\E d \in Docs : LoseLock(d) \/ StalledCheck(d))
             \/ (\E p \in Procs : WorkerCrash(p)) \/ UNCHANGED vars
  BY <1>3 DEF Deliver, Take, LoseLock, StalledCheck, WorkerCrash
<1> QED BY <1>1, <1>2, <1>3 DEF Next

-----------------------------------------------------------------------------
(* The invariant under every failure.                                      *)

LEMMA BoundedInit == FlushInit => BoundedInv
<1> SUFFICES ASSUME FlushInit PROVE BoundedInv
  OBVIOUS
<1>1. Init /\ op = "submit" /\ reply = NoReply
  BY DEF FlushInit
<1>2. TypeOK /\ Backed /\ IInv
  BY <1>1, TypeInit, BackedInit, InvInit
<1>3. reply \in [status : Statuses, source : {"postgres"}, completed : Nat, failed : Nat]
  BY <1>1 DEF NoReply, Statuses
<1>4. Within(row) /\ Within(reply) /\ \A s \in Slots : Within(cnt[s])
  <2>1. Due("rendered") \in Nat /\ Due("error") \in Nat
    BY <1>2, DueCounted DEF Outcomes
  <2> QED BY <1>1, <2>1 DEF Init, NoReply, Zero, Within
<1> QED BY <1>1, <1>2, <1>3, <1>4 DEF BoundedInv, Before, After, Recovering, FinishedLeftAlone

(* The protocol keeps it, whatever fails.                                  *)
LEMMA BoundedProtocol == ASSUME BoundedInv, [Next]_vars, UNCHANGED opVars PROVE BoundedInv'
<1>1. TypeOK /\ Backed /\ IntakeInv
  <2>1. CASE op \in Before
    BY <2>1 DEF BoundedInv, IInv
  <2>2. CASE op \notin Before
    BY <2>2 DEF BoundedInv, Before, IntakeInv
  <2> QED BY <2>1, <2>2
<1>2. TypeOK' /\ Backed'
  BY <1>1, TypeStep, BackedStep
<1>3. op' \in Before => IInv'
  BY InvStep DEF BoundedInv
<1>4. /\ op' \notin Before => row'.status # "none"
      /\ op' # "submit" => api' = "done"
  BY <1>1, RowStays DEF BoundedInv, Before
<1>5. Within(row)' /\ \A s \in Slots : Within(cnt[s])'
  BY <1>1, WithinStep DEF BoundedInv
<1>6. Within(reply)'
  <2> DEFINE c == [completed |-> reply.completed, failed |-> reply.failed]
  <2>1. c \in Counters /\ Within(c) /\ c.completed = reply.completed /\ c.failed = reply.failed
    BY DEF BoundedInv, Counters, Within
  <2> HIDE DEF c
  <2>2. c.completed <= Due("rendered")' /\ c.failed <= Due("error")'
    BY <1>1, <2>1, WithinGrows
  <2> QED BY <2>1, <2>2 DEF Within
<1>7. Recovering' => \A d \in Docs : tasks'[d] = AbsentTask
  BY <1>1, AbsentStays DEF BoundedInv, Recovering
<1>8. /\ Recovering' /\ op' # "grace" => \A s \in Slots : pc'[s] = "idle"
      /\ op' \in {"seed", "enqueue"} => seen' = LatestPerDocument'
  <2>1. CASE Recovering /\ op # "grace"
    <3>1. UNCHANGED vars
      BY <1>1, <2>1, NothingMoves DEF BoundedInv, Recovering
    <3> QED BY <3>1 DEF BoundedInv, Recovering, LatestPerDocument, Latest
  <2>2. CASE ~(Recovering /\ op # "grace")
    BY <2>2 DEF Recovering
  <2> QED BY <2>1, <2>2
<1>9. FinishedLeftAlone'
  <2> SUFFICES ASSUME op \in After, NEW d \in Docs, seen[d] # "missing"
               PROVE  seen[d] = Latest(d)' /\ Aside(d)'
    BY DEF FinishedLeftAlone
  <2>1. seen[d] = Latest(d) /\ Aside(d) /\ api = "done"
    BY DEF BoundedInv, FinishedLeftAlone, After
  <2>2. Aside(d)' /\ ledger'[d] = ledger[d]
    BY <1>1, <2>1, AsideStays
  <2> QED BY <2>1, <2>2 DEF Latest
<1> QED BY <1>2, <1>3, <1>4, <1>5, <1>6, <1>7, <1>8, <1>9 DEF BoundedInv

(* A look of the operator moves only the operator; what it reads is what    *)
(* the row says.                                                           *)
LEMMA BoundedLooks ==
  ASSUME BoundedInv, Submitted \/ Poll \/ TooLate \/ Grace \/ FetchManifest \/ Watch
  PROVE  BoundedInv'
<1>1. UNCHANGED vars /\ (op = "submit" => api = "done")
  BY DEF Submitted, Poll, PollRow, TooLate, Grace, FetchManifest, Watch
<1>2. /\ op' # "submit" /\ (op \in Before <=> op' \in Before) /\ (op \in After <=> op' \in After)
      /\ op \notin {"seed", "enqueue"} /\ (op' = "seed" => seen' = LatestPerDocument)
      /\ op' # "enqueue" /\ (op \in After => seen' = seen)
  BY DEF Submitted, Poll, PollRow, TooLate, Grace, FetchManifest, Watch, Before, After
<1>3. TypeOK' /\ Backed'
  <2>1. IntakeInv \/ op \notin Before
    BY DEF BoundedInv, IInv
  <2>2. Backed'
    BY <1>1, BackedStep DEF BoundedInv
  <2>3. TypeOK'
    BY <1>1 DEF BoundedInv, TypeOK
  <2> QED BY <2>2, <2>3
<1>4. op \in Before => IInv'
  BY <1>1, InvStep DEF BoundedInv
<1>5. /\ Due("rendered")' = Due("rendered") /\ Due("error")' = Due("error")
      /\ Due("rendered") \in Nat /\ Due("error") \in Nat
  BY <1>1, DueCounted DEF BoundedInv, Due, Rows, Resent, Outcomes
<1>6. /\ reply' \in [status : Statuses, source : {"postgres"}, completed : Nat, failed : Nat]
      /\ Within(reply)'
  <2>1. reply' \in {reply, NoReply, GetById}
    BY DEF Submitted, Poll, PollRow, TooLate, Grace, FetchManifest, Watch
  <2>2. NoReply \in [status : Statuses, source : {"postgres"}, completed : Nat, failed : Nat]
    BY DEF NoReply, Statuses
  <2>3. GetById \in [status : Statuses, source : {"postgres"}, completed : Nat, failed : Nat]
    BY DEF GetById, BoundedInv, TypeOK
  <2>4. Within(NoReply) /\ Within(GetById) /\ Within(reply)
    BY <1>5 DEF NoReply, GetById, Within, BoundedInv
  <2>5. Within(reply')
    BY <2>1, <2>4
  <2> QED BY <1>5, <2>1, <2>2, <2>3, <2>5 DEF Within, BoundedInv
<1>7. Within(row)' /\ \A s \in Slots : Within(cnt[s])'
  BY <1>1, <1>5 DEF Within, BoundedInv
<1>8. /\ Recovering' => \A d \in Docs : tasks'[d] = AbsentTask
      /\ Recovering' /\ op' # "grace" => \A s \in Slots : pc'[s] = "idle"
  <2>1. Recovering' => Recovering
    BY DEF Submitted, Poll, PollRow, TooLate, Grace, FetchManifest, Watch, Recovering
  <2>2. op' # "grace" /\ Recovering' /\ op = "grace" => \A s \in Slots : pc[s] = "idle"
    BY <1>2 DEF Submitted, Poll, PollRow, TooLate, Grace, FetchManifest, Watch, Recovering
  <2> QED BY <1>1, <2>1, <2>2 DEF BoundedInv
<1>9. op' \in {"seed", "enqueue"} => seen' = LatestPerDocument'
  BY <1>1, <1>2 DEF LatestPerDocument, Latest
<1>10. FinishedLeftAlone'
  BY <1>1, <1>2 DEF BoundedInv, FinishedLeftAlone, Aside, Latest
<1>11. /\ op' \notin Before => row'.status # "none"
       /\ op' # "submit" => api' = "done"
  BY <1>1, <1>2 DEF BoundedInv
<1> QED BY <1>2, <1>3, <1>4, <1>6, <1>7, <1>8, <1>9, <1>10, <1>11 DEF BoundedInv

(* The flush only takes away: a task still waits, so the job has its row.   *)
LEMMA BoundedFlush == ASSUME BoundedInv, Flush PROVE BoundedInv'
<1>1. /\ op = "flush" /\ op' = "grace" /\ UNCHANGED <<apiVars, row, ledger, bucket, slotVars>>
      /\ UNCHANGED <<cache, faultVars, reply, seen>>
      /\ tasks' = [d \in Docs |-> AbsentTask] /\ keys' = {} /\ live' = Zero
  BY DEF Flush
<1>2. /\ IInv /\ TypeOK /\ Backed
      /\ op' \notin Before /\ op' \notin After /\ op' \notin {"seed", "enqueue"}
  BY <1>1 DEF BoundedInv, Before, After
<1>3. row.status # "none"
  BY <1>2 DEF Flush, Undelivered, IInv, IntakeInv
<1>4. TypeOK'
  <2>1. AbsentTask \in GoodTasks
    BY BoundsAssumption DEF AbsentTask, GoodTasks, Tasks, TaskStates
  <2>2. Zero \in Counters
    BY DEF Zero, Counters
  <2> QED BY <1>1, <1>2, <2>1, <2>2 DEF TypeOK
<1>5. Backed'
  BY <1>1, <1>2, BackedFrame
<1>6. Due("rendered")' = Due("rendered") /\ Due("error")' = Due("error")
  BY <1>1 DEF Due, Rows, Resent
<1>7. Within(row)' /\ Within(reply)' /\ \A s \in Slots : Within(cnt[s])'
  BY <1>1, <1>6 DEF BoundedInv, Within
<1> QED BY <1>1, <1>2, <1>3, <1>4, <1>5, <1>7 DEF BoundedInv, FinishedLeftAlone

(* The manifest has one outcome of a document that may have several rows,   *)
(* so the counters seeded from it are no more than the ledger has.         *)
LEMMA SeenWithin ==
  ASSUME TypeOK, Backed, seen = LatestPerDocument, NEW o \in Outcomes
  PROVE  Cardinality(Seen(o)) \in Nat /\ Cardinality(Seen(o)) <= Rows(o)
<1> DEFINE S == Seen(o)
           R == RowSet(o)
           f == [d \in S |-> <<d, Len(ledger[d])>>]
<1>1. IsFiniteSet(R) /\ Rows(o) = Cardinality(R)
  BY RowsCounted DEF Backed
<1>2. ASSUME NEW d \in S PROVE f[d] \in R
  <2>1. d \in Docs /\ Latest(d) = o /\ o # "missing"
    BY <1>2 DEF Seen, LatestPerDocument, Outcomes
  <2>2. ledger[d] # <<>> /\ ledger[d][Len(ledger[d])] = o /\ ledger[d] \in Seq(Outcomes)
    BY <2>1 DEF Latest, TypeOK
  <2>3. Len(ledger[d]) \in DOMAIN ledger[d]
    BY <2>2
  <2> QED BY <2>1, <2>2, <2>3 DEF RowSet
<1>3. \A a, b \in S : f[a] = f[b] => a = b
  OBVIOUS
<1>4. f \in [S -> R]
  BY <1>2
<1>5. f \in Injection(S, R)
  <2> HIDE DEF f, S, R
  <2> QED BY <1>3, <1>4 DEF Injection, IsInjective
<1>6. IsFiniteSet(S) /\ Cardinality(S) <= Cardinality(R)
  <2> HIDE DEF f, S, R
  <2> QED BY <1>1, <1>5, FS_Injection
<1> QED BY <1>1, <1>6, FS_CardinalityType

LEMMA BoundedSeed == ASSUME BoundedInv, Seed PROVE BoundedInv'
<1>1. /\ op = "seed" /\ op' = "enqueue" /\ UNCHANGED <<apiVars, row, ledger, bucket, slotVars>>
      /\ UNCHANGED <<cache, faultVars, reply, seen, tasks>>
      /\ live' = [completed |-> Cardinality(Seen("rendered")), failed |-> Cardinality(Seen("error"))]
      /\ keys' = (keys \ {"finalized"}) \union {"progress"}
      /\ Recovering /\ Recovering'
  BY DEF Seed, Recovering
<1>2. /\ TypeOK /\ Backed /\ seen = LatestPerDocument /\ \A s \in Slots : pc'[s] = "idle"
      /\ op \notin Before /\ op' \notin Before /\ op' \notin After
  BY <1>1 DEF BoundedInv, Before, After
<1>3. \A o \in Outcomes : Cardinality(Seen(o)) \in Nat /\ Cardinality(Seen(o)) <= Rows(o)
  BY <1>2, SeenWithin
<1>4. TypeOK'
  <2>1. live' \in Counters /\ keys' \subseteq RedisKeys
    BY <1>1, <1>2, <1>3 DEF Counters, RedisKeys, TypeOK, Outcomes
  <2> QED BY <1>1, <1>2, <2>1 DEF TypeOK
<1>5. Backed'
  <2> SUFFICES ASSUME NEW o \in Outcomes
               PROVE  /\ IsFiniteSet(RowSet(o)') /\ IsFiniteSet(Uncounted(o)')
                      /\ Counter(o)' + Cardinality(Uncounted(o)') <= Cardinality(RowSet(o)') + Resent(o)'
    BY DEF Backed
  <2>1. Uncounted(o)' = {}
    BY <1>2 DEF Uncounted
  <2>2. RowSet(o)' = RowSet(o) /\ IsFiniteSet(RowSet(o)) /\ Rows(o) = Cardinality(RowSet(o))
    <3>1. RowSet(o)' = RowSet(o)
      BY <1>1 DEF RowSet
    <3>2. IsFiniteSet(RowSet(o))
      BY <1>2 DEF Backed
    <3> QED BY <1>2, <3>1, <3>2, RowsCounted
  <2>3. Counter(o)' = Cardinality(Seen(o))
    <3>1. /\ live'.completed = Cardinality(Seen("rendered"))
          /\ live'.failed = Cardinality(Seen("error"))
      BY <1>1
    <3> QED BY <3>1 DEF Counter, Outcomes
  <2>5. Resent(o)' \in Nat
    <3>1. resent' = resent
      BY <1>1
    <3>2. resent.completed \in Nat /\ resent.failed \in Nat
      BY <1>2 DEF TypeOK, Counters
    <3> QED BY <3>1, <3>2 DEF Resent
  <2>4. IsFiniteSet(Uncounted(o)') /\ Cardinality(Uncounted(o)') = 0
    BY <2>1, FS_EmptySet
  <2>6. Cardinality(Seen(o)) \in Nat /\ Cardinality(Seen(o)) <= Cardinality(RowSet(o))
    BY <1>3, <2>2
  <2>7. Cardinality(RowSet(o)) \in Nat
    BY <2>2, FS_CardinalityType
  <2> QED BY <2>2, <2>3, <2>4, <2>5, <2>6, <2>7
<1>6. Due("rendered")' = Due("rendered") /\ Due("error")' = Due("error")
  BY <1>1 DEF Due, Rows, Resent
<1>7. Within(row)' /\ Within(reply)' /\ \A s \in Slots : Within(cnt[s])'
  BY <1>1, <1>6 DEF BoundedInv, Within
<1>8. seen' = LatestPerDocument'
  BY <1>1, <1>2 DEF LatestPerDocument, Latest
<1> QED BY <1>1, <1>2, <1>4, <1>5, <1>7, <1>8 DEF BoundedInv, FinishedLeftAlone

(* What the manifest has is not added again, and no task or delivery of it  *)
(* is left.                                                                *)
LEMMA BoundedEnqueue == ASSUME BoundedInv, EnqueueMissing PROVE BoundedInv'
<1>1. /\ op = "enqueue" /\ op' = "watchRow"
      /\ UNCHANGED <<apiVars, row, ledger, bucket, keys, live, slotVars>>
      /\ UNCHANGED <<cache, faultVars, reply, seen>> /\ Add(Missing)
      /\ Recovering /\ ~Recovering'
  BY DEF EnqueueMissing, Recovering
<1>2. /\ TypeOK /\ Backed /\ seen = LatestPerDocument /\ \A s \in Slots : pc'[s] = "idle"
      /\ \A d \in Docs : tasks[d] = AbsentTask
      /\ op \notin Before /\ op' \notin Before /\ op' \notin {"seed", "enqueue"}
  BY <1>1 DEF BoundedInv, Before, Recovering
<1>3. TypeOK'
  <2>1. Missing \in SUBSET Docs
    BY DEF Missing, Seen
  <2>2. tasks' \in [Docs -> GoodTasks]
    BY <1>1, <1>2, <2>1, TaskNew DEF TypeOK
  <2> QED BY <1>1, <1>2, <2>2 DEF TypeOK
<1>4. Backed'
  BY <1>1, <1>2, BackedFrame
<1>5. Due("rendered")' = Due("rendered") /\ Due("error")' = Due("error")
  BY <1>1 DEF Due, Rows, Resent
<1>6. Within(row)' /\ Within(reply)' /\ \A s \in Slots : Within(cnt[s])'
  BY <1>1, <1>5 DEF BoundedInv, Within
<1>7. FinishedLeftAlone'
  <2> SUFFICES ASSUME NEW d \in Docs, seen[d] # "missing"
               PROVE  seen[d] = Latest(d)' /\ Aside(d)'
    BY <1>1 DEF FinishedLeftAlone
  <2>1. seen[d] = Latest(d) /\ Latest(d)' = Latest(d)
    BY <1>1, <1>2 DEF LatestPerDocument, Latest
  <2>2. d \notin Missing
    BY DEF Missing, Seen
  <2>3. tasks'[d] = AbsentTask
    BY <1>1, <1>2, <2>2 DEF Add
  <2> QED BY <1>2, <2>1, <2>3 DEF Aside
<1> QED BY <1>1, <1>2, <1>3, <1>4, <1>6, <1>7 DEF BoundedInv

LEMMA BoundedStep == BoundedInv /\ [FlushNext]_allVars => BoundedInv'
<1> SUFFICES ASSUME BoundedInv, [FlushNext]_allVars PROVE BoundedInv'
  OBVIOUS
<1>1. CASE (Next /\ UNCHANGED opVars) \/ UNCHANGED allVars
  BY <1>1, BoundedProtocol
<1>2. CASE Operator
  BY <1>2, BoundedLooks, BoundedFlush, BoundedSeed, BoundedEnqueue DEF Operator
<1> QED BY <1>1, <1>2 DEF FlushNext

(* The inductive invariant of the flush and the recovery under every kind   *)
(* of failure, any number of them.                                         *)
THEOREM BoundedInvariance == FlushSpec => []BoundedInv
BY BoundedInit, BoundedStep, PTL DEF FlushSpec

(* Across a flush and the recovery too, and whatever fails, neither a       *)
(* counter nor the row of the job, live or terminal, is ahead of the ledger *)
(* rows of its outcome by more than the increments that were sent again     *)
(* (pipeline.js:38-47, redis.js:9-14).                                     *)
THEOREM CountsBackedAcrossFlush == FlushSpec => [](CountsBackedByLedger /\ Within(row))
<1>1. BoundedInv => CountsBackedByLedger /\ Within(row)
  BY BackedCounts DEF BoundedInv
<1> QED BY <1>1, BoundedInvariance, PTL

(* GET /jobs/:id puts its answer together from a row and a hash that are    *)
(* read one after the other, and still never reports more documents done    *)
(* than the ledger has and increments were sent again                      *)
(* (routes/jobs.js:140-174).                                               *)
THEOREM PollsNeverAhead == FlushSpec => []NeverAhead
<1>1. BoundedInv => NeverAhead
  <2> SUFFICES ASSUME BoundedInv PROVE Within(Answer) /\ Within(reply)
    BY DEF NeverAhead
  <2>1. live.completed <= Due("rendered") /\ live.failed <= Due("error")
    BY BackedCounts DEF BoundedInv, CountsBackedByLedger, Due, Resent
  <2>2. Answer = reply \/ (Answer.completed = live.completed /\ Answer.failed = live.failed)
    BY DEF Answer, BoundedInv
  <2> QED BY <2>1, <2>2 DEF Within, BoundedInv
<1> QED BY <1>1, BoundedInvariance, PTL

(* A document whose outcome the recovery found in the manifest keeps it:    *)
(* it has no task, nobody works on it and nobody will                      *)
(* (chaos_flush_redis.js:99-103).                                          *)
THEOREM FinishedStaysAlone == FlushSpec => []FinishedLeftAlone
<1>1. BoundedInv => FinishedLeftAlone
  BY DEF BoundedInv
<1> QED BY <1>1, BoundedInvariance, PTL

\* A step that writes no row of a document the manifest had.
RowsOfFinishedStay ==
  op \in After => \A d \in Docs : seen[d] # "missing" => ledger'[d] = ledger[d]

(* Nor does it get another row, in any step after the missing tasks were    *)
(* added again.                                                            *)
THEOREM FinishedNotRedone == FlushSpec => [][RowsOfFinishedStay]_allVars
<1>1. BoundedInv /\ [FlushNext]_allVars => [RowsOfFinishedStay]_allVars
  <2> SUFFICES ASSUME BoundedInv, FlushNext, op \in After, NEW d \in Docs, seen[d] # "missing"
               PROVE  ledger'[d] = ledger[d]
    BY DEF RowsOfFinishedStay
  <2>1. CASE Next
    BY <2>1, AsideStays DEF BoundedInv, FinishedLeftAlone, After
  <2>2. CASE Operator
    BY <2>2 DEF Operator, Submitted, Poll, PollRow, Flush, TooLate, Grace, FetchManifest, Seed,
                EnqueueMissing, Watch
  <2> QED BY <2>1, <2>2 DEF FlushNext
<1> QED BY <1>1, BoundedInvariance, PTL DEF FlushSpec

=============================================================================

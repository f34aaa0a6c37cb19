-------------------------- MODULE RenderJobProofs --------------------------
(***************************************************************************)
(* Machine-checked proofs about RenderJob, for every set of documents,     *)
(* slots and processes, and every fault kind and bound.                    *)
(***************************************************************************)
EXTENDS RenderJob, FiniteSetTheorems, TLAPS

\* The frame, and the small steps every action is written with.
USE DEF vars, apiVars, pgVars, rdVars, slotVars, faultVars, Happens, Fault, NoFault, ReplyLost,
        Goto, ApiGoto, SetRow

(* The labels of processTask, one by one. *)
LEMMA Labels ==
  /\ "idle" \in SlotLabels /\ "readRow" \in SlotLabels /\ "mark" \in SlotLabels
  /\ "snapshot" \in SlotLabels /\ "ack" \in SlotLabels /\ "raise" \in SlotLabels
  /\ "render" \in SlotLabels /\ "put" \in SlotLabels /\ "append" \in SlotLabels
  /\ "incCompleted" \in SlotLabels /\ "appendError" \in SlotLabels
  /\ "incFailed" \in SlotLabels
  /\ "release" \in SlotLabels /\ "releaseRaised" \in SlotLabels
  /\ "claimRead" \in SlotLabels /\ "claimSet" \in SlotLabels
  /\ "flushRead" \in SlotLabels /\ "flushRow" \in SlotLabels /\ "flushDel" \in SlotLabels
BY DEF SlotLabels, Rendering, Sealing, Closing, Claiming, Flushing

(* Every task stays within its bounds: adding the missing tasks, ... *)
LEMMA TaskNew ==
  ASSUME tasks \in [Docs -> GoodTasks], NEW S \in SUBSET Docs, Add(S)
  PROVE  tasks' \in [Docs -> GoodTasks]
<1>1. NewTask \in GoodTasks
  BY BoundsAssumption DEF NewTask, AbsentTask, GoodTasks, Tasks, TaskStates
<1> QED BY <1>1 DEF Add

(* losing a lock, ... *)
LEMMA TaskUnlocked ==
  ASSUME NEW t \in GoodTasks PROVE [t EXCEPT !.owner = NoSlot] \in GoodTasks
BY BoundsAssumption DEF GoodTasks, Tasks, TaskStates

(* a delivery, ... *)
LEMMA TaskTaken ==
  ASSUME NEW t \in GoodTasks, t.state = "waiting", NEW s \in Slots
  PROVE [t EXCEPT !.state = "active", !.owner = s] \in GoodTasks
BY BoundsAssumption DEF GoodTasks, Tasks, TaskStates

(* the end of a delivery, ... *)
LEMMA TaskSettled ==
  ASSUME NEW t \in GoodTasks, NEW st \in {"completed", "waiting", "failed"},
         NEW n \in 0..MaxAttempts, st = "waiting" => t.state = "active" /\ n < MaxAttempts
  PROVE  [t EXCEPT !.state = st, !.owner = NoSlot, !.attempts = n] \in GoodTasks
BY BoundsAssumption DEF GoodTasks, Tasks, TaskStates

(* and the stalled check. *)
LEMMA TaskStalled ==
  ASSUME NEW t \in GoodTasks, NEW st \in {"waiting", "failed"}, t.owner = NoSlot, t.state = "active",
         NEW n \in 0..(MaxStalls + 1), st = "waiting" => n <= MaxStalls
  PROVE  [t EXCEPT !.stalls = n, !.state = st] \in GoodTasks
BY BoundsAssumption DEF GoodTasks, Tasks, TaskStates

(* What the bounds say of one task. *)
LEMMA TaskBounds ==
  ASSUME NEW t \in GoodTasks
  PROVE  /\ t.attempts \in 0..MaxAttempts /\ t.stalls \in 0..(MaxStalls + 1)
         /\ t.owner # NoSlot => t.state = "active"
         /\ t.state = "active" => t.attempts + 1 \in 0..MaxAttempts /\ t.stalls + 1 \in 0..(MaxStalls + 1)
BY BoundsAssumption DEF GoodTasks, Tasks, TaskStates

(* StalledCheck keeps every task within its bounds. *)
LEMMA TaskStalledCheck ==
  ASSUME tasks \in [Docs -> GoodTasks], NEW d \in Docs, StalledCheck(d)
  PROVE  tasks' \in [Docs -> GoodTasks]
<1> DEFINE t == tasks[d]
           n == t.stalls + 1
           st == IF n <= MaxStalls THEN "waiting" ELSE "failed"
<1>1. t \in GoodTasks /\ t.state = "active" /\ t.owner = NoSlot
  BY DEF StalledCheck
<1>2. n \in 0..(MaxStalls + 1) /\ st \in {"waiting", "failed"} /\ (st = "waiting" => n <= MaxStalls)
  BY <1>1, TaskBounds
<1>3. [t EXCEPT !.stalls = n, !.state = st] \in GoodTasks
  <2> HIDE DEF t, n, st
  <2> QED BY <1>1, <1>2, TaskStalled
<1> QED
  BY <1>3 DEF StalledCheck

(* Raise keeps every task within its bounds. *)
LEMMA TaskRaise ==
  ASSUME tasks \in [Docs -> GoodTasks], NEW s \in Slots, doc[s] \in Docs, Raise(s)
  PROVE  tasks' \in [Docs -> GoodTasks]
<1> DEFINE t == tasks[doc[s]]
           n == t.attempts + 1
           st == IF n < MaxAttempts THEN "waiting" ELSE "failed"
<1>1. SUFFICES ASSUME t.owner = s PROVE tasks' \in [Docs -> GoodTasks]
  BY DEF Raise, Settle
<1>2. t \in GoodTasks /\ t.state = "active"
  BY <1>1, TaskBounds, SlotsAssumption
<1>3. n \in 0..MaxAttempts /\ st \in {"waiting", "failed"} /\ (st = "waiting" => n < MaxAttempts)
  BY <1>2, TaskBounds
<1>4. [t EXCEPT !.state = st, !.owner = NoSlot, !.attempts = n] \in GoodTasks
  <2> HIDE DEF t, n, st
  <2> QED BY <1>2, <1>3, TaskSettled
<1> QED
  BY <1>1, <1>4 DEF Raise, Settle

(* Ack keeps every task within its bounds. *)
LEMMA TaskAck ==
  ASSUME tasks \in [Docs -> GoodTasks], NEW s \in Slots, doc[s] \in Docs, Ack(s)
  PROVE  tasks' \in [Docs -> GoodTasks]
<1> DEFINE t == tasks[doc[s]]
<1>1. t \in GoodTasks /\ t.attempts \in 0..MaxAttempts
  BY TaskBounds
<1>4. [t EXCEPT !.state = "completed", !.owner = NoSlot, !.attempts = t.attempts] \in GoodTasks
  BY <1>1, TaskSettled
<1> QED
  BY <1>4 DEF Ack, Settle

-----------------------------------------------------------------------------
(* The type invariant holds initially. *)
LEMMA TypeInit == Init => TypeOK
BY BoundsAssumption, SlotsAssumption, Labels
   DEF Init, TypeOK, Statuses, Finals, GoodTasks, Tasks, AbsentTask, TaskStates, Zero,
       Counters, ApiLabels

(* The control state of the slots and the failure budget, and the data. *)
RowType == [status : Statuses, completed : Nat, failed : Nat]

ControlOK ==
  /\ pc \in [Slots -> SlotLabels]
  /\ \A s \in Slots : pc[s] # "idle" => doc[s] \in Docs
  /\ faults \in 0..MaxFaults /\ resent \in Counters

DataOK ==
  /\ row \in RowType
  /\ ledger \in [Docs -> Seq(Outcomes)]
  /\ bucket \subseteq Docs \union {SnapshotKey}
  /\ keys \subseteq RedisKeys /\ live \in Counters
  /\ cache \in [Procs -> {"empty", "loaded", "rejected"}]
  /\ cnt \in [Slots -> Counters] /\ verdict \in [Slots -> Finals]

(* The ledger append, the hash updates and the verdict are well typed. *)
LEMMA LedgerType ==
  ASSUME NEW s \in Slots, doc[s] \in Docs, ledger \in [Docs -> Seq(Outcomes)],
         NEW o \in Outcomes, AppendEntry(s, o)
  PROVE  ledger' \in [Docs -> Seq(Outcomes)]
BY DEF AppendEntry

LEMMA HashType ==
  ASSUME live \in Counters, keys \subseteq RedisKeys,
         WriteHash(Zero) \/ Bump(1, 0) \/ Bump(0, 1) \/ DropHash
  PROVE  live' \in Counters /\ keys' \subseteq RedisKeys
<1>1. CASE WriteHash(Zero)
  BY <1>1 DEF WriteHash, Zero, Counters, RedisKeys
<1>2. CASE Bump(1, 0)
  BY <1>2 DEF Bump, WriteHash, Counters, RedisKeys
<1>3. CASE Bump(0, 1)
  BY <1>3 DEF Bump, WriteHash, Counters, RedisKeys
<1>4. CASE DropHash
  BY <1>4 DEF DropHash, Zero, Counters, RedisKeys
<1> QED
  BY <1>1, <1>2, <1>3, <1>4

LEMMA TwiceType ==
  ASSUME resent \in Counters, UNCHANGED resent \/ Twice(1, 0) \/ Twice(0, 1)
  PROVE  resent' \in Counters
BY DEF Twice, Counters

LEMMA VerdictType == \A c : TerminalStatus(c) \in Finals
BY DEF TerminalStatus, Finals

(* The API handler keeps the type invariant. *)
LEMMA TypeApi == TypeOK /\ IntakeInv /\ ApiStep => TypeOK'
<1> SUFFICES ASSUME TypeOK, IntakeInv, ApiStep PROVE TypeOK'
  OBVIOUS
<1> USE DEF TypeOK, ApiLabels
<1>0. faults' \in 0..MaxFaults /\ UNCHANGED resent
  BY BoundsAssumption DEF ApiStep, InsertJob, PutSnapshot, InitProgress, EnqueueDocuments,
                          Promote, Reject
<1>1. CASE InsertJob
  BY <1>0, <1>1 DEF InsertJob, Statuses
<1>2. CASE PutSnapshot
  BY <1>0, <1>2 DEF PutSnapshot, Store
<1>3. CASE InitProgress
  <2>1. live' \in Counters /\ keys' \subseteq RedisKeys
    BY <1>3, HashType DEF InitProgress
  <2> QED
    BY <1>0, <1>3, <2>1 DEF InitProgress
<1>4. CASE EnqueueDocuments
  <2>1. tasks' \in [Docs -> GoodTasks]
    BY <1>4, TaskNew DEF EnqueueDocuments
  <2> QED
    BY <1>0, <1>4, <2>1, BoundsAssumption DEF EnqueueDocuments, IntakeInv
<1>5. CASE Promote
  BY <1>0, <1>5 DEF Promote, Statuses
<1>6. CASE Reject
  BY <1>0, <1>6 DEF Reject, Statuses, Finals
<1> QED
  BY <1>1, <1>2, <1>3, <1>4, <1>5, <1>6 DEF ApiStep

(* So does the end of a delivery, ... *)
LEMMA TypeSettle ==
  ASSUME NEW s \in Slots, TypeOK, Ack(s) \/ Raise(s) PROVE TypeOK'
<1>1. doc[s] \in Docs
  BY DEF Ack, Raise, TypeOK
<1>2. tasks' \in [Docs -> GoodTasks]
  BY <1>1, TaskAck, TaskRaise DEF TypeOK
<1>3. /\ pc' = [pc EXCEPT ![s] = "idle"] /\ doc' = [doc EXCEPT ![s] = NoDoc]
      /\ cnt' = [cnt EXCEPT ![s] = Zero] /\ verdict' = [verdict EXCEPT ![s] = "failed"]
      /\ UNCHANGED <<apiVars, pgVars, bucket, keys, live, cache, faultVars>>
  BY DEF Ack, Raise, Settle
<1> QED
  BY <1>2, <1>3, Labels DEF TypeOK, Finals, Zero, Counters

(* A slot working on a document keeps the type invariant. *)
LEMMA TypeSlot == ASSUME NEW s \in Slots, TypeOK, SlotStep(s) PROVE TypeOK'
<1>0. ControlOK /\ DataOK
  BY DEF ControlOK, DataOK, TypeOK, RowType
<1>1. CASE ReadRow(s)
  <2>1. ControlOK'
    BY <1>0, <1>1, Labels, BoundsAssumption DEF ReadRow, AfterRow, ControlOK
  <2>2. UNCHANGED <<apiVars, pgVars, bucket, rdVars, cache, doc, cnt, verdict>>
    BY <1>1 DEF ReadRow
  <2> QED
    BY <2>1, <2>2 DEF ControlOK, TypeOK, RowType
<1>2. CASE MarkProcessing(s)
  <2>1. ControlOK'
    BY <1>0, <1>2, Labels, BoundsAssumption DEF MarkProcessing, QueuedToProcessing, ControlOK
  <2>2. UNCHANGED <<apiVars, ledger, bucket, rdVars, cache, doc, cnt, verdict>>
    BY <1>2 DEF MarkProcessing
  <2>3. row' \in RowType
    BY <1>0, <1>2 DEF MarkProcessing, QueuedToProcessing, Statuses, RowType, DataOK
  <2> QED
    BY <2>1, <2>2, <2>3 DEF ControlOK, TypeOK, RowType
<1>3. CASE GetSnapshot(s)
  <2>1. ControlOK'
    BY <1>0, <1>3, Labels, BoundsAssumption DEF GetSnapshot, ControlOK
  <2>2. UNCHANGED <<apiVars, pgVars, bucket, rdVars, doc, cnt, verdict>>
    BY <1>3 DEF GetSnapshot
  <2>3. cache' \in [Procs -> {"empty", "loaded", "rejected"}]
    BY <1>0, <1>3, SlotsAssumption DEF GetSnapshot, DataOK
  <2> QED
    BY <2>1, <2>2, <2>3 DEF ControlOK, TypeOK, RowType
<1>4. CASE Render(s)
  <2>1. ControlOK'
    BY <1>0, <1>4, Labels, BoundsAssumption DEF Render, Caught, ControlOK
  <2>2. UNCHANGED <<apiVars, pgVars, bucket, rdVars, cache, doc, cnt, verdict>>
    BY <1>4 DEF Render
  <2> QED
    BY <2>1, <2>2 DEF ControlOK, TypeOK, RowType
<1>5. CASE PutArtifact(s)
  <2>1. ControlOK'
    BY <1>0, <1>5, Labels, BoundsAssumption DEF PutArtifact, Caught, ControlOK
  <2>2. UNCHANGED <<apiVars, pgVars, rdVars, cache, doc, cnt, verdict>>
    BY <1>5 DEF PutArtifact
  <2>3. bucket' \subseteq Docs \union {SnapshotKey}
    BY <1>0, <1>5 DEF PutArtifact, Caught, Store, DataOK, ControlOK
  <2> QED
    BY <2>1, <2>2, <2>3 DEF ControlOK, TypeOK, RowType
<1>6. CASE AppendRendered(s)
  <2>1. ControlOK'
    BY <1>0, <1>6, Labels, BoundsAssumption DEF AppendRendered, Caught, ControlOK
  <2>2. UNCHANGED <<apiVars, row, bucket, rdVars, cache, doc, cnt, verdict>>
    BY <1>6 DEF AppendRendered
  <2>3. ledger' \in [Docs -> Seq(Outcomes)]
    BY <1>0, <1>6, LedgerType DEF AppendRendered, Caught, Outcomes, DataOK, ControlOK
  <2> QED
    BY <2>1, <2>2, <2>3 DEF ControlOK, TypeOK, RowType
<1>7. CASE IncrementCompleted(s)
  <2>1. ControlOK'
    <3>1. resent' \in Counters
      BY <1>0, <1>7, TwiceType DEF IncrementCompleted, Caught, ControlOK
    <3>2. pc' \in [Slots -> SlotLabels] /\ (\A t \in Slots : pc'[t] # "idle" => doc'[t] \in Docs)
      BY <1>0, <1>7, Labels DEF IncrementCompleted, Caught, ControlOK
    <3>3. faults' \in 0..MaxFaults
      BY <1>0, <1>7, BoundsAssumption DEF IncrementCompleted, Caught, ControlOK
    <3> QED BY <3>1, <3>2, <3>3 DEF ControlOK
  <2>2. UNCHANGED <<apiVars, pgVars, bucket, tasks, cache, doc, cnt, verdict>>
    BY <1>7 DEF IncrementCompleted
  <2>3. live' \in Counters /\ keys' \subseteq RedisKeys
    BY <1>0, <1>7, HashType DEF IncrementCompleted, DataOK
  <2> QED
    BY <2>1, <2>2, <2>3 DEF ControlOK, TypeOK, RowType
<1>8. CASE AppendError(s)
  <2>1. ControlOK'
    BY <1>0, <1>8, Labels, BoundsAssumption DEF AppendError, ControlOK
  <2>2. UNCHANGED <<apiVars, row, bucket, rdVars, cache, doc, cnt, verdict>>
    BY <1>8 DEF AppendError
  <2>3. ledger' \in [Docs -> Seq(Outcomes)]
    BY <1>0, <1>8, LedgerType DEF AppendError, Outcomes, DataOK, ControlOK
  <2> QED
    BY <2>1, <2>2, <2>3 DEF ControlOK, TypeOK, RowType
<1>9. CASE IncrementFailed(s)
  <2>1. ControlOK'
    <3>1. resent' \in Counters
      BY <1>0, <1>9, TwiceType DEF IncrementFailed, ControlOK
    <3>2. pc' \in [Slots -> SlotLabels] /\ (\A t \in Slots : pc'[t] # "idle" => doc'[t] \in Docs)
      BY <1>0, <1>9, Labels DEF IncrementFailed, ControlOK
    <3>3. faults' \in 0..MaxFaults
      BY <1>0, <1>9, BoundsAssumption DEF IncrementFailed, ControlOK
    <3> QED BY <3>1, <3>2, <3>3 DEF ControlOK
  <2>2. UNCHANGED <<apiVars, pgVars, bucket, tasks, cache, doc, cnt, verdict>>
    BY <1>9 DEF IncrementFailed
  <2>3. live' \in Counters /\ keys' \subseteq RedisKeys
    BY <1>0, <1>9, HashType DEF IncrementFailed, DataOK
  <2> QED
    BY <2>1, <2>2, <2>3 DEF ControlOK, TypeOK, RowType
<1>10. CASE Release(s)
  <2>1. ControlOK'
    BY <1>0, <1>10, Labels, BoundsAssumption DEF Release, ControlOK
  <2>2. UNCHANGED <<apiVars, pgVars, bucket, rdVars, cache, doc, cnt, verdict>>
    BY <1>10 DEF Release
  <2> QED
    BY <2>1, <2>2 DEF ControlOK, TypeOK, RowType
<1>11. CASE ClaimRead(s)
  <2>1. ControlOK'
    BY <1>0, <1>11, Labels, BoundsAssumption DEF ClaimRead, ControlOK
  <2>2. UNCHANGED <<apiVars, pgVars, bucket, rdVars, cache, doc, verdict>>
    BY <1>11 DEF ClaimRead
  <2>3. cnt' \in [Slots -> Counters]
    BY <1>0, <1>11 DEF ClaimRead, ReadCounters, DataOK
  <2> QED
    BY <2>1, <2>2, <2>3 DEF ControlOK, TypeOK, RowType
<1>12. CASE ClaimMarker(s)
  <2>1. ControlOK'
    BY <1>0, <1>12, Labels, BoundsAssumption DEF ClaimMarker, ControlOK
  <2>2. UNCHANGED <<apiVars, pgVars, bucket, tasks, live, cache, doc, cnt>>
    BY <1>12 DEF ClaimMarker
  <2>3. keys' \subseteq RedisKeys
    BY <1>0, <1>12 DEF ClaimMarker, Claim, RedisKeys, DataOK
  <2>4. verdict' \in [Slots -> Finals]
    BY <1>0, <1>12, VerdictType DEF ClaimMarker, DataOK
  <2> QED
    BY <2>1, <2>2, <2>3, <2>4 DEF ControlOK, TypeOK, RowType
<1>13. CASE FlushRead(s)
  <2>1. ControlOK'
    BY <1>0, <1>13, Labels, BoundsAssumption DEF FlushRead, ControlOK
  <2>2. UNCHANGED <<apiVars, pgVars, bucket, rdVars, cache, doc, verdict>>
    BY <1>13 DEF FlushRead
  <2>3. cnt' \in [Slots -> Counters]
    BY <1>0, <1>13 DEF FlushRead, ReadCounters, DataOK
  <2> QED
    BY <2>1, <2>2, <2>3 DEF ControlOK, TypeOK, RowType
<1>14. CASE FlushRow(s)
  <2>1. ControlOK'
    BY <1>0, <1>14, Labels, BoundsAssumption DEF FlushRow, ControlOK
  <2>2. UNCHANGED <<apiVars, ledger, bucket, rdVars, cache, doc, cnt, verdict>>
    BY <1>14 DEF FlushRow
  <2>3. row' \in RowType
    BY <1>0, <1>14 DEF FlushRow, Statuses, Counters, RowType, DataOK
  <2> QED
    BY <2>1, <2>2, <2>3 DEF ControlOK, TypeOK, RowType
<1>15. CASE FlushDel(s)
  <2>1. ControlOK'
    BY <1>0, <1>15, Labels, BoundsAssumption DEF FlushDel, ControlOK
  <2>2. UNCHANGED <<apiVars, pgVars, bucket, tasks, doc, cnt, verdict>>
    BY <1>15 DEF FlushDel
  <2>3. live' \in Counters /\ keys' \subseteq RedisKeys
    BY <1>0, <1>15, HashType DEF FlushDel, DataOK
  <2>4. cache' \in [Procs -> {"empty", "loaded", "rejected"}]
    BY <1>0, <1>15 DEF FlushDel, DataOK
  <2> QED
    BY <2>1, <2>2, <2>3, <2>4 DEF ControlOK, TypeOK, RowType
<1>16. CASE Ack(s)
  BY <1>16, TypeSettle DEF Ack
<1>17. CASE Raise(s)
  BY <1>17, TypeSettle DEF Raise
<1> QED
  BY <1>1, <1>2, <1>3, <1>4, <1>5, <1>6, <1>7, <1>8, <1>9, <1>10, <1>11, <1>12, <1>13, <1>14, <1>15, <1>16, <1>17 DEF SlotStep

(* and so do BullMQ and the processes. *)
LEMMA TypeOther ==
  ASSUME TypeOK, ApiCrash \/ Deliver \/ (\E d \in Docs : LoseLock(d) \/ StalledCheck(d))
                  \/ (\E p \in Procs : WorkerCrash(p))
  PROVE  TypeOK'
<1>1. CASE ApiCrash
  BY <1>1, BoundsAssumption DEF ApiCrash, TypeOK, ApiLabels
<1>2. ASSUME NEW s \in Slots, NEW d \in Docs, Take(s, d) PROVE TypeOK'
  <2>1. [tasks[d] EXCEPT !.state = "active", !.owner = s] \in GoodTasks
    BY <1>2, TaskTaken DEF Take, TypeOK
  <2>2. tasks' \in [Docs -> GoodTasks]
    BY <1>2, <2>1 DEF Take, TypeOK
  <2>3. ControlOK' /\ doc' \in [Slots -> Docs \union {NoDoc}]
    BY <1>2, Labels DEF Take, TypeOK, ControlOK
  <2>4. UNCHANGED <<apiVars, pgVars, bucket, keys, live, cache, cnt, verdict>>
    BY <1>2 DEF Take
  <2> QED
    BY <2>2, <2>3, <2>4 DEF TypeOK, ControlOK
<1>3. ASSUME NEW d \in Docs, LoseLock(d) \/ StalledCheck(d) PROVE TypeOK'
  <2>1. tasks' \in [Docs -> GoodTasks]
    <3>1. [tasks[d] EXCEPT !.owner = NoSlot] \in GoodTasks
      BY TaskUnlocked DEF TypeOK
    <3> QED
      BY <1>3, <3>1, TaskStalledCheck DEF LoseLock, TypeOK
  <2>2. UNCHANGED <<apiVars, pgVars, bucket, keys, live, cache, slotVars>>
    BY <1>3 DEF LoseLock, StalledCheck
  <2>3. faults' \in 0..MaxFaults /\ UNCHANGED resent
    <3>1. faults \in 0..MaxFaults
      BY DEF TypeOK
    <3>2. UNCHANGED resent /\ ((faults < MaxFaults /\ faults' = faults + 1) \/ UNCHANGED faults)
      BY <1>3 DEF LoseLock, StalledCheck
    <3> QED
      BY <3>1, <3>2, BoundsAssumption
  <2> QED
    BY <2>1, <2>2, <2>3 DEF TypeOK
<1>4. ASSUME NEW p \in Procs, WorkerCrash(p) PROVE TypeOK'
  <2>1. tasks' \in [Docs -> GoodTasks]
    <3>1. \A d \in Docs : tasks[d] \in GoodTasks /\ [tasks[d] EXCEPT !.owner = NoSlot] \in GoodTasks
      BY TaskUnlocked DEF TypeOK
    <3> QED
      BY <1>4, <3>1 DEF WorkerCrash
  <2>2. ControlOK' /\ doc' \in [Slots -> Docs \union {NoDoc}]
    BY <1>4, Labels, BoundsAssumption DEF WorkerCrash, TypeOK, ControlOK
  <2>3. cnt' \in [Slots -> Counters] /\ verdict' \in [Slots -> Finals]
    BY <1>4 DEF WorkerCrash, TypeOK, Counters, Zero, Finals
  <2>4. /\ UNCHANGED <<apiVars, pgVars, bucket, keys, live>>
        /\ cache' \in [Procs -> {"empty", "loaded", "rejected"}]
    BY <1>4 DEF WorkerCrash, TypeOK
  <2> QED
    BY <2>1, <2>2, <2>3, <2>4 DEF TypeOK, ControlOK
<1> QED
  BY <1>1, <1>2, <1>3, <1>4 DEF Deliver

(* The type invariant is inductive, given where the handler is. *)
LEMMA TypeStep == TypeOK /\ IntakeInv /\ [Next]_vars => TypeOK'
<1> SUFFICES ASSUME TypeOK, IntakeInv, [Next]_vars PROVE TypeOK'
  OBVIOUS
<1>1. CASE Next
  BY <1>1, TypeApi, TypeSlot, TypeOther DEF Next
<1>2. CASE UNCHANGED vars
  BY <1>2 DEF TypeOK
<1> QED
  BY <1>1, <1>2

-----------------------------------------------------------------------------
(* What a step of a slot may do, whichever action it is.                    *)

Written == {"incCompleted", "incFailed", "release"} \union Claiming \union Flushing

\* The job row, the claim and the handler.
RowShape(s) ==
  /\ UNCHANGED apiVars
  /\ \/ UNCHANGED row
     \/ pc[s] = "mark" /\ row.status = "queued" /\ row'.status = "processing"
     \/ pc[s] = "flushRow" /\ row'.status \in Finals
  /\ Claimed => Claimed'
  /\ Claimed' => Claimed \/ pc[s] = "claimSet"

\* The path through processTask.
PathShape(s) ==
  /\ pc[s] # "idle"
  /\ \A t \in Slots : t # s => pc'[t] = pc[t] /\ doc'[t] = doc[t]
  /\ pc'[s] # "idle" => doc'[s] = doc[s]
  /\ pc'[s] \in Admitted =>
       pc[s] \in Admitted \/ (row.status \in {"queued", "processing"} /\ row' = row)
  /\ pc'[s] \in Working => pc[s] \in Working \/ row'.status # "queued"
  /\ pc'[s] \in Flushing => pc[s] \in Flushing \/ (pc[s] = "claimSet" /\ ~Claimed /\ Claimed')
  /\ pc'[s] \in {"flushRead", "flushRow"} =>
       row' = row /\ (pc[s] = "flushRead" \/ (pc[s] = "claimSet" /\ ~Claimed))
  /\ pc'[s] = "append" => doc[s] \in bucket'
  /\ pc'[s] \in Written => pc[s] \in Written \/ ledger'[doc[s]] # <<>>
  /\ pc'[s] = "ack" => \/ pc[s] \in Written
                       \/ row' = row /\ row.status \in {"none"} \union Finals

\* The artifacts, the ledger and the tasks.
StoreShape(s) ==
  /\ bucket \subseteq bucket' /\ (bucket' = bucket \/ pc[s] = "put")
  /\ \/ ledger' = ledger
     \/ pc[s] = "append" /\ AppendEntry(s, "rendered")
     \/ pc[s] = "appendError" /\ AppendEntry(s, "error")
  /\ \/ tasks' = tasks
     \/ \E st \in {"completed", "waiting", "failed"}, n \in Nat :
          /\ tasks[doc[s]].owner = s /\ (st = "completed" => pc[s] = "ack")
          /\ tasks' = [tasks EXCEPT ![doc[s]] = [@ EXCEPT !.state = st, !.owner = NoSlot,
                                                          !.attempts = n]]

(* The row is written by markProcessing and the flush only. *)
LEMMA SlotRow == ASSUME NEW s \in Slots, TypeOK, SlotStep(s) PROVE RowShape(s)
<1>0. /\ pc \in [Slots -> SlotLabels] /\ doc \in [Slots -> Docs \union {NoDoc}]
      /\ (pc[s] # "idle" => doc[s] \in Docs)
      /\ row \in RowType /\ ledger \in [Docs -> Seq(Outcomes)] /\ verdict \in [Slots -> Finals]
      /\ tasks \in [Docs -> GoodTasks]
  BY DEF TypeOK, RowType
<1>1. CASE ReadRow(s)
  BY <1>0, <1>1 DEF ReadRow, AfterRow, RowShape, Claimed, RowType
<1>2. CASE MarkProcessing(s)
  BY <1>0, <1>2 DEF MarkProcessing, QueuedToProcessing, RowShape, Claimed, RowType
<1>3. CASE GetSnapshot(s)
  BY <1>0, <1>3 DEF GetSnapshot, RowShape, Claimed, RowType
<1>4. CASE Render(s)
  BY <1>0, <1>4 DEF Render, Caught, RowShape, Claimed, RowType
<1>5. CASE PutArtifact(s)
  BY <1>0, <1>5 DEF PutArtifact, Caught, Store, RowShape, Claimed, RowType
<1>6. CASE AppendRendered(s)
  BY <1>0, <1>6 DEF AppendRendered, Caught, AppendEntry, RowShape, Claimed, RowType
<1>7. CASE IncrementCompleted(s)
  BY <1>0, <1>7 DEF IncrementCompleted, Caught, Bump, WriteHash, RowShape, Claimed, RowType
<1>8. CASE AppendError(s)
  BY <1>0, <1>8 DEF AppendError, AppendEntry, RowShape, Claimed, RowType
<1>9. CASE IncrementFailed(s)
  BY <1>0, <1>9 DEF IncrementFailed, Bump, WriteHash, RowShape, Claimed, RowType
<1>10. CASE Release(s)
  BY <1>0, <1>10 DEF Release, RowShape, Claimed, RowType
<1>11. CASE ClaimRead(s)
  BY <1>0, <1>11 DEF ClaimRead, ReadCounters, RowShape, Claimed, RowType
<1>12. CASE ClaimMarker(s)
  BY <1>0, <1>12 DEF ClaimMarker, Claim, RowShape, Claimed, RowType
<1>13. CASE FlushRead(s)
  BY <1>0, <1>13 DEF FlushRead, ReadCounters, RowShape, Claimed, RowType
<1>14. CASE FlushRow(s)
  BY <1>0, <1>14 DEF FlushRow, RowShape, Claimed, RowType
<1>15. CASE FlushDel(s)
  BY <1>0, <1>15 DEF FlushDel, DropHash, RowShape, Claimed, RowType
<1>16. CASE Ack(s)
  BY <1>0, <1>16 DEF Ack, Settle, RowShape, Claimed, RowType
<1>17. CASE Raise(s)
  BY <1>0, <1>17 DEF Raise, Settle, RowShape, Claimed, RowType
<1> QED
  BY <1>1, <1>2, <1>3, <1>4, <1>5, <1>6, <1>7, <1>8, <1>9, <1>10, <1>11, <1>12, <1>13, <1>14, <1>15, <1>16, <1>17 DEF SlotStep

(* The order of the steps of a delivery. *)
LEMMA SlotPath == ASSUME NEW s \in Slots, TypeOK, SlotStep(s) PROVE PathShape(s)
<1>0. /\ pc \in [Slots -> SlotLabels] /\ doc \in [Slots -> Docs \union {NoDoc}]
      /\ (pc[s] # "idle" => doc[s] \in Docs)
      /\ row \in RowType /\ ledger \in [Docs -> Seq(Outcomes)] /\ verdict \in [Slots -> Finals]
      /\ tasks \in [Docs -> GoodTasks]
  BY DEF TypeOK, RowType
<1>1. CASE ReadRow(s)
  BY <1>0, <1>1 DEF ReadRow, AfterRow, PathShape, Admitted, Working, Rendering, Sealing, Closing, Claiming, Flushing, Written, RowType, Statuses
<1>2. CASE MarkProcessing(s)
  BY <1>0, <1>2 DEF MarkProcessing, QueuedToProcessing, PathShape, Admitted, Working, Rendering, Sealing, Closing, Claiming, Flushing, Written, RowType
<1>3. CASE GetSnapshot(s)
  BY <1>0, <1>3 DEF GetSnapshot, PathShape, Admitted, Working, Rendering, Sealing, Closing, Claiming, Flushing, Written
<1>4. CASE Render(s)
  BY <1>0, <1>4 DEF Render, Caught, PathShape, Admitted, Working, Rendering, Sealing, Closing, Claiming, Flushing, Written
<1>5. CASE PutArtifact(s)
  BY <1>0, <1>5 DEF PutArtifact, Caught, Store, PathShape, Admitted, Working, Rendering, Sealing, Closing, Claiming, Flushing, Written
<1>6. CASE AppendRendered(s)
  BY <1>0, <1>6 DEF AppendRendered, Caught, AppendEntry, PathShape, Admitted, Working, Rendering, Sealing, Closing, Claiming, Flushing, Written
<1>7. CASE IncrementCompleted(s)
  BY <1>0, <1>7 DEF IncrementCompleted, Caught, Bump, WriteHash, PathShape, Admitted, Working, Rendering, Sealing, Closing, Claiming, Flushing, Written
<1>8. CASE AppendError(s)
  BY <1>0, <1>8 DEF AppendError, AppendEntry, PathShape, Admitted, Working, Rendering, Sealing, Closing, Claiming, Flushing, Written
<1>9. CASE IncrementFailed(s)
  BY <1>0, <1>9 DEF IncrementFailed, Bump, WriteHash, PathShape, Admitted, Working, Rendering, Sealing, Closing, Claiming, Flushing, Written
<1>10. CASE Release(s)
  BY <1>0, <1>10 DEF Release, PathShape, Admitted, Working, Rendering, Sealing, Closing, Claiming, Flushing, Written
<1>11. CASE ClaimRead(s)
  BY <1>0, <1>11 DEF ClaimRead, ReadCounters, PathShape, Admitted, Working, Rendering, Sealing, Closing, Claiming, Flushing, Written
<1>12. CASE ClaimMarker(s)
  BY <1>0, <1>12 DEF ClaimMarker, Claim, PathShape, Admitted, Working, Rendering, Sealing, Closing, Claiming, Flushing, Written, Claimed
<1>13. CASE FlushRead(s)
  BY <1>0, <1>13 DEF FlushRead, ReadCounters, PathShape, Admitted, Working, Rendering, Sealing, Closing, Claiming, Flushing, Written
<1>14. CASE FlushRow(s)
  BY <1>0, <1>14 DEF FlushRow, PathShape, Admitted, Working, Rendering, Sealing, Closing, Claiming, Flushing, Written
<1>15. CASE FlushDel(s)
  BY <1>0, <1>15 DEF FlushDel, DropHash, PathShape, Admitted, Working, Rendering, Sealing, Closing, Claiming, Flushing, Written
<1>16. CASE Ack(s)
  BY <1>0, <1>16 DEF Ack, Settle, PathShape, Admitted, Working, Rendering, Sealing, Closing, Claiming, Flushing, Written
<1>17. CASE Raise(s)
  BY <1>0, <1>17 DEF Raise, Settle, PathShape, Admitted, Working, Rendering, Sealing, Closing, Claiming, Flushing, Written
<1> QED
  BY <1>1, <1>2, <1>3, <1>4, <1>5, <1>6, <1>7, <1>8, <1>9, <1>10, <1>11, <1>12, <1>13, <1>14, <1>15, <1>16, <1>17 DEF SlotStep

(* Artifacts and ledger rows are written at their own steps only. *)
LEMMA SlotStore == ASSUME NEW s \in Slots, TypeOK, SlotStep(s) PROVE StoreShape(s)
<1>0. /\ pc \in [Slots -> SlotLabels] /\ doc \in [Slots -> Docs \union {NoDoc}]
      /\ (pc[s] # "idle" => doc[s] \in Docs)
      /\ row \in RowType /\ ledger \in [Docs -> Seq(Outcomes)] /\ verdict \in [Slots -> Finals]
      /\ tasks \in [Docs -> GoodTasks]
  BY DEF TypeOK, RowType
<1>1. CASE ReadRow(s)
  BY <1>0, <1>1 DEF ReadRow, AfterRow, StoreShape
<1>2. CASE MarkProcessing(s)
  BY <1>0, <1>2 DEF MarkProcessing, QueuedToProcessing, StoreShape
<1>3. CASE GetSnapshot(s)
  BY <1>0, <1>3 DEF GetSnapshot, StoreShape
<1>4. CASE Render(s)
  BY <1>0, <1>4 DEF Render, Caught, StoreShape
<1>5. CASE PutArtifact(s)
  BY <1>0, <1>5 DEF PutArtifact, Caught, Store, StoreShape
<1>6. CASE AppendRendered(s)
  BY <1>0, <1>6 DEF AppendRendered, Caught, AppendEntry, StoreShape
<1>7. CASE IncrementCompleted(s)
  BY <1>0, <1>7 DEF IncrementCompleted, Caught, Bump, WriteHash, StoreShape
<1>8. CASE AppendError(s)
  BY <1>0, <1>8 DEF AppendError, AppendEntry, StoreShape
<1>9. CASE IncrementFailed(s)
  BY <1>0, <1>9 DEF IncrementFailed, Bump, WriteHash, StoreShape
<1>10. CASE Release(s)
  BY <1>0, <1>10 DEF Release, StoreShape
<1>11. CASE ClaimRead(s)
  BY <1>0, <1>11 DEF ClaimRead, ReadCounters, StoreShape
<1>12. CASE ClaimMarker(s)
  BY <1>0, <1>12 DEF ClaimMarker, Claim, StoreShape
<1>13. CASE FlushRead(s)
  BY <1>0, <1>13 DEF FlushRead, ReadCounters, StoreShape
<1>14. CASE FlushRow(s)
  BY <1>0, <1>14 DEF FlushRow, StoreShape
<1>15. CASE FlushDel(s)
  BY <1>0, <1>15 DEF FlushDel, DropHash, StoreShape
<1>16. CASE Ack(s)
  <2> DEFINE n  == tasks[doc[s]].attempts
             st == "completed"
  <2>1. n \in Nat
    <3>1. tasks[doc[s]] \in GoodTasks
      BY <1>0, <1>16 DEF Ack
    <3> QED
      BY <3>1, TaskBounds
  <2>2. /\ pc[s] = "ack" /\ UNCHANGED <<bucket, ledger>>
        /\ \/ tasks' = tasks
           \/ /\ tasks[doc[s]].owner = s
              /\ tasks' = [tasks EXCEPT ![doc[s]] = [@ EXCEPT !.state = st, !.owner = NoSlot,
                                                              !.attempts = n]]
    BY <1>16 DEF Ack, Settle
  <2>3. st \in {"completed", "waiting", "failed"} /\ (st = "completed" => pc[s] = "ack")
    BY <2>2
  <2> HIDE DEF n, st
  <2> QED
    BY <2>1, <2>2, <2>3 DEF StoreShape
<1>17. CASE Raise(s)
  <2> DEFINE n  == tasks[doc[s]].attempts + 1
             st == IF n < MaxAttempts THEN "waiting" ELSE "failed"
  <2>1. n \in Nat
    <3>1. tasks[doc[s]] \in GoodTasks
      BY <1>0, <1>17 DEF Raise
    <3> QED
      BY <3>1, TaskBounds
  <2>2. /\ pc[s] = "raise" /\ UNCHANGED <<bucket, ledger>>
        /\ \/ tasks' = tasks
           \/ /\ tasks[doc[s]].owner = s
              /\ tasks' = [tasks EXCEPT ![doc[s]] = [@ EXCEPT !.state = st, !.owner = NoSlot,
                                                              !.attempts = n]]
    BY <1>17 DEF Raise, Settle
  <2>3. st \in {"completed", "waiting", "failed"} /\ (st = "completed" => pc[s] = "ack")
    BY <2>2
  <2> HIDE DEF n, st
  <2> QED
    BY <2>1, <2>2, <2>3 DEF StoreShape
<1> QED
  BY <1>1, <1>2, <1>3, <1>4, <1>5, <1>6, <1>7, <1>8, <1>9, <1>10, <1>11, <1>12, <1>13, <1>14, <1>15, <1>16, <1>17 DEF SlotStep

(* A step of a slot moves at most the task it holds the lock of. *)
LEMMA SlotTask ==
  ASSUME TypeOK, NEW s \in Slots, SlotStep(s), NEW d \in Docs
  PROVE  \/ tasks'[d].state = tasks[d].state
         \/ /\ d = doc[s] /\ tasks[d].state = "active"
            /\ tasks'[d].state \in {"completed", "waiting", "failed"}
            /\ tasks'[d].state = "completed" => pc[s] = "ack"
<1>1. StoreShape(s)
  BY SlotStore
<1>2. CASE tasks' = tasks
  BY <1>2
<1>3. CASE tasks' # tasks
  <2>1. PICK st \in {"completed", "waiting", "failed"}, n \in Nat :
          /\ tasks[doc[s]].owner = s /\ (st = "completed" => pc[s] = "ack")
          /\ tasks' = [tasks EXCEPT ![doc[s]] = [@ EXCEPT !.state = st, !.owner = NoSlot,
                                                          !.attempts = n]]
    BY <1>1, <1>3 DEF StoreShape
  <2>2. d \in DOMAIN tasks /\ tasks[d] \in GoodTasks
    BY DEF TypeOK
  <2>3. CASE d # doc[s]
    BY <2>1, <2>2, <2>3
  <2>4. CASE d = doc[s]
    <3> DEFINE t == tasks[d]
    <3>1. t \in Tasks /\ t.state = "active"
      BY <2>1, <2>2, <2>4, TaskBounds, SlotsAssumption DEF GoodTasks
    <3>2. tasks'[d] = [t EXCEPT !.state = st, !.owner = NoSlot, !.attempts = n]
      BY <2>1, <2>2, <2>4
    <3>3. tasks'[d].state = st
      <4> HIDE DEF t
      <4> QED BY <3>1, <3>2 DEF Tasks
    <3> QED
      BY <2>1, <2>4, <3>1, <3>3
  <2> QED
    BY <2>3, <2>4
<1> QED
  BY <1>2, <1>3

-----------------------------------------------------------------------------
(* The inductive invariant.                                                *)

Control == IntakeInv /\ AdmissionInv /\ FinalizeInv

Safety == /\ ReadyWhenPromoted /\ NothingRenderedUnlessPromoted
          /\ RenderedRowHasArtifact /\ AckedTaskIsAccounted

(* It holds initially. *)
LEMMA InvInit == Init => IInv
<1> SUFFICES ASSUME Init PROVE IInv
  OBVIOUS
<1>1. TypeOK
  BY TypeInit
<1>2. Control
  BY BoundsAssumption DEF Init, Control, IntakeInv, AdmissionInv, FinalizeInv, Promoted, Claimed, AbsentTask,
         Working, Rendering, Sealing, Closing, Claiming, Flushing, Admitted
<1>3. DeliveryInv
  BY DEF Init, DeliveryInv, Claiming, Flushing
<1>4. Safety
  BY DEF Init, Safety, ReadyWhenPromoted, NothingRenderedUnlessPromoted,
         RenderedRowHasArtifact, AckedTaskIsAccounted, AbsentTask, Promoted
<1> QED
  BY <1>1, <1>2, <1>3, <1>4 DEF IInv, Control, Safety

(* A step of a slot neither promotes nor demotes the job, and leaves the    *)
(* tasks that exist in existence.                                           *)
LEMMA SlotPromoted ==
  ASSUME IInv, NEW s \in Slots, SlotStep(s)
  PROVE  /\ Promoted' <=> Promoted
         /\ \A d \in Docs : tasks'[d].state = "absent" <=> tasks[d].state = "absent"
         /\ row.status # "none" /\ row'.status # "none"
         /\ Terminal => row' = row
         /\ ~Promoted => UNCHANGED <<row, bucket, ledger>>
<1>1. RowShape(s) /\ PathShape(s) /\ StoreShape(s)
  BY SlotRow, SlotPath, SlotStore DEF IInv
<1>2. row.status # "none"
  BY <1>1 DEF IInv, IntakeInv, PathShape
<1>3. ~Promoted => pc[s] \notin Admitted
  BY DEF IInv, AdmissionInv
<1>4. ~Promoted => UNCHANGED <<row, bucket, ledger>>
  BY <1>1, <1>3 DEF RowShape, StoreShape, Admitted, Working, Rendering, Sealing, Flushing
<1>5. Promoted' <=> Promoted
  <2>1. ~Promoted => (Claimed' <=> Claimed)
    BY <1>1, <1>3 DEF RowShape, Admitted, Working, Claiming
  <2>2. Promoted /\ row'.status = "failed" => Claimed'
    <3>1. pc[s] = "flushRow" => Claimed
      BY DEF IInv, FinalizeInv, Flushing
    <3> QED
      BY <1>1, <3>1 DEF RowShape, Promoted
  <2>3. Promoted => row'.status \notin {"none", "pending"}
    BY <1>1 DEF RowShape, Promoted, Finals
  <2> QED
    BY <1>4, <2>1, <2>2, <2>3 DEF Promoted
<1>6. Terminal => row' = row
  <2>1. pc[s] = "flushRow" => row.status = "processing"
    BY DEF IInv, FinalizeInv
  <2> QED
    BY <1>1, <2>1 DEF RowShape, Terminal, Finals
<1>7. row'.status # "none"
  BY <1>1, <1>2 DEF RowShape, Finals
<1>8. \A d \in Docs : tasks'[d].state = "absent" <=> tasks[d].state = "absent"
  BY SlotTask DEF IInv
<1> QED
  BY <1>2, <1>4, <1>5, <1>6, <1>7, <1>8

(* A step of a slot keeps the control invariants. *)
LEMMA SlotControl == ASSUME IInv, NEW s \in Slots, SlotStep(s) PROVE Control'
<1>1. RowShape(s) /\ PathShape(s) /\ StoreShape(s)
  BY SlotRow, SlotPath, SlotStore DEF IInv
<1>2. IntakeInv'
  <2>1. row.status = "pending" => UNCHANGED row
    BY SlotPromoted DEF Promoted
  <2> QED
    BY <1>1, <2>1, SlotPromoted DEF IInv, IntakeInv, RowShape, StoreShape
<1>3. AdmissionInv'
  <2>1. ~Promoted' => \A t \in Slots : pc'[t] \notin Admitted
    <3>1. ~Promoted => pc'[s] \notin Admitted
      BY <1>1 DEF IInv, AdmissionInv, PathShape, Promoted
    <3> QED
      BY <1>1, <3>1, SlotPromoted DEF IInv, AdmissionInv, PathShape
  <2>2. row'.status \in {"none", "pending"} => ~Claimed'
    BY <1>1, SlotPromoted DEF IInv, AdmissionInv, RowShape, Promoted, Admitted, Working,
                              Claiming
  <2>3. row'.status \in {"completed", "completed_with_errors"} => Claimed'
    BY <1>1 DEF IInv, AdmissionInv, FinalizeInv, Flushing, RowShape
  <2> QED
    BY <2>1, <2>2, <2>3 DEF AdmissionInv
<1>4. FinalizeInv'
  <2>1. \A t \in Slots : pc'[t] \in Working => row'.status # "queued"
    BY <1>1 DEF IInv, FinalizeInv, RowShape, PathShape, Finals
  <2>2. \A t \in Slots : pc'[t] \in Flushing => Claimed'
    BY <1>1 DEF IInv, FinalizeInv, RowShape, PathShape
  <2>3. \A t \in Slots : pc'[t] \in {"flushRead", "flushRow"} => row'.status = "processing"
    <3>1. ASSUME pc'[s] \in {"flushRead", "flushRow"} PROVE row'.status = "processing"
      <4>1. row' = row /\ (pc[s] = "flushRead" \/ (pc[s] = "claimSet" /\ ~Claimed))
        BY <1>1, <3>1 DEF PathShape
      <4>2. ASSUME pc[s] = "claimSet", ~Claimed PROVE row.status = "processing"
        <5>1. Promoted /\ row.status # "queued"
          BY <4>2 DEF IInv, AdmissionInv, FinalizeInv, Admitted, Working, Claiming
        <5> QED
          BY <4>2, <5>1 DEF Promoted, IInv, AdmissionInv, TypeOK, Statuses, Finals
      <4> QED
        BY <4>1, <4>2 DEF IInv, FinalizeInv
    <3>2. ASSUME NEW t \in Slots, t # s, pc'[t] \in {"flushRead", "flushRow"}
          PROVE  row'.status = "processing"
      <4>1. pc[t] \in {"flushRead", "flushRow"} /\ row.status = "processing"
        BY <1>1, <3>2 DEF PathShape, IInv, FinalizeInv
      <4>2. pc[s] # "flushRow"
        BY <3>2, <4>1 DEF IInv, FinalizeInv, Flushing
      <4> QED
        BY <1>1, <4>1, <4>2 DEF RowShape
    <3> QED
      BY <3>1, <3>2
  <2>4. \A t, u \in Slots : pc'[t] \in Flushing /\ pc'[u] \in Flushing => t = u
    BY <1>1 DEF IInv, FinalizeInv, PathShape
  <2> QED
    BY <2>1, <2>2, <2>3, <2>4 DEF FinalizeInv
<1> QED
  BY <1>2, <1>3, <1>4 DEF Control

(* A step of a slot keeps every ledger row, and adds at most one. *)
LEMMA SlotLedger ==
  ASSUME IInv, NEW s \in Slots, SlotStep(s)
  PROVE  \A d \in Docs :
           /\ ledger[d] # <<>> => ledger'[d] # <<>>
           /\ \A i \in DOMAIN ledger'[d] :
                ledger'[d][i] = "rendered" =>
                  (i \in DOMAIN ledger[d] /\ ledger[d][i] = "rendered")
                    \/ (d = doc[s] /\ pc[s] = "append")
<1>1. StoreShape(s) /\ PathShape(s)
  BY SlotStore, SlotPath DEF IInv
<1>2. ledger \in [Docs -> Seq(Outcomes)] /\ doc[s] \in Docs
  BY <1>1 DEF IInv, TypeOK, PathShape
<1>3. ASSUME NEW o \in Outcomes, AppendEntry(s, o), NEW d \in Docs
      PROVE  /\ ledger[d] # <<>> => ledger'[d] # <<>>
             /\ \A i \in DOMAIN ledger'[d] :
                  ledger'[d][i] = "rendered" =>
                    (i \in DOMAIN ledger[d] /\ ledger[d][i] = "rendered")
                      \/ (d = doc[s] /\ o = "rendered")
  <2>1. CASE d # doc[s]
    BY <1>2, <1>3, <2>1 DEF AppendEntry
  <2>2. CASE d = doc[s]
    <3>1. ledger[d] \in Seq(Outcomes) /\ ledger'[d] = Append(ledger[d], o)
      BY <1>2, <1>3, <2>2 DEF AppendEntry
    <3> QED
      BY <2>2, <3>1
  <2> QED
    BY <2>1, <2>2
<1> QED
  BY <1>1, <1>3 DEF StoreShape, Outcomes

(* A step of a slot keeps the delivery invariant. *)
LEMMA SlotDelivery == ASSUME IInv, NEW s \in Slots, SlotStep(s) PROVE DeliveryInv'
<1>1. PathShape(s) /\ StoreShape(s)
  BY SlotPath, SlotStore DEF IInv
<1>2. Terminal => Terminal'
  BY SlotPromoted DEF Terminal
<1>3. \A t \in Slots : pc[t] # "idle" => doc[t] \in Docs
  BY DEF IInv, TypeOK
<1>4. \A d \in Docs : ledger[d] # <<>> => ledger'[d] # <<>>
  BY SlotLedger
<1> SUFFICES ASSUME NEW t \in Slots
             PROVE  /\ pc'[t] = "append" => doc'[t] \in bucket'
                    /\ pc'[t] \in Written => ledger'[doc'[t]] # <<>>
                    /\ pc'[t] = "ack" => ledger'[doc'[t]] # <<>> \/ Terminal'
  BY DEF DeliveryInv, Written
<1>5. /\ pc[t] = "append" => doc[t] \in bucket
      /\ pc[t] \in Written => ledger[doc[t]] # <<>>
      /\ pc[t] = "ack" => ledger[doc[t]] # <<>> \/ Terminal
  BY DEF IInv, DeliveryInv, Written
<1>6. CASE t # s
  BY <1>1, <1>2, <1>3, <1>4, <1>5, <1>6 DEF PathShape, StoreShape, Written, Claiming, Flushing
<1>7. CASE t = s
  <2>1. pc'[s] = "append" => doc'[s] \in bucket'
    BY <1>1 DEF PathShape
  <2>2. pc'[s] \in Written => ledger'[doc'[s]] # <<>>
    BY <1>1, <1>3, <1>4, <1>5, <1>7 DEF PathShape, Written, Claiming, Flushing
  <2>3. pc'[s] = "ack" => ledger'[doc'[s]] # <<>> \/ Terminal'
    BY <1>1, <1>2, <1>3, <1>4, <1>5, <1>7, SlotPromoted DEF PathShape, Terminal
  <2> QED
    BY <1>7, <2>1, <2>2, <2>3
<1> QED
  BY <1>6, <1>7

(* A step of a slot keeps the safety properties. *)
LEMMA SlotSafety == ASSUME IInv, NEW s \in Slots, SlotStep(s) PROVE Safety'
<1>1. RowShape(s) /\ PathShape(s) /\ StoreShape(s)
  BY SlotRow, SlotPath, SlotStore DEF IInv
<1>2. ReadyWhenPromoted'
  <2>1. row'.status \in {"queued", "processing"} => row.status \in {"queued", "processing"}
    BY <1>1 DEF RowShape, Finals
  <2> QED
    BY <1>1, <2>1, SlotPromoted DEF IInv, ReadyWhenPromoted, StoreShape
<1>3. NothingRenderedUnlessPromoted'
  BY SlotPromoted DEF IInv, NothingRenderedUnlessPromoted
<1>4. RenderedRowHasArtifact'
  <2>1. pc[s] = "append" => doc[s] \in bucket
    BY DEF IInv, DeliveryInv
  <2>2. bucket \subseteq bucket'
    BY <1>1 DEF StoreShape
  <2> QED
    BY <2>1, <2>2, SlotLedger DEF IInv, RenderedRowHasArtifact
<1>5. AckedTaskIsAccounted'
  <2>1. Terminal => Terminal'
    BY SlotPromoted DEF Terminal
  <2>2. ASSUME NEW d \in Docs, tasks'[d].state = "completed", tasks[d].state # "completed"
        PROVE  ledger'[d] # <<>> \/ Terminal'
    <3>1. d = doc[s] /\ pc[s] = "ack"
      BY <2>2, SlotTask DEF IInv
    <3> QED
      BY <2>1, <3>1, SlotLedger DEF IInv, DeliveryInv
  <2> QED
    BY <2>1, <2>2, SlotLedger DEF IInv, AckedTaskIsAccounted
<1> QED
  BY <1>2, <1>3, <1>4, <1>5 DEF Safety

-----------------------------------------------------------------------------
(* The steps of the handler, and those of the environment.                  *)

ApiShape ==
  /\ UNCHANGED <<ledger, slotVars>> /\ (Claimed' <=> Claimed)
  /\ bucket \subseteq bucket' /\ bucket' \subseteq bucket \union {SnapshotKey}
  /\ \A d \in Docs : tasks'[d] = tasks[d]
                     \/ (tasks[d].state = "absent" /\ tasks'[d].state = "waiting")
  /\ \/ row' = row
     \/ api = "insert"  /\ row'.status = "pending"
     \/ api = "promote" /\ row'.status = "queued" /\ tasks' = tasks
     \/ api = "reject"  /\ row'.status = "failed"

OtherShape ==
  /\ UNCHANGED <<tries, row, ledger, bucket, keys>> /\ api' \in {api, "dead"}
  /\ \A d \in Docs : \/ tasks'[d].state = tasks[d].state
                     \/ /\ tasks[d].state # "absent"
                        /\ tasks'[d].state \in {"active", "waiting", "failed"}
  /\ \A t \in Slots : \/ pc'[t] = pc[t] /\ doc'[t] = doc[t]
                      \/ pc'[t] = "idle"
                      \/ pc'[t] = "readRow" /\ row.status # "none"

(* The handler writes the row at its first and last steps only, and a task  *)
(* it adds is waiting.                                                      *)
LEMMA ApiShapes == TypeOK /\ ApiStep => ApiShape
<1> SUFFICES ASSUME TypeOK, ApiStep PROVE ApiShape
  OBVIOUS
<1>0. row \in RowType /\ tasks \in [Docs -> GoodTasks]
  BY DEF TypeOK, RowType
<1>1. CASE InsertJob
  BY <1>0, <1>1 DEF InsertJob, ApiShape, Claimed, RowType
<1>2. CASE PutSnapshot
  BY <1>0, <1>2 DEF PutSnapshot, Store, ApiShape, Claimed
<1>3. CASE InitProgress
  BY <1>0, <1>3 DEF InitProgress, WriteHash, ApiShape, Claimed
<1>4. CASE EnqueueDocuments
  BY <1>0, <1>4 DEF EnqueueDocuments, Add, NewTask, AbsentTask, ApiShape, Claimed
<1>5. CASE Promote
  BY <1>0, <1>5 DEF Promote, ApiShape, Claimed, RowType
<1>6. CASE Reject
  BY <1>0, <1>6 DEF Reject, ApiShape, Claimed, RowType
<1> QED
  BY <1>1, <1>2, <1>3, <1>4, <1>5, <1>6 DEF ApiStep

(* Where the handler stands keeps saying what it has made durable. *)
LEMMA ApiIntake == TypeOK /\ IntakeInv /\ ApiStep => IntakeInv'
<1> SUFFICES ASSUME TypeOK, IntakeInv, ApiStep PROVE IntakeInv'
  OBVIOUS
<1>0. /\ row \in RowType /\ tasks \in [Docs -> GoodTasks]
      /\ IntakeInv /\ tries \in 0..EnqueueAttempts
  BY DEF TypeOK, RowType
<1>1. CASE InsertJob
  BY <1>0, <1>1 DEF InsertJob, IntakeInv, RowType
<1>2. CASE PutSnapshot
  BY <1>0, <1>2 DEF PutSnapshot, Store, IntakeInv
<1>3. CASE InitProgress
  BY <1>0, <1>3 DEF InitProgress, WriteHash, IntakeInv
<1>4. CASE EnqueueDocuments
  BY <1>0, <1>4, BoundsAssumption DEF EnqueueDocuments, Add, NewTask, AbsentTask, IntakeInv
<1>5. CASE Promote
  BY <1>0, <1>5 DEF Promote, IntakeInv, RowType
<1>6. CASE Reject
  BY <1>0, <1>6 DEF Reject, IntakeInv, RowType
<1> QED
  BY <1>1, <1>2, <1>3, <1>4, <1>5, <1>6 DEF ApiStep

(* The handler keeps the invariant. *)
LEMMA ApiInv == IInv /\ ApiStep => Control' /\ DeliveryInv' /\ Safety'
<1> SUFFICES ASSUME IInv, ApiStep PROVE Control' /\ DeliveryInv' /\ Safety'
  OBVIOUS
<1>1. ApiShape /\ IntakeInv'
  BY ApiShapes, ApiIntake DEF IInv
<1>2. row' = row \/ (row.status \in {"none", "pending"} /\ ~Promoted /\ ~Claimed)
  BY <1>1 DEF ApiShape, IInv, IntakeInv, AdmissionInv, Promoted
<1>3. (Terminal => Terminal') /\ (Promoted => Promoted')
  BY <1>1, <1>2 DEF Terminal, Finals, Promoted, ApiShape
<1>4. AdmissionInv'
  <2>1. ~Promoted' => ~Promoted
    BY <1>3
  <2> QED
    BY <1>1, <1>2, <2>1 DEF ApiShape, IInv, AdmissionInv
<1>5. FinalizeInv'
  <2>1. row' = row \/ \A s \in Slots : pc[s] \notin Admitted
    BY <1>2 DEF IInv, AdmissionInv
  <2> QED
    BY <1>1, <2>1 DEF ApiShape, IInv, FinalizeInv, Admitted, Working, Flushing
<1>6. DeliveryInv'
  BY <1>1, <1>3 DEF ApiShape, IInv, DeliveryInv
<1>7. ReadyWhenPromoted'
  BY <1>1 DEF ApiShape, IInv, IntakeInv, ReadyWhenPromoted
<1>8. NothingRenderedUnlessPromoted'
  BY <1>1, <1>3, DocsAssumption DEF ApiShape, IInv, NothingRenderedUnlessPromoted
<1>9. RenderedRowHasArtifact'
  BY <1>1 DEF ApiShape, IInv, RenderedRowHasArtifact
<1>10. AckedTaskIsAccounted'
  BY <1>1, <1>3 DEF ApiShape, IInv, AckedTaskIsAccounted
<1> QED
  BY <1>1, <1>4, <1>5, <1>6, <1>7, <1>8, <1>9, <1>10 DEF Control, Safety

OtherStep ==
  \/ ApiCrash
  \/ Deliver
  \/ \E d \in Docs : LoseLock(d) \/ StalledCheck(d)
  \/ \E p \in Procs : WorkerCrash(p)
  \/ UNCHANGED vars

(* The environment writes no store but the queue. *)
LEMMA OtherShapes == IInv /\ OtherStep => OtherShape
<1> SUFFICES ASSUME IInv, OtherStep PROVE OtherShape
  OBVIOUS
<1>0. /\ tasks \in [Docs -> GoodTasks] /\ \A d \in Docs : tasks[d] \in Tasks
      /\ pc \in [Slots -> SlotLabels] /\ doc \in [Slots -> Docs \union {NoDoc}]
  BY DEF IInv, TypeOK, GoodTasks
<1>1. CASE ApiCrash \/ UNCHANGED vars
  BY <1>1 DEF ApiCrash, OtherShape
<1>2. CASE Deliver
  <2>1. PICK s \in Slots, e \in Docs : Take(s, e)
    BY <1>2 DEF Deliver
  <2>2. tasks[e].state = "waiting" /\ row.status # "none"
    BY <2>1 DEF Take, IInv, IntakeInv
  <2>3. \A d \in Docs : tasks'[d].state = tasks[d].state \/ (d = e /\ tasks'[d].state = "active")
    BY <1>0, <2>1 DEF Take, Tasks
  <2>4. \A t \in Slots : t # s => pc'[t] = pc[t] /\ doc'[t] = doc[t]
    BY <1>0, <2>1 DEF Take
  <2>5. pc'[s] = "readRow" /\ UNCHANGED <<tries, row, ledger, bucket, keys, api>>
    BY <1>0, <2>1 DEF Take
  <2> QED
    BY <2>2, <2>3, <2>4, <2>5 DEF OtherShape
<1>3. ASSUME NEW e \in Docs, LoseLock(e) PROVE OtherShape
  <2>1. \A d \in Docs : tasks'[d].state = tasks[d].state
    BY <1>0, <1>3 DEF LoseLock, Tasks
  <2> QED
    BY <1>3, <2>1 DEF LoseLock, OtherShape
<1>4. ASSUME NEW e \in Docs, StalledCheck(e) PROVE OtherShape
  <2> DEFINE n  == tasks[e].stalls + 1
             st == IF n <= MaxStalls THEN "waiting" ELSE "failed"
  <2>1. /\ tasks[e].state = "active"
        /\ tasks' = [tasks EXCEPT ![e] = [@ EXCEPT !.stalls = n, !.state = st]]
        /\ UNCHANGED <<api, tries, row, ledger, bucket, keys, pc, doc>>
    BY <1>4 DEF StalledCheck
  <2>2. st \in {"waiting", "failed"}
    OBVIOUS
  <2> HIDE DEF n, st
  <2>3. \A d \in Docs : tasks'[d].state = tasks[d].state \/ (d = e /\ tasks'[d].state = st)
    BY <1>0, <2>1 DEF Tasks
  <2> QED
    BY <2>1, <2>2, <2>3 DEF OtherShape
<1>5. ASSUME NEW p \in Procs, WorkerCrash(p) PROVE OtherShape
  <2>1. \A d \in Docs : tasks'[d].state = tasks[d].state
    BY <1>0, <1>5 DEF WorkerCrash, Tasks
  <2>2. \A t \in Slots : (pc'[t] = pc[t] /\ doc'[t] = doc[t]) \/ pc'[t] = "idle"
    BY <1>0, <1>5 DEF WorkerCrash
  <2> QED
    BY <1>5, <2>1, <2>2 DEF WorkerCrash, OtherShape
<1> QED
  BY <1>1, <1>2, <1>3, <1>4, <1>5 DEF OtherStep

(* The environment keeps the invariant. *)
LEMMA OtherInv == IInv /\ OtherStep => Control' /\ DeliveryInv' /\ Safety'
<1> SUFFICES ASSUME IInv, OtherStep PROVE Control' /\ DeliveryInv' /\ Safety'
  OBVIOUS
<1>1. OtherShape
  BY OtherShapes
<1>2. (Promoted' <=> Promoted) /\ (Claimed' <=> Claimed) /\ (Terminal' <=> Terminal)
  BY <1>1 DEF OtherShape, Promoted, Claimed, Terminal
<1>3. \A t \in Slots : pc'[t] \in Admitted \union {"ack"} => pc'[t] = pc[t] /\ doc'[t] = doc[t]
  BY <1>1 DEF OtherShape, Admitted, Working, Rendering, Sealing, Closing, Claiming, Flushing
<1>4. IntakeInv'
  BY <1>1 DEF OtherShape, IInv, IntakeInv
<1>5. AdmissionInv'
  BY <1>1, <1>2, <1>3 DEF OtherShape, IInv, AdmissionInv
<1>6. FinalizeInv'
  BY <1>1, <1>2, <1>3 DEF OtherShape, IInv, FinalizeInv, Admitted, Working, Flushing
<1>7. DeliveryInv'
  BY <1>1, <1>2, <1>3 DEF OtherShape, IInv, DeliveryInv, Admitted, Working, Rendering,
                          Sealing, Closing, Claiming, Flushing
<1>8. ReadyWhenPromoted' /\ NothingRenderedUnlessPromoted' /\ RenderedRowHasArtifact'
  BY <1>1, <1>2 DEF OtherShape, IInv, ReadyWhenPromoted, NothingRenderedUnlessPromoted,
                    RenderedRowHasArtifact
<1>9. AckedTaskIsAccounted'
  BY <1>1, <1>2 DEF OtherShape, IInv, AckedTaskIsAccounted
<1> QED
  BY <1>4, <1>5, <1>6, <1>7, <1>8, <1>9 DEF Control, Safety

(* The invariant is inductive. *)
LEMMA InvStep == IInv /\ [Next]_vars => IInv'
<1> SUFFICES ASSUME IInv, [Next]_vars PROVE IInv'
  OBVIOUS
<1>1. TypeOK'
  BY TypeStep DEF IInv
<1>2. Control' /\ DeliveryInv' /\ Safety'
  <2>1. ASSUME NEW s \in Slots, SlotStep(s) PROVE Control' /\ DeliveryInv' /\ Safety'
    BY <2>1, SlotControl, SlotDelivery, SlotSafety
  <2> QED
    BY <2>1, ApiInv, OtherInv DEF Next, OtherStep
<1> QED
  BY <1>1, <1>2 DEF IInv, Control, Safety

-----------------------------------------------------------------------------
(* The inductive invariant of the whole protocol holds in every state. *)
THEOREM Invariance == Spec => []IInv
BY InvInit, InvStep, PTL DEF Spec

(* Every variable keeps its type; in particular no task is delivered more   *)
(* than MaxAttempts times or stalls more than MaxStalls times, and lives.   *)
THEOREM TypeCorrect == Spec => []TypeOK
<1>1. IInv => TypeOK
  BY DEF IInv
<1> QED
  BY <1>1, Invariance, PTL

(* Nobody can see a job as queued or processing while its snapshot or one   *)
(* of its tasks is missing (the order of the calls in routes/jobs.js).      *)
THEOREM ReadyBeforePromotion == Spec => []ReadyWhenPromoted
<1>1. IInv => ReadyWhenPromoted
  BY DEF IInv
<1> QED
  BY <1>1, Invariance, PTL

(* A task that leaked out of a failed addBulk renders nothing, for every    *)
(* number of documents, slots and failures (the guard of worker.js).        *)
THEOREM LeakedTasksRenderNothing == Spec => []NothingRenderedUnlessPromoted
<1>1. IInv => NothingRenderedUnlessPromoted
  BY DEF IInv
<1> QED
  BY <1>1, Invariance, PTL

(* A rendered ledger row is backed by a stored artifact (the order of the   *)
(* calls in render/pipeline.js).                                            *)
THEOREM ArtifactBeforeRow == Spec => []RenderedRowHasArtifact
<1>1. IInv => RenderedRowHasArtifact
  BY DEF IInv
<1> QED
  BY <1>1, Invariance, PTL

(* A task acked before the job is over has its ledger row: the guard of     *)
(* worker.js drops no document.                                             *)
THEOREM NoDocumentDropped == Spec => []AckedTaskIsAccounted
<1>1. IInv => AckedTaskIsAccounted
  BY DEF IInv
<1> QED
  BY <1>1, Invariance, PTL

(* The status of a job only moves forward, and a terminal row is final:     *)
(* neither the handler nor a redelivered task writes it again.              *)
THEOREM StatusMonotone == Spec => StatusNeverRegresses
<1>1. ASSUME IInv, [Next]_vars
      PROVE  /\ StatusRank[row.status] <= StatusRank[row'.status]
             /\ Terminal => row' = row
  <2>1. row.status \in Statuses /\ row'.status \in Statuses
    BY <1>1, TypeStep DEF IInv, TypeOK
  <2>2. /\ \A st \in Finals : StatusRank[st] = 4
        /\ StatusRank["none"] = 0 /\ StatusRank["pending"] = 1 /\ StatusRank["queued"] = 2
        /\ StatusRank["processing"] = 3
    BY DEF StatusRank, Finals
  <2>3. CASE row' = row
    BY <2>1, <2>2, <2>3 DEF Statuses
  <2>4. CASE row' # row
    <3>1. CASE \E s \in Slots : SlotStep(s)
      <4>1. PICK s \in Slots : SlotStep(s)
        BY <3>1
      <4>2. RowShape(s) /\ (Terminal => row' = row)
        BY <1>1, <4>1, SlotRow, SlotPromoted DEF IInv
      <4>3. pc[s] = "flushRow" => row.status = "processing"
        BY <1>1 DEF IInv, FinalizeInv
      <4> QED
        BY <2>2, <2>4, <4>2, <4>3 DEF RowShape
    <3>2. CASE ApiStep
      <4>1. ApiShape
        BY <1>1, <3>2, ApiShapes DEF IInv
      <4>2. \/ row.status = "none" /\ row'.status = "pending"
            \/ row.status = "pending" /\ row'.status \in {"queued", "failed"}
        BY <1>1, <2>4, <4>1 DEF ApiShape, IInv, IntakeInv
      <4> QED
        BY <2>2, <4>2 DEF Terminal, Finals
    <3>3. CASE OtherStep
      BY <1>1, <2>4, <3>3, OtherShapes DEF OtherShape
    <3> QED
      BY <1>1, <3>1, <3>2, <3>3 DEF Next, OtherStep
  <2> QED
    BY <2>3, <2>4
<1>2. IInv /\ [Next]_vars =>
        [/\ StatusRank[row.status] <= StatusRank[row'.status]
         /\ Terminal => row' = row]_vars
  BY <1>1
<1> QED
  BY <1>2, Invariance, PTL DEF Spec, StatusNeverRegresses

-----------------------------------------------------------------------------
(* The counters and the ledger.                                            *)

RowSet(outcome) ==
  UNION {{d} \X {i \in DOMAIN ledger[d] : ledger[d][i] = outcome} : d \in Docs}

Counter(outcome) == IF outcome = "rendered" THEN live.completed ELSE live.failed
Resent(outcome)  == IF outcome = "rendered" THEN resent.completed ELSE resent.failed

\* Slots that have written a row and not counted it yet.
Counting == {"incCompleted", "incFailed"}
Uncounted(outcome) ==
  {s \in Slots : pc[s] = IF outcome = "rendered" THEN "incCompleted" ELSE "incFailed"}

\* Every count that was not sent again has a row of its own, and so has every
\* count still to come.
Backed ==
  \A o \in Outcomes :
    /\ IsFiniteSet(RowSet(o)) /\ IsFiniteSet(Uncounted(o))
    /\ Counter(o) + Cardinality(Uncounted(o)) <= Cardinality(RowSet(o)) + Resent(o)

\* An increment runs and the slot is still to be answered.
RunsTwice(s) ==
  /\ "resend" \in Faults /\ UNCHANGED <<ledger, pc>> /\ faults' = faults + 1
  /\ \/ pc[s] = "incCompleted" /\ Twice(1, 0)
        /\ live' = [completed |-> live.completed + 1, failed |-> live.failed]
     \/ pc[s] = "incFailed" /\ Twice(0, 1)
        /\ live' = [completed |-> live.completed, failed |-> live.failed + 1]

\* What a step of a slot does to the rows and the counters; in a step that
\* is no failure a row is written to be counted, and counted once.
CountOnce(s) ==
  \/ /\ UNCHANGED <<ledger, live>> /\ pc[s] \notin Counting /\ pc'[s] \notin Counting
     /\ UNCHANGED faults => pc[s] \notin {"append", "appendError"}
  \/ pc[s] = "flushDel" /\ UNCHANGED ledger /\ live' = Zero /\ pc'[s] \notin Counting
  \/ /\ pc[s] = "incCompleted" /\ UNCHANGED ledger /\ pc'[s] \notin Counting
     /\ live' \in {live, [completed |-> live.completed + 1, failed |-> live.failed]}
     /\ UNCHANGED faults => live'.completed = live.completed + 1 /\ pc'[s] = "release"
  \/ /\ pc[s] = "incFailed" /\ UNCHANGED ledger /\ pc'[s] \notin Counting
     /\ live' \in {live, [completed |-> live.completed, failed |-> live.failed + 1]}
     /\ UNCHANGED faults => live'.failed = live.failed + 1 /\ pc'[s] = "release"
  \/ /\ pc[s] = "append" /\ UNCHANGED live /\ AppendEntry(s, "rendered")
     /\ pc'[s] \in Counting => pc'[s] = "incCompleted"
     /\ UNCHANGED faults => pc'[s] = "incCompleted"
  \/ /\ pc[s] = "appendError" /\ UNCHANGED live /\ AppendEntry(s, "error")
     /\ pc'[s] \in Counting => pc'[s] = "incFailed"
     /\ UNCHANGED faults => pc'[s] = "incFailed"

CountShape(s) == (UNCHANGED resent /\ CountOnce(s)) \/ RunsTwice(s)

(* A row is appended before it is counted, in steps of their own.          *)
LEMMA SlotCount == ASSUME NEW s \in Slots, TypeOK, SlotStep(s) PROVE CountShape(s)
<1>0. /\ pc \in [Slots -> SlotLabels] /\ live \in Counters /\ faults \in Nat
  BY BoundsAssumption DEF TypeOK
<1> USE DEF Counting
<1>1. CASE ReadRow(s)
  BY <1>0, <1>1 DEF ReadRow, AfterRow, CountShape, CountOnce
<1>2. CASE MarkProcessing(s)
  BY <1>0, <1>2 DEF MarkProcessing, CountShape, CountOnce
<1>3. CASE GetSnapshot(s)
  BY <1>0, <1>3 DEF GetSnapshot, CountShape, CountOnce
<1>4. CASE Render(s)
  BY <1>0, <1>4 DEF Render, Caught, CountShape, CountOnce
<1>5. CASE PutArtifact(s)
  BY <1>0, <1>5 DEF PutArtifact, Caught, CountShape, CountOnce
<1>6. CASE AppendRendered(s)
  BY <1>0, <1>6 DEF AppendRendered, Caught, CountShape, CountOnce
<1>7. CASE IncrementCompleted(s)
  BY <1>0, <1>7 DEF IncrementCompleted, Caught, Bump, WriteHash, Counters, CountShape, CountOnce, RunsTwice
<1>8. CASE AppendError(s)
  BY <1>0, <1>8 DEF AppendError, CountShape, CountOnce
<1>9. CASE IncrementFailed(s)
  BY <1>0, <1>9 DEF IncrementFailed, Bump, WriteHash, Counters, CountShape, CountOnce, RunsTwice
<1>10. CASE Release(s)
  BY <1>0, <1>10 DEF Release, CountShape, CountOnce
<1>11. CASE ClaimRead(s)
  BY <1>0, <1>11 DEF ClaimRead, CountShape, CountOnce
<1>12. CASE ClaimMarker(s)
  BY <1>0, <1>12 DEF ClaimMarker, CountShape, CountOnce
<1>13. CASE FlushRead(s)
  BY <1>0, <1>13 DEF FlushRead, CountShape, CountOnce
<1>14. CASE FlushRow(s)
  BY <1>0, <1>14 DEF FlushRow, CountShape, CountOnce
<1>15. CASE FlushDel(s)
  BY <1>0, <1>15 DEF FlushDel, DropHash, CountShape, CountOnce
<1>16. CASE Ack(s)
  BY <1>0, <1>16 DEF Ack, Settle, CountShape, CountOnce
<1>17. CASE Raise(s)
  BY <1>0, <1>17 DEF Raise, Settle, CountShape, CountOnce
<1> QED
  BY <1>1, <1>2, <1>3, <1>4, <1>5, <1>6, <1>7, <1>8, <1>9, <1>10, <1>11, <1>12, <1>13, <1>14, <1>15, <1>16, <1>17 DEF SlotStep

(* One row more of one outcome.                                            *)
LEMMA RowAppended ==
  ASSUME ledger \in [Docs -> Seq(Outcomes)], NEW s \in Slots, doc[s] \in Docs,
         NEW p \in Outcomes, AppendEntry(s, p)
  PROVE  \A o \in Outcomes :
           /\ o = p => \E new : new \notin RowSet(o) /\ RowSet(o)' = RowSet(o) \union {new}
           /\ o # p => RowSet(o)' = RowSet(o)
<1> SUFFICES ASSUME NEW o \in Outcomes
             PROVE  /\ o = p => \E new : new \notin RowSet(o) /\ RowSet(o)' = RowSet(o) \union {new}
                    /\ o # p => RowSet(o)' = RowSet(o)
  OBVIOUS
<1> DEFINE d == doc[s]
           n == Len(ledger[d]) + 1
<1>1. /\ ledger[d] \in Seq(Outcomes) /\ n \in Nat
      /\ ledger' \in [Docs -> Seq(Outcomes)] /\ ledger'[d] = Append(ledger[d], p)
      /\ \A e \in Docs \ {d} : ledger'[e] = ledger[e]
  BY LedgerType DEF AppendEntry
<1>2. /\ DOMAIN ledger'[d] = DOMAIN ledger[d] \union {n} /\ n \notin DOMAIN ledger[d]
      /\ ledger'[d][n] = p /\ \A i \in DOMAIN ledger[d] : ledger'[d][i] = ledger[d][i]
  BY <1>1
<1>3. \A x : x \in RowSet(o) <=>
             \E e \in Docs : \E i \in DOMAIN ledger[e] : ledger[e][i] = o /\ x = <<e, i>>
  BY DEF RowSet
<1>4. \A x : x \in RowSet(o)' <=>
             \E e \in Docs : \E i \in DOMAIN ledger'[e] : ledger'[e][i] = o /\ x = <<e, i>>
  BY DEF RowSet
<1> HIDE DEF n
<1>5a. ASSUME NEW x \in RowSet(o)'
       PROVE  x \in RowSet(o) \/ (o = p /\ x = <<d, n>>)
  <2>1. PICK e \in Docs : \E i \in DOMAIN ledger'[e] : ledger'[e][i] = o /\ x = <<e, i>>
    BY <1>4, <1>5a
  <2>2. PICK i \in DOMAIN ledger'[e] : ledger'[e][i] = o /\ x = <<e, i>>
    BY <2>1
  <2>3. CASE e = d /\ i = n
    BY <1>2, <2>2, <2>3
  <2>4. CASE e = d /\ i # n
    BY <1>2, <1>3, <2>2, <2>4
  <2>5. CASE e # d
    <3>1. ledger'[e] = ledger[e]
      BY <1>1, <2>5
    <3> QED BY <1>3, <2>2, <3>1
  <2> QED BY <2>3, <2>4, <2>5
<1>5. CASE o = p
  <2>1. <<d, n>> \notin RowSet(o)
    BY <1>2, <1>3
  <2>2. RowSet(o)' = RowSet(o) \union {<<d, n>>}
    <3>1. ASSUME NEW x \in RowSet(o)' PROVE x \in RowSet(o) \union {<<d, n>>}
      BY <1>5a, <3>1
    <3>2. ASSUME NEW x \in RowSet(o) PROVE x \in RowSet(o)'
      BY <1>1, <1>2, <1>3, <1>4, <3>2
    <3>3. <<d, n>> \in RowSet(o)'
      BY <1>2, <1>4, <1>5
    <3> QED BY <3>1, <3>2, <3>3
  <2> QED BY <1>5, <2>1, <2>2
<1>6. CASE o # p
  <2>1. ASSUME NEW x \in RowSet(o)' PROVE x \in RowSet(o)
    BY <1>5a, <1>6, <2>1
  <2>2. ASSUME NEW x \in RowSet(o) PROVE x \in RowSet(o)'
    BY <1>1, <1>2, <1>3, <1>4, <2>2
  <2> QED BY <1>6, <2>1, <2>2
<1> QED BY <1>5, <1>6

(* A slot comes to its count, or leaves it.                                *)
LEMMA UncountedMoves ==
  ASSUME NEW s \in Slots, \A t \in Slots : t # s => pc'[t] = pc[t]
  PROVE  \A o \in Outcomes :
           /\ s \in Uncounted(o)' => Uncounted(o)' = Uncounted(o) \union {s}
           /\ s \notin Uncounted(o)' => Uncounted(o)' = Uncounted(o) \ {s}
BY DEF Uncounted

(* A step of a slot leaves every count and every count to come backed.     *)
LEMMA SlotBacked ==
  ASSUME TypeOK, Backed, NEW s \in Slots, SlotStep(s)
  PROVE  Backed'
<1>1. CountShape(s) /\ PathShape(s)
  BY SlotCount, SlotPath
<1> SUFFICES ASSUME NEW o \in Outcomes
             PROVE  /\ IsFiniteSet(RowSet(o)') /\ IsFiniteSet(Uncounted(o)')
                    /\ Counter(o)' + Cardinality(Uncounted(o)') <= Cardinality(RowSet(o)') + Resent(o)'
  BY DEF Backed
<1> DEFINE R == RowSet(o)
           U == Uncounted(o)
<1>2. /\ IsFiniteSet(R) /\ IsFiniteSet(U)
      /\ Counter(o) + Cardinality(U) <= Cardinality(R) + Resent(o)
      /\ Counter(o) \in Nat /\ Resent(o) \in Nat
  BY DEF Backed, Counter, Resent, TypeOK, Counters
<1>3. Cardinality(R) \in Nat /\ Cardinality(U) \in Nat
  BY <1>2, FS_CardinalityType
<1>4. /\ s \in U' => U' = U \union {s}
      /\ s \notin U' => U' = U \ {s}
  BY <1>1, UncountedMoves DEF PathShape
<1>5. /\ IsFiniteSet(U')
      /\ s \in U' => Cardinality(U') = IF s \in U THEN Cardinality(U) ELSE Cardinality(U) + 1
      /\ s \notin U' => Cardinality(U') = IF s \in U THEN Cardinality(U) - 1 ELSE Cardinality(U)
  <2> HIDE DEF U
  <2>1. /\ IsFiniteSet(U \union {s}) /\ IsFiniteSet(U \ {s})
        /\ Cardinality(U \union {s}) = IF s \in U THEN Cardinality(U) ELSE Cardinality(U) + 1
        /\ Cardinality(U \ {s}) = IF s \in U THEN Cardinality(U) - 1 ELSE Cardinality(U)
    BY <1>2, FS_AddElement, FS_RemoveElement
  <2> QED BY <1>4, <2>1
<1>6. (ledger' = ledger) => R' = R
  BY DEF RowSet
<1>7. ASSUME NEW p \in Outcomes, AppendEntry(s, p)
      PROVE  /\ IsFiniteSet(R')
             /\ Cardinality(R') = IF o = p THEN Cardinality(R) + 1 ELSE Cardinality(R)
  <2>1. /\ o = p => \E new : new \notin R /\ R' = R \union {new}
        /\ o # p => R' = R
    BY <1>1, <1>7, RowAppended DEF PathShape, TypeOK
  <2> HIDE DEF R
  <2>2. CASE o = p
    <3>1. PICK new : new \notin R /\ R' = R \union {new}
      BY <2>1, <2>2
    <3>2. IsFiniteSet(R \union {new}) /\ Cardinality(R \union {new}) = Cardinality(R) + 1
      BY <1>2, <3>1, FS_AddElement
    <3> QED BY <2>2, <3>1, <3>2
  <2> QED BY <1>2, <2>1, <2>2
<1>8. /\ s \in U  <=> pc[s] = IF o = "rendered" THEN "incCompleted" ELSE "incFailed"
      /\ s \in U' <=> pc'[s] = IF o = "rendered" THEN "incCompleted" ELSE "incFailed"
  BY DEF Uncounted
<1> HIDE DEF R, U
<1>9. \/ /\ ledger' = ledger /\ s \notin U' /\ Resent(o)' = Resent(o)
         /\ Counter(o)' \in Nat /\ Counter(o)' <= IF s \in U THEN Counter(o) + 1 ELSE Counter(o)
      \/ \E p \in Outcomes :
           /\ AppendEntry(s, p) /\ UNCHANGED live /\ s \notin U /\ (s \in U' => o = p)
           /\ Resent(o)' = Resent(o)
      \/ RunsTwice(s)
  BY <1>1, <1>8 DEF CountShape, CountOnce, Counting, Outcomes, Counter, Resent, Zero, TypeOK, Counters
<1>10. ASSUME NEW p \in Outcomes, AppendEntry(s, p), UNCHANGED live, s \notin U, s \in U' => o = p,
              Resent(o)' = Resent(o)
       PROVE  /\ IsFiniteSet(RowSet(o)') /\ IsFiniteSet(Uncounted(o)')
              /\ Counter(o)' + Cardinality(Uncounted(o)') <= Cardinality(RowSet(o)') + Resent(o)'
  <2>2. Counter(o)' = Counter(o)
    BY <1>10 DEF Counter
  <2>3. IsFiniteSet(R') /\ Cardinality(R') = IF o = p THEN Cardinality(R) + 1 ELSE Cardinality(R)
    BY <1>7, <1>10
  <2> QED BY <1>2, <1>3, <1>5, <1>10, <2>2, <2>3 DEF R, U
<1>11. ASSUME ledger' = ledger, s \notin U', Resent(o)' = Resent(o), Counter(o)' \in Nat,
              Counter(o)' <= IF s \in U THEN Counter(o) + 1 ELSE Counter(o)
       PROVE  /\ IsFiniteSet(RowSet(o)') /\ IsFiniteSet(Uncounted(o)')
              /\ Counter(o)' + Cardinality(Uncounted(o)') <= Cardinality(RowSet(o)') + Resent(o)'
  BY <1>2, <1>3, <1>5, <1>6, <1>11 DEF R, U
<1>12. ASSUME RunsTwice(s)
       PROVE  /\ IsFiniteSet(RowSet(o)') /\ IsFiniteSet(Uncounted(o)')
              /\ Counter(o)' + Cardinality(Uncounted(o)') <= Cardinality(RowSet(o)') + Resent(o)'
  <2>1. R' = R /\ U' = U
    BY <1>6, <1>12 DEF RunsTwice, R, U, Uncounted
  <2>2. \/ Counter(o)' = Counter(o) /\ Resent(o)' = Resent(o)
        \/ Counter(o)' = Counter(o) + 1 /\ Resent(o)' = Resent(o) + 1
    BY <1>12 DEF RunsTwice, Twice, Counter, Resent, TypeOK, Counters
  <2> QED BY <1>2, <1>3, <2>1, <2>2 DEF R, U
<1> QED BY <1>9, <1>10, <1>11, <1>12

(* Resetting the counters and losing slots unbacks nothing.                *)
LEMMA BackedFrame ==
  ASSUME TypeOK, Backed, UNCHANGED <<ledger, resent>>, live' \in {live, Zero},
         \A s \in Slots : pc'[s] \in Counting => pc'[s] = pc[s]
  PROVE  Backed'
<1> SUFFICES ASSUME NEW o \in Outcomes
             PROVE  /\ IsFiniteSet(RowSet(o)') /\ IsFiniteSet(Uncounted(o)')
                    /\ Counter(o)' + Cardinality(Uncounted(o)') <= Cardinality(RowSet(o)') + Resent(o)'
  BY DEF Backed
<1>1. /\ IsFiniteSet(RowSet(o)) /\ IsFiniteSet(Uncounted(o))
      /\ Counter(o) + Cardinality(Uncounted(o)) <= Cardinality(RowSet(o)) + Resent(o)
  BY DEF Backed
<1>2. RowSet(o)' = RowSet(o)
  BY DEF RowSet
<1>3. Uncounted(o)' \in SUBSET Uncounted(o)
  BY DEF Uncounted, Counting
<1>4. IsFiniteSet(Uncounted(o)') /\ Cardinality(Uncounted(o)') <= Cardinality(Uncounted(o))
  BY <1>1, <1>3, FS_Subset
<1>5. /\ Cardinality(RowSet(o)) \in Nat /\ Cardinality(Uncounted(o)) \in Nat
      /\ Cardinality(Uncounted(o)') \in Nat
  BY <1>1, <1>4, FS_CardinalityType
<1>6. /\ Counter(o) \in Nat /\ Counter(o)' \in Nat /\ Counter(o)' <= Counter(o)
      /\ Resent(o) \in Nat /\ Resent(o)' = Resent(o)
  BY DEF Counter, Resent, Zero, TypeOK, Counters
<1> QED BY <1>1, <1>2, <1>4, <1>5, <1>6

(* Nothing else counts a document or writes a row: the handler starts the   *)
(* counters at zero, and a process that dies takes counts to come with it.  *)
LEMMA BackedStep ==
  ASSUME TypeOK, Backed, [Next]_vars
  PROVE  Backed'
<1>1. ASSUME NEW s \in Slots, SlotStep(s) PROVE Backed'
  BY <1>1, SlotBacked
<1>2. ASSUME UNCHANGED <<ledger, resent>>, live' \in {live, Zero},
             \A s \in Slots : pc'[s] \in Counting => pc'[s] = pc[s]
      PROVE  Backed'
  BY <1>2, BackedFrame
<1>3. CASE ApiStep
  BY <1>2, <1>3 DEF ApiStep, InsertJob, PutSnapshot, InitProgress, WriteHash, EnqueueDocuments,
                    Promote, Reject
<1>4. CASE Deliver
  <2>1. PICK s \in Slots, d \in Docs : Take(s, d)
    BY <1>4 DEF Deliver
  <2>2. pc' = [pc EXCEPT ![s] = "readRow"] /\ UNCHANGED <<ledger, live, resent>>
    BY <2>1 DEF Take
  <2>3. \A t \in Slots : pc'[t] \in Counting => pc'[t] = pc[t]
    BY <2>2 DEF Counting, TypeOK
  <2> QED BY <1>2, <2>2, <2>3
<1>5. ASSUME NEW p \in Procs, WorkerCrash(p) PROVE Backed'
  <2>1. \A t \in Slots : pc'[t] \in Counting => pc'[t] = pc[t]
    BY <1>5 DEF WorkerCrash, Counting
  <2> QED BY <1>2, <1>5, <2>1 DEF WorkerCrash
<1>6. CASE ApiCrash \/ (\E d \in Docs : LoseLock(d) \/ StalledCheck(d)) \/ UNCHANGED vars
  BY <1>2, <1>6 DEF ApiCrash, LoseLock, StalledCheck
<1> QED BY <1>1, <1>3, <1>4, <1>5, <1>6 DEF Next

LEMMA BackedInit == Init => Backed
<1> SUFFICES ASSUME Init, NEW o \in Outcomes
             PROVE  /\ IsFiniteSet(RowSet(o)) /\ IsFiniteSet(Uncounted(o))
                    /\ Counter(o) + Cardinality(Uncounted(o)) <= Cardinality(RowSet(o)) + Resent(o)
  BY DEF Backed
<1>1. RowSet(o) = {} /\ Uncounted(o) = {} /\ Counter(o) = 0 /\ Resent(o) = 0
  BY DEF Init, RowSet, Uncounted, Counter, Resent, Zero
<1> QED BY <1>1, FS_EmptySet

LEMMA BackedCounts == ASSUME TypeOK, Backed PROVE CountsBackedByLedger
<1>1. ASSUME NEW o \in Outcomes PROVE Counter(o) <= Rows(o) + Resent(o)
  <2>1. /\ IsFiniteSet(RowSet(o)) /\ IsFiniteSet(Uncounted(o))
        /\ Counter(o) + Cardinality(Uncounted(o)) <= Cardinality(RowSet(o)) + Resent(o)
    BY DEF Backed
  <2>2. Cardinality(RowSet(o)) \in Nat /\ Cardinality(Uncounted(o)) \in Nat
    BY <2>1, FS_CardinalityType
  <2>3. Counter(o) \in Nat /\ Resent(o) \in Nat /\ Rows(o) = Cardinality(RowSet(o))
    BY DEF Counter, Resent, TypeOK, Counters, Rows, RowSet
  <2> QED BY <2>1, <2>2, <2>3
<1> QED BY <1>1 DEF CountsBackedByLedger, Counter, Resent, Outcomes

(* Over every retry, redelivery, death and reset of the counters, a counter *)
(* is ahead of the ledger rows of its outcome by no more than the           *)
(* increments that were sent again (pipeline.js:38-47, redis.js:9-14).      *)
THEOREM CountsBacked == Spec => []CountsBackedByLedger
<1>1. Init => Backed
  BY BackedInit
<1>2. TypeOK /\ Backed => CountsBackedByLedger
  BY BackedCounts
<1> QED
  BY <1>1, <1>2, BackedStep, TypeCorrect, PTL DEF Spec

-----------------------------------------------------------------------------
(* Who has a document that has no row yet.                                 *)

\* A locked task is worked on by the slot that locked it.
OwnersWork ==
  \A d \in Docs : tasks[d].owner # NoSlot =>
    tasks[d].owner \in Slots /\ pc[tasks[d].owner] # "idle" /\ doc[tasks[d].owner] = d

\* A task is given up when it has no attempt or no stall left, never before.
Spent(t) == t.attempts = MaxAttempts \/ t.stalls = MaxStalls + 1
FailedIsSpent == \A d \in Docs : tasks[d].state = "failed" => Spent(tasks[d])

\* Its task waits, its owner works on it, or it is left to the stalled check.
InHands(d) ==
  \/ tasks[d].state = "waiting"
  \/ /\ tasks[d].state = "active"
     /\ \/ tasks[d].owner = NoSlot
        \/ \E s \in Slots : tasks[d].owner = s /\ pc[s] # "idle" /\ doc[s] = d

\* phase-2.md:31-36: no document of a promoted job that is not over is dropped:
\* without a row it is in somebody's hands, unless BullMQ gave it up.
AlwaysInHands ==
  row.status \in {"queued", "processing"} =>
    \A d \in Docs : ledger[d] = <<>> =>
      InHands(d) \/ (tasks[d].state = "failed" /\ Spent(tasks[d]))

(* The end of a delivery unlocks the task of the slot, if it still has it.  *)
LEMMA SettleTasks ==
  ASSUME TypeOK, NEW s \in Slots, Ack(s) \/ Raise(s)
  PROVE  /\ doc[s] \in Docs /\ pc'[s] = "idle"
         /\ \A t \in Slots : t # s => pc'[t] = pc[t] /\ doc'[t] = doc[t]
         /\ \A d \in Docs : d # doc[s] => tasks'[d] = tasks[d]
         /\ tasks[doc[s]].owner # s => tasks'[doc[s]] = tasks[doc[s]]
         /\ tasks[doc[s]].owner = s =>
              /\ tasks'[doc[s]].owner = NoSlot
              /\ tasks'[doc[s]].state = "failed" => Spent(tasks'[doc[s]])
<1>1. /\ doc[s] \in Docs /\ pc \in [Slots -> SlotLabels] /\ doc \in [Slots -> Docs \union {NoDoc}]
      /\ tasks \in [Docs -> GoodTasks] /\ tasks[doc[s]] \in Tasks
  BY DEF Ack, Raise, TypeOK, GoodTasks
<1>2. /\ pc' = [pc EXCEPT ![s] = "idle"] /\ doc' = [doc EXCEPT ![s] = NoDoc]
  BY DEF Ack, Raise, Settle
<1>3. /\ \A d \in Docs : d # doc[s] => tasks'[d] = tasks[d]
      /\ tasks[doc[s]].owner # s => tasks'[doc[s]] = tasks[doc[s]]
  BY <1>1 DEF Ack, Raise, Settle
<1>4. ASSUME tasks[doc[s]].owner = s
      PROVE  /\ tasks'[doc[s]].owner = NoSlot
             /\ tasks'[doc[s]].state = "failed" => Spent(tasks'[doc[s]])
  <2> DEFINE t == tasks[doc[s]]
             n == t.attempts + 1
             st == IF n < MaxAttempts THEN "waiting" ELSE "failed"
  <2>1. t \in Tasks /\ t.attempts \in Nat /\ n \in 0..MaxAttempts
    <3>1. t \in GoodTasks /\ t.state = "active"
      BY <1>1, <1>4, TaskBounds, SlotsAssumption
    <3> QED BY <1>1, <3>1, TaskBounds
  <2>2. st = "failed" => n = MaxAttempts
    BY <2>1, BoundsAssumption
  <2> HIDE DEF n, st
  <2>3. CASE Ack(s)
    BY <1>1, <1>4, <2>1, <2>3 DEF Ack, Settle, Tasks
  <2>4. CASE Raise(s)
    <3>1. tasks' = [tasks EXCEPT ![doc[s]] = [@ EXCEPT !.state = st, !.owner = NoSlot, !.attempts = n]]
      BY <1>4, <2>4 DEF Raise, Settle, st, n
    <3>2. /\ tasks'[doc[s]].state = st /\ tasks'[doc[s]].owner = NoSlot
          /\ tasks'[doc[s]].attempts = n
      BY <1>1, <2>1, <3>1 DEF Tasks
    <3> QED BY <2>2, <3>2 DEF Spent
  <2> QED BY <2>3, <2>4
<1> QED BY <1>1, <1>2, <1>3, <1>4

(* Any other step of a slot leaves the tasks and its document alone.       *)
LEMMA SlotKeepsTasks ==
  ASSUME TypeOK, NEW s \in Slots, SlotStep(s), ~Ack(s), ~Raise(s)
  PROVE  UNCHANGED <<tasks, doc>> /\ pc[s] # "idle" /\ pc'[s] # "idle"
         /\ \A t \in Slots : t # s => pc'[t] = pc[t]
<1>0. pc \in [Slots -> SlotLabels]
  BY DEF TypeOK
<1>1. CASE ReadRow(s)
  BY <1>0, <1>1 DEF ReadRow, AfterRow
<1>2. CASE MarkProcessing(s) \/ GetSnapshot(s) \/ Render(s)
  BY <1>0, <1>2 DEF MarkProcessing, GetSnapshot, Render, Caught
<1>3. CASE PutArtifact(s) \/ AppendRendered(s) \/ IncrementCompleted(s)
  BY <1>0, <1>3 DEF PutArtifact, AppendRendered, IncrementCompleted, Caught
<1>4. CASE AppendError(s) \/ IncrementFailed(s) \/ Release(s)
  BY <1>0, <1>4 DEF AppendError, IncrementFailed, Release
<1>5. CASE ClaimRead(s) \/ ClaimMarker(s)
  BY <1>0, <1>5 DEF ClaimRead, ClaimMarker
<1>6. CASE FlushRead(s) \/ FlushRow(s) \/ FlushDel(s)
  BY <1>0, <1>6 DEF FlushRead, FlushRow, FlushDel
<1> QED BY <1>1, <1>2, <1>3, <1>4, <1>5, <1>6 DEF SlotStep

(* A lock is held by the slot that works, in every step.                   *)
LEMMA OwnersStep == ASSUME TypeOK, OwnersWork, [Next]_vars PROVE OwnersWork'
<1>0. /\ tasks \in [Docs -> GoodTasks] /\ \A d \in Docs : tasks[d] \in Tasks
      /\ pc \in [Slots -> SlotLabels] /\ doc \in [Slots -> Docs \union {NoDoc}]
      /\ NoSlot \notin Slots
  BY SlotsAssumption DEF TypeOK, GoodTasks
<1> SUFFICES ASSUME NEW d \in Docs, tasks'[d].owner # NoSlot
             PROVE  /\ tasks'[d].owner \in Slots /\ pc'[tasks'[d].owner] # "idle"
                    /\ doc'[tasks'[d].owner] = d
  BY DEF OwnersWork
<1> DEFINE o == tasks[d].owner
<1>1. o # NoSlot => o \in Slots /\ pc[o] # "idle" /\ doc[o] = d
  BY DEF OwnersWork
<1>2. ASSUME NEW s \in Slots, Ack(s) \/ Raise(s)
      PROVE  tasks'[d].owner = o /\ (o \in Slots => pc'[o] = pc[o] /\ doc'[o] = doc[o])
  <2>1. CASE o = s
    BY <1>0, <1>1, <1>2, <2>1, SettleTasks
  <2>2. CASE o # s
    BY <1>0, <1>2, <2>2, SettleTasks
  <2> QED BY <2>1, <2>2
<1>3. ASSUME NEW s \in Slots, SlotStep(s), ~Ack(s), ~Raise(s)
      PROVE  tasks'[d].owner = o /\ (pc[o] # "idle" /\ o \in Slots => pc'[o] # "idle") /\ doc' = doc
  BY <1>3, SlotKeepsTasks
<1>4. CASE ApiStep
  <2>1. UNCHANGED slotVars /\ (tasks'[d] = tasks[d] \/ tasks'[d] = NewTask)
    BY <1>4 DEF ApiStep, InsertJob, PutSnapshot, InitProgress, EnqueueDocuments, Add, Promote, Reject
  <2>2. NewTask.owner = NoSlot
    BY DEF NewTask, AbsentTask
  <2> QED BY <1>1, <2>1, <2>2
<1>5. CASE Deliver
  <2>1. PICK s \in Slots, e \in Docs : Take(s, e)
    BY <1>5 DEF Deliver
  <2>2. pc[s] = "idle" /\ pc' = [pc EXCEPT ![s] = "readRow"] /\ doc' = [doc EXCEPT ![s] = e]
    BY <2>1 DEF Take
  <2>3. CASE d = e
    <3>1. tasks'[d].owner = s
      BY <1>0, <2>1, <2>3 DEF Take, Tasks
    <3> QED BY <1>0, <2>2, <2>3, <3>1
  <2>4. CASE d # e
    <3>1. tasks'[d] = tasks[d]
      BY <1>0, <2>1, <2>4 DEF Take
    <3> QED BY <1>0, <1>1, <2>2, <3>1
  <2> QED BY <2>3, <2>4
<1>6. ASSUME NEW e \in Docs, LoseLock(e) \/ StalledCheck(e)
      PROVE  UNCHANGED slotVars /\ tasks'[d].owner \in {o, NoSlot}
  <2>1. UNCHANGED slotVars
    BY <1>6 DEF LoseLock, StalledCheck
  <2>2. CASE LoseLock(e)
    BY <1>0, <2>2 DEF LoseLock, Tasks
  <2>3. CASE StalledCheck(e)
    <3>1. PICK n, st : tasks' = [tasks EXCEPT ![e] = [@ EXCEPT !.stalls = n, !.state = st]]
      BY <2>3 DEF StalledCheck
    <3> QED BY <1>0, <2>1, <3>1 DEF Tasks
  <2> QED BY <1>6, <2>1, <2>2, <2>3
<1>7. ASSUME NEW p \in Procs, WorkerCrash(p)
      PROVE  tasks'[d].owner = o /\ o \in Slots /\ pc'[o] = pc[o] /\ doc'[o] = doc[o]
  <2>1. tasks'[d] = IF o \in {s \in Slots : Host[s] = p}
                    THEN [tasks[d] EXCEPT !.owner = NoSlot] ELSE tasks[d]
    BY <1>7 DEF WorkerCrash
  <2>2. [tasks[d] EXCEPT !.owner = NoSlot].owner = NoSlot
    BY <1>0 DEF Tasks
  <2>3. tasks'[d].owner = o /\ o \in Slots /\ Host[o] # p
    BY <1>1, <2>1, <2>2
  <2> QED BY <1>7, <2>3 DEF WorkerCrash
<1>8. CASE ApiCrash \/ UNCHANGED vars
  BY <1>1, <1>8 DEF ApiCrash
<1> HIDE DEF o
<1> QED BY <1>1, <1>2, <1>3, <1>4, <1>5, <1>6, <1>7, <1>8 DEF Next, SlotStep, o

(* A task is given up only when it is spent.                               *)
LEMMA SpentStep == ASSUME TypeOK, FailedIsSpent, [Next]_vars PROVE FailedIsSpent'
<1>0. tasks \in [Docs -> GoodTasks] /\ \A d \in Docs : tasks[d] \in Tasks
  BY DEF TypeOK, GoodTasks
<1> SUFFICES ASSUME NEW d \in Docs, tasks'[d].state = "failed"
             PROVE  Spent(tasks'[d])
  BY DEF FailedIsSpent
<1>1. /\ tasks[d].state = "failed" => Spent(tasks[d])
      /\ tasks'[d] = tasks[d] => Spent(tasks'[d])
  BY DEF FailedIsSpent
<1>2. ASSUME NEW s \in Slots, Ack(s) \/ Raise(s) PROVE Spent(tasks'[d])
  <2>1. CASE d = doc[s] /\ tasks[d].owner = s
    BY <1>2, <2>1, SettleTasks
  <2>2. CASE ~(d = doc[s] /\ tasks[d].owner = s)
    <3>1. tasks'[d] = tasks[d]
      BY <1>2, <2>2, SettleTasks
    <3> QED BY <1>1, <3>1
  <2> QED BY <2>1, <2>2
<1>3. ASSUME NEW s \in Slots, SlotStep(s), ~Ack(s), ~Raise(s) PROVE Spent(tasks'[d])
  BY <1>1, <1>3, SlotKeepsTasks
<1>4. CASE ApiStep
  <2>1. tasks'[d] = tasks[d] \/ tasks'[d] = NewTask
    BY <1>4 DEF ApiStep, InsertJob, PutSnapshot, InitProgress, EnqueueDocuments, Add, Promote, Reject
  <2>2. NewTask.state = "waiting"
    BY DEF NewTask, AbsentTask
  <2> QED BY <1>1, <2>1, <2>2
<1>5. CASE Deliver
  <2>1. PICK s \in Slots, e \in Docs : Take(s, e)
    BY <1>5 DEF Deliver
  <2>2. tasks'[d] = tasks[d] \/ tasks'[d].state = "active"
    BY <1>0, <2>1 DEF Take, Tasks
  <2> QED BY <1>1, <2>2
<1>6. ASSUME NEW e \in Docs, LoseLock(e) PROVE Spent(tasks'[d])
  <2>1. /\ tasks'[d].state = tasks[d].state /\ tasks'[d].attempts = tasks[d].attempts
        /\ tasks'[d].stalls = tasks[d].stalls
    BY <1>0, <1>6 DEF LoseLock, Tasks
  <2> QED BY <1>1, <2>1 DEF Spent
<1>7. ASSUME NEW e \in Docs, StalledCheck(e) PROVE Spent(tasks'[d])
  <2>1. CASE d # e
    BY <1>0, <1>1, <1>7, <2>1 DEF StalledCheck
  <2>2. CASE d = e
    <3> DEFINE n == tasks[d].stalls + 1
               st == IF n <= MaxStalls THEN "waiting" ELSE "failed"
    <3>1. /\ tasks' = [tasks EXCEPT ![d] = [@ EXCEPT !.stalls = n, !.state = st]]
          /\ tasks[d].state = "active"
      BY <1>7, <2>2 DEF StalledCheck
    <3>2. n \in 0..(MaxStalls + 1)
      BY <1>0, <3>1, TaskBounds
    <3>3. st = "failed" => n = MaxStalls + 1
      BY <3>2, BoundsAssumption
    <3> HIDE DEF n, st
    <3>4. tasks'[d].stalls = n /\ tasks'[d].state = st
      BY <1>0, <3>1 DEF Tasks
    <3> QED BY <3>3, <3>4 DEF Spent
  <2> QED BY <2>1, <2>2
<1>8. ASSUME NEW p \in Procs, WorkerCrash(p) PROVE Spent(tasks'[d])
  <2>1. tasks'[d] \in {tasks[d], [tasks[d] EXCEPT !.owner = NoSlot]}
    BY <1>8 DEF WorkerCrash
  <2>2. /\ tasks'[d].state = tasks[d].state /\ tasks'[d].attempts = tasks[d].attempts
        /\ tasks'[d].stalls = tasks[d].stalls
    BY <1>0, <2>1 DEF Tasks
  <2> QED BY <1>1, <2>2 DEF Spent
<1>9. CASE ApiCrash \/ UNCHANGED vars
  BY <1>1, <1>9 DEF ApiCrash
<1> QED BY <1>2, <1>3, <1>4, <1>5, <1>6, <1>7, <1>8, <1>9 DEF Next, SlotStep

(* While a promoted job is not over, each of its documents has a row, or    *)
(* its task waits, or its owner works on it, or the stalled check will find *)
(* it; a task is given up only when its attempts or its stalls are spent    *)
(* (worker.js:69-75, phase-2.md:31-36).                                    *)
THEOREM NoDocumentForgotten == Spec => []AlwaysInHands
<1>1. Init => OwnersWork /\ FailedIsSpent
  BY DEF Init, OwnersWork, FailedIsSpent, AbsentTask
<1>2. IInv /\ OwnersWork /\ FailedIsSpent /\ [Next]_vars => OwnersWork' /\ FailedIsSpent'
  BY OwnersStep, SpentStep DEF IInv
<1>3. IInv /\ OwnersWork /\ FailedIsSpent => AlwaysInHands
  <2> SUFFICES ASSUME IInv, OwnersWork, FailedIsSpent, row.status \in {"queued", "processing"},
                      NEW d \in Docs, ledger[d] = <<>>
               PROVE  InHands(d) \/ (tasks[d].state = "failed" /\ Spent(tasks[d]))
    BY DEF AlwaysInHands
  <2>1. tasks[d].state # "absent"
    BY DEF IInv, ReadyWhenPromoted
  <2>2. tasks[d].state # "completed"
    BY DEF IInv, AckedTaskIsAccounted, Terminal, Finals
  <2>3. tasks[d].state \in TaskStates
    BY DEF IInv, TypeOK, GoodTasks, Tasks
  <2> QED BY <2>1, <2>2, <2>3 DEF TaskStates, InHands, OwnersWork, FailedIsSpent
<1> QED BY <1>1, <1>2, <1>3, Invariance, PTL DEF Spec

=============================================================================

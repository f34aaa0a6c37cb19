--------------------------- MODULE ArchiveProofs ---------------------------
(***************************************************************************)
(* Machine-checked proofs about Archive, for any number of requests and    *)
(* processes, any lifetimes and any failures: the handler implements       *)
(* BuildOnce.                                                              *)
(***************************************************************************)
EXTENDS Archive, TLAPS

USE DEF vars, Fault, NoFault, Goto, Critical, Waiting, Ended

(* The control state, the lock and the zip are well typed initially. *)
LEMMA TypeInit == Init => TypeOK
<1> SUFFICES ASSUME Init PROVE TypeOK
  OBVIOUS
<1>1. lock \in 0..TTL /\ faults \in 0..MaxFaults /\ waited \in [Requests -> 0..WaitMax]
  BY TimeAssumption, FaultAssumption DEF Init
<1>2. zip \in {"no", "yes"} /\ pc \in [Requests -> Labels] /\ late \in BOOLEAN
  BY DEF Init, Labels
<1> QED
  BY <1>1, <1>2 DEF TypeOK

(* Every step keeps the types. *)
LEMMA TypeStep == TypeOK /\ [Next]_vars => TypeOK'
<1> SUFFICES ASSUME TypeOK, [Next]_vars PROVE TypeOK'
  OBVIOUS
<1> USE TimeAssumption, FaultAssumption DEF TypeOK, Labels
<1>1. ASSUME NEW r \in Requests, Arrive(r) PROVE TypeOK'
  BY <1>1 DEF Arrive
<1>2. ASSUME NEW r \in Requests, Head(r) \/ Recheck(r) \/ Poll(r) PROVE TypeOK'
  BY <1>2 DEF Head, Recheck, Poll, Exists
<1>3. ASSUME NEW r \in Requests, TryLock(r) PROVE TypeOK'
  BY <1>3 DEF TryLock, SetLock, Wait
<1>4. ASSUME NEW r \in Requests, Build(r) PROVE TypeOK'
  BY <1>4 DEF Build, Die
<1>5. ASSUME NEW r \in Requests, Unlock(r) PROVE TypeOK'
  BY <1>5 DEF Unlock
<1>6. ASSUME NEW r \in Requests, UnlockAgain(r) PROVE TypeOK'
  BY <1>6 DEF UnlockAgain, Relied
<1>7. ASSUME NEW r \in Requests, PollLock(r) PROVE TypeOK'
  BY <1>7 DEF PollLock
<1>8. ASSUME NEW p \in Procs, Crash(p) PROVE TypeOK'
  BY <1>8 DEF Crash, Die
<1>9. CASE Tick
  BY <1>9 DEF Tick, Relied
<1>10. CASE UNCHANGED vars
  BY <1>10
<1> QED
  BY <1>1, <1>2, <1>3, <1>4, <1>5, <1>6, <1>7, <1>8, <1>9, <1>10 DEF Next, Step

(* Every variable keeps its type: the lock never outlives TTL, no request   *)
(* waits longer than WaitMax.                                               *)
THEOREM TypeCorrect == Spec => []TypeOK
BY TypeInit, TypeStep, PTL DEF Spec

-----------------------------------------------------------------------------
(* What the lock protects until a request loses it, and what nobody needs  *)
(* a lock for: who answers has seen the zip, or stored it.                 *)
LockInv ==
  /\ ~late => /\ \A r, q \in Requests : pc[r] \in Critical /\ pc[q] \in Critical => r = q
              /\ \A r \in Requests : pc[r] \in Critical => lock > 0
  /\ \A r \in Requests : pc[r] \in {"unlock", "unlockAgain", "served"} => zip = "yes"

(* Until a request loses the lock, it is held by the one request in the     *)
(* critical section.                                                        *)
LEMMA LockStep ==
  ASSUME TypeOK, LockInv, [Next]_vars PROVE LockInv'
<1> USE TimeAssumption DEF TypeOK, Labels, LockInv
<1>1. ASSUME NEW r \in Requests, Arrive(r) PROVE LockInv'
  BY <1>1 DEF Arrive
<1>2. ASSUME NEW r \in Requests, Head(r) \/ Recheck(r) \/ Poll(r) PROVE LockInv'
  BY <1>2 DEF Head, Recheck, Poll, Exists
<1>3. ASSUME NEW r \in Requests, TryLock(r) PROVE LockInv'
  BY <1>3 DEF TryLock, SetLock, Wait
<1>4. ASSUME NEW r \in Requests, Build(r) PROVE LockInv'
  BY <1>4 DEF Build, Die
<1>5. ASSUME NEW r \in Requests, Unlock(r) PROVE LockInv'
  BY <1>5 DEF Unlock
<1>6. ASSUME NEW r \in Requests, UnlockAgain(r) PROVE LockInv'
  BY <1>6 DEF UnlockAgain, Relied
<1>7. ASSUME NEW r \in Requests, PollLock(r) PROVE LockInv'
  BY <1>7 DEF PollLock
<1>8. ASSUME NEW p \in Procs, Crash(p) PROVE LockInv'
  BY <1>8 DEF Crash, Die
<1>9. CASE Tick
  <2>1. pc' = pc /\ zip' = zip /\ lock' = lock - 1 /\ lock \in Nat /\ lock > 0
    BY <1>9 DEF Tick
  <2>2. ~late' => ~late /\ (lock' > 0 \/ \A r \in Requests : pc[r] \notin Critical)
    <3>1. late' = (late \/ (lock = 1 /\ Relied))
      BY <1>9 DEF Tick
    <3>2. lock # 1 => lock' > 0
      BY <2>1
    <3> QED
      BY <3>1, <3>2 DEF Relied
  <2> QED
    BY <2>1, <2>2
<1>10. CASE UNCHANGED vars
  BY <1>10
<1> QED
  BY <1>1, <1>2, <1>3, <1>4, <1>5, <1>6, <1>7, <1>8, <1>9, <1>10 DEF Next, Step

(* A builder that is alone while no lock was lost is the only one. *)
LEMMA OneBuilder ==
  ASSUME LockInv, ~late, NEW r \in Requests, pc[r] = "recheck" PROVE Builders = {}
BY DEF LockInv, Builders

(* Every step of the handler is a step of BuildOnce, or none. *)
LEMMA StepRefines ==
  ASSUME TypeOK, LockInv, [Next]_vars
  PROVE  [Promise!Next]_(Promise!vars)
<1> USE DEF Labels
<1>1. pc \in [Requests -> Labels] /\ zip \in {"no", "yes"} /\ late \in BOOLEAN
  BY DEF TypeOK
\* Nothing the abstract specification sees changes, or one request is served.
<1>2. ASSUME UNCHANGED <<zip, late>>,
             \A q \in Requests : /\ pc'[q] = "build" <=> pc[q] = "build"
                                 /\ pc'[q] = "served" <=> pc[q] = "served"
      PROVE  UNCHANGED Promise!vars
  BY <1>2 DEF Promise!vars, Builders, Served
<1>3. ASSUME NEW r \in Requests, pc' = [pc EXCEPT ![r] = "served"], pc[r] \notin {"build", "served"},
             zip = "yes", zip' = zip, late' \in {late, TRUE}
      PROVE  Promise!Serve(r)
  <2>1. Builders' = Builders /\ r \notin Served /\ Served' = Served \union {r}
    BY <1>1, <1>3 DEF Served, Builders
  <2> QED
    BY <1>3, <2>1 DEF Promise!Serve
\* Builders stop without the zip.
<1>4. ASSUME NEW S \in SUBSET Requests, S \subseteq Builders, UNCHANGED <<zip, late>>,
             Builders' = Builders \ S, Served' = Served
      PROVE  Promise!Abort(S) \/ UNCHANGED Promise!vars
  BY <1>4 DEF Promise!Abort, Promise!vars
<1>5. ASSUME NEW p \in Procs, Die(p), UNCHANGED <<zip, late>>
      PROVE  \/ \E S \in SUBSET Requests : Promise!Abort(S)
             \/ UNCHANGED Promise!vars
  <2> DEFINE S == {r \in Builders : Host[r] = p}
  <2>1. Builders' = Builders \ S /\ Served' = Served
    BY <1>1, <1>5 DEF Die, Builders, Served
  <2>2. S \in SUBSET Requests /\ S \subseteq Builders
    BY DEF Builders
  <2> QED
    BY <1>4, <1>5, <2>1, <2>2
<1>11. ASSUME NEW r \in Requests, Arrive(r) PROVE UNCHANGED Promise!vars
  BY <1>1, <1>2, <1>11 DEF Arrive
<1>12. ASSUME NEW r \in Requests, Head(r) \/ Poll(r)
       PROVE  Promise!Serve(r) \/ UNCHANGED Promise!vars
  <2>1. CASE pc' = [pc EXCEPT ![r] = "served"]
    BY <1>1, <1>3, <1>12, <2>1 DEF Head, Poll, Exists
  <2>2. CASE pc' # [pc EXCEPT ![r] = "served"]
    BY <1>1, <1>2, <1>12, <2>2 DEF Head, Poll, Exists
  <2> QED
    BY <2>1, <2>2
<1>13. ASSUME NEW r \in Requests, TryLock(r) PROVE UNCHANGED Promise!vars
  BY <1>1, <1>2, <1>13 DEF TryLock, SetLock, Wait
<1>14. ASSUME NEW r \in Requests, Recheck(r) PROVE Promise!Begin(r) \/ UNCHANGED Promise!vars
  <2>1. CASE pc' = [pc EXCEPT ![r] = "build"]
    <3>1. /\ pc[r] = "recheck" /\ UNCHANGED <<zip, late>>
      BY <1>14 DEF Recheck, Exists
    <3>2. zip = "no"
      BY <1>1, <1>14, <2>1 DEF Recheck, Exists
    <3>3. /\ r \notin Builders /\ Builders' = Builders \union {r} /\ Served' = Served
      BY <1>1, <2>1, <3>1 DEF Builders, Served
    <3>4. Builders = {} \/ late
      BY <3>1, OneBuilder
    <3> QED
      BY <3>1, <3>2, <3>3, <3>4 DEF Promise!Begin
  <2>2. CASE pc' # [pc EXCEPT ![r] = "build"]
    BY <1>1, <1>2, <1>14, <2>2 DEF Recheck, Exists
  <2> QED
    BY <2>1, <2>2
<1>15. ASSUME NEW r \in Requests, Build(r)
       PROVE  \/ Promise!Finish(r) \/ \E S \in SUBSET Requests : Promise!Abort(S)
              \/ UNCHANGED Promise!vars
  <2>1. pc[r] = "build" /\ r \in Builders /\ UNCHANGED late
    BY <1>15 DEF Build, Builders
  <2>2. CASE Die(Host[r]) /\ zip' = zip
    BY <1>5, <2>1, <2>2, RequestAssumption
  <2>3. CASE \E to \in {"unlock", "unlockFailed"} : pc' = [pc EXCEPT ![r] = to]
    <3>1. Builders' = Builders \ {r} /\ Served' = Served
      BY <1>1, <2>1, <2>3 DEF Builders, Served
    <3>2. CASE zip' = "yes"
      BY <2>1, <3>1, <3>2 DEF Promise!Finish
    <3>3. CASE zip' = zip
      <4>1. {r} \in SUBSET Requests /\ {r} \subseteq Builders
        BY <2>1
      <4> QED
        BY <1>4, <2>1, <3>1, <3>3, <4>1
    <3> QED
      BY <1>15, <2>3, <3>2, <3>3 DEF Build
  <2> QED
    BY <1>15, <2>2, <2>3 DEF Build
<1>16. ASSUME NEW r \in Requests, Unlock(r) \/ UnlockAgain(r)
       PROVE  Promise!Serve(r) \/ Promise!LoseLock \/ UNCHANGED Promise!vars
  <2>1. CASE pc' = [pc EXCEPT ![r] = "served"]
    BY <1>1, <1>3, <1>16, <2>1 DEF Unlock, UnlockAgain, LockInv, Relied
  <2>2. CASE pc' # [pc EXCEPT ![r] = "served"]
    <3>1. /\ zip' = zip
          /\ \A q \in Requests : /\ pc'[q] = "build" <=> pc[q] = "build"
                                 /\ pc'[q] = "served" <=> pc[q] = "served"
      BY <1>1, <1>16, <2>2 DEF Unlock, UnlockAgain
    <3>2. Builders' = Builders /\ Served' = Served
      BY <3>1 DEF Builders, Served
    <3>3. late' \in {late, TRUE}
      BY <1>1, <1>16 DEF Unlock, UnlockAgain, Relied
    <3> QED
      BY <3>1, <3>2, <3>3 DEF Promise!LoseLock, Promise!vars
  <2> QED
    BY <2>1, <2>2
<1>17. ASSUME NEW r \in Requests, PollLock(r) PROVE UNCHANGED Promise!vars
  BY <1>1, <1>2, <1>17 DEF PollLock
<1>18. ASSUME NEW p \in Procs, Crash(p)
       PROVE  (\E S \in SUBSET Requests : Promise!Abort(S)) \/ UNCHANGED Promise!vars
  BY <1>5, <1>18 DEF Crash
<1>19. CASE Tick
  <2>1. pc' = pc /\ zip' = zip /\ late' \in {late, TRUE}
    BY <1>1, <1>19 DEF Tick, Relied
  <2>2. Builders' = Builders /\ Served' = Served
    BY <2>1 DEF Builders, Served
  <2>3. Promise!LoseLock \/ UNCHANGED Promise!vars
    BY <2>1, <2>2 DEF Promise!LoseLock, Promise!vars
  <2> QED
    BY <2>3 DEF Promise!Next
<1>20. CASE UNCHANGED vars
  BY <1>2, <1>20
<1> QED
  BY <1>11, <1>12, <1>13, <1>14, <1>15, <1>16, <1>17, <1>18, <1>19, <1>20
     DEF Next, Step, Promise!Next

(* ensureArchive keeps the promise of BuildOnce, however long a build takes *)
(* and whatever fails: no build of a zip that is stored, no redirect to one *)
(* that is not, and one builder at a time until a request has lost the lock *)
(* while it relied on it.                                                   *)
THEOREM ArchiveBuildsOnce == Spec => BuiltOnce
<1>1. Init => TypeOK /\ LockInv
  BY TypeInit DEF Init, LockInv
<1>2. TypeOK /\ LockInv /\ [Next]_vars => TypeOK' /\ LockInv'
  BY TypeStep, LockStep
<1>3. Init => Promise!Init
  BY DEF Init, Promise!Init, Builders, Served
<1>4. TypeOK /\ LockInv /\ [Next]_vars => [Promise!Next]_(Promise!vars)
  BY StepRefines
<1> QED
  BY <1>1, <1>2, <1>3, <1>4, PTL DEF Spec, BuiltOnce, Promise!Spec

=============================================================================

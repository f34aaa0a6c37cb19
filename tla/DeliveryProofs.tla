--------------------------- MODULE DeliveryProofs ---------------------------
(***************************************************************************)
(* Machine-checked proofs about Delivery, for any documents, slots and     *)
(* failures: with its bytes and its client it is still the job protocol of *)
(* RenderJob, and a verified file shows what was submitted.                *)
(***************************************************************************)
EXTENDS Delivery, RenderJobProofs

USE DEF vars, apiVars, pgVars, rdVars, slotVars, faultVars, Happens, Fault, NoFault, ReplyLost,
        Goto, ApiGoto, SetRow

(* A step of Delivery is a step of the job protocol, or none. *)
LEMMA DeliveryStep == [DeliveryNext]_deliveryVars => [Next]_vars
<1> SUFFICES ASSUME [DeliveryNext]_deliveryVars PROVE Next \/ UNCHANGED vars
  OBVIOUS
<1>1. ASSUME NEW s \in Slots, BytesStep(s) PROVE Next
  <2>1. SlotStep(s)
    BY <1>1 DEF BytesStep, RenderBytes, PutBytes, AppendBytes, AppendErrorBytes,
                PlainStep, End, SlotStep
  <2> QED BY <2>1 DEF Next
<1>2. ASSUME NEW p \in Procs, CrashBytes(p) PROVE Next
  BY <1>2 DEF CrashBytes, Next
<1>3. CASE ServiceStep
  BY <1>1, <1>2, <1>3 DEF ServiceStep, Next
<1>4. CASE ClientStep /\ UNCHANGED <<vars, bytesVars>>
  BY <1>4
<1>5. CASE UNCHANGED deliveryVars
  BY <1>5 DEF deliveryVars
<1> QED BY <1>3, <1>4, <1>5 DEF DeliveryNext

(* The bytes and the client change nothing of the job protocol: what is     *)
(* proved about RenderJob holds here.                                       *)
THEOREM DeliveryIsRenderJob == DeliverySpec => Spec
BY DeliveryStep, PTL DEF DeliverySpec, DeliveryInit, Spec

-----------------------------------------------------------------------------
(* What the client read and posted, whatever happens to the ERP later.     *)
Frozen(d) == IF d = Target THEN "baseline" ELSE "seeded"

ErpInv ==
  /\ erp \in [Docs -> Versions] /\ submitted \in [Docs -> Versions]
  /\ \A d \in Docs : d # Target => erp[d] = "seeded"
  /\ client = "list" => erp[Target] = "baseline"
  /\ Posted => \A d \in Docs : submitted[d] = Frozen(d)

(* Nothing is rendered before the job is posted. *)
PostInv ==
  ~Posted => /\ \A d \in Docs : tasks[d].state = "absent"
             /\ \A s \in Slots : pc[s] = "idle"

(* The PDFs in hand and the hashes of the ledger are of the posted data. *)
BytesInv ==
  /\ prints \in [Docs -> Nat] /\ printed \in [Slots -> Bytes \union {NoBytes}]
  /\ \A s \in Slots : pc[s] \in {"put", "append"} => printed[s].version = Frozen(doc[s])
  /\ hashes \in [Docs -> Seq(Bytes \union {NoBytes})]
  /\ \A d \in Docs : Len(hashes[d]) = Len(ledger[d])
  /\ \A d \in Docs : \A i \in 1..Len(ledger[d]) :
       ledger[d][i] = "rendered" => hashes[d][i].version = Frozen(d)

(* So are the manifest and the files the client has verified against it. *)
FilesInv ==
  /\ \A d \in Docs : manifest[d].status = "rendered" => manifest[d].hash.version = Frozen(d)
  /\ files \in [Docs -> Results]
  /\ client \notin {"download", "done"} => \A d \in Docs : files[d] = "none"
  /\ \A d \in Docs : files[d] = "verified" => manifest[d].status = "rendered"

FrozenInv == ErpInv /\ PostInv /\ BytesInv /\ FilesInv

LEMMA FrozenInit == DeliveryInit => FrozenInv
<1> SUFFICES ASSUME DeliveryInit PROVE FrozenInv
  OBVIOUS
<1>1. ErpInv
  BY TargetAssumption DEF DeliveryInit, ErpInv, Versions, Posted
<1>2. PostInv
  BY DEF DeliveryInit, Init, PostInv, AbsentTask
<1>3. BytesInv
  BY DEF DeliveryInit, Init, BytesInv
<1>4. FilesInv
  BY DEF DeliveryInit, FilesInv, Blank, Results
<1> QED BY <1>1, <1>2, <1>3, <1>4 DEF FrozenInv

(* The client: only its reset and its reading come before the POST. *)
LEMMA FrozenClient ==
  ASSUME TypeOK, FrozenInv, ClientStep, UNCHANGED <<vars, bytesVars>>
  PROVE  FrozenInv'
<1> USE DEF ClientGoto, erpVars, Posted
<1>1. ErpInv'
  <2> USE DEF FrozenInv, ErpInv
  <2>1. CASE ResetBaseline
    BY <2>1, TargetAssumption DEF ResetBaseline, Put, Versions
  <2>2. CASE FetchAndSubmit
    BY <2>2, TargetAssumption DEF FetchAndSubmit, Frozen
  <2>3. CASE Mutate
    BY <2>3, TargetAssumption DEF Mutate, Put, Versions
  <2>4. CASE Replied
    BY <2>4 DEF Replied
  <2>5. CASE Polled \/ FetchManifest \/ Summarise
    BY <2>5 DEF Polled, FetchManifest, Summarise
  <2>6. ASSUME NEW d \in Docs, Download(d) PROVE ErpInv'
    BY <2>6 DEF Download
  <2> QED BY <2>1, <2>2, <2>3, <2>4, <2>5, <2>6 DEF ClientStep
<1>2. PostInv'
  <2>1. Posted => Posted'
    <3>1. client' \notin {"reset", "list"} \/ client \in {"reset", "list"}
      BY DEF ClientStep, ResetBaseline, FetchAndSubmit, Replied,
             Mutate, Polled, FetchManifest, Download, Summarise
    <3> QED BY <3>1
  <2> QED BY <2>1 DEF FrozenInv, PostInv
<1>3. BytesInv'
  BY DEF FrozenInv, BytesInv, bytesVars
<1>4. FilesInv'
  <2>1. CASE FetchManifest
    <3>1. \A d \in Docs : Entry(d).status = "rendered" => Entry(d).hash.version = Frozen(d)
      BY DEF FrozenInv, BytesInv, Entry, Blank, Latest, TypeOK
    <3>2. manifest' = [d \in Docs |-> Entry(d)] /\ files' = files /\ client = "manifest"
      BY <2>1 DEF FetchManifest
    <3>3. \A d \in Docs : files'[d] = "none"
      BY <3>2 DEF FrozenInv, FilesInv
    <3> QED BY <3>1, <3>2, <3>3 DEF FrozenInv, FilesInv
  <2>2. ASSUME NEW d \in Docs, Download(d) PROVE FilesInv'
    BY <2>2 DEF FrozenInv, FilesInv, Download, Results
  <2>3. CASE ResetBaseline \/ FetchAndSubmit \/ Replied \/ Mutate \/ Polled
    BY <2>3 DEF FrozenInv, FilesInv, ResetBaseline, FetchAndSubmit, Replied, Mutate, Polled
  <2>4. CASE Summarise
    BY <2>4 DEF FrozenInv, FilesInv, Summarise
  <2> QED BY <2>1, <2>2, <2>3, <2>4 DEF ClientStep
<1> QED BY <1>1, <1>2, <1>3, <1>4 DEF FrozenInv

(* A slot that renders takes the posted data, and seals what it has in hand. *)
LEMMA FrozenBytes ==
  ASSUME TypeOK, TypeOK', FrozenInv, NEW s \in Slots, BytesStep(s), SlotStep(s),
         UNCHANGED <<erpVars, clientVars>>
  PROVE  BytesInv'
<1> USE DEF bytesVars
<1>1. pc[s] # "idle" /\ Posted /\ \A d \in Docs : submitted[d] = Frozen(d)
  <2>1. pc[s] # "idle"
    BY SlotPath DEF PathShape
  <2> QED BY <2>1 DEF FrozenInv, PostInv, ErpInv
<1>2. doc[s] \in Docs
  BY <1>1 DEF TypeOK
<1>3. \A t \in Slots : t # s => pc'[t] = pc[t] /\ doc'[t] = doc[t]
  BY SlotPath DEF PathShape
<1>4. pc'[s] # "idle" => doc'[s] = doc[s]
  BY SlotPath DEF PathShape
<1>5. BytesInv
  BY DEF FrozenInv
<1>6. CASE RenderBytes(s)
  <2>1. ledger' = ledger /\ hashes' = hashes
    BY <1>6 DEF RenderBytes, Render
  <2>2. CASE pc'[s] = "put"
    <3> DEFINE b == [version |-> Source(doc[s]), print |-> prints[doc[s]] + 1]
    <3>1. prints' = [prints EXCEPT ![doc[s]] = @ + 1] /\ printed' = [printed EXCEPT ![s] = b]
      BY <1>6, <2>2 DEF RenderBytes
    <3>2. b \in Bytes /\ b.version = Frozen(doc[s])
      BY <1>1, <1>2, <1>5 DEF Source, Bytes, BytesInv, FrozenInv, ErpInv
    <3>3. prints' \in [Docs -> Nat] /\ printed' \in [Slots -> Bytes \union {NoBytes}]
      <4>1. prints[doc[s]] + 1 \in Nat
        BY <1>2, <1>5 DEF BytesInv
      <4> HIDE DEF b
      <4> QED BY <4>1, <3>1, <3>2, <1>5 DEF BytesInv
    <3>4. \A t \in Slots : pc'[t] \in {"put", "append"} => printed'[t].version = Frozen(doc'[t])
      BY <3>1, <3>2, <1>3, <1>4, <1>5, <2>2 DEF BytesInv
    <3> QED BY <2>1, <3>3, <3>4, <1>5 DEF BytesInv
  <2>3. CASE pc'[s] # "put"
    <3>1. prints' = prints /\ printed' = printed /\ pc'[s] # "append"
      BY <1>6, <2>3 DEF RenderBytes, Render, Caught, TypeOK
    <3> QED BY <2>1, <2>3, <3>1, <1>3, <1>5 DEF BytesInv
  <2> QED BY <2>2, <2>3
<1>7. CASE PutBytes(s)
  <2>1. UNCHANGED <<prints, printed, hashes, ledger>> /\ pc[s] = "put" /\ pc'[s] # "idle"
    BY <1>7 DEF PutBytes, PutArtifact, Caught, TypeOK
  <2> QED BY <2>1, <1>3, <1>4, <1>5 DEF BytesInv
<1>8. ASSUME NEW outcome \in Outcomes, NEW hash \in Bytes \union {NoBytes},
             outcome = "rendered" => hash.version = Frozen(doc[s]),
             UNCHANGED <<prints, printed>>, pc'[s] \notin {"put", "append"},
             \/ UNCHANGED <<ledger, hashes>>
             \/ /\ AppendEntry(s, outcome)
                /\ hashes' = [hashes EXCEPT ![doc[s]] = Append(@, hash)]
      PROVE  BytesInv'
  <2> DEFINE d == doc[s]
  <2>1. \A t \in Slots : pc'[t] \in {"put", "append"} => printed'[t].version = Frozen(doc'[t])
    BY <1>8, <1>3, <1>5 DEF BytesInv
  <2>2. CASE UNCHANGED <<ledger, hashes>>
    BY <2>1, <2>2, <1>8, <1>5 DEF BytesInv
  <2>3. CASE /\ AppendEntry(s, outcome)
             /\ hashes' = [hashes EXCEPT ![doc[s]] = Append(@, hash)]
    <3>1. ledger[d] \in Seq(Outcomes) /\ hashes[d] \in Seq(Bytes \union {NoBytes})
          /\ Len(hashes[d]) = Len(ledger[d])
      BY <1>2, <1>5 DEF TypeOK, BytesInv
    <3>2. ledger'[d] = Append(ledger[d], outcome) /\ hashes'[d] = Append(hashes[d], hash)
      BY <2>3, <1>2, <1>5 DEF AppendEntry, TypeOK, BytesInv
    <3>3. \A e \in Docs : e # d => ledger'[e] = ledger[e] /\ hashes'[e] = hashes[e]
      BY <2>3, <1>5 DEF AppendEntry, TypeOK, BytesInv
    <3>4. /\ Len(hashes'[d]) = Len(ledger'[d])
          /\ \A i \in 1..Len(ledger'[d]) :
               ledger'[d][i] = "rendered" => hashes'[d][i].version = Frozen(d)
      BY <3>1, <3>2, <1>2, <1>5, <1>8 DEF BytesInv
    <3>5. hashes' \in [Docs -> Seq(Bytes \union {NoBytes})]
      <4>1. Append(hashes[d], hash) \in Seq(Bytes \union {NoBytes})
        BY <3>1, <1>8
      <4> QED BY <4>1, <2>3, <1>5 DEF BytesInv
    <3> QED BY <2>1, <3>3, <3>4, <3>5, <1>5, <1>8 DEF BytesInv
  <2> QED BY <2>2, <2>3, <1>8
<1>9. CASE AppendBytes(s)
  <2>1. pc[s] = "append" /\ pc'[s] \notin {"put", "append"}
    BY <1>9 DEF AppendBytes, AppendRendered, Caught, TypeOK
  <2>2. printed[s] \in Bytes \union {NoBytes} /\ printed[s].version = Frozen(doc[s])
    BY <2>1, <1>5 DEF BytesInv
  <2>3. ledger' = ledger \/ AppendEntry(s, "rendered")
    BY <1>9 DEF AppendBytes, AppendRendered
  <2> QED BY <1>8, <1>9, <2>1, <2>2, <2>3 DEF AppendBytes, SealedHash, Outcomes
<1>10. CASE AppendErrorBytes(s)
  <2>1. pc'[s] \notin {"put", "append"}
    BY <1>10 DEF AppendErrorBytes, AppendError, TypeOK
  <2>2. ledger' = ledger \/ AppendEntry(s, "error")
    BY <1>10 DEF AppendErrorBytes, AppendError
  <2> QED BY <1>8, <1>10, <2>1, <2>2 DEF AppendErrorBytes, Outcomes
<1>11. CASE PlainStep(s)
  <2>1. ledger' = ledger /\ UNCHANGED bytesVars
    BY <1>11 DEF PlainStep, ReadRow, MarkProcessing, GetSnapshot, IncrementCompleted,
       IncrementFailed, Release, ClaimRead, ClaimMarker, FlushRead, FlushRow, FlushDel
  <2>2. pc'[s] \notin {"put", "append"}
    BY <1>11 DEF PlainStep, ReadRow, AfterRow, MarkProcessing, GetSnapshot, IncrementCompleted,
       IncrementFailed, Release, ClaimRead, ClaimMarker, FlushRead, FlushRow, FlushDel,
       Caught, TypeOK
  <2> QED BY <2>1, <2>2, <1>3, <1>5 DEF BytesInv
<1>12. CASE End(s)
  <2>1. /\ ledger' = ledger /\ hashes' = hashes /\ prints' = prints
        /\ printed' = [printed EXCEPT ![s] = NoBytes] /\ pc'[s] = "idle"
    BY <1>12 DEF End, Ack, Raise, Settle, TypeOK
  <2> QED BY <2>1, <1>3, <1>5 DEF BytesInv
<1> QED BY <1>6, <1>7, <1>9, <1>10, <1>11, <1>12 DEF BytesStep

(* The rest of the service: no bytes, and nothing before the POST. *)
LEMMA FrozenService ==
  ASSUME IInv, TypeOK', FrozenInv, ServiceStep, UNCHANGED <<erpVars, clientVars>>
  PROVE  FrozenInv'
<1>1. ErpInv' /\ FilesInv' /\ client' = client /\ (Posted' <=> Posted)
  BY DEF FrozenInv, ErpInv, FilesInv, erpVars, clientVars, Posted
<1>2. TypeOK
  BY DEF IInv
<1>3. CASE Posted /\ (ApiStep \/ ApiCrash) /\ UNCHANGED bytesVars
  <2>1. UNCHANGED <<ledger, pc, doc>>
    BY <1>2, <1>3, ApiShapes DEF ApiShape, ApiCrash
  <2> QED BY <1>1, <1>3, <2>1 DEF FrozenInv, PostInv, BytesInv, bytesVars
<1>4. CASE Deliver /\ UNCHANGED bytesVars
  <2>1. PICK s \in Slots, d \in Docs : Take(s, d)
    BY <1>4 DEF Deliver
  <2>2. Posted /\ ledger' = ledger
    BY <2>1 DEF Take, FrozenInv, PostInv
  <2>3. \A t \in Slots : pc'[t] = "readRow" \/ (pc'[t] = pc[t] /\ doc'[t] = doc[t])
    BY <2>1, <1>2 DEF Take, TypeOK
  <2>4. BytesInv'
    BY <1>4, <2>2, <2>3 DEF FrozenInv, BytesInv, bytesVars
  <2>5. PostInv'
    BY <1>1, <2>2 DEF PostInv, Posted
  <2> QED BY <1>1, <2>4, <2>5 DEF FrozenInv
<1>5. ASSUME NEW s \in Slots, BytesStep(s) PROVE FrozenInv'
  <2>1. SlotStep(s)
    BY <1>5 DEF BytesStep, RenderBytes, PutBytes, AppendBytes, AppendErrorBytes,
                PlainStep, End, SlotStep
  <2>2. Posted
    BY <2>1, <1>2, SlotPath DEF PathShape, FrozenInv, PostInv
  <2>3. BytesInv'
    BY <1>2, <1>5, <2>1, FrozenBytes
  <2>4. PostInv'
    BY <1>1, <2>2 DEF PostInv, Posted
  <2> QED BY <1>1, <2>3, <2>4 DEF FrozenInv
<1>6. ASSUME NEW d \in Docs, LoseLock(d) \/ StalledCheck(d), UNCHANGED bytesVars
      PROVE  FrozenInv'
  <2>1. UNCHANGED <<ledger, pc, doc>>
    BY <1>6 DEF LoseLock, StalledCheck
  <2>2. \A e \in Docs : tasks[e].state = "absent" => tasks'[e].state = "absent"
    BY <1>6, <1>2 DEF LoseLock, StalledCheck, TypeOK, GoodTasks, Tasks
  <2> QED BY <1>1, <1>6, <2>1, <2>2 DEF FrozenInv, PostInv, BytesInv, bytesVars
<1>7. ASSUME NEW p \in Procs, CrashBytes(p) PROVE FrozenInv'
  <2>1. Posted /\ UNCHANGED <<ledger, hashes, prints>>
    BY <1>7 DEF CrashBytes, WorkerCrash, FrozenInv, PostInv
  <2>2. \A t \in Slots : pc'[t] = "idle" \/
          (pc'[t] = pc[t] /\ doc'[t] = doc[t] /\ printed'[t] = printed[t])
    BY <1>7 DEF CrashBytes, WorkerCrash
  <2>3. printed' \in [Slots -> Bytes \union {NoBytes}]
    BY <1>7 DEF CrashBytes, FrozenInv, BytesInv
  <2> QED BY <1>1, <2>1, <2>2, <2>3 DEF FrozenInv, PostInv, BytesInv
<1> QED BY <1>3, <1>4, <1>5, <1>6, <1>7 DEF ServiceStep

LEMMA FrozenStep ==
  ASSUME IInv, TypeOK', FrozenInv, [DeliveryNext]_deliveryVars
  PROVE  FrozenInv'
<1>1. CASE UNCHANGED deliveryVars
  BY <1>1 DEF deliveryVars, bytesVars, erpVars, clientVars, FrozenInv, ErpInv, PostInv,
     BytesInv, FilesInv, Posted
<1>2. TypeOK
  BY DEF IInv
<1> QED BY <1>1, <1>2, FrozenClient, FrozenService DEF DeliveryNext

(* store.js:3-7, stale-data/run.js:3-11: whatever was in the ERP before, and *)
(* whenever it changes after the submission, a verified file shows the      *)
(* entity as it was submitted.                                              *)
THEOREM VerifiedFilesAreFrozen == DeliverySpec => []FilesAreFrozen
<1>1. FrozenInv => FilesAreFrozen
  BY DEF FrozenInv, FilesInv, FilesAreFrozen, Frozen
<1>2. DeliverySpec => []IInv /\ []TypeOK
  BY DeliveryIsRenderJob, Invariance, TypeCorrect, PTL
<1>3. DeliverySpec => []FrozenInv
  BY <1>2, FrozenInit, FrozenStep, PTL DEF DeliverySpec
<1> QED
  BY <1>1, <1>3, PTL

-----------------------------------------------------------------------------
(* What a step of the service may do to the bytes, whichever action it is. *)

InHand(s) == pc[s] \in {"put", "append"}

\* The PDFs of the other slots stay as they are, and s stays with its document.
Alone(s) ==
  /\ pc[s] # "idle"
  /\ \A t \in Slots \ {s} : pc'[t] = pc[t] /\ doc'[t] = doc[t] /\ printed'[t] = printed[t]
  /\ pc'[s] # "idle" => doc'[s] = doc[s]

\* A document is rendered.
Printing(s) ==
  /\ Alone(s) /\ pc[s] # "append" /\ pc'[s] = "put"
  /\ prints' = [prints EXCEPT ![doc[s]] = @ + 1]
  /\ printed'[s] = [version |-> Frozen(doc[s]), print |-> prints[doc[s]] + 1]
  /\ UNCHANGED <<stored, hashes, torn, ledger, bucket>>

\* An upload, which may fail and may yet have replaced the artifact.
Uploading(s) ==
  /\ Alone(s) /\ pc[s] = "put" /\ pc'[s] # "put" /\ printed'[s] = printed[s]
  /\ \/ bucket' = bucket \union {doc[s]} /\ stored' = [stored EXCEPT ![doc[s]] = printed[s]]
     \/ bucket' = bucket /\ stored' = stored /\ pc'[s] # "append"
     \/ bucket' = bucket /\ stored' = [stored EXCEPT ![doc[s]] = printed[s]] /\ doc[s] \in bucket
  /\ torn' \in {torn, torn \union {doc[s]}}
  /\ stored' # stored /\ (pc'[s] # "append" \/ Unrecorded(s)) => doc[s] \in torn'
  /\ UNCHANGED <<prints, hashes, ledger>>

\* A ledger row is written with its hash.
Recording(s, outcome, hash) ==
  /\ Alone(s) /\ pc'[s] \notin {"put", "append"}
  /\ \/ outcome = "rendered" /\ pc[s] = "append" /\ hash = printed[s]
     \/ outcome = "error" /\ pc[s] = "appendError" /\ hash = NoBytes
  /\ AppendEntry(s, outcome)
  /\ hashes' = [hashes EXCEPT ![doc[s]] = Append(@, hash)]
  /\ UNCHANGED <<prints, stored, torn, bucket>>

\* Nothing is written; a PDF that was stored but not recorded may be dropped.
Quiet ==
  /\ UNCHANGED <<prints, stored, hashes, ledger>>
  /\ \A d \in Docs : d \in bucket' <=> d \in bucket
  /\ torn \subseteq torn' /\ torn' \subseteq torn \union Docs
  /\ \A t \in Slots : \/ pc'[t] = pc[t] /\ doc'[t] = doc[t] /\ printed'[t] = printed[t]
                      \/ /\ pc'[t] \notin {"put", "append"}
                         /\ pc[t] = "append" => doc[t] \in torn'

Records(s) == \E outcome \in Outcomes, hash \in Bytes \union {NoBytes} :
                 Recording(s, outcome, hash)

ByteShape == Quiet \/ \E s \in Slots : Printing(s) \/ Uploading(s) \/ Records(s)

(* The steps of renderDocument and of the rest of a delivery. *)
LEMMA BytesShape ==
  ASSUME TypeOK, FrozenInv, NEW s \in Slots, BytesStep(s), UNCHANGED erpVars
  PROVE  ByteShape
<1>1. SlotStep(s)
  BY DEF BytesStep, RenderBytes, PutBytes, AppendBytes, AppendErrorBytes, PlainStep, End, SlotStep
<1>2. pc[s] # "idle" /\ doc[s] \in Docs /\ Posted
  BY <1>1, SlotPath DEF PathShape, TypeOK, FrozenInv, PostInv
<1>3. /\ \A t \in Slots \ {s} : pc'[t] = pc[t] /\ doc'[t] = doc[t]
      /\ pc'[s] # "idle" => doc'[s] = doc[s]
  BY <1>1, SlotPath DEF PathShape
<1>4. bucket \subseteq bucket' /\ (bucket' = bucket \/ pc[s] = "put")
  BY <1>1, SlotStore DEF StoreShape
<1>5. /\ pc \in [Slots -> SlotLabels] /\ printed \in [Slots -> Bytes \union {NoBytes}]
      /\ \A d \in Docs : submitted[d] = Frozen(d)
  BY <1>2 DEF TypeOK, FrozenInv, BytesInv, ErpInv
<1> USE DEF bytesVars
<1>6. CASE RenderBytes(s)
  <2>1. pc[s] = "render" /\ UNCHANGED <<stored, hashes, torn, ledger, bucket>>
    BY <1>6 DEF RenderBytes, Render, Caught
  <2>2. CASE pc'[s] = "put"
    <3>1. /\ prints' = [prints EXCEPT ![doc[s]] = @ + 1]
          /\ printed' = [printed EXCEPT
                 ![s] = [version |-> Frozen(doc[s]), print |-> prints[doc[s]] + 1]]
      BY <1>2, <1>5, <1>6, <2>2 DEF RenderBytes, Source
    <3> QED BY <1>2, <1>3, <1>5, <2>1, <2>2, <3>1 DEF Printing, Alone, ByteShape
  <2>3. CASE pc'[s] # "put"
    <3>1. UNCHANGED <<prints, printed>>
      BY <1>6, <2>3 DEF RenderBytes
    <3>2. pc'[s] \notin {"put", "append"}
      BY <1>5, <1>6, <2>3 DEF RenderBytes, Render, Caught
    <3> QED BY <1>3, <2>1, <3>1, <3>2 DEF Quiet, ByteShape
  <2> QED BY <2>2, <2>3
<1>7. CASE PutBytes(s)
  <2> DEFINE failed == faults' # faults
  <2>1. /\ pc[s] = "put" /\ UNCHANGED <<prints, printed, hashes, ledger>>
        /\ bucket' = bucket \/ bucket' = bucket \union {doc[s]}
    BY <1>7 DEF PutBytes, PutArtifact, Caught, Store
  <2>2. /\ failed => pc'[s] \in {"releaseRaised", "appendError"}
        /\ ~failed => pc'[s] = "append" /\ bucket' = bucket \union {doc[s]}
    <3>1. faults \in Nat
      BY DEF TypeOK
    <3> QED BY <1>5, <1>7, <3>1 DEF PutBytes, PutArtifact, Caught, Store
  <2>3. /\ \/ doc[s] \in bucket' /\ stored' = [stored EXCEPT ![doc[s]] = printed[s]]
           \/ failed /\ (doc[s] \in bucket' => doc[s] \in bucket) /\ stored' = stored
        /\ torn' = IF stored' # stored /\ (failed \/ Unrecorded(s)) THEN torn \union {doc[s]}
                   ELSE torn
    BY <1>7 DEF PutBytes
  <2>4. Alone(s)
    BY <1>2, <1>3, <2>1 DEF Alone
  <2>5. \/ bucket' = bucket \union {doc[s]} /\ stored' = [stored EXCEPT ![doc[s]] = printed[s]]
        \/ bucket' = bucket /\ stored' = stored /\ pc'[s] # "append"
        \/ bucket' = bucket /\ stored' = [stored EXCEPT ![doc[s]] = printed[s]] /\ doc[s] \in bucket
    <3>1. CASE stored' = stored /\ failed /\ (doc[s] \in bucket' => doc[s] \in bucket)
      BY <2>1, <2>2, <3>1
    <3>2. CASE doc[s] \in bucket' /\ stored' = [stored EXCEPT ![doc[s]] = printed[s]]
      BY <2>1, <3>2
    <3> QED BY <2>3, <3>1, <3>2
  <2>6. Uploading(s)
    BY <2>1, <2>2, <2>3, <2>4, <2>5 DEF Uploading
  <2> QED BY <2>6 DEF ByteShape
<1>8. CASE AppendBytes(s)
  <2>1. /\ pc[s] = "append" /\ pc'[s] \notin {"put", "append"}
        /\ UNCHANGED <<prints, printed, stored, bucket>>
        /\ ledger' = ledger \/ AppendEntry(s, "rendered")
    BY <1>5, <1>8 DEF AppendBytes, AppendRendered, Caught
  <2>2. CASE ledger' = ledger
    <3>1. hashes' = hashes /\ torn' = torn \union {doc[s]}
      BY <1>8, <2>2 DEF AppendBytes
    <3> QED BY <1>2, <1>3, <2>1, <2>2, <3>1 DEF Quiet, ByteShape
  <2>3. CASE ledger' # ledger
    <3>1. Recording(s, "rendered", printed[s])
      BY <1>2, <1>3, <1>8, <2>1, <2>3 DEF AppendBytes, SealedHash, Recording, Alone
    <3>2. Records(s)
      BY <1>5, <3>1 DEF Records, Outcomes
    <3> QED BY <3>2 DEF ByteShape
  <2> QED BY <2>2, <2>3
<1>9. CASE AppendErrorBytes(s)
  <2>1. /\ pc[s] = "appendError" /\ pc'[s] \notin {"put", "append"}
        /\ UNCHANGED <<prints, printed, stored, torn, bucket>>
        /\ ledger' = ledger \/ AppendEntry(s, "error")
    BY <1>5, <1>9 DEF AppendErrorBytes, AppendError
  <2>2. CASE ledger' = ledger
    <3>1. hashes' = hashes
      BY <1>9, <2>2 DEF AppendErrorBytes
    <3> QED BY <1>3, <2>1, <2>2, <3>1 DEF Quiet, ByteShape
  <2>3. CASE ledger' # ledger
    <3>1. Recording(s, "error", NoBytes)
      BY <1>2, <1>3, <1>9, <2>1, <2>3 DEF AppendErrorBytes, Recording, Alone
    <3>2. Records(s)
      BY <3>1 DEF Records, Outcomes
    <3> QED BY <3>2 DEF ByteShape
  <2> QED BY <2>2, <2>3
<1>10. CASE PlainStep(s)
  <2>1. ledger' = ledger /\ bucket' = bucket /\ UNCHANGED bytesVars
    BY <1>10 DEF PlainStep, ReadRow, MarkProcessing, GetSnapshot, IncrementCompleted,
       IncrementFailed, Release, ClaimRead, ClaimMarker, FlushRead, FlushRow, FlushDel
  <2>2. pc[s] # "append" /\ pc'[s] \notin {"put", "append"}
    BY <1>5, <1>10 DEF PlainStep, ReadRow, AfterRow, MarkProcessing, GetSnapshot,
       IncrementCompleted, IncrementFailed, Release, ClaimRead, ClaimMarker, FlushRead,
       FlushRow, FlushDel, Caught
  <2> QED BY <1>3, <2>1, <2>2 DEF Quiet, ByteShape
<1>11. CASE End(s)
  <2>1. /\ UNCHANGED <<ledger, bucket, prints, stored, hashes, torn>>
        /\ printed' = [printed EXCEPT ![s] = NoBytes] /\ pc[s] # "append" /\ pc'[s] = "idle"
    BY <1>5, <1>11 DEF End, Ack, Raise, Settle
  <2>2. \A t \in Slots \ {s} : printed'[t] = printed[t]
    BY <1>5, <2>1
  <2> QED BY <1>3, <2>1, <2>2 DEF Quiet, ByteShape
<1> QED BY <1>6, <1>7, <1>8, <1>9, <1>10, <1>11 DEF BytesStep

(* And those of everybody else. *)
LEMMA ServiceShape ==
  ASSUME IInv, FrozenInv, ServiceStep, UNCHANGED <<erpVars, clientVars>>
  PROVE  ByteShape
<1>1. /\ TypeOK /\ pc \in [Slots -> SlotLabels] /\ doc \in [Slots -> Docs \union {NoDoc}]
      /\ \A t \in Slots : pc[t] # "idle" => doc[t] \in Docs
  BY DEF IInv, TypeOK
<1> USE DEF bytesVars
<1>2. CASE Posted /\ (ApiStep \/ ApiCrash) /\ UNCHANGED bytesVars
  <2>1. UNCHANGED <<ledger, pc, doc>>
    BY <1>1, <1>2, ApiShapes DEF ApiShape, ApiCrash
  <2>2. \A d \in Docs : d \in bucket' <=> d \in bucket
    BY <1>2, DocsAssumption DEF ApiStep, ApiCrash, InsertJob, PutSnapshot, InitProgress,
       EnqueueDocuments, Promote, Reject, Store
  <2> QED BY <1>2, <2>1, <2>2 DEF Quiet, ByteShape
<1>3. CASE Deliver /\ UNCHANGED bytesVars
  <2>1. PICK s \in Slots, d \in Docs : Take(s, d)
    BY <1>3 DEF Deliver
  <2>2. UNCHANGED <<ledger, bucket>> /\ pc[s] = "idle" /\ pc'[s] = "readRow"
    BY <1>1, <2>1 DEF Take
  <2>3. \A t \in Slots \ {s} : pc'[t] = pc[t] /\ doc'[t] = doc[t]
    BY <1>1, <2>1 DEF Take
  <2> QED BY <1>3, <2>2, <2>3 DEF Quiet, ByteShape
<1>4. ASSUME NEW d \in Docs, LoseLock(d) \/ StalledCheck(d), UNCHANGED bytesVars
      PROVE  ByteShape
  <2>1. UNCHANGED <<ledger, bucket, pc, doc>>
    BY <1>4 DEF LoseLock, StalledCheck
  <2> QED BY <1>4, <2>1 DEF Quiet, ByteShape
<1>5. ASSUME NEW p \in Procs, CrashBytes(p) PROVE ByteShape
  <2>1. UNCHANGED <<ledger, bucket, prints, stored, hashes>>
    BY <1>5 DEF CrashBytes, WorkerCrash
  <2>2. \A t \in Slots : \/ pc'[t] = pc[t] /\ doc'[t] = doc[t] /\ printed'[t] = printed[t]
                         \/ pc'[t] = "idle" /\ Host[t] = p
    BY <1>5 DEF CrashBytes, WorkerCrash
  <2> DEFINE lost == {doc[s] : s \in {t \in {u \in Slots : Host[u] = p} : pc[t] = "append"}}
  <2>3. torn' = torn \union lost
    BY <1>5 DEF CrashBytes
  <2>4. lost \subseteq Docs
    BY <1>1
  <2>5. \A t \in Slots : Host[t] = p /\ pc[t] = "append" => doc[t] \in lost
    OBVIOUS
  <2> HIDE DEF lost
  <2> QED BY <2>1, <2>2, <2>3, <2>4, <2>5 DEF Quiet, ByteShape
<1>6. ASSUME NEW s \in Slots, BytesStep(s) PROVE ByteShape
  BY <1>1, <1>6, BytesShape
<1> QED BY <1>2, <1>3, <1>4, <1>5, <1>6 DEF ServiceStep

-----------------------------------------------------------------------------
(* Which print of a document each copy of its bytes is.                    *)

\* The first n prints of a document, all of the posted data.
FirstPrints(d, n) == {b \in Bytes : b.version = Frozen(d) /\ b.print <= n}

StoreInv ==
  /\ stored \in [Docs -> Bytes \union {NoBytes}]
  /\ torn \subseteq Docs
  /\ client \in ClientLabels
  /\ manifest \in [Docs -> Entries]
  /\ tried \in [Docs -> 0..Retries]

\* Every PDF in hand, stored, recorded in the ledger or listed in the manifest
\* is one of the prints made so far, and what is listed was stored.
PrintInv ==
  /\ \A s \in Slots : InHand(s) => printed[s] \in FirstPrints(doc[s], prints[doc[s]])
  /\ \A d \in Docs : stored[d] = NoBytes \/ stored[d] \in FirstPrints(d, prints[d])
  /\ \A d \in Docs : d \in bucket => stored[d] # NoBytes
  /\ \A d \in Docs : \A i \in 1..Len(ledger[d]) :
       ledger[d][i] = "rendered" => hashes[d][i] \in FirstPrints(d, prints[d])
  /\ \A d \in Docs : manifest[d].status = "rendered" =>
       manifest[d].hash \in FirstPrints(d, prints[d]) /\ d \in bucket
  /\ RefusedMeansRedone

\* A delivery about to write its row, and the latest row once nobody is, has
\* the hash of the stored artifact, but for the torn documents.
SealInv ==
  \A d \in Docs \ torn :
    /\ \A s \in Slots : doc[s] = d /\ pc[s] = "append" => printed[s] = stored[d]
    /\ \/ \E s \in Slots : doc[s] = d /\ pc[s] = "append"
       \/ Latest(d) = "rendered" => hashes[d][Len(ledger[d])] = stored[d]

KeptInv == StoreInv /\ PrintInv /\ SealInv

LEMMA PrintsGrow ==
  ASSUME NEW d, NEW n \in Nat, NEW k \in Nat, n <= k
  PROVE  FirstPrints(d, n) \subseteq FirstPrints(d, k)
BY DEF FirstPrints, Bytes

(* Two different prints are two prints. *)
LEMMA OnePrint ==
  ASSUME NEW d, NEW n \in Nat, NEW b \in FirstPrints(d, n), NEW c \in FirstPrints(d, n), b # c
  PROVE  n > 1
<1> SUFFICES ASSUME n <= 1 PROVE b = c
  OBVIOUS
<1>1. b.print = 1 /\ c.print = 1 /\ b.version = c.version
  BY DEF FirstPrints, Bytes
<1>2. /\ b = [version |-> b.version, print |-> b.print]
      /\ c = [version |-> c.version, print |-> c.print]
  BY DEF FirstPrints, Bytes
<1> QED BY <1>1, <1>2

(* No bytes are no print. *)
LEMMA PrintsAreBytes == ASSUME NEW d, NEW n PROVE FirstPrints(d, n) \subseteq Bytes /\ NoBytes \notin Bytes
BY DEF FirstPrints, Bytes, NoBytes, Versions

LEMMA KeptInit == DeliveryInit => KeptInv
<1> SUFFICES ASSUME DeliveryInit PROVE KeptInv
  OBVIOUS
<1>1. StoreInv
  BY TargetAssumption DEF DeliveryInit, StoreInv, ClientLabels, Entries, Blank
<1>2. PrintInv
  BY DEF DeliveryInit, Init, PrintInv, RefusedMeansRedone, Blank, InHand
<1>3. SealInv
  BY DEF DeliveryInit, Init, SealInv, Latest
<1> QED BY <1>1, <1>2, <1>3 DEF KeptInv

(* Bytes that stay where they are stay within the prints, whose number only  *)
(* grows.                                                                   *)
LEMMA PrintsKept ==
  ASSUME prints \in [Docs -> Nat], prints' \in [Docs -> Nat],
         \A d \in Docs : prints[d] <= prints'[d],
         NEW d \in Docs
  PROVE  FirstPrints(d, prints[d]) \subseteq FirstPrints(d, prints'[d])
<1>1. prints[d] \in Nat /\ prints'[d] \in Nat
  OBVIOUS
<1> QED BY <1>1, PrintsGrow

(* The manifest and the outcome of the downloads, while the client waits.   *)
LEMMA ListedKept ==
  ASSUME PrintInv, prints \in [Docs -> Nat], prints' \in [Docs -> Nat],
         \A d \in Docs : prints[d] <= prints'[d],
         \A d \in Docs : d \in bucket => d \in bucket',
         UNCHANGED clientVars
  PROVE  /\ \A d \in Docs : manifest'[d].status = "rendered" =>
              manifest'[d].hash \in FirstPrints(d, prints'[d]) /\ d \in bucket'
         /\ RefusedMeansRedone'
<1>1. ASSUME NEW d \in Docs, manifest'[d].status = "rendered"
      PROVE  manifest'[d].hash \in FirstPrints(d, prints'[d]) /\ d \in bucket'
  <2>1. manifest'[d] = manifest[d]
    BY DEF clientVars
  <2>2. manifest[d].hash \in FirstPrints(d, prints[d]) /\ d \in bucket
    BY <1>1, <2>1 DEF PrintInv
  <2> QED BY <2>1, <2>2, PrintsKept
<1>2. ASSUME NEW d \in Docs, files'[d] = "mismatch" PROVE prints'[d] > 1
  <2>1. prints[d] > 1 /\ prints[d] \in Nat /\ prints'[d] \in Nat
    BY <1>2 DEF PrintInv, RefusedMeansRedone, clientVars
  <2> QED BY <2>1
<1> QED BY <1>1, <1>2 DEF RefusedMeansRedone

(* Nothing is written. *)
LEMMA KeptQuiet ==
  ASSUME TypeOK, FrozenInv, FrozenInv', KeptInv, Quiet, UNCHANGED clientVars
  PROVE  KeptInv'
<1>0. prints \in [Docs -> Nat] /\ prints' = prints
  BY DEF FrozenInv, BytesInv, Quiet
<1>1. StoreInv'
  BY DEF KeptInv, StoreInv, Quiet, clientVars
<1>2. PrintInv'
  <2>1. \A s \in Slots : InHand(s)' => printed'[s] \in FirstPrints(doc'[s], prints'[doc'[s]])
    BY <1>0 DEF KeptInv, PrintInv, Quiet, InHand
  <2>2. /\ \A d \in Docs : stored'[d] = NoBytes \/ stored'[d] \in FirstPrints(d, prints'[d])
        /\ \A d \in Docs : d \in bucket' => stored'[d] # NoBytes
        /\ \A d \in Docs : \A i \in 1..Len(ledger'[d]) :
             ledger'[d][i] = "rendered" => hashes'[d][i] \in FirstPrints(d, prints'[d])
    BY <1>0 DEF KeptInv, PrintInv, Quiet
  <2>3. /\ \A d \in Docs : manifest'[d].status = "rendered" =>
             manifest'[d].hash \in FirstPrints(d, prints'[d]) /\ d \in bucket'
        /\ RefusedMeansRedone'
    <3>1. \A d \in Docs : prints[d] <= prints'[d]
      BY <1>0
    <3> QED BY <1>0, <3>1, ListedKept DEF KeptInv, Quiet
  <2> QED BY <2>1, <2>2, <2>3 DEF PrintInv
<1>3. SealInv'
  <2> SUFFICES ASSUME NEW d \in Docs, d \notin torn'
               PROVE  /\ \A s \in Slots : doc'[s] = d /\ pc'[s] = "append" => printed'[s] = stored'[d]
                      /\ \/ \E s \in Slots : doc'[s] = d /\ pc'[s] = "append"
                         \/ Latest(d)' = "rendered" => hashes'[d][Len(ledger'[d])] = stored'[d]
    BY DEF SealInv
  <2>1. \A s \in Slots : (doc'[s] = d /\ pc'[s] = "append") <=> (doc[s] = d /\ pc[s] = "append")
    BY DEF Quiet
  <2>2. \A s \in Slots : doc'[s] = d /\ pc'[s] = "append" => printed'[s] = printed[s]
    BY DEF Quiet
  <2>3. Latest(d)' = Latest(d) /\ UNCHANGED <<stored, hashes, ledger>> /\ d \notin torn
    BY DEF Quiet, Latest
  <2> QED BY <2>1, <2>2, <2>3 DEF KeptInv, SealInv
<1> QED BY <1>1, <1>2, <1>3 DEF KeptInv

(* A document is printed. *)
LEMMA KeptPrint ==
  ASSUME TypeOK, FrozenInv, FrozenInv', KeptInv, NEW s \in Slots, Printing(s),
         UNCHANGED clientVars
  PROVE  KeptInv'
<1> DEFINE d == doc[s]
<1>0. /\ prints \in [Docs -> Nat] /\ prints' \in [Docs -> Nat] /\ d \in Docs
      /\ prints'[d] = prints[d] + 1 /\ \A e \in Docs : prints[e] <= prints'[e]
  BY DEF FrozenInv, BytesInv, Printing, Alone, TypeOK
<1>1. StoreInv'
  BY DEF KeptInv, StoreInv, Printing, clientVars
<1>2. PrintInv'
  <2>1. ASSUME NEW t \in Slots, InHand(t)'
        PROVE  printed'[t] \in FirstPrints(doc'[t], prints'[doc'[t]])
    <3>1. CASE t = s
      <4>1. doc'[t] = d /\ printed'[t] = [version |-> Frozen(d), print |-> prints[d] + 1]
        BY <3>1 DEF Printing, Alone
      <4>2. prints[d] \in Nat /\ Frozen(d) \in Versions
        BY <1>0 DEF Frozen, Versions
      <4>3. [version |-> Frozen(d), print |-> prints[d] + 1] \in FirstPrints(d, prints[d] + 1)
        BY <4>2 DEF FirstPrints, Bytes
      <4> QED BY <1>0, <4>1, <4>3
    <3>2. CASE t # s
      <4>1. InHand(t) /\ doc'[t] = doc[t] /\ printed'[t] = printed[t] /\ doc[t] \in Docs
        BY <2>1, <3>2 DEF Printing, Alone, InHand, TypeOK
      <4>2. printed[t] \in FirstPrints(doc[t], prints[doc[t]])
        BY <4>1 DEF KeptInv, PrintInv
      <4> QED BY <1>0, <4>1, <4>2, PrintsKept
    <3> QED BY <3>1, <3>2
  <2>2. ASSUME NEW e \in Docs
        PROVE  /\ stored'[e] = NoBytes \/ stored'[e] \in FirstPrints(e, prints'[e])
               /\ e \in bucket' => stored'[e] # NoBytes
               /\ \A i \in 1..Len(ledger'[e]) :
                    ledger'[e][i] = "rendered" => hashes'[e][i] \in FirstPrints(e, prints'[e])
    <3>1. FirstPrints(e, prints[e]) \subseteq FirstPrints(e, prints'[e])
      BY <1>0, PrintsKept
    <3> QED BY <3>1 DEF KeptInv, PrintInv, Printing
  <2>3. /\ \A e \in Docs : manifest'[e].status = "rendered" =>
             manifest'[e].hash \in FirstPrints(e, prints'[e]) /\ e \in bucket'
        /\ RefusedMeansRedone'
    BY <1>0, ListedKept DEF KeptInv, Printing
  <2> QED BY <2>1, <2>2, <2>3 DEF PrintInv
<1>3. SealInv'
  <2>1. \A t \in Slots : pc'[t] = "append" \/ pc[t] = "append" =>
           pc'[t] = pc[t] /\ doc'[t] = doc[t] /\ printed'[t] = printed[t]
    BY DEF Printing, Alone
  <2>2. \A e \in Docs : Latest(e)' = Latest(e)
    BY DEF Printing, Latest
  <2>3. UNCHANGED <<stored, hashes, ledger, torn>>
    BY DEF Printing
  <2> QED BY <2>1, <2>2, <2>3 DEF KeptInv, SealInv
<1> QED BY <1>1, <1>2, <1>3 DEF KeptInv

(* An upload puts its bytes in the place of the artifact. *)
LEMMA KeptUpload ==
  ASSUME TypeOK, FrozenInv, FrozenInv', KeptInv, NEW s \in Slots, Uploading(s),
         UNCHANGED clientVars
  PROVE  KeptInv'
<1> DEFINE d == doc[s]
<1>0. /\ prints \in [Docs -> Nat] /\ prints' = prints /\ d \in Docs
      /\ stored \in [Docs -> Bytes \union {NoBytes}] /\ torn \subseteq Docs
  BY DEF FrozenInv, BytesInv, Uploading, Alone, TypeOK, KeptInv, StoreInv
<1>1. printed[s] \in FirstPrints(d, prints[d]) /\ printed[s] \in Bytes /\ printed[s] # NoBytes
  <2>1. printed[s] \in FirstPrints(d, prints[d])
    BY DEF KeptInv, PrintInv, InHand, Uploading
  <2> QED BY <2>1, PrintsAreBytes
<1>2. stored' = stored \/ stored' = [stored EXCEPT ![d] = printed[s]]
  BY DEF Uploading
<1>3. StoreInv'
  <2>1. stored' \in [Docs -> Bytes \union {NoBytes}]
    BY <1>0, <1>1, <1>2
  <2>2. torn' \subseteq Docs
    BY <1>0 DEF Uploading
  <2> QED BY <2>1, <2>2 DEF KeptInv, StoreInv, clientVars
<1>4. PrintInv'
  <2>1. ASSUME NEW t \in Slots, InHand(t)'
        PROVE  printed'[t] \in FirstPrints(doc'[t], prints'[doc'[t]])
    <3>1. InHand(t) /\ doc'[t] = doc[t] /\ printed'[t] = printed[t]
      BY <2>1 DEF Uploading, Alone, InHand
    <3> QED BY <1>0, <3>1 DEF KeptInv, PrintInv
  <2>2. ASSUME NEW e \in Docs
        PROVE  /\ stored'[e] = NoBytes \/ stored'[e] \in FirstPrints(e, prints'[e])
               /\ e \in bucket' => stored'[e] # NoBytes
    <3>1. CASE e = d
      <4>1. stored'[e] = printed[s] \/ (stored'[e] = stored[e] /\ bucket' = bucket)
        BY <1>0, <3>1 DEF Uploading
      <4> QED BY <1>0, <1>1, <3>1, <4>1 DEF KeptInv, PrintInv
    <3>2. CASE e # d
      <4>1. stored'[e] = stored[e] /\ (e \in bucket' <=> e \in bucket)
        BY <1>0, <3>2 DEF Uploading
      <4> QED BY <1>0, <4>1 DEF KeptInv, PrintInv
    <3> QED BY <3>1, <3>2
  <2>3. \A e \in Docs : \A i \in 1..Len(ledger'[e]) :
          ledger'[e][i] = "rendered" => hashes'[e][i] \in FirstPrints(e, prints'[e])
    BY <1>0 DEF KeptInv, PrintInv, Uploading
  <2>4. /\ \A e \in Docs : manifest'[e].status = "rendered" =>
             manifest'[e].hash \in FirstPrints(e, prints'[e]) /\ e \in bucket'
        /\ RefusedMeansRedone'
    <3>1. /\ \A e \in Docs : prints[e] <= prints'[e]
          /\ \A e \in Docs : e \in bucket => e \in bucket'
      BY <1>0 DEF Uploading
    <3> QED BY <1>0, <3>1, ListedKept DEF KeptInv
  <2> QED BY <2>1, <2>2, <2>3, <2>4 DEF PrintInv
<1>5. SealInv'
  <2> SUFFICES ASSUME NEW e \in Docs, e \notin torn'
               PROVE  /\ \A t \in Slots : doc'[t] = e /\ pc'[t] = "append" => printed'[t] = stored'[e]
                      /\ \/ \E t \in Slots : doc'[t] = e /\ pc'[t] = "append"
                         \/ Latest(e)' = "rendered" => hashes'[e][Len(ledger'[e])] = stored'[e]
    BY DEF SealInv
  <2>1. /\ e \notin torn /\ Latest(e)' = Latest(e) /\ UNCHANGED <<hashes, ledger>>
        /\ printed'[s] = printed[s] /\ pc[s] = "put"
    BY DEF Uploading, Latest
  <2>2. \A t \in Slots \ {s} : pc'[t] = pc[t] /\ doc'[t] = doc[t] /\ printed'[t] = printed[t]
    BY DEF Uploading, Alone
  <2>3. pc'[s] = "append" => doc'[s] = d /\ stored' = [stored EXCEPT ![d] = printed[s]]
    BY DEF Uploading, Alone
  <2>4. CASE e # d \/ (stored' = stored /\ pc'[s] # "append")
    <3>1. stored'[e] = stored[e]
      BY <1>0, <1>2, <2>4
    <3>2. \A t \in Slots : (doc'[t] = e /\ pc'[t] = "append") <=> (doc[t] = e /\ pc[t] = "append")
      BY <2>1, <2>2, <2>3, <2>4
    <3> QED BY <2>1, <2>2, <3>1, <3>2 DEF KeptInv, SealInv
  <2>5. CASE e = d /\ (stored' # stored \/ pc'[s] = "append")
    <3>1. pc'[s] = "append" /\ (stored' # stored => ~Unrecorded(s))
      BY <2>5 DEF Uploading
    <3>2. stored'[e] = printed[s]
      BY <1>0, <2>3, <2>5, <3>1
    <3>3. ASSUME NEW t \in Slots, t # s, doc'[t] = e, pc'[t] = "append"
          PROVE  printed'[t] = stored'[e]
      <4>1. Unrecorded(s)
        BY <2>2, <2>5, <3>3 DEF Unrecorded
      <4>2. stored' = stored
        BY <3>1, <4>1
      <4> QED BY <2>1, <2>2, <3>3, <4>2 DEF KeptInv, SealInv
    <3> QED BY <2>1, <2>3, <2>5, <3>1, <3>2, <3>3
  <2> QED BY <2>4, <2>5
<1> QED BY <1>3, <1>4, <1>5 DEF KeptInv

(* A ledger row gets the hash of what its delivery has in hand. *)
LEMMA KeptRecord ==
  ASSUME TypeOK, FrozenInv, FrozenInv', KeptInv, NEW s \in Slots, NEW outcome \in Outcomes,
         NEW hash \in Bytes \union {NoBytes},
         Recording(s, outcome, hash), UNCHANGED clientVars
  PROVE  KeptInv'
<1> DEFINE d == doc[s]
           n == Len(ledger[d])
<1>0. /\ prints \in [Docs -> Nat] /\ prints' = prints /\ d \in Docs
      /\ UNCHANGED <<stored, torn, bucket>>
  BY DEF FrozenInv, BytesInv, Recording, Alone, TypeOK
<1>1. /\ ledger[d] \in Seq(Outcomes) /\ hashes[d] \in Seq(Bytes \union {NoBytes})
      /\ Len(hashes[d]) = n
  BY <1>0 DEF FrozenInv, BytesInv, TypeOK
<1>2. /\ ledger'[d] = Append(ledger[d], outcome) /\ hashes'[d] = Append(hashes[d], hash)
      /\ \A e \in Docs : e # d => ledger'[e] = ledger[e] /\ hashes'[e] = hashes[e]
  BY <1>0 DEF Recording, AppendEntry, FrozenInv, BytesInv, TypeOK
<1>3. /\ Len(ledger'[d]) = n + 1 /\ ledger'[d][n + 1] = outcome /\ hashes'[d][n + 1] = hash
      /\ \A i \in 1..n : ledger'[d][i] = ledger[d][i] /\ hashes'[d][i] = hashes[d][i]
  BY <1>1, <1>2
<1>4. StoreInv'
  BY <1>0 DEF KeptInv, StoreInv, clientVars
<1>5. PrintInv'
  <2>1. ASSUME NEW t \in Slots, InHand(t)'
        PROVE  printed'[t] \in FirstPrints(doc'[t], prints'[doc'[t]])
    <3>1. InHand(t) /\ doc'[t] = doc[t] /\ printed'[t] = printed[t]
      BY <2>1 DEF Recording, Alone, InHand
    <3> QED BY <1>0, <3>1 DEF KeptInv, PrintInv
  <2>2. \A e \in Docs : /\ stored'[e] = NoBytes \/ stored'[e] \in FirstPrints(e, prints'[e])
                        /\ e \in bucket' => stored'[e] # NoBytes
    BY <1>0 DEF KeptInv, PrintInv
  <2>3. outcome = "rendered" => hash \in FirstPrints(d, prints[d])
    BY DEF KeptInv, PrintInv, Recording, InHand
  <2>4. ASSUME NEW e \in Docs, NEW i \in 1..Len(ledger'[e]), ledger'[e][i] = "rendered"
        PROVE  hashes'[e][i] \in FirstPrints(e, prints'[e])
    <3>1. CASE e # d
      BY <1>0, <1>2, <2>4, <3>1 DEF KeptInv, PrintInv
    <3>2. CASE e = d /\ i \in 1..n
      BY <1>0, <1>3, <2>4, <3>2 DEF KeptInv, PrintInv
    <3>3. CASE e = d /\ i = n + 1
      BY <1>0, <1>3, <2>3, <2>4, <3>3
    <3>4. e = d => i \in 1..n \/ i = n + 1
      BY <1>1, <1>3
    <3> QED BY <3>1, <3>2, <3>3, <3>4
  <2>5. /\ \A e \in Docs : manifest'[e].status = "rendered" =>
             manifest'[e].hash \in FirstPrints(e, prints'[e]) /\ e \in bucket'
        /\ RefusedMeansRedone'
    <3>1. \A e \in Docs : prints[e] <= prints'[e]
      BY <1>0
    <3> QED BY <1>0, <3>1, ListedKept DEF KeptInv
  <2> QED BY <2>1, <2>2, <2>4, <2>5 DEF PrintInv
<1>6. SealInv'
  <2> SUFFICES ASSUME NEW e \in Docs, e \notin torn'
               PROVE  /\ \A t \in Slots : doc'[t] = e /\ pc'[t] = "append" => printed'[t] = stored'[e]
                      /\ \/ \E t \in Slots : doc'[t] = e /\ pc'[t] = "append"
                         \/ Latest(e)' = "rendered" => hashes'[e][Len(ledger'[e])] = stored'[e]
    BY DEF SealInv
  <2>1. /\ \A t \in Slots \ {s} : pc'[t] = pc[t] /\ doc'[t] = doc[t] /\ printed'[t] = printed[t]
        /\ pc'[s] # "append" /\ e \notin torn
    BY <1>0 DEF Recording, Alone
  <2>2. \A t \in Slots : doc'[t] = e /\ pc'[t] = "append" => printed'[t] = stored'[e]
    BY <1>0, <2>1 DEF KeptInv, SealInv
  <2>3. CASE e = d
    <3>1. outcome = "rendered" => hash = stored[d]
      <4>1. outcome = "rendered" => pc[s] = "append" /\ hash = printed[s]
        BY DEF Recording
      <4> QED BY <2>1, <2>3, <4>1 DEF KeptInv, SealInv
    <3>2. Latest(e)' = outcome /\ hashes'[e][Len(ledger'[e])] = hash
      BY <1>1, <1>3, <2>3 DEF Latest
    <3> QED BY <1>0, <2>2, <2>3, <3>1, <3>2
  <2>4. CASE e # d
    <3>1. Latest(e)' = Latest(e) /\ ledger'[e] = ledger[e] /\ hashes'[e] = hashes[e]
      BY <1>2, <2>4 DEF Latest
    <3>2. \A t \in Slots : doc[t] = e /\ pc[t] = "append" => doc'[t] = e /\ pc'[t] = "append"
      BY <2>1, <2>4
    <3> QED BY <1>0, <2>1, <2>2, <3>1, <3>2 DEF KeptInv, SealInv
  <2> QED BY <2>3, <2>4
<1> QED BY <1>4, <1>5, <1>6 DEF KeptInv

(* The client lists what the ledger has, and refuses a file whose artifact   *)
(* is another print.                                                        *)
LEMMA KeptClient ==
  ASSUME IInv, FrozenInv, KeptInv, ClientStep, UNCHANGED <<vars, bytesVars>>
  PROVE  KeptInv'
<1>0. /\ UNCHANGED <<prints, printed, stored, hashes, torn, ledger, bucket, pc, doc>>
      /\ prints \in [Docs -> Nat]
  BY DEF bytesVars, FrozenInv, BytesInv
<1>1. SealInv'
  BY <1>0 DEF KeptInv, SealInv, Latest
<1> USE DEF ClientGoto
<1>2. ASSUME NEW d \in Docs, Entry(d).status = "rendered"
      PROVE  Entry(d).hash \in FirstPrints(d, prints[d]) /\ d \in bucket
  <2>1. /\ ledger[d] \in Seq(Outcomes) /\ ledger[d] # <<>> /\ Latest(d) = "rendered"
        /\ Len(hashes[d]) = Len(ledger[d]) /\ Entry(d).hash = hashes[d][Len(hashes[d])]
    BY <1>2 DEF Entry, Blank, IInv, TypeOK, FrozenInv, BytesInv
  <2>2. Len(ledger[d]) \in 1..Len(ledger[d]) /\ ledger[d][Len(ledger[d])] = "rendered"
        /\ Len(ledger[d]) \in DOMAIN ledger[d]
    BY <2>1 DEF Latest
  <2> QED BY <2>1, <2>2 DEF KeptInv, PrintInv, IInv, RenderedRowHasArtifact
<1>3. \A d \in Docs : Entry(d) \in Entries
  <2> TAKE d \in Docs
  <2>1. /\ ledger[d] \in Seq(Outcomes) /\ hashes[d] \in Seq(Bytes \union {NoBytes})
        /\ Len(hashes[d]) = Len(ledger[d])
    BY DEF IInv, TypeOK, FrozenInv, BytesInv
  <2>2. CASE ledger[d] = <<>>
    BY <2>2 DEF Entry, Blank, Entries
  <2>3. CASE ledger[d] # <<>>
    <3>1. ledger[d][Len(ledger[d])] \in Outcomes
          /\ hashes[d][Len(hashes[d])] \in Bytes \union {NoBytes}
      BY <2>1, <2>3
    <3> QED BY <2>3, <3>1 DEF Entry, Entries, Latest
  <2> QED BY <2>2, <2>3
<1>4. StoreInv'
  <2>1. client' \in ClientLabels
    BY DEF ClientStep, ResetBaseline, FetchAndSubmit, Replied, Mutate, Polled, FetchManifest,
           Download, Summarise, KeptInv, StoreInv, ClientLabels
  <2>2. manifest' \in [Docs -> Entries]
    BY <1>3 DEF ClientStep, ResetBaseline, FetchAndSubmit, Replied, Mutate, Polled, FetchManifest,
                Download, Summarise, KeptInv, StoreInv
  <2>3. tried' \in [Docs -> 0..Retries]
    <3>1. tried \in [Docs -> 0..Retries]
      BY DEF KeptInv, StoreInv
    <3>2. ASSUME NEW d \in Docs, Download(d) PROVE tried' \in [Docs -> 0..Retries]
      BY <3>1, <3>2, TargetAssumption DEF Download, Again
    <3> QED BY <3>1, <3>2 DEF ClientStep, ResetBaseline, FetchAndSubmit, Replied, Mutate, Polled,
                              FetchManifest, Summarise
  <2> QED BY <1>0, <2>1, <2>2, <2>3 DEF KeptInv, StoreInv
<1>5. PrintInv'
  <2>1. /\ \A s \in Slots : InHand(s)' => printed'[s] \in FirstPrints(doc'[s], prints'[doc'[s]])
        /\ \A d \in Docs : stored'[d] = NoBytes \/ stored'[d] \in FirstPrints(d, prints'[d])
        /\ \A d \in Docs : d \in bucket' => stored'[d] # NoBytes
        /\ \A d \in Docs : \A i \in 1..Len(ledger'[d]) :
             ledger'[d][i] = "rendered" => hashes'[d][i] \in FirstPrints(d, prints'[d])
    BY <1>0 DEF KeptInv, PrintInv, InHand
  <2>2. \A d \in Docs : manifest'[d].status = "rendered" =>
          manifest'[d].hash \in FirstPrints(d, prints[d]) /\ d \in bucket
    <3>1. CASE FetchManifest
      BY <1>2, <3>1 DEF FetchManifest
    <3>2. CASE manifest' = manifest
      BY <3>2 DEF KeptInv, PrintInv
    <3> QED BY <3>1, <3>2 DEF ClientStep, ResetBaseline, FetchAndSubmit, Replied, Mutate, Polled,
                              Download, Summarise
  <2>3. \A d \in Docs : files'[d] = "mismatch" => prints[d] > 1
    <3>1. ASSUME NEW e \in Docs, Download(e), NEW d \in Docs, files'[d] = "mismatch"
          PROVE  prints[d] > 1
      <4>1. CASE files[d] = "mismatch"
        BY <4>1 DEF KeptInv, PrintInv, RefusedMeansRedone
      <4>2. CASE files[d] # "mismatch"
        <5>1. e = d /\ manifest[d].status = "rendered" /\ stored[d] # manifest[d].hash
          BY <3>1, <4>2 DEF Download, Matches, FrozenInv, FilesInv
        <5>2. /\ manifest[d].hash \in FirstPrints(d, prints[d])
              /\ stored[d] \in FirstPrints(d, prints[d])
          BY <5>1 DEF KeptInv, PrintInv
        <5> QED BY <1>0, <5>1, <5>2, OnePrint
      <4> QED BY <4>1, <4>2
    <3>2. CASE files' = files
      BY <3>2 DEF KeptInv, PrintInv, RefusedMeansRedone
    <3> QED BY <3>1, <3>2 DEF ClientStep, ResetBaseline, FetchAndSubmit, Replied, Mutate, Polled,
                              FetchManifest, Summarise
  <2> QED BY <1>0, <2>1, <2>2, <2>3 DEF PrintInv, RefusedMeansRedone
<1> QED BY <1>1, <1>4, <1>5 DEF KeptInv

LEMMA KeptStep ==
  ASSUME IInv, FrozenInv, FrozenInv', KeptInv, [DeliveryNext]_deliveryVars
  PROVE  KeptInv'
<1>1. TypeOK
  BY DEF IInv
<1>2. CASE ServiceStep /\ UNCHANGED <<erpVars, clientVars>>
  <2>1. ByteShape
    BY <1>2, ServiceShape
  <2>2. ASSUME NEW s \in Slots, Records(s) PROVE KeptInv'
    <3>1. PICK outcome \in Outcomes, hash \in Bytes \union {NoBytes} : Recording(s, outcome, hash)
      BY <2>2 DEF Records
    <3> QED BY <1>1, <1>2, <3>1, KeptRecord
  <2> QED BY <1>1, <1>2, <2>1, <2>2, KeptQuiet, KeptPrint, KeptUpload DEF ByteShape
<1>3. CASE ClientStep /\ UNCHANGED <<vars, bytesVars>>
  BY <1>3, KeptClient
<1>4. CASE UNCHANGED deliveryVars
  <2>1. Quiet /\ UNCHANGED clientVars
    BY <1>4 DEF deliveryVars, bytesVars, Quiet
  <2> QED BY <1>1, <2>1, KeptQuiet
<1> QED BY <1>2, <1>3, <1>4 DEF DeliveryNext

(* The invariant of the bytes and of the client. *)
THEOREM BytesAccounted == DeliverySpec => [](IInv /\ FrozenInv /\ KeptInv)
<1>1. DeliverySpec => []IInv /\ []TypeOK
  BY DeliveryIsRenderJob, Invariance, TypeCorrect, PTL
<1>2. DeliverySpec => []FrozenInv
  BY <1>1, FrozenInit, FrozenStep, PTL DEF DeliverySpec
<1>3. DeliverySpec => []KeptInv
  BY <1>1, <1>2, KeptInit, KeptStep, PTL DEF DeliverySpec
<1> QED BY <1>1, <1>2, <1>3, PTL

(* Every variable of the client, the ERP and the bytes keeps its type: a     *)
(* delivery that uploads or records has a PDF in hand, and every ledger row  *)
(* has its hash.                                                            *)
THEOREM DeliveryTyped == DeliverySpec => []DeliveryTypeOK
<1>1. IInv /\ FrozenInv /\ KeptInv => DeliveryTypeOK
  <2> SUFFICES ASSUME IInv, FrozenInv, KeptInv PROVE DeliveryTypeOK
    OBVIOUS
  <2>1. \A s \in Slots : pc[s] \in {"put", "append"} => printed[s] \in Bytes
    BY PrintsAreBytes DEF KeptInv, PrintInv, InHand
  <2>2. \A d \in Docs : DOMAIN hashes[d] = DOMAIN ledger[d]
    BY DEF IInv, TypeOK, FrozenInv, BytesInv
  <2> QED BY <2>1, <2>2 DEF DeliveryTypeOK, FrozenInv, ErpInv, BytesInv, FilesInv, KeptInv, StoreInv
<1> QED BY <1>1, BytesAccounted, PTL

(* api.md:96-98: the latest rendered row of a document has the hash of its   *)
(* stored artifact, over retries and redeliveries, except while a delivery   *)
(* is about to write its row and after a torn upload.                       *)
THEOREM SealedWhenAtRest == DeliverySpec => []SealedAtRest
<1>1. IInv /\ FrozenInv /\ KeptInv => SealedAtRest
  <2> SUFFICES ASSUME IInv, FrozenInv, KeptInv, NEW d \in Docs \ torn, Latest(d) = "rendered",
                      ~\E s \in Slots : doc[s] = d /\ pc[s] = "append"
               PROVE  Entry(d).hash = stored[d]
    BY DEF SealedAtRest
  <2>1. ledger[d] # <<>> /\ Len(hashes[d]) = Len(ledger[d])
    BY DEF Latest, FrozenInv, BytesInv
  <2> QED BY <2>1 DEF Entry, KeptInv, SealInv
<1> QED BY <1>1, BytesAccounted, PTL

(* download.js:9-10: a client refuses a file only when its document was      *)
(* rendered more than once.                                                 *)
THEOREM RefusalsAreRedone == DeliverySpec => []RefusedMeansRedone
<1>1. IInv /\ FrozenInv /\ KeptInv => RefusedMeansRedone
  BY DEF KeptInv, PrintInv
<1> QED BY <1>1, BytesAccounted, PTL

=============================================================================

------------------------------ MODULE Delivery ------------------------------
(***************************************************************************)
(* From the ERP to a verified file: the job protocol of RenderJob with the *)
(* bytes it stores and seals, and the client of scenarios/stale-data/run.js*)
(* that resets an entity of the mock ERP, submits the entities as a job,   *)
(* changes the entity while the job renders, polls, fetches the manifest   *)
(* (delivery.js) and downloads the files (client/download.js), checking    *)
(* the hash of each.                                                       *)
(*                                                                         *)
(* Bytes are the version of the entity they show and the number of the     *)
(* rendering: two renderings of one document never have the same bytes (a  *)
(* PDF carries its creation time).  Bytes stand for their own hash.        *)
(***************************************************************************)
EXTENDS RenderJob

CONSTANTS
  Target,   \* the document whose entity the client changes
  Retries   \* download retries (download.js: 2)

ASSUME TargetAssumption == Target \in Docs /\ Retries \in Nat

VARIABLES
  erp,        \* the version of each entity in the ERP
  submitted,  \* the versions the client read and posted, frozen in the snapshot
  prints,     \* renderings of each document so far
  printed,    \* the PDF each slot has in hand
  stored,     \* the artifact of each document
  hashes,     \* the hash column of the ledger rows of each document
  torn,       \* documents with an upload that overlapped another unrecorded one
              \* or was not recorded itself (history, for the properties)
  client,     \* where the client is
  manifest,   \* the entry of each document in the manifest it fetched
  tried,      \* failed attempts at each file
  files       \* the outcome of each download

bytesVars    == <<prints, printed, stored, hashes, torn>>
erpVars      == <<erp, submitted>>
clientVars   == <<client, manifest, tried, files>>
deliveryVars == <<vars, bytesVars, erpVars, clientVars>>

-----------------------------------------------------------------------------

Versions == {"seeded", "baseline", "mutated"}
NoBytes  == [version |-> "none", print |-> 0]
Bytes    == [version : Versions, print : Nat \ {0}]
Blank    == [status |-> "missing", hash |-> NoBytes]
Entries  == [status : Outcomes \union {"missing"}, hash : Bytes \union {NoBytes}]
ClientLabels == {"reset", "list", "post", "mutate", "poll", "manifest", "download",
                 "done", "refused"}
Results  == {"none", "verified", "mismatch"}

DeliveryTypeOK ==
  /\ erp \in [Docs -> Versions] /\ submitted \in [Docs -> Versions]
  /\ prints \in [Docs -> Nat]
  /\ printed \in [Slots -> Bytes \union {NoBytes}]
  /\ \A s \in Slots : pc[s] \in {"put", "append"} => printed[s] \in Bytes
  /\ stored \in [Docs -> Bytes \union {NoBytes}]
  /\ hashes \in [Docs -> Seq(Bytes \union {NoBytes})]
  /\ \A d \in Docs : DOMAIN hashes[d] = DOMAIN ledger[d]
  /\ torn \subseteq Docs
  /\ client \in ClientLabels
  /\ manifest \in [Docs -> Entries]
  /\ tried \in [Docs -> 0..Retries]
  /\ files \in [Docs -> Results]

\* An earlier run of the script may have left its change in the ERP.
DeliveryInit ==
  /\ Init
  /\ \E old \in {"seeded", "mutated"} : erp = [d \in Docs |-> IF d = Target THEN old ELSE "seeded"]
  /\ submitted = erp
  /\ prints = [d \in Docs |-> 0]
  /\ printed = [s \in Slots |-> NoBytes]
  /\ stored = [d \in Docs |-> NoBytes]
  /\ hashes = [d \in Docs |-> <<>>]
  /\ torn = {}
  /\ client = "reset"
  /\ manifest = [d \in Docs |-> Blank]
  /\ tried = [d \in Docs |-> 0]
  /\ files = [d \in Docs |-> "none"]

-----------------------------------------------------------------------------
(* renderDocument with its bytes.                                          *)

\* Mutant: the data is read from the ERP when the document is rendered.
Source_Live(d) == erp[d]

\* The data of a document is that of the snapshot.
Source(d) == submitted[d]

RenderBytes(s) ==
  LET d == doc[s] IN
  /\ Render(s)
  /\ IF pc'[s] = "put"
     THEN /\ prints' = [prints EXCEPT ![d] = @ + 1]
          /\ printed' = [printed EXCEPT ![s] = [version |-> Source(d), print |-> prints[d] + 1]]
     ELSE UNCHANGED <<prints, printed>>
  /\ UNCHANGED <<stored, hashes, torn>>

\* Another delivery of the document has stored its bytes, not yet their hash.
Unrecorded(s) == \E t \in Slots \ {s} : doc[t] = doc[s] /\ pc[t] = "append"

\* An upload that fails may have replaced the artifact.
PutBytes(s) ==
  LET d == doc[s]
      Replaced == stored' = [stored EXCEPT ![d] = printed[s]]
      failed   == faults' # faults IN
  /\ PutArtifact(s)
  /\ \/ d \in bucket' /\ Replaced
     \/ failed /\ (d \in bucket' => d \in bucket) /\ UNCHANGED stored
  /\ torn' = IF stored' # stored /\ (failed \/ Unrecorded(s)) THEN torn \union {d} ELSE torn
  /\ UNCHANGED <<prints, printed, hashes>>

\* Mutant: the hash is taken before the PDF is stamped.
SealedHash_Unstamped(s) == [printed[s] EXCEPT !.print = 0]

\* The hash of the bytes this delivery rendered.
SealedHash(s) == printed[s]

AppendBytes(s) ==
  LET d == doc[s] IN
  /\ AppendRendered(s)
  /\ IF ledger' = ledger
     THEN UNCHANGED hashes /\ torn' = torn \union {d}
     ELSE hashes' = [hashes EXCEPT ![d] = Append(@, SealedHash(s))] /\ UNCHANGED torn
  /\ UNCHANGED <<prints, printed, stored>>

AppendErrorBytes(s) ==
  /\ AppendError(s)
  /\ IF ledger' = ledger THEN UNCHANGED hashes
     ELSE hashes' = [hashes EXCEPT ![doc[s]] = Append(@, NoBytes)]
  /\ UNCHANGED <<prints, printed, stored, torn>>

\* What a slot does between two deliveries and around renderDocument's writes.
PlainStep(s) ==
  /\ \/ ReadRow(s) \/ MarkProcessing(s) \/ GetSnapshot(s)
     \/ IncrementCompleted(s) \/ IncrementFailed(s) \/ Release(s)
     \/ ClaimRead(s) \/ ClaimMarker(s) \/ FlushRead(s) \/ FlushRow(s) \/ FlushDel(s)
  /\ UNCHANGED bytesVars

End(s) ==
  /\ Ack(s) \/ Raise(s)
  /\ printed' = [printed EXCEPT ![s] = NoBytes]
  /\ UNCHANGED <<prints, stored, hashes, torn>>

CrashBytes(p) ==
  LET dying == {s \in Slots : Host[s] = p} IN
  /\ WorkerCrash(p)
  /\ printed' = [s \in Slots |-> IF s \in dying THEN NoBytes ELSE printed[s]]
  /\ torn' = torn \union {doc[s] : s \in {t \in dying : pc[t] = "append"}}
  /\ UNCHANGED <<prints, stored, hashes>>

BytesStep(s) == RenderBytes(s) \/ PutBytes(s) \/ AppendBytes(s) \/ AppendErrorBytes(s)
                  \/ PlainStep(s) \/ End(s)

Posted == client \notin {"reset", "list"}

ServiceStep ==
  \/ Posted /\ (ApiStep \/ ApiCrash) /\ UNCHANGED bytesVars
  \/ Deliver /\ UNCHANGED bytesVars
  \/ \E s \in Slots : BytesStep(s)
  \/ \E d \in Docs : (LoseLock(d) \/ StalledCheck(d)) /\ UNCHANGED bytesVars
  \/ \E p \in Procs : CrashBytes(p)

-----------------------------------------------------------------------------
(* The client and the ERP.                                                 *)

ClientGoto(from, to) == client = from /\ client' = to

\* PUT of the mock ERP: the entity is replaced by the merged one.
Put(d, version) == erp' = [erp EXCEPT ![d] = version]

ResetBaseline ==
  /\ ClientGoto("reset", "list") /\ Put(Target, "baseline")
  /\ UNCHANGED <<submitted, manifest, tried, files>>

\* fetchEntities and the POST that carries what it read.
FetchAndSubmit ==
  /\ ClientGoto("list", "post") /\ submitted' = erp
  /\ UNCHANGED <<erp, manifest, tried, files>>

\* 201, or a failed intake that makes the script throw.
Replied ==
  /\ client = "post" /\ api \in {"done", "dead"}
  /\ client' = IF row.status \in {"queued", "processing"} \union Finals THEN "mutate" ELSE "refused"
  /\ UNCHANGED <<erpVars, manifest, tried, files>>

Mutate ==
  /\ ClientGoto("mutate", "poll") /\ Put(Target, "mutated")
  /\ UNCHANGED <<submitted, manifest, tried, files>>

\* pollUntilTerminal ends.
Polled == ClientGoto("poll", "manifest") /\ Terminal /\ UNCHANGED <<erpVars, manifest, tried, files>>

\* Mutant: the first row of a document counts, not the last.
Entry_First(d) ==
  IF ledger[d] = <<>> THEN Blank ELSE [status |-> ledger[d][1], hash |-> hashes[d][1]]

\* latestPerDocument: the last row of a document is its outcome.
Entry(d) ==
  IF ledger[d] = <<>> THEN Blank
  ELSE [status |-> Latest(d), hash |-> hashes[d][Len(hashes[d])]]

FetchManifest ==
  /\ ClientGoto("manifest", "download")
  /\ manifest' = [d \in Docs |-> Entry(d)]
  /\ UNCHANGED <<erpVars, tried, files>>

Matches(d) == stored[d] = manifest[d].hash

\* Mutant: one retry too many.
Again_OneMore(d) == tried[d] <= Retries

Again(d) == tried[d] < Retries

\* downloadOne: the presigned URL gives what the bucket holds now.
Download(d) ==
  /\ client = "download" /\ manifest[d].status = "rendered" /\ files[d] = "none"
  /\ IF Matches(d) THEN files' = [files EXCEPT ![d] = "verified"] /\ UNCHANGED tried
     ELSE IF Again(d) THEN tried' = [tried EXCEPT ![d] = @ + 1] /\ UNCHANGED files
     ELSE files' = [files EXCEPT ![d] = "mismatch"] /\ UNCHANGED tried
  /\ UNCHANGED <<erpVars, client, manifest>>

\* Mutant: the files of error entries are waited for too.
Summarise_AllFiles ==
  /\ ClientGoto("download", "done")
  /\ \A d \in Docs : files[d] # "none"
  /\ UNCHANGED <<erpVars, manifest, tried, files>>

Summarise ==
  /\ ClientGoto("download", "done")
  /\ \A d \in Docs : manifest[d].status = "rendered" => files[d] # "none"
  /\ UNCHANGED <<erpVars, manifest, tried, files>>

ClientStep == ResetBaseline \/ FetchAndSubmit \/ Replied \/ Mutate \/ Polled
                \/ FetchManifest \/ (\E d \in Docs : Download(d)) \/ Summarise

DeliveryNext ==
  \/ ServiceStep /\ UNCHANGED <<erpVars, clientVars>>
  \/ ClientStep /\ UNCHANGED <<vars, bytesVars>>

DeliverySpec == DeliveryInit /\ [][DeliveryNext]_deliveryVars

\* A step of the service that is no failure.
Serves ==
  \/ Posted /\ ApiStep /\ UNCHANGED bytesVars
  \/ Deliver /\ UNCHANGED bytesVars
  \/ \E s \in Slots : BytesStep(s)
  \/ \E d \in Docs : StalledCheck(d) /\ UNCHANGED bytesVars

\* The system does not stop altogether while the service or the client can go on.
GoesOn == \/ Serves /\ UNCHANGED <<erpVars, clientVars>>
          \/ ClientStep /\ UNCHANGED <<vars, bytesVars>>

DeliveryFairSpec == DeliverySpec /\ WF_deliveryVars(GoesOn)

-----------------------------------------------------------------------------
(* Properties.                                                             *)

\* store.js:3-7, stale-data/run.js:3-11: whatever was in the ERP before, and
\* whenever it changes after the submission, a verified file shows the entity
\* as it was submitted.
FilesAreFrozen ==
  \A d \in Docs : files[d] = "verified" =>
    manifest[d].hash.version = IF d = Target THEN "baseline" ELSE "seeded"

\* api.md:96-98 "a mismatch means corruption or tampering": the latest row has
\* the hash of the stored artifact, over retries and redeliveries, except while
\* a delivery is about to write its row and after an upload that was cut or
\* overlapped another delivery's.
SealedAtRest ==
  \A d \in Docs \ torn :
    (Latest(d) = "rendered" /\ ~\E s \in Slots : doc[s] = d /\ pc[s] = "append")
      => Entry(d).hash = stored[d]

\* download.js:9-10: a file is refused only when its document was rendered
\* more than once.
RefusedMeansRedone == \A d \in Docs : files[d] = "mismatch" => prints[d] > 1

\* progress.js:78-90: the finalize is claimed and nobody flushes the row: its
\* winner died, or was told that another had won when its SET was sent again.
FinalizeAbandoned == Claimed /\ ~Terminal /\ \A s \in Slots : pc[s] \notin Flushing

\* download.js:3-10: the client gets to its summary, or to the rejection of its
\* job, over failed uploads, lost locks, commands sent again and dead processes;
\* only an abandoned finalize strands it.
ClientFinishes == <>(client \in {"done", "refused"} \/ FinalizeAbandoned)

=============================================================================

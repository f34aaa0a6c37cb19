-------------------------- MODULE JobIntakeProofs --------------------------
(***************************************************************************)
(* Machine-checked proofs about JobIntake, for any number of requests,     *)
(* keys and failures: POST /jobs implements KeyedCreate.                   *)
(***************************************************************************)
EXTENDS JobIntake, TLAPS

Fresh   == {"validate", "insert", "select"}
Driving == Calls \union {"promote", "reject"}

\* Before its INSERT a request has no row, after it it drives its own job; it
\* is answered last; a promoted row has seen every call of the intake.
DriveInv ==
  /\ \A r \in Requests : pc[r] \in Fresh => rows[r] = "none"
  /\ \A r \in Requests : pc[r] \in Driving => job[r] = r /\ rows[r] = "pending"
  /\ \A r \in Requests : pc[r] # "end" => reply[r].code = 0
  /\ \A r \in Requests : pc[r] = "select" => Key(r) # NoKey

ReplyInv ==
  \A r \in Requests :
    reply[r].code \in {200, 201, 502} =>
      /\ job[r] \in Requests /\ rows[job[r]] # "none"
      /\ r = job[r] \/ (Key(r) = Key(job[r]) /\ Key(r) # NoKey)

OrderInv ==
  \A r \in Requests :
    /\ pc[r] = "progress" => "snapshot" \in intake[r]
    /\ pc[r] = "enqueue" => {"snapshot", "progress"} \subseteq intake[r]
    /\ pc[r] = "promote" \/ rows[r] = "queued" => intake[r] = Calls

IInv == TypeOK /\ DriveInv /\ ReplyInv /\ OrderInv /\ ReplyTellsTheRow

(* The invariant holds initially. *)
LEMMA InvInit == Init => IInv
BY FaultAssumption
   DEF Init, IInv, TypeOK, Statuses, Labels, Replies, NoReply, DriveInv, ReplyInv, OrderInv,
       ReplyTellsTheRow, Fresh, Driving, Calls

(* Moving a request on, and answering it, keep the types of pc and reply. *)
LEMMA GotoTyped ==
  ASSUME TypeOK, NEW r \in Requests, NEW from, NEW to \in Labels, Goto(r, from, to)
  PROVE  pc' \in [Requests -> Labels] /\ reply' \in [Requests -> Replies]
BY DEF TypeOK, Goto

LEMMA RespondTyped ==
  ASSUME TypeOK, NEW r \in Requests, NEW from, NEW s \in Statuses,
         NEW c \in {0, 200, 201, 400, 500, 502}, Respond(r, from, c, s)
  PROVE  pc' \in [Requests -> Labels] /\ reply' \in [Requests -> Replies]
<1>1. [code |-> c, status |-> s] \in Replies
  BY DEF Replies
<1>2. "end" \in Labels
  BY DEF Labels
<1> QED
  BY <1>1, <1>2 DEF TypeOK, Respond

LEMMA FaultTyped == ASSUME TypeOK, NEW kind, Fault(kind) PROVE faults' \in 0..MaxFaults
BY FaultAssumption DEF TypeOK, Fault

(* A row that is set, or left alone, keeps its type. *)
LEMMA RowTyped ==
  ASSUME TypeOK, NEW r \in Requests, NEW s \in Statuses, SetRow(r, s) \/ UNCHANGED rows
  PROVE  rows' \in [Requests -> Statuses]
BY DEF TypeOK, SetRow

LEMMA CallTyped ==
  ASSUME TypeOK, DriveInv, NEW r \in Requests, NEW call \in Calls, NEW next \in Labels,
         NEW kind, Call(r, call, next, kind)
  PROVE  TypeOK'
<1>1. "reject" \in Labels /\ call \in Labels
  BY DEF Labels
<1>2. pc' \in [Requests -> Labels] /\ reply' \in [Requests -> Replies]
  BY <1>1, GotoTyped DEF Call
<1>3. job[r] \in Requests
  <2>1. pc[r] = call
    BY DEF Call, Goto
  <2> QED
    BY <2>1 DEF DriveInv, Driving
<1>4. intake' \in [Requests -> SUBSET Calls]
  <2>1. CASE UNCHANGED intake
    BY <2>1 DEF TypeOK
  <2>2. CASE Done(r, call)
    <3>1. intake[job[r]] \union {call} \in SUBSET Calls
      BY <1>3 DEF TypeOK
    <3> QED
      BY <2>2, <3>1, <1>3 DEF TypeOK, Done
  <2> QED
    BY <2>1, <2>2 DEF Call
<1>5. faults' \in 0..MaxFaults
  BY FaultTyped DEF Call, NoFault, TypeOK
<1> QED
  BY <1>2, <1>4, <1>5 DEF TypeOK, Call

(* Every variable keeps its type. *)
LEMMA TypeStep == TypeOK /\ DriveInv /\ [Next]_vars => TypeOK'
<1> SUFFICES ASSUME TypeOK, DriveInv, [Next]_vars PROVE TypeOK'
  OBVIOUS
<1>a. /\ "none" \in Statuses /\ "pending" \in Statuses /\ "queued" \in Statuses
      /\ "failed" \in Statuses
  BY DEF Statuses
<1>b. /\ "insert" \in Labels /\ "snapshot" \in Labels /\ "select" \in Labels
      /\ "progress" \in Labels /\ "enqueue" \in Labels /\ "promote" \in Labels
      /\ "end" \in Labels /\ "validate" \in Labels
  BY DEF Labels, Calls
<1>c. "snapshot" \in Calls /\ "progress" \in Calls /\ "enqueue" \in Calls
  BY DEF Calls
<1>d. Die => pc' \in [Requests -> Labels] /\ reply' \in [Requests -> Replies]
  BY <1>b DEF Die, TypeOK
<1>1. ASSUME NEW r \in Requests, Validate(r) PROVE TypeOK'
  BY <1>1, <1>a, <1>b, GotoTyped, RespondTyped DEF Validate, TypeOK
<1>2. ASSUME NEW r \in Requests, Insert(r) PROVE TypeOK'
  <2>1. pc' \in [Requests -> Labels] /\ reply' \in [Requests -> Replies]
    BY <1>2, <1>a, <1>b, GotoTyped, RespondTyped DEF Insert
  <2>2. rows' \in [Requests -> Statuses]
    BY <1>2, <1>a, RowTyped DEF Insert, Created
  <2>3. job' \in [Requests -> Requests \union {NoJob}]
    BY <1>2 DEF Insert, Created, TypeOK
  <2>4. faults' \in 0..MaxFaults
    BY <1>2, FaultTyped DEF Insert, NoFault, TypeOK
  <2>5. UNCHANGED intake
    BY <1>2 DEF Insert
  <2> QED
    BY <2>1, <2>2, <2>3, <2>4, <2>5 DEF TypeOK
<1>3. ASSUME NEW r \in Requests, Select(r) PROVE TypeOK'
  <2>1. pc' \in [Requests -> Labels] /\ reply' \in [Requests -> Replies]
    <3>1. \A q \in Requests : rows[q] \in Statuses
      BY DEF TypeOK
    <3> QED
      BY <1>3, <3>1, <1>a, RespondTyped DEF Select
  <2>2. job' \in [Requests -> Requests \union {NoJob}]
    BY <1>3 DEF Select, TypeOK
  <2>3. faults' \in 0..MaxFaults
    BY <1>3, FaultTyped DEF Select, NoFault, TypeOK
  <2>4. UNCHANGED <<rows, intake>>
    BY <1>3 DEF Select
  <2> QED
    BY <2>1, <2>2, <2>3, <2>4 DEF TypeOK
<1>4. ASSUME NEW r \in Requests, PutSnapshot(r) PROVE TypeOK'
  BY <1>4, <1>b, <1>c, CallTyped DEF PutSnapshot
<1>5. ASSUME NEW r \in Requests, InitProgress(r) PROVE TypeOK'
  BY <1>5, <1>b, <1>c, CallTyped DEF InitProgress
<1>6. ASSUME NEW r \in Requests, Enqueue(r) PROVE TypeOK'
  BY <1>6, <1>b, <1>c, CallTyped DEF Enqueue
<1>7. ASSUME NEW r \in Requests, Promote(r) PROVE TypeOK'
  <2>1. pc' \in [Requests -> Labels] /\ reply' \in [Requests -> Replies]
    BY <1>7, <1>a, RespondTyped DEF Promote
  <2>2. job[r] \in Requests
    BY <1>7 DEF Promote, Respond, DriveInv, Driving
  <2>3. rows' \in [Requests -> Statuses]
    BY <1>7, <2>2, <1>a, RowTyped DEF Promote
  <2>4. faults' \in 0..MaxFaults
    BY <1>7, FaultTyped DEF Promote, NoFault, TypeOK
  <2> QED
    BY <1>7, <2>1, <2>3, <2>4 DEF TypeOK, Promote
<1>8. ASSUME NEW r \in Requests, Reject(r) PROVE TypeOK'
  <2>1. pc' \in [Requests -> Labels] /\ reply' \in [Requests -> Replies]
    BY <1>8, <1>a, <1>d, RespondTyped DEF Reject
  <2>2. job[r] \in Requests
    BY <1>8 DEF Reject, Respond, DriveInv, Driving
  <2>3. rows' \in [Requests -> Statuses]
    BY <1>8, <2>2, <1>a, RowTyped DEF Reject
  <2>4. faults' \in 0..MaxFaults
    BY <1>8, FaultTyped DEF Reject, NoFault, TypeOK
  <2> QED
    BY <1>8, <2>1, <2>3, <2>4 DEF TypeOK, Reject
<1>9. CASE Crash
  BY <1>9, <1>d, FaultTyped DEF Crash, TypeOK
<1>10. CASE UNCHANGED vars
  BY <1>10 DEF TypeOK, vars
<1> QED
  BY <1>1, <1>2, <1>3, <1>4, <1>5, <1>6, <1>7, <1>8, <1>9, <1>10 DEF Next, Step

(* A request that drives a job drives its own, and nobody else's. *)
LEMMA InvStep == IInv /\ [Next]_vars => IInv'
<1> SUFFICES ASSUME IInv, [Next]_vars PROVE IInv'
  OBVIOUS
<1> DEFINE Inv == DriveInv /\ ReplyInv /\ OrderInv /\ ReplyTellsTheRow
<1>0. TypeOK'
  BY TypeStep DEF IInv
<1> USE DEF vars, Fault, NoFault, Goto, Respond, SetRow, Calls,
            IInv, TypeOK, DriveInv, ReplyInv, OrderInv, ReplyTellsTheRow, Fresh, Driving
<1>1. ASSUME NEW r \in Requests, Validate(r) PROVE Inv'
  BY <1>1 DEF Validate
<1>2. ASSUME NEW r \in Requests, Insert(r) PROVE Inv'
  BY <1>2 DEF Insert, Created, Taken
<1>3. ASSUME NEW r \in Requests, Select(r) PROVE Inv'
  <2>0. UNCHANGED <<rows, intake>> /\ pc' = [pc EXCEPT ![r] = "end"] /\ pc[r] = "select"
    BY <1>3 DEF Select
  <2>1. DriveInv'
    <3>1. \A q \in Requests : q # r => reply'[q] = reply[q] /\ job'[q] = job[q]
      BY <1>3 DEF Select
    <3> QED
      BY <2>0, <3>1
  <2>2. OrderInv'
    BY <2>0
  <2>3. ReplyInv' /\ ReplyTellsTheRow'
    <3>1. CASE Respond(r, "select", 500, "none") /\ UNCHANGED job
      BY <2>0, <3>1
    <3>2. ASSUME NEW q \in Requests, rows[q] # "none", Key(q) = Key(r),
                 Respond(r, "select", 200, rows[q]), job' = [job EXCEPT ![r] = q]
          PROVE  ReplyInv' /\ ReplyTellsTheRow'
      BY <2>0, <3>2
    <3> QED
      BY <1>3, <3>1, <3>2 DEF Select
  <2> QED
    BY <2>1, <2>2, <2>3
<1>4. ASSUME NEW r \in Requests, PutSnapshot(r) PROVE Inv'
  BY <1>4 DEF PutSnapshot, Call, Done
<1>5. ASSUME NEW r \in Requests, InitProgress(r) PROVE Inv'
  BY <1>5 DEF InitProgress, Call, Done
<1>6. ASSUME NEW r \in Requests, Enqueue(r) PROVE Inv'
  BY <1>6 DEF Enqueue, Call, Done
<1>7. ASSUME NEW r \in Requests, Promote(r) PROVE Inv'
  BY <1>7 DEF Promote
<1>8. ASSUME NEW r \in Requests, Reject(r) PROVE Inv'
  BY <1>8 DEF Reject, Die
<1>9. CASE Crash
  <2>1. \A r \in Requests : pc'[r] \in {pc[r], "end"}
    BY <1>9 DEF Crash, Die
  <2>2. UNCHANGED <<rows, intake, job, reply>>
    BY <1>9 DEF Crash, Die
  <2>3. DriveInv'
    BY <2>1, <2>2
  <2>4. OrderInv'
    BY <2>1, <2>2
  <2>5. ReplyInv' /\ ReplyTellsTheRow'
    BY <2>2
  <2> QED
    BY <1>0, <2>3, <2>4, <2>5
<1>10. CASE UNCHANGED vars
  BY <1>10
<1> QED
  BY <1>0, <1>1, <1>2, <1>3, <1>4, <1>5, <1>6, <1>7, <1>8, <1>9, <1>10 DEF Next, Step

(* POST /jobs keeps its invariant, whatever the requests and the failures. *)
THEOREM Invariance == Spec => []IInv
<1>1. IInv /\ [Next]_vars => IInv'
  BY InvStep
<1> QED
  BY InvInit, <1>1, PTL DEF Spec

(* Every variable keeps its type; no more failures happen than were allowed. *)
THEOREM TypeCorrect == Spec => []TypeOK
<1>1. IInv => TypeOK
  BY DEF IInv
<1> QED
  BY Invariance, <1>1, PTL

(* jobs.js:13-18: two requests never drive the same job, and a queued row    *)
(* has seen every call of the intake.                                       *)
THEOREM OnlyTheCreatorDrives == Spec => []CreatorDrives
<1>1. IInv => CreatorDrives
  BY DEF IInv, DriveInv, OrderInv, CreatorDrives, Driving
<1> QED
  BY Invariance, <1>1, PTL

(* api.md, the answers 400 and 502: what a request is told of its row stays  *)
(* true.                                                                    *)
THEOREM RepliesTellTheRow == Spec => []ReplyTellsTheRow
<1>1. IInv => ReplyTellsTheRow
  BY DEF IInv
<1> QED
  BY Invariance, <1>1, PTL

(* jobs.js:22-26 "never a 500": losing the race for a key is no reason for   *)
(* one; only a failure is.                                                  *)
THEOREM RacesAreNotErrors == Spec => []NeverServerError
<1>1. Init => NeverServerError
  BY DEF Init, NeverServerError, NoReply
<1>2. TypeOK /\ NeverServerError /\ [Next]_vars => NeverServerError'
  <2> SUFFICES ASSUME TypeOK, NeverServerError, [Next]_vars, faults' = 0,
                      NEW q \in Requests
               PROVE  reply'[q].code # 500
    BY DEF NeverServerError
  <2>1. faults \in Nat /\ \A kind : Fault(kind) => faults' # 0
    BY FaultAssumption DEF TypeOK, Fault
  <2>2. reply \in [Requests -> Replies]
    BY DEF TypeOK
  <2>3. CASE UNCHANGED reply
    <3>1. faults = 0
      <4>1. faults' \in {faults, faults + 1}
        BY DEF Next, Step, vars, Validate, Insert, Select, PutSnapshot, InitProgress, Enqueue,
               Call, Promote, Reject, Crash, Fault, NoFault
      <4> QED
        BY <2>1, <4>1
    <3> QED
      BY <2>3, <3>1 DEF NeverServerError
  <2>4. ASSUME NEW r \in Requests, NEW from, NEW code, NEW s, Respond(r, from, code, s),
               code # 500, NoFault
        PROVE  reply'[q].code # 500
    BY <2>2, <2>4 DEF Respond, NeverServerError, NoFault
  <2>5. CASE Crash
    BY <2>1, <2>5 DEF Crash
  <2>6. ASSUME NEW r \in Requests, Step(r) PROVE reply'[q].code # 500
    <3>1. CASE Validate(r)
      BY <2>3, <2>4, <3>1 DEF Validate, Goto, NoFault
    <3>2. CASE Insert(r)
      BY <2>1, <2>3, <3>2 DEF Insert, Goto
    <3>3. CASE Select(r)
      BY <2>1, <2>4, <3>3 DEF Select
    <3>4. CASE PutSnapshot(r) \/ InitProgress(r) \/ Enqueue(r)
      BY <2>3, <3>4 DEF PutSnapshot, InitProgress, Enqueue, Call, Goto
    <3>5. CASE Promote(r) \/ Reject(r)
      BY <2>1, <2>4, <3>5 DEF Promote, Reject
    <3> QED
      BY <2>6, <3>1, <3>2, <3>3, <3>4, <3>5 DEF Step
  <2> QED
    BY <2>3, <2>5, <2>6 DEF Next, vars
<1>3. IInv => TypeOK
  BY DEF IInv
<1> QED
  BY Invariance, <1>1, <1>2, <1>3, PTL DEF Spec

-----------------------------------------------------------------------------
(* The refinement of KeyedCreate.                                          *)

created == {r \in Requests : rows[r] # "none"}
told    == [r \in Requests |-> IF Answered(r) THEN job[r] ELSE NoJob]

(* A step that creates no row and tells nobody about a job is a stutter. *)
LEMMA QuietStep ==
  ASSUME created' = created, told' = told
  PROVE  UNCHANGED Promise!vars
BY DEF Promise!vars, created, told

(* A request that is told of an existing job under its key is an Answer. *)
LEMMA TellStep ==
  ASSUME NEW r \in Requests, NEW q \in created, created' = created,
         r = q \/ (Key(r) = Key(q) /\ Key(r) # NoKey),
         told[r] = NoJob, told' = [told EXCEPT ![r] = q]
  PROVE  Promise!Next
<1>1. Promise!SameKey(r, q)
  BY DEF Promise!SameKey
<1>2. Promise!Answer(r)
  BY <1>1 DEF Promise!Answer, created, told
<1> QED
  BY <1>2 DEF Promise!Next

(* A row that appears under a key nobody has is a Create. *)
LEMMA CreateStep ==
  ASSUME NEW r \in Requests, rows[r] = "none", ~Taken(r),
         created' = created \union {r}, told' = told
  PROVE  Promise!Next
<1>1. \A q \in created : ~Promise!SameKey(r, q)
  BY DEF Promise!SameKey, Taken, created
<1>2. Promise!Create(r)
  BY <1>1 DEF Promise!Create, created, told
<1> QED
  BY <1>2 DEF Promise!Next

(* Only an answer changes what a request is told. *)
LEMMA SameTold ==
  ASSUME \A r \in Requests : \/ ~Answered(r) /\ ~Answered(r)'
                             \/ reply'[r] = reply[r] /\ job'[r] = job[r]
  PROVE  told' = told
BY DEF told, Answered

LEMMA NewlyTold ==
  ASSUME NEW r \in Requests, ~Answered(r), Answered(r)',
         \A q \in Requests : q # r => reply'[q] = reply[q] /\ job'[q] = job[q]
  PROVE  told[r] = NoJob /\ told' = [told EXCEPT ![r] = job'[r]]
<1>1. told[r] = NoJob /\ told'[r] = job'[r]
  BY DEF told
<1>2. \A q \in Requests : q # r => told'[q] = told[q]
  BY DEF told, Answered
<1>3. told \in [Requests -> {told[q] : q \in Requests}] /\ told' = [q \in Requests |-> told'[q]]
  BY DEF told
<1> QED
  BY <1>1, <1>2, <1>3

LEMMA SameCreated ==
  ASSUME \A r \in Requests : rows[r] = "none" <=> rows'[r] = "none"
  PROVE  created' = created
BY DEF created


LEMMA RefineInit == Init => Promise!Init
BY DEF Init, Promise!Init, Answered, NoReply

LEMMA RefineStep == IInv /\ IInv' /\ [Next]_vars => [Promise!Next]_(Promise!vars)
<1> SUFFICES ASSUME IInv, IInv', [Next]_vars PROVE Promise!Next \/ UNCHANGED Promise!vars
  OBVIOUS
<1>t. pc \in [Requests -> Labels] /\ reply \in [Requests -> Replies]
  BY DEF IInv, TypeOK
<1>n. \A r \in Requests : pc[r] # "end" => ~Answered(r)
  BY DEF IInv, DriveInv, Answered
<1>o. \A r \in Requests : pc[r] \in Driving => job[r] = r /\ rows[r] = "pending"
  BY DEF IInv, DriveInv
<1>1. ASSUME NEW r \in Requests, Validate(r) PROVE UNCHANGED Promise!vars
  <2>1. created' = created
    BY <1>1, SameCreated DEF Validate
  <2>2. told' = told
    <3>1. pc[r] = "validate"
      BY <1>1 DEF Validate, Goto, Respond
    <3>2. ~Answered(r)'
      BY <1>1, <1>t, <1>n, <3>1 DEF Validate, Goto, Respond, Answered
    <3>3. \A q \in Requests : q # r => reply'[q] = reply[q] /\ job'[q] = job[q]
      BY <1>1, <1>t DEF Validate, Goto, Respond
    <3>4. \A q \in Requests : \/ ~Answered(q) /\ ~Answered(q)'
                              \/ reply'[q] = reply[q] /\ job'[q] = job[q]
      <4> TAKE q \in Requests
      <4>1. CASE q = r
        BY <1>n, <3>1, <3>2, <4>1
      <4>2. CASE q # r
        BY <3>3, <4>2
      <4> QED
        BY <4>1, <4>2
    <3> QED
      BY <3>4, SameTold
  <2> QED
    BY <2>1, <2>2, QuietStep
<1>2. ASSUME NEW r \in Requests, Insert(r) PROVE Promise!Next \/ UNCHANGED Promise!vars
  <2>1. pc[r] = "insert"
    BY <1>2 DEF Insert, Goto, Respond
  <2>2. told' = told
    <3>1. ~Answered(r)'
      BY <1>2, <1>t, <1>n, <2>1 DEF Insert, Goto, Respond, Answered
    <3>2. \A q \in Requests : q # r => reply'[q] = reply[q] /\ job'[q] = job[q]
      BY <1>2, <1>t DEF Insert, Goto, Respond, Created, IInv, TypeOK
    <3>3. \A q \in Requests : \/ ~Answered(q) /\ ~Answered(q)'
                              \/ reply'[q] = reply[q] /\ job'[q] = job[q]
      <4> TAKE q \in Requests
      <4>1. CASE q = r
        BY <1>n, <2>1, <3>1, <4>1 DEF Answered
      <4>2. CASE q # r
        BY <3>2, <4>2
      <4> QED
        BY <4>1, <4>2
    <3> QED
      BY <3>3, SameTold
  <2>3. CASE UNCHANGED rows
    BY <2>2, <2>3, SameCreated, QuietStep
  <2>4. CASE ~Taken(r) /\ SetRow(r, "pending")
    <3>1. rows[r] = "none"
      BY <2>1 DEF IInv, DriveInv, Fresh
    <3>2. created' = created \union {r}
      BY <2>4 DEF created, SetRow, IInv, TypeOK
    <3> QED
      BY <2>2, <2>4, <3>1, <3>2, CreateStep
  <2> QED
    BY <1>2, <2>3, <2>4 DEF Insert, Created
<1>3. ASSUME NEW r \in Requests, Select(r) PROVE Promise!Next \/ UNCHANGED Promise!vars
  <2>1. pc[r] = "select" /\ ~Answered(r) /\ Key(r) # NoKey
    BY <1>3, <1>n DEF Select, Respond, IInv, DriveInv
  <2>2. created' = created
    BY <1>3, SameCreated DEF Select
  <2>3. \A q \in Requests : q # r => reply'[q] = reply[q] /\ job'[q] = job[q]
    BY <1>3, <1>t DEF Select, Respond, IInv, TypeOK
  <2>4. CASE Respond(r, "select", 500, "none")
    <3>1. ~Answered(r)'
      BY <2>4, <1>t DEF Respond, Answered
    <3>2. \A q \in Requests : \/ ~Answered(q) /\ ~Answered(q)'
                              \/ reply'[q] = reply[q] /\ job'[q] = job[q]
      <4> TAKE q \in Requests
      <4>1. CASE q = r
        BY <2>1, <3>1, <4>1 DEF Answered
      <4>2. CASE q # r
        BY <2>3, <4>2
      <4> QED
        BY <4>1, <4>2
    <3> QED
      BY <2>2, <3>2, SameTold, QuietStep
  <2>5. ASSUME NEW q \in Requests, rows[q] # "none", Key(q) = Key(r),
               Respond(r, "select", 200, rows[q]), job' = [job EXCEPT ![r] = q]
        PROVE  Promise!Next
    <3>1. Answered(r)' /\ job'[r] = q
      BY <2>5, <1>t DEF Respond, Answered, IInv, TypeOK
    <3>2. q \in created
      BY <2>5 DEF created
    <3> QED
      BY <2>1, <2>2, <2>3, <2>5, <3>1, <3>2, NewlyTold, TellStep
  <2> QED
    BY <1>3, <2>4, <2>5 DEF Select
<1>4. ASSUME UNCHANGED <<rows, job, reply>> PROVE UNCHANGED Promise!vars
  BY <1>4, SameCreated, SameTold, QuietStep
<1>5. ASSUME NEW r \in Requests, NEW s \in {"queued", "failed"}, NEW code \in {201, 502},
             NEW from \in Driving, NEW t, Respond(r, from, code, t),
             SetRow(job[r], s) \/ UNCHANGED rows, UNCHANGED job
      PROVE  Promise!Next
  <2>1. job[r] = r /\ rows[r] = "pending" /\ ~Answered(r)
    BY <1>5, <1>n, <1>o DEF Respond, Driving, Calls
  <2>2. created' = created
    BY <1>5, <2>1, SameCreated DEF SetRow, IInv, TypeOK
  <2>3. Answered(r)' /\ job'[r] = r
    BY <1>5, <1>t, <2>1 DEF Respond, Answered
  <2>4. \A q \in Requests : q # r => reply'[q] = reply[q] /\ job'[q] = job[q]
    BY <1>5, <1>t DEF Respond
  <2>5. r \in created
    BY <2>1 DEF created
  <2> QED
    BY <2>1, <2>2, <2>3, <2>4, <2>5, NewlyTold, TellStep
<1>6. ASSUME NEW r \in Requests, Promote(r) PROVE Promise!Next
  BY <1>5, <1>6 DEF Promote, Driving
<1>7. ASSUME NEW r \in Requests, Reject(r) PROVE Promise!Next \/ UNCHANGED Promise!vars
  <2>1. CASE Respond(r, "reject", 502, "none") /\ SetRow(job[r], "failed")
    BY <1>5, <1>7, <2>1 DEF Reject, Driving
  <2>2. CASE /\ pc[r] = "reject" /\ UNCHANGED <<reply, job>>
             /\ SetRow(job[r], "failed") \/ UNCHANGED rows
    <3>1. created' = created
      BY <1>o, <2>2, SameCreated DEF SetRow, IInv, TypeOK, Driving
    <3> QED
      BY <2>2, <3>1, SameTold, QuietStep
  <2> QED
    BY <1>7, <2>1, <2>2 DEF Reject, Die
<1>8. ASSUME NEW r \in Requests, PutSnapshot(r) \/ InitProgress(r) \/ Enqueue(r)
      PROVE  UNCHANGED Promise!vars
  BY <1>4, <1>8 DEF PutSnapshot, InitProgress, Enqueue, Call, Goto
<1>9. CASE Crash
  BY <1>4, <1>9 DEF Crash, Die
<1>10. CASE UNCHANGED vars
  BY <1>4, <1>10 DEF vars
<1> QED
  BY <1>1, <1>2, <1>3, <1>6, <1>7, <1>8, <1>9, <1>10 DEF Next, Step

(* jobs.js:22-26, api.md "idempotency-key replay": the intake implements     *)
(* KeyedCreate, so a key creates one job and every answer is about it.      *)
THEOREM KeyedCreateRefined == Spec => KeyCreatesOnce
<1>1. [Next]_vars /\ IInv /\ IInv' => [Promise!Next]_(Promise!vars)
  BY RefineStep
<1> QED
  BY RefineInit, Invariance, <1>1, PTL DEF Spec, KeyCreatesOnce, Promise!Spec

=============================================================================

---------------------------- MODULE BrowserPool ----------------------------
(***************************************************************************)
(* The page pool of one worker process (browserPool.js): Size pages of one *)
(* Chromium, handed to tasks of two lanes, Reserved of them kept for the   *)
(* single lane.  Node runs one callback at a time: an action is the code   *)
(* between two awaits, and what other tasks do meanwhile interleaves       *)
(* there.                                                                  *)
(*                                                                         *)
(* A page belongs to the Chromium that opened it; when that dies, so do    *)
(* all its pages, which the pool and the tasks may still hold.             *)
(***************************************************************************)
EXTENDS Integers, Sequences, FiniteSets, Functions, SequencesExt

CONSTANTS
  Singles, Bulks,   \* the tasks of each lane a worker runs concurrently
  Size, Reserved,   \* N and k
  Pages,            \* page objects; one nobody holds any more may come back
  Faults,           \* kinds of failure that may happen
  MaxFaults,        \* bound on the number of failures
  NoPage            \* null value

Tasks == Singles \union Bulks

FaultKinds == {"page", "newPage", "browser", "launch"}

ASSUME TasksAssumption == Singles \intersect Bulks = {} /\ IsFiniteSet(Tasks)
ASSUME SizeAssumption  == Size \in Nat \ {0} /\ Reserved \in Nat
ASSUME PagesAssumption == /\ NoPage \notin Pages
                          /\ \E f \in [1..Size -> Pages] : IsInjective(f)
ASSUME FaultAssumption == Faults \subseteq FaultKinds /\ MaxFaults \in Nat

\* N - k, where k is cut to N.
BulkCap == IF Reserved <= Size THEN Size - Reserved ELSE 0

VARIABLES
  browser,        \* "up": this.browser is set and connected; "closed" by close()
  open,           \* the pages open in it
  launch,         \* where a relaunch is
  opened,         \* pages its loop has opened
  idle,           \* pages ready to be handed out, last one first
  all,            \* pages of the current browser, for their number
  singleWaiters, bulkWaiters,
  bulkInFlight,
  at,             \* where each task is in acquire or release
  page,           \* the page each task has in hand
  faults          \* failures so far, of each kind

poolVars == <<idle, all, singleWaiters, bulkWaiters, bulkInFlight>>
vars     == <<browser, open, launch, opened, poolVars, at, page, faults>>

Alive == browser = "up"

Labels == {"out", "waiting", "using", "reset", "close", "replace", "replaceLost",
           "discard", "relaunch"}

TypeOK ==
  /\ browser \in {"up", "down", "closed"}
  /\ open \subseteq Pages /\ all \subseteq Pages
  /\ launch \in {"none", "starting", "opening"} /\ opened \in 0..Size
  /\ idle \in Seq(Pages)
  /\ singleWaiters \in Seq(Singles) /\ bulkWaiters \in Seq(Bulks)
  /\ bulkInFlight \in 0..BulkCap
  /\ at \in [Tasks -> Labels]
  /\ page \in [Tasks -> Pages \union {NoPage}]
  /\ \A t \in Tasks : page[t] = NoPage <=> at[t] \in {"out", "waiting", "relaunch"}
  /\ faults \in [FaultKinds -> 0..MaxFaults]

\* start() has opened the pool before the workers take their first task.
Init ==
  /\ idle = CHOOSE f \in [1..Size -> Pages] : IsInjective(f)
  /\ all = ToSet(idle) /\ open = all
  /\ browser = "up" /\ launch = "none" /\ opened = 0
  /\ singleWaiters = <<>> /\ bulkWaiters = <<>> /\ bulkInFlight = 0
  /\ at = [t \in Tasks |-> "out"]
  /\ page = [t \in Tasks |-> NoPage]
  /\ faults = [kind \in FaultKinds |-> 0]

Failures == faults["page"] + faults["newPage"] + faults["browser"] + faults["launch"]

Fault(kind) ==
  /\ kind \in Faults /\ Failures < MaxFaults
  /\ faults' = [faults EXCEPT ![kind] = @ + 1]

NoFault     == UNCHANGED faults

-----------------------------------------------------------------------------
(* _dispatch: singles first, then bulks up to their cap.                   *)

Least(m, n) == IF m <= n THEN m ELSE n
Room(n)     == IF n < BulkCap THEN BulkCap - n ELSE 0

\* Mutant: bulks first.
Served_BulkFirst(n, singles, bulks, inFlight) ==
  LET b == Least(n, Least(Len(bulks), Room(inFlight)))
  IN  [single |-> Least(n - b, Len(singles)), bulk |-> b]

\* Mutant: no cap on the bulk lane.
Served_Uncapped(n, singles, bulks, inFlight) ==
  LET s == Least(n, Len(singles))
  IN  [single |-> s, bulk |-> Least(n - s, Len(bulks))]

\* How many of each lane are served with n idle pages.
Served(n, singles, bulks, inFlight) ==
  LET s == Least(n, Len(singles))
  IN  [single |-> s, bulk |-> Least(n - s, Least(Len(bulks), Room(inFlight)))]

First(queue, n) == SubSeq(queue, 1, n)
Rest(queue, n)  == SubSeq(queue, n + 1, Len(queue))

\* The dispatch that ends an event which left the idle pages i, the waiters
\* s and b, the in-flight count f, and the tasks where a says: the last idle
\* page goes to the first one served, and so on.
Dispatch(i, s, b, f, a) ==
  LET n       == Served(Len(i), s, b, f)
      served  == First(s, n.single) \o First(b, n.bulk)
      S       == ToSet(served)
      pageFor == [t \in S |-> i[Len(i) + 1 - CHOOSE k \in DOMAIN served : served[k] = t]]
  IN  /\ idle' = First(i, Len(i) - Len(served))
      /\ singleWaiters' = Rest(s, n.single) /\ bulkWaiters' = Rest(b, n.bulk)
      /\ bulkInFlight' = f + n.bulk
      /\ at' = [t \in Tasks |-> IF t \in S THEN "using" ELSE a[t]]
      /\ page' = [t \in Tasks |-> IF t \in S THEN pageFor[t]
                                  ELSE IF a[t] = "out" THEN NoPage ELSE page[t]]

Move(t, to) == [at EXCEPT ![t] = to]

Acquire(t) ==
  /\ at[t] = "out" /\ browser # "closed"
  /\ IF t \in Bulks
     THEN Dispatch(idle, singleWaiters, Append(bulkWaiters, t), bulkInFlight, Move(t, "waiting"))
     ELSE Dispatch(idle, Append(singleWaiters, t), bulkWaiters, bulkInFlight, Move(t, "waiting"))
  /\ UNCHANGED <<browser, open, launch, opened, all, faults>>

-----------------------------------------------------------------------------
(* release, from the first await of one step to the next.                  *)

\* A dead browser is relaunched once; later callers await the same promise.
JoinRelaunch(t) ==
  /\ launch' = IF launch = "none" THEN "starting" ELSE launch
  /\ at' = Move(t, "relaunch") /\ page' = [page EXCEPT ![t] = NoPage]

Proceed(t, to) == at' = Move(t, to) /\ UNCHANGED <<launch, page>>

\* Mutant: the lane of the release is not the lane of the acquire.
ReleaseStart_LaneLost(t) ==
  /\ at[t] = "using"
  /\ IF Alive THEN Proceed(t, "reset") ELSE JoinRelaunch(t)
  /\ UNCHANGED <<browser, open, opened, poolVars, faults>>

ReleaseStart(t) ==
  /\ at[t] = "using"
  /\ bulkInFlight' = IF t \in Bulks /\ bulkInFlight > 0 THEN bulkInFlight - 1 ELSE bulkInFlight
  /\ IF Alive THEN Proceed(t, "reset") ELSE JoinRelaunch(t)
  /\ UNCHANGED <<browser, open, opened, idle, all, singleWaiters, bulkWaiters, faults>>

\* Mutant: the page is put back, and nobody is woken.
PutBack_Silent(t, p) ==
  /\ idle' = Append(idle, p)
  /\ at' = Move(t, "out") /\ page' = [page EXCEPT ![t] = NoPage]
  /\ UNCHANGED <<singleWaiters, bulkWaiters, bulkInFlight>>

PutBack(t, p) ==
  Dispatch(Append(idle, p), singleWaiters, bulkWaiters, bulkInFlight, Move(t, "out"))

GiveUp(t) == Dispatch(idle, singleWaiters, bulkWaiters, bulkInFlight, Move(t, "out"))

\* Mutant: the page goes back to the pool before it was reset.
Reset_TooEarly(t) ==
  /\ at[t] = "reset"
  /\ \/ page[t] \in open /\ NoFault /\ PutBack(t, page[t]) /\ UNCHANGED launch
     \/ /\ (page[t] \notin open /\ NoFault) \/ Fault("page")
        /\ Proceed(t, "close") /\ idle' = Append(idle, page[t])
        /\ UNCHANGED <<singleWaiters, bulkWaiters, bulkInFlight>>
  /\ UNCHANGED <<browser, open, opened, all>>

\* Mutant: a page that cannot be reset is not replaced.
Reset_Dropped(t) ==
  /\ at[t] = "reset"
  /\ \/ page[t] \in open /\ NoFault /\ PutBack(t, page[t])
     \/ /\ (page[t] \notin open /\ NoFault) \/ Fault("page")
        /\ GiveUp(t)
  /\ UNCHANGED <<browser, open, opened, launch, all>>

\* goto('about:blank') fails on a dead page, and may fail on an open one.
Reset(t) ==
  /\ at[t] = "reset"
  /\ \/ page[t] \in open /\ NoFault /\ PutBack(t, page[t]) /\ UNCHANGED launch
     \/ /\ (page[t] \notin open /\ NoFault) \/ Fault("page")
        /\ Proceed(t, "close") /\ UNCHANGED <<idle, singleWaiters, bulkWaiters, bulkInFlight>>
  /\ UNCHANGED <<browser, open, opened, all>>

Close(t) ==
  /\ at[t] = "close"
  /\ open' = open \ {page[t]}
  /\ IF Alive THEN Proceed(t, "replace") ELSE JoinRelaunch(t)
  /\ UNCHANGED <<browser, opened, poolVars, faults>>

\* The pages nobody refers to any more.
Fresh == Pages \ (open \union all \union ToSet(idle) \union {page[t] : t \in Tasks})

NewPage(p) == Fresh # {} /\ p = CHOOSE q \in Fresh : TRUE

Full == Cardinality(all) >= Size

\* newPage answers, in the browser it was asked of.
Replace(t) ==
  /\ at[t] = "replace" /\ NoFault
  /\ \E p \in Pages :
       /\ NewPage(p) /\ open' = open \union {p}
       /\ \/ /\ page[t] \in all \/ ~Full
             /\ all' = (all \ {page[t]}) \union {p}
             /\ PutBack(t, p)
          \/ /\ page[t] \notin all /\ Full
             /\ at' = Move(t, "discard") /\ page' = [page EXCEPT ![t] = p]
             /\ UNCHANGED poolVars
  /\ UNCHANGED <<browser, launch, opened>>

\* newPage fails; with a live browser the page is given up.
ReplaceFailed(t) ==
  /\ \/ at[t] = "replace" /\ Fault("newPage")
     \/ at[t] = "replaceLost" /\ NoFault
  /\ IF Alive
     THEN GiveUp(t) /\ UNCHANGED launch
     ELSE JoinRelaunch(t) /\ UNCHANGED <<idle, singleWaiters, bulkWaiters, bulkInFlight>>
  /\ UNCHANGED <<browser, open, opened, all>>

Discard(t) ==
  /\ at[t] = "discard"
  /\ open' = open \ {page[t]}
  /\ GiveUp(t)
  /\ UNCHANGED <<browser, launch, opened, all, faults>>

-----------------------------------------------------------------------------
(* Chromium dies, and is relaunched.                                       *)

\* A newPage asked of it never answers well; a reset or a close fails.
Die ==
  /\ browser' = "down" /\ open' = {}
  /\ at' = [t \in Tasks |-> IF at[t] = "replace" THEN "replaceLost" ELSE at[t]]

BrowserDies ==
  /\ Alive /\ launch = "none" /\ Fault("browser")
  /\ Die
  /\ UNCHANGED <<launch, opened, poolVars, page>>

\* The promise settles, well or not: the releases that await it end.
Awaited == [t \in Tasks |-> IF at[t] = "relaunch" THEN "out" ELSE at[t]]

\* puppeteer.launch: the old pages are forgotten only when it succeeds.
Launch ==
  /\ launch = "starting" /\ NoFault
  /\ browser' = "up" /\ launch' = "opening" /\ opened' = 0 /\ idle' = <<>> /\ all' = {}
  /\ UNCHANGED <<open, singleWaiters, bulkWaiters, bulkInFlight, at, page>>

\* One newPage of the loop; the last one ends the relaunch.
OpenPage ==
  /\ launch = "opening" /\ NoFault
  /\ opened' = opened + 1
  /\ \E p \in Pages :
       /\ NewPage(p) /\ open' = open \union {p} /\ all' = all \union {p}
       /\ IF opened' = Size
          THEN /\ launch' = "none"
               /\ Dispatch(Append(idle, p), singleWaiters, bulkWaiters, bulkInFlight, Awaited)
          ELSE /\ idle' = Append(idle, p)
               /\ UNCHANGED <<launch, singleWaiters, bulkWaiters, bulkInFlight, at, page>>
  /\ UNCHANGED browser

\* launch or newPage throws; Chromium may have died under it.
RelaunchFails ==
  /\ launch # "none" /\ Fault("launch") /\ launch' = "none"
  /\ \/ at' = Awaited /\ UNCHANGED <<browser, open>>
     \/ /\ browser' = "down" /\ open' = {}
        /\ at' = [t \in Tasks |-> IF at[t] = "replace" THEN "replaceLost" ELSE Awaited[t]]
  /\ UNCHANGED <<opened, poolVars, page>>

\* Mutant: the pool is closed while tasks wait for a page or give one back.
Shutdown_NoDrain ==
  /\ browser # "closed" /\ \A t \in Tasks : at[t] # "using"
  /\ browser' = "closed" /\ open' = {}
  /\ idle' = <<>> /\ all' = {} /\ singleWaiters' = <<>> /\ bulkWaiters' = <<>> /\ bulkInFlight' = 0
  /\ UNCHANGED <<launch, opened, at, page, faults>>

\* The worker's shutdown: its queues hand out no more tasks, those at work
\* end, then close() empties the pool; the process exits.
Shutdown ==
  /\ browser # "closed" /\ \A t \in Tasks : at[t] = "out"
  /\ browser' = "closed" /\ open' = {}
  /\ idle' = <<>> /\ all' = {} /\ singleWaiters' = <<>> /\ bulkWaiters' = <<>> /\ bulkInFlight' = 0
  /\ UNCHANGED <<launch, opened, at, page, faults>>

ReleaseStep(t) ==
  \/ ReleaseStart(t) \/ Reset(t) \/ Close(t)
  \/ Replace(t) \/ ReplaceFailed(t) \/ Discard(t)

Relaunch == Launch \/ OpenPage \/ RelaunchFails

Next ==
  \/ \E t \in Tasks : Acquire(t) \/ ReleaseStep(t)
  \/ Relaunch
  \/ BrowserDies \/ Shutdown

Spec == Init /\ [][Next]_vars

\* Rendering ends, and every call to Chromium settles: puppeteer times out.
Fairness == WF_vars(Relaunch) /\ \A t \in Tasks : WF_vars(ReleaseStep(t))

FairSpec == Spec /\ Fairness

-----------------------------------------------------------------------------
(* Properties.                                                             *)

Using(lane) == {t \in lane : at[t] = "using"}
InHand      == {t \in Tasks : page[t] # NoPage}

\* browserPool.js:128, :134-138: the counter is exactly the number of bulk
\* tasks that work on a page, across resets, relaunches and failures (that it
\* stays below the cap is part of the type).
InFlightExact == bulkInFlight = Cardinality(Using(Bulks))

\* browserPool.js:3-4 "page-per-task": no page is ever in two hands, or in a
\* hand and idle, nor idle twice; stale pages included.
NoPageShared ==
  /\ \A i, j \in DOMAIN idle : idle[i] = idle[j] => i = j
  /\ \A t \in InHand : page[t] \notin ToSet(idle)
  /\ \A t, u \in InHand : page[t] = page[u] => t = u

\* browserPool.js:13-14: a bulk task is never served while a single one waits.
SinglesFirst ==
  [][\A b \in Bulks : at[b] # "using" /\ at'[b] = "using" => singleWaiters' = <<>>]_vars

Relaunches == faults["launch"] = 0

\* browserPool.js:3 "a fixed pool of N reusable pages", :134-135 "a poisoned
\* page is replaced": while relaunches succeed, a live pool has all its pages
\* but one for each replacement that failed, and a closed one leaves no page
\* of a relaunch behind (worker.js:118-119).
NoPageLost ==
  /\ Relaunches /\ Alive /\ launch = "none"
       => Len(idle) + Cardinality(InHand) + faults["newPage"] >= Size
  /\ browser = "closed" => open = {} /\ launch = "none"

\* browserPool.js:69-72 "waiters are served fresh pages".  As long as relaunches
\* succeed nobody waits for ever: a single task while a page is left, a bulk
\* one while every replacement has succeeded.  A worker runs as many single
\* tasks as the pool has pages (worker.js:97-100), and they go first: with a
\* page less they pass the others on among them, and a bulk task may starve.
SinglesServed  == \A t \in Singles : at[t] = "waiting" ~> at[t] = "using"
EveryoneServed ==
  /\ \A t \in Singles : []<>(at[t] # "waiting" \/ ~Relaunches \/ faults["newPage"] >= Size)
  /\ \A t \in Bulks   : []<>(at[t] # "waiting" \/ ~Relaunches \/ faults["newPage"] > 0)

=============================================================================

------------------------- MODULE BrowserPoolProofs -------------------------
(***************************************************************************)
(* Machine-checked proofs about BrowserPool, for any number of tasks and   *)
(* pages, any reservation, and every fault kind and bound.                 *)
(***************************************************************************)
EXTENDS BrowserPool, FiniteSetTheorems, SequenceTheorems, TLAPS

Distinct(q) == \A j, k \in 1..Len(q) : q[j] = q[k] => j = k

(* A queue cut in two: what is served and what is left keep the order and   *)
(* have no task in common.                                                 *)
LEMMA Cut ==
  ASSUME NEW T, NEW q \in Seq(T), NEW n \in 0..Len(q), Distinct(q)
  PROVE  /\ First(q, n) \in Seq(T) /\ Len(First(q, n)) = n
         /\ \A j \in 1..n : First(q, n)[j] = q[j]
         /\ Distinct(First(q, n))
         /\ Rest(q, n) \in Seq(T) /\ Distinct(Rest(q, n))
         /\ ToSet(Rest(q, n)) = ToSet(q) \ {q[j] : j \in 1..n}
         /\ ToSet(First(q, n)) = {q[j] : j \in 1..n}
         /\ ToSet(First(q, n)) \subseteq ToSet(q)
         /\ n = Len(q) => Rest(q, n) = <<>>
<1>1. \A j \in 1..Len(q) : q[j] \in T
  OBVIOUS
<1>2. First(q, n) \in Seq(T) /\ Len(First(q, n)) = n /\ \A j \in 1..n : First(q, n)[j] = q[j]
  BY SubSeqProperties DEF First
<1>3. /\ Rest(q, n) \in Seq(T) /\ Len(Rest(q, n)) = Len(q) - n
      /\ \A j \in 1..(Len(q) - n) : Rest(q, n)[j] = q[n + j]
  BY SubSeqProperties DEF Rest
<1>4. ToSet(First(q, n)) = {q[j] : j \in 1..n}
  BY <1>2 DEF ToSet
<1>5. ToSet(Rest(q, n)) = ToSet(q) \ {q[j] : j \in 1..n}
  <2>1. ToSet(Rest(q, n)) = {q[n + j] : j \in 1..(Len(q) - n)}
    BY <1>3 DEF ToSet
  <2>2. ToSet(q) = {q[j] : j \in 1..Len(q)}
    BY DEF ToSet
  <2>3. ASSUME NEW j \in 1..(Len(q) - n) PROVE q[n + j] \in ToSet(q) \ {q[k] : k \in 1..n}
    <3>1. n + j \in 1..Len(q) /\ \A k \in 1..n : k \in 1..Len(q) /\ n + j # k
      OBVIOUS
    <3>2. \A k \in 1..n : q[n + j] # q[k]
      BY <3>1 DEF Distinct
    <3> QED BY <2>2, <3>1, <3>2
  <2>4. ASSUME NEW x \in ToSet(q) \ {q[k] : k \in 1..n} PROVE x \in ToSet(Rest(q, n))
    <3>1. PICK k \in 1..Len(q) : x = q[k]
      BY <2>2
    <3>2. k - n \in 1..(Len(q) - n) /\ k = n + (k - n)
      BY <2>4, <3>1
    <3> QED BY <2>1, <3>1, <3>2
  <2> QED BY <2>1, <2>3, <2>4
<1>6. Distinct(First(q, n)) /\ Distinct(Rest(q, n))
  <2>1. Distinct(First(q, n))
    <3>1. \A j \in 1..n : j \in 1..Len(q)
      OBVIOUS
    <3> QED BY <1>2, <3>1 DEF Distinct
  <2>2. Distinct(Rest(q, n))
    <3>1. \A j \in 1..(Len(q) - n) : n + j \in 1..Len(q)
      OBVIOUS
    <3>2. \A j, k \in 1..(Len(q) - n) : q[n + j] = q[n + k] => n + j = n + k
      BY <3>1 DEF Distinct
    <3>3. \A j, k \in 1..(Len(q) - n) : n + j = n + k => j = k
      OBVIOUS
    <3> QED BY <1>3, <3>2, <3>3 DEF Distinct
  <2> QED BY <2>1, <2>2
<1>7. n = Len(q) => Rest(q, n) = <<>>
  BY SubSeqEmpty DEF Rest
<1>8. ToSet(First(q, n)) \subseteq ToSet(q)
  <2>1. \A j \in 1..n : j \in DOMAIN q
    OBVIOUS
  <2> QED BY <1>4, <2>1 DEF ToSet
<1> QED BY <1>2, <1>3, <1>4, <1>5, <1>6, <1>7, <1>8

(* How many are served: no more than wait, than pages are idle, and than    *)
(* the bulk lane has room for; bulks only when no single is left.           *)
LEMMA ServedBounds ==
  ASSUME NEW n \in Nat, NEW s \in Seq(Singles), NEW b \in Seq(Bulks), NEW f \in Nat
  PROVE  LET c == Served(n, s, b, f) IN
         /\ c.single \in 0..Len(s) /\ c.bulk \in 0..Len(b)
         /\ c.single + c.bulk <= n
         /\ f <= BulkCap => f + c.bulk <= BulkCap
         /\ c.bulk > 0 => c.single = Len(s)
<1> DEFINE room  == Room(f)
           sn    == Least(n, Len(s))
           bn    == Least(n - sn, Least(Len(b), room))
<1>1. BulkCap \in Nat
  BY SizeAssumption DEF BulkCap
<1>2. room \in Nat /\ (f <= BulkCap => f + room <= BulkCap)
  BY <1>1 DEF Room
<1>3. Len(s) \in Nat /\ Len(b) \in Nat
  OBVIOUS
<1> HIDE DEF room
<1>4. sn \in 0..Len(s) /\ sn <= n /\ (n - sn > 0 => sn = Len(s))
  BY <1>3 DEF Least
<1> HIDE DEF sn
<1>5. bn \in 0..Len(b) /\ bn <= n - sn /\ bn <= room
  BY <1>2, <1>3, <1>4 DEF Least
<1>6. Served(n, s, b, f) = [single |-> sn, bulk |-> bn]
  BY DEF Served, sn, room
<1> HIDE DEF bn
<1> QED BY <1>1, <1>2, <1>3, <1>4, <1>5, <1>6

(* A queue without repetition holds as many elements as it is long.        *)
LEMMA DistinctLen ==
  ASSUME NEW T, NEW q \in Seq(T), Distinct(q)
  PROVE  IsFiniteSet(ToSet(q)) /\ Cardinality(ToSet(q)) = Len(q)
<1>1. ToSet(q) = {q[j] : j \in 1..Len(q)} /\ q \in [1..Len(q) -> ToSet(q)]
  BY DEF ToSet
<1>2. q \in Bijection(1..Len(q), ToSet(q))
  BY <1>1 DEF Distinct, Bijection, Injection, Surjection, IsInjective
<1>3. Len(q) \in Nat /\ ExistsBijection(1..Len(q), ToSet(q))
  BY <1>2 DEF ExistsBijection
<1> QED BY <1>3, FS_CountingElements, FS_NatBijection

-----------------------------------------------------------------------------
(* What an event leaves to the dispatch that ends it, and what the dispatch *)
(* leaves: the waiters are the queues, each once; every task at work has a  *)
(* page, in no other hand and not idle; the counter is exact.               *)
Gone == {"out", "waiting", "relaunch"}

Lanes(i, s, b, f, a, pg) ==
  /\ i \in Seq(Pages) /\ Distinct(i)
  /\ s \in Seq(Singles) /\ Distinct(s) /\ ToSet(s) = {t \in Singles : a[t] = "waiting"}
  /\ b \in Seq(Bulks) /\ Distinct(b) /\ ToSet(b) = {t \in Bulks : a[t] = "waiting"}
  /\ a \in [Tasks -> Labels] /\ pg \in [Tasks -> Pages \union {NoPage}]
  /\ f = Cardinality({t \in Bulks : a[t] = "using"}) /\ f <= BulkCap
  /\ \A t \in Tasks : a[t] \notin Gone => pg[t] \in Pages \ ToSet(i)
  /\ \A t, u \in Tasks : a[t] \notin Gone /\ a[u] \notin Gone /\ pg[t] = pg[u] => t = u
  /\ \A t \in Tasks : a[t] \in {"waiting", "relaunch"} => pg[t] = NoPage

(* What a dispatch does, seen by the set of tasks it serves.               *)
Serves(S, i, s, b, f, a) ==
  /\ idle' \in Seq(Pages) /\ Distinct(idle)'
  /\ singleWaiters' \in Seq(Singles) /\ Distinct(singleWaiters)'
  /\ ToSet(singleWaiters)' = ToSet(s) \ S
  /\ bulkWaiters' \in Seq(Bulks) /\ Distinct(bulkWaiters)'
  /\ ToSet(bulkWaiters)' = ToSet(b) \ S
  /\ bulkInFlight' = f + Cardinality(S \intersect Bulks) /\ bulkInFlight' <= BulkCap
  /\ S \intersect Bulks # {} => singleWaiters' = <<>>
  /\ at' = [t \in Tasks |-> IF t \in S THEN "using" ELSE a[t]]
  /\ page' \in [Tasks -> Pages \union {NoPage}]
  /\ \A t \in Tasks \ S : page'[t] = IF a[t] = "out" THEN NoPage ELSE page[t]
  /\ \A t \in S : page'[t] \in ToSet(i) \ ToSet(idle)'
  /\ \A t, u \in S : page'[t] = page'[u] => t = u
  /\ ToSet(i) = ToSet(idle)' \union {page'[t] : t \in S}

LEMMA Dispatched ==
  ASSUME NEW i, NEW s, NEW b, NEW f, NEW a,
         Lanes(i, s, b, f, a, page), Dispatch(i, s, b, f, a)
  PROVE  \E S \in SUBSET {t \in Tasks : a[t] = "waiting"} : Serves(S, i, s, b, f, a)
<1> DEFINE n       == Served(Len(i), s, b, f)
           fs      == First(s, n.single)
           fb      == First(b, n.bulk)
           served  == fs \o fb
           m       == n.single + n.bulk
           S       == ToSet(served)
           pos(t)  == CHOOSE k \in DOMAIN served : served[k] = t
           pageFor == [t \in S |-> i[Len(i) + 1 - pos(t)]]
<1>1. /\ i \in Seq(Pages) /\ Distinct(i) /\ Len(i) \in Nat
      /\ s \in Seq(Singles) /\ Distinct(s) /\ Len(s) \in Nat
      /\ b \in Seq(Bulks) /\ Distinct(b) /\ Len(b) \in Nat
      /\ ToSet(s) = {t \in Singles : a[t] = "waiting"}
      /\ ToSet(b) = {t \in Bulks : a[t] = "waiting"}
      /\ a \in [Tasks -> Labels] /\ page \in [Tasks -> Pages \union {NoPage}]
      /\ f <= BulkCap /\ f = Cardinality({t \in Bulks : a[t] = "using"})
  BY DEF Lanes
<1>2. f \in Nat
  <2>1. IsFiniteSet({t \in Bulks : a[t] = "using"})
    BY TasksAssumption, FS_Subset DEF Tasks
  <2> QED BY <1>1, <2>1, FS_CardinalityType
<1>3. /\ n.single \in 0..Len(s) /\ n.bulk \in 0..Len(b)
      /\ m <= Len(i) /\ f + n.bulk <= BulkCap
      /\ n.bulk > 0 => n.single = Len(s)
  BY <1>1, <1>2, ServedBounds
<1>4. /\ idle' = First(i, Len(i) - Len(served))
      /\ singleWaiters' = Rest(s, n.single) /\ bulkWaiters' = Rest(b, n.bulk)
      /\ bulkInFlight' = f + n.bulk
      /\ at' = [t \in Tasks |-> IF t \in S THEN "using" ELSE a[t]]
      /\ page' = [t \in Tasks |-> IF t \in S THEN pageFor[t]
                                  ELSE IF a[t] = "out" THEN NoPage ELSE page[t]]
  BY DEF Dispatch
<1> HIDE DEF n
<1>5. /\ fs \in Seq(Singles) /\ Len(fs) = n.single /\ Distinct(fs)
      /\ Rest(s, n.single) \in Seq(Singles) /\ Distinct(Rest(s, n.single))
      /\ ToSet(Rest(s, n.single)) = ToSet(s) \ ToSet(fs) /\ ToSet(fs) \subseteq ToSet(s)
      /\ n.single = Len(s) => Rest(s, n.single) = <<>>
  <2> DEFINE k == n.single
  <2>1. k \in 0..Len(s) /\ s \in Seq(Singles) /\ Distinct(s)
    BY <1>1, <1>3
  <2> HIDE DEF k
  <2>2. /\ First(s, k) \in Seq(Singles) /\ Len(First(s, k)) = k /\ Distinct(First(s, k))
        /\ Rest(s, k) \in Seq(Singles) /\ Distinct(Rest(s, k))
        /\ ToSet(Rest(s, k)) = ToSet(s) \ {s[j] : j \in 1..k}
        /\ ToSet(First(s, k)) = {s[j] : j \in 1..k} /\ ToSet(First(s, k)) \subseteq ToSet(s)
        /\ k = Len(s) => Rest(s, k) = <<>>
    BY <2>1, Cut
  <2>3. ToSet(Rest(s, k)) = ToSet(s) \ ToSet(First(s, k))
    BY <2>2
  <2> QED BY <2>2, <2>3 DEF k
<1>6. /\ fb \in Seq(Bulks) /\ Len(fb) = n.bulk /\ Distinct(fb)
      /\ Rest(b, n.bulk) \in Seq(Bulks) /\ Distinct(Rest(b, n.bulk))
      /\ ToSet(Rest(b, n.bulk)) = ToSet(b) \ ToSet(fb) /\ ToSet(fb) \subseteq ToSet(b)
  <2> DEFINE k == n.bulk
  <2>1. k \in 0..Len(b) /\ b \in Seq(Bulks) /\ Distinct(b)
    BY <1>1, <1>3
  <2> HIDE DEF k
  <2>2. /\ First(b, k) \in Seq(Bulks) /\ Len(First(b, k)) = k /\ Distinct(First(b, k))
        /\ Rest(b, k) \in Seq(Bulks) /\ Distinct(Rest(b, k))
        /\ ToSet(Rest(b, k)) = ToSet(b) \ {b[j] : j \in 1..k}
        /\ ToSet(First(b, k)) = {b[j] : j \in 1..k} /\ ToSet(First(b, k)) \subseteq ToSet(b)
    BY <2>1, Cut
  <2>3. ToSet(Rest(b, k)) = ToSet(b) \ ToSet(First(b, k))
    BY <2>2
  <2> QED BY <2>2, <2>3 DEF k
<1> HIDE DEF fs, fb
<1>7. /\ served \in Seq(Tasks) /\ Len(served) = m
      /\ \A k \in 1..m : served[k] = IF k <= n.single THEN fs[k] ELSE fb[k - n.single]
  <2>1. fs \in Seq(Tasks) /\ fb \in Seq(Tasks)
    BY <1>5, <1>6 DEF Tasks
  <2>2. /\ fs \o fb \in Seq(Tasks) /\ Len(fs \o fb) = Len(fs) + Len(fb)
        /\ \A k \in 1..(Len(fs) + Len(fb)) :
             (fs \o fb)[k] = IF k <= Len(fs) THEN fs[k] ELSE fb[k - Len(fs)]
    BY <2>1, ConcatProperties
  <2> QED BY <2>2, <1>5, <1>6
<1> HIDE DEF served
<1>8. S = ToSet(fs) \union ToSet(fb)
  <2>1. /\ ToSet(fs) = {fs[k] : k \in 1..n.single} /\ ToSet(fb) = {fb[k] : k \in 1..n.bulk}
        /\ S = {served[k] : k \in 1..m}
    <3>1. DOMAIN fs = 1..n.single /\ DOMAIN fb = 1..n.bulk /\ DOMAIN served = 1..m
      BY <1>5, <1>6, <1>7
    <3> QED BY <3>1 DEF ToSet
  <2>2. \A k \in 1..n.single : k \in 1..m /\ served[k] = fs[k]
    BY <1>3, <1>7
  <2>3. \A k \in 1..n.bulk : /\ n.single + k \in 1..m /\ ~(n.single + k <= n.single)
                             /\ (n.single + k) - n.single = k
    BY <1>3
  <2>4. \A k \in 1..n.bulk : n.single + k \in 1..m /\ served[n.single + k] = fb[k]
    BY <2>3, <1>7
  <2>5. \A k \in 1..m : \/ k \in 1..n.single /\ served[k] = fs[k]
                        \/ k - n.single \in 1..n.bulk /\ served[k] = fb[k - n.single]
    BY <1>3, <1>7
  <2>6. S \subseteq ToSet(fs) \union ToSet(fb)
    BY <2>1, <2>5
  <2>7. ToSet(fs) \subseteq S
    BY <2>1, <2>2
  <2>8. ToSet(fb) \subseteq S
    BY <2>1, <2>4
  <2> QED BY <2>6, <2>7, <2>8
<1>9. ToSet(fs) \subseteq Singles /\ ToSet(fb) \subseteq Bulks /\ Singles \intersect Bulks = {}
  BY <1>1, <1>5, <1>6, TasksAssumption
<1>10. Distinct(served)
  <2> SUFFICES ASSUME NEW j \in 1..m, NEW k \in 1..m, served[j] = served[k]
               PROVE  j = k
    BY <1>7 DEF Distinct
  <2>1. \A l \in 1..m : \/ l <= n.single /\ l \in 1..Len(fs) /\ served[l] = fs[l] /\ fs[l] \in Singles
                        \/ /\ ~(l <= n.single) /\ l - n.single \in 1..Len(fb)
                           /\ served[l] = fb[l - n.single] /\ fb[l - n.single] \in Bulks
    <3>1. /\ \A l \in 1..Len(fs) : fs[l] \in Singles
          /\ \A l \in 1..Len(fb) : fb[l] \in Bulks
      BY <1>5, <1>6
    <3>2. \A l \in 1..m : \/ l <= n.single /\ l \in 1..Len(fs)
                          \/ ~(l <= n.single) /\ l - n.single \in 1..Len(fb)
      BY <1>3, <1>5, <1>6
    <3> QED BY <1>7, <3>1, <3>2
  <2>2. CASE j <= n.single
    <3>1. k <= n.single
      BY <2>1, <2>2, <1>9
    <3> QED BY <2>1, <2>2, <3>1, <1>5 DEF Distinct
  <2>3. CASE ~(j <= n.single)
    <3>1. ~(k <= n.single)
      BY <2>1, <2>3, <1>9
    <3>2. j - n.single = k - n.single
      BY <2>1, <2>3, <3>1, <1>6 DEF Distinct
    <3> QED BY <3>2, <1>3
  <2> QED BY <2>2, <2>3
<1>11. S \in SUBSET {t \in Tasks : a[t] = "waiting"}
  BY <1>1, <1>5, <1>6, <1>8 DEF Tasks
<1>12. S \intersect Bulks = ToSet(fb) /\ S \intersect Singles = ToSet(fs)
  BY <1>8, <1>9
<1>13. Cardinality(ToSet(fb)) = n.bulk
  BY <1>6, DistinctLen
\* The pages handed out: one each, those idle no more.
<1>14. \A k \in 1..m : pos(served[k]) = k /\ served[k] \in S
  <2> TAKE k \in 1..m
  <2>1. DOMAIN served = 1..m
    BY <1>7
  <2>2. pos(served[k]) \in 1..m /\ served[pos(served[k])] = served[k]
    BY <2>1
  <2>3. served[k] \in S
    BY <2>1 DEF ToSet
  <2> QED BY <2>2, <2>3, <1>7, <1>10 DEF Distinct
<1>15. \A t \in S : \E k \in 1..m : t = served[k]
  BY <1>7 DEF ToSet
<1>16. \A k \in 1..m : pageFor[served[k]] = i[Len(i) + 1 - k]
  BY <1>14
<1> HIDE DEF S, pos, pageFor
<1>17. /\ \A k \in 1..m : Len(i) + 1 - k \in 1..Len(i) /\ Len(i) + 1 - k > Len(i) - m
       /\ \A j \in 1..Len(i) : j \in 1..(Len(i) - m) \/ Len(i) + 1 - j \in 1..m
       /\ \A j \in 1..Len(i) : Len(i) + 1 - (Len(i) + 1 - j) = j
       /\ \A j, k \in 1..m : Len(i) + 1 - j = Len(i) + 1 - k => j = k
       /\ Len(i) - m \in 0..Len(i)
  BY <1>1, <1>3
<1>18. /\ idle' \in Seq(Pages) /\ Distinct(idle')
       /\ ToSet(idle') = {i[j] : j \in 1..(Len(i) - m)}
  BY <1>1, <1>4, <1>7, <1>17, Cut
<1>19. \A t \in S : pageFor[t] \in ToSet(i) \ ToSet(idle')
  <2> SUFFICES ASSUME NEW k \in 1..m
               PROVE  i[Len(i) + 1 - k] \in ToSet(i) \ ToSet(idle')
    BY <1>15, <1>16
  <2>1. i[Len(i) + 1 - k] \in ToSet(i)
    BY <1>17 DEF ToSet
  <2>2. \A j \in 1..(Len(i) - m) : j \in 1..Len(i) /\ j # Len(i) + 1 - k
    BY <1>17
  <2>3. \A j \in 1..(Len(i) - m) : i[j] # i[Len(i) + 1 - k]
    BY <2>2, <1>1, <1>17 DEF Distinct
  <2> QED BY <2>1, <2>3, <1>18
<1>20. \A t, u \in S : pageFor[t] = pageFor[u] => t = u
  <2> SUFFICES ASSUME NEW j \in 1..m, NEW k \in 1..m, i[Len(i) + 1 - j] = i[Len(i) + 1 - k]
               PROVE  j = k
    BY <1>15, <1>16
  <2> QED BY <1>1, <1>17 DEF Distinct
<1>21. ToSet(i) = ToSet(idle') \union {pageFor[t] : t \in S}
  <2>1. ASSUME NEW j \in 1..Len(i) PROVE i[j] \in ToSet(idle') \union {pageFor[t] : t \in S}
    <3>1. CASE j \in 1..(Len(i) - m)
      BY <3>1, <1>18
    <3>2. CASE Len(i) + 1 - j \in 1..m
      <4>1. pageFor[served[Len(i) + 1 - j]] = i[j]
        BY <3>2, <1>16, <1>17
      <4> QED BY <4>1, <3>2, <1>14 DEF S
    <3> QED BY <3>1, <3>2, <1>17
  <2>2. ToSet(i) = {i[j] : j \in 1..Len(i)}
    BY <1>1 DEF ToSet
  <2>3. {i[j] : j \in 1..(Len(i) - m)} \subseteq ToSet(i)
    BY <2>2, <1>17
  <2> QED BY <2>1, <2>2, <2>3, <1>18, <1>19
<1>22. \A t \in S : page'[t] = pageFor[t]
  BY <1>4, <1>11
<1>23. {page'[t] : t \in S} = {pageFor[t] : t \in S}
  BY <1>22
<1>24. page' \in [Tasks -> Pages \union {NoPage}]
  <2>1. ToSet(i) \subseteq Pages
    BY <1>1 DEF ToSet
  <2> QED BY <2>1, <1>1, <1>4, <1>19
<1>25. \A t \in Tasks \ S : page'[t] = IF a[t] = "out" THEN NoPage ELSE page[t]
  BY <1>4
<1>26. S \intersect Bulks # {} => singleWaiters' = <<>>
  <2>1. n.bulk = 0 => ToSet(fb) = {}
    BY <1>6 DEF ToSet
  <2> QED BY <2>1, <1>3, <1>4, <1>5, <1>12
<1>27. /\ ToSet(singleWaiters') = ToSet(s) \ S /\ ToSet(bulkWaiters') = ToSet(b) \ S
       /\ singleWaiters' \in Seq(Singles) /\ Distinct(singleWaiters')
       /\ bulkWaiters' \in Seq(Bulks) /\ Distinct(bulkWaiters')
  <2>1. ToSet(s) \subseteq Singles /\ ToSet(b) \subseteq Bulks
    BY <1>1
  <2> QED BY <2>1, <1>4, <1>5, <1>6, <1>12
<1>28. bulkInFlight' = f + Cardinality(S \intersect Bulks) /\ bulkInFlight' <= BulkCap
  BY <1>3, <1>4, <1>12, <1>13
<1>29. /\ Distinct(idle)' /\ Distinct(singleWaiters)' /\ Distinct(bulkWaiters)'
       /\ ToSet(idle)' = ToSet(idle') /\ ToSet(singleWaiters)' = ToSet(singleWaiters')
       /\ ToSet(bulkWaiters)' = ToSet(bulkWaiters')
  BY <1>18, <1>27 DEF Distinct, ToSet
<1>30. Serves(S, i, s, b, f, a)
  <2>1. \A t \in S : page'[t] \in ToSet(i) \ ToSet(idle)'
    BY <1>19, <1>22, <1>29
  <2>2. \A t, u \in S : page'[t] = page'[u] => t = u
    BY <1>20, <1>22
  <2>3. ToSet(i) = ToSet(idle)' \union {page'[t] : t \in S}
    BY <1>21, <1>23, <1>29
  <2>4. /\ idle' \in Seq(Pages) /\ Distinct(idle)'
        /\ singleWaiters' \in Seq(Singles) /\ Distinct(singleWaiters)'
        /\ ToSet(singleWaiters)' = ToSet(s) \ S
        /\ bulkWaiters' \in Seq(Bulks) /\ Distinct(bulkWaiters)'
        /\ ToSet(bulkWaiters)' = ToSet(b) \ S
    BY <1>18, <1>27, <1>29
  <2>5. at' = [t \in Tasks |-> IF t \in S THEN "using" ELSE a[t]]
    BY <1>4
  <2> QED BY <2>1, <2>2, <2>3, <2>4, <2>5, <1>24, <1>25, <1>26, <1>28 DEF Serves
<1> QED BY <1>11, <1>30

-----------------------------------------------------------------------------
(* The pages the pool has, idle or at work.                                *)
AtWork(a) == {t \in Tasks : a[t] \notin Gone}
PagesOf(a) == {page[t] : t \in AtWork(a)}
HeldPages  == ToSet(idle) \union PagesOf(at)

(* A dispatch moves no task but the waiting ones it serves.                *)
StaysBut(a) ==
  \A t \in Tasks : IF a[t] = "waiting" THEN at'[t] \in {"waiting", "using"}
                  ELSE at'[t] = a[t] /\ (a[t] \in Gone \/ page'[t] = page[t])

(* The dispatch keeps the lanes as it found them, and loses no page.       *)
LEMMA DispatchKeeps ==
  ASSUME NEW i, NEW s, NEW b, NEW f, NEW a,
         Lanes(i, s, b, f, a, page), Dispatch(i, s, b, f, a)
  PROVE  /\ Lanes(idle, singleWaiters, bulkWaiters, bulkInFlight, at, page)'
         /\ \A t \in Tasks : at'[t] = "out" => page'[t] = NoPage
         /\ HeldPages' = ToSet(i) \union PagesOf(a)
         /\ StaysBut(a)
<1>1. PICK S \in SUBSET {t \in Tasks : a[t] = "waiting"} : Serves(S, i, s, b, f, a)
  BY Dispatched
<1>2. /\ a \in [Tasks -> Labels]
      /\ \A t \in Tasks : at'[t] = IF t \in S THEN "using" ELSE a[t]
      /\ \A t \in S : a[t] = "waiting"
  BY <1>1 DEF Lanes, Serves
<1>3. at' \in [Tasks -> Labels] /\ page' \in [Tasks -> Pages \union {NoPage}]
  BY <1>1, <1>2 DEF Serves, Labels
<1>4. /\ ToSet(singleWaiters)' = {t \in Singles : at'[t] = "waiting"}
      /\ ToSet(bulkWaiters)' = {t \in Bulks : at'[t] = "waiting"}
  <2>1. /\ ToSet(singleWaiters)' = {t \in Singles : a[t] = "waiting"} \ S
        /\ ToSet(bulkWaiters)' = {t \in Bulks : a[t] = "waiting"} \ S
    BY <1>1 DEF Serves, Lanes
  <2> QED BY <2>1, <1>2 DEF Tasks
<1>5. bulkInFlight' = Cardinality({t \in Bulks : at'[t] = "using"})
  <2> DEFINE U == {t \in Bulks : a[t] = "using"}
  <2>1. IsFiniteSet(U) /\ IsFiniteSet(S \intersect Bulks)
    BY TasksAssumption, FS_Subset DEF Tasks
  <2>2. U \intersect (S \intersect Bulks) = {}
    BY <1>2
  <2>3. {t \in Bulks : at'[t] = "using"} = U \union (S \intersect Bulks)
    BY <1>2 DEF Tasks
  <2>4. Cardinality(U \union (S \intersect Bulks)) = Cardinality(U) + Cardinality(S \intersect Bulks)
    <3>1. Cardinality(U) \in Nat /\ Cardinality(S \intersect Bulks) \in Nat
      BY <2>1, FS_CardinalityType
    <3>2. Cardinality(U \intersect (S \intersect Bulks)) = 0
      BY <2>2, FS_EmptySet
    <3>3. Cardinality(U \union (S \intersect Bulks)) =
            Cardinality(U) + Cardinality(S \intersect Bulks) - Cardinality(U \intersect (S \intersect Bulks))
      BY <2>1, FS_Union
    <3> QED BY <3>1, <3>2, <3>3
  <2>5. bulkInFlight' = Cardinality(U) + Cardinality(S \intersect Bulks)
    BY <1>1 DEF Serves, Lanes
  <2> QED BY <2>3, <2>4, <2>5
<1>6. ToSet(idle)' \subseteq ToSet(i) /\ ToSet(i) \subseteq Pages
  <2>1. ToSet(idle)' \subseteq ToSet(i)
    BY <1>1 DEF Serves
  <2>2. ToSet(i) \subseteq Pages
    BY DEF Lanes, ToSet
  <2> QED BY <2>1, <2>2
<1>7. ASSUME NEW t \in Tasks, at'[t] \notin Gone
      PROVE  /\ page'[t] \in Pages \ ToSet(idle)'
             /\ \/ t \in S /\ page'[t] \in ToSet(i)
                \/ /\ t \notin S /\ a[t] \notin Gone
                   /\ page'[t] = page[t] /\ page[t] \notin ToSet(i)
  <2>1. CASE t \in S
    BY <2>1, <1>1, <1>6 DEF Serves
  <2>2. CASE t \notin S
    <3>1. a[t] \notin Gone
      BY <1>2, <1>7, <2>2
    <3>2. page[t] \in Pages \ ToSet(i)
      BY <3>1 DEF Lanes
    <3>3. page'[t] = page[t]
      BY <3>1, <2>2, <1>1 DEF Serves, Gone
    <3> QED BY <3>1, <3>2, <3>3, <2>2, <1>6
  <2> QED BY <2>1, <2>2
<1>8. ASSUME NEW t \in Tasks, NEW u \in Tasks,
             at'[t] \notin Gone, at'[u] \notin Gone, page'[t] = page'[u]
      PROVE  t = u
  <2>1. CASE t \in S /\ u \in S
    BY <2>1, <1>1, <1>8 DEF Serves
  <2>2. CASE t \notin S /\ u \notin S
    <3>1. a[t] \notin Gone /\ a[u] \notin Gone /\ page[t] = page[u]
      BY <2>2, <1>7, <1>8
    <3> QED BY <3>1 DEF Lanes
  <2>3. CASE (t \in S /\ u \notin S) \/ (t \notin S /\ u \in S)
    BY <2>3, <1>7, <1>8
  <2> QED BY <2>1, <2>2, <2>3
<1>9. ASSUME NEW t \in Tasks, at'[t] \in Gone
      PROVE  page'[t] = NoPage
  <2>1. t \notin S /\ a[t] \in Gone
    BY <1>2, <1>9 DEF Gone
  <2>2. page'[t] = IF a[t] = "out" THEN NoPage ELSE page[t]
    BY <2>1, <1>1 DEF Serves
  <2> QED BY <2>1, <2>2 DEF Lanes, Gone
<1>10. /\ idle' \in Seq(Pages) /\ Distinct(idle)'
       /\ singleWaiters' \in Seq(Singles) /\ Distinct(singleWaiters)'
       /\ bulkWaiters' \in Seq(Bulks) /\ Distinct(bulkWaiters)'
       /\ bulkInFlight' <= BulkCap
  BY <1>1 DEF Serves
<1>11. Lanes(idle, singleWaiters, bulkWaiters, bulkInFlight, at, page)'
  <2>1. \A t \in Tasks : at'[t] \in {"waiting", "relaunch"} => page'[t] = NoPage
    BY <1>9 DEF Gone
  <2>2. \A t \in Tasks : at'[t] \notin Gone => page'[t] \in Pages \ ToSet(idle)'
    BY <1>7
  <2>3. \A t, u \in Tasks : at'[t] \notin Gone /\ at'[u] \notin Gone /\ page'[t] = page'[u] => t = u
    BY <1>8
  <2> QED BY <2>1, <2>2, <2>3, <1>3, <1>4, <1>5, <1>10 DEF Lanes
<1>12. HeldPages' = ToSet(i) \union PagesOf(a)
  <2>1. AtWork(at)' = S \union AtWork(a) /\ S \intersect AtWork(a) = {}
    BY <1>2 DEF AtWork, Gone
  <2>2. \A t \in AtWork(a) : page'[t] = page[t]
    <3>1. \A t \in AtWork(a) : t \in Tasks \ S /\ a[t] # "out"
      BY <2>1 DEF AtWork, Gone
    <3> QED BY <3>1, <1>1 DEF Serves
  <2>3. HeldPages' = ToSet(idle)' \union {page'[t] : t \in AtWork(at)'}
    BY DEF HeldPages, PagesOf
  <2>4. {page'[t] : t \in AtWork(at)'} = {page'[t] : t \in S} \union PagesOf(a)
    BY <2>1, <2>2 DEF PagesOf
  <2>5. ToSet(i) = ToSet(idle)' \union {page'[t] : t \in S}
    BY <1>1 DEF Serves
  <2> QED BY <2>3, <2>4, <2>5
<1>13. StaysBut(a)
  <2> SUFFICES ASSUME NEW t \in Tasks
               PROVE  IF a[t] = "waiting" THEN at'[t] \in {"waiting", "using"}
                      ELSE at'[t] = a[t] /\ (a[t] \in Gone \/ page'[t] = page[t])
    BY DEF StaysBut
  <2>1. CASE a[t] = "waiting"
    BY <2>1, <1>2
  <2>2. CASE a[t] # "waiting"
    BY <2>2, <1>1, <1>2 DEF Serves, Gone
  <2> QED BY <2>1, <2>2
<1> QED BY <1>9, <1>11, <1>12, <1>13 DEF Gone

(* Nothing that concerns a lane changes, but for a task that gives up its   *)
(* page or the pages that are not idle any more.                           *)
LEMMA Steady ==
  ASSUME Lanes(idle, singleWaiters, bulkWaiters, bulkInFlight, at, page),
         idle' = idle \/ idle' = <<>>,
         UNCHANGED <<singleWaiters, bulkWaiters>>,
         at' \in [Tasks -> Labels], page' \in [Tasks -> Pages \union {NoPage}],
         \A t \in Tasks : at'[t] = "waiting" <=> at[t] = "waiting",
         bulkInFlight' = Cardinality({t \in Bulks : at'[t] = "using"}), bulkInFlight' <= BulkCap,
         \A t \in Tasks : at'[t] \notin Gone => at[t] \notin Gone /\ page'[t] = page[t],
         \A t \in Tasks : at'[t] \in {"waiting", "relaunch"} => page'[t] = NoPage
  PROVE  Lanes(idle, singleWaiters, bulkWaiters, bulkInFlight, at, page)'
<1>1. idle' \in Seq(Pages) /\ Distinct(idle)' /\ ToSet(idle)' \subseteq ToSet(idle)
  <2>1. CASE idle' = idle
    BY <2>1 DEF Lanes, Distinct, ToSet
  <2>2. CASE idle' = <<>>
    BY <2>2 DEF Distinct, ToSet
  <2> QED BY <2>1, <2>2
<1>2. /\ singleWaiters' \in Seq(Singles) /\ Distinct(singleWaiters)'
      /\ bulkWaiters' \in Seq(Bulks) /\ Distinct(bulkWaiters)'
      /\ ToSet(singleWaiters)' = ToSet(singleWaiters) /\ ToSet(bulkWaiters)' = ToSet(bulkWaiters)
  BY DEF Lanes, Distinct, ToSet
<1>3. /\ ToSet(singleWaiters)' = {t \in Singles : at'[t] = "waiting"}
      /\ ToSet(bulkWaiters)' = {t \in Bulks : at'[t] = "waiting"}
  <2>1. /\ ToSet(singleWaiters) = {t \in Singles : at[t] = "waiting"}
        /\ ToSet(bulkWaiters) = {t \in Bulks : at[t] = "waiting"}
    BY DEF Lanes
  <2> QED BY <1>2, <2>1 DEF Tasks
<1>4. \A t \in Tasks : at'[t] \notin Gone => page'[t] \in Pages \ ToSet(idle)'
  BY <1>1 DEF Lanes
<1>5. \A t, u \in Tasks : at'[t] \notin Gone /\ at'[u] \notin Gone /\ page'[t] = page'[u] => t = u
  BY DEF Lanes
<1> QED BY <1>1, <1>2, <1>3, <1>4, <1>5 DEF Lanes

LEMMA AppendDistinct ==
  ASSUME NEW T, NEW q \in Seq(T), Distinct(q), NEW x \in T, x \notin ToSet(q)
  PROVE  /\ Append(q, x) \in Seq(T) /\ Distinct(Append(q, x))
         /\ ToSet(Append(q, x)) = ToSet(q) \union {x}
<1>1. /\ Append(q, x) \in Seq(T) /\ Len(Append(q, x)) = Len(q) + 1 /\ Len(q) \in Nat
      /\ \A j \in 1..Len(q) : Append(q, x)[j] = q[j]
      /\ Append(q, x)[Len(q) + 1] = x
  OBVIOUS
<1>2. \A j \in 1..(Len(q) + 1) : j \in 1..Len(q) \/ j = Len(q) + 1
  BY <1>1
<1>3. ToSet(q) = {q[j] : j \in 1..Len(q)}
  BY DEF ToSet
<1>4. ToSet(Append(q, x)) = {Append(q, x)[j] : j \in 1..(Len(q) + 1)}
  BY <1>1 DEF ToSet
<1>5. ToSet(Append(q, x)) = ToSet(q) \union {x}
  <2>1. ToSet(Append(q, x)) \subseteq ToSet(q) \union {x}
    BY <1>1, <1>2, <1>3, <1>4
  <2>2. \A j \in 1..Len(q) : j \in 1..(Len(q) + 1)
    BY <1>1
  <2>3. Len(q) + 1 \in 1..(Len(q) + 1)
    BY <1>1
  <2> QED BY <2>1, <2>2, <2>3, <1>1, <1>3, <1>4
<1>6. Distinct(Append(q, x))
  <2> SUFFICES ASSUME NEW j \in 1..(Len(q) + 1), NEW k \in 1..(Len(q) + 1),
                      Append(q, x)[j] = Append(q, x)[k]
               PROVE  j = k
    BY <1>1 DEF Distinct
  <2>1. CASE j \in 1..Len(q) /\ k \in 1..Len(q)
    BY <2>1, <1>1 DEF Distinct
  <2>2. \A l \in 1..Len(q) : q[l] # x
    BY <1>3
  <2> QED BY <2>1, <2>2, <1>1, <1>2
<1> QED BY <1>1, <1>5, <1>6

-----------------------------------------------------------------------------
(* The inductive invariant of the pool's safety: the lanes above in every   *)
(* state, and a relaunch never opens a page too many.                      *)
Chromium ==
  /\ browser \in {"up", "down", "closed"}
  /\ open \subseteq Pages /\ all \subseteq Pages
  /\ launch \in {"none", "starting", "opening"} /\ opened \in 0..Size
  /\ launch = "opening" => opened < Size
  /\ faults \in [FaultKinds -> 0..MaxFaults]

PoolLanes == Lanes(idle, singleWaiters, bulkWaiters, bulkInFlight, at, page)

OutHasNone == \A t \in Tasks : at[t] = "out" => page[t] = NoPage

PoolInv == Chromium /\ PoolLanes /\ OutHasNone

LEMMA MoveFacts ==
  ASSUME at \in [Tasks -> Labels], NEW t \in Tasks, NEW to \in Labels
  PROVE  /\ Move(t, to) \in [Tasks -> Labels]
         /\ \A u \in Tasks : Move(t, to)[u] = IF u = t THEN to ELSE at[u]
BY DEF Move

(* A page Chromium just opened is in no hand and not idle.                 *)
LEMMA FreshPage ==
  ASSUME NEW p, NewPage(p)
  PROVE  /\ p \in Pages /\ p \notin open /\ p \notin all /\ p \notin ToSet(idle)
         /\ \A t \in Tasks : page[t] # p
BY DEF NewPage, Fresh

LEMMA FaultTyped ==
  ASSUME Chromium, NEW kind \in FaultKinds, Fault(kind) \/ NoFault
  PROVE  faults' \in [FaultKinds -> 0..MaxFaults]
<1>1. CASE NoFault
  BY <1>1 DEF NoFault, Chromium
<1>2. CASE Fault(kind)
  <2>1. \A k \in FaultKinds : faults[k] \in 0..MaxFaults
    BY DEF Chromium
  <2>2. faults[kind] < MaxFaults
    BY <1>2, <2>1, FaultAssumption DEF Fault, Failures, FaultKinds
  <2>3. faults[kind] + 1 \in 0..MaxFaults
    BY <2>1, <2>2, FaultAssumption
  <2> QED BY <1>2, <2>1, <2>3 DEF Fault, Chromium
<1> QED BY <1>1, <1>2

(* A release that ends with its page, or without one.                      *)
LEMMA PutBackKeeps ==
  ASSUME PoolLanes, NEW t \in Tasks, at[t] \notin Gone, at[t] # "using",
         NEW p \in Pages, p \notin ToSet(idle),
         \A u \in Tasks : at[u] \notin Gone /\ u # t => page[u] # p,
         PutBack(t, p)
  PROVE  /\ PoolLanes' /\ OutHasNone'
         /\ HeldPages' = (HeldPages \ {page[t]}) \union {p}
         /\ StaysBut(Move(t, "out"))
<1> DEFINE a == Move(t, "out")
<1>1. /\ a \in [Tasks -> Labels]
      /\ \A u \in Tasks : a[u] = IF u = t THEN "out" ELSE at[u]
  BY MoveFacts DEF PoolLanes, Lanes, Labels
<1>2. /\ Append(idle, p) \in Seq(Pages) /\ Distinct(Append(idle, p))
      /\ ToSet(Append(idle, p)) = ToSet(idle) \union {p}
  BY AppendDistinct DEF PoolLanes, Lanes
<1> HIDE DEF a
<1>3. /\ \A u \in Tasks : a[u] = "waiting" <=> at[u] = "waiting"
      /\ \A u \in Tasks : a[u] = "using" <=> at[u] = "using"
      /\ \A u \in Tasks : a[u] \notin Gone => at[u] \notin Gone /\ u # t
      /\ \A u \in Tasks : a[u] \in {"waiting", "relaunch"} => at[u] = a[u]
  BY <1>1 DEF Gone
<1>4. /\ {u \in Singles : a[u] = "waiting"} = {u \in Singles : at[u] = "waiting"}
      /\ {u \in Bulks : a[u] = "waiting"} = {u \in Bulks : at[u] = "waiting"}
      /\ {u \in Bulks : a[u] = "using"} = {u \in Bulks : at[u] = "using"}
  BY <1>3 DEF Tasks
<1>5. \A u \in Tasks : a[u] \notin Gone => page[u] \in Pages \ ToSet(Append(idle, p))
  BY <1>2, <1>3 DEF PoolLanes, Lanes
<1>6. Lanes(Append(idle, p), singleWaiters, bulkWaiters, bulkInFlight, a, page)
  BY <1>1, <1>2, <1>3, <1>4, <1>5 DEF PoolLanes, Lanes
<1>7. Dispatch(Append(idle, p), singleWaiters, bulkWaiters, bulkInFlight, a)
  BY DEF PutBack, a
<1>8. /\ PoolLanes' /\ OutHasNone'
      /\ HeldPages' = ToSet(Append(idle, p)) \union PagesOf(a)
      /\ StaysBut(a)
  BY <1>6, <1>7, DispatchKeeps DEF PoolLanes, OutHasNone
<1>9. PagesOf(a) = PagesOf(at) \ {page[t]} /\ page[t] \notin ToSet(idle)
  <2>1. AtWork(a) = AtWork(at) \ {t} /\ t \in AtWork(at)
    BY <1>1 DEF AtWork, Gone
  <2>2. \A u \in AtWork(at) \ {t} : page[u] # page[t]
    BY DEF AtWork, PoolLanes, Lanes
  <2>3. page[t] \notin ToSet(idle)
    BY DEF PoolLanes, Lanes
  <2> QED BY <2>1, <2>2, <2>3 DEF PagesOf
<1>10. HeldPages' = (HeldPages \ {page[t]}) \union {p}
  BY <1>2, <1>8, <1>9 DEF HeldPages
<1> QED BY <1>8, <1>10 DEF a

LEMMA GiveUpKeeps ==
  ASSUME PoolLanes, NEW t \in Tasks, at[t] \notin Gone, at[t] # "using", GiveUp(t)
  PROVE  /\ PoolLanes' /\ OutHasNone'
         /\ HeldPages' = HeldPages \ {page[t]}
         /\ StaysBut(Move(t, "out"))
<1> DEFINE a == Move(t, "out")
<1>1. /\ a \in [Tasks -> Labels]
      /\ \A u \in Tasks : a[u] = IF u = t THEN "out" ELSE at[u]
  BY MoveFacts DEF PoolLanes, Lanes, Labels
<1> HIDE DEF a
<1>3. /\ \A u \in Tasks : a[u] = "waiting" <=> at[u] = "waiting"
      /\ \A u \in Tasks : a[u] = "using" <=> at[u] = "using"
      /\ \A u \in Tasks : a[u] \notin Gone => at[u] \notin Gone
      /\ \A u \in Tasks : a[u] \in {"waiting", "relaunch"} => at[u] = a[u]
  BY <1>1 DEF Gone
<1>4. /\ {u \in Singles : a[u] = "waiting"} = {u \in Singles : at[u] = "waiting"}
      /\ {u \in Bulks : a[u] = "waiting"} = {u \in Bulks : at[u] = "waiting"}
      /\ {u \in Bulks : a[u] = "using"} = {u \in Bulks : at[u] = "using"}
  BY <1>3 DEF Tasks
<1>6. Lanes(idle, singleWaiters, bulkWaiters, bulkInFlight, a, page)
  BY <1>1, <1>3, <1>4 DEF PoolLanes, Lanes
<1>7. Dispatch(idle, singleWaiters, bulkWaiters, bulkInFlight, a)
  BY DEF GiveUp, a
<1>8. /\ PoolLanes' /\ OutHasNone'
      /\ HeldPages' = ToSet(idle) \union PagesOf(a)
      /\ StaysBut(a)
  BY <1>6, <1>7, DispatchKeeps DEF PoolLanes, OutHasNone
<1>9. PagesOf(a) = PagesOf(at) \ {page[t]} /\ page[t] \notin ToSet(idle)
  <2>1. AtWork(a) = AtWork(at) \ {t} /\ t \in AtWork(at)
    BY <1>1 DEF AtWork, Gone
  <2>2. \A u \in AtWork(at) \ {t} : page[u] # page[t]
    BY DEF AtWork, PoolLanes, Lanes
  <2>3. page[t] \notin ToSet(idle)
    BY DEF PoolLanes, Lanes
  <2> QED BY <2>1, <2>2, <2>3 DEF PagesOf
<1>10. HeldPages' = HeldPages \ {page[t]}
  BY <1>8, <1>9 DEF HeldPages
<1> QED BY <1>8, <1>10 DEF a

(* A task takes the next step of its release, or awaits the relaunch.      *)
LEMMA ReleaseMoves ==
  ASSUME PoolInv, NEW t \in Tasks, at[t] \notin Gone,
         NEW to \in Labels \ (Gone \union {"using"}),
         Proceed(t, to) \/ JoinRelaunch(t),
         UNCHANGED <<idle, singleWaiters, bulkWaiters>>,
         bulkInFlight' = IF t \in Bulks /\ at[t] = "using" THEN bulkInFlight - 1 ELSE bulkInFlight
  PROVE  /\ PoolLanes' /\ OutHasNone'
         /\ launch' \in {"none", "starting", "opening"} /\ (launch' = "opening" => launch = "opening")
<1>1. /\ at \in [Tasks -> Labels] /\ page \in [Tasks -> Pages \union {NoPage}]
      /\ launch \in {"none", "starting", "opening"}
  BY DEF PoolInv, PoolLanes, Lanes, Chromium
<1>2. /\ at' \in [Tasks -> Labels] /\ page' \in [Tasks -> Pages \union {NoPage}]
      /\ \A u \in Tasks \ {t} : at'[u] = at[u] /\ page'[u] = page[u]
      /\ \/ at'[t] = to /\ page'[t] = page[t] /\ launch' = launch
         \/ at'[t] = "relaunch" /\ page'[t] = NoPage /\ launch' \in {launch, "starting"}
  <2>1. CASE Proceed(t, to)
    BY <2>1, <1>1, MoveFacts DEF Proceed
  <2>2. CASE JoinRelaunch(t)
    BY <2>2, <1>1, MoveFacts DEF JoinRelaunch, Labels
  <2> QED BY <2>1, <2>2
<1>3. at'[t] # "using" /\ at'[t] # "waiting" /\ at'[t] # "out" /\ at[t] # "waiting"
  BY <1>2 DEF Gone
<1>4. bulkInFlight' = Cardinality({u \in Bulks : at'[u] = "using"}) /\ bulkInFlight' <= BulkCap
  <2> DEFINE U == {u \in Bulks : at[u] = "using"}
  <2>1. IsFiniteSet(U)
    BY TasksAssumption, FS_Subset DEF Tasks
  <2>2. bulkInFlight = Cardinality(U) /\ bulkInFlight \in Nat /\ bulkInFlight <= BulkCap
    BY <2>1, FS_CardinalityType DEF PoolInv, PoolLanes, Lanes
  <2>3. {u \in Bulks : at'[u] = "using"} = U \ {t}
    BY <1>2, <1>3 DEF Tasks
  <2>4. Cardinality(U \ {t}) = IF t \in U THEN Cardinality(U) - 1 ELSE Cardinality(U)
    BY <2>1, FS_RemoveElement
  <2>5. BulkCap \in Nat
    BY SizeAssumption DEF BulkCap
  <2> QED BY <2>2, <2>3, <2>4, <2>5
<1>5. /\ \A u \in Tasks : at'[u] = "waiting" <=> at[u] = "waiting"
      /\ \A u \in Tasks : at'[u] \notin Gone => at[u] \notin Gone /\ page'[u] = page[u]
      /\ \A u \in Tasks : at'[u] \in {"waiting", "relaunch"} => page'[u] = NoPage
  <2>1. \A u \in Tasks : at[u] \in {"waiting", "relaunch"} => page[u] = NoPage
    BY DEF PoolInv, PoolLanes, Lanes
  <2> QED BY <2>1, <1>2, <1>3 DEF Gone
<1>6. PoolLanes'
  BY <1>2, <1>4, <1>5, Steady DEF PoolInv, PoolLanes
<1>7. OutHasNone'
  BY <1>2, <1>3 DEF PoolInv, OutHasNone
<1> QED BY <1>1, <1>2, <1>6, <1>7

LEMMA AcquireKeeps ==
  ASSUME PoolInv, NEW t \in Tasks, Acquire(t)
  PROVE  PoolInv' /\ HeldPages' = HeldPages /\ StaysBut(Move(t, "waiting"))
<1> DEFINE a == Move(t, "waiting")
<1>1. /\ at[t] = "out" /\ page[t] = NoPage
      /\ UNCHANGED <<browser, open, launch, opened, all, faults>>
  BY DEF Acquire, PoolInv, OutHasNone
<1>2. /\ a \in [Tasks -> Labels]
      /\ \A u \in Tasks : a[u] = IF u = t THEN "waiting" ELSE at[u]
  BY MoveFacts DEF PoolInv, PoolLanes, Lanes, Labels
<1> HIDE DEF a
<1>3. /\ \A u \in Tasks : a[u] = "waiting" <=> at[u] = "waiting" \/ u = t
      /\ \A u \in Tasks : a[u] = "using" <=> at[u] = "using"
      /\ \A u \in Tasks : a[u] \notin Gone => at[u] \notin Gone
      /\ \A u \in Tasks : a[u] \in {"waiting", "relaunch"} => page[u] = NoPage
  BY <1>1, <1>2 DEF Gone, PoolInv, PoolLanes, Lanes
<1>4. {u \in Bulks : a[u] = "using"} = {u \in Bulks : at[u] = "using"}
  BY <1>3 DEF Tasks
<1>5. PoolLanes
  BY DEF PoolInv
<1>8. PagesOf(a) = PagesOf(at)
  BY <1>1, <1>2 DEF PagesOf, AtWork, Gone
<1>6. CASE t \in Bulks
  <2>1. t \notin Singles
    BY <1>6, TasksAssumption
  <2>2. ToSet(singleWaiters) = {u \in Singles : a[u] = "waiting"}
    BY <2>1, <1>3, <1>5 DEF PoolLanes, Lanes, Tasks
  <2>3. t \notin ToSet(bulkWaiters)
    BY <1>1, <1>5 DEF PoolLanes, Lanes
  <2>4. /\ Append(bulkWaiters, t) \in Seq(Bulks) /\ Distinct(Append(bulkWaiters, t))
        /\ ToSet(Append(bulkWaiters, t)) = ToSet(bulkWaiters) \union {t}
    BY <1>5, <1>6, <2>3, AppendDistinct DEF PoolLanes, Lanes
  <2>5. ToSet(Append(bulkWaiters, t)) = {u \in Bulks : a[u] = "waiting"}
    BY <2>4, <1>3, <1>5, <1>6 DEF PoolLanes, Lanes, Tasks
  <2>6. Lanes(idle, singleWaiters, Append(bulkWaiters, t), bulkInFlight, a, page)
    BY <2>2, <2>4, <2>5, <1>2, <1>3, <1>4, <1>5 DEF PoolLanes, Lanes
  <2>7. Dispatch(idle, singleWaiters, Append(bulkWaiters, t), bulkInFlight, a)
    BY <1>6 DEF Acquire, a
  <2>8. /\ PoolLanes' /\ OutHasNone'
        /\ HeldPages' = ToSet(idle) \union PagesOf(a) /\ StaysBut(a)
    BY <2>6, <2>7, DispatchKeeps DEF PoolLanes, OutHasNone
  <2>9. PoolInv'
    BY <2>8, <1>1 DEF PoolInv, Chromium
  <2> QED BY <2>8, <2>9, <1>8 DEF HeldPages, a
<1>7. CASE t \notin Bulks
  <2>1. t \in Singles
    BY <1>7 DEF Tasks
  <2>2. ToSet(bulkWaiters) = {u \in Bulks : a[u] = "waiting"}
    BY <1>3, <1>5, <1>7 DEF PoolLanes, Lanes, Tasks
  <2>3. t \notin ToSet(singleWaiters)
    BY <1>1, <1>5 DEF PoolLanes, Lanes
  <2>4. /\ Append(singleWaiters, t) \in Seq(Singles) /\ Distinct(Append(singleWaiters, t))
        /\ ToSet(Append(singleWaiters, t)) = ToSet(singleWaiters) \union {t}
    BY <1>5, <2>1, <2>3, AppendDistinct DEF PoolLanes, Lanes
  <2>5. ToSet(Append(singleWaiters, t)) = {u \in Singles : a[u] = "waiting"}
    BY <2>1, <2>4, <1>3, <1>5 DEF PoolLanes, Lanes, Tasks
  <2>6. Lanes(idle, Append(singleWaiters, t), bulkWaiters, bulkInFlight, a, page)
    BY <2>2, <2>4, <2>5, <1>2, <1>3, <1>4, <1>5 DEF PoolLanes, Lanes
  <2>7. Dispatch(idle, Append(singleWaiters, t), bulkWaiters, bulkInFlight, a)
    BY <1>7 DEF Acquire, a
  <2>8. /\ PoolLanes' /\ OutHasNone'
        /\ HeldPages' = ToSet(idle) \union PagesOf(a) /\ StaysBut(a)
    BY <2>6, <2>7, DispatchKeeps DEF PoolLanes, OutHasNone
  <2>9. PoolInv'
    BY <2>8, <1>1 DEF PoolInv, Chromium
  <2> QED BY <2>8, <2>9, <1>8 DEF HeldPages, a
<1> QED BY <1>6, <1>7

LEMMA ReleaseStartKeeps ==
  ASSUME PoolInv, NEW t \in Tasks, ReleaseStart(t)
  PROVE  PoolInv'
<1>1. /\ at[t] = "using"
      /\ Proceed(t, "reset") \/ JoinRelaunch(t)
      /\ UNCHANGED <<browser, open, opened, idle, all, singleWaiters, bulkWaiters, faults>>
      /\ bulkInFlight' = IF t \in Bulks /\ bulkInFlight > 0 THEN bulkInFlight - 1 ELSE bulkInFlight
  BY DEF ReleaseStart
<1>2. t \in Bulks => bulkInFlight > 0
  <2> DEFINE U == {u \in Bulks : at[u] = "using"}
  <2>1. IsFiniteSet(U)
    BY TasksAssumption, FS_Subset DEF Tasks
  <2>2. bulkInFlight = Cardinality(U) /\ bulkInFlight \in Nat
    BY <2>1, FS_CardinalityType DEF PoolInv, PoolLanes, Lanes
  <2>3. t \in Bulks => U # {}
    BY <1>1
  <2>4. Cardinality(U) = 0 <=> U = {}
    BY <2>1, FS_EmptySet
  <2> QED BY <2>2, <2>3, <2>4
<1>3. "reset" \in Labels \ (Gone \union {"using"}) /\ at[t] \notin Gone
  BY <1>1 DEF Labels, Gone
<1>4. bulkInFlight' = IF t \in Bulks /\ at[t] = "using" THEN bulkInFlight - 1 ELSE bulkInFlight
  BY <1>1, <1>2
<1>5. /\ PoolLanes' /\ OutHasNone'
      /\ launch' \in {"none", "starting", "opening"} /\ (launch' = "opening" => launch = "opening")
  BY <1>1, <1>3, <1>4, ReleaseMoves
<1> QED BY <1>1, <1>5 DEF PoolInv, Chromium

LEMMA ResetKeeps ==
  ASSUME PoolInv, NEW t \in Tasks, Reset(t)
  PROVE  PoolInv'
<1>1. at[t] = "reset" /\ UNCHANGED <<browser, open, opened, all>>
  BY DEF Reset
<1>2. at[t] \notin Gone /\ at[t] # "using" /\ "close" \in Labels \ (Gone \union {"using"})
  BY <1>1 DEF Labels, Gone
<1>3. CASE NoFault /\ PutBack(t, page[t]) /\ UNCHANGED launch
  <2>1. /\ page[t] \in Pages \ ToSet(idle)
        /\ \A u \in Tasks : at[u] \notin Gone /\ u # t => page[u] # page[t]
    BY <1>2 DEF PoolInv, PoolLanes, Lanes
  <2>2. PoolLanes' /\ OutHasNone'
    BY <2>1, <1>2, <1>3, PutBackKeeps DEF PoolInv
  <2> QED BY <2>2, <1>1, <1>3 DEF PoolInv, Chromium, NoFault
<1>4. CASE /\ NoFault \/ Fault("page")
           /\ Proceed(t, "close") /\ UNCHANGED <<idle, singleWaiters, bulkWaiters, bulkInFlight>>
  <2>1. /\ PoolLanes' /\ OutHasNone'
        /\ launch' \in {"none", "starting", "opening"} /\ (launch' = "opening" => launch = "opening")
    BY <1>1, <1>2, <1>4, ReleaseMoves
  <2>2. faults' \in [FaultKinds -> 0..MaxFaults]
    BY <1>4, FaultTyped DEF PoolInv, FaultKinds
  <2> QED BY <2>1, <2>2, <1>1 DEF PoolInv, Chromium
<1> QED BY <1>3, <1>4 DEF Reset

LEMMA CloseKeeps ==
  ASSUME PoolInv, NEW t \in Tasks, Close(t)
  PROVE  PoolInv'
<1>1. /\ at[t] = "close" /\ open' = open \ {page[t]}
      /\ Proceed(t, "replace") \/ JoinRelaunch(t)
      /\ UNCHANGED <<browser, opened, idle, all, singleWaiters, bulkWaiters, bulkInFlight, faults>>
  BY DEF Close, poolVars
<1>2. at[t] \notin Gone /\ at[t] # "using" /\ "replace" \in Labels \ (Gone \union {"using"})
  BY <1>1 DEF Labels, Gone
<1>3. /\ PoolLanes' /\ OutHasNone'
      /\ launch' \in {"none", "starting", "opening"} /\ (launch' = "opening" => launch = "opening")
  BY <1>1, <1>2, ReleaseMoves
<1> QED BY <1>1, <1>3 DEF PoolInv, Chromium

LEMMA ReplaceKeeps ==
  ASSUME PoolInv, NEW t \in Tasks, Replace(t)
  PROVE  PoolInv'
<1>1. PICK p \in Pages :
        /\ at[t] = "replace" /\ NoFault /\ UNCHANGED <<browser, launch, opened>>
        /\ NewPage(p) /\ open' = open \union {p}
        /\ \/ all' = (all \ {page[t]}) \union {p} /\ PutBack(t, p)
           \/ /\ at' = Move(t, "discard") /\ page' = [page EXCEPT ![t] = p]
              /\ UNCHANGED <<idle, all, singleWaiters, bulkWaiters, bulkInFlight>>
  BY DEF Replace, poolVars
<1>2. at[t] \notin Gone /\ at[t] # "using" /\ "discard" \in Labels
  BY <1>1 DEF Labels, Gone
<1>3. p \notin ToSet(idle) /\ \A u \in Tasks : page[u] # p
  BY <1>1, FreshPage
<1>4. CASE all' = (all \ {page[t]}) \union {p} /\ PutBack(t, p)
  <2>1. PoolLanes' /\ OutHasNone'
    BY <1>2, <1>3, <1>4, PutBackKeeps DEF PoolInv
  <2> QED BY <2>1, <1>1, <1>4 DEF PoolInv, Chromium, NoFault
<1>5. CASE /\ at' = Move(t, "discard") /\ page' = [page EXCEPT ![t] = p]
           /\ UNCHANGED <<idle, all, singleWaiters, bulkWaiters, bulkInFlight>>
  <2>1. PoolLanes
    BY DEF PoolInv
  <2>2. /\ at' \in [Tasks -> Labels] /\ page' \in [Tasks -> Pages \union {NoPage}]
        /\ \A u \in Tasks \ {t} : at'[u] = at[u] /\ page'[u] = page[u]
        /\ at'[t] = "discard" /\ page'[t] = p
    BY <1>2, <1>5, <2>1, MoveFacts DEF PoolLanes, Lanes
  <2>3. /\ {u \in Singles : at'[u] = "waiting"} = {u \in Singles : at[u] = "waiting"}
        /\ {u \in Bulks : at'[u] = "waiting"} = {u \in Bulks : at[u] = "waiting"}
        /\ {u \in Bulks : at'[u] = "using"} = {u \in Bulks : at[u] = "using"}
    BY <1>2, <2>2 DEF Tasks, Gone
  <2>4. /\ idle' \in Seq(Pages) /\ Distinct(idle)' /\ ToSet(idle)' = ToSet(idle)
        /\ singleWaiters' \in Seq(Singles) /\ Distinct(singleWaiters)'
        /\ bulkWaiters' \in Seq(Bulks) /\ Distinct(bulkWaiters)'
        /\ ToSet(singleWaiters)' = ToSet(singleWaiters) /\ ToSet(bulkWaiters)' = ToSet(bulkWaiters)
    BY <1>5, <2>1 DEF PoolLanes, Lanes, Distinct, ToSet
  <2>5. \A u \in Tasks : at'[u] \notin Gone => page'[u] \in Pages \ ToSet(idle)'
    BY <1>3, <2>1, <2>2, <2>4 DEF PoolLanes, Lanes
  <2>6. \A u, v \in Tasks : at'[u] \notin Gone /\ at'[v] \notin Gone /\ page'[u] = page'[v] => u = v
    <3> SUFFICES ASSUME NEW u \in Tasks, NEW v \in Tasks,
                        at'[u] \notin Gone, at'[v] \notin Gone, page'[u] = page'[v]
                 PROVE  u = v
      OBVIOUS
    <3>1. CASE u # t /\ v # t
      BY <3>1, <2>1, <2>2 DEF PoolLanes, Lanes
    <3>2. CASE u = t \/ v = t
      BY <3>2, <1>3, <2>2
    <3> QED BY <3>1, <3>2
  <2>7. \A u \in Tasks : at'[u] \in {"waiting", "relaunch"} => page'[u] = NoPage
    BY <2>1, <2>2 DEF PoolLanes, Lanes
  <2>8. /\ bulkInFlight' = Cardinality({u \in Bulks : at'[u] = "using"}) /\ bulkInFlight' <= BulkCap
        /\ ToSet(singleWaiters)' = {u \in Singles : at'[u] = "waiting"}
        /\ ToSet(bulkWaiters)' = {u \in Bulks : at'[u] = "waiting"}
    BY <1>5, <2>1, <2>3, <2>4 DEF PoolLanes, Lanes
  <2>9. PoolLanes'
    BY <2>2, <2>4, <2>5, <2>6, <2>7, <2>8 DEF PoolLanes, Lanes
  <2>10. OutHasNone'
    BY <2>2 DEF PoolInv, OutHasNone
  <2> QED BY <2>9, <2>10, <1>1, <1>5 DEF PoolInv, Chromium, NoFault
<1> QED BY <1>1, <1>4, <1>5

LEMMA ReplaceFailedKeeps ==
  ASSUME PoolInv, NEW t \in Tasks, ReplaceFailed(t)
  PROVE  PoolInv'
<1>1. /\ at[t] \in {"replace", "replaceLost"} /\ (NoFault \/ Fault("newPage"))
      /\ UNCHANGED <<browser, open, opened, all>>
  BY DEF ReplaceFailed
<1>2. at[t] \notin Gone /\ at[t] # "using" /\ "close" \in Labels \ (Gone \union {"using"})
  BY <1>1 DEF Labels, Gone
<1>3. faults' \in [FaultKinds -> 0..MaxFaults]
  BY <1>1, FaultTyped DEF PoolInv, FaultKinds
<1>4. CASE GiveUp(t) /\ UNCHANGED launch
  <2>1. PoolLanes' /\ OutHasNone'
    BY <1>2, <1>4, GiveUpKeeps DEF PoolInv
  <2> QED BY <2>1, <1>1, <1>3, <1>4 DEF PoolInv, Chromium
<1>5. CASE JoinRelaunch(t) /\ UNCHANGED <<idle, singleWaiters, bulkWaiters, bulkInFlight>>
  <2>1. /\ PoolLanes' /\ OutHasNone'
        /\ launch' \in {"none", "starting", "opening"} /\ (launch' = "opening" => launch = "opening")
    BY <1>2, <1>5, ReleaseMoves
  <2> QED BY <2>1, <1>1, <1>3 DEF PoolInv, Chromium
<1> QED BY <1>4, <1>5 DEF ReplaceFailed

LEMMA DiscardKeeps ==
  ASSUME PoolInv, NEW t \in Tasks, Discard(t)
  PROVE  PoolInv'
<1>1. /\ at[t] = "discard" /\ open' = open \ {page[t]} /\ GiveUp(t)
      /\ UNCHANGED <<browser, launch, opened, all, faults>>
  BY DEF Discard
<1>2. at[t] \notin Gone /\ at[t] # "using"
  BY <1>1 DEF Gone
<1>3. PoolLanes' /\ OutHasNone'
  BY <1>1, <1>2, GiveUpKeeps DEF PoolInv
<1> QED BY <1>1, <1>3 DEF PoolInv, Chromium

(* Chromium goes, or a relaunch settles, with no dispatch: tasks only give   *)
(* up their pages.                                                         *)
LEMMA SettleKeeps ==
  ASSUME PoolInv, idle' = idle \/ idle' = <<>>,
         UNCHANGED <<singleWaiters, bulkWaiters, bulkInFlight, page>>,
         at' \in [Tasks -> Labels],
         \A t \in Tasks : \/ at'[t] = at[t]
                          \/ at[t] = "replace" /\ at'[t] = "replaceLost"
                          \/ at[t] = "relaunch" /\ at'[t] = "out"
  PROVE  PoolLanes' /\ OutHasNone'
<1>1. PoolLanes /\ \A t \in Tasks : at[t] \in Gone => page[t] = NoPage
  BY DEF PoolInv, OutHasNone, Gone, PoolLanes, Lanes
<1>2. {u \in Bulks : at'[u] = "using"} = {u \in Bulks : at[u] = "using"}
  BY DEF Tasks
<1>3. bulkInFlight' = Cardinality({u \in Bulks : at'[u] = "using"}) /\ bulkInFlight' <= BulkCap
  BY <1>1, <1>2 DEF PoolLanes, Lanes
<1>4. /\ \A t \in Tasks : at'[t] = "waiting" <=> at[t] = "waiting"
      /\ \A t \in Tasks : at'[t] \notin Gone => at[t] \notin Gone /\ page'[t] = page[t]
      /\ \A t \in Tasks : at'[t] \in Gone => page'[t] = NoPage
  BY <1>1 DEF Gone
<1>5. PoolLanes'
  <2>1. page' \in [Tasks -> Pages \union {NoPage}]
    BY <1>1 DEF PoolLanes, Lanes
  <2>2. \A t \in Tasks : at'[t] \in {"waiting", "relaunch"} => page'[t] = NoPage
    BY <1>4 DEF Gone
  <2> QED BY <2>1, <2>2, <1>1, <1>3, <1>4, Steady DEF PoolLanes
<1> QED BY <1>4, <1>5 DEF OutHasNone, Gone

LEMMA BrowserDiesKeeps ==
  ASSUME PoolInv, BrowserDies
  PROVE  PoolInv'
<1>1. at \in [Tasks -> Labels]
  BY DEF PoolInv, PoolLanes, Lanes
<1>2. /\ at' \in [Tasks -> Labels]
      /\ \A t \in Tasks : at'[t] = at[t] \/ (at[t] = "replace" /\ at'[t] = "replaceLost")
  BY <1>1 DEF BrowserDies, Die, Labels
<1>3. PoolLanes' /\ OutHasNone'
  BY <1>2, SettleKeeps DEF BrowserDies, poolVars
<1>4. faults' \in [FaultKinds -> 0..MaxFaults]
  BY FaultTyped DEF PoolInv, FaultKinds, BrowserDies
<1> QED BY <1>3, <1>4 DEF PoolInv, Chromium, BrowserDies, Die, poolVars

LEMMA LaunchKeeps ==
  ASSUME PoolInv, Launch
  PROVE  PoolInv'
<1>1. at' \in [Tasks -> Labels] /\ at' = at
  BY DEF PoolInv, PoolLanes, Lanes, Launch
<1>2. PoolLanes' /\ OutHasNone'
  BY <1>1, SettleKeeps DEF Launch
<1> QED BY <1>2, SizeAssumption DEF PoolInv, Chromium, Launch, NoFault

LEMMA RelaunchFailsKeeps ==
  ASSUME PoolInv, RelaunchFails
  PROVE  PoolInv'
<1>1. at \in [Tasks -> Labels]
  BY DEF PoolInv, PoolLanes, Lanes
<1>2. /\ at' \in [Tasks -> Labels]
      /\ \A t \in Tasks : \/ at'[t] = at[t]
                          \/ at[t] = "replace" /\ at'[t] = "replaceLost"
                          \/ at[t] = "relaunch" /\ at'[t] = "out"
  BY <1>1 DEF RelaunchFails, Awaited, Labels
<1>3. PoolLanes' /\ OutHasNone'
  BY <1>2, SettleKeeps DEF RelaunchFails, poolVars
<1>4. faults' \in [FaultKinds -> 0..MaxFaults]
  BY FaultTyped DEF PoolInv, FaultKinds, RelaunchFails
<1> QED BY <1>3, <1>4 DEF PoolInv, Chromium, RelaunchFails, poolVars

LEMMA OpenPageKeeps ==
  ASSUME PoolInv, OpenPage
  PROVE  /\ PoolInv'
         /\ opened' = Size => \E p \in Pages \ all : /\ all' = all \union {p}
                                                  /\ HeldPages' = HeldPages \union {p}
                                                  /\ StaysBut(Awaited)
<1>1. PICK p \in Pages :
        /\ launch = "opening" /\ NoFault /\ opened' = opened + 1 /\ UNCHANGED browser
        /\ NewPage(p) /\ open' = open \union {p} /\ all' = all \union {p}
        /\ IF opened' = Size
           THEN /\ launch' = "none"
                /\ Dispatch(Append(idle, p), singleWaiters, bulkWaiters, bulkInFlight, Awaited)
           ELSE /\ idle' = Append(idle, p)
                /\ UNCHANGED <<launch, singleWaiters, bulkWaiters, bulkInFlight, at, page>>
  BY DEF OpenPage
<1>2. p \notin ToSet(idle) /\ \A u \in Tasks : page[u] # p
  BY <1>1, FreshPage
<1>3. PoolLanes /\ \A t \in Tasks : at[t] \in Gone => page[t] = NoPage
  BY DEF PoolInv, OutHasNone, Gone, PoolLanes, Lanes
<1>4. /\ Append(idle, p) \in Seq(Pages) /\ Distinct(Append(idle, p))
      /\ ToSet(Append(idle, p)) = ToSet(idle) \union {p}
  BY <1>2, <1>3, AppendDistinct DEF PoolLanes, Lanes
<1>5. /\ opened' \in 0..Size /\ (opened' # Size => opened' < Size)
      /\ open' \subseteq Pages /\ all' \subseteq Pages
  BY <1>1, SizeAssumption DEF PoolInv, Chromium
<1>6. CASE opened' = Size
  <2> DEFINE a == Awaited
  <2>1. /\ a \in [Tasks -> Labels]
        /\ \A u \in Tasks : a[u] = IF at[u] = "relaunch" THEN "out" ELSE at[u]
    BY <1>3 DEF Awaited, PoolLanes, Lanes, Labels
  <2> HIDE DEF a
  <2>2. /\ \A u \in Tasks : a[u] = "waiting" <=> at[u] = "waiting"
        /\ \A u \in Tasks : a[u] = "using" <=> at[u] = "using"
        /\ \A u \in Tasks : a[u] \notin Gone => at[u] \notin Gone
        /\ \A u \in Tasks : a[u] \in {"waiting", "relaunch"} => page[u] = NoPage
    BY <2>1, <1>3 DEF Gone
  <2>3. /\ {u \in Singles : a[u] = "waiting"} = {u \in Singles : at[u] = "waiting"}
        /\ {u \in Bulks : a[u] = "waiting"} = {u \in Bulks : at[u] = "waiting"}
        /\ {u \in Bulks : a[u] = "using"} = {u \in Bulks : at[u] = "using"}
    BY <2>2 DEF Tasks
  <2>4. \A u \in Tasks : a[u] \notin Gone => page[u] \in Pages \ ToSet(Append(idle, p))
    BY <1>2, <1>3, <1>4, <2>2 DEF PoolLanes, Lanes
  <2>5. Lanes(Append(idle, p), singleWaiters, bulkWaiters, bulkInFlight, a, page)
    BY <1>3, <1>4, <2>1, <2>2, <2>3, <2>4 DEF PoolLanes, Lanes
  <2>6. Dispatch(Append(idle, p), singleWaiters, bulkWaiters, bulkInFlight, a) /\ launch' = "none"
    BY <1>1, <1>6 DEF a
  <2>7. /\ PoolLanes' /\ OutHasNone'
        /\ HeldPages' = ToSet(Append(idle, p)) \union PagesOf(a) /\ StaysBut(a)
    BY <2>5, <2>6, DispatchKeeps DEF PoolLanes, OutHasNone
  <2>8. PagesOf(a) = PagesOf(at)
    BY <2>1 DEF PagesOf, AtWork, Gone
  <2>9. HeldPages' = HeldPages \union {p}
    BY <2>7, <2>8, <1>4 DEF HeldPages
  <2>10. p \in Pages \ all
    BY <1>1, FreshPage
  <2>11. PoolInv'
    BY <2>6, <2>7, <1>1, <1>5 DEF PoolInv, Chromium, NoFault
  <2> QED BY <2>7, <2>9, <2>10, <2>11, <1>1 DEF a
<1>7. CASE opened' # Size
  <2>1. /\ idle' = Append(idle, p)
        /\ UNCHANGED <<launch, singleWaiters, bulkWaiters, bulkInFlight, at, page>>
    BY <1>1, <1>7
  <2>2. /\ idle' \in Seq(Pages) /\ Distinct(idle)' /\ ToSet(idle)' = ToSet(idle) \union {p}
        /\ Distinct(singleWaiters)' /\ ToSet(singleWaiters)' = ToSet(singleWaiters)
        /\ Distinct(bulkWaiters)' /\ ToSet(bulkWaiters)' = ToSet(bulkWaiters)
    <3>1. /\ idle' \in Seq(Pages) /\ Distinct(idle') /\ ToSet(idle') = ToSet(idle) \union {p}
      BY <2>1, <1>4
    <3>2. Distinct(idle)' /\ ToSet(idle)' = ToSet(idle) \union {p}
      BY <3>1 DEF Distinct, ToSet
    <3>3. /\ Distinct(singleWaiters)' /\ ToSet(singleWaiters)' = ToSet(singleWaiters)
          /\ Distinct(bulkWaiters)' /\ ToSet(bulkWaiters)' = ToSet(bulkWaiters)
      BY <2>1, <1>3 DEF PoolLanes, Lanes, Distinct, ToSet
    <3> QED BY <3>1, <3>2, <3>3
  <2>3. \A u \in Tasks : at'[u] \notin Gone => page'[u] \in Pages \ ToSet(idle)'
    BY <2>1, <2>2, <1>2, <1>3 DEF PoolLanes, Lanes
  <2>4. PoolLanes'
    BY <2>1, <2>2, <2>3, <1>3 DEF PoolLanes, Lanes
  <2> QED BY <2>1, <2>4, <1>1, <1>5, <1>7 DEF PoolInv, Chromium, OutHasNone, NoFault
<1> QED BY <1>6, <1>7

LEMMA ShutdownKeeps ==
  ASSUME PoolInv, Shutdown
  PROVE  PoolInv'
<1>1. /\ browser' = "closed" /\ open' = {} /\ \A t \in Tasks : at[t] = "out"
      /\ idle' = <<>> /\ all' = {} /\ singleWaiters' = <<>> /\ bulkWaiters' = <<>> /\ bulkInFlight' = 0
      /\ UNCHANGED <<launch, opened, at, page, faults>>
  BY DEF Shutdown
<1>2. /\ Distinct(idle)' /\ ToSet(idle)' = {} /\ Distinct(singleWaiters)' /\ ToSet(singleWaiters)' = {}
      /\ Distinct(bulkWaiters)' /\ ToSet(bulkWaiters)' = {}
  BY <1>1 DEF Distinct, ToSet
<1>3. /\ {t \in Singles : at'[t] = "waiting"} = {} /\ {t \in Bulks : at'[t] = "waiting"} = {}
      /\ {t \in Bulks : at'[t] = "using"} = {}
  BY <1>1 DEF Tasks
<1>4. bulkInFlight' = Cardinality({t \in Bulks : at'[t] = "using"}) /\ bulkInFlight' <= BulkCap
  <2>1. BulkCap \in Nat
    BY SizeAssumption DEF BulkCap
  <2>2. Cardinality({t \in Bulks : at'[t] = "using"}) = 0
    BY <1>3, FS_EmptySet
  <2> QED BY <2>1, <2>2, <1>1
<1>5. PoolLanes'
  BY <1>1, <1>2, <1>3, <1>4 DEF PoolInv, PoolLanes, Lanes, Gone
<1> QED BY <1>1, <1>5 DEF PoolInv, Chromium, OutHasNone

LEMMA PoolInitially == Init => PoolInv
<1> SUFFICES ASSUME Init PROVE PoolInv
  OBVIOUS
<1>1. idle \in [1..Size -> Pages] /\ IsInjective(idle) /\ Size \in Nat
  BY PagesAssumption, SizeAssumption DEF Init
<1>2. idle \in Seq(Pages) /\ Len(idle) = Size /\ ToSet(idle) \subseteq Pages
  BY <1>1 DEF ToSet
<1>3. Distinct(idle)
  BY <1>1, <1>2 DEF Distinct, IsInjective
<1>4. /\ singleWaiters = <<>> /\ bulkWaiters = <<>> /\ bulkInFlight = 0
      /\ at = [t \in Tasks |-> "out"] /\ page = [t \in Tasks |-> NoPage]
      /\ faults = [kind \in FaultKinds |-> 0]
      /\ browser = "up" /\ launch = "none" /\ opened = 0 /\ all = ToSet(idle) /\ open = all
  BY DEF Init
<1>5. /\ Distinct(singleWaiters) /\ ToSet(singleWaiters) = {}
      /\ Distinct(bulkWaiters) /\ ToSet(bulkWaiters) = {}
  BY <1>4 DEF Distinct, ToSet
<1>6. /\ {t \in Singles : at[t] = "waiting"} = {} /\ {t \in Bulks : at[t] = "waiting"} = {}
      /\ {t \in Bulks : at[t] = "using"} = {}
  BY <1>4 DEF Tasks
<1>7. bulkInFlight = Cardinality({t \in Bulks : at[t] = "using"}) /\ bulkInFlight <= BulkCap
  <2>1. BulkCap \in Nat
    BY SizeAssumption DEF BulkCap
  <2>2. Cardinality({t \in Bulks : at[t] = "using"}) = 0
    BY <1>6, FS_EmptySet
  <2> QED BY <2>1, <2>2, <1>4
<1>8. at \in [Tasks -> Labels] /\ page \in [Tasks -> Pages \union {NoPage}]
  BY <1>4 DEF Labels
<1>9. PoolLanes
  BY <1>2, <1>3, <1>4, <1>5, <1>6, <1>7, <1>8 DEF PoolLanes, Lanes, Gone
<1>10. Chromium
  BY <1>1, <1>2, <1>4, FaultAssumption DEF Chromium
<1> QED BY <1>4, <1>9, <1>10 DEF PoolInv, OutHasNone

LEMMA PoolStep == PoolInv /\ [Next]_vars => PoolInv'
<1> SUFFICES ASSUME PoolInv, [Next]_vars PROVE PoolInv'
  OBVIOUS
<1>1. ASSUME NEW t \in Tasks, Acquire(t) \/ ReleaseStep(t) PROVE PoolInv'
  BY <1>1, AcquireKeeps, ReleaseStartKeeps, ResetKeeps, CloseKeeps, ReplaceKeeps,
     ReplaceFailedKeeps, DiscardKeeps DEF ReleaseStep
<1>2. CASE Relaunch
  BY <1>2, LaunchKeeps, OpenPageKeeps, RelaunchFailsKeeps DEF Relaunch
<1>3. CASE BrowserDies \/ Shutdown
  BY <1>3, BrowserDiesKeeps, ShutdownKeeps
<1>4. CASE UNCHANGED vars
  <2>1. Chromium' /\ OutHasNone'
    BY <1>4 DEF vars, poolVars, PoolInv, Chromium, OutHasNone
  <2>2. PoolLanes'
    <3>1. /\ idle' = idle /\ UNCHANGED <<singleWaiters, bulkWaiters>>
          /\ at' = at /\ page' = page /\ bulkInFlight' = bulkInFlight
      BY <1>4 DEF vars, poolVars
    <3>2. /\ at \in [Tasks -> Labels] /\ page \in [Tasks -> Pages \union {NoPage}]
          /\ bulkInFlight = Cardinality({t \in Bulks : at[t] = "using"}) /\ bulkInFlight <= BulkCap
          /\ \A t \in Tasks : at[t] \in {"waiting", "relaunch"} => page[t] = NoPage
      BY DEF PoolInv, PoolLanes, Lanes
    <3> QED BY <3>1, <3>2, Steady DEF PoolInv, PoolLanes
  <2> QED BY <2>1, <2>2 DEF PoolInv
<1> QED BY <1>1, <1>2, <1>3, <1>4 DEF Next

-----------------------------------------------------------------------------
(* The theorems.                                                           *)
LEMMA PoolInvariant == Spec => []PoolInv
BY PoolInitially, PoolStep, PTL DEF Spec

LEMMA PoolTyped == PoolInv => TypeOK
<1> SUFFICES ASSUME PoolInv PROVE TypeOK
  OBVIOUS
<1>1. PoolLanes /\ Chromium /\ OutHasNone
  BY DEF PoolInv
<1>2. bulkInFlight \in 0..BulkCap
  <2>1. IsFiniteSet({t \in Bulks : at[t] = "using"})
    BY TasksAssumption, FS_Subset DEF Tasks
  <2>2. BulkCap \in Nat
    BY SizeAssumption DEF BulkCap
  <2> QED BY <1>1, <2>1, <2>2, FS_CardinalityType DEF PoolLanes, Lanes
<1>3. \A t \in Tasks : page[t] = NoPage <=> at[t] \in Gone
  BY <1>1, PagesAssumption DEF PoolLanes, Lanes, OutHasNone, Gone
<1> QED BY <1>1, <1>2, <1>3 DEF PoolLanes, Lanes, Chromium, TypeOK, Gone

(* Every variable keeps its type; in particular the bulk lane never works   *)
(* on more pages than the reservation leaves it (browserPool.js:7-11, the  *)
(* assert of :128), whatever fails.                                        *)
THEOREM TypeCorrect == Spec => []TypeOK
BY PoolInvariant, PoolTyped, PTL

(* The in-flight counter of the bulk lane is exact through every dispatch,  *)
(* release, relaunch and shutdown (browserPool.js:126, :138).              *)
THEOREM CounterExact == Spec => []InFlightExact
<1>1. PoolInv => InFlightExact
  BY DEF PoolInv, PoolLanes, Lanes, InFlightExact, Using
<1> QED BY <1>1, PoolInvariant, PTL

(* A page is in one place only: in one hand, or idle once (browserPool.js:3).*)
THEOREM PagePerTask == Spec => []NoPageShared
<1>1. PoolInv => NoPageShared
  <2> SUFFICES ASSUME PoolInv PROVE NoPageShared
    OBVIOUS
  <2>1. PoolLanes /\ \A t \in Tasks : at[t] \in Gone => page[t] = NoPage
    BY DEF PoolInv, OutHasNone, Gone, PoolLanes, Lanes
  <2>2. \A t \in InHand : t \in Tasks /\ at[t] \notin Gone
    BY <2>1 DEF InHand
  <2>3. DOMAIN idle = 1..Len(idle)
    BY <2>1 DEF PoolLanes, Lanes
  <2> QED BY <2>1, <2>2, <2>3 DEF PoolLanes, Lanes, Distinct, NoPageShared
<1> QED BY <1>1, PoolInvariant, PTL

(* A dispatch that serves a bulk task leaves no single one waiting.        *)
LEMMA DispatchYields ==
  ASSUME NEW i \in Seq(Pages), NEW s \in Seq(Singles), NEW q \in Seq(Bulks), NEW f \in Nat, NEW a,
         Dispatch(i, s, q, f, a), NEW t \in Bulks, a[t] # "using", at'[t] = "using"
  PROVE  singleWaiters' = <<>>
<1> DEFINE n == Served(Len(i), s, q, f)
           fs == First(s, n.single)
           fb == First(q, n.bulk)
<1>1. /\ at' = [u \in Tasks |-> IF u \in ToSet(fs \o fb) THEN "using" ELSE a[u]]
      /\ singleWaiters' = Rest(s, n.single)
  BY DEF Dispatch
<1>2. n.single \in 0..Len(s) /\ n.bulk \in 0..Len(q) /\ (n.bulk > 0 => n.single = Len(s))
  BY ServedBounds
<1> HIDE DEF n
<1>3. Len(s) \in Nat /\ Len(q) \in Nat /\ \A j \in 1..Len(s) : s[j] \in Singles
  OBVIOUS
<1>4. fs \in Seq(Singles) /\ Len(fs) = n.single
  BY <1>2, <1>3, SubSeqProperties DEF First
<1>5. fb \in Seq(Bulks) /\ Len(fb) = n.bulk
  <2>1. \A j \in 1..n.bulk : q[j] \in Bulks
    BY <1>2
  <2> QED BY <1>2, <1>3, <2>1, SubSeqProperties DEF First
<1> HIDE DEF fs, fb
<1>6. CASE n.bulk = 0
  <2>1. fs \o fb = fs
    <3>1. fb = <<>>
      BY <1>5, <1>6
    <3> QED BY <1>4, <3>1, ConcatEmptySeq
  <2>2. t \in ToSet(fs)
    BY <1>1, <2>1 DEF Tasks
  <2>3. t \in Singles
    BY <1>4, <2>2 DEF ToSet
  <2> QED BY <2>3, TasksAssumption
<1>7. CASE n.bulk # 0
  BY <1>1, <1>2, <1>3, <1>7, SubSeqEmpty DEF Rest
<1> QED BY <1>6, <1>7

(* No dispatch serves a bulk task while a single one waits, whichever event *)
(* it ends (browserPool.js:13-14).                                         *)
THEOREM BulkYieldsToSingle == Spec => SinglesFirst
<1> DEFINE Step == \A b \in Bulks : at[b] # "using" /\ at'[b] = "using" => singleWaiters' = <<>>
<1>1. ASSUME PoolInv, [Next]_vars PROVE Step
  <2> SUFFICES ASSUME NEW b \in Bulks, at[b] # "using", at'[b] = "using"
               PROVE  singleWaiters' = <<>>
    OBVIOUS
  <2>1. /\ b \in Tasks /\ at \in [Tasks -> Labels]
        /\ idle \in Seq(Pages) /\ singleWaiters \in Seq(Singles) /\ bulkWaiters \in Seq(Bulks)
        /\ bulkInFlight \in Nat
    <3>1. bulkInFlight \in 0..BulkCap
      BY <1>1, PoolTyped DEF TypeOK
    <3>2. BulkCap \in Nat
      BY SizeAssumption DEF BulkCap
    <3> QED BY <1>1, <3>1, <3>2 DEF Tasks, PoolInv, PoolLanes, Lanes
  <2>2. ASSUME NEW i \in Seq(Pages), NEW t \in Tasks,
               Dispatch(i, singleWaiters, bulkWaiters, bulkInFlight, Move(t, "out"))
        PROVE  singleWaiters' = <<>>
    <3>1. Move(t, "out")[b] # "using"
      BY <2>1, MoveFacts DEF Labels
    <3> QED BY <2>1, <2>2, <3>1, DispatchYields
  <2>3. ASSUME NEW t \in Tasks, NEW p \in Pages, PutBack(t, p) \/ GiveUp(t)
        PROVE  singleWaiters' = <<>>
    <3>1. idle \in Seq(Pages) /\ Append(idle, p) \in Seq(Pages)
      BY <2>1
    <3> QED BY <2>2, <2>3, <3>1 DEF PutBack, GiveUp
  <2>4. ASSUME NEW t \in Tasks, NEW to \in Labels \ {"using"},
               at' = Move(t, to) \/ Proceed(t, to) \/ JoinRelaunch(t)
        PROVE  FALSE
    <3>1. "relaunch" \in Labels
      BY DEF Labels
    <3>2. Move(t, to)[b] # "using" /\ Move(t, "relaunch")[b] # "using"
      BY <2>1, <2>4, <3>1, MoveFacts
    <3> QED BY <2>4, <3>2 DEF Proceed, JoinRelaunch
  <2>5. ASSUME NEW t \in Tasks, Acquire(t) PROVE singleWaiters' = <<>>
    <3>1. Move(t, "waiting")[b] # "using"
      BY <2>1, MoveFacts DEF Labels
    <3>2. CASE t \in Bulks
      <4>1. Append(bulkWaiters, t) \in Seq(Bulks)
        BY <2>1, <3>2
      <4>2. Dispatch(idle, singleWaiters, Append(bulkWaiters, t), bulkInFlight, Move(t, "waiting"))
        BY <2>5, <3>2 DEF Acquire
      <4> QED BY <2>1, <3>1, <4>1, <4>2, DispatchYields
    <3>3. CASE t \notin Bulks
      <4>1. Append(singleWaiters, t) \in Seq(Singles)
        BY <2>1, <3>3 DEF Tasks
      <4>2. Dispatch(idle, Append(singleWaiters, t), bulkWaiters, bulkInFlight, Move(t, "waiting"))
        BY <2>5, <3>3 DEF Acquire
      <4> QED BY <2>1, <3>1, <4>1, <4>2, DispatchYields
    <3> QED BY <3>2, <3>3
  <2>6. ASSUME NEW t \in Tasks, ReleaseStep(t) PROVE singleWaiters' = <<>>
    <3>1. \A u \in Tasks : page[u] = NoPage \/ page[u] \in Pages
      BY <1>1 DEF PoolInv, PoolLanes, Lanes
    <3>2. {"reset", "close", "replace", "discard"} \subseteq Labels \ {"using"} /\ Pages # {}
      <4>1. Pages # {}
        BY PagesAssumption, SizeAssumption
      <4> QED BY <4>1 DEF Labels
    <3>3. CASE ReleaseStart(t)
      BY <2>4, <3>2, <3>3 DEF ReleaseStart
    <3>4. CASE Reset(t)
      <4>1. page[t] \in Pages
        BY <1>1, <3>4 DEF PoolInv, PoolLanes, Lanes, Reset, Gone
      <4> QED BY <2>3, <2>4, <3>2, <3>4, <4>1 DEF Reset
    <3>5. CASE Close(t)
      BY <2>4, <3>2, <3>5 DEF Close
    <3>6. CASE Replace(t)
      BY <2>3, <2>4, <3>2, <3>6 DEF Replace
    <3>7. CASE ReplaceFailed(t)
      BY <2>3, <2>4, <3>2, <3>7 DEF ReplaceFailed
    <3>8. CASE Discard(t)
      BY <2>3, <3>2, <3>8 DEF Discard
    <3> QED BY <2>6, <3>3, <3>4, <3>5, <3>6, <3>7, <3>8 DEF ReleaseStep
  <2>7. CASE OpenPage
    <3>1. PICK p \in Pages :
            /\ \/ Dispatch(Append(idle, p), singleWaiters, bulkWaiters, bulkInFlight, Awaited)
               \/ UNCHANGED at
      BY <2>7 DEF OpenPage
    <3>2. Append(idle, p) \in Seq(Pages) /\ Awaited[b] # "using"
      BY <2>1 DEF Awaited
    <3> QED BY <2>1, <3>1, <3>2, DispatchYields
  <2>8. CASE Launch \/ RelaunchFails \/ BrowserDies \/ Shutdown \/ UNCHANGED vars
    BY <2>1, <2>8 DEF Launch, RelaunchFails, BrowserDies, Die, Shutdown, Awaited, vars
  <2> QED BY <1>1, <2>5, <2>6, <2>7, <2>8 DEF Next, Relaunch
<1>2. PoolInv /\ [Next]_vars => Step
  BY <1>1
<1> QED BY <1>2, PoolInvariant, PTL DEF Spec, SinglesFirst

-----------------------------------------------------------------------------
(* No page is lost: beside the lanes, what a relaunch has opened, and that   *)
(* the pages of the current browser that nobody holds are those newPage    *)
(* failed to replace.  A page of an earlier browser is not among them: that *)
(* is why a task whose newPage died with its browser, or whose replacement  *)
(* is surplus, may drop the page it has.                                   *)
Enough ==
  /\ launch = "none" => Cardinality(all) >= Size
  /\ launch = "opening" => Cardinality(all) >= opened
  /\ Cardinality(all \ HeldPages) <= faults["newPage"]

Whole ==
  /\ IsFiniteSet(all)
  /\ Relaunches /\ Alive => Enough
  /\ \A t \in Tasks : at[t] = "replaceLost" /\ Alive => page[t] \notin all
  /\ \A t \in Tasks : at[t] = "discard" => page[t] \notin all
  /\ launch # "none" => \E t \in Tasks : at[t] = "relaunch"
  /\ launch = "starting" => ~Alive
  /\ launch = "opening" => Alive
  /\ browser = "closed" => open = {} /\ \A t \in Tasks : at[t] = "out"

LEMMA FaultCounts ==
  ASSUME Chromium, NEW kind \in FaultKinds, Fault(kind) \/ NoFault
  PROVE  /\ faults["newPage"] \in Nat /\ faults'["newPage"] >= faults["newPage"]
         /\ Relaunches' => Relaunches
         /\ Fault("newPage") => faults'["newPage"] = faults["newPage"] + 1
<1>1. \A k \in FaultKinds : faults[k] \in Nat
  BY FaultAssumption DEF Chromium
<1>2. \A k \in FaultKinds : faults'[k] \in {faults[k], faults[k] + 1}
  BY DEF Fault, NoFault, Chromium
<1>3. "newPage" \in FaultKinds /\ "launch" \in FaultKinds
  BY DEF FaultKinds
<1>4. Fault("newPage") => faults'["newPage"] = faults["newPage"] + 1
  BY <1>3 DEF Fault, Chromium
<1> QED BY <1>1, <1>2, <1>3, <1>4 DEF Relaunches

(* A step of one task, with the browser and its pages as they were.         *)
LEMMA TaskStepWhole ==
  ASSUME PoolInv, Whole, UNCHANGED <<browser, opened, all>>, browser # "closed",
         \A u \in Tasks : at'[u] \in {"replaceLost", "discard"} => at'[u] = at[u] /\ page'[u] = page[u],
         \/ launch' = launch /\ \A u \in Tasks : at[u] = "relaunch" => at'[u] = "relaunch"
         \/ ~Alive /\ launch' \in {launch, "starting"} /\ \E u \in Tasks : at'[u] = "relaunch",
         Relaunches' => Relaunches,
         Relaunches /\ Alive => Cardinality(all \ HeldPages') <= faults'["newPage"]
  PROVE  Whole'
<1>1. Alive' = Alive
  BY DEF Alive
<1>2. Relaunches' /\ Alive' => Enough'
  <2> SUFFICES ASSUME Relaunches', Alive PROVE Enough'
    BY <1>1
  <2>1. launch' = launch /\ Enough
    BY DEF Whole
  <2>2. (all \ HeldPages)' = all \ HeldPages'
    OBVIOUS
  <2> QED BY <2>1, <2>2 DEF Enough
<1>3. /\ \A t \in Tasks : at'[t] = "replaceLost" /\ Alive' => page'[t] \notin all'
      /\ \A t \in Tasks : at'[t] = "discard" => page'[t] \notin all'
  BY <1>1 DEF Whole
<1>4. launch' # "none" => \E t \in Tasks : at'[t] = "relaunch"
  BY DEF Whole
<1>5. (launch' = "starting" => ~Alive') /\ (launch' = "opening" => Alive')
  BY <1>1 DEF Whole
<1> QED BY <1>2, <1>3, <1>4, <1>5 DEF Whole

(* The next step of a release, or the wait for the relaunch.               *)
LEMMA ProceedWhole ==
  ASSUME PoolInv, Whole, NEW t \in Tasks, at[t] \notin Gone,
         NEW to \in Labels \ (Gone \union {"replaceLost", "discard"}),
         \/ Proceed(t, to)
         \/ ~Alive /\ JoinRelaunch(t),
         UNCHANGED <<browser, opened, all, idle>>,
         NEW kind \in FaultKinds, Fault(kind) \/ NoFault
  PROVE  Whole'
<1>1. /\ at \in [Tasks -> Labels] /\ page \in [Tasks -> Pages \union {NoPage}]
  BY DEF PoolInv, PoolLanes, Lanes
<1>2. browser # "closed"
  BY DEF Whole, Gone
<1>3. Relaunches' => Relaunches
  BY FaultCounts DEF PoolInv
<1>4. CASE Proceed(t, to)
  <2>1. /\ launch' = launch /\ page' = page
        /\ at'[t] = to /\ \A u \in Tasks \ {t} : at'[u] = at[u]
    BY <1>1, <1>4, MoveFacts DEF Proceed
  <2>2. AtWork(at)' = AtWork(at)
    BY <2>1 DEF AtWork, Gone
  <2>3. HeldPages' = HeldPages
    BY <2>1, <2>2 DEF HeldPages, PagesOf, ToSet
  <2>4. Relaunches /\ Alive => Cardinality(all \ HeldPages') <= faults'["newPage"]
    <3>1. IsFiniteSet(all \ HeldPages)
      BY FS_Difference DEF Whole
    <3>2. Cardinality(all \ HeldPages) \in Nat
      BY <3>1, FS_CardinalityType
    <3>3. /\ faults["newPage"] \in Nat /\ faults'["newPage"] >= faults["newPage"]
          /\ faults' = faults \/ faults'["newPage"] \in {faults["newPage"], faults["newPage"] + 1}
      BY FaultCounts DEF PoolInv, Chromium, Fault, NoFault, FaultKinds
    <3>4. faults'["newPage"] \in Nat
      BY <3>3
    <3>5. Relaunches /\ Alive => Cardinality(all \ HeldPages) <= faults["newPage"]
      BY DEF Whole, Enough
    <3> QED BY <2>3, <3>2, <3>3, <3>4, <3>5
  <2>5. /\ \A u \in Tasks : at'[u] \in {"replaceLost", "discard"} => at'[u] = at[u] /\ page'[u] = page[u]
        /\ \A u \in Tasks : at[u] = "relaunch" => at'[u] = "relaunch"
    BY <2>1 DEF Gone
  <2> QED BY <2>1, <2>4, <2>5, <1>2, <1>3, TaskStepWhole
<1>5. CASE ~Alive /\ JoinRelaunch(t)
  <2>1. /\ launch' \in {launch, "starting"}
        /\ at'[t] = "relaunch" /\ \A u \in Tasks \ {t} : at'[u] = at[u] /\ page'[u] = page[u]
    BY <1>1, <1>5, MoveFacts DEF JoinRelaunch, Labels
  <2>2. \A u \in Tasks : at'[u] \in {"replaceLost", "discard"} => at'[u] = at[u] /\ page'[u] = page[u]
    BY <2>1
  <2> QED BY <2>1, <2>2, <1>2, <1>3, <1>5, TaskStepWhole
<1> QED BY <1>4, <1>5

(* The dispatches that a task's step ends with.                            *)
LEMMA StaysWhole ==
  ASSUME PoolInv, Whole, NEW t \in Tasks, NEW to \in {"out", "waiting"}, at[t] # "relaunch",
         StaysBut(Move(t, to)), browser # "closed", UNCHANGED <<browser, launch, opened, all>>,
         NEW kind \in FaultKinds, Fault(kind) \/ NoFault,
         Relaunches /\ Alive => Cardinality(all \ HeldPages') <= faults'["newPage"]
  PROVE  Whole'
<1>1. at \in [Tasks -> Labels] /\ to \in Labels
  BY DEF PoolInv, PoolLanes, Lanes, Labels
<1>2. \A u \in Tasks : Move(t, to)[u] = IF u = t THEN to ELSE at[u]
  BY <1>1, MoveFacts
<1>3. \A u \in Tasks : at'[u] \in {"replaceLost", "discard"} => at'[u] = at[u] /\ page'[u] = page[u]
  BY <1>2 DEF StaysBut, Gone
<1>4. \A u \in Tasks : at[u] = "relaunch" => at'[u] = "relaunch"
  BY <1>2 DEF StaysBut
<1>5. Relaunches' => Relaunches
  BY FaultCounts DEF PoolInv
<1> QED BY <1>3, <1>4, <1>5, TaskStepWhole

(* A page less in hand is at most one more page nobody holds.              *)
LEMMA OneLess ==
  ASSUME NEW A, NEW H, IsFiniteSet(A), NEW x
  PROVE  /\ Cardinality(A \ H) \in Nat
         /\ Cardinality(A \ (H \ {x})) <= Cardinality(A \ H) + 1
         /\ x \notin A => Cardinality(A \ (H \ {x})) = Cardinality(A \ H)
<1>1. IsFiniteSet(A \ H)
  BY FS_Difference
<1>2. IsFiniteSet((A \ H) \union {x}) /\ Cardinality((A \ H) \union {x}) <= Cardinality(A \ H) + 1
  <2>1. Cardinality(A \ H) \in Nat
    BY <1>1, FS_CardinalityType
  <2>2. /\ IsFiniteSet((A \ H) \union {x})
        /\ Cardinality((A \ H) \union {x}) = IF x \in A \ H THEN Cardinality(A \ H)
                                             ELSE Cardinality(A \ H) + 1
    BY <1>1, FS_AddElement
  <2> QED BY <2>1, <2>2
<1>3. A \ (H \ {x}) \in SUBSET ((A \ H) \union {x})
  OBVIOUS
<1>4. Cardinality(A \ (H \ {x})) <= Cardinality((A \ H) \union {x})
  BY <1>2, <1>3, FS_Subset
<1>5. Cardinality(A \ (H \ {x})) \in Nat
  BY <1>2, <1>3, FS_Subset, FS_CardinalityType
<1>6. x \notin A => A \ (H \ {x}) = A \ H
  OBVIOUS
<1>7. Cardinality(A \ H) \in Nat /\ Cardinality((A \ H) \union {x}) \in Nat
  BY <1>1, <1>2, FS_CardinalityType
<1> QED BY <1>2, <1>4, <1>5, <1>6, <1>7

(* A page given up: one the browser has not, or one newPage did not replace. *)
LEMMA GiveUpWhole ==
  ASSUME PoolInv, Whole, NEW t \in Tasks, at[t] \notin Gone, at[t] # "using", GiveUp(t), Alive,
         UNCHANGED <<browser, launch, opened, all>>,
         \/ Fault("newPage")
         \/ NoFault /\ page[t] \notin all
  PROVE  Whole'
<1>1. HeldPages' = HeldPages \ {page[t]} /\ StaysBut(Move(t, "out"))
  BY GiveUpKeeps DEF PoolInv
<1>2. /\ faults["newPage"] \in Nat
      /\ IF Fault("newPage") THEN faults'["newPage"] = faults["newPage"] + 1
         ELSE faults' = faults /\ page[t] \notin all
  BY FaultCounts DEF PoolInv, NoFault, FaultKinds
<1>3. /\ Cardinality(all \ HeldPages) \in Nat
      /\ Cardinality(all \ HeldPages') <= Cardinality(all \ HeldPages) + 1
      /\ page[t] \notin all => Cardinality(all \ HeldPages') = Cardinality(all \ HeldPages)
  <2>1. /\ Cardinality(all \ HeldPages) \in Nat
        /\ Cardinality(all \ (HeldPages \ {page[t]})) <= Cardinality(all \ HeldPages) + 1
        /\ page[t] \notin all => Cardinality(all \ (HeldPages \ {page[t]})) = Cardinality(all \ HeldPages)
    BY OneLess DEF Whole
  <2> QED BY <1>1, <2>1
<1>4. Cardinality(all \ HeldPages') \in Nat
  BY FS_Difference, FS_CardinalityType DEF Whole
<1>5. Relaunches /\ Alive => Cardinality(all \ HeldPages) <= faults["newPage"]
  BY DEF Whole, Enough
<1>6. Relaunches /\ Alive => Cardinality(all \ HeldPages') <= faults'["newPage"]
  BY <1>2, <1>3, <1>4, <1>5
<1>7. "newPage" \in FaultKinds /\ browser # "closed" /\ at[t] # "relaunch" /\ "out" \in {"out", "waiting"}
  BY DEF FaultKinds, Alive, Gone
<1> QED BY <1>1, <1>6, <1>7, StaysWhole

LEMMA AcquireWhole ==
  ASSUME PoolInv, Whole, NEW t \in Tasks, Acquire(t)
  PROVE  Whole'
<1>1. HeldPages' = HeldPages /\ StaysBut(Move(t, "waiting"))
  BY AcquireKeeps
<1>2. /\ at[t] # "relaunch" /\ browser # "closed" /\ NoFault /\ "page" \in FaultKinds
      /\ UNCHANGED <<browser, launch, opened, all, faults>> /\ "waiting" \in {"out", "waiting"}
  BY DEF Acquire, NoFault, FaultKinds
<1>3. Relaunches /\ Alive => Cardinality(all \ HeldPages') <= faults'["newPage"]
  BY <1>1, <1>2 DEF Whole, Enough
<1> QED BY <1>1, <1>2, <1>3, StaysWhole

LEMMA ReleaseWhole ==
  ASSUME PoolInv, Whole, NEW t \in Tasks, ReleaseStart(t) \/ Reset(t) \/ Close(t)
  PROVE  Whole'
<1>1. {"reset", "close", "replace"} \subseteq Labels \ (Gone \union {"replaceLost", "discard"})
  BY DEF Labels, Gone
<1>2. "page" \in FaultKinds
  BY DEF FaultKinds
<1>3. CASE ReleaseStart(t)
  <2>1. /\ at[t] \notin Gone /\ NoFault /\ UNCHANGED <<browser, opened, all, idle>>
        /\ Proceed(t, "reset") \/ (~Alive /\ JoinRelaunch(t))
    BY <1>3 DEF ReleaseStart, Gone, NoFault
  <2> QED BY <2>1, <1>1, <1>2, ProceedWhole
<1>4. CASE Close(t)
  <2>1. /\ at[t] \notin Gone /\ NoFault /\ UNCHANGED <<browser, opened, all, idle>>
        /\ Proceed(t, "replace") \/ (~Alive /\ JoinRelaunch(t))
    BY <1>4 DEF Close, Gone, NoFault, poolVars
  <2> QED BY <2>1, <1>1, <1>2, ProceedWhole
<1>5. CASE Reset(t)
  <2>1. /\ at[t] = "reset" /\ at[t] \notin Gone /\ at[t] # "using" /\ UNCHANGED <<browser, opened, all>>
    BY <1>5 DEF Reset, Gone
  <2>2. CASE NoFault /\ PutBack(t, page[t]) /\ UNCHANGED launch
    <3>1. /\ page[t] \in Pages \ ToSet(idle)
          /\ \A u \in Tasks : at[u] \notin Gone /\ u # t => page[u] # page[t]
      BY <2>1 DEF PoolInv, PoolLanes, Lanes
    <3>2. HeldPages' = (HeldPages \ {page[t]}) \union {page[t]} /\ StaysBut(Move(t, "out"))
      BY <3>1, <2>1, <2>2, PutBackKeeps DEF PoolInv
    <3>3. page[t] \in HeldPages
      BY <2>1 DEF HeldPages, PagesOf, AtWork
    <3>4. Relaunches /\ Alive => Cardinality(all \ HeldPages') <= faults'["newPage"]
      <4>1. HeldPages' = HeldPages
        BY <3>2, <3>3
      <4> QED BY <4>1, <2>2 DEF Whole, Enough, NoFault
    <3>5. browser # "closed" /\ at[t] # "relaunch" /\ "out" \in {"out", "waiting"}
      BY <2>1 DEF Whole, Gone
    <3> QED BY <3>2, <3>4, <3>5, <2>1, <2>2, <1>2, StaysWhole
  <2>3. CASE (NoFault \/ Fault("page")) /\ Proceed(t, "close") /\ UNCHANGED idle
    BY <2>1, <2>3, <1>1, <1>2, ProceedWhole
  <2> QED BY <1>5, <2>2, <2>3 DEF Reset
<1> QED BY <1>3, <1>4, <1>5

LEMMA ReplaceFailedWhole ==
  ASSUME PoolInv, Whole, NEW t \in Tasks, ReplaceFailed(t) \/ Discard(t)
  PROVE  Whole'
<1>1. CASE Discard(t)
  <2>1. /\ at[t] = "discard" /\ GiveUp(t) /\ UNCHANGED <<browser, launch, opened, all, faults>>
        /\ at[t] \notin Gone /\ at[t] # "using"
    BY <1>1 DEF Discard, Gone
  <2>2. page[t] \notin all /\ browser # "closed"
    BY <2>1 DEF Whole, Gone
  <2>3. HeldPages' = HeldPages \ {page[t]} /\ StaysBut(Move(t, "out"))
    BY <2>1, GiveUpKeeps DEF PoolInv
  <2>4. Cardinality(all \ HeldPages') = Cardinality(all \ HeldPages)
    <3>1. all \ HeldPages' = all \ HeldPages
      BY <2>2, <2>3
    <3> QED BY <3>1
  <2>5. Relaunches /\ Alive => Cardinality(all \ HeldPages') <= faults'["newPage"]
    BY <2>1, <2>4 DEF Whole, Enough
  <2>6. NoFault /\ "page" \in FaultKinds /\ at[t] # "relaunch" /\ "out" \in {"out", "waiting"}
    BY <2>1 DEF NoFault, FaultKinds
  <2> QED BY <2>1, <2>2, <2>3, <2>5, <2>6, StaysWhole
<1>2. CASE ReplaceFailed(t)
  <2>1. /\ at[t] \in {"replace", "replaceLost"} /\ at[t] \notin Gone /\ at[t] # "using"
        /\ UNCHANGED <<browser, opened, all>>
        /\ Fault("newPage") \/ (NoFault /\ at[t] = "replaceLost")
        /\ "newPage" \in FaultKinds
        /\ "close" \in Labels \ (Gone \union {"replaceLost", "discard"})
    BY <1>2 DEF ReplaceFailed, Gone, FaultKinds, Labels
  <2>2. CASE Alive /\ GiveUp(t) /\ UNCHANGED launch
    <3>1. at[t] = "replaceLost" => page[t] \notin all
      BY <2>2 DEF Whole
    <3> QED BY <2>1, <2>2, <3>1, GiveUpWhole
  <2>3. CASE ~Alive /\ JoinRelaunch(t) /\ UNCHANGED idle
    BY <2>1, <2>3, ProceedWhole
  <2> QED BY <1>2, <2>2, <2>3 DEF ReplaceFailed
<1> QED BY <1>1, <1>2

LEMMA ReplaceWhole ==
  ASSUME PoolInv, Whole, NEW t \in Tasks, Replace(t)
  PROVE  Whole'
<1>1. PICK p \in Pages :
        /\ at[t] = "replace" /\ NoFault /\ UNCHANGED <<browser, launch, opened>>
        /\ NewPage(p)
        /\ \/ /\ page[t] \in all \/ ~Full
              /\ all' = (all \ {page[t]}) \union {p}
              /\ PutBack(t, p)
           \/ /\ page[t] \notin all
              /\ at' = Move(t, "discard") /\ page' = [page EXCEPT ![t] = p]
              /\ UNCHANGED <<idle, all>>
  BY DEF Replace, poolVars
<1>2. at[t] \notin Gone /\ at[t] # "using" /\ "discard" \in Labels /\ "out" \in Labels
  BY <1>1 DEF Labels, Gone
<1>3. p \notin ToSet(idle) /\ p \notin all /\ \A u \in Tasks : page[u] # p
  BY <1>1, FreshPage
<1>4. /\ at \in [Tasks -> Labels] /\ page \in [Tasks -> Pages \union {NoPage}]
      /\ \A u \in Tasks \ {t} : at[u] \notin Gone => page[u] # page[t]
  BY <1>2 DEF PoolInv, PoolLanes, Lanes
<1>5. browser # "closed" /\ IsFiniteSet(all)
  BY <1>2 DEF Whole, Gone
<1>6. faults' = faults /\ Alive' = Alive /\ Relaunches' = Relaunches
  BY <1>1 DEF NoFault, Alive, Relaunches
<1>7. CASE /\ page[t] \in all \/ ~Full
           /\ all' = (all \ {page[t]}) \union {p} /\ PutBack(t, p)
  <2>1. HeldPages' = (HeldPages \ {page[t]}) \union {p} /\ StaysBut(Move(t, "out"))
    BY <1>2, <1>3, <1>7, PutBackKeeps DEF PoolInv
  <2>2. \A u \in Tasks : Move(t, "out")[u] = IF u = t THEN "out" ELSE at[u]
    BY <1>2, <1>4, MoveFacts
  <2>3. /\ \A u \in Tasks : at'[u] \in {"replaceLost", "discard"} =>
                              u # t /\ at'[u] = at[u] /\ page'[u] = page[u]
        /\ \A u \in Tasks : at[u] = "relaunch" => at'[u] = "relaunch"
    BY <1>1, <2>1, <2>2 DEF StaysBut, Gone
  <2>4. /\ IsFiniteSet(all') /\ Cardinality(all') \in Nat /\ Cardinality(all) \in Nat
        /\ page[t] \in all => Cardinality(all') = Cardinality(all)
        /\ page[t] \notin all => Cardinality(all') = Cardinality(all) + 1
    <3>1. /\ IsFiniteSet(all \ {page[t]})
          /\ Cardinality(all \ {page[t]}) = IF page[t] \in all THEN Cardinality(all) - 1 ELSE Cardinality(all)
      BY <1>5, FS_RemoveElement
    <3>2. /\ IsFiniteSet((all \ {page[t]}) \union {p})
          /\ Cardinality((all \ {page[t]}) \union {p}) = Cardinality(all \ {page[t]}) + 1
      BY <3>1, <1>3, FS_AddElement
    <3>3. Cardinality(all) \in Nat
      BY <1>5, FS_CardinalityType
    <3> QED BY <3>1, <3>2, <3>3, <1>7
  <2>5. all' \ HeldPages' = (all \ HeldPages) \ {page[t]}
    BY <2>1, <1>3, <1>7
  <2>6. Cardinality(all' \ HeldPages') <= Cardinality(all \ HeldPages)
    <3>1. IsFiniteSet(all \ HeldPages)
      BY <1>5, FS_Difference
    <3> QED BY <3>1, <2>5, FS_Subset
  <2>7. Relaunches' /\ Alive' => Enough'
    <3> SUFFICES ASSUME Relaunches, Alive PROVE Enough'
      BY <1>6
    <3>1. Enough
      BY DEF Whole
    <3>2. IsFiniteSet(all \ HeldPages) /\ IsFiniteSet(all' \ HeldPages')
      BY <1>5, <2>4, FS_Difference
    <3>3. /\ Cardinality(all \ HeldPages) \in Nat /\ Cardinality(all' \ HeldPages') \in Nat
          /\ faults["newPage"] \in Nat /\ Size \in Nat /\ opened \in Nat
      BY <3>2, FS_CardinalityType, FaultAssumption, SizeAssumption
         DEF PoolInv, Chromium, FaultKinds
    <3>4. Cardinality(all') >= Cardinality(all)
      BY <2>4
    <3>5. /\ launch' = "none" => Cardinality(all') >= Size
          /\ launch' = "opening" => Cardinality(all') >= opened'
      BY <1>1, <2>4, <3>1, <3>3, <3>4 DEF Enough
    <3>6. Cardinality(all' \ HeldPages') <= faults'["newPage"]
      BY <1>6, <2>6, <3>1, <3>3 DEF Enough
    <3> QED BY <3>5, <3>6 DEF Enough
  <2>8. /\ \A u \in Tasks : at'[u] = "replaceLost" /\ Alive' => page'[u] \notin all'
        /\ \A u \in Tasks : at'[u] = "discard" => page'[u] \notin all'
    BY <1>3, <1>6, <1>7, <2>3 DEF Whole
  <2>9. launch' # "none" => \E u \in Tasks : at'[u] = "relaunch"
    BY <1>1, <2>3 DEF Whole
  <2> QED BY <1>1, <1>5, <1>6, <2>4, <2>7, <2>8, <2>9 DEF Whole
<1>8. CASE /\ page[t] \notin all
           /\ at' = Move(t, "discard") /\ page' = [page EXCEPT ![t] = p] /\ UNCHANGED <<idle, all>>
  <2>1. /\ at'[t] = "discard" /\ page'[t] = p
        /\ \A u \in Tasks \ {t} : at'[u] = at[u] /\ page'[u] = page[u]
    BY <1>2, <1>4, <1>8, MoveFacts
  <2>2. AtWork(at)' = AtWork(at) /\ t \in AtWork(at)
    BY <1>2, <2>1 DEF AtWork, Gone
  <2>3. all \ HeldPages' \subseteq all \ HeldPages
    <3>1. ToSet(idle)' = ToSet(idle)
      BY <1>8 DEF ToSet
    <3>2. \A x \in all : x \in PagesOf(at) => x \in {page'[u] : u \in AtWork(at)'}
      BY <2>1, <2>2, <1>8 DEF PagesOf
    <3> QED BY <3>1, <3>2 DEF HeldPages, PagesOf
  <2>4. /\ IsFiniteSet(all \ HeldPages)
        /\ Cardinality(all \ HeldPages') <= Cardinality(all \ HeldPages)
        /\ Cardinality(all \ HeldPages') \in Nat /\ Cardinality(all \ HeldPages) \in Nat
    BY <2>3, <1>5, FS_Difference, FS_Subset, FS_CardinalityType
  <2>5. Relaunches' /\ Alive' => Enough'
    <3> SUFFICES ASSUME Relaunches, Alive PROVE Enough'
      BY <1>6
    <3>1. Enough
      BY DEF Whole
    <3>2. faults["newPage"] \in Nat
      BY FaultAssumption DEF PoolInv, Chromium, FaultKinds
    <3>3. Cardinality(all \ HeldPages') <= faults'["newPage"]
      BY <1>6, <2>4, <3>1, <3>2 DEF Enough
    <3> QED BY <1>1, <1>8, <3>1, <3>3 DEF Enough
  <2>6. /\ \A u \in Tasks : at'[u] = "replaceLost" /\ Alive' => page'[u] \notin all'
        /\ \A u \in Tasks : at'[u] = "discard" => page'[u] \notin all'
    BY <1>3, <1>6, <1>8, <2>1 DEF Whole
  <2>7. launch' # "none" => \E u \in Tasks : at'[u] = "relaunch"
    BY <1>1, <2>1 DEF Whole
  <2>8. launch' = launch /\ browser' # "closed" /\ IsFiniteSet(all')
    BY <1>1, <1>5, <1>8
  <2> QED BY <1>6, <2>5, <2>6, <2>7, <2>8 DEF Whole
<1> QED BY <1>1, <1>7, <1>8

LEMMA RelaunchWhole ==
  ASSUME PoolInv, Whole, Relaunch
  PROVE  Whole'
<1>1. CASE Launch
  <2>1. /\ launch = "starting" /\ browser' = "up" /\ launch' = "opening" /\ opened' = 0 /\ all' = {}
        /\ at' = at /\ page' = page /\ faults' = faults
    BY <1>1 DEF Launch, NoFault
  <2>2. IsFiniteSet(all') /\ Cardinality(all') = 0
    BY <2>1, FS_EmptySet
  <2>3. faults'["newPage"] \in Nat
    BY <2>1, FaultAssumption DEF PoolInv, Chromium, FaultKinds
  <2>4. Cardinality(all' \ HeldPages') = 0
    <3>1. all' \ HeldPages' = {}
      BY <2>1
    <3> QED BY <3>1, FS_EmptySet
  <2>5. Enough'
    BY <2>1, <2>2, <2>3, <2>4 DEF Enough
  <2> QED BY <2>1, <2>2, <2>5 DEF Whole, Alive
<1>2. CASE RelaunchFails
  <2>1. /\ launch # "none" /\ launch' = "none" /\ Fault("launch") /\ all' = all /\ page' = page
    BY <1>2 DEF RelaunchFails, poolVars
  <2>2. ~Relaunches'
    <3>1. "launch" \in FaultKinds /\ faults["launch"] \in Nat
      BY FaultAssumption DEF PoolInv, Chromium, FaultKinds
    <3>2. faults'["launch"] = faults["launch"] + 1
      BY <2>1, <3>1 DEF Fault, PoolInv, Chromium
    <3> QED BY <3>1, <3>2 DEF Relaunches
  <2>3. browser # "closed"
    BY <2>1 DEF Whole
  <2>4. at \in [Tasks -> Labels]
    BY DEF PoolInv, PoolLanes, Lanes
  <2>5. CASE at' = Awaited /\ UNCHANGED <<browser, open>>
    <3>1. \A u \in Tasks : at'[u] \in {"replaceLost", "discard"} => at'[u] = at[u]
      BY <2>5 DEF Awaited
    <3> QED BY <2>1, <2>2, <2>3, <2>5, <3>1 DEF Whole, Alive
  <2>6. CASE /\ browser' = "down"
             /\ at' = [t \in Tasks |-> IF at[t] = "replace" THEN "replaceLost" ELSE Awaited[t]]
    <3>1. \A u \in Tasks : at'[u] = "discard" => at'[u] = at[u]
      BY <2>6 DEF Awaited
    <3>2. ~Alive' /\ browser' # "closed"
      BY <2>6 DEF Alive
    <3> QED BY <2>1, <2>2, <3>1, <3>2 DEF Whole
  <2> QED BY <1>2, <2>5, <2>6 DEF RelaunchFails
<1>3. CASE OpenPage
  <2>1. PICK p \in Pages :
          /\ launch = "opening" /\ NoFault /\ opened' = opened + 1 /\ UNCHANGED browser
          /\ NewPage(p) /\ all' = all \union {p}
          /\ IF opened' = Size
             THEN launch' = "none"
             ELSE /\ idle' = Append(idle, p)
                  /\ UNCHANGED <<launch, at, page>>
    BY <1>3 DEF OpenPage
  <2>2. p \notin ToSet(idle) /\ p \notin all /\ \A u \in Tasks : page[u] # p
    BY <2>1, FreshPage
  <2>3. /\ Alive /\ Alive' /\ faults' = faults /\ (Relaunches' => Relaunches)
        /\ browser' # "closed" /\ IsFiniteSet(all)
    BY <2>1 DEF Whole, Alive, NoFault, Relaunches
  <2>4. /\ Cardinality(all) \in Nat /\ opened \in Nat /\ Size \in Nat /\ faults["newPage"] \in Nat
    BY <2>3, FS_CardinalityType, SizeAssumption, FaultAssumption DEF PoolInv, Chromium, FaultKinds
  <2>5. IsFiniteSet(all') /\ Cardinality(all') = Cardinality(all) + 1
    BY <2>1, <2>2, <2>3, FS_AddElement
  <2>6. at \in [Tasks -> Labels]
    BY DEF PoolInv, PoolLanes, Lanes
  <2>7. /\ HeldPages' = HeldPages \union {p}
        /\ \A u \in Tasks : at'[u] \in {"replaceLost", "discard"} => at'[u] = at[u] /\ page'[u] = page[u]
        /\ launch' # "none" => \E u \in Tasks : at'[u] = "relaunch"
        /\ launch' \in {"none", launch}
    <3>1. CASE opened' = Size
      <4>1. PICK q \in Pages \ all : /\ all' = all \union {q}
                                     /\ HeldPages' = HeldPages \union {q}
                                     /\ StaysBut(Awaited)
        BY <1>3, <3>1, OpenPageKeeps
      <4>2. q = p
        BY <2>1, <4>1
      <4>3. \A u \in Tasks : Awaited[u] = IF at[u] = "relaunch" THEN "out" ELSE at[u]
        BY DEF Awaited
      <4> QED BY <2>1, <3>1, <4>1, <4>2, <4>3 DEF StaysBut, Gone
    <3>2. CASE opened' # Size
      <4>1. idle' = Append(idle, p) /\ UNCHANGED <<launch, at, page>>
        BY <2>1, <3>2
      <4>2. ToSet(Append(idle, p)) = ToSet(idle) \union {p}
        BY <2>2, AppendDistinct DEF PoolInv, PoolLanes, Lanes
      <4>3. ToSet(idle)' = ToSet(idle) \union {p} /\ PagesOf(at)' = PagesOf(at)
        BY <4>1, <4>2 DEF ToSet, PagesOf, AtWork
      <4>4. \E u \in Tasks : at[u] = "relaunch"
        BY <2>1 DEF Whole
      <4> QED BY <4>1, <4>3, <4>4 DEF HeldPages
    <3> QED BY <3>1, <3>2
  <2>8. Relaunches' /\ Alive' => Enough'
    <3> SUFFICES ASSUME Relaunches PROVE Enough'
      BY <2>3
    <3>1. Enough
      BY <2>3 DEF Whole
    <3>2. IsFiniteSet(all \ HeldPages) /\ Cardinality(all \ HeldPages) <= faults["newPage"]
      BY <2>3, <3>1, FS_Difference DEF Enough
    <3>3. all' \ HeldPages' \in SUBSET (all \ HeldPages)
      BY <2>1, <2>7
    <3>4. /\ Cardinality(all' \ HeldPages') <= Cardinality(all \ HeldPages)
          /\ IsFiniteSet(all' \ HeldPages')
      BY <3>2, <3>3, FS_Subset
    <3>5. Cardinality(all \ HeldPages) \in Nat /\ Cardinality(all' \ HeldPages') \in Nat
      BY <3>2, <3>4, FS_CardinalityType
    <3>6. Cardinality(all' \ HeldPages') <= faults'["newPage"]
      BY <2>3, <2>4, <3>2, <3>4, <3>5
    <3>7. Cardinality(all') >= opened'
      BY <2>1, <2>4, <2>5, <3>1 DEF Enough
    <3>8. launch' = "none" => opened' = Size
      BY <2>1
    <3> QED BY <3>6, <3>7, <3>8 DEF Enough
  <2>9. /\ \A u \in Tasks : at'[u] = "replaceLost" /\ Alive' => page'[u] \notin all'
        /\ \A u \in Tasks : at'[u] = "discard" => page'[u] \notin all'
    BY <2>1, <2>2, <2>3, <2>7 DEF Whole
  <2>10. (launch' = "starting" => ~Alive') /\ (launch' = "opening" => Alive')
    BY <2>1, <2>3, <2>7
  <2> QED BY <2>3, <2>5, <2>7, <2>8, <2>9, <2>10 DEF Whole
<1> QED BY <1>1, <1>2, <1>3 DEF Relaunch

LEMMA EndsWhole ==
  ASSUME PoolInv, Whole, BrowserDies \/ Shutdown
  PROVE  Whole'
<1>1. at \in [Tasks -> Labels]
  BY DEF PoolInv, PoolLanes, Lanes
<1>2. CASE BrowserDies
  <2>1. /\ launch = "none" /\ launch' = "none" /\ browser' = "down" /\ all' = all /\ page' = page
        /\ \A u \in Tasks : at'[u] = "discard" => at[u] = "discard"
    BY <1>1, <1>2 DEF BrowserDies, Die, poolVars
  <2>2. ~Alive'
    BY <2>1 DEF Alive
  <2> QED BY <2>1, <2>2 DEF Whole
<1>3. CASE Shutdown
  <2>1. /\ browser' = "closed" /\ open' = {} /\ all' = {} /\ launch' = launch
        /\ at' = at /\ \A t \in Tasks : at[t] = "out"
    BY <1>3 DEF Shutdown
  <2>2. launch' = "none"
    BY <2>1 DEF Whole, PoolInv, Chromium
  <2>3. ~Alive' /\ IsFiniteSet(all')
    BY <2>1, FS_EmptySet DEF Alive
  <2> QED BY <2>1, <2>2, <2>3 DEF Whole
<1> QED BY <1>2, <1>3

LEMMA WholeInitially == Init => Whole
<1> SUFFICES ASSUME Init PROVE Whole
  OBVIOUS
<1>1. idle \in [1..Size -> Pages] /\ IsInjective(idle) /\ Size \in Nat
  BY PagesAssumption, SizeAssumption DEF Init
<1>2. idle \in Seq(Pages) /\ Len(idle) = Size
  BY <1>1
<1>3. Distinct(idle)
  BY <1>1, <1>2 DEF Distinct, IsInjective
<1>4. IsFiniteSet(ToSet(idle)) /\ Cardinality(ToSet(idle)) = Size
  BY <1>2, <1>3, DistinctLen
<1>5. /\ at = [t \in Tasks |-> "out"] /\ browser = "up" /\ launch = "none" /\ all = ToSet(idle)
      /\ faults = [kind \in FaultKinds |-> 0]
  BY DEF Init
<1>6. all \ HeldPages = {} /\ Cardinality({}) = 0
  BY <1>5, FS_EmptySet DEF HeldPages
<1>7. Enough
  <2>1. faults["newPage"] = 0
    BY <1>5 DEF FaultKinds
  <2>2. Cardinality(all) = Size /\ Cardinality(all \ HeldPages) = 0 /\ launch = "none"
    BY <1>4, <1>5, <1>6
  <2> QED BY <1>1, <2>1, <2>2 DEF Enough
<1>8. \A t \in Tasks : at[t] = "out"
  BY <1>5
<1>9. IsFiniteSet(all) /\ launch = "none" /\ browser = "up"
  BY <1>4, <1>5
<1> QED BY <1>7, <1>8, <1>9 DEF Whole

LEMMA WholeInvariant == Spec => []Whole
<1>1. PoolInv /\ Whole /\ [Next]_vars => Whole'
  <2> SUFFICES ASSUME PoolInv, Whole, [Next]_vars PROVE Whole'
    OBVIOUS
  <2>1. ASSUME NEW t \in Tasks, Acquire(t) \/ ReleaseStep(t) PROVE Whole'
    BY <2>1, AcquireWhole, ReleaseWhole, ReplaceWhole, ReplaceFailedWhole DEF ReleaseStep
  <2>2. CASE UNCHANGED vars
    BY <2>2 DEF vars, poolVars, Whole, Alive, Relaunches, Enough, HeldPages, PagesOf, AtWork, ToSet
  <2> QED BY <2>1, <2>2, RelaunchWhole, EndsWhole DEF Next
<1> QED BY <1>1, WholeInitially, PoolInvariant, PTL DEF Spec

(* While relaunches succeed, a live pool keeps all its Size pages, idle or  *)
(* in hand, but one for each newPage that failed; and the pool closes with  *)
(* no page open and no relaunch under way (browserPool.js:3, :134-135).    *)
THEOREM PoolKeepsItsPages == Spec => []NoPageLost
<1>1. PoolInv /\ Whole => NoPageLost
  <2> SUFFICES ASSUME PoolInv, Whole PROVE NoPageLost
    OBVIOUS
  <2>1. browser = "closed" => open = {} /\ launch = "none"
    BY DEF Whole
  <2>2. ASSUME Relaunches, Alive, launch = "none"
        PROVE  Len(idle) + Cardinality(InHand) + faults["newPage"] >= Size
    <3>1. PoolLanes /\ Cardinality(all) >= Size /\ Cardinality(all \ HeldPages) <= faults["newPage"]
      BY <2>2 DEF PoolInv, Whole, Enough
    <3>2. IsFiniteSet(ToSet(idle)) /\ Cardinality(ToSet(idle)) = Len(idle)
      BY <3>1, DistinctLen DEF PoolLanes, Lanes
    <3>3. InHand = AtWork(at)
      <4>1. \A t \in Tasks : page[t] = NoPage <=> at[t] \in Gone
        BY PagesAssumption DEF PoolInv, OutHasNone, PoolLanes, Lanes, Gone
      <4> QED BY <4>1 DEF InHand, AtWork
    <3>4. IsFiniteSet(InHand)
      BY TasksAssumption, FS_Subset DEF InHand
    <3>5. IsFiniteSet(PagesOf(at)) /\ Cardinality(PagesOf(at)) <= Cardinality(InHand)
      <4> DEFINE f == [t \in InHand |-> page[t]]
      <4>1. f \in Surjection(InHand, PagesOf(at))
        BY <3>3 DEF Surjection, PagesOf
      <4> QED BY <3>4, <4>1, FS_Surjection
    <3>6. IsFiniteSet(HeldPages) /\ Cardinality(HeldPages) <= Len(idle) + Cardinality(InHand)
      <4>1. /\ IsFiniteSet(HeldPages)
            /\ Cardinality(HeldPages) =
                 Cardinality(ToSet(idle)) + Cardinality(PagesOf(at)) - Cardinality(ToSet(idle) \intersect PagesOf(at))
        BY <3>2, <3>5, FS_Union DEF HeldPages
      <4>2. /\ Cardinality(ToSet(idle) \intersect PagesOf(at)) \in Nat
            /\ Cardinality(PagesOf(at)) \in Nat /\ Cardinality(InHand) \in Nat /\ Len(idle) \in Nat
        <5>1. IsFiniteSet(ToSet(idle) \intersect PagesOf(at))
          BY <3>2, FS_Intersection
        <5> QED BY <5>1, <3>2, <3>4, <3>5, FS_CardinalityType
      <4> QED BY <4>1, <4>2, <3>2, <3>5
    <3>7. /\ IsFiniteSet(all) /\ IsFiniteSet(all \ HeldPages) /\ IsFiniteSet(all \intersect HeldPages)
          /\ Cardinality(all \ HeldPages) = Cardinality(all) - Cardinality(all \intersect HeldPages)
          /\ Cardinality(all \intersect HeldPages) <= Cardinality(HeldPages)
      <4>1. IsFiniteSet(all)
        BY DEF Whole
      <4>2. IsFiniteSet(all \ HeldPages) /\ Cardinality(all \ HeldPages) = Cardinality(all) - Cardinality(all \intersect HeldPages)
        BY <4>1, FS_Difference
      <4>3. IsFiniteSet(all \intersect HeldPages) /\ Cardinality(all \intersect HeldPages) <= Cardinality(HeldPages)
        BY <4>1, <3>6, FS_Intersection
      <4> QED BY <4>1, <4>2, <4>3
    <3>8. /\ Cardinality(all) \in Nat /\ Cardinality(all \intersect HeldPages) \in Nat
          /\ Cardinality(HeldPages) \in Nat /\ Cardinality(InHand) \in Nat /\ Len(idle) \in Nat
          /\ faults["newPage"] \in Nat /\ Size \in Nat
      <4>1. faults["newPage"] \in Nat
        BY FaultAssumption DEF PoolInv, Chromium, FaultKinds
      <4> QED BY <4>1, <3>2, <3>4, <3>6, <3>7, FS_CardinalityType, SizeAssumption
    <3> QED BY <3>1, <3>6, <3>7, <3>8
  <2> QED BY <2>1, <2>2 DEF NoPageLost
<1> QED BY <1>1, PoolInvariant, WholeInvariant, PTL

-----------------------------------------------------------------------------
(* Nobody is forgotten: a page is never left idle with somebody it could   *)
(* serve, unless a release or a relaunch under way is about to dispatch.   *)
Releasing(t) == at[t] \in {"reset", "close", "replace", "replaceLost", "discard"}

Conserving ==
  Relaunches /\ launch = "none" /\ idle # <<>> =>
    /\ singleWaiters = <<>>
    /\ bulkWaiters # <<>> => Room(bulkInFlight) = 0 \/ \E t \in Bulks : Releasing(t)

\* Between the death of a Chromium and the relaunch, its pages still count.
Counted ==
  /\ browser = "down" => open = {} /\ \A t \in Tasks : at[t] # "replace"
  /\ Relaunches /\ browser = "down" /\ launch = "none" => Enough

\* browserPool.js:104-131: as long as relaunches succeed, a page is left and
\* the reservation leaves the bulk lane one, a task waits only while another
\* is at work on a page or in its release, or awaits the relaunch.
NobodyForgotten ==
  \A t \in Tasks :
    /\ at[t] = "waiting" /\ Relaunches /\ faults["newPage"] < Size
    /\ t \in Bulks => Reserved < Size
    => \E u \in Tasks : at[u] \notin {"out", "waiting"}

(* A dispatch leaves a page only when it leaves nobody it could serve.      *)
LEMMA DispatchConserves ==
  ASSUME NEW i \in Seq(Pages), NEW s \in Seq(Singles), NEW q \in Seq(Bulks), NEW f \in Nat, NEW a,
         Dispatch(i, s, q, f, a), idle' # <<>>
  PROVE  singleWaiters' = <<>> /\ (bulkWaiters' # <<>> => Room(bulkInFlight') = 0)
<1> DEFINE sn == Least(Len(i), Len(s))
           bn == Least(Len(i) - sn, Least(Len(q), Room(f)))
           fs == First(s, sn)
           fb == First(q, bn)
<1>1. /\ idle' = First(i, Len(i) - Len(fs \o fb))
      /\ singleWaiters' = Rest(s, sn) /\ bulkWaiters' = Rest(q, bn) /\ bulkInFlight' = f + bn
  BY DEF Dispatch, Served
<1>2. BulkCap \in Nat /\ Room(f) \in Nat
  BY SizeAssumption DEF BulkCap, Room
<1>3. Len(i) \in Nat /\ Len(s) \in Nat /\ Len(q) \in Nat
  OBVIOUS
<1>4. /\ sn \in 0..Len(s) /\ bn \in 0..Len(q)
      /\ sn + bn < Len(i) => sn = Len(s) /\ (bn = Len(q) \/ bn = Room(f))
  BY <1>2, <1>3 DEF Least
<1> HIDE DEF sn, bn
<1>5. Len(fs \o fb) = sn + bn
  <2>1. /\ \A j \in 1..sn : s[j] \in Tasks
        /\ \A j \in 1..bn : q[j] \in Tasks
    BY <1>4 DEF Tasks
  <2>2. fs \in Seq(Tasks) /\ Len(fs) = sn /\ fb \in Seq(Tasks) /\ Len(fb) = bn
    BY <1>3, <1>4, <2>1, SubSeqProperties DEF First
  <2> QED BY <2>2, ConcatProperties
<1> HIDE DEF fs, fb
<1>6. sn + bn < Len(i)
  <2> SUFFICES ASSUME ~(sn + bn < Len(i)) PROVE FALSE
    OBVIOUS
  <2>1. Len(i) - Len(fs \o fb) < 1 /\ Len(i) - Len(fs \o fb) \in Int
    BY <1>3, <1>4, <1>5
  <2> QED BY <1>1, <2>1, SubSeqEmpty DEF First
<1>7. singleWaiters' = <<>>
  BY <1>1, <1>3, <1>4, <1>6, SubSeqEmpty DEF Rest
<1>8. bn = Len(q) => bulkWaiters' = <<>>
  BY <1>1, <1>3, SubSeqEmpty DEF Rest
<1>9. bn = Room(f) => Room(bulkInFlight') = 0
  <2> SUFFICES ASSUME bn = Room(f) PROVE ~(f + bn < BulkCap)
    BY <1>1 DEF Room
  <2> QED BY <1>2 DEF Room
<1> QED BY <1>4, <1>6, <1>7, <1>8, <1>9

(* A task takes the next step of its release.                               *)
LEMMA MoveConserves ==
  ASSUME PoolInv, Conserving, NEW t \in Tasks, at[t] \notin Gone,
         NEW to \in {"reset", "close", "replace", "discard"},
         Proceed(t, to) \/ JoinRelaunch(t) \/ (at' = Move(t, to) /\ launch' = launch),
         UNCHANGED <<idle, singleWaiters, bulkWaiters>>, t \notin Bulks => UNCHANGED bulkInFlight,
         Relaunches' => Relaunches
  PROVE  Conserving'
<1>1. CASE JoinRelaunch(t)
  <2>1. launch' # "none"
    BY <1>1 DEF JoinRelaunch
  <2> QED BY <2>1 DEF Conserving
<1>2. CASE at' = Move(t, to) /\ launch' = launch
  <2>1. /\ at \in [Tasks -> Labels] /\ to \in Labels
        /\ at'[t] = to /\ \A u \in Tasks \ {t} : at'[u] = at[u]
    BY <1>2, MoveFacts DEF PoolInv, PoolLanes, Lanes, Labels
  <2>2. t \in Bulks => Releasing(t)'
    BY <2>1 DEF Releasing
  <2>3. t \notin Bulks => \A u \in Bulks : Releasing(u) => Releasing(u)'
    BY <2>1 DEF Releasing, Tasks
  <2> QED BY <1>2, <2>2, <2>3 DEF Conserving
<1> QED BY <1>1, <1>2 DEF Proceed

LEMMA ConservingInvariant == Spec => []Conserving
<1>1. Init => Conserving
  BY DEF Init, Conserving
<1>2. ASSUME PoolInv, Conserving, [Next]_vars PROVE Conserving'
  <2>1. /\ at \in [Tasks -> Labels]
        /\ idle \in Seq(Pages) /\ singleWaiters \in Seq(Singles) /\ bulkWaiters \in Seq(Bulks)
        /\ bulkInFlight \in Nat
    <3>1. bulkInFlight \in 0..BulkCap
      BY <1>2, PoolTyped DEF TypeOK
    <3>2. BulkCap \in Nat
      BY SizeAssumption DEF BulkCap
    <3> QED BY <1>2, <3>1, <3>2 DEF PoolInv, PoolLanes, Lanes
  <2>2. ASSUME NEW i \in Seq(Pages), NEW a,
               Dispatch(i, singleWaiters, bulkWaiters, bulkInFlight, a)
        PROVE  Conserving'
    BY <2>1, <2>2, DispatchConserves DEF Conserving
  <2>3. ASSUME NEW t \in Tasks, NEW p \in Pages, PutBack(t, p) \/ GiveUp(t) PROVE Conserving'
    <3>1. Append(idle, p) \in Seq(Pages)
      BY <2>1
    <3> QED BY <2>1, <2>2, <2>3, <3>1 DEF PutBack, GiveUp
  <2>4. ASSUME NEW kind \in FaultKinds, Fault(kind) \/ NoFault
        PROVE  /\ Relaunches' => Relaunches
               /\ kind = "launch" /\ Fault(kind) => ~Relaunches'
    <3>1. Relaunches' => Relaunches
      BY <1>2, <2>4, FaultCounts DEF PoolInv
    <3>2. ASSUME Fault("launch") PROVE ~Relaunches'
      <4>1. faults["launch"] \in Nat /\ faults'["launch"] = faults["launch"] + 1
        BY <1>2, <3>2, FaultAssumption DEF PoolInv, Chromium, Fault, FaultKinds
      <4> QED BY <4>1 DEF Relaunches
    <3> QED BY <3>1, <3>2
  <2>5. ASSUME NEW t \in Tasks, Acquire(t) PROVE Conserving'
    <3>1. CASE t \in Bulks
      <4>1. Append(bulkWaiters, t) \in Seq(Bulks)
        BY <2>1, <3>1
      <4>2. Dispatch(idle, singleWaiters, Append(bulkWaiters, t), bulkInFlight, Move(t, "waiting"))
        BY <2>5, <3>1 DEF Acquire
      <4> QED BY <2>1, <4>1, <4>2, DispatchConserves DEF Conserving
    <3>2. CASE t \notin Bulks
      <4>1. Append(singleWaiters, t) \in Seq(Singles)
        BY <2>1, <3>2 DEF Tasks
      <4>2. Dispatch(idle, Append(singleWaiters, t), bulkWaiters, bulkInFlight, Move(t, "waiting"))
        BY <2>5, <3>2 DEF Acquire
      <4> QED BY <2>1, <4>1, <4>2, DispatchConserves DEF Conserving
    <3> QED BY <3>1, <3>2
  <2>6. ASSUME NEW t \in Tasks, ReleaseStep(t) PROVE Conserving'
    <3>1. at[t] \notin Gone /\ page[t] \in Pages
      BY <1>2, <2>6 DEF ReleaseStep, ReleaseStart, Reset, Close, Replace, ReplaceFailed, Discard,
                        Gone, PoolInv, PoolLanes, Lanes
    <3>2. {"page", "newPage"} \subseteq FaultKinds
      BY DEF FaultKinds
    <3>3. CASE ReleaseStart(t)
      <4>1. /\ Proceed(t, "reset") \/ JoinRelaunch(t)
            /\ UNCHANGED <<idle, singleWaiters, bulkWaiters, faults>>
            /\ t \notin Bulks => UNCHANGED bulkInFlight
        BY <3>3 DEF ReleaseStart
      <4>2. Relaunches' => Relaunches
        BY <4>1 DEF Relaunches
      <4> QED BY <1>2, <3>1, <4>1, <4>2, MoveConserves
    <3>4. CASE Reset(t)
      <4>1. CASE PutBack(t, page[t])
        BY <2>3, <3>1, <4>1
      <4>2. CASE Proceed(t, "close") /\ UNCHANGED <<idle, singleWaiters, bulkWaiters, bulkInFlight>>
        <5>1. NoFault \/ Fault("page")
          BY <3>4 DEF Reset
        <5>2. Relaunches' => Relaunches
          BY <2>4, <3>2, <5>1
        <5> QED BY <1>2, <3>1, <4>2, <5>2, MoveConserves
      <4> QED BY <3>4, <4>1, <4>2 DEF Reset
    <3>5. CASE Close(t)
      <4>1. /\ Proceed(t, "replace") \/ JoinRelaunch(t)
            /\ UNCHANGED <<idle, singleWaiters, bulkWaiters, bulkInFlight, faults>>
        BY <3>5 DEF Close, poolVars
      <4>2. Relaunches' => Relaunches
        BY <4>1 DEF Relaunches
      <4> QED BY <1>2, <3>1, <4>1, <4>2, MoveConserves
    <3>6. CASE Replace(t)
      <4>1. PICK p \in Pages :
              /\ NoFault /\ UNCHANGED launch
              /\ \/ PutBack(t, p)
                 \/ at' = Move(t, "discard") /\ UNCHANGED poolVars
        BY <3>6 DEF Replace
      <4>2. Relaunches' => Relaunches
        BY <2>4, <3>2, <4>1
      <4>3. CASE PutBack(t, p)
        BY <2>3, <4>3
      <4>4. CASE at' = Move(t, "discard") /\ UNCHANGED poolVars
        BY <1>2, <3>1, <4>1, <4>2, <4>4, MoveConserves DEF poolVars
      <4> QED BY <4>1, <4>3, <4>4
    <3>7. CASE ReplaceFailed(t)
      <4>1. CASE GiveUp(t)
        BY <2>3, <3>1, <4>1
      <4>2. CASE JoinRelaunch(t)
        BY <4>2 DEF JoinRelaunch, Conserving
      <4> QED BY <3>7, <4>1, <4>2 DEF ReplaceFailed
    <3>8. CASE Discard(t)
      BY <2>3, <3>1, <3>8 DEF Discard
    <3> QED BY <2>6, <3>3, <3>4, <3>5, <3>6, <3>7, <3>8 DEF ReleaseStep
  <2>7. CASE Launch
    BY <2>7 DEF Launch, Conserving
  <2>8. CASE OpenPage
    <3>1. PICK p \in Pages :
            \/ Dispatch(Append(idle, p), singleWaiters, bulkWaiters, bulkInFlight, Awaited)
            \/ launch' = launch
      BY <2>8 DEF OpenPage
    <3>2. launch = "opening" /\ Append(idle, p) \in Seq(Pages)
      BY <2>1, <2>8 DEF OpenPage
    <3>3. CASE launch' = launch
      BY <3>2, <3>3 DEF Conserving
    <3> QED BY <2>2, <3>1, <3>2, <3>3
  <2>9. CASE RelaunchFails
    <3>1. Fault("launch") /\ "launch" \in FaultKinds
      BY <2>9 DEF RelaunchFails, FaultKinds
    <3> QED BY <2>4, <3>1 DEF Conserving
  <2>10. CASE BrowserDies
    <3>1. /\ UNCHANGED <<launch, poolVars>> /\ Fault("browser") /\ "browser" \in FaultKinds
          /\ \A u \in Tasks : Releasing(u) => Releasing(u)'
      BY <2>10 DEF BrowserDies, Die, FaultKinds, Releasing
    <3>2. Relaunches' => Relaunches
      BY <2>4, <3>1
    <3>3. (\E u \in Bulks : Releasing(u)) => \E u \in Bulks : Releasing(u)'
      BY <3>1 DEF Tasks
    <3>4. /\ idle' = idle /\ singleWaiters' = singleWaiters /\ bulkWaiters' = bulkWaiters
          /\ bulkInFlight' = bulkInFlight /\ launch' = launch
      BY <3>1 DEF poolVars
    <3>5. CASE \E u \in Bulks : Releasing(u)
      BY <1>2, <3>2, <3>3, <3>4, <3>5 DEF Conserving
    <3>6. CASE ~\E u \in Bulks : Releasing(u)
      BY <1>2, <3>2, <3>4, <3>6 DEF Conserving
    <3> QED BY <3>5, <3>6
  <2>11. CASE Shutdown
    BY <2>11 DEF Shutdown, Conserving
  <2>12. CASE UNCHANGED vars
    BY <1>2, <2>12 DEF vars, poolVars, Conserving, Relaunches, Releasing
  <2> QED BY <1>2, <2>5, <2>6, <2>7, <2>8, <2>9, <2>10, <2>11, <2>12 DEF Next, Relaunch
<1>3. PoolInv /\ Conserving /\ [Next]_vars => Conserving'
  BY <1>2
<1> QED BY <1>1, <1>3, PoolInvariant, PTL DEF Spec

LEMMA CountedInvariant == Spec => []Counted
<1> DEFINE Bare(o, a) == o = {} /\ \A u \in Tasks : a[u] # "replace"
<1>1. Init => Counted
  BY DEF Init, Counted
<1>2. ASSUME PoolInv, Whole, Counted, [Next]_vars PROVE Counted'
  <2>1. at \in [Tasks -> Labels] /\ faults["newPage"] \in Nat /\ (launch # "none" => browser # "closed")
    BY <1>2, FaultAssumption DEF PoolInv, PoolLanes, Lanes, Chromium, FaultKinds, Whole
  <2>2. Relaunches /\ browser = "down" /\ launch = "none" => Enough
    BY <1>2 DEF Counted
  <2>3. ASSUME RelaunchFails PROVE ~Relaunches'
    <3>1. "launch" \in FaultKinds /\ Fault("launch")
      BY <2>3 DEF RelaunchFails, FaultKinds
    <3>2. faults["launch"] \in Nat /\ faults'["launch"] = faults["launch"] + 1
      BY <1>2, <3>1, FaultAssumption DEF PoolInv, Chromium, Fault
    <3> QED BY <3>2 DEF Relaunches
  \* Chromium dies.
  <2>4. CASE BrowserDies
    <3>1. /\ Alive /\ launch = "none" /\ launch' = "none" /\ UNCHANGED <<poolVars, page>>
          /\ open' = {} /\ browser' = "down" /\ Fault("browser") /\ "browser" \in FaultKinds
          /\ \A u \in Tasks : at'[u] = IF at[u] = "replace" THEN "replaceLost" ELSE at[u]
      BY <2>4 DEF BrowserDies, Die, FaultKinds
    <3>2. AtWork(at)' = AtWork(at)
      BY <3>1 DEF AtWork, Gone
    <3>3. HeldPages' = HeldPages /\ all' = all
      BY <3>1, <3>2 DEF HeldPages, PagesOf, poolVars
    <3>4. /\ Relaunches' => Relaunches
          /\ faults'["newPage"] = faults["newPage"]
      <4>1. Relaunches' => Relaunches
        BY <1>2, <3>1, FaultCounts DEF PoolInv
      <4> QED BY <1>2, <3>1, <4>1 DEF Fault, PoolInv, Chromium, FaultKinds
    <3>5. Relaunches' => Enough'
      BY <1>2, <3>1, <3>3, <3>4 DEF Whole, Enough
    <3> QED BY <3>1, <3>5 DEF Counted
  <2>5. CASE RelaunchFails
    <3>1. browser' = "down" => Bare(open', at')
      <4>1. CASE at' = Awaited /\ UNCHANGED <<browser, open>>
        <5>1. \A u \in Tasks : at'[u] = "replace" => at[u] = "replace"
          BY <4>1 DEF Awaited
        <5> QED BY <1>2, <4>1, <5>1 DEF Counted
      <4>2. CASE /\ open' = {}
                 /\ at' = [u \in Tasks |-> IF at[u] = "replace" THEN "replaceLost" ELSE Awaited[u]]
        BY <4>2 DEF Awaited
      <4> QED BY <2>5, <4>1, <4>2 DEF RelaunchFails
    <3> QED BY <2>3, <2>5, <3>1 DEF Counted
  \* It is dead; a step that does not start the relaunch keeps the count.
  <2>6. ASSUME browser = "down", Bare(open', at'), all' = all,
               launch' = "none" => launch = "none" /\ (all \ HeldPages') = (all \ HeldPages),
               Relaunches' => Relaunches, faults'["newPage"] >= faults["newPage"],
               faults'["newPage"] \in Nat
        PROVE  Counted'
    <3>1. IsFiniteSet(all \ HeldPages)
      BY <1>2, FS_Difference DEF Whole
    <3>2. Cardinality(all \ HeldPages) \in Nat
      BY <3>1, FS_CardinalityType
    <3>3. ASSUME Relaunches', launch' = "none" PROVE Enough'
      <4>1. Relaunches /\ launch = "none" /\ (all \ HeldPages') = (all \ HeldPages)
        BY <2>6, <3>3
      <4>2. Cardinality(all) >= Size /\ Cardinality(all \ HeldPages) <= faults["newPage"]
        BY <2>2, <2>6, <4>1 DEF Enough
      <4>3. (all \ HeldPages)' = all \ HeldPages
        BY <2>6, <4>1
      <4>4. Cardinality(all \ HeldPages) <= faults'["newPage"]
        BY <2>1, <2>6, <3>2, <4>2
      <4> QED BY <2>6, <3>3, <4>2, <4>3, <4>4 DEF Enough
    <3> QED BY <2>6, <3>3 DEF Counted
  <2>7. ASSUME NEW kind \in FaultKinds, Fault(kind) \/ NoFault
        PROVE  (Relaunches' => Relaunches) /\ faults'["newPage"] >= faults["newPage"] /\ faults'["newPage"] \in Nat
    <3>1. faults' \in [FaultKinds -> 0..MaxFaults]
      BY <1>2, <2>7, FaultTyped DEF PoolInv
    <3>2. faults'["newPage"] \in Nat
      BY <3>1, FaultAssumption DEF FaultKinds
    <3> QED BY <1>2, <2>7, <3>2, FaultCounts DEF PoolInv
  <2>8. {"page", "newPage"} \subseteq FaultKinds
    BY DEF FaultKinds
  <2>9. ASSUME browser = "down", NEW t \in Tasks, Acquire(t) \/ ReleaseStep(t) PROVE Counted'
    <3>1. Bare(open, at) /\ ~Alive
      BY <1>2, <2>9 DEF Counted, Alive
    <3>2. ASSUME NEW to \in {"out", "waiting"}, StaysBut(Move(t, to)) PROVE \A u \in Tasks : at'[u] # "replace"
      <4>1. to \in Labels
        BY DEF Labels
      <4>2. \A u \in Tasks : Move(t, to)[u] = IF u = t THEN to ELSE at[u]
        BY <2>1, <4>1, MoveFacts
      <4> QED BY <3>1, <3>2, <4>2 DEF StaysBut
    <3>3. ASSUME JoinRelaunch(t), all' = all, open' \subseteq open, NEW kind \in FaultKinds, Fault(kind) \/ NoFault
          PROVE  Counted'
      <4>1. launch' # "none" /\ \A u \in Tasks : at'[u] # "replace"
        <5>1. "relaunch" \in Labels
          BY DEF Labels
        <5>2. \A u \in Tasks : at'[u] = IF u = t THEN "relaunch" ELSE at[u]
          BY <2>1, <3>3, <5>1, MoveFacts DEF JoinRelaunch
        <5>3. launch' # "none"
          BY <3>3 DEF JoinRelaunch
        <5> QED BY <3>1, <5>2, <5>3
      <4>2. open' = {}
        BY <3>1, <3>3
      <4> QED BY <2>6, <2>7, <2>9, <3>3, <4>1, <4>2
    <3>4. CASE Acquire(t)
      <4>1. /\ HeldPages' = HeldPages /\ StaysBut(Move(t, "waiting"))
            /\ UNCHANGED <<browser, open, launch, all, faults>>
        BY <1>2, <3>4, AcquireKeeps DEF Acquire
      <4>2. \A u \in Tasks : at'[u] # "replace"
        BY <3>2, <4>1
      <4>3. NoFault
        BY <4>1 DEF NoFault
      <4> QED BY <2>6, <2>7, <2>8, <2>9, <3>1, <4>1, <4>2, <4>3
    <3>5. CASE ReleaseStart(t)
      BY <2>8, <3>1, <3>3, <3>5 DEF ReleaseStart, NoFault
    <3>6. CASE Reset(t)
      <4>1. /\ Proceed(t, "close") /\ (NoFault \/ Fault("page"))
            /\ UNCHANGED <<browser, open, all, idle>>
            /\ at[t] = "reset"
        BY <3>1, <3>6 DEF Reset
      <4>2. /\ launch' = launch /\ page' = page
            /\ \A u \in Tasks : at'[u] = IF u = t THEN "close" ELSE at[u]
        BY <2>1, <4>1, MoveFacts DEF Proceed, Labels
      <4>3. AtWork(at)' = AtWork(at)
        BY <4>1, <4>2 DEF AtWork, Gone
      <4>4. HeldPages' = HeldPages /\ Bare(open', at')
        BY <3>1, <4>1, <4>2, <4>3 DEF HeldPages, PagesOf
      <4> QED BY <2>6, <2>7, <2>8, <2>9, <4>1, <4>2, <4>4
    <3>7. CASE Close(t)
      <4>1. JoinRelaunch(t) /\ all' = all /\ open' \subseteq open /\ NoFault
        BY <3>1, <3>7 DEF Close, poolVars, NoFault
      <4> QED BY <2>8, <3>3, <4>1
    <3>8. CASE Replace(t)
      BY <3>1, <3>8 DEF Replace
    <3>9. CASE ReplaceFailed(t)
      <4>1. JoinRelaunch(t) /\ all' = all /\ open' = open /\ (Fault("newPage") \/ NoFault)
        BY <3>1, <3>9 DEF ReplaceFailed
      <4> QED BY <2>8, <3>3, <4>1
    <3>10. CASE Discard(t)
      <4>1. /\ at[t] = "discard" /\ GiveUp(t) /\ open' = open \ {page[t]}
            /\ UNCHANGED <<browser, launch, all, faults>> /\ NoFault
        BY <3>10 DEF Discard, NoFault
      <4>2. page[t] \notin all
        BY <1>2, <4>1 DEF Whole
      <4>3. HeldPages' = HeldPages \ {page[t]} /\ StaysBut(Move(t, "out"))
        BY <1>2, <4>1, GiveUpKeeps DEF PoolInv, Gone
      <4>4. all \ HeldPages' = all \ HeldPages
        BY <4>2, <4>3
      <4>5. Bare(open', at')
        BY <3>1, <3>2, <4>1, <4>3
      <4> QED BY <2>6, <2>7, <2>8, <2>9, <4>1, <4>4, <4>5
    <3> QED BY <2>9, <3>4, <3>5, <3>6, <3>7, <3>8, <3>9, <3>10 DEF ReleaseStep
  <2>10. ASSUME browser # "down", NEW t \in Tasks, Acquire(t) \/ ReleaseStep(t) PROVE browser' # "down"
    BY <2>10 DEF Acquire, ReleaseStep, ReleaseStart, Reset, Close, Replace, ReplaceFailed, Discard
  <2>11. CASE Launch \/ Shutdown
    BY <2>11 DEF Launch, Shutdown, Counted
  <2>12. CASE OpenPage
    <3>1. browser' = "up"
      BY <1>2, <2>12 DEF OpenPage, Whole, Alive
    <3> QED BY <3>1 DEF Counted
  <2>13. CASE UNCHANGED vars
    BY <1>2, <2>13 DEF vars, poolVars, Counted, Relaunches, Enough, HeldPages, PagesOf, AtWork
  <2> QED BY <1>2, <2>4, <2>5, <2>9, <2>10, <2>11, <2>12, <2>13 DEF Next, Relaunch, Counted
<1>3. PoolInv /\ Whole /\ Counted /\ [Next]_vars => Counted'
  BY <1>2
<1> QED BY <1>1, <1>3, PoolInvariant, WholeInvariant, PTL DEF Spec

(* No task waits alone: as long as relaunches succeed and a page is left     *)
(* (for a bulk task: one beyond the reservation), while one waits another is *)
(* at work on a page, in its release, or awaits the relaunch                 *)
(* (browserPool.js:104-131, :165-195).                                       *)
THEOREM WaitersAreNotForgotten == Spec => []NobodyForgotten
<1>1. PoolInv /\ Whole /\ Conserving /\ Counted => NobodyForgotten
  <2> SUFFICES ASSUME PoolInv, Whole, Conserving, Counted,
                      NEW t \in Tasks, at[t] = "waiting", Relaunches, faults["newPage"] < Size,
                      t \in Bulks => Reserved < Size,
                      \A u \in Tasks : at[u] \in {"out", "waiting"}
               PROVE  FALSE
    BY DEF NobodyForgotten
  <2>1. launch = "none" /\ browser \in {"up", "down"}
    BY DEF Whole, PoolInv, Chromium
  <2>2. Enough
    BY <2>1 DEF Whole, Counted, Alive
  <2>3. HeldPages = ToSet(idle)
    <3>1. AtWork(at) = {}
      BY DEF AtWork, Gone
    <3> QED BY <3>1 DEF HeldPages, PagesOf
  <2>4. idle # <<>>
    <3> SUFFICES ASSUME idle = <<>> PROVE FALSE
      OBVIOUS
    <3>1. HeldPages = {}
      BY <2>3 DEF ToSet
    <3>2. all \ HeldPages = all
      BY <3>1
    <3>3. Cardinality(all) >= Size /\ Cardinality(all) <= faults["newPage"]
      BY <2>1, <2>2, <3>2 DEF Enough
    <3>4. Cardinality(all) \in Nat /\ faults["newPage"] \in Nat /\ Size \in Nat
      BY FS_CardinalityType, FaultAssumption, SizeAssumption DEF Whole, PoolInv, Chromium, FaultKinds
    <3> QED BY <3>3, <3>4
  <2>5. /\ singleWaiters = <<>>
        /\ bulkWaiters # <<>> => Room(bulkInFlight) = 0
    BY <2>1, <2>4 DEF Conserving, Releasing, Tasks
  <2>6. t \in Bulks /\ bulkWaiters # <<>>
    <3>1. /\ ToSet(singleWaiters) = {u \in Singles : at[u] = "waiting"}
          /\ ToSet(bulkWaiters) = {u \in Bulks : at[u] = "waiting"}
      BY DEF PoolInv, PoolLanes, Lanes
    <3>2. ToSet(<<>>) = {}
      BY DEF ToSet
    <3> QED BY <2>5, <3>1, <3>2 DEF Tasks
  <2>7. bulkInFlight = 0
    <3>1. {u \in Bulks : at[u] = "using"} = {}
      BY DEF Tasks
    <3> QED BY <3>1, FS_EmptySet DEF PoolInv, PoolLanes, Lanes
  <2>8. Room(0) > 0
    BY <2>6, SizeAssumption DEF Room, BulkCap
  <2> QED BY <2>5, <2>6, <2>7, <2>8
<1> QED BY <1>1, PoolInvariant, WholeInvariant, ConservingInvariant, CountedInvariant, PTL

=============================================================================

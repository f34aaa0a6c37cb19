-------------------------- MODULE DocumentsProofs --------------------------
(***************************************************************************)
(* Machine-checked proofs about Documents, for any documents, any settings *)
(* and any retries: a document printed in chunks has the pages of one      *)
(* printed in one pass, the answer to a job names every document that is   *)
(* wrong and accepts exactly the jobs of the contract, and no amount that  *)
(* is printed is too wide for its column.                                  *)
(***************************************************************************)
EXTENDS Documents, SequenceTheorems, FiniteSetTheorems, WellFoundedInduction, TLAPS

-----------------------------------------------------------------------------
(* Division into slices.                                                   *)

LEMMA CeilFacts ==
  ASSUME NEW m \in Nat, NEW n \in Nat \ {0}
  PROVE  /\ Ceil(m, n) \in Nat /\ m <= Ceil(m, n) * n /\ Ceil(m, n) * n < m + n
         /\ m > 0 => Ceil(m, n) > 0
<1>1. Ceil(m, n) \in Nat
  BY DEF Ceil
<1>2. m <= Ceil(m, n) * n
  BY DEF Ceil
<1>3. Ceil(m, n) * n < m + n
  BY DEF Ceil
<1>4. ASSUME m > 0 PROVE Ceil(m, n) > 0
  BY <1>1, <1>2, <1>4
<1> QED BY <1>1, <1>2, <1>3, <1>4

LEMMA MulMono ==
  ASSUME NEW a \in Nat, NEW b \in Nat, NEW n \in Nat \ {0}
  PROVE  /\ a <= b => a * n <= b * n
         /\ a * n <= b * n => a <= b
         /\ a * n < (b + 1) * n => a <= b
<1>1. ASSUME a <= b PROVE a * n <= b * n
  BY <1>1
<1>2. ASSUME a * n < (b + 1) * n PROVE a <= b
  BY <1>2
<1>3. (b + 1) * n = b * n + n
  OBVIOUS
<1> QED BY <1>1, <1>2, <1>3

LEMMA CeilUnique ==
  ASSUME NEW m \in Nat, NEW n \in Nat \ {0}, NEW q \in Nat, m <= q * n, q * n < m + n
  PROVE  q = Ceil(m, n)
<1> DEFINE c == Ceil(m, n)
<1>1. c \in Nat /\ m <= c * n /\ c * n < m + n
  BY CeilFacts
<1> HIDE DEF c
<1>2. (c + 1) * n = c * n + n /\ (q + 1) * n = q * n + n
  BY <1>1
<1>3. c * n \in Nat /\ q * n \in Nat
  BY <1>1
<1>4. q * n < (c + 1) * n /\ c * n < (q + 1) * n
  BY <1>1, <1>2, <1>3
<1>5. q <= c /\ c <= q
  BY <1>1, <1>4, MulMono
<1> QED BY <1>1, <1>5 DEF c

LEMMA CeilShift ==
  ASSUME NEW m \in Nat, NEW n \in Nat \ {0}, NEW g \in Nat
  PROVE  Ceil(g * n + m, n) = g + Ceil(m, n)
<1> DEFINE c == Ceil(m, n)
<1>1. c \in Nat /\ m <= c * n /\ c * n < m + n
  BY CeilFacts
<1> HIDE DEF c
<1>2. (g + c) * n = g * n + c * n /\ g * n \in Nat /\ c * n \in Nat
  BY <1>1
<1>3. g + c = Ceil(g * n + m, n)
  <2>1. g + c \in Nat /\ g * n + m \in Nat
    BY <1>1, <1>2
  <2>2. g * n + m <= (g + c) * n /\ (g + c) * n < (g * n + m) + n
    BY <1>1, <1>2
  <2> QED BY <2>1, <2>2, CeilUnique
<1> QED BY <1>3 DEF c

(* A sequence of the numbers after a, and a part of it. *)
LEMMA Numbers ==
  ASSUME NEW a \in Nat, NEW n \in Nat, NEW from \in Nat \ {0}, NEW to \in Nat,
         from <= to, to <= n
  PROVE  /\ Len([i \in 1..n |-> a + i]) = n
         /\ SubSeq([i \in 1..n |-> a + i], from, to) = [i \in 1..(to - from + 1) |-> (a + from - 1) + i]
<1> DEFINE s == [i \in 1..n |-> a + i]
<1>1. s \in Seq(Int) /\ Len(s) = n
  OBVIOUS
<1>2. \A i \in from..to : s[i] \in Int
  OBVIOUS
<1>3. /\ SubSeq(s, from, to) \in Seq(Int)
      /\ Len(SubSeq(s, from, to)) = to - from + 1
      /\ \A i \in 1..(to - from + 1) : SubSeq(s, from, to)[i] = s[from + i - 1]
  BY <1>2, SubSeqProperties
<1>4. \A i \in 1..(to - from + 1) : s[from + i - 1] = (a + from - 1) + i
  OBVIOUS
<1>5. SubSeq(s, from, to) \in [1..(to - from + 1) -> Int]
  BY <1>3, LenProperties
<1> DEFINE t == SubSeq(s, from, to)
<1> HIDE DEF t
<1>6. t = [i \in 1..(to - from + 1) |-> (a + from - 1) + i]
  <2>1. t \in [1..(to - from + 1) -> Int]
    BY <1>5 DEF t
  <2>2. \A i \in 1..(to - from + 1) : t[i] = (a + from - 1) + i
    BY <1>3, <1>4 DEF t
  <2> QED BY <2>1, <2>2
<1> QED BY <1>1, <1>6 DEF t

-----------------------------------------------------------------------------
(* The pages of a slice of the document.                                   *)

\* Sheets in a full chunk, and in the first i chunks.
PerChunk == Size \div config.rowsPerPage
Upto(i)  == Least(i * PerChunk, PageCount)

\* The n pages after page g, without their footers, and those of a chunk.
Pages(g, n) == [p \in 1..n |-> Page(g + p, <<>>)]
Part(i)     == Pages((i - 1) * PerChunk, Upto(i) - Upto(i - 1))

LEMMA Settings ==
  ASSUME config \in Configs
  PROVE  /\ config.items \in Nat \ {0} /\ config.rowsPerPage \in Nat \ {0}
         /\ config.chunkSize \in Nat /\ PageCount \in Nat \ {0}
<1>1. /\ config.items \in Nat \ {0} /\ config.rowsPerPage \in Nat \ {0}
      /\ config.chunkSize \in Nat
  BY ConfigAssumption DEF Configs
<1>2. PageCount \in Nat \ {0}
  <2> DEFINE N == config.items
             R == config.rowsPerPage
  <2>1. N \in Nat /\ N > 0 /\ R \in Nat \ {0}
    BY <1>1
  <2>2. PageCount = Ceil(N, R)
    BY DEF PageCount
  <2> HIDE DEF N, R
  <2>3. Ceil(N, R) \in Nat /\ Ceil(N, R) > 0
    BY <2>1, CeilFacts
  <2> QED BY <2>2, <2>3
<1> QED BY <1>1, <1>2

(* A chunk is a whole number of sheets.                                     *)
LEMMA WholeSheets ==
  ASSUME config \in Configs
  PROVE  /\ Size \in Nat \ {0} /\ PerChunk \in Nat \ {0}
         /\ Size = PerChunk * config.rowsPerPage
<1> DEFINE R == config.rowsPerPage
           k == Ceil(config.chunkSize, R)
<1>1. R \in Nat \ {0} /\ k \in Nat
  BY Settings, CeilFacts
<1>2. Size = IF k * R > R THEN k * R ELSE R
  BY DEF Size, Snapped
<1> HIDE DEF R, k
<1>3. PICK n \in Nat \ {0} : Size = n * R
  <2>1. CASE k * R > R
    <3>1. k # 0
      BY <1>1, <2>1
    <3> QED BY <1>1, <1>2, <2>1, <3>1
  <2>2. CASE ~(k * R > R)
    <3>1. Size = 1 * R
      BY <1>1, <1>2, <2>2
    <3> QED BY <3>1
  <2> QED BY <2>1, <2>2
<1>4. n * R \in Nat \ {0}
  BY <1>1
<1>5. (n * R) \div R = n
  BY <1>1
<1> QED BY <1>3, <1>4, <1>5 DEF PerChunk, R

(* The sheets of the items after the first g sheets, to the end of the       *)
(* document or of a whole number of sheets.                                 *)
LEMMA SheetsAre ==
  ASSUME config \in Configs, NEW g \in Nat, NEW n \in Nat \ {0}, NEW total,
         LET a == g * config.rowsPerPage IN
         \/ a + n = config.items /\ total = All
         \/ /\ a + n < config.items /\ total = {}
            /\ \E k \in Nat : n = k * config.rowsPerPage
  PROVE  LET a == g * config.rowsPerPage IN
         /\ Sheets([i \in 1..n |-> a + i], a, total) = Pages(g, Ceil(n, config.rowsPerPage))
         /\ a + n = config.items => g + Ceil(n, config.rowsPerPage) = PageCount
         /\ a + n < config.items => g + Ceil(n, config.rowsPerPage) < PageCount
<1> DEFINE R == config.rowsPerPage
           N == config.items
           a == g * R
           c == Ceil(n, R)
           items == [i \in 1..n |-> a + i]
<1>1. N \in Nat \ {0} /\ R \in Nat \ {0} /\ a \in Nat /\ PageCount \in Nat \ {0}
  BY Settings
<1>2. c \in Nat \ {0} /\ n <= c * R /\ c * R < n + R
  <2> HIDE DEF R
  <2>1. n \in Nat /\ n > 0 /\ R \in Nat \ {0}
    BY <1>1
  <2>2. Ceil(n, R) \in Nat /\ Ceil(n, R) > 0 /\ n <= Ceil(n, R) * R /\ Ceil(n, R) * R < n + R
    BY <2>1, CeilFacts
  <2> QED BY <2>2
<1>3. a + n = N \/ (a + n < N /\ \E k \in Nat : n = k * R)
  OBVIOUS
<1>t. (a + n = N => total = All) /\ (a + n < N => total = {})
  BY <1>1
<1>4. c * R \in Nat
  BY <1>1, <1>2
<1>5. ASSUME a + n = N PROVE g + c = PageCount
  <2>1. PageCount = Ceil(a + n, R)
    BY <1>5 DEF PageCount
  <2>2. n \in Nat
    OBVIOUS
  <2> HIDE DEF R
  <2>3. Ceil(g * R + n, R) = g + Ceil(n, R)
    BY <1>1, <2>2, CeilShift
  <2> QED BY <2>1, <2>3
<1>6. ASSUME a + n < N PROVE g + c < PageCount /\ n = c * R
  <2>1. PICK k \in Nat : n = k * R
    <3> HIDE DEF a, R, N
    <3> QED BY <1>1, <1>3, <1>6
  <2>2. c = k
    <3>1. k * R < n + R
      BY <1>1, <2>1
    <3> HIDE DEF R
    <3> QED BY <1>1, <2>1, <3>1, CeilUnique
  <2>3. (g + c) * R < N
    <3>1. (g + c) * R = a + c * R
      BY <1>1, <1>2
    <3> QED BY <1>6, <2>1, <2>2, <3>1
  <2>4. N <= PageCount * R
    BY <1>1, CeilFacts DEF PageCount
  <2>5. ~(PageCount <= g + c)
    <3>1. g + c \in Nat
      BY <1>2
    <3>2. PageCount * R \in Nat /\ (g + c) * R \in Nat
      BY <1>1, <3>1
    <3> HIDE DEF R, N, c
    <3> QED BY <1>1, <2>3, <2>4, <3>1, <3>2, MulMono
  <2> QED BY <1>1, <1>2, <2>1, <2>2, <2>5
<1>7. /\ Len(items) = n /\ DOMAIN Slices(items, R) = 1..c /\ Len(Slices(items, R)) = c
  BY <1>2 DEF Slices
<1>8. ASSUME NEW p \in 1..c
      PROVE  /\ (p - 1) * R < n /\ (p - 1) * R \in Nat /\ p * R = (p - 1) * R + R
             /\ a + (p - 1) * R = (g + p - 1) * R
             /\ (g + p) * R = (g + p - 1) * R + R
             /\ a + Least(p * R, n) = Least((g + p) * R, N)
  <2>1. /\ p - 1 \in Nat /\ (p - 1) * R \in Nat /\ p * R = (p - 1) * R + R
        /\ a + (p - 1) * R = (g + p - 1) * R /\ (g + p) * R = (g + p - 1) * R + R
        /\ (g + p) * R = a + p * R
    BY <1>1, <1>2
  <2>2. p * R <= c * R
    BY <1>1, <1>2, MulMono
  <2>3. (p - 1) * R < n
    BY <1>1, <1>2, <1>4, <2>1, <2>2
  <2>4. a + Least(p * R, n) = Least((g + p) * R, N)
    <3> HIDE DEF a, R, N, c
    <3>1. CASE a + n = N
      BY <1>1, <2>1, <3>1 DEF Least
    <3>2. CASE a + n < N
      BY <1>1, <1>4, <1>6, <2>1, <2>2, <3>2 DEF Least
    <3> QED BY <1>3, <1>1, <3>1, <3>2
  <2> QED BY <2>1, <2>3, <2>4
<1>9. ASSUME NEW p \in 1..c
      PROVE  Sheets(items, a, total)[p] = Page(g + p, <<>>)
  <2> DEFINE from  == (p - 1) * R + 1
             to    == Least(p * R, n)
             b     == (g + p - 1) * R
             size  == to - from + 1
             pages == Slices(items, R)
             rows  == [i \in 1..size |-> [line |-> b + i, item |-> b + i]]
  <2>1. /\ a + (p - 1) * R = b /\ b \in Nat /\ (g + p) * R = b + R
        /\ p * R = (p - 1) * R + R /\ (p - 1) * R < n /\ (p - 1) * R \in Nat
        /\ a + to = Least((g + p) * R, N)
    BY <1>1, <1>8
  <2>2. from \in Nat \ {0} /\ to \in Nat /\ from <= to /\ to <= n /\ size \in Nat
    <3> HIDE DEF R
    <3> QED BY <1>1, <2>1 DEF Least
  <2>3. pages[p] = [i \in 1..size |-> (a + from - 1) + i]
    <3>1. pages[p] = SubSeq(items, from, to)
      BY <1>7 DEF Slices
    <3>2. SubSeq(items, from, to) = [i \in 1..(to - from + 1) |-> (a + from - 1) + i]
      <4> HIDE DEF from, to, a
      <4> QED BY <1>1, <2>2, Numbers
    <3> QED BY <3>1, <3>2
  <2>4. a + from - 1 = b
    BY <1>1, <2>1
  <2>5. Rows(pages[p], a + (p - 1) * R) = rows
    <3> HIDE DEF pages, size, b, a, R, from
    <3> QED BY <2>1, <2>2, <2>3, <2>4 DEF Rows
  <2>6. Page(g + p, <<>>) =
          [ rows   |-> rows,
            header |-> IF g + p = 1 THEN "full" ELSE "continued",
            total  |-> IF g + p = PageCount THEN All ELSE {},
            footer |-> <<>> ]
    <3> DEFINE first == (g + p - 1) * R + 1
               last  == Least((g + p) * R, N)
    <3>1. first = b + 1 /\ last - first + 1 = size
      <4> HIDE DEF to, b, from, last, a, R
      <4>1. from = (p - 1) * R + 1 /\ last = a + to /\ b + 1 = a + from
        BY <1>1, <2>1, <2>4, <2>2 DEF from, last
      <4> QED BY <1>1, <2>1, <2>2, <4>1 DEF b
    <3>2. [i \in 1..(last - first + 1) |-> [line |-> first + i - 1, item |-> first + i - 1]]
            = rows
      <4> HIDE DEF first, last, size, b
      <4> QED BY <2>1, <2>2, <3>1
    <3> DEFINE shown == [i \in 1..(last - first + 1) |->
                           [line |-> first + i - 1, item |-> first + i - 1]]
    <3>3. Page(g + p, <<>>) =
            [ rows   |-> shown,
              header |-> IF g + p = 1 THEN "full" ELSE "continued",
              total  |-> IF g + p = PageCount THEN All ELSE {},
              footer |-> <<>> ]
      BY DEF Page
    <3>4. shown = rows
      BY <3>2
    <3> HIDE DEF shown, rows
    <3> QED BY <3>3, <3>4
  <2>7. Header(a + (p - 1) * R) = IF g + p = 1 THEN "full" ELSE "continued"
    <3>1. b = 0 <=> g + p = 1
      <4> HIDE DEF R
      <4>1. g + p - 1 \in Nat
        BY <1>2
      <4> QED BY <1>1, <1>2, <4>1
    <3> HIDE DEF b
    <3> QED BY <2>1, <3>1 DEF Header
  <2>8. (IF p = Len(pages) THEN total ELSE {}) = IF g + p = PageCount THEN All ELSE {}
    <3> HIDE DEF a, R, N, c
    <3>1. CASE a + n = N
      <4>1. g + c = PageCount /\ total = All
        BY <1>1, <1>t, <1>5, <3>1
      <4> QED BY <1>1, <1>2, <1>7, <4>1
    <3>2. CASE a + n < N
      <4>1. g + c < PageCount /\ total = {}
        BY <1>1, <1>t, <1>6, <3>2
      <4> QED BY <1>1, <1>2, <1>7, <4>1
    <3> QED BY <1>3, <3>1, <3>2
  <2>9. Sheets(items, a, total)[p] =
          [ rows   |-> Rows(pages[p], a + (p - 1) * R),
            header |-> Header(a + (p - 1) * R),
            total  |-> IF p = Len(pages) THEN total ELSE {},
            footer |-> <<>> ]
    BY <1>7 DEF Sheets
  <2> HIDE DEF pages, rows
  <2> QED BY <2>5, <2>6, <2>7, <2>8, <2>9
<1> QED BY <1>5, <1>6, <1>7, <1>9 DEF Sheets, Pages

(* The chunks of the document, ... *)
LEMMA ChunkCount ==
  ASSUME config \in Configs
  PROVE  /\ Items = [i \in 1..config.items |-> 0 + i] /\ Len(Items) = config.items
         /\ Len(Chunks) = Ceil(config.items, Size) /\ DOMAIN Chunks = 1..Len(Chunks)
         /\ Len(Chunks) \in Nat \ {0} /\ Len(Chunks) <= config.items
         /\ \A i \in 1..Len(Chunks) :
              Chunks[i] = SubSeq(Items, (i - 1) * Size + 1, Least(i * Size, config.items))
<1> DEFINE N == config.items
           C == Ceil(N, Size)
<1>1. N \in Nat \ {0} /\ Size \in Nat \ {0}
  BY Settings, WholeSheets
<1>2. Items = [i \in 1..N |-> 0 + i] /\ Len(Items) = N
  BY <1>1 DEF Items, All
<1>3. C \in Nat \ {0} /\ C * Size < N + Size
  <2> HIDE DEF N
  <2>1. N \in Nat /\ N > 0
    BY <1>1
  <2> QED BY <1>1, <2>1, CeilFacts
<1>4. C <= N
  <2> HIDE DEF C, N
  <2>1. C <= N \/ C >= N + 1
    BY <1>1, <1>3
  <2>2. ASSUME C >= N + 1 PROVE FALSE
    <3>1. (N + 1) * Size <= C * Size
      BY <1>1, <1>3, <2>2, MulMono
    <3>2. (N + 1) * Size = N * Size + Size /\ N * Size \in Nat /\ C * Size \in Nat
      BY <1>1, <1>3
    <3>3. N * Size >= N
      BY <1>1
    <3> QED BY <1>1, <1>3, <3>1, <3>2, <3>3
  <2> QED BY <2>1, <2>2
<1>5. Chunks = [i \in 1..C |-> SubSeq(Items, (i - 1) * Size + 1, Least(i * Size, N))]
  BY <1>2 DEF Chunks, Slices
<1> HIDE DEF C
<1>6. Len(Chunks) = C /\ DOMAIN Chunks = 1..C
  BY <1>3, <1>5
<1> QED BY <1>2, <1>3, <1>4, <1>5, <1>6 DEF C

(* ... whose sheets are those of the document, in its order. *)
LEMMA ChunkIs ==
  ASSUME config \in Configs, NEW i \in 1..Len(Chunks)
  PROVE  /\ Sheets(Chunks[i], (i - 1) * Size, IF i = Len(Chunks) THEN All ELSE {}) = Part(i)
         /\ Upto(i - 1) \in Nat /\ Upto(i) \in Nat
         /\ Upto(i - 1) < Upto(i) /\ Upto(i) <= PageCount
         /\ Upto(i - 1) = (i - 1) * PerChunk
         /\ i = Len(Chunks) => Upto(i) = PageCount
<1> DEFINE N == config.items
           R == config.rowsPerPage
           C == Len(Chunks)
           k == PerChunk
           g == (i - 1) * k
           a == (i - 1) * Size
           to == Least(i * Size, N)
           n == to - a
           total == IF i = C THEN All ELSE {}
<1>1. /\ N \in Nat \ {0} /\ R \in Nat \ {0} /\ Size \in Nat \ {0} /\ k \in Nat \ {0}
      /\ Size = k * R /\ PageCount \in Nat \ {0} /\ PageCount = Ceil(N, R)
  BY Settings, WholeSheets DEF PageCount
<1>2. C \in Nat \ {0} /\ C = Ceil(N, Size) /\ Items = [j \in 1..N |-> 0 + j]
  BY ChunkCount
<1> HIDE DEF N, R, C, k
<1>3. i \in Nat \ {0} /\ i <= C /\ i - 1 \in Nat /\ i = (i - 1) + 1
  BY <1>2 DEF C
<1>4. g \in Nat /\ a \in Nat /\ a = g * R /\ i * Size = a + Size /\ i * k = g + k
  BY <1>1, <1>3
<1>5. N <= C * Size /\ C * Size < N + Size /\ C * Size \in Nat /\ i * Size \in Nat
  <2>1. N \in Nat
    BY <1>1
  <2>2. N <= Ceil(N, Size) * Size /\ Ceil(N, Size) * Size < N + Size
    BY <1>1, <2>1, CeilFacts
  <2> QED BY <1>1, <1>2, <1>3, <2>2
<1>6. i * Size <= C * Size
  BY <1>1, <1>2, <1>3, MulMono
<1>7. a < N
  BY <1>1, <1>4, <1>5, <1>6
<1>8. i # C => i * Size < N
  <2> SUFFICES ASSUME i # C PROVE i * Size < N
    OBVIOUS
  <2>1. C - 1 \in Nat /\ i <= C - 1
    BY <1>2, <1>3
  <2>2. i * Size <= (C - 1) * Size
    BY <1>1, <1>3, <2>1, MulMono
  <2>3. (C - 1) * Size = C * Size - Size
    BY <1>1, <1>2
  <2> QED BY <1>1, <1>5, <2>2, <2>3
<1>9. /\ to \in Nat /\ a + 1 <= to /\ to <= N /\ n \in Nat \ {0} /\ a + n = to
      /\ i = C => to = N
      /\ i # C => to = i * Size /\ n = Size /\ a + n < N
  <2> HIDE DEF g, a
  <2> QED BY <1>1, <1>4, <1>5, <1>7, <1>8 DEF Least
<1>10. Chunks[i] = [j \in 1..n |-> a + j]
  <2>1. Chunks[i] = SubSeq(Items, a + 1, to)
    BY ChunkCount DEF C, N
  <2>2. SubSeq([j \in 1..N |-> 0 + j], a + 1, to) = [j \in 1..(to - (a + 1) + 1) |-> (0 + (a + 1) - 1) + j]
    <3>1. 0 \in Nat /\ N \in Nat /\ a + 1 \in Nat \ {0} /\ to \in Nat
      BY <1>1, <1>4, <1>9
    <3> HIDE DEF a, to
    <3> QED BY <3>1, <1>9, Numbers
  <2>3. to - (a + 1) + 1 = n /\ 0 + (a + 1) - 1 = a
    <3>1. a \in Nat /\ to \in Nat
      BY <1>4, <1>9
    <3> HIDE DEF a, to
    <3> QED BY <3>1
  <2> HIDE DEF n, to, a
  <2> QED BY <1>2, <2>1, <2>2, <2>3
<1>11. /\ Sheets([j \in 1..n |-> a + j], a, total) = Pages(g, Ceil(n, R))
       /\ a + n = N => g + Ceil(n, R) = PageCount
       /\ a + n < N => g + Ceil(n, R) < PageCount
  <2>1. \/ a + n = N /\ total = All
        \/ a + n < N /\ total = {} /\ \E m \in Nat : n = m * R
    <3>1. CASE i = C
      BY <1>9, <3>1
    <3>2. CASE i # C
      <4> HIDE DEF n, to, a
      <4>1. n = k * R /\ k \in Nat
        BY <1>1, <1>9, <3>2
      <4> QED BY <1>9, <3>2, <4>1
    <3> QED BY <3>1, <3>2
  <2> HIDE DEF n, total, g, a
  <2>2. LET b == g * config.rowsPerPage IN
         /\ Sheets([j \in 1..n |-> b + j], b, total) = Pages(g, Ceil(n, config.rowsPerPage))
         /\ b + n = config.items => g + Ceil(n, config.rowsPerPage) = PageCount
         /\ b + n < config.items => g + Ceil(n, config.rowsPerPage) < PageCount
    <3>1. LET b == g * config.rowsPerPage IN
            \/ b + n = config.items /\ total = All
            \/ b + n < config.items /\ total = {} /\ \E m \in Nat : n = m * config.rowsPerPage
      BY <1>4, <2>1 DEF N, R
    <3> QED BY <1>4, <1>9, <3>1, SheetsAre
  <2> QED BY <1>4, <2>2 DEF N, R
<1>12. Ceil(n, R) \in Nat \ {0} /\ (i # C => Ceil(n, R) = k)
  <2>1. n \in Nat /\ n > 0
    BY <1>9
  <2> HIDE DEF n
  <2>2. Ceil(n, R) \in Nat \ {0}
    <3>1. R \in Nat \ {0}
      BY <1>1
    <3>2. Ceil(n, R) \in Nat /\ Ceil(n, R) > 0
      BY <2>1, <3>1, CeilFacts
    <3> QED BY <3>2
  <2>3. ASSUME i # C PROVE k = Ceil(n, R)
    <3>1. n = k * R /\ k \in Nat
      BY <1>1, <1>9, <2>3
    <3>2. k * R < n + R /\ n <= k * R
      BY <1>1, <2>1, <3>1
    <3> QED BY <1>1, <2>1, <3>1, <3>2, CeilUnique
  <2> QED BY <2>2, <2>3
<1>13. PageCount <= C * k
  <2>1. PageCount * R < N + R
    <3>1. N \in Nat
      BY <1>1
    <3> QED BY <1>1, <3>1, CeilFacts
  <2>2. C * k \in Nat /\ (C * k + 1) * R = C * Size + R /\ PageCount * R \in Nat
    BY <1>1, <1>2
  <2>3. PageCount * R < (C * k + 1) * R
    BY <1>1, <1>5, <2>1, <2>2
  <2> QED BY <1>1, <2>2, <2>3, MulMono
<1>14. /\ Upto(i - 1) = g /\ Upto(i) = g + Ceil(n, R) /\ Upto(i) <= PageCount
       /\ i = C => Upto(i) = PageCount
  <2>1. Upto(i - 1) = Least(g, PageCount) /\ Upto(i) = Least(g + k, PageCount)
    BY <1>4 DEF Upto, k
  <2>2. i = C => PageCount <= g + k
    BY <1>4, <1>13
  <2>3. /\ i = C => g + Ceil(n, R) = PageCount
        /\ i # C => g + Ceil(n, R) < PageCount
    <3> HIDE DEF n, to, a, g
    <3> QED BY <1>9, <1>11
  <2> HIDE DEF n, g
  <2> QED BY <1>1, <1>4, <1>12, <2>1, <2>2, <2>3 DEF Least
<1>15. Part(i) = Pages(g, Ceil(n, R))
  <2>1. Upto(i) - Upto(i - 1) = Ceil(n, R)
    <3> HIDE DEF n, g
    <3> QED BY <1>4, <1>12, <1>14
  <2>2. Part(i) = Pages(g, Upto(i) - Upto(i - 1))
    BY DEF Part, k
  <2> HIDE DEF n, g
  <2> QED BY <2>1, <2>2
<1>16. Upto(i - 1) = (i - 1) * PerChunk
  BY <1>14 DEF k
<1> HIDE DEF n, g, to
<1> QED BY <1>4, <1>10, <1>11, <1>12, <1>14, <1>15, <1>16 DEF C

(* The settings of a document stay as they are. *)
LEMMA SameConfig ==
  ASSUME config' = config
  PROVE  /\ Chunks' = Chunks /\ Items' = Items /\ Size' = Size /\ All' = All
         /\ PageCount' = PageCount
         /\ \A g, n : Pages(g, n)' = Pages(g, n)
         /\ \A i : Part(i)' = Part(i) /\ Upto(i)' = Upto(i)
         /\ \A p, footer : Page(p, footer)' = Page(p, footer)
<1>1. Chunks' = Chunks
  BY DEF Chunks, Slices, Items, All, Size, Snapped, Ceil, Least
<1>2. Size' = Size /\ All' = All /\ PageCount' = PageCount /\ Items' = Items
  BY DEF Items, All, Size, Snapped, PageCount, Ceil
<1>3. \A p, footer : Page(p, footer)' = Page(p, footer)
  BY DEF Page, PageCount, All, Ceil, Least
<1>4. \A g, n : Pages(g, n)' = Pages(g, n)
  BY <1>3 DEF Pages
<1>5. \A i : Upto(i)' = Upto(i)
  BY DEF Upto, PerChunk, PageCount, Size, Snapped, Ceil, Least
<1>6. \A i : Part(i)' = Part(i)
  BY <1>4, <1>5 DEF Part, PerChunk, Size, Snapped, Ceil
<1> QED BY <1>1, <1>2, <1>3, <1>4, <1>5, <1>6

-----------------------------------------------------------------------------
(* The renderer.                                                           *)

RenderInv ==
  /\ config \in Configs
  /\ pc \in {"select", "single", "chunks", "merge", "stamp", "done"}
  /\ next \in 0..Len(Chunks)
  /\ pc \in {"select", "single"} => next = 0 /\ buffers = <<>> /\ pdf = <<>>
  /\ pc = "chunks" => buffers = [i \in 1..next |-> Part(i)] /\ pdf = <<>>
  /\ pc = "merge" => \E m \in 0..Len(Chunks) :
       buffers = [i \in 1..(Len(Chunks) - m) |-> Part(m + i)] /\ pdf = Pages(0, Upto(m))
  /\ pc = "stamp" => buffers = <<>> /\ pdf = Pages(0, PageCount)
  /\ pc = "done" => buffers = <<>> /\ Equivalent

LEMMA RenderInit == Init => RenderInv
<1> SUFFICES ASSUME Init PROVE RenderInv
  OBVIOUS
<1>1. Len(Chunks) \in Nat
  BY ChunkCount DEF Init
<1> QED BY <1>1 DEF Init, RenderInv

(* One more chunk. *)
LEMMA OneMore ==
  ASSUME NEW n \in Nat
  PROVE  Append([i \in 1..n |-> Part(i)], Part(n + 1)) = [i \in 1..(n + 1) |-> Part(i)]
<1> DEFINE s == [i \in 1..n |-> Part(i)]
           T == {Part(i) : i \in 1..(n + 1)}
<1>1. s \in Seq(T) /\ Len(s) = n /\ Part(n + 1) \in T
  OBVIOUS
<1>2. \A i \in 1..n : s[i] = Part(i)
  OBVIOUS
<1> HIDE DEF s, T
<1>3. /\ Append(s, Part(n + 1)) \in [1..(n + 1) -> T]
      /\ \A i \in 1..(n + 1) : Append(s, Part(n + 1))[i] = Part(i)
  <2>1. /\ Append(s, Part(n + 1)) \in Seq(T) /\ Len(Append(s, Part(n + 1))) = n + 1
        /\ \A i \in 1..n : Append(s, Part(n + 1))[i] = s[i]
        /\ Append(s, Part(n + 1))[n + 1] = Part(n + 1)
    BY <1>1, AppendProperties
  <2>2. Append(s, Part(n + 1)) \in [1..(n + 1) -> T]
    BY <2>1, LenProperties
  <2> QED BY <1>1, <1>2, <2>1, <2>2
<1> DEFINE t == Append(s, Part(n + 1))
<1>4. t = Append(s, Part(n + 1))
  OBVIOUS
<1> HIDE DEF t
<1>5. t = [i \in 1..(n + 1) |-> Part(i)]
  BY <1>3, <1>4
<1> QED BY <1>4, <1>5 DEF s

(* The pages of one chunk after those of the chunks before it. *)
LEMMA Joined ==
  ASSUME NEW a \in Nat, NEW n \in Nat
  PROVE  Pages(0, a) \o Pages(a, n) = Pages(0, a + n)
<1> DEFINE s == Pages(0, a)
           t == Pages(a, n)
           u == Pages(0, a + n)
           T == {Page(p, <<>>) : p \in 1..(a + n)}
<1>0. \A i \in 1..(a + n) : Page(i, <<>>) \in T /\ 0 + i = i
  OBVIOUS
<1> HIDE DEF T
<1>1. s \in Seq(T) /\ Len(s) = a /\ \A i \in 1..a : s[i] = Page(i, <<>>)
  <2>1. \A i \in 1..a : 0 + i = i /\ Page(i, <<>>) \in T
    BY <1>0
  <2>2. \A i \in 1..a : Page(0 + i, <<>>) = Page(i, <<>>)
    BY <2>1
  <2> QED BY <2>1, <2>2 DEF Pages
<1>2. t \in Seq(T) /\ Len(t) = n /\ \A i \in 1..n : t[i] = Page(a + i, <<>>)
  <2>1. \A i \in 1..n : a + i \in 1..(a + n)
    OBVIOUS
  <2>2. \A i \in 1..n : Page(a + i, <<>>) \in T
    BY <1>0, <2>1
  <2>3. t \in [1..n -> T] /\ \A i \in 1..n : t[i] = Page(a + i, <<>>)
    BY <2>2 DEF Pages
  <2> HIDE DEF t
  <2> QED BY <2>3
<1>3. u \in [1..(a + n) -> T] /\ \A i \in 1..(a + n) : u[i] = Page(i, <<>>)
  <2>1. \A i \in 1..(a + n) : Page(0 + i, <<>>) = Page(i, <<>>)
    BY <1>0
  <2> QED BY <1>0, <2>1 DEF Pages
<1> HIDE DEF s, t, u
<1>4. /\ s \o t \in Seq(T) /\ Len(s \o t) = a + n
      /\ \A i \in 1..(a + n) : (s \o t)[i] = IF i <= a THEN s[i] ELSE t[i - a]
  BY <1>1, <1>2, ConcatProperties
<1>5. s \o t \in [1..(a + n) -> T]
  BY <1>4, LenProperties
<1>6. \A i \in 1..(a + n) : (s \o t)[i] = Page(i, <<>>)
  <2> TAKE i \in 1..(a + n)
  <2>1. CASE i <= a
    BY <1>1, <1>4, <2>1
  <2>2. CASE ~(i <= a)
    <3>1. i - a \in 1..n /\ a + (i - a) = i
      BY <2>2
    <3> QED BY <1>2, <1>4, <2>2, <3>1
  <2> QED BY <2>1, <2>2
<1> DEFINE v == s \o t
<1>7. v = s \o t
  OBVIOUS
<1> HIDE DEF v
<1>8. v = u
  <2>1. v \in [1..(a + n) -> T] /\ \A i \in 1..(a + n) : v[i] = u[i]
    BY <1>3, <1>5, <1>6, <1>7
  <2> QED BY <1>3, <2>1
<1> QED BY <1>7, <1>8 DEF s, t, u

(* The first of the chunks that are left to merge, and the others. *)
LEMMA RestOf ==
  ASSUME NEW m \in Nat, NEW n \in Nat \ {0}
  PROVE  LET s == [i \in 1..n |-> Part(m + i)] IN
         /\ s # <<>> /\ Head(s) = Part(m + 1)
         /\ Tail(s) = [i \in 1..(n - 1) |-> Part((m + 1) + i)]
<1> DEFINE s == [i \in 1..n |-> Part(m + i)]
           T == {Part(m + i) : i \in 1..n}
<1>1. s \in Seq(T) /\ Len(s) = n /\ \A i \in 1..n : s[i] = Part(m + i)
  <2>1. s \in [1..n -> T] /\ \A i \in 1..n : s[i] = Part(m + i)
    OBVIOUS
  <2> HIDE DEF s, T
  <2> QED BY <2>1
<1> HIDE DEF s, T
<1>2. s # <<>>
  BY <1>1
<1>3. Head(s) = Part(m + 1)
  BY <1>1
<1>4. Tail(s) \in Seq(T) /\ Len(Tail(s)) = n - 1 /\ \A i \in 1..(n - 1) : Tail(s)[i] = s[i + 1]
  BY <1>1, <1>2, HeadTailProperties
<1> DEFINE t == Tail(s)
<1>5. t = Tail(s)
  OBVIOUS
<1> HIDE DEF t
<1>6. t \in [1..(n - 1) -> T]
  BY <1>4, <1>5, LenProperties
<1>7. \A i \in 1..(n - 1) : t[i] = Part((m + 1) + i)
  <2> TAKE i \in 1..(n - 1)
  <2>1. i + 1 \in 1..n /\ m + (i + 1) = (m + 1) + i
    OBVIOUS
  <2> QED BY <1>1, <1>4, <1>5, <2>1
<1>8. t = [i \in 1..(n - 1) |-> Part((m + 1) + i)]
  BY <1>6, <1>7
<1> QED BY <1>2, <1>3, <1>5, <1>8 DEF s

LEMMA RenderStep == RenderInv /\ [Next]_vars => RenderInv'
<1> SUFFICES ASSUME RenderInv, [Next]_vars PROVE RenderInv'
  OBVIOUS
<1> DEFINE C == Len(Chunks)
<1>1. config' = config /\ config \in Configs /\ next \in 0..C
  BY DEF RenderInv, Next, vars, Select, PrintAll, PrintChunk, PrintedAll, Merge, Stamp, Restart
<1>2. /\ Chunks' = Chunks /\ Items' = Items /\ Size' = Size /\ All' = All
      /\ PageCount' = PageCount
      /\ \A g, n : Pages(g, n)' = Pages(g, n)
      /\ \A i : Part(i)' = Part(i) /\ Upto(i)' = Upto(i)
      /\ \A p, footer : Page(p, footer)' = Page(p, footer)
  BY <1>1, SameConfig
<1>3. C \in Nat \ {0} /\ Len(Items) = config.items /\ PageCount \in Nat \ {0}
  BY <1>1, ChunkCount, Settings
<1>4. CASE Select
  <2>1. next = 0 /\ buffers = <<>> /\ pdf = <<>>
    BY <1>4 DEF Select, Goto, RenderInv
  <2>2. [i \in 1..0 |-> Part(i)] = <<>>
    OBVIOUS
  <2> QED BY <1>1, <1>2, <1>3, <1>4, <2>1, <2>2 DEF Select, Goto, RenderInv
<1>5. CASE PrintAll
  <2>1. Sheets(Items, 0, All) = Pages(0, PageCount)
    <3> DEFINE N == config.items
               R == config.rowsPerPage
    <3>1. N \in Nat \ {0} /\ R \in Nat \ {0} /\ 0 * R = 0 /\ Items = [i \in 1..N |-> 0 + i]
      BY <1>1, Settings, ChunkCount
    <3>2. LET a == 0 * R IN
            /\ Sheets([i \in 1..N |-> a + i], a, All) = Pages(0, Ceil(N, R))
            /\ a + N = N => 0 + Ceil(N, R) = PageCount
      <4>1. LET a == 0 * R IN
              \/ a + N = N /\ All = All
              \/ a + N < N /\ All = {} /\ \E k \in Nat : N = k * R
        BY <3>1
      <4>2. 0 \in Nat
        OBVIOUS
      <4> QED BY <1>1, <3>1, <4>1, <4>2, SheetsAre
    <3>3. Ceil(N, R) = PageCount
      BY DEF PageCount
    <3> HIDE DEF N, R
    <3> QED BY <3>1, <3>2, <3>3
  <2>2. pdf' = Pages(0, PageCount) /\ buffers' = <<>> /\ next' = next /\ pc' = "stamp"
    BY <1>5, <2>1 DEF PrintAll, Goto, RenderInv
  <2> QED BY <1>1, <1>2, <2>2 DEF RenderInv
<1>6. CASE PrintChunk
  <2>1. /\ pc = "chunks" /\ pc' = "chunks" /\ next < C /\ next' = next + 1 /\ pdf' = pdf /\ pdf = <<>>
        /\ buffers = [i \in 1..next |-> Part(i)]
    BY <1>6 DEF PrintChunk, RenderInv
  <2>2. buffers' = Append(buffers, Part(next + 1))
    <3> DEFINE j == next + 1
    <3>1. j \in 1..C /\ j - 1 = next /\ (j = C <=> next = C - 1)
      BY <1>1, <1>3, <2>1
    <3>2. buffers' = Append(buffers, Sheets(Chunks[j], next * Size, IF next = C - 1 THEN All ELSE {}))
      BY <1>6 DEF PrintChunk
    <3>3. Sheets(Chunks[j], next * Size, IF next = C - 1 THEN All ELSE {}) = Part(j)
      <4> HIDE DEF j
      <4>1. Sheets(Chunks[j], (j - 1) * Size, IF j = C THEN All ELSE {}) = Part(j)
        BY <1>1, <3>1, ChunkIs
      <4> QED BY <3>1, <4>1
    <3> QED BY <3>2, <3>3
  <2>3. buffers' = [i \in 1..(next + 1) |-> Part(i)]
    BY <1>1, <1>3, <2>1, <2>2, OneMore
  <2>4. buffers' = [i \in 1..next' |-> Part(i)']
    BY <1>2, <2>1, <2>3
  <2>5. next' \in 0..C
    BY <1>1, <1>3, <2>1
  <2> QED BY <1>1, <1>2, <2>1, <2>4, <2>5 DEF RenderInv
<1>7. CASE PrintedAll
  <2>1. /\ pc' = "merge" /\ next = C /\ UNCHANGED <<next, buffers, pdf>>
        /\ buffers = [i \in 1..C |-> Part(i)] /\ pdf = <<>>
    BY <1>7 DEF PrintedAll, Goto, RenderInv
  <2>2. Upto(0) = 0
    <3>1. PerChunk \in Nat
      BY <1>1, WholeSheets
    <3> QED BY <1>3, <3>1 DEF Upto, Least
  <2>3. pdf = Pages(0, Upto(0))
    BY <2>1, <2>2 DEF Pages
  <2>4. buffers = [i \in 1..(C - 0) |-> Part(0 + i)]
    <3>1. C - 0 = C /\ \A i \in 1..C : 0 + i = i
      BY <1>3
    <3>2. \A i \in 1..C : Part(0 + i) = Part(i)
      BY <3>1
    <3> HIDE DEF C
    <3> QED BY <2>1, <3>1, <3>2
  <2>5. /\ buffers' = [i \in 1..(C - 0) |-> Part(0 + i)'] /\ pdf' = Pages(0, Upto(0))'
        /\ 0 \in 0..C
    <3>1. \A i : Part(0 + i)' = Part(0 + i)
      BY <1>2
    <3>2. Pages(0, Upto(0))' = Pages(0, Upto(0))
      BY <1>2 DEF Pages
    <3> HIDE DEF C
    <3> QED BY <1>3, <2>1, <2>3, <2>4, <3>1, <3>2
  <2>6. \E m \in 0..C : buffers' = [i \in 1..(C - m) |-> Part(m + i)'] /\ pdf' = Pages(0, Upto(m))'
    <3> HIDE DEF C
    <3> QED BY <2>5
  <2> QED BY <1>1, <1>2, <2>1, <2>6 DEF RenderInv
<1>8. CASE Merge
  <2>1. PICK m \in 0..C : buffers = [i \in 1..(C - m) |-> Part(m + i)] /\ pdf = Pages(0, Upto(m))
    BY <1>8 DEF Merge, Goto, RenderInv
  <2> HIDE DEF C
  <2>2. m \in Nat /\ m <= C /\ next' = next
    BY <1>3, <1>8 DEF Merge
  <2>3. CASE m = C
    <3>1. buffers = <<>>
      BY <1>3, <2>1, <2>3
    <3>2. /\ pc' = "stamp" /\ UNCHANGED <<buffers, pdf>>
      BY <1>8, <3>1 DEF Merge, Goto
    <3>3. Upto(C) = PageCount
      BY <1>1, <1>3, ChunkIs DEF C
    <3>4. pdf' = Pages(0, PageCount)'
      BY <1>2, <2>1, <2>3, <3>2, <3>3
    <3> QED BY <1>1, <1>2, <2>2, <3>1, <3>2, <3>4 DEF RenderInv, C
  <2>4. CASE m # C
    <3> DEFINE n == C - m
               j == m + 1
    <3>1. n \in Nat \ {0} /\ j \in 1..C /\ j - 1 = m /\ C - j = n - 1
      BY <1>3, <2>2, <2>4
    <3>2. /\ buffers # <<>> /\ Head(buffers) = Part(j)
          /\ Tail(buffers) = [i \in 1..(n - 1) |-> Part(j + i)]
      <4> HIDE DEF n
      <4> QED BY <2>1, <2>2, <3>1, RestOf DEF n
    <3>3. pc' = "merge" /\ pdf' = pdf \o Part(j) /\ buffers' = [i \in 1..(C - j) |-> Part(j + i)]
      <4> HIDE DEF n, j
      <4> QED BY <1>8, <3>1, <3>2 DEF Merge, Goto
    <3> HIDE DEF j, n
    <3>4. /\ Upto(m) \in Nat /\ Upto(j) \in Nat /\ Upto(m) <= Upto(j) /\ Upto(m) = m * PerChunk
      BY <1>1, <3>1, ChunkIs DEF C
    <3>5. Part(j) = Pages(Upto(m), Upto(j) - Upto(m))
      BY <3>1, <3>4 DEF Part
    <3>6. pdf' = Pages(0, Upto(j))
      <4>1. Upto(j) - Upto(m) \in Nat /\ Upto(m) + (Upto(j) - Upto(m)) = Upto(j)
        BY <3>4
      <4> QED BY <2>1, <3>3, <3>4, <3>5, <4>1, Joined
    <3>7. buffers' = [i \in 1..(C - j) |-> Part(j + i)'] /\ pdf' = Pages(0, Upto(j))'
      <4>1. \A i : Part(j + i)' = Part(j + i)
        BY <1>2
      <4>2. Pages(0, Upto(j))' = Pages(0, Upto(j))
        BY <1>2 DEF Pages
      <4> QED BY <3>3, <3>6, <4>1, <4>2
    <3>8. \E k \in 0..C : buffers' = [i \in 1..(C - k) |-> Part(k + i)'] /\ pdf' = Pages(0, Upto(k))'
      <4>1. j \in 0..C
        BY <1>3, <3>1
      <4> QED BY <3>7, <4>1
    <3> QED BY <1>1, <1>2, <2>2, <3>3, <3>8 DEF RenderInv, C
  <2> QED BY <2>3, <2>4
<1>9. CASE Stamp
  <2>1. /\ pc' = "done" /\ UNCHANGED <<next, buffers>> /\ buffers = <<>>
        /\ pdf = Pages(0, PageCount)
        /\ pdf' = [i \in DOMAIN pdf |-> [pdf[i] EXCEPT !.footer = <<i, Len(pdf)>>]]
    BY <1>9 DEF Stamp, Goto, RenderInv
  <2>2. /\ DOMAIN pdf = 1..PageCount /\ Len(pdf) = PageCount
        /\ \A i \in 1..PageCount : pdf[i] = Page(i, <<>>)
    <3>1. \A i \in 1..PageCount : Page(0 + i, <<>>) = Page(i, <<>>)
      <4>1. \A i \in 1..PageCount : 0 + i = i
        BY <1>3
      <4> QED BY <4>1
    <3> QED BY <1>3, <2>1, <3>1 DEF Pages
  <2>3. \A i, footer : [Page(i, <<>>) EXCEPT !.footer = footer] = Page(i, footer)
    <3> TAKE i, footer
    <3> DEFINE page == Page(i, <<>>)
    <3>1. \A x : Page(i, x) = [ rows |-> page.rows, header |-> page.header,
                                total |-> page.total, footer |-> x ]
      BY Zenon DEF Page
    <3> HIDE DEF page
    <3> QED BY <3>1
  <2>4. pdf' = [p \in 1..PageCount |-> Page(p, <<p, PageCount>>)]
    <3>1. \A p \in 1..PageCount :
            [pdf[p] EXCEPT !.footer = <<p, PageCount>>] = Page(p, <<p, PageCount>>)
      BY <2>2, <2>3
    <3>2. pdf' = [p \in 1..PageCount |-> [pdf[p] EXCEPT !.footer = <<p, PageCount>>]]
      BY <2>1, <2>2
    <3> QED BY <3>1, <3>2
  <2>5. Equivalent'
    BY <1>2, <2>4 DEF Equivalent
  <2> QED BY <1>1, <1>2, <2>1, <2>5 DEF RenderInv
<1>10. CASE Restart
  BY <1>1, <1>2, <1>3, <1>10 DEF Restart, RenderInv
<1>11. CASE UNCHANGED vars
  <2>1. /\ UNCHANGED <<pc, next, buffers, pdf>> /\ Pages(0, PageCount)' = Pages(0, PageCount)
        /\ Equivalent' <=> Equivalent
    BY <1>2, <1>11 DEF vars, Equivalent, Pages
  <2>2. \A m : Pages(0, Upto(m))' = Pages(0, Upto(m))
    BY <1>2 DEF Pages
  <2>3. \A m, i : Part(m + i)' = Part(m + i)
    BY <1>2
  <2> QED BY <1>1, <1>2, <2>1, <2>2, <2>3 DEF RenderInv
<1> QED BY <1>4, <1>5, <1>6, <1>7, <1>8, <1>9, <1>10, <1>11 DEF Next

(* What is printed so far, at every point of either strategy.               *)
THEOREM RenderInvariance == Spec => []RenderInv
BY RenderInit, RenderStep, PTL DEF Spec

(* chunkedMerge.js:8-16: either strategy, with any settings and after any    *)
(* retries, gives the same pages: every item once, on its page, numbered     *)
(* continuously; one total, on the last page; page x of y.                  *)
THEOREM SamePages == Spec => []Equivalent
<1>1. RenderInv => Equivalent
  BY DEF RenderInv, Equivalent
<1> QED BY <1>1, RenderInvariance, PTL

(* A page of the document has rows, and no more than fit.                    *)
LEMMA PageFilled ==
  ASSUME config \in Configs, NEW p \in 1..PageCount, NEW footer
  PROVE  Len(Page(p, footer).rows) \in 1..config.rowsPerPage /\ Page(p, footer).footer = footer
<1> DEFINE N == config.items
           R == config.rowsPerPage
           first == (p - 1) * R + 1
           last  == Least(p * R, N)
           rows  == [i \in 1..(last - first + 1) |-> [line |-> first + i - 1, item |-> first + i - 1]]
<1>1. N \in Nat \ {0} /\ R \in Nat \ {0} /\ PageCount \in Nat \ {0} /\ PageCount = Ceil(N, R)
  BY Settings DEF PageCount
<1>2. Page(p, footer).rows = rows /\ Page(p, footer).footer = footer
  BY DEF Page
<1> HIDE DEF N, R
<1>3. (p - 1) * R < N
  <2>1. PageCount * R < N + R
    <3>1. N \in Nat
      BY <1>1
    <3> QED BY <1>1, <3>1, CeilFacts
  <2>2. p * R <= PageCount * R /\ p * R \in Nat /\ PageCount * R \in Nat /\ (p - 1) * R = p * R - R
    BY <1>1, MulMono
  <2> QED BY <1>1, <2>1, <2>2
<1>4. last - first + 1 \in 1..R
  <2>1. p * R = (p - 1) * R + R /\ (p - 1) * R \in Nat
    BY <1>1
  <2> QED BY <1>1, <1>3, <2>1 DEF Least
<1>5. Len(rows) = last - first + 1
  <2> HIDE DEF first, last
  <2> QED BY <1>1, <1>4
<1> HIDE DEF rows, first, last
<1> QED BY <1>2, <1>4, <1>5 DEF R

(* So has every PDF that is printed; the loop counter stays within the        *)
(* chunks.                                                                  *)
THEOREM RendererTyped == Spec => []TypeOK
<1>1. RenderInv => TypeOK
  <2> SUFFICES ASSUME RenderInv PROVE TypeOK
    OBVIOUS
  <2>1. config \in Configs /\ Len(Chunks) \in Nat \ {0} /\ Len(Chunks) <= config.items
        /\ config.items \in Nat
    BY ChunkCount, Settings DEF RenderInv
  <2>2. next \in 0..config.items
    BY <2>1 DEF RenderInv
  <2>3. ASSUME NEW j \in 1..Len(Chunks), NEW p \in DOMAIN Part(j)
        PROVE  Len(Part(j)[p].rows) \in 1..config.rowsPerPage /\ Part(j)[p].footer = <<>>
    <3> DEFINE g == Upto(j - 1)
               n == Upto(j) - Upto(j - 1)
    <3>1. /\ g \in Nat /\ Upto(j) \in Nat /\ Upto(j) <= PageCount /\ PageCount \in Nat
          /\ g = (j - 1) * PerChunk
      BY <2>1, ChunkIs, Settings
    <3>2. Part(j) = Pages(g, n)
      BY <3>1 DEF Part
    <3>3. p \in 1..n /\ Part(j)[p] = Page(g + p, <<>>)
      <4> HIDE DEF g, n
      <4> QED BY <3>2 DEF Pages
    <3>4. g + p \in 1..PageCount
      BY <3>1, <3>3
    <3> HIDE DEF g
    <3> QED BY <2>1, <3>3, <3>4, PageFilled
  <2>4. ASSUME NEW b \in DOMAIN buffers
        PROVE  \E j \in 1..Len(Chunks) : buffers[b] = Part(j)
    <3>1. CASE pc = "chunks"
      <4>1. buffers = [i \in 1..next |-> Part(i)] /\ next \in 0..Len(Chunks)
        BY <3>1 DEF RenderInv
      <4>2. b \in 1..Len(Chunks)
        BY <2>1, <4>1
      <4> QED BY <4>1, <4>2
    <3>2. CASE pc = "merge"
      <4>1. PICK m \in 0..Len(Chunks) : buffers = [i \in 1..(Len(Chunks) - m) |-> Part(m + i)]
        BY <3>2 DEF RenderInv
      <4>2. m + b \in 1..Len(Chunks) /\ buffers[b] = Part(m + b)
        BY <2>1, <4>1
      <4> QED BY <4>2
    <3>3. CASE pc \notin {"chunks", "merge"}
      BY <3>3 DEF RenderInv
    <3> QED BY <3>1, <3>2, <3>3
  <2>5. ASSUME NEW b \in DOMAIN buffers, NEW p \in DOMAIN buffers[b]
        PROVE  Len(buffers[b][p].rows) \in 1..config.rowsPerPage /\ buffers[b][p].footer = <<>>
    BY <2>3, <2>4
  <2> QED BY <2>2, <2>5 DEF TypeOK, RenderInv
<1> QED BY <1>1, RenderInvariance, PTL

-----------------------------------------------------------------------------
(* The renderer within its service: it runs once the job is valid, and then  *)
(* it is the renderer.                                                      *)
LEMMA RenderSteps == [DocumentsNext]_documentsVars => [Next]_vars
BY DEF DocumentsNext, documentsVars

(* The renderer of the service implements the renderer on its own.          *)
THEOREM DocumentsRender == DocumentsSpec => Spec
<1>1. DocumentsInit => Init
  BY DEF DocumentsInit
<1> QED BY <1>1, RenderSteps, PTL DEF DocumentsSpec, Spec

-----------------------------------------------------------------------------
(* The validation.                                                         *)

Same(i, j) == DocId(Contents[i]) # {} /\ DocId(Contents[i]) = DocId(Contents[j])
Repeats(i) == \E j \in 1..(i - 1) : Same(i, j)

\* The first document with the documentId of document i, if it is an earlier one.
Firsts(i) == {j \in 1..(i - 1) : Same(i, j) /\ \A k \in 1..(j - 1) : ~Same(i, k)}

\* The documents are checked one by one, and some are already.
Named  == at # "request" /\ topErrors \subseteq {"idempotencyKey"}
Looked == IF at = "checked" THEN DOMAIN Contents ELSE 1..(index - 1)

IdsInv ==
  /\ DOMAIN seenIds = UNION {DocId(Contents[i]) : i \in Looked}
  /\ \A x \in DOMAIN seenIds :
       /\ seenIds[x] \in Looked /\ x \in DocId(Contents[seenIds[x]])
       /\ \A k \in 1..(seenIds[x] - 1) : x \notin DocId(Contents[k])

ErrorsInv ==
  /\ DOMAIN documentErrors = {i \in Looked : ~WellFormed(Contents[i]) \/ Firsts(i) # {}}
  /\ \A i \in Looked : Repeats(i) => Firsts(i) # {}
  /\ \A i \in DOMAIN documentErrors :
       documentErrors[i] = ValidateDocument(Contents[i])
                             \union {<<"documentId", "duplicates", j>> : j \in Firsts(i)}

ChecksInv ==
  /\ body \in Bodies
  /\ at \in {"request", "documents", "checked"}
  /\ at = "request" => index = 1 /\ DOMAIN seenIds = {} /\ DOMAIN documentErrors = {}
  /\ at = "documents" => topErrors \subseteq {"idempotencyKey"}
  /\ Named => /\ Given(body) /\ Given(Contents)
              /\ Len(Contents) \in Nat /\ DOMAIN Contents = 1..Len(Contents)
              /\ index \in DOMAIN Contents /\ (at = "checked" => index = Len(Contents))
              /\ IdsInv /\ ErrorsInv

\* The document that is rendered is one of a valid job, and has the items counted.
FollowedInv ==
  /\ Given(body) /\ Given(Contents) /\ Contents # <<>> => d \in 1..Len(Contents)
  /\ Lines # <<>> => config.items = Len(Lines)
  /\ pc # "select" => Valid

LEMMA OneId == ASSUME NEW doc PROVE \A x \in DocId(doc) : DocId(doc) = {x}
BY DEF DocId

LEMMA AlikeIds ==
  ASSUME NEW i, NEW j
  PROVE  Same(i, j) <=> \E x \in DocId(Contents[i]) : x \in DocId(Contents[j])
<1>1. ASSUME NEW x \in DocId(Contents[i]), x \in DocId(Contents[j]) PROVE Same(i, j)
  BY <1>1, OneId DEF Same
<1> QED BY <1>1 DEF Same

(* A repeated documentId is no problem of the document itself.               *)
LEMMA RepeatIsNotOwn ==
  ASSUME NEW doc, NEW j
  PROVE  <<"documentId", "duplicates", j>> \notin ValidateDocument(doc)
<1> DEFINE e == <<"documentId", "duplicates", j>>
<1>1. \A v, f, max : e \notin TextErrors(v, f, max)
  BY DEF TextErrors
<1>2. \A a, f : e \notin AddressErrors(a, f)
  BY DEF AddressErrors
<1>3. \A p, f, r : e \notin PartyErrors(p, f, r)
  BY <1>1, <1>2 DEF PartyErrors
<1>4. \A items : e \notin ItemsErrors(items)
  <2> TAKE items
  <2>1. \A i, x : e # <<"lineItems", i, x>>
    OBVIOUS
  <2>2. e # <<"lineItems", "required">> /\ e # <<"total", "max">>
    OBVIOUS
  <2> HIDE DEF e
  <2> DEFINE lines == UNION {{<<"lineItems", i, x>> : x \in LineErrors(items[i])} : i \in DOMAIN items}
             total == IF DocumentTotal(items) > LIMITS.documentTotalMax THEN {<<"total", "max">>} ELSE {}
  <2>3. e \notin lines
    BY <2>1
  <2>4. e \notin total
    BY <2>2
  <2>5. ItemsErrors(items) = IF items \in {Undefined, Other} \/ items = <<>>
                             THEN {<<"lineItems", "required">>} ELSE lines \union total
    BY DEF ItemsErrors
  <2> HIDE DEF lines, total
  <2> QED BY <2>2, <2>3, <2>4, <2>5
<1>5. \A v : e \notin CurrencyErrors(v)
  BY DEF CurrencyErrors
<1>6. e # <<"document", "object">> /\ e # <<"type", "unsupported">>
  OBVIOUS
<1> HIDE DEF e
<1>7. e \notin ValidateDocument(doc)
  BY <1>1, <1>3, <1>4, <1>5, <1>6 DEF ValidateDocument
<1> QED BY <1>7 DEF e

LEMMA ChecksInit == ValidationInit => ChecksInv
BY DEF ValidationInit, ChecksInv, Named

LEMMA RequestStep == ChecksInv /\ CheckRequest => ChecksInv'
<1> SUFFICES ASSUME ChecksInv, CheckRequest PROVE ChecksInv'
  OBVIOUS
<1>1. /\ UNCHANGED <<body, index, seenIds, documentErrors>> /\ at = "request" /\ index = 1
      /\ DOMAIN seenIds = {} /\ DOMAIN documentErrors = {} /\ body \in Bodies
  BY DEF ChecksInv, CheckRequest
<1>2. at' = IF topErrors' \subseteq {"idempotencyKey"} THEN "documents" ELSE "checked"
  BY DEF CheckRequest
<1>3. CASE topErrors' \subseteq {"idempotencyKey"}
  <2>1. at' = "documents" /\ Named'
    BY <1>2, <1>3 DEF Named
  <2>2. topErrors' = TopErrors
    BY DEF CheckRequest
  <2>3. Given(body)
    BY <1>3, <2>2 DEF TopErrors
  <2>4. "documents" \notin TopErrors /\ "empty" \notin TopErrors
    BY <1>3, <2>2
  <2>5. Given(Contents) /\ Contents # <<>>
    BY <2>3, <2>4 DEF TopErrors, Contents
  <2>6. Len(Contents) \in Nat /\ Contents = [i \in 1..Len(Contents) |-> Contents[i]]
    BY <1>1, <2>3, <2>5, BodiesAssumption DEF Given, IsNone, IsArray, Contents
  <2>7. DOMAIN Contents = 1..Len(Contents)
    BY <2>6
  <2>8. Len(Contents) # 0
    <3>1. ASSUME Len(Contents) = 0 PROVE FALSE
      <4>1. Contents = [i \in {} |-> Contents[i]]
        BY <2>6, <3>1
      <4> QED BY <2>5, <4>1
    <3> QED BY <3>1
  <2>9. index \in DOMAIN Contents
    BY <1>1, <2>6, <2>7, <2>8
  <2>10. Contents' = Contents /\ Looked' = {}
    BY <1>1, <2>1 DEF Contents, Looked
  <2>11. IdsInv'
    BY <1>1, <2>10 DEF IdsInv
  <2>12. ErrorsInv'
    BY <1>1, <2>10 DEF ErrorsInv
  <2> QED BY <1>1, <1>3, <2>1, <2>3, <2>5, <2>6, <2>7, <2>9, <2>10, <2>11, <2>12
          DEF ChecksInv, Given
<1>4. CASE ~(topErrors' \subseteq {"idempotencyKey"})
  BY <1>1, <1>2, <1>4 DEF ChecksInv, Named
<1> QED BY <1>3, <1>4

LEMMA DocumentStep == ChecksInv /\ CheckDocument => ChecksInv'
<1> SUFFICES ASSUME ChecksInv, CheckDocument PROVE ChecksInv'
  OBVIOUS
<1> DEFINE doc  == Contents[index]
           dups == {<<"documentId", "duplicates", seenIds[x]>> : x \in DocId(doc) \intersect DOMAIN seenIds}
           errs == ValidateDocument(doc) \union dups
           new  == DocId(doc) \ DOMAIN seenIds
<1>1. /\ at = "documents" /\ topErrors \subseteq {"idempotencyKey"} /\ body \in Bodies
      /\ Given(body) /\ Given(Contents) /\ Len(Contents) \in Nat /\ DOMAIN Contents = 1..Len(Contents)
      /\ index \in DOMAIN Contents /\ IdsInv /\ ErrorsInv /\ Looked = 1..(index - 1)
      /\ index \in Nat
  BY DEF ChecksInv, CheckDocument, Named, Looked
<1>2. /\ UNCHANGED <<body, topErrors>>
      /\ documentErrors' = [i \in DOMAIN documentErrors \union (IF errs = {} THEN {} ELSE {index}) |->
                              IF i = index THEN errs ELSE documentErrors[i]]
      /\ seenIds' = [i \in DOMAIN seenIds \union new |-> IF i \in new THEN index ELSE seenIds[i]]
      /\ IF index = Len(Contents) THEN at' = "checked" /\ index' = index
         ELSE index' = index + 1 /\ at' = "documents"
  BY <1>1 DEF CheckDocument, Contents, Remembered
<1>3. Contents' = Contents /\ Named' /\ at' \in {"documents", "checked"}
  BY <1>1, <1>2 DEF Contents, Named
<1>4. Looked' = 1..index /\ Looked' = Looked \union {index} /\ index \notin Looked
  BY <1>1, <1>2, <1>3 DEF Looked
<1>5. index' \in DOMAIN Contents' /\ (at' = "checked" => index' = Len(Contents'))
  BY <1>1, <1>2, <1>3
<1>6. /\ \A i, j : Same(i, j)' <=> Same(i, j)
      /\ \A i : Repeats(i)' <=> Repeats(i)
      /\ \A i : Firsts(i)' = Firsts(i)
      /\ \A i : WellFormed(Contents[i])' <=> WellFormed(Contents[i])
  BY <1>3 DEF Same, Repeats, Firsts, WellFormed
<1>7. IdsInv'
  <2>1. DOMAIN seenIds' = DOMAIN seenIds \union DocId(doc)
    BY <1>2
  <2>2. DOMAIN seenIds = UNION {DocId(Contents[i]) : i \in Looked}
    BY <1>1 DEF IdsInv
  <2>3. DOMAIN seenIds' = UNION {DocId(Contents'[i]) : i \in Looked'}
    BY <1>3, <1>4, <2>1, <2>2
  <2>4. ASSUME NEW x \in DOMAIN seenIds'
        PROVE  /\ seenIds'[x] \in Looked' /\ x \in DocId(Contents'[seenIds'[x]])
               /\ \A k \in 1..(seenIds'[x] - 1) : x \notin DocId(Contents'[k])
    <3>1. CASE x \in new
      <4>1. seenIds'[x] = index /\ x \in DocId(doc) /\ x \notin DOMAIN seenIds
        BY <1>2, <3>1
      <4> QED BY <1>1, <1>3, <1>4, <2>2, <4>1
    <3>2. CASE x \notin new
      <4>1. x \in DOMAIN seenIds /\ seenIds'[x] = seenIds[x]
        BY <1>2, <2>1, <3>2
      <4> QED BY <1>1, <1>3, <1>4, <4>1 DEF IdsInv
    <3> QED BY <3>1, <3>2
  <2> QED BY <2>3, <2>4 DEF IdsInv
<1>8. {seenIds[x] : x \in DocId(doc) \intersect DOMAIN seenIds} = Firsts(index)
  <2>1. ASSUME NEW x \in DocId(doc), x \in DOMAIN seenIds PROVE seenIds[x] \in Firsts(index)
    <3>1. /\ seenIds[x] \in 1..(index - 1) /\ x \in DocId(Contents[seenIds[x]])
          /\ \A k \in 1..(seenIds[x] - 1) : x \notin DocId(Contents[k])
      BY <1>1, <2>1 DEF IdsInv
    <3>2. \A k : Same(index, k) <=> x \in DocId(Contents[k])
      BY <2>1, OneId, AlikeIds
    <3> QED BY <3>1, <3>2 DEF Firsts
  <2>2. ASSUME NEW j \in Firsts(index)
        PROVE  \E x \in DocId(doc) \intersect DOMAIN seenIds : seenIds[x] = j
    <3>1. j \in 1..(index - 1) /\ Same(index, j) /\ \A k \in 1..(j - 1) : ~Same(index, k)
      BY <2>2 DEF Firsts
    <3>2. PICK x \in DocId(doc) : x \in DocId(Contents[j])
      BY <3>1, AlikeIds
    <3>3. x \in DOMAIN seenIds
      BY <1>1, <3>1, <3>2 DEF IdsInv
    <3>4. seenIds[x] \in Firsts(index)
      BY <2>1, <3>2, <3>3
    <3>5. /\ seenIds[x] \in 1..(index - 1) /\ Same(index, seenIds[x])
          /\ \A k \in 1..(seenIds[x] - 1) : ~Same(index, k)
      BY <3>4 DEF Firsts
    <3>6. seenIds[x] = j
      BY <1>1, <3>1, <3>5
    <3> QED BY <3>2, <3>3, <3>6
  <2> QED BY <2>1, <2>2
<1>9. dups = {<<"documentId", "duplicates", j>> : j \in Firsts(index)}
  BY <1>8
<1>10. errs = {} <=> WellFormed(doc) /\ Firsts(index) = {}
  <2>1. dups = {} <=> Firsts(index) = {}
    BY <1>9
  <2> HIDE DEF dups
  <2> QED BY <2>1 DEF WellFormed
<1>11. Repeats(index) => Firsts(index) # {}
  <2> SUFFICES ASSUME Repeats(index) PROVE Firsts(index) # {}
    OBVIOUS
  <2>1. PICK j \in 1..(index - 1) : Same(index, j)
    BY DEF Repeats
  <2>2. PICK x \in DocId(doc) : x \in DocId(Contents[j])
    BY <2>1, AlikeIds
  <2>3. x \in DOMAIN seenIds
    BY <1>1, <2>2 DEF IdsInv
  <2> QED BY <1>8, <2>2, <2>3
<1>12. ErrorsInv'
  <2>1. DOMAIN documentErrors = {i \in Looked : ~WellFormed(Contents[i]) \/ Firsts(i) # {}}
    BY <1>1 DEF ErrorsInv
  <2>2. DOMAIN documentErrors' = DOMAIN documentErrors \union (IF errs = {} THEN {} ELSE {index})
    <3> HIDE DEF errs
    <3> QED BY <1>2
  <2>3. DOMAIN documentErrors' = {i \in Looked' : ~WellFormed(Contents[i]) \/ Firsts(i) # {}}
    <3> HIDE DEF errs
    <3> QED BY <1>4, <1>10, <2>1, <2>2
  <2>4. \A i \in Looked' : Repeats(i) => Firsts(i) # {}
    BY <1>1, <1>4, <1>11 DEF ErrorsInv
  <2>5. ASSUME NEW i \in DOMAIN documentErrors'
        PROVE  documentErrors'[i] = ValidateDocument(Contents[i])
                                      \union {<<"documentId", "duplicates", j>> : j \in Firsts(i)}
    <3>1. CASE i = index
      <4>1. documentErrors'[i] = errs
        <5> HIDE DEF errs
        <5> QED BY <1>2, <2>2, <3>1
      <4> HIDE DEF dups
      <4> QED BY <1>9, <3>1, <4>1
    <3>2. CASE i # index
      <4>1. i \in DOMAIN documentErrors /\ documentErrors'[i] = documentErrors[i]
        <5> HIDE DEF errs
        <5> QED BY <1>2, <2>2, <3>2
      <4> QED BY <1>1, <4>1 DEF ErrorsInv
    <3> QED BY <3>1, <3>2
  <2>6. DOMAIN documentErrors' = {i \in Looked' : ~WellFormed(Contents'[i]) \/ Firsts(i)' # {}}
    BY <1>3, <1>6, <2>3
  <2>7. \A i \in Looked' : Repeats(i)' => Firsts(i)' # {}
    BY <1>6, <2>4
  <2>8. \A i \in DOMAIN documentErrors' :
          documentErrors'[i] = ValidateDocument(Contents'[i])
                                 \union {<<"documentId", "duplicates", j>> : j \in Firsts(i)'}
    BY <1>3, <1>6, <2>5
  <2> QED BY <2>6, <2>7, <2>8 DEF ErrorsInv
<1> QED BY <1>1, <1>2, <1>3, <1>5, <1>7, <1>12 DEF ChecksInv, Given

LEMMA ChecksStutter == ChecksInv /\ UNCHANGED validationVars => ChecksInv'
<1> SUFFICES ASSUME ChecksInv, UNCHANGED validationVars PROVE ChecksInv'
  OBVIOUS
<1>1. UNCHANGED <<body, at, index, seenIds, topErrors, documentErrors>>
  BY DEF validationVars
<1>2. Contents' = Contents /\ (Named' <=> Named) /\ Looked' = Looked
  BY <1>1 DEF Contents, Named, Looked
<1>3. IdsInv' <=> IdsInv
  BY <1>1, <1>2 DEF IdsInv
<1>4. \A i : Firsts(i)' = Firsts(i) /\ (Repeats(i)' <=> Repeats(i))
  BY <1>2 DEF Firsts, Repeats, Same
<1>5. ErrorsInv' <=> ErrorsInv
  BY <1>1, <1>2, <1>4 DEF ErrorsInv, WellFormed
<1> QED BY <1>1, <1>2, <1>3, <1>5 DEF ChecksInv, Given

(* What the loop over the documents has found, at every document.           *)
THEOREM ChecksInvariance == DocumentsSpec => []ChecksInv
<1>1. DocumentsInit => ChecksInv
  BY ChecksInit DEF DocumentsInit
<1>2. ChecksInv /\ [DocumentsNext]_documentsVars => ChecksInv'
  BY RequestStep, DocumentStep, ChecksStutter DEF DocumentsNext, documentsVars, ValidationNext
<1> QED BY <1>1, <1>2, PTL DEF DocumentsSpec

(* api.md:37-43: the answer names every document that is wrong itself or      *)
(* repeats the documentId of an earlier one, with the first that has it, and *)
(* no other document.                                                       *)
THEOREM AllFaultsNamed == DocumentsSpec => []EveryFaultNamed
<1>1. ChecksInv => EveryFaultNamed
  <2> SUFFICES ASSUME ChecksInv, at = "checked", topErrors \subseteq {"idempotencyKey"}
               PROVE  EveryFaultNamed
    BY DEF EveryFaultNamed
  <2> DEFINE Least1(i) == CHOOSE j \in 1..i : Same(i, j) /\ \A k \in 1..(j - 1) : ~Same(i, k)
  <2>1. /\ Len(Contents) \in Nat /\ DOMAIN Contents = 1..Len(Contents) /\ Looked = DOMAIN Contents
        /\ ErrorsInv
    BY DEF ChecksInv, Named, Looked
  <2>2. ASSUME NEW i \in DOMAIN Contents PROVE Firsts(i) # {} <=> Repeats(i)
    BY <2>1 DEF ErrorsInv, Firsts, Repeats
  <2>3. DOMAIN documentErrors = {i \in DOMAIN Contents : ~WellFormed(Contents[i]) \/ Repeats(i)}
    BY <2>1, <2>2 DEF ErrorsInv
  <2>4. ASSUME NEW i \in DOMAIN Contents, NEW j \in DOMAIN Contents
        PROVE  j \in Firsts(i) <=> Repeats(i) /\ j = Least1(i)
    <3>1. ASSUME NEW l \in Firsts(i) PROVE l = Least1(i)
      <4>1. l \in 1..i /\ Same(i, l) /\ \A k \in 1..(l - 1) : ~Same(i, k)
        BY <2>1, <3>1 DEF Firsts
      <4>2. /\ Least1(i) \in 1..i /\ Same(i, Least1(i))
            /\ \A k \in 1..(Least1(i) - 1) : ~Same(i, k)
        BY <4>1
      <4> HIDE DEF Least1
      <4> QED BY <2>1, <4>1, <4>2
    <3> HIDE DEF Least1
    <3> QED BY <2>2, <3>1
  <2>5. ASSUME NEW i \in DOMAIN documentErrors, NEW j \in DOMAIN Contents
        PROVE  <<"documentId", "duplicates", j>> \in documentErrors[i]
                 <=> Repeats(i) /\ j = Least1(i)
    <3>1. /\ i \in DOMAIN Contents
          /\ documentErrors[i] = ValidateDocument(Contents[i])
                                   \union {<<"documentId", "duplicates", k>> : k \in Firsts(i)}
      BY <2>1, <2>3 DEF ErrorsInv
    <3>2. <<"documentId", "duplicates", j>> \in documentErrors[i] <=> j \in Firsts(i)
      <4>1. <<"documentId", "duplicates", j>> \notin ValidateDocument(Contents[i])
        BY RepeatIsNotOwn
      <4> QED BY <3>1, <4>1
    <3> HIDE DEF Least1
    <3> QED BY <2>4, <3>1, <3>2
  <2> QED BY <2>3, <2>5 DEF EveryFaultNamed, Repeats, Same
<1> QED BY <1>1, ChecksInvariance, PTL

-----------------------------------------------------------------------------
(* The amounts that are printed.                                           *)

LEMMA FollowedInit == DocumentsInit => FollowedInv
<1> SUFFICES ASSUME DocumentsInit PROVE FollowedInv
  OBVIOUS
<1>1. pc = "select"
  BY DEF DocumentsInit, Init
<1>2. Given(body) /\ Given(Contents) /\ Contents # <<>> => d \in 1..Len(Contents)
  BY DEF DocumentsInit, Contents
<1>3. Lines # <<>> => config.items = Len(Lines)
  BY DEF DocumentsInit
<1> QED BY <1>1, <1>2, <1>3 DEF FollowedInv

LEMMA FollowedStep == FollowedInv /\ [DocumentsNext]_documentsVars => FollowedInv'
<1> SUFFICES ASSUME FollowedInv, [DocumentsNext]_documentsVars PROVE FollowedInv'
  OBVIOUS
<1>1. UNCHANGED <<body, d, config>>
  BY DEF DocumentsNext, documentsVars, ValidationNext, CheckRequest, CheckDocument, validationVars,
         vars, Next, Select, PrintAll, PrintChunk, PrintedAll, Merge, Stamp, Restart, Goto
<1>2. Lines' = Lines /\ Contents' = Contents
  BY <1>1 DEF Lines, Doc, Contents, Given
<1>3. pc' # "select" => Valid'
  <2>1. CASE ValidationNext /\ UNCHANGED <<vars, d>>
    <3>1. ~Valid
      BY <2>1 DEF Valid, ValidationNext, CheckRequest, CheckDocument
    <3> QED BY <2>1, <3>1 DEF FollowedInv, vars
  <2>2. CASE Valid /\ UNCHANGED validationVars
    BY <2>2 DEF Valid, validationVars
  <2>3. CASE UNCHANGED documentsVars
    BY <2>3 DEF documentsVars, validationVars, vars, Valid, FollowedInv
  <2> QED BY <2>1, <2>2, <2>3 DEF DocumentsNext
<1> QED BY <1>1, <1>2, <1>3 DEF FollowedInv, Given

(* A page shows lines of the document, and the total of all of them or none. *)
LEMMA PageShows ==
  ASSUME config \in Configs, NEW p \in 1..PageCount, NEW footer,
         NEW i \in DOMAIN Page(p, footer).rows
  PROVE  Page(p, footer).rows[i].item \in All
<1> DEFINE N == config.items
           R == config.rowsPerPage
           first == (p - 1) * R + 1
           last  == Least(p * R, N)
           rows  == [k \in 1..(last - first + 1) |-> [line |-> first + k - 1, item |-> first + k - 1]]
<1>1. N \in Nat \ {0} /\ R \in Nat \ {0} /\ PageCount \in Nat \ {0}
  BY Settings DEF PageCount
<1>2. Page(p, footer).rows = rows
  BY DEF Page
<1> HIDE DEF N, R
<1>3. (p - 1) * R \in Nat /\ p * R \in Nat
  BY <1>1
<1>4. first \in Nat \ {0} /\ last \in Nat /\ last <= N
  BY <1>1, <1>3 DEF Least
<1> HIDE DEF first, last
<1>5. i \in 1..(last - first + 1) /\ rows[i].item = first + i - 1
  BY <1>2
<1>6. first + i - 1 \in 1..N
  BY <1>1, <1>4, <1>5
<1> HIDE DEF rows
<1> QED BY <1>2, <1>5, <1>6 DEF N, All

LEMMA PrintedPages ==
  ASSUME RenderInv, NEW p \in DOMAIN pdf
  PROVE  /\ pc # "select" /\ pdf[p].total \in {{}, All}
         /\ \A i \in DOMAIN pdf[p].rows : pdf[p].rows[i].item \in All
<1>1. config \in Configs /\ PageCount \in Nat
  BY Settings DEF RenderInv
<1>2. pc \in {"merge", "stamp", "done"}
  BY DEF RenderInv
<1>3. ASSUME NEW q \in 1..PageCount, NEW footer
      PROVE  /\ Page(q, footer).total \in {{}, All}
             /\ \A i \in DOMAIN Page(q, footer).rows : Page(q, footer).rows[i].item \in All
  BY <1>1, PageShows DEF Page
<1>4. \E q \in 1..PageCount : \E footer : pdf[p] = Page(q, footer)
  <2>1. CASE pc = "merge"
    <3>1. PICK m \in 0..Len(Chunks) : pdf = Pages(0, Upto(m))
      BY <2>1 DEF RenderInv
    <3>2. Upto(m) \in Nat /\ Upto(m) <= PageCount
      <4>1. Len(Chunks) \in Nat
        BY <1>1, ChunkCount
      <4>2. PerChunk \in Nat
        BY <1>1, WholeSheets
      <4>3. m * PerChunk \in Nat
        BY <4>1, <4>2
      <4> QED BY <1>1, <4>3 DEF Upto, Least
    <3>3. p \in 1..Upto(m) /\ pdf[p] = Page(0 + p, <<>>)
      BY <3>1 DEF Pages
    <3> QED BY <1>1, <3>2, <3>3
  <2>2. CASE pc = "stamp"
    <3>1. pdf = Pages(0, PageCount)
      BY <2>2 DEF RenderInv
    <3>2. p \in 1..PageCount /\ pdf[p] = Page(0 + p, <<>>)
      BY <3>1 DEF Pages
    <3> QED BY <1>1, <3>2
  <2>3. CASE pc = "done"
    <3>1. pdf = [q \in 1..PageCount |-> Page(q, <<q, PageCount>>)]
      BY <2>3 DEF RenderInv, Equivalent
    <3> QED BY <3>1
  <2> QED BY <1>2, <2>1, <2>2, <2>3
<1> QED BY <1>2, <1>3, <1>4

(* The lines of a valid document have amounts that fit, and their sum fits.  *)
LEMMA AmountsFit ==
  ASSUME ChecksInv, FollowedInv, Valid
  PROVE  /\ Lines # <<>> /\ DOMAIN Lines = 1..Len(Lines)
         /\ \A i \in DOMAIN Lines : ~(Amount(Lines[i]) > LIMITS.lineAmountMax)
         /\ ~(TotalOf(Lines, DOMAIN Lines) > LIMITS.documentTotalMax)
<1>1. /\ body \in Bodies /\ Given(body) /\ Given(Contents) /\ Len(Contents) \in Nat
      /\ DOMAIN Contents = 1..Len(Contents) /\ Looked = DOMAIN Contents /\ ErrorsInv
      /\ index \in DOMAIN Contents
  BY DEF ChecksInv, Named, Looked, Valid
<1>2. \A i \in DOMAIN Contents : WellFormed(Contents[i])
  BY <1>1 DEF ErrorsInv, Valid
<1>3. d \in DOMAIN Contents
  BY <1>1 DEF FollowedInv
<1>4. Doc = Contents[d] /\ ValidateDocument(Doc) = {}
  BY <1>2, <1>3 DEF Doc, Contents, WellFormed
<1>5. Given(Doc)
  BY <1>4 DEF ValidateDocument
<1>6. ItemsErrors(Doc.lineItems) = {}
  BY <1>4, <1>5 DEF ValidateDocument
<1>7. Given(Doc.lineItems) /\ Doc.lineItems # <<>>
  BY <1>6 DEF ItemsErrors, Given
<1>8. Lines = Doc.lineItems
  BY <1>1, <1>3, <1>5, <1>7 DEF Lines, Contents
<1>9. Len(Lines) \in Nat /\ Lines = [i \in 1..Len(Lines) |-> Lines[i]]
  <2>1. /\ body \in Bodies /\ ~IsNone(body) /\ ~IsNone(body.documents)
        /\ d \in DOMAIN body.documents /\ Doc = body.documents[d]
        /\ ~IsNone(Doc) /\ ~IsNone(Doc.lineItems)
    BY <1>1, <1>3, <1>5, <1>7 DEF Given, IsNone, Contents, Doc
  <2>2. IsDocument(Doc)
    BY <2>1, BodiesAssumption
  <2>3. IsArray(Doc.lineItems)
    BY <2>1, <2>2 DEF IsDocument, IsItems
  <2> QED BY <1>8, <2>3 DEF IsArray
<1>10. DOMAIN Lines = 1..Len(Lines)
  BY <1>9
<1>11. ~(DocumentTotal(Lines) > LIMITS.documentTotalMax)
  BY <1>6, <1>7, <1>8 DEF ItemsErrors, Given
<1>12. ASSUME NEW i \in DOMAIN Lines PROVE LineErrors(Lines[i]) = {}
  <2>1. UNION {{<<"lineItems", k, e>> : e \in LineErrors(Lines[k])} : k \in DOMAIN Lines} = {}
    BY <1>6, <1>7, <1>8 DEF ItemsErrors, Given
  <2>2. {<<"lineItems", i, e>> : e \in LineErrors(Lines[i])} = {}
    BY <2>1
  <2> QED BY <2>2
<1>13. ASSUME NEW i \in DOMAIN Lines
       PROVE  Priced(Lines[i]) /\ ~(Amount(Lines[i]) > LIMITS.lineAmountMax)
  <2>1. Given(Lines[i])
    BY <1>12 DEF LineErrors
  <2>2. "quantity" \notin LineErrors(Lines[i]) /\ "unitPrice" \notin LineErrors(Lines[i])
        /\ "amount" \notin LineErrors(Lines[i])
    BY <1>12
  <2> QED BY <2>1, <2>2 DEF LineErrors, Priced
<1>14. {i \in DOMAIN Lines : Priced(Lines[i])} = DOMAIN Lines
  BY <1>13
<1>15. DocumentTotal(Lines) = TotalOf(Lines, DOMAIN Lines)
  BY <1>14 DEF DocumentTotal
<1> QED BY <1>7, <1>8, <1>10, <1>11, <1>13, <1>15

(* template.js:125-126: no amount or total that is printed, by either        *)
(* strategy and in any chunk, is above what its column holds.               *)
THEOREM ColumnsAreWideEnough == DocumentsSpec => []ColumnsHold
<1>1. DocumentsSpec => []FollowedInv
  BY FollowedInit, FollowedStep, PTL DEF DocumentsSpec
<1>2. RenderInv /\ ChecksInv /\ FollowedInv => ColumnsHold
  <2> SUFFICES ASSUME RenderInv, ChecksInv, FollowedInv, NEW p \in DOMAIN pdf
               PROVE  /\ \A i \in DOMAIN pdf[p].rows :
                           ~(Amount(Lines[pdf[p].rows[i].item]) > LIMITS.lineAmountMax)
                      /\ pdf[p].total # {} => ~(TotalOf(Lines, pdf[p].total) > LIMITS.documentTotalMax)
    BY DEF ColumnsHold
  <2>1. /\ pc # "select" /\ pdf[p].total \in {{}, All}
        /\ \A i \in DOMAIN pdf[p].rows : pdf[p].rows[i].item \in All
    BY PrintedPages
  <2>2. /\ Lines # <<>> /\ DOMAIN Lines = 1..Len(Lines)
        /\ \A i \in DOMAIN Lines : ~(Amount(Lines[i]) > LIMITS.lineAmountMax)
        /\ ~(TotalOf(Lines, DOMAIN Lines) > LIMITS.documentTotalMax)
    BY <2>1, AmountsFit DEF FollowedInv
  <2>3. All = DOMAIN Lines
    BY <2>2 DEF All, FollowedInv
  <2> QED BY <2>1, <2>2, <2>3
<1> QED BY <1>1, <1>2, RenderInvariance, DocumentsRender, ChecksInvariance, PTL

-----------------------------------------------------------------------------
(* Sums.                                                                   *)

\* A sum over a set takes an element out, and adds it to the sum of the rest.
SumOf(a, S)    == MapThenSumSet(LAMBDA i : a[i], S)
Taken(s)       == CHOOSE x \in s : TRUE
OneMoreTerm(g, a, s) == IF s = {} THEN 0 ELSE a[Taken(s)] + g[s \ {Taken(s)}]
Adds(g, a, S)  == g = [s \in SUBSET S |-> OneMoreTerm(g, a, s)]

LEMMA SumIsAdded == ASSUME NEW a, NEW S PROVE SumOf(a, S) = (CHOOSE g : Adds(g, a, S))[S]
BY DEF SumOf, MapThenSumSet, MapThenFoldSet, Adds, OneMoreTerm, Taken

LEMMA LeastOf ==
  ASSUME NEW T \in SUBSET Nat, T # {}
  PROVE  \E x \in T : \A y \in T : ~(y < x)
<1>1. IsWellFoundedOn(OpToRel(<, Nat), Nat)
  BY NatLessThanWellFounded
<1>2. \E x \in T : \A y \in T : ~(<<y, x>> \in OpToRel(<, Nat))
  BY <1>1, WFMin
<1>3. \A x, y \in T : y < x => <<y, x>> \in OpToRel(<, Nat)
  BY DEF OpToRel
<1> QED BY <1>2, <1>3

LEMMA TakenOut ==
  ASSUME NEW S, IsFiniteSet(S), NEW s \in SUBSET S
  PROVE  /\ IsFiniteSet(s) /\ Cardinality(s) \in Nat
         /\ s = {} <=> Cardinality(s) = 0
         /\ s # {} => /\ Taken(s) \in s /\ s \ {Taken(s)} \in SUBSET S
                      /\ Cardinality(s \ {Taken(s)}) = Cardinality(s) - 1
<1>1. IsFiniteSet(s) /\ Cardinality(s) \in Nat /\ (s = {} <=> Cardinality(s) = 0)
  BY FS_Subset, FS_CardinalityType, FS_EmptySet
<1>2. s # {} => Taken(s) \in s
  BY DEF Taken
<1>3. ASSUME s # {} PROVE Cardinality(s \ {Taken(s)}) = Cardinality(s) - 1
  BY <1>1, <1>2, <1>3, FS_RemoveElement
<1> QED BY <1>1, <1>2, <1>3

(* There is a function that adds up every subset: one for the subsets of up  *)
(* to n elements, for every n.                                              *)
LEMMA AddsExists ==
  ASSUME NEW S, IsFiniteSet(S), NEW a
  PROVE  \E g : Adds(g, a, S)
<1> DEFINE Upto2(g, n) == /\ g = [s \in SUBSET S |-> g[s]]
                          /\ \A s \in SUBSET S : Cardinality(s) <= n => g[s] = OneMoreTerm(g, a, s)
           None == {n \in Nat : ~\E g : Upto2(g, n)}
<1>1. None = {}
  <2> SUFFICES ASSUME None # {} PROVE FALSE
    OBVIOUS
  <2>1. PICK n \in None : \A m \in None : ~(m < n)
    <3>1. None \in SUBSET Nat
      OBVIOUS
    <3> HIDE DEF None
    <3> QED BY <3>1, LeastOf
  <2>2. n \in Nat /\ ~\E g : Upto2(g, n)
    BY <2>1
  <2>3. n # 0
    <3> SUFFICES ASSUME n = 0 PROVE FALSE
      OBVIOUS
    <3> DEFINE g == [s \in SUBSET S |-> 0]
    <3>1. ASSUME NEW s \in SUBSET S, Cardinality(s) <= 0 PROVE s = {}
      <4>1. Cardinality(s) \in Nat /\ (s = {} <=> Cardinality(s) = 0)
        BY TakenOut
      <4> QED BY <3>1, <4>1
    <3>2. Upto2(g, 0)
      BY <3>1 DEF OneMoreTerm
    <3> QED BY <2>2, <3>2
  <2>4. PICK g : Upto2(g, n - 1)
    <3>1. n - 1 \in Nat /\ n - 1 < n
      BY <2>2, <2>3
    <3> QED BY <2>1, <3>1
  <2> DEFINE h == [s \in SUBSET S |-> OneMoreTerm(g, a, s)]
  <2>5. \A s \in SUBSET S : Cardinality(s) <= n - 1 => h[s] = g[s]
    BY <2>4
  <2>6. ASSUME NEW s \in SUBSET S, Cardinality(s) <= n PROVE h[s] = OneMoreTerm(h, a, s)
    <3>1. h[s] = OneMoreTerm(g, a, s)
      OBVIOUS
    <3>2. CASE s = {}
      BY <3>1, <3>2 DEF OneMoreTerm
    <3>3. CASE s # {}
      <4>1. s \ {Taken(s)} \in SUBSET S /\ Cardinality(s \ {Taken(s)}) <= n - 1
        BY <2>2, <2>6, <3>3, TakenOut
      <4>2. h[s \ {Taken(s)}] = g[s \ {Taken(s)}]
        BY <2>5, <4>1
      <4> HIDE DEF h
      <4> QED BY <3>1, <4>2 DEF OneMoreTerm
    <3> QED BY <3>2, <3>3
  <2>7. h = [s \in SUBSET S |-> h[s]]
    OBVIOUS
  <2> HIDE DEF h
  <2>8. Upto2(h, n)
    BY <2>6, <2>7
  <2> QED BY <2>2, <2>8
<1>2. Cardinality(S) \in Nat
  BY FS_CardinalityType
<1>3. PICK g : Upto2(g, Cardinality(S))
  BY <1>1, <1>2
<1>4. \A s \in SUBSET S : Cardinality(s) <= Cardinality(S)
  BY FS_Subset
<1>5. \A s \in SUBSET S : g[s] = OneMoreTerm(g, a, s)
  BY <1>3, <1>4
<1> QED BY <1>3, <1>5 DEF Adds

(* A sum of natural numbers is one, and is positive if one of them is.       *)
LEMMA SumOfNats ==
  ASSUME NEW S, IsFiniteSet(S), NEW a, \A i \in S : a[i] \in Nat
  PROVE  /\ SumOf(a, S) \in Nat
         /\ (\E i \in S : a[i] > 0) => SumOf(a, S) > 0
<1> DEFINE g == CHOOSE g : Adds(g, a, S)
           Right(s) == g[s] \in Nat /\ ((\E i \in s : a[i] > 0) => g[s] > 0)
           Wrong == {n \in Nat : \E s \in SUBSET S : Cardinality(s) = n /\ ~Right(s)}
<1>1. Adds(g, a, S)
  BY AddsExists
<1>2. SumOf(a, S) = g[S]
  BY SumIsAdded
<1> HIDE DEF g
<1>3. \A s \in SUBSET S : g[s] = OneMoreTerm(g, a, s)
  BY <1>1 DEF Adds
<1>4. Wrong = {}
  <2> SUFFICES ASSUME Wrong # {} PROVE FALSE
    OBVIOUS
  <2>1. PICK n \in Wrong : \A m \in Wrong : ~(m < n)
    <3>1. Wrong \in SUBSET Nat
      OBVIOUS
    <3> HIDE DEF Wrong
    <3> QED BY <3>1, LeastOf
  <2>2. PICK s \in SUBSET S : Cardinality(s) = n /\ ~Right(s)
    BY <2>1
  <2>3. s # {}
    BY <1>3, <2>2 DEF OneMoreTerm
  <2> DEFINE x == Taken(s)
             r == s \ {x}
  <2>4. x \in s /\ r \in SUBSET S /\ Cardinality(r) = n - 1 /\ n - 1 \in Nat /\ n - 1 < n
    BY <2>1, <2>2, <2>3, TakenOut
  <2>5. Right(r)
    <3>1. n - 1 \notin Wrong
      BY <2>1, <2>4
    <3> QED BY <2>4, <3>1
  <2>6. g[s] = a[x] + g[r] /\ a[x] \in Nat
    BY <1>3, <2>3, <2>4 DEF OneMoreTerm
  <2>7. \A i \in s : i = x \/ i \in r
    OBVIOUS
  <2> HIDE DEF x, r
  <2>8. g[s] \in Nat
    BY <2>5, <2>6
  <2>9. ASSUME NEW i \in s, a[i] > 0 PROVE g[s] > 0
    <3>1. CASE i = x
      BY <2>5, <2>6, <2>9, <3>1
    <3>2. CASE i \in r
      BY <2>5, <2>6, <2>9, <3>2
    <3> QED BY <2>7, <3>1, <3>2
  <2> QED BY <2>2, <2>8, <2>9
<1>5. Right(S)
  <2>1. Cardinality(S) \in Nat /\ S \in SUBSET S
    BY FS_CardinalityType
  <2> QED BY <1>4, <2>1
<1> QED BY <1>2, <1>5

(* The sums of the validation and of the contract are these.                 *)
LEMMA AddressSum == ASSUME NEW a PROVE AddressLength(a) = SumOf(a, DOMAIN a) + Len(a) - 1
BY DEF AddressLength, SumOf

LEMMA FoldIsSum == ASSUME NEW a PROVE FoldSeq(+, 0, a) = SumOf(a, DOMAIN a)
BY DEF SumOf, MapThenSumSet, MapThenFoldSet, FoldSeq, FoldFunction, FoldFunctionOnSet

LEMMA TotalIsFold ==
  ASSUME NEW items
  PROVE  FoldSeq(LAMBDA li, sum : li.quantity * li.unitPrice + sum, 0, items)
           = TotalOf(items, DOMAIN items)
BY DEF TotalOf, Amount, MapThenSumSet, MapThenFoldSet, FoldSeq, FoldFunction, FoldFunctionOnSet

LEMMA TotalIsSum ==
  ASSUME NEW items, NEW S
  PROVE  TotalOf(items, S) = SumOf([i \in S |-> Amount(items[i])], S)
<1> DEFINE a == [i \in S |-> Amount(items[i])]
           Add(g, s) == IF s = {} THEN 0 ELSE Amount(items[Taken(s)]) + g[s \ {Taken(s)}]
<1>1. TotalOf(items, S) = (CHOOSE g : g = [s \in SUBSET S |-> Add(g, s)])[S]
  BY DEF TotalOf, MapThenSumSet, MapThenFoldSet, Taken
<1>2. ASSUME NEW g, NEW s \in SUBSET S PROVE Add(g, s) = OneMoreTerm(g, a, s)
  <2>1. s # {} => Taken(s) \in S
    BY DEF Taken
  <2> QED BY <2>1 DEF OneMoreTerm
<1> HIDE DEF Add, a
<1>3. \A g : [s \in SUBSET S |-> Add(g, s)] = [s \in SUBSET S |-> OneMoreTerm(g, a, s)]
  BY <1>2
<1>4. SumOf(a, S) = (CHOOSE g : g = [s \in SUBSET S |-> OneMoreTerm(g, a, s)])[S]
  BY SumIsAdded DEF Adds
<1>5. SumOf(a, S) = (CHOOSE g : g = [s \in SUBSET S |-> Add(g, s)])[S]
  BY <1>3, <1>4
<1> QED BY <1>1, <1>5 DEF a

(* The total of priced lines is a number.                                    *)
LEMMA TotalIsNat ==
  ASSUME NEW items, IsItems(items), ~IsNone(items), NEW S \in SUBSET DOMAIN items,
         \A i \in S : Priced(items[i])
  PROVE  TotalOf(items, S) \in Nat
<1> DEFINE a == [i \in S |-> Amount(items[i])]
<1>1. IsFiniteSet(S)
  <2>1. Len(items) \in Nat /\ DOMAIN items = 1..Len(items)
    BY DEF IsItems, IsArray
  <2>2. IsFiniteSet(1..Len(items))
    BY <2>1, FS_Interval
  <2> QED BY <2>1, <2>2, FS_Subset
<1>2. ASSUME NEW i \in S PROVE a[i] \in Nat
  <2>1. /\ items[i].quantity \in Int /\ items[i].unitPrice \in Int
        /\ items[i].quantity > 0 /\ items[i].unitPrice >= 0
    BY DEF IsItems, IsItem, IsNumber, IsNone, Priced, QtyOk, PriceOk, Given
  <2>2. items[i].quantity * items[i].unitPrice \in Nat
    BY <2>1
  <2> QED BY <2>2 DEF Amount
<1> HIDE DEF a
<1>3. SumOf(a, S) \in Nat
  BY <1>1, <1>2, SumOfNats
<1> QED BY <1>3, TotalIsSum DEF a

-----------------------------------------------------------------------------
(* The contract.                                                           *)

LEMMA TextContract ==
  ASSUME NEW v, IsText(v), NEW max \in Nat, NEW field
  PROVE  TextErrors(v, field, max) = {} <=> Short(v, max)
<1>1. CASE NonEmpty(v)
  <2>1. v \in Nat /\ v > 0 /\ v \notin {Undefined, Other}
    BY <1>1 DEF NonEmpty, Given, IsText, IsNone
  <2>2. TextErrors(v, field, max) = {} <=> ~(v > max)
    BY <1>1 DEF TextErrors
  <2> QED BY <2>1, <2>2 DEF Short
<1>2. CASE ~NonEmpty(v)
  <2>1. TextErrors(v, field, max) # {}
    BY <1>2 DEF TextErrors
  <2>2. ~Short(v, max)
    BY <1>2 DEF Short, NonEmpty, Given
  <2> QED BY <2>1, <2>2
<1> QED BY <1>1, <1>2

LEMMA AddressContract ==
  ASSUME NEW a, IsLines(a), NEW field
  PROVE  AddressErrors(a, field) = {} <=>
           /\ a # Other
           /\ a # Undefined => /\ Len(a) <= LIMITS.partyAddressLines
                               /\ Len(a) - 1 + SumOf(a, DOMAIN a) \in 1..LIMITS.partyAddress
                               /\ \E i \in DOMAIN a : a[i] > 0
<1>1. CASE a = Undefined
  BY <1>1, ValuesAssumption DEF AddressErrors
<1>2. CASE a = Other
  BY <1>2, ValuesAssumption DEF AddressErrors
<1>3. CASE a \notin {Undefined, Other}
  <2>1. Len(a) \in Nat /\ DOMAIN a = 1..Len(a) /\ \A i \in DOMAIN a : a[i] \in Nat
    BY <1>3 DEF IsLines, IsArray, IsNone
  <2>2. /\ SumOf(a, DOMAIN a) \in Nat
        /\ (\E i \in DOMAIN a : a[i] > 0) => SumOf(a, DOMAIN a) > 0
    <3>1. IsFiniteSet(DOMAIN a)
      BY <2>1, FS_Interval
    <3> QED BY <2>1, <3>1, SumOfNats
  <2>3. AddressLength(a) = SumOf(a, DOMAIN a) + Len(a) - 1
    BY AddressSum
  <2>4. LIMITS.partyAddress \in Nat /\ LIMITS.partyAddressLines \in Nat
    BY LimitsAssumption
  <2>5. CASE \A i \in DOMAIN a : a[i] = 0
    <3>1. AddressErrors(a, field) # {}
      BY <1>3, <2>5 DEF AddressErrors
    <3>2. ~\E i \in DOMAIN a : a[i] > 0
      BY <2>5
    <3> QED BY <1>3, <3>1, <3>2
  <2>6. CASE \E i \in DOMAIN a : a[i] # 0
    <3>1. \E i \in DOMAIN a : a[i] > 0
      BY <2>1, <2>6
    <3>2. Len(a) >= 1
      BY <2>1, <2>6
    <3>3. AddressErrors(a, field) = {} <=> /\ ~(AddressLength(a) > LIMITS.partyAddress)
                                           /\ ~(Len(a) > LIMITS.partyAddressLines)
      BY <1>3, <2>6 DEF AddressErrors
    <3>4. /\ (~(AddressLength(a) > LIMITS.partyAddress)
               <=> Len(a) - 1 + SumOf(a, DOMAIN a) \in 1..LIMITS.partyAddress)
          /\ (~(Len(a) > LIMITS.partyAddressLines) <=> Len(a) <= LIMITS.partyAddressLines)
      <4> DEFINE t == SumOf(a, DOMAIN a)
                 n == Len(a)
      <4>1. t \in Nat /\ t > 0 /\ n \in Nat /\ n >= 1 /\ AddressLength(a) = t + n - 1
        BY <2>1, <2>2, <2>3, <3>1, <3>2
      <4> HIDE DEF t, n
      <4>2. /\ (~(AddressLength(a) > LIMITS.partyAddress) <=> n - 1 + t \in 1..LIMITS.partyAddress)
            /\ (~(n > LIMITS.partyAddressLines) <=> n <= LIMITS.partyAddressLines)
        BY <2>4, <4>1
      <4> QED BY <4>2 DEF t, n
    <3> QED BY <1>3, <3>1, <3>3, <3>4
  <2> QED BY <2>5, <2>6
<1> QED BY <1>1, <1>2, <1>3

LEMMA PartyContract ==
  ASSUME NEW party, IsParty(party), NEW field, NEW required \in BOOLEAN
  PROVE  PartyErrors(party, field, required) = {} <=>
           IF party = Undefined THEN ~required ELSE AcceptableParty(party)
<1>1. CASE party = Undefined
  BY <1>1 DEF PartyErrors
<1>2. CASE party # Undefined /\ party = Other
  BY <1>2 DEF PartyErrors, AcceptableParty
<1>3. CASE party \notin {Undefined, Other}
  <2>1. IsText(party.name) /\ IsLines(party.address)
    BY <1>3 DEF IsParty, IsNone
  <2>2. LIMITS.partyName \in Nat
    BY LimitsAssumption
  <2>3. PartyErrors(party, field, required) = {} <=>
          /\ TextErrors(party.name, field, LIMITS.partyName) = {}
          /\ AddressErrors(party.address, field) = {}
    BY <1>3 DEF PartyErrors
  <2>4. TextErrors(party.name, field, LIMITS.partyName) = {} <=> Short(party.name, LIMITS.partyName)
    BY <2>1, <2>2, TextContract
  <2>5. AddressErrors(party.address, field) = {} <=>
          /\ party.address # Other
          /\ party.address # Undefined =>
               /\ Len(party.address) <= LIMITS.partyAddressLines
               /\ Len(party.address) - 1 + SumOf(party.address, DOMAIN party.address)
                    \in 1..LIMITS.partyAddress
               /\ \E i \in DOMAIN party.address : party.address[i] > 0
    BY <2>1, AddressContract
  <2>6. FoldSeq(+, 0, party.address) = SumOf(party.address, DOMAIN party.address)
    BY FoldIsSum
  <2> QED BY <1>3, <2>3, <2>4, <2>5, <2>6 DEF AcceptableParty
<1> QED BY <1>1, <1>2, <1>3

LEMMA LineContract ==
  ASSUME NEW li, IsItem(li)
  PROVE  LineErrors(li) = {} <=> AcceptableLine(li)
<1>1. CASE ~Given(li)
  BY <1>1 DEF LineErrors, AcceptableLine, Given
<1>2. CASE Given(li)
  <2>1. IsText(li.description) /\ IsNumber(li.quantity) /\ IsNumber(li.unitPrice)
    BY <1>2 DEF Given, IsItem, IsNone
  <2>2. /\ LIMITS.description \in Nat /\ LIMITS.quantityMax \in Nat /\ LIMITS.unitPriceMax \in Nat
        /\ LIMITS.lineAmountMax \in Nat
    BY LimitsAssumption
  <2>3. LineErrors(li) = {} <=>
          /\ TextErrors(li.description, "description", LIMITS.description) = {}
          /\ QtyOk(li) /\ PriceOk(li) /\ ~(Amount(li) > LIMITS.lineAmountMax)
    BY <1>2 DEF LineErrors, Priced
  <2>4. TextErrors(li.description, "description", LIMITS.description) = {}
          <=> Short(li.description, LIMITS.description)
    BY <2>1, <2>2, TextContract
  <2>5. QtyOk(li) <=> Within(li.quantity, LIMITS.quantityMax) /\ li.quantity > 0
    BY DEF QtyOk, Within, Given
  <2>6. PriceOk(li) <=> Within(li.unitPrice, LIMITS.unitPriceMax) /\ li.unitPrice >= 0
    BY DEF PriceOk, Within, Given
  <2>7. ASSUME QtyOk(li), PriceOk(li)
        PROVE  ~(Amount(li) > LIMITS.lineAmountMax) <=> li.quantity * li.unitPrice <= LIMITS.lineAmountMax
    <3>1. li.quantity \in Int /\ li.unitPrice \in Int
      BY <2>1, <2>7 DEF QtyOk, PriceOk, Given, IsNumber, IsNone
    <3>2. li.quantity * li.unitPrice \in Int
      BY <3>1
    <3> QED BY <2>2, <3>2 DEF Amount
  <2> QED BY <1>2, <2>3, <2>4, <2>5, <2>6, <2>7 DEF AcceptableLine, Given
<1> QED BY <1>1, <1>2

LEMMA ItemsContract ==
  ASSUME NEW items, IsItems(items)
  PROVE  ItemsErrors(items) = {} <=>
           /\ items \notin {Undefined, Other, <<>>}
           /\ \A i \in DOMAIN items : AcceptableLine(items[i])
           /\ FoldSeq(LAMBDA li, sum : li.quantity * li.unitPrice + sum, 0, items)
                <= LIMITS.documentTotalMax
<1>1. CASE items \in {Undefined, Other} \/ items = <<>>
  BY <1>1 DEF ItemsErrors
<1>2. CASE items \notin {Undefined, Other, <<>>}
  <2> DEFINE lines == UNION {{<<"lineItems", i, e>> : e \in LineErrors(items[i])} : i \in DOMAIN items}
             total == IF DocumentTotal(items) > LIMITS.documentTotalMax THEN {<<"total", "max">>} ELSE {}
  <2>1. ItemsErrors(items) = lines \union total
    BY <1>2 DEF ItemsErrors
  <2>2. total = {} <=> ~(DocumentTotal(items) > LIMITS.documentTotalMax)
    OBVIOUS
  <2>3. \A i \in DOMAIN items : IsItem(items[i])
    BY <1>2 DEF IsItems, IsNone
  <2>4. lines = {} <=> \A i \in DOMAIN items : LineErrors(items[i]) = {}
    <3>1. ASSUME lines = {}, NEW i \in DOMAIN items PROVE LineErrors(items[i]) = {}
      <4>1. {<<"lineItems", i, e>> : e \in LineErrors(items[i])} = {}
        BY <3>1
      <4> QED BY <4>1
    <3>2. (\A i \in DOMAIN items : LineErrors(items[i]) = {}) => lines = {}
      OBVIOUS
    <3> HIDE DEF lines
    <3> QED BY <3>1, <3>2
  <2> HIDE DEF lines, total
  <2>5. lines = {} <=> \A i \in DOMAIN items : AcceptableLine(items[i])
    BY <2>3, <2>4, LineContract
  <2>6. ASSUME \A i \in DOMAIN items : AcceptableLine(items[i])
        PROVE  ~(DocumentTotal(items) > LIMITS.documentTotalMax)
                 <=> TotalOf(items, DOMAIN items) <= LIMITS.documentTotalMax
    <3>1. \A i \in DOMAIN items : Priced(items[i])
      BY <2>6 DEF AcceptableLine, Within, Priced, QtyOk, PriceOk, Given
    <3>2. DocumentTotal(items) = TotalOf(items, DOMAIN items)
      <4>1. {i \in DOMAIN items : Priced(items[i])} = DOMAIN items
        BY <3>1
      <4> QED BY <4>1 DEF DocumentTotal
    <3>3. TotalOf(items, DOMAIN items) \in Nat
      BY <1>2, <3>1, TotalIsNat DEF IsNone
    <3>4. LIMITS.documentTotalMax \in Nat
      BY LimitsAssumption
    <3> QED BY <3>2, <3>3, <3>4
  <2> QED BY <1>2, <2>1, <2>2, <2>5, <2>6, TotalIsFold
<1> QED BY <1>1, <1>2

(* A document is found right exactly when it keeps to the contract.          *)
LEMMA DocumentContract ==
  ASSUME NEW doc, IsDocument(doc)
  PROVE  WellFormed(doc) <=> Acceptable(doc)
<1>1. CASE ~Given(doc)
  BY <1>1 DEF WellFormed, ValidateDocument, Acceptable, Given
<1>2. CASE Given(doc)
  <2>1. /\ IsNone(doc.documentId) \/ doc.documentId.length \in Nat
        /\ IsText(doc.poNumber) /\ IsParty(doc.vendor) /\ IsParty(doc.buyer)
        /\ IsItems(doc.lineItems)
    BY <1>2 DEF IsDocument, IsNone, Given
  <2>2. LIMITS.documentId \in Nat /\ LIMITS.poNumber \in Nat
    BY LimitsAssumption
  <2> DEFINE id == doc.documentId
  <2>3. TextErrors(IdLength(id), "documentId", LIMITS.documentId) = {}
          <=> id \notin {Undefined, Other} /\ Short(id.length, LIMITS.documentId)
    <3>1. CASE Given(id)
      <4>1. IdLength(id) = id.length /\ IsText(id.length)
        BY <2>1, <3>1 DEF IdLength, IsText, IsNone, Given
      <4> QED BY <2>2, <3>1, <4>1, TextContract DEF Given
    <3>2. CASE ~Given(id)
      BY <3>2 DEF IdLength, TextErrors, NonEmpty, Given
    <3> QED BY <3>1, <3>2
  <2>4. TextErrors(doc.poNumber, "poNumber", LIMITS.poNumber) = {} <=> Short(doc.poNumber, LIMITS.poNumber)
    BY <2>1, <2>2, TextContract
  <2>5. PartyErrors(doc.vendor, "vendor", TRUE) = {}
          <=> doc.vendor # Undefined /\ AcceptableParty(doc.vendor)
    BY <2>1, PartyContract
  <2>6. PartyErrors(doc.buyer, "buyer", FALSE) = {}
          <=> (doc.buyer # Undefined => AcceptableParty(doc.buyer))
    BY <2>1, PartyContract
  <2>7. ItemsErrors(doc.lineItems) = {} <=>
          /\ doc.lineItems \notin {Undefined, Other, <<>>}
          /\ \A i \in DOMAIN doc.lineItems : AcceptableLine(doc.lineItems[i])
          /\ FoldSeq(LAMBDA li, sum : li.quantity * li.unitPrice + sum, 0, doc.lineItems)
               <= LIMITS.documentTotalMax
    BY <2>1, ItemsContract
  <2>10. CurrencyErrors(doc.currency) = {} <=> doc.currency \in Codes \union {Undefined, ListedCode}
    BY DEF CurrencyErrors, HasCodeText
  <2>8. WellFormed(doc) <=>
          /\ doc.type \in {Undefined, "purchase_order"} /\ CurrencyErrors(doc.currency) = {}
          /\ TextErrors(IdLength(doc.documentId), "documentId", LIMITS.documentId) = {}
          /\ TextErrors(doc.poNumber, "poNumber", LIMITS.poNumber) = {}
          /\ PartyErrors(doc.vendor, "vendor", TRUE) = {}
          /\ PartyErrors(doc.buyer, "buyer", FALSE) = {}
          /\ ItemsErrors(doc.lineItems) = {}
    BY <1>2 DEF WellFormed, ValidateDocument
  <2>9. doc \notin {Undefined, Other}
    BY <1>2 DEF Given
  <2> QED BY <2>3, <2>4, <2>5, <2>6, <2>7, <2>8, <2>9, <2>10 DEF Acceptable
<1> QED BY <1>1, <1>2

(* An acceptable document has an id.                                         *)
LEMMA AcceptableId ==
  ASSUME NEW doc, Acceptable(doc)
  PROVE  DocId(doc) = {doc.documentId}
<1>1. /\ doc \notin {Undefined, Other} /\ doc.documentId \notin {Undefined, Other}
      /\ Short(doc.documentId.length, LIMITS.documentId)
  BY DEF Acceptable
<1>2. /\ IdLength(doc.documentId) = doc.documentId.length
      /\ doc.documentId.length \notin {Undefined, Other}
      /\ doc.documentId.length \in 1..LIMITS.documentId
  BY <1>1 DEF Short, IdLength, Given
<1>3. NonEmpty(IdLength(doc.documentId))
  BY <1>2, LimitsAssumption DEF NonEmpty, Given
<1> QED BY <1>1, <1>3 DEF DocId, Given

\* The request itself has been judged before its documents are.
TopInv == at # "request" => topErrors = TopErrors

(* TopInv holds throughout.                                                 *)
THEOREM TopInvariance == DocumentsSpec => []TopInv
<1>1. DocumentsInit => TopInv
  BY DEF DocumentsInit, ValidationInit, TopInv
<1>2. TopInv /\ [DocumentsNext]_documentsVars => TopInv'
  <2> SUFFICES ASSUME TopInv, [DocumentsNext]_documentsVars PROVE TopInv'
    OBVIOUS
  <2>1. body' = body
    BY DEF DocumentsNext, documentsVars, validationVars, ValidationNext, CheckRequest, CheckDocument
  <2>2. TopErrors' = TopErrors
    BY <2>1 DEF TopErrors, Given, NonEmpty
  <2>3. CASE CheckRequest
    BY <2>2, <2>3 DEF CheckRequest, TopInv
  <2>4. CASE CheckDocument
    BY <2>2, <2>4 DEF CheckDocument, TopInv
  <2>5. CASE UNCHANGED validationVars
    BY <2>2, <2>5 DEF validationVars, TopInv
  <2> QED BY <2>3, <2>4, <2>5 DEF DocumentsNext, documentsVars, ValidationNext
<1> QED BY <1>1, <1>2, PTL DEF DocumentsSpec

(* api.md:45-59: a job is accepted exactly when there are 1 to MAX documents,*)
(* every one keeps to the field limits, and no two share a documentId.       *)
THEOREM ContractIsDecided == DocumentsSpec => []ContractDecides
<1>1. ChecksInv /\ TopInv => ContractDecides
  <2> SUFFICES ASSUME ChecksInv, TopInv, at = "checked"
               PROVE  Valid <=>
                        /\ Given(body) /\ Given(Contents)
                        /\ body.idempotencyKey = Undefined \/ NonEmpty(body.idempotencyKey)
                        /\ Len(Contents) \in 1..MAX_BULK_DOCUMENTS
                        /\ \A i \in DOMAIN Contents : Acceptable(Contents[i])
                        /\ \A i, j \in DOMAIN Contents :
                             Contents[i].documentId = Contents[j].documentId => i = j
    BY DEF ContractDecides
  <2>1. topErrors = TopErrors /\ body \in Bodies
    BY DEF TopInv, ChecksInv
  <2>2. ASSUME Given(body), Given(Contents)
        PROVE  Len(Contents) \in Nat /\ (Contents # <<>> => Len(Contents) # 0)
    <3>1. IsArray(Contents)
      BY <2>1, <2>2, BodiesAssumption DEF IsNone, Given, Contents
    <3>2. ASSUME Len(Contents) = 0 PROVE Contents = <<>>
      <4>1. Contents = [i \in {} |-> Contents[i]]
        BY <3>1, <3>2 DEF IsArray
      <4> QED BY <4>1
    <3> QED BY <3>1, <3>2 DEF IsArray
  <2>3. topErrors = {} <=>
          /\ Given(body) /\ Given(Contents)
          /\ body.idempotencyKey = Undefined \/ NonEmpty(body.idempotencyKey)
          /\ Len(Contents) \in 1..MAX_BULK_DOCUMENTS
    <3>1. CASE ~Given(body)
      BY <2>1, <3>1 DEF TopErrors
    <3>2. CASE Given(body)
      <4>1. TopErrors = {} <=>
              /\ Given(Contents)
              /\ body.idempotencyKey = Undefined \/ NonEmpty(body.idempotencyKey)
              /\ Contents # <<>>
              /\ ~(Len(Contents) > MAX_BULK_DOCUMENTS)
        BY <3>2 DEF TopErrors, Contents
      <4>2. Contents = <<>> => Len(Contents) = 0
        OBVIOUS
      <4> QED BY <2>1, <2>2, <3>2, <4>1, <4>2, LimitsAssumption
    <3> QED BY <3>1, <3>2
  <2>4. ASSUME topErrors = {}
        PROVE  DOMAIN documentErrors = {} <=>
                 /\ \A i \in DOMAIN Contents : Acceptable(Contents[i])
                 /\ \A i, j \in DOMAIN Contents :
                      Contents[i].documentId = Contents[j].documentId => i = j
    <3>1. /\ Given(body) /\ Given(Contents) /\ Len(Contents) \in Nat
          /\ DOMAIN Contents = 1..Len(Contents) /\ Looked = DOMAIN Contents /\ ErrorsInv
      BY <2>4 DEF ChecksInv, Named, Looked
    <3>2. \A i \in DOMAIN Contents : WellFormed(Contents[i]) <=> Acceptable(Contents[i])
      <4>1. \A i \in DOMAIN Contents : IsDocument(Contents[i])
        BY <2>1, <3>1, BodiesAssumption DEF IsNone, Given, Contents
      <4> QED BY <4>1, DocumentContract
    <3>3. DOMAIN documentErrors = {} <=>
            /\ \A i \in DOMAIN Contents : Acceptable(Contents[i])
            /\ \A i \in DOMAIN Contents : ~Repeats(i)
      BY <3>1, <3>2 DEF ErrorsInv, Firsts, Repeats
    <3>4. ASSUME \A i \in DOMAIN Contents : Acceptable(Contents[i])
          PROVE  (\A i \in DOMAIN Contents : ~Repeats(i)) <=>
                   \A i, j \in DOMAIN Contents :
                     Contents[i].documentId = Contents[j].documentId => i = j
      <4>1. ASSUME NEW i \in DOMAIN Contents PROVE DocId(Contents[i]) = {Contents[i].documentId}
        BY <3>4, AcceptableId
      <4>2. ASSUME NEW i \in DOMAIN Contents, NEW j \in DOMAIN Contents
            PROVE  Same(i, j) <=> Contents[i].documentId = Contents[j].documentId
        BY <4>1 DEF Same
      <4>3. \A i \in DOMAIN Contents : \A j \in 1..(i - 1) : j \in DOMAIN Contents /\ j # i
        BY <3>1
      <4>4. \A i, j \in DOMAIN Contents : i = j \/ j \in 1..(i - 1) \/ i \in 1..(j - 1)
        BY <3>1
      <4> QED BY <4>2, <4>3, <4>4 DEF Repeats
    <3> QED BY <3>3, <3>4
  <2> QED BY <2>3, <2>4 DEF Valid
<1> QED BY <1>1, ChecksInvariance, TopInvariance, PTL

=============================================================================

--------------------------- MODULE ChunkedRender ---------------------------
(***************************************************************************)
(* How one document becomes a PDF (render/selectStrategy.js, singlePass.js, *)
(* chunkedMerge.js, template.js, stamp.js): printed in one pass, or in      *)
(* chunks of rows that are merged.  A page is what a reader can tell: its   *)
(* rows with their line numbers, its header, its total and its footer.      *)
(* An item stands for its row; an amount is the set of items it sums.       *)
(***************************************************************************)
EXTENDS Integers, Sequences

CONSTANTS
  Counts,         \* numbers of line items
  RowsPerPage,    \* values of ROWS_PER_PAGE
  ChunkSizes,     \* values of CHUNK_SIZE
  Thresholds      \* values of CHUNK_THRESHOLD

ASSUME ConfigAssumption ==
  /\ Counts \subseteq Nat \ {0} /\ RowsPerPage \subseteq Nat \ {0}
  /\ ChunkSizes \subseteq Nat /\ Thresholds \subseteq Nat

VARIABLES
  config,      \* the document's number of items, and the settings
  pc,
  next,        \* the chunk to print, from 0
  buffers,     \* the PDFs printed so far, each a sequence of pages
  pdf          \* the document being merged or stamped

vars == <<config, pc, next, buffers, pdf>>

Configs == [items : Counts, rowsPerPage : RowsPerPage,
            chunkSize : ChunkSizes, threshold : Thresholds]

All == 1..config.items

Least(m, n) == IF m <= n THEN m ELSE n
Ceil(m, n)  == (m + n - 1) \div n

TypeOK ==
  /\ config \in Configs
  /\ pc \in {"select", "single", "chunks", "merge", "stamp", "done"}
  /\ next \in 0..config.items
  /\ \A b \in DOMAIN buffers : \A p \in DOMAIN buffers[b] :
       /\ Len(buffers[b][p].rows) \in 1..config.rowsPerPage
       /\ buffers[b][p].footer = <<>>

Init ==
  /\ config \in Configs
  /\ pc = "select" /\ next = 0 /\ buffers = <<>> /\ pdf = <<>>

-----------------------------------------------------------------------------

\* Mutant: the loop runs while i <= length.
Slices_EmptyTail(s, size) ==
  [i \in 1..(Len(s) \div size + 1) |-> SubSeq(s, (i - 1) * size + 1, Least(i * size, Len(s)))]

\* The sequence cut into slices of the given size.
Slices(s, size) ==
  [i \in 1..Ceil(Len(s), size) |-> SubSeq(s, (i - 1) * size + 1, Least(i * size, Len(s)))]

\* Mutant: the size is not snapped to whole sheets.
Snapped_AsRequested(requested, rowsPerPage) ==
  IF requested > 0 THEN requested ELSE rowsPerPage

\* The chunk size, up to a whole number of sheets.
Snapped(requested, rowsPerPage) ==
  LET up == Ceil(requested, rowsPerPage) * rowsPerPage
  IN  IF up > rowsPerPage THEN up ELSE rowsPerPage

\* A slice's rows, numbered from where it starts in the document.
Rows(items, startIndex) ==
  [i \in DOMAIN items |-> [line |-> startIndex + i, item |-> items[i]]]

\* The full header is on the first sheet of the document only.
Header(absStart) == IF absStart = 0 THEN "full" ELSE "continued"

\* The sheets of a slice of the items; a sheet prints on one page.
Sheets(items, startIndex, total) ==
  LET pages == Slices(items, config.rowsPerPage)
      absStart(p) == startIndex + (p - 1) * config.rowsPerPage
  IN  [p \in DOMAIN pages |->
        [ rows   |-> Rows(pages[p], absStart(p)),
          header |-> Header(absStart(p)),
          total  |-> IF p = Len(pages) THEN total ELSE {},
          footer |-> <<>> ]]

Items  == [i \in All |-> i]
Size   == Snapped(config.chunkSize, config.rowsPerPage)
Chunks == Slices(Items, Size)

Goto(from, to) == pc = from /\ pc' = to

Select ==
  /\ Goto("select", IF config.items > config.threshold THEN "chunks" ELSE "single")
  /\ UNCHANGED <<config, next, buffers, pdf>>

PrintAll ==
  /\ Goto("single", "stamp")
  /\ pdf' = Sheets(Items, 0, All)
  /\ UNCHANGED <<config, next, buffers>>

\* The total, over all the items, is shown by the last chunk only.
PrintChunk ==
  /\ pc = "chunks" /\ next < Len(Chunks)
  /\ buffers' = Append(buffers, Sheets(Chunks[next + 1], next * Size,
                                       IF next = Len(Chunks) - 1 THEN All ELSE {}))
  /\ next' = next + 1
  /\ UNCHANGED <<config, pc, pdf>>

PrintedAll == Goto("chunks", "merge") /\ next = Len(Chunks)
                /\ UNCHANGED <<config, next, buffers, pdf>>

\* One PDF after the other, all its pages.
Merge ==
  /\ IF buffers = <<>> THEN Goto("merge", "stamp") /\ UNCHANGED <<buffers, pdf>>
     ELSE /\ Goto("merge", "merge")
          /\ pdf' = pdf \o Head(buffers) /\ buffers' = Tail(buffers)
  /\ UNCHANGED <<config, next>>

Stamp ==
  /\ Goto("stamp", "done")
  /\ pdf' = [i \in DOMAIN pdf |-> [pdf[i] EXCEPT !.footer = <<i, Len(pdf)>>]]
  /\ UNCHANGED <<config, next, buffers>>

\* The page dies or pdf-lib throws: the task is retried from the start.
Restart ==
  /\ pc \in {"single", "chunks", "merge", "stamp"} /\ pc' = "select"
  /\ next' = 0 /\ buffers' = <<>> /\ pdf' = <<>> /\ UNCHANGED config

Next == Select \/ PrintAll \/ PrintChunk \/ PrintedAll \/ Merge \/ Stamp \/ Restart

Spec == Init /\ [][Next]_vars

-----------------------------------------------------------------------------
(* Properties.                                                             *)

PageCount == Ceil(config.items, config.rowsPerPage)

\* What page p of the document must show, whatever the strategy.
Page(p, footer) ==
  LET first == (p - 1) * config.rowsPerPage + 1
      last  == Least(p * config.rowsPerPage, config.items)
  IN  [ rows   |-> [i \in 1..(last - first + 1) |-> [line |-> first + i - 1, item |-> first + i - 1]],
        header |-> IF p = 1 THEN "full" ELSE "continued",
        total  |-> IF p = PageCount THEN All ELSE {},
        footer |-> footer ]

\* chunkedMerge.js:8-16 "identical sheet sequence": either strategy, with any
\* settings and after any retries, gives the same pages: every item once, on
\* its page, numbered continuously; one total, on the last page; page x of y.
Equivalent ==
  pc = "done" => pdf = [p \in 1..PageCount |-> Page(p, <<p, PageCount>>)]

=============================================================================

---------------------------- MODULE MCDocuments ----------------------------
(***************************************************************************)
(* Request bodies around every limit of the validation, and the payloads   *)
(* of the verification suite.  The money limits are those of the code in   *)
(* thousands (TLC counts up to 2^31); the other limits are its own.        *)
(***************************************************************************)
EXTENDS Documents

CONSTANTS MAX_DESC, LargeCount

Suite == INSTANCE Payloads

MCLimits ==
  [ description |-> 110, documentId |-> 48, poNumber |-> 32, partyName |-> 50,
    partyAddress |-> 75, partyAddressLines |-> 3, quantityMax |-> 1000,
    unitPriceMax |-> 1000, lineAmountMax |-> 10000, documentTotalMax |-> 100000 ]

MCCounts      == 1..13
MCRowsPerPage == 1..4
MCChunkSizes  == 0..9
MCThresholds  == {0, 6}

Good(i)   == Suite!PurchaseOrder(i, 1, 0)
Around(n) == {Undefined, Other, 0, 1, n, n + 1}

Addresses == {Undefined, Other, <<0>>, <<0, 0>>, <<75>>, <<76>>, <<73, 1>>, <<74, 1>>,
              <<24, 24, 25>>, <<25, 25, 24>>, <<1, 1, 1, 1>>}

Parties == {Undefined, Other} \union {Suite!Party(n, <<9>>) : n \in Around(50)}
             \union {Suite!Party(5, a) : a \in Addresses}

OneLine == {Other} \union {Suite!Line(n, 1, 1) : n \in Around(110)}
             \union {Suite!Line(9, q, p) : q, p \in {Other, -1, 0, 1, 10, 11, 1000, 1001}}

\* Documents with something at or over a limit.
Edges ==
  {Undefined, Other}
    \union {[Good(0) EXCEPT !.type = v] : v \in {Undefined, Other, "invoice"}}
    \union {[Good(0) EXCEPT !.documentId = v] :
              v \in {Undefined, Other} \union {[name |-> 0, length |-> n] : n \in {0, 48, 49}}}
    \union {[Good(0) EXCEPT !.poNumber = v] : v \in Around(32)}
    \union {[Good(0) EXCEPT !.vendor = v] : v \in Parties}
    \union {[Good(0) EXCEPT !.buyer = v] : v \in Parties}
    \union {[Good(0) EXCEPT !.currency = v] : v \in {Undefined, Other, "USD", "usd", ListedCode}}
    \union {[Good(0) EXCEPT !.lineItems = v] : v \in {Undefined, Other, <<>>}}
    \union {[Good(0) EXCEPT !.lineItems = <<li>>] : li \in OneLine}

\* Totals below, at and above the limit, and the suite's plain lines.
Totals == {[Good(0) EXCEPT !.lineItems = [i \in 1..n |-> Suite!Line(9, 10, 1000)]] : n \in 9..12}
Long   == {Suite!PurchaseOrder(0, n, 0) : n \in MCCounts}

\* Jobs whose documents repeat a documentId, some of them malformed.
Repeated ==
  LET Some(i) == {Good(i), [Good(i) EXCEPT !.poNumber = Other]}
  IN  UNION {{<<x, y, z>> : x \in Some(i), y \in Some(j), z \in Some(k)} : i, j, k \in 1..2}

MCBodies ==
  {Other} \union Suite!GoodPayloads \union Suite!BadPayloads
    \union {Suite!Request(v) : v \in {Undefined, Other}}
    \union {[Suite!Bulk(n, 1) EXCEPT !.idempotencyKey = v] : n \in {0, 1}, v \in {Other, 0}}
    \union {Suite!Request(<<doc>>) : doc \in Edges \union Totals \union Long}
    \union {Suite!Request(docs) : docs \in Repeated}

=============================================================================

------------------------------ MODULE Payloads ------------------------------
(***************************************************************************)
(* The request bodies of the verification suite (scenarios/phase2/gen.js)  *)
(* and what scenarios/phase2/run.sh expects of them, with the lengths and  *)
(* the counts of the generator, as Validation sees them.                   *)
(***************************************************************************)
EXTENDS Integers, Sequences

CONSTANTS
  Undefined, Other,      \* a missing value, a value of another JSON type
  MAX_BULK_DOCUMENTS,
  MAX_DESC,              \* gen.js:17, the limit of a description
  LargeCount             \* line items of large_lineitems, above CHUNK_THRESHOLD

\* Names of documents are numbers: DOC-i is i, the named fixtures follow.
Id(name) == [name |-> name, length |-> 5]

Line(description, quantity, unitPrice) ==
  [description |-> description, quantity |-> quantity, unitPrice |-> unitPrice]

Party(name, address) == [name |-> name, address |-> address]

\* padDesc: filled up and cut to a length.
PadDesc(length) == length

\* A valid document; descPad 0 leaves the descriptions as they are.
PurchaseOrder(i, lineItemCount, descPad) ==
  [ documentId |-> Id(i), type |-> "purchase_order", poNumber |-> 7,
    vendor |-> Party(8, <<24>>), buyer |-> Party(12, <<18>>), currency |-> "USD",
    lineItems |-> [n \in 1..lineItemCount |->
                     Line(IF descPad = 0 THEN 18 ELSE PadDesc(descPad), ((n - 1) % 5) + 1, n)] ]

Request(documents) == [idempotencyKey |-> Undefined, documents |-> documents]

Bulk(n, lineItemCount) == Request([i \in 1..n |-> PurchaseOrder(i, lineItemCount, 0)])

\* A document with the given id, vendor and lines, and no buyer.
Bare(name, vendor, lineItems) ==
  [PurchaseOrder(name, 0, 0) EXCEPT !.vendor = vendor, !.buyer = Undefined, !.lineItems = lineItems]

\* Braces and dollars are characters like others.
InjectionDoc ==
  [Bare(1001, Party(17, <<27>>), <<Line(31, 1, 10), Line(40, 2, 5)>>)
     EXCEPT !.poNumber = 14, !.buyer = Party(17, Undefined)]

OversizeDescription == Bare(1002, Party(15, Undefined), <<Line(10240, 1, 5)>>)

NearLimitDescription == Bare(1003, Party(17, Undefined), <<Line(MAX_DESC, 2, 10)>>)

Untyped(doc) == [doc EXCEPT !.type = Undefined, !.currency = Undefined]

Malformed ==
  << Untyped(Bare(1004, Party(Undefined, Undefined), <<>>)),
     Untyped(Bare(1005, Party(1, Undefined), <<Line(1, 0, -5)>>)) >>

\* The payloads the suite posts and expects to be created.
GoodPayloads ==
  { Bulk(1, 2), Bulk(3, 2), [Bulk(1, 2) EXCEPT !.idempotencyKey = 14],
    Request(<<PurchaseOrder(0, LargeCount, 0)>>), Request(<<InjectionDoc>>),
    Request(<<NearLimitDescription>>) }

\* Those it expects to be refused.
BadPayloads ==
  { Request(<<OversizeDescription>>), Request(<<>>), Bulk(MAX_BULK_DOCUMENTS + 1, 2),
    Request(Malformed) }

=============================================================================

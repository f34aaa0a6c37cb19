----------------------------- MODULE Validation -----------------------------
(***************************************************************************)
(* The enqueue-time validation of POST /jobs (validation.js): the request, *)
(* then each document in turn, with all its problems and the documentIds   *)
(* seen before it.                                                         *)
(*                                                                         *)
(* A text is its length, 0 when it is blank; an address is the sequence of *)
(* the lengths of its lines; a documentId is a name and a length.  A       *)
(* problem is its field and what is wrong with it.                         *)
(***************************************************************************)
EXTENDS Integers, Sequences, FiniteSetsExt

CONSTANTS
  Bodies,               \* request bodies
  MAX_BULK_DOCUMENTS,   \* documents per job
  LIMITS,               \* the field limits
  Codes,                \* texts of three letters A-Z
  Undefined, Other,     \* a missing value, a value of another JSON type
  ListedCode            \* an array of one such text, ["USD"]

ASSUME LimitsAssumption ==
  /\ MAX_BULK_DOCUMENTS \in Nat \ {0}
  /\ LIMITS \in [{"description", "documentId", "poNumber", "partyName", "partyAddress",
                  "partyAddressLines", "quantityMax", "unitPriceMax", "lineAmountMax",
                  "documentTotalMax"} -> Nat]

ASSUME ValuesAssumption == Undefined # Other /\ {Undefined, Other} \intersect Codes = {}

\* A JSON value: an array is a sequence, and numbers are whole.
IsNone(v)   == v \in {Undefined, Other}
IsArray(s)  == Len(s) \in Nat /\ s = [i \in 1..Len(s) |-> s[i]]
IsText(v)   == IsNone(v) \/ v \in Nat
IsNumber(v) == IsNone(v) \/ v \in Int
IsLines(a)  == IsNone(a) \/ (IsArray(a) /\ \A i \in DOMAIN a : a[i] \in Nat)
IsParty(p)  == IsNone(p) \/ (IsText(p.name) /\ IsLines(p.address))
IsItem(li)  ==
  IsNone(li) \/ (IsText(li.description) /\ IsNumber(li.quantity) /\ IsNumber(li.unitPrice))
IsItems(s)  == IsNone(s) \/ (IsArray(s) /\ \A i \in DOMAIN s : IsItem(s[i]))

IsDocument(doc) ==
  \/ IsNone(doc)
  \/ /\ IsNone(doc.documentId) \/ doc.documentId.length \in Nat
     /\ IsText(doc.poNumber) /\ IsParty(doc.vendor) /\ IsParty(doc.buyer)
     /\ IsItems(doc.lineItems)

ASSUME BodiesAssumption ==
  \A b \in Bodies : IsNone(b) \/ IsNone(b.documents) \/
    (IsArray(b.documents) /\ \A i \in DOMAIN b.documents : IsDocument(b.documents[i]))

VARIABLES
  body,             \* the request body
  at,               \* where validateJobRequest is
  index,            \* the document it is at
  seenIds,          \* the first index of each documentId
  topErrors,        \* problems of the request
  documentErrors    \* problems of each malformed document

validationVars == <<body, at, index, seenIds, topErrors, documentErrors>>

Given(v)    == v \notin {Undefined, Other}
NonEmpty(v) == Given(v) /\ v > 0

-----------------------------------------------------------------------------
(* validateDocument.                                                       *)

\* CURRENCY_RE.test converts what it is given to a text: a list of one code
\* has the text of that code.
HasCodeText(v) == v \in Codes \/ v = ListedCode

CurrencyErrors(v) ==
  IF v = Undefined \/ HasCodeText(v) THEN {} ELSE {<<"currency", "code">>}

TextErrors(v, field, max) ==
  IF ~NonEmpty(v) THEN {<<field, "required">>}
  ELSE IF v > max THEN {<<field, "length">>} ELSE {}

IdLength(id) == IF Given(id) THEN id.length ELSE id

\* Mutant: the newlines are not counted.
AddressLength_NoBreaks(a) == MapThenSumSet(LAMBDA i : a[i], DOMAIN a)

\* Characters of an address, newlines included.
AddressLength(a) == MapThenSumSet(LAMBDA i : a[i], DOMAIN a) + Len(a) - 1

AddressErrors(a, field) ==
  IF a = Undefined THEN {}
  ELSE IF a = Other \/ \A i \in DOMAIN a : a[i] = 0 THEN {<<field, "address">>}
  ELSE (IF AddressLength(a) > LIMITS.partyAddress THEN {<<field, "addressLength">>} ELSE {})
       \union (IF Len(a) > LIMITS.partyAddressLines THEN {<<field, "addressLines">>} ELSE {})

PartyErrors(party, field, required) ==
  IF party = Undefined THEN (IF required THEN {<<field, "required">>} ELSE {})
  ELSE IF party = Other THEN {<<field, "object">>}
  ELSE TextErrors(party.name, field, LIMITS.partyName) \union AddressErrors(party.address, field)

QtyOk(li)   == Given(li.quantity) /\ li.quantity > 0 /\ li.quantity <= LIMITS.quantityMax
PriceOk(li) == Given(li.unitPrice) /\ li.unitPrice >= 0 /\ li.unitPrice <= LIMITS.unitPriceMax
Amount(li)  == li.quantity * li.unitPrice
Priced(li)  == Given(li) /\ QtyOk(li) /\ PriceOk(li)

LineErrors(li) ==
  IF ~Given(li) THEN {"object"}
  ELSE {e \in {"description", "quantity", "unitPrice", "amount"} :
          \/ e = "description" /\ TextErrors(li.description, e, LIMITS.description) # {}
          \/ e = "quantity"    /\ ~QtyOk(li)
          \/ e = "unitPrice"   /\ ~PriceOk(li)
          \/ e = "amount"      /\ Priced(li) /\ Amount(li) > LIMITS.lineAmountMax}

\* The sum of some of the lines.
TotalOf(items, S) == MapThenSumSet(LAMBDA i : Amount(items[i]), S)

\* Mutant: the total is that of the last line.
DocumentTotal_LastLine(items) ==
  IF Priced(items[Len(items)]) THEN Amount(items[Len(items)]) ELSE 0

DocumentTotal(items) == TotalOf(items, {i \in DOMAIN items : Priced(items[i])})

ItemsErrors(items) ==
  IF items \in {Undefined, Other} \/ items = <<>> THEN {<<"lineItems", "required">>}
  ELSE (UNION {{<<"lineItems", i, e>> : e \in LineErrors(items[i])} : i \in DOMAIN items})
       \union (IF DocumentTotal(items) > LIMITS.documentTotalMax THEN {<<"total", "max">>} ELSE {})

ValidateDocument(doc) ==
  IF ~Given(doc) THEN {<<"document", "object">>}
  ELSE (IF doc.type \in {Undefined, "purchase_order"} THEN {} ELSE {<<"type", "unsupported">>})
       \union TextErrors(IdLength(doc.documentId), "documentId", LIMITS.documentId)
       \union TextErrors(doc.poNumber, "poNumber", LIMITS.poNumber)
       \union PartyErrors(doc.vendor, "vendor", TRUE)
       \union PartyErrors(doc.buyer, "buyer", FALSE)
       \union CurrencyErrors(doc.currency)
       \union ItemsErrors(doc.lineItems)

-----------------------------------------------------------------------------
(* validateJobRequest.                                                     *)

TopErrors ==
  IF ~Given(body) THEN {"body"}
  ELSE {e \in {"idempotencyKey", "documents", "empty", "tooMany"} :
          \/ e = "idempotencyKey" /\ body.idempotencyKey # Undefined /\ ~NonEmpty(body.idempotencyKey)
          \/ e = "documents" /\ ~Given(body.documents)
          \/ e = "empty"     /\ body.documents = <<>>
          \/ e = "tooMany"   /\ Given(body.documents) /\ Len(body.documents) > MAX_BULK_DOCUMENTS}

\* Documents are looked at only when there is a sane number of them.
CheckRequest ==
  /\ at = "request"
  /\ topErrors' = TopErrors
  /\ at' = IF topErrors' \subseteq {"idempotencyKey"} THEN "documents" ELSE "checked"
  /\ UNCHANGED <<body, index, seenIds, documentErrors>>

DocId(doc) ==
  IF Given(doc) /\ NonEmpty(IdLength(doc.documentId)) THEN {doc.documentId} ELSE {}

\* Mutant: only the ids of valid documents are remembered.
Remembered_OnlyValid(doc) ==
  IF ValidateDocument(doc) = {} THEN DocId(doc) \ DOMAIN seenIds ELSE {}

\* The ids that become known with a document: the first one counts.
Remembered(doc) == DocId(doc) \ DOMAIN seenIds

CheckDocument ==
  LET doc  == body.documents[index]
      errs == ValidateDocument(doc)
                \union {<<"documentId", "duplicates", seenIds[i]>> : i \in DocId(doc) \intersect DOMAIN seenIds}
      new  == Remembered(doc) IN
  /\ at = "documents"
  /\ documentErrors' = [i \in DOMAIN documentErrors \union (IF errs = {} THEN {} ELSE {index}) |->
                          IF i = index THEN errs ELSE documentErrors[i]]
  /\ seenIds' = [i \in DOMAIN seenIds \union new |-> IF i \in new THEN index ELSE seenIds[i]]
  /\ IF index = Len(body.documents) THEN at' = "checked" /\ UNCHANGED index
     ELSE index' = index + 1 /\ UNCHANGED at
  /\ UNCHANGED <<body, topErrors>>

Valid == at = "checked" /\ topErrors = {} /\ DOMAIN documentErrors = {}

ValidationInit ==
  /\ body \in Bodies
  /\ at = "request" /\ index = 1 /\ seenIds = <<>>
  /\ topErrors = {} /\ documentErrors = <<>>

ValidationNext == CheckRequest \/ CheckDocument

=============================================================================

----------------------------- MODULE Documents -----------------------------
(***************************************************************************)
(* A document from the request to its pages: POST /jobs validates the job  *)
(* (Validation), and when all of it is valid a worker renders the document *)
(* (ChunkedRender).  The template relies on what the validation refuses:   *)
(* it computes totals from the numbers it is given, and lays its columns   *)
(* out for the largest ones.                                               *)
(***************************************************************************)
EXTENDS Validation, ChunkedRender, SequencesExt

VARIABLE d    \* the document of the job that is followed

documentsVars == <<validationVars, vars, d>>

Doc == body.documents[d]

\* The lines the template gets, if the document has any.
Lines ==
  IF Given(body) /\ Given(body.documents) /\ d \in DOMAIN body.documents
       /\ Given(Doc) /\ Given(Doc.lineItems)
  THEN Doc.lineItems ELSE <<>>

\* The settings are arbitrary; the number of items is that of the document.
DocumentsInit ==
  /\ ValidationInit
  /\ d \in 1..(IF Given(body) /\ Given(body.documents) /\ body.documents # <<>>
               THEN Len(body.documents) ELSE 1)
  /\ Init
  /\ IF Lines # <<>> THEN config.items = Len(Lines) ELSE config = CHOOSE c \in Configs : TRUE

DocumentsNext ==
  \/ ValidationNext /\ UNCHANGED <<vars, d>>
  \/ Valid /\ Next /\ UNCHANGED <<validationVars, d>>

DocumentsSpec == DocumentsInit /\ [][DocumentsNext]_documentsVars

-----------------------------------------------------------------------------
(* Properties.                                                             *)

Contents == body.documents

\* A document that no field or line of its own makes unacceptable.
WellFormed(doc) == ValidateDocument(doc) = {}

\* api.md:37-43, validation.js:37-38, :141 "[{ index, documentId, errors[] }]
\* per malformed document": the answer names every document that is wrong
\* itself or repeats the documentId of an earlier one, valid or not, with the
\* first that has it, and no other document.
EveryFaultNamed ==
  at = "checked" /\ topErrors \subseteq {"idempotencyKey"} =>
    LET Same(i, j) == DocId(Contents[i]) # {} /\ DocId(Contents[i]) = DocId(Contents[j])
        First(i)   == CHOOSE j \in 1..i : Same(i, j) /\ \A k \in 1..(j - 1) : ~Same(i, k)
        Repeats(i) == \E j \in 1..(i - 1) : Same(i, j)
    IN  /\ DOMAIN documentErrors =
             {i \in DOMAIN Contents : ~WellFormed(Contents[i]) \/ Repeats(i)}
        /\ \A i \in DOMAIN documentErrors :
             \A j \in DOMAIN Contents :
               <<"documentId", "duplicates", j>> \in documentErrors[i] <=> Repeats(i) /\ j = First(i)

Short(v, max)  == v \notin {Undefined, Other} /\ v \in 1..max
Within(n, max) == n \notin {Undefined, Other} /\ n <= max

\* The table of api.md:48-59, with the shapes of api.md:5-31.
AcceptableParty(party) ==
  /\ party # Other
  /\ Short(party.name, LIMITS.partyName)
  /\ party.address # Other
  /\ party.address # Undefined =>
       /\ Len(party.address) <= LIMITS.partyAddressLines
       /\ Len(party.address) - 1 + FoldSeq(+, 0, party.address) \in 1..LIMITS.partyAddress
       /\ \E i \in DOMAIN party.address : party.address[i] > 0

AcceptableLine(li) ==
  /\ li \notin {Undefined, Other}
  /\ Short(li.description, LIMITS.description)
  /\ Within(li.quantity, LIMITS.quantityMax) /\ li.quantity > 0
  /\ Within(li.unitPrice, LIMITS.unitPriceMax) /\ li.unitPrice >= 0
  /\ li.quantity * li.unitPrice <= LIMITS.lineAmountMax

Acceptable(doc) ==
  /\ doc \notin {Undefined, Other} /\ doc.type \in {Undefined, "purchase_order"}
  /\ doc.documentId \notin {Undefined, Other} /\ Short(doc.documentId.length, LIMITS.documentId)
  /\ Short(doc.poNumber, LIMITS.poNumber)
  /\ doc.vendor # Undefined /\ AcceptableParty(doc.vendor)
  /\ doc.buyer # Undefined => AcceptableParty(doc.buyer)
  /\ doc.currency \in Codes \union {Undefined, ListedCode}
  /\ doc.lineItems \notin {Undefined, Other, <<>>}
  /\ \A i \in DOMAIN doc.lineItems : AcceptableLine(doc.lineItems[i])
  /\ FoldSeq(LAMBDA li, sum : li.quantity * li.unitPrice + sum, 0, doc.lineItems)
       <= LIMITS.documentTotalMax

\* api.md:45-59: a job is accepted exactly when there are 1 to 100 documents,
\* every one keeps to the field limits, and no two share a documentId.  The
\* code departs from api.md:54 "3-letter uppercase ISO-4217" in that it takes
\* any three letters, and a list of one such text (validation.js:93).
ContractDecides ==
  at = "checked" =>
    (Valid <=> /\ Given(body) /\ Given(Contents)
               /\ body.idempotencyKey = Undefined \/ NonEmpty(body.idempotencyKey)
               /\ Len(Contents) \in 1..MAX_BULK_DOCUMENTS
               /\ \A i \in DOMAIN Contents : Acceptable(Contents[i])
               /\ \A i, j \in DOMAIN Contents :
                    Contents[i].documentId = Contents[j].documentId => i = j)

\* template.js:125-126 "numeric columns are sized for the validated numeric
\* maxima": no amount or total that is printed, by either strategy and in any
\* chunk, is above what its column holds.
ColumnsHold ==
  \A p \in DOMAIN pdf :
    /\ \A i \in DOMAIN pdf[p].rows : ~(Amount(Lines[pdf[p].rows[i].item]) > LIMITS.lineAmountMax)
    /\ pdf[p].total # {} => ~(TotalOf(Lines, pdf[p].total) > LIMITS.documentTotalMax)

=============================================================================

------------------------------- MODULE Prices -------------------------------
(***************************************************************************)
(* Prices: price documents (priceDocumentController, PriceDocumentService),*)
(* the creation and the editing of products (routes/admin.ts), and the     *)
(* journal both write.                                                     *)
(*                                                                         *)
(* A product keeps its prices in one JSON value, which every writer        *)
(* replaces as a whole.  Applying a document is one transaction, which     *)
(* reads that value without locking the row and writes it back; creating   *)
(* and editing a product are several statements that commit one by one.    *)
(*                                                                         *)
(* Bulk reposting (and unposting) resets an APPLIED document first: it     *)
(* deletes the journal entries whose createdAt is the document's.  But the *)
(* createdAt of an entry is the date of the document that wrote it.  The   *)
(* two are the same only when a document got no date, or is a copy, and    *)
(* was inserted within the same millisecond, or was given such a date: a   *)
(* reset deletes nothing, or the document's entries, or those of others.   *)
(*                                                                         *)
(* Time is an integer, the millisecond; every call has one of its own.     *)
(***************************************************************************)
EXTENDS Integers

CONSTANTS
  Clients, Products, PriceTypes, PriceDocuments,
  Values,       \* prices
  Dates,        \* what a document may be dated with
  Sent,         \* the prices a product may be created or edited with
  Drafts,       \* the documents there are in the beginning
  MaxCalls,     \* bound on the number of calls
  NULL

ASSUME TimeAssumption ==
  /\ MaxCalls \in Nat
  /\ Dates \subseteq Int
  /\ Sent \subseteq [PriceTypes -> Values \cup {NULL}] \cup {NULL}

VARIABLES
  prices,     \* prices[p]: Product.prices, NULL while there is no such product
  document,   \* document[d]: PriceDocument with its items, NULL: no such row
  journal,    \* PriceJournal
  call,       \* call[c]: what c's call has read and written so far
  calls,      \* the calls that were made
  unlogged,   \* the prices a failed call has left out of the journal
  forgotten   \* the prices whose journal entry a reset has deleted

tables == <<prices, document, journal>>
history == <<unlogged, forgotten>>
vars == <<tables, call, calls, history>>

PriceLists == [PriceTypes -> Values \cup {NULL}]
NoPrices == [t \in PriceTypes |-> NULL]

Idle == [pc |-> "idle"]

\* At most one line per product.
ItemLists == [Products -> Values \cup {NULL}]

Draft(date, target, items, createdAt) ==
  [status |-> "DRAFT", date |-> date, target |-> target, items |-> items,
   createdAt |-> createdAt]

ASSUME DraftsAssumption ==
  Drafts \subseteq [status : {"DRAFT"}, date : Int, target : PriceTypes,
                   items : ItemLists, createdAt : Int]

\* The time of a statement: NOW(), new Date().
Now == calls + 1

\* A row of the journal.  One that a document wrote has its date in both columns,
\* effectiveDate and createdAt; by, document and call, tells such rows apart.
Entry(p, t, price, date, reason, by) ==
  [product |-> p, type |-> t, newPrice |-> price, effectiveDate |-> date,
   reason |-> reason, by |-> by]

\* Products with the prices they were created with, and drafts of documents.
Init ==
  /\ prices \in [Products -> Sent]
  /\ journal = {Entry(x[1], x[2], prices[x[1]][x[2]], -1, "manual", NULL) :
       x \in {y \in Products \X PriceTypes :
                prices[y[1]] # NULL /\ prices[y[1]][y[2]] # NULL}}
  /\ document \in [PriceDocuments -> Drafts \cup {NULL}]
  /\ call = [c \in Clients |-> Idle]
  /\ calls = 0
  /\ unlogged = {} /\ forgotten = {}

Calls(c) == call[c].pc = "idle" /\ calls < MaxCalls /\ calls' = calls + 1

Done(c) == call' = [call EXCEPT ![c] = Idle]

-----------------------------------------------------------------------------
(* Price documents.  The checks for DRAFT are commented out in the code:   *)
(* a document may be changed and applied in any status.                    *)

\* createdAt is the NOW() of the INSERT, which may run later than new Date().
Inserted == {Now, Now + 1}

\* A document that is not given a date gets new Date().
createDocument(c, d, date, target) ==
  /\ Calls(c)
  /\ document[d] = NULL
  /\ \E createdAt \in Inserted :
       document' = [document EXCEPT
         ![d] = Draft(IF date = NULL THEN Now ELSE date, target,
                      [p \in Products |-> NULL], createdAt)]
  /\ UNCHANGED <<prices, journal, call, history>>

\* An UPDATE of a document waits for the reposting that has reset it.
Resets(c, d) ==
  call[c].pc \in {"items", "apply", "write"} /\ call[c].repost /\ call[c].doc = d
NotReset(d, c) == \A other \in Clients \ {c} : ~Resets(other, d)

\* What is not sent stays (COALESCE).
updateDocument(c, d, date, target) ==
  /\ Calls(c)
  /\ document[d] # NULL
  /\ NotReset(d, c)
  /\ document' = [document EXCEPT ![d].date = IF date = NULL THEN @ ELSE date, ![d].target = target]
  /\ UNCHANGED <<prices, journal, call, history>>

\* The lines are deleted and inserted again in one transaction.  (Two of these
\* that overlap on one document, which can leave the lines of both, are not
\* modelled.)
updateDocumentItems(c, d, items) ==
  /\ Calls(c)
  /\ document[d] # NULL
  /\ document' = [document EXCEPT ![d].items = items]
  /\ UNCHANGED <<prices, journal, call, history>>

\* A copy is a draft of the same lines, dated new Date().
copyDocument(c, d, copy) ==
  /\ Calls(c)
  /\ document[d] # NULL /\ document[copy] = NULL
  /\ \E createdAt \in Inserted :
       document' = [document EXCEPT
         ![copy] = Draft(Now, document[d].target, document[d].items, createdAt)]
  /\ UNCHANGED <<prices, journal, call, history>>

-----------------------------------------------------------------------------
(* The reset of a bulk reposting.                                          *)

\* DELETE FROM "PriceJournal" WHERE reason = ... AND "createdAt" = created_at.
Reset(d) ==
  {e \in journal : e.reason = "applied" /\ e.effectiveDate = document[d].createdAt}

PricesOf(E) == {<<e.product, e.type, e.newPrice>> : e \in E}

\* Unposting in bulk resets the document and commits.
resetDocument(c, d) ==
  /\ Calls(c)
  /\ document[d] # NULL /\ document[d].status = "APPLIED"
  /\ NotReset(d, c)
  /\ journal' = journal \ Reset(d)
  /\ forgotten' = forgotten \cup PricesOf(Reset(d))
  /\ document' = [document EXCEPT ![d].status = "DRAFT"]
  /\ UNCHANGED <<prices, call, unlogged>>

-----------------------------------------------------------------------------
(* applyDocument and PriceDocumentService.apply.                           *)

\* BEGIN and the SELECT of the document.  Reposting resets it before, in the same
\* transaction.
BeginApply(c, d, repost) ==
  /\ Calls(c)
  /\ document[d] # NULL
  /\ repost => document[d].status = "APPLIED" /\ NotReset(d, c)
  /\ call' = [call EXCEPT ![c] =
       [pc |-> "items", doc |-> d, repost |-> repost, by |-> <<d, Now>>,
        gone |-> IF repost THEN Reset(d) ELSE {},
        date |-> document[d].date, target |-> document[d].target,
        todo |-> {}, line |-> NULL, read |-> NULL, mine |-> << >>]]
  /\ UNCHANGED <<tables, history>>

\* SELECT * FROM "PriceDocumentItem", in whatever order.
ReadItems(c) ==
  /\ call[c].pc = "items"
  /\ call' = [call EXCEPT ![c].pc = "apply",
       ![c].todo = {<<p, document[call[c].doc].items[p]>> :
                      p \in {q \in Products : document[call[c].doc].items[q] # NULL}}]
  /\ UNCHANGED <<tables, calls, history>>

Mine(c) == IF call[c].pc \in {"apply", "write"} THEN DOMAIN call[c].mine ELSE {}

\* SELECT prices FROM "Product", no lock; a product that is not there is skipped.
ReadPrices(c) ==
  /\ call[c].pc = "apply"
  /\ \E line \in call[c].todo :
       LET p == line[1]
           read == IF p \in Mine(c) THEN call[c].mine[p] ELSE prices[p]
       IN  call' = IF read = NULL THEN [call EXCEPT ![c].todo = @ \ {line}]
                   ELSE [call EXCEPT ![c].pc = "write", ![c].line = line, ![c].read = read]
  /\ UNCHANGED <<tables, calls, history>>

\* An UPDATE waits for a transaction that has written the row.
Free(p, c) == \A other \in Clients \ {c} : p \notin Mine(other)

\* The journal entry, and the whole list of prices as it was read.
WritePrices(c) ==
  LET p == call[c].line[1]
      new == [call[c].read EXCEPT ![call[c].target] = call[c].line[2]]
  IN  /\ call[c].pc = "write"
      /\ Free(p, c)
      /\ call' = [call EXCEPT ![c].pc = "apply", ![c].todo = @ \ {call[c].line},
           ![c].line = NULL, ![c].read = NULL,
           ![c].mine = [q \in Mine(c) \cup {p} |-> IF q = p THEN new ELSE @[q]]]
      /\ UNCHANGED <<tables, calls, history>>

\* The entries of the transaction, for prices of type t.
EntriesOf(c, t) ==
  {Entry(p, t, call[c].mine[p][t], call[c].date, "applied", call[c].by) : p \in Mine(c)}

\* Faulty variant: the price type is read again when the entries are written.
Applied_ReadsAgain(c) ==
  LET t == document[call[c].doc].target
  IN  {e \in EntriesOf(c, t) : e.newPrice # NULL}

Applied(c) == EntriesOf(c, call[c].target)

\* The document is APPLIED, COMMIT.
CommitApply(c) ==
  /\ call[c].pc = "apply"
  /\ call[c].todo = {}
  /\ NotReset(call[c].doc, c)
  /\ prices' = [p \in Products |-> IF p \in Mine(c) THEN call[c].mine[p] ELSE prices[p]]
  /\ journal' = (journal \ call[c].gone) \cup Applied(c)
  /\ forgotten' = forgotten \cup PricesOf(call[c].gone)
  /\ document' = [document EXCEPT ![call[c].doc].status = "APPLIED"]
  /\ Done(c)
  /\ UNCHANGED <<calls, unlogged>>

-----------------------------------------------------------------------------
(* Products.                                                               *)

\* Faulty variant: a price that is missing is journaled, too.
Listed_All(new) == IF new = NULL THEN {} ELSE PriceTypes

\* The prices that are numbers, of price types there are.
Listed(new) == IF new = NULL THEN {} ELSE {t \in PriceTypes : new[t] # NULL}

\* POST /products: the row, and then an entry for each price.
CreateProduct(c, p, new) ==
  /\ Calls(c)
  /\ prices[p] = NULL
  /\ prices' = [prices EXCEPT ![p] = new]
  /\ call' = [call EXCEPT ![c] =
       [pc |-> "journal", op |-> "create", product |-> p, new |-> new, todo |-> Listed(new)]]
  /\ UNCHANGED <<document, journal, history>>

\* PUT /products/:id updates the row twice.  The first time, prices that were
\* not sent stay as they are (COALESCE) ...
UpdateProduct(c, p, new) ==
  /\ Calls(c)
  /\ prices[p] # NULL
  /\ Free(p, c)
  /\ prices' = [prices EXCEPT ![p] = IF new = NULL THEN @ ELSE new]
  /\ call' = [call EXCEPT ![c] =
       [pc |-> "again", op |-> "edit", product |-> p, new |-> new, todo |-> Listed(new)]]
  /\ UNCHANGED <<document, journal, history>>

\* ... and the second time they are written as null, which reads as no prices.
UpdateAgain(c) ==
  LET p == call[c].product
  IN  /\ call[c].pc = "again"
      /\ Free(p, c)
      /\ prices' = [prices EXCEPT ![p] = IF call[c].new = NULL THEN NoPrices ELSE call[c].new]
      /\ call' = [call EXCEPT ![c].pc = "journal"]
      /\ UNCHANGED <<document, journal, calls, history>>

\* The entries one of which ORDER BY "effectiveDate" DESC LIMIT 1 returns.
Latest(p, t) ==
  LET E == {e \in journal : e.product = p /\ e.type = t}
  IN  {e \in E : \A f \in E : f.effectiveDate <= e.effectiveDate}

\* An edit is journaled unless the latest entry has this price.
InsertEntry(c) ==
  LET p == call[c].product
  IN  /\ call[c].pc = "journal"
      /\ \E t \in call[c].todo :
           LET price == call[c].new[t]
               entry == Entry(p, t, price, Now, "manual", NULL)
           IN  /\ \/ /\ call[c].op = "create" \/ Latest(p, t) = {}
                           \/ \E e \in Latest(p, t) : e.newPrice # price
                     /\ journal' = journal \cup {entry}
                  \/ /\ call[c].op = "edit"
                     /\ \E e \in Latest(p, t) : e.newPrice = price
                     /\ journal' = journal
               /\ call' = [call EXCEPT ![c].todo = @ \ {t}]
      /\ UNCHANGED <<prices, document, calls, history>>

EndProduct(c) ==
  /\ call[c].pc = "journal"
  /\ call[c].todo = {}
  /\ Done(c)
  /\ UNCHANGED <<tables, calls, history>>

\* A statement fails: what a transaction wrote is gone, what the statements of
\* a product's call wrote stays.
Fail(c) ==
  /\ call[c].pc # "idle"
  /\ unlogged' = unlogged \cup
       (IF call[c].pc \in {"again", "journal"}
        THEN {<<call[c].product, t, call[c].new[t]>> : t \in call[c].todo} ELSE {})
  /\ Done(c)
  /\ UNCHANGED <<tables, calls, forgotten>>

-----------------------------------------------------------------------------
Next ==
  \E c \in Clients :
    \/ \E d \in PriceDocuments :
         \/ \E date \in Dates \cup {NULL}, t \in PriceTypes :
              createDocument(c, d, date, t) \/ updateDocument(c, d, date, t)
         \/ \E items \in ItemLists : updateDocumentItems(c, d, items)
         \/ \E copy \in PriceDocuments : copyDocument(c, d, copy)
         \/ resetDocument(c, d)
         \/ \E repost \in BOOLEAN : BeginApply(c, d, repost)
    \/ ReadItems(c) \/ ReadPrices(c) \/ WritePrices(c) \/ CommitApply(c)
    \/ \E p \in Products, new \in Sent \ {NULL} : CreateProduct(c, p, new)
    \/ \E p \in Products, new \in Sent : UpdateProduct(c, p, new)
    \/ UpdateAgain(c) \/ InsertEntry(c) \/ EndProduct(c)
    \/ Fail(c)

Spec == Init /\ [][Next]_vars

-----------------------------------------------------------------------------
(* Properties.                                                             *)

TypeOK ==
  /\ prices \in [Products -> PriceLists \cup {NULL}]
  /\ \A d \in PriceDocuments : document[d] # NULL =>
       document[d].target \in PriceTypes /\ document[d].items \in ItemLists
  /\ \A e \in journal : e.type \in PriceTypes /\ e.newPrice \in Values
  /\ calls \in 0 .. MaxCalls

\* c's call has set price v of p and has yet to write it to the journal.
Owes(c, p, t, v) ==
  /\ call[c].pc \in {"again", "journal"}
  /\ call[c].product = p /\ t \in call[c].todo /\ call[c].new[t] = v

Journaled(p, t, v) == \E e \in journal : e.product = p /\ e.type = t /\ e.newPrice = v

\* The journal knows every price: just this price of the product is in the journal,
\* or the call that set it has yet to write it there, or failed to, or a reset has
\* deleted it.  It holds although transactions write back prices they read long
\* before, and the document they apply is changed meanwhile.
EveryPriceJournaled ==
  \A p \in Products, t \in PriceTypes :
    \/ prices[p] = NULL \/ prices[p][t] = NULL
    \/ Journaled(p, t, prices[p][t])
    \/ \E c \in Clients : Owes(c, p, t, prices[p][t])
    \/ <<p, t, prices[p][t]>> \in unlogged \cup forgotten

\* A reset deletes the entries the document has written, and no others.
ResetTakesOwn ==
  [][\A d \in PriceDocuments :
       (document[d] # NULL /\ document[d].status = "APPLIED" /\ document'[d].status = "DRAFT")
         => journal \ journal' = {e \in journal : e.reason = "applied" /\ e.by[1] = d}]_vars

\* Applying a document changes prices of its own price type only.
OnlyNamedPrices ==
  [][\A c \in Clients, p \in Products, t \in PriceTypes :
       (call[c].pc = "apply" /\ p \in Mine(c) /\ prices' # prices /\ call'[c].pc = "idle"
          /\ t # call[c].target) => prices'[p][t] = prices[p][t]]_vars
=============================================================================

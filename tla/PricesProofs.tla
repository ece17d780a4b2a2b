---------------------------- MODULE PricesProofs ----------------------------
(***************************************************************************)
(* Proofs about prices, for any number of clients, products, price types,  *)
(* documents and calls: every price a product has is known to the journal. *)
(***************************************************************************)
EXTENDS Prices, TLAPS

Lines == Products \X Values

DocumentRows ==
  [status : {"DRAFT", "APPLIED"}, date : Int, target : PriceTypes, items : ItemLists,
   createdAt : Int]

Rows ==
  [product : Products, type : PriceTypes, newPrice : Values, effectiveDate : Int,
   reason : {"manual", "applied"}, by : (PriceDocuments \X Int) \cup {NULL}]

\* What the transaction of a document and the call of a product keep.
Applies ==
  [pc : {"items", "apply", "write"}, doc : PriceDocuments, repost : BOOLEAN,
   by : PriceDocuments \X Int, gone : SUBSET Rows,
   date : Int, target : PriceTypes, todo : SUBSET Lines, line : Lines \cup {NULL},
   read : PriceLists \cup {NULL},
   mine : UNION {[P -> PriceLists] : P \in SUBSET Products}]

Edits ==
  [pc : {"again", "journal"}, op : {"create", "edit"}, product : Products,
   new : PriceLists \cup {NULL}, todo : SUBSET PriceTypes]

TypesOK ==
  /\ prices \in [Products -> PriceLists \cup {NULL}]
  /\ document \in [PriceDocuments -> DocumentRows \cup {NULL}]
  /\ call \in [Clients -> {Idle} \cup Applies \cup Edits]
  /\ calls \in 0 .. MaxCalls
  /\ journal \in SUBSET Rows

\* A transaction is about a document that is there, writes what it has read of
\* a product, and puts a price into its own price type.
ApplyOK(c) ==
  /\ call[c].pc \in {"items", "apply", "write"} => document[call[c].doc] \in DocumentRows
  /\ call[c].pc = "items" => DOMAIN call[c].mine = {}
  /\ call[c].pc = "write" => call[c].line \in Lines /\ call[c].read \in PriceLists
  /\ \A p \in Mine(c) : call[c].mine[p][call[c].target] \in Values

\* The call of a product has yet to journal prices it has written, and all of
\* them while it has the second UPDATE before it.
EditOK(c) ==
  /\ call[c].pc = "again" => call[c].todo = Listed(call[c].new)
  /\ call[c].pc = "journal" => call[c].todo \subseteq Listed(call[c].new)

\* The journal has the price, or a call will journal it, or has failed to, or a
\* reset has deleted it.
Accounted(p, t, v) ==
  \/ v = NULL
  \/ Journaled(p, t, v)
  \/ \E c \in Clients : Owes(c, p, t, v)
  \/ <<p, t, v>> \in unlogged \cup forgotten

PricesAccounted ==
  \A p \in Products, t \in PriceTypes : prices[p] # NULL => Accounted(p, t, prices[p][t])

\* So are the prices a transaction has read and will write back, however long ago
\* it read them; that of its own price type it journals itself.
ReadAccounted(c) ==
  call[c].pc = "write" =>
    \A t \in PriceTypes \ {call[c].target} : Accounted(call[c].line[1], t, call[c].read[t])

MineAccounted(c) ==
  \A p \in Mine(c) : \A t \in PriceTypes \ {call[c].target} :
    Accounted(p, t, call[c].mine[p][t])

CallOK(c) == ApplyOK(c) /\ EditOK(c) /\ ReadAccounted(c) /\ MineAccounted(c)

\* The inductive invariant.
Inv ==
  /\ TypesOK
  /\ PricesAccounted
  /\ \A c \in Clients : CallOK(c)

-----------------------------------------------------------------------------
(* What is accounted for stays so.                                         *)

Kept == \A p, t, v : Accounted(p, t, v) => Accounted(p, t, v)'

\* What leaves the journal is remembered.
Remembered ==
  /\ PricesOf(journal \ journal') \subseteq forgotten'
  /\ forgotten \subseteq forgotten' /\ unlogged \subseteq unlogged'

\* Nothing leaves the journal unnoticed, and what a call owes is owed or accounted
\* for.
LEMMA StaysAccounted ==
  ASSUME Remembered,
         \A c \in Clients : \A p, t, v : Owes(c, p, t, v) => Accounted(p, t, v)'
  PROVE  Kept
<1>1. ASSUME NEW p, NEW t, NEW v, Journaled(p, t, v)
      PROVE  Accounted(p, t, v)'
  <2>1. PICK e \in journal : e.product = p /\ e.type = t /\ e.newPrice = v
    BY <1>1 DEF Journaled
  <2>2. CASE e \in journal'
    BY <2>1, <2>2 DEF Accounted, Journaled
  <2>3. CASE e \notin journal'
    <3>1. <<p, t, v>> \in PricesOf(journal \ journal')
      BY <2>1, <2>3 DEF PricesOf
    <3> QED  BY <3>1 DEF Remembered, Accounted
  <2> QED  BY <2>2, <2>3
<1> QED  BY <1>1 DEF Kept, Accounted, Remembered

\* A step that deletes no entry.
LEMMA NothingGone ==
  ASSUME journal \subseteq journal', forgotten \subseteq forgotten',
         unlogged \subseteq unlogged'
  PROVE  Remembered
BY DEF Remembered, PricesOf

\* A client that owes nothing takes a step.
LEMMA DebtorsWait ==
  ASSUME NEW c \in Clients, Remembered,
         \A o \in Clients \ {c} : call'[o] = call[o],
         call[c].pc \notin {"again", "journal"} \/ call[c].todo = {}
  PROVE  Kept
<1>1. ASSUME NEW o \in Clients, NEW p, NEW t, NEW v, Owes(o, p, t, v)
      PROVE  Accounted(p, t, v)'
  <2>1. o # c  BY <1>1 DEF Owes
  <2>2. Owes(o, p, t, v)'  BY <1>1, <2>1 DEF Owes
  <2> QED  BY <2>2 DEF Accounted
<1> QED  BY <1>1, StaysAccounted

\* The step of a client leaves the other calls as they are.
LEMMA StepKeeps ==
  ASSUME Inv, NEW c \in Clients, Kept, TypesOK', PricesAccounted', CallOK(c)',
         \A o \in Clients \ {c} : call'[o] = call[o],
         \A d \in PriceDocuments : document[d] \in DocumentRows => document'[d] \in DocumentRows
  PROVE  Inv'
<1>1. ASSUME NEW o \in Clients \ {c}  PROVE CallOK(o)'
  <2>1. CallOK(o) /\ call'[o] = call[o] /\ Mine(o)' = Mine(o)
    BY <1>1 DEF Inv, Mine
  <2>2. call[o].pc \in {"items", "apply", "write"} => call[o].doc \in PriceDocuments
    BY <1>1 DEF Inv, TypesOK, Applies, Edits, Idle
  <2>3. ApplyOK(o)'  BY <2>1, <2>2 DEF CallOK, ApplyOK
  <2>4. EditOK(o)'  BY <2>1 DEF CallOK, EditOK, Listed
  <2>5. ReadAccounted(o)' 
    BY <2>1 DEF CallOK, ReadAccounted, Kept
  <2>6. MineAccounted(o)'
    BY <2>1 DEF CallOK, MineAccounted, Kept
  <2> QED  BY <2>3, <2>4, <2>5, <2>6 DEF CallOK
<1> QED  BY <1>1 DEF Inv

\* A call that is not about a product, nor past its first two statements.
LEMMA IdleCallOK ==
  ASSUME NEW c \in Clients, call'[c] = Idle
  PROVE  CallOK(c)'
BY DEF CallOK, ApplyOK, EditOK, ReadAccounted, MineAccounted, Mine, Idle

\* A call is idle, applies a document or edits a product, and its pc tells which.
LEMMA CallSorts ==
  ASSUME TypesOK, NEW c \in Clients
  PROVE  /\ call[c].pc = "idle" => call[c] = Idle
         /\ call[c].pc \in {"items", "apply", "write"} => call[c] \in Applies
         /\ call[c].pc \in {"again", "journal"} => call[c] \in Edits
         /\ call[c].pc \in {"idle", "items", "apply", "write", "again", "journal"}
BY DEF TypesOK, Idle, Applies, Edits

-----------------------------------------------------------------------------
(* The statements on price documents.                                      *)

\* Times are integers.
LEMMA TimesAreTimes ==
  ASSUME TypesOK
  PROVE  Now \in Int /\ Inserted \subseteq Int
BY TimeAssumption DEF TypesOK, Now, Inserted

\* A document is written as a whole.
LEMMA DocumentKeeps ==
  ASSUME Inv, NEW c \in Clients, NEW d \in PriceDocuments, NEW row \in DocumentRows,
         Calls(c), document' = [document EXCEPT ![d] = row],
         UNCHANGED <<prices, journal, call, history>>
  PROVE  Inv'
<1>1. call[c] = Idle /\ call[c].pc = "idle"
  BY CallSorts DEF Inv, Calls
<1>2. Kept
  BY <1>1, NothingGone, DebtorsWait DEF history
<1>3. CallOK(c)'
  BY <1>1, IdleCallOK
<1>4. TypesOK'
  BY TimeAssumption DEF Inv, TypesOK, Calls
<1>5. PricesAccounted'
  BY <1>2 DEF Inv, PricesAccounted, Kept
<1>6. \A e \in PriceDocuments : document[e] \in DocumentRows => document'[e] \in DocumentRows
  BY DEF Inv, TypesOK
<1> QED  BY <1>2, <1>3, <1>4, <1>5, <1>6, StepKeeps

\* Creating a document and changing its head.
LEMMA HeadsKeep ==
  ASSUME Inv, NEW c \in Clients, NEW d \in PriceDocuments,
         NEW date \in Dates \cup {NULL}, NEW target \in PriceTypes,
         createDocument(c, d, date, target) \/ updateDocument(c, d, date, target)
  PROVE  Inv'
<1>1. document[d] = NULL \/ document[d] \in DocumentRows
  BY DEF Inv, TypesOK
<1>2. date # NULL => date \in Int
  BY TimeAssumption
<1>3. CASE createDocument(c, d, date, target)
  <2>1. PICK createdAt \in Inserted :
          document' = [document EXCEPT
            ![d] = Draft(IF date = NULL THEN Now ELSE date, target,
                         [p \in Products |-> NULL], createdAt)]
    BY <1>3 DEF createDocument
  <2>2. Draft(IF date = NULL THEN Now ELSE date, target, [p \in Products |-> NULL], createdAt)
          \in DocumentRows
    BY <1>2, TimesAreTimes DEF Draft, DocumentRows, ItemLists, Inv
  <2> QED  BY <1>3, <2>1, <2>2, DocumentKeeps DEF createDocument
<1>4. CASE updateDocument(c, d, date, target)
  <2> DEFINE when == IF date = NULL THEN document[d].date ELSE date
             row == [document[d] EXCEPT !.date = when, !.target = target]
  <2>1. row \in DocumentRows
    BY <1>1, <1>2, <1>4 DEF updateDocument, DocumentRows
  <2>2. document' = [document EXCEPT ![d] = row]
    BY <1>4 DEF updateDocument
  <2> QED  BY <1>4, <2>1, <2>2, DocumentKeeps DEF updateDocument
<1> QED  BY <1>3, <1>4

\* Changing its lines.
LEMMA ItemsKeep ==
  ASSUME Inv, NEW c \in Clients, NEW d \in PriceDocuments, NEW items \in ItemLists,
         updateDocumentItems(c, d, items)
  PROVE  Inv'
<1> DEFINE row == [document[d] EXCEPT !.items = items]
<1>1. row \in DocumentRows
  BY DEF updateDocumentItems, DocumentRows, Inv, TypesOK
<1>2. document' = [document EXCEPT ![d] = row]
  BY DEF updateDocumentItems
<1> QED  BY <1>1, <1>2, DocumentKeeps DEF updateDocumentItems

\* Copying it.
LEMMA CopyKeeps ==
  ASSUME Inv, NEW c \in Clients, NEW d \in PriceDocuments, NEW copy \in PriceDocuments,
         copyDocument(c, d, copy)
  PROVE  Inv'
<1>1. PICK createdAt \in Inserted :
        document' = [document EXCEPT
          ![copy] = Draft(Now, document[d].target, document[d].items, createdAt)]
  BY DEF copyDocument
<1>2. Draft(Now, document[d].target, document[d].items, createdAt) \in DocumentRows
  BY TimesAreTimes DEF copyDocument, Draft, DocumentRows, Inv, TypesOK
<1> QED  BY <1>1, <1>2, DocumentKeeps DEF copyDocument

\* What a reset deletes is remembered.
LEMMA ResetKeeps ==
  ASSUME Inv, NEW c \in Clients, NEW d \in PriceDocuments, resetDocument(c, d)
  PROVE  Inv'
<1> DEFINE row == [document[d] EXCEPT !.status = "DRAFT"]
<1>1. /\ document[d] \in DocumentRows /\ document' = [document EXCEPT ![d] = row]
      /\ journal' = journal \ Reset(d) /\ UNCHANGED <<prices, call, unlogged>>
      /\ forgotten' = forgotten \cup PricesOf(Reset(d))
  BY DEF resetDocument, Inv, TypesOK
<1>2. row \in DocumentRows
  BY <1>1 DEF DocumentRows
<1> HIDE DEF row
<1>3. Remembered
  BY <1>1 DEF Remembered, PricesOf
<1>4. call[c] = Idle /\ call[c].pc = "idle" /\ calls' \in 0 .. MaxCalls
  BY CallSorts, TimeAssumption DEF Inv, TypesOK, resetDocument, Calls
<1>5. Kept
  BY <1>1, <1>3, <1>4, DebtorsWait
<1>6. CallOK(c)'
  BY <1>1, <1>4, IdleCallOK
<1>7. TypesOK'
  BY <1>1, <1>2, <1>4 DEF Inv, TypesOK
<1>8. PricesAccounted'
  BY <1>1, <1>5 DEF Inv, PricesAccounted, Kept
<1>9. \A e \in PriceDocuments : document[e] \in DocumentRows => document'[e] \in DocumentRows
  BY <1>1, <1>2 DEF Inv, TypesOK
<1> QED  BY <1>1, <1>5, <1>6, <1>7, <1>8, <1>9, StepKeeps

-----------------------------------------------------------------------------
(* The transaction that applies a document.                                *)

\* BEGIN.
LEMMA BeginKeeps ==
  ASSUME Inv, NEW c \in Clients, NEW d \in PriceDocuments, NEW repost \in BOOLEAN,
         BeginApply(c, d, repost)
  PROVE  Inv'
<1> DEFINE by == <<d, Now>>
           gone == IF repost THEN Reset(d) ELSE {}
           k == [pc |-> "items", doc |-> d, repost |-> repost, by |-> by, gone |-> gone,
                 date |-> document[d].date, target |-> document[d].target,
                 todo |-> {}, line |-> NULL, read |-> NULL, mine |-> << >>]
<1>1. /\ call[c].pc = "idle" /\ document[d] \in DocumentRows /\ UNCHANGED <<tables, history>>
      /\ calls' \in 0 .. MaxCalls
  BY TimeAssumption DEF Inv, TypesOK, BeginApply, Calls
<1>2. << >> \in UNION {[P -> PriceLists] : P \in SUBSET Products}
  <2>1. << >> \in [{} -> PriceLists] /\ {} \in SUBSET Products
    OBVIOUS
  <2> QED  BY <2>1
<1>3. k \in Applies /\ k.pc = "items" /\ DOMAIN k.mine = {} /\ k.doc = d
  <2>1. PICK date \in Int, target \in PriceTypes :
          date = document[d].date /\ target = document[d].target
    BY <1>1 DEF DocumentRows
  <2>2. PICK mine \in UNION {[P -> PriceLists] : P \in SUBSET Products} : mine = << >>
    BY <1>2
  <2>3. by \in PriceDocuments \X Int
    BY TimesAreTimes DEF Inv
  <2>4. gone \in SUBSET Rows
    BY DEF Reset, Inv, TypesOK
  <2> HIDE DEF by, gone
  <2>5. k = [pc |-> "items", doc |-> d, repost |-> repost, by |-> by, gone |-> gone,
             date |-> date, target |-> target,
             todo |-> {}, line |-> NULL, read |-> NULL, mine |-> mine]
    BY <2>1, <2>2
  <2>6. k \in Applies
    BY <2>3, <2>4, <2>5 DEF Applies
  <2> QED  BY <2>2, <2>5, <2>6
<1>4. call' = [call EXCEPT ![c] = k]
  BY DEF BeginApply
<1> HIDE DEF k
<1>5. call'[c] = k
  BY <1>4 DEF Inv, TypesOK
<1>6. Kept
  BY <1>1, <1>4, NothingGone, DebtorsWait DEF tables, history
<1>7. TypesOK'
  BY <1>1, <1>3, <1>4 DEF Inv, TypesOK, tables
<1>8. PricesAccounted'
  BY <1>1, <1>6 DEF Inv, PricesAccounted, Kept, tables
<1>9. CallOK(c)'
  BY <1>1, <1>3, <1>5 DEF CallOK, ApplyOK, EditOK, ReadAccounted, MineAccounted, Mine, tables
<1> QED  BY <1>1, <1>4, <1>6, <1>7, <1>8, <1>9, StepKeeps DEF tables

\* The lines are lines of the document.
LEMMA ReadItemsKeeps ==
  ASSUME Inv, NEW c \in Clients, ReadItems(c)
  PROVE  Inv'
<1> DEFINE todo == {<<p, document[call[c].doc].items[p]>> :
                      p \in {q \in Products : document[call[c].doc].items[q] # NULL}}
           k == [call[c] EXCEPT !.pc = "apply", !.todo = todo]
<1>1. /\ call[c].pc = "items" /\ call[c] \in Applies /\ CallOK(c)
      /\ UNCHANGED <<tables, calls, history>>
  BY CallSorts DEF Inv, ReadItems
<1>2. call' = [call EXCEPT ![c] = k]
  BY DEF ReadItems
<1>3. todo \in SUBSET Lines
  BY <1>1 DEF CallOK, ApplyOK, DocumentRows, ItemLists, Lines
<1> HIDE DEF todo
<1>4. k \in Applies /\ k.pc = "apply" /\ k.mine = call[c].mine /\ k.doc = call[c].doc
  BY <1>1, <1>3 DEF Applies
<1> HIDE DEF k
<1>5. call'[c] = k
  BY <1>2 DEF Inv, TypesOK
<1>6. Kept
  BY <1>1, <1>2, NothingGone, DebtorsWait DEF tables, history
<1>7. TypesOK'
  BY <1>1, <1>2, <1>4 DEF Inv, TypesOK, tables
<1>8. PricesAccounted'
  BY <1>1, <1>6 DEF Inv, PricesAccounted, Kept, tables
<1>9. CallOK(c)'
  BY <1>1, <1>4, <1>5 DEF CallOK, ApplyOK, EditOK, ReadAccounted, MineAccounted, Mine, tables
<1> QED  BY <1>1, <1>2, <1>6, <1>7, <1>8, <1>9, StepKeeps DEF tables

\* The prices a transaction reads, its own or those in the table, are accounted for.
LEMMA ReadPricesKeeps ==
  ASSUME Inv, NEW c \in Clients, ReadPrices(c)
  PROVE  Inv'
<1>1. /\ call[c].pc = "apply" /\ call[c] \in Applies /\ CallOK(c)
      /\ UNCHANGED <<tables, calls, history>>
  BY CallSorts DEF Inv, ReadPrices
<1>2. PICK line \in call[c].todo :
        LET p == line[1]
            read == IF p \in Mine(c) THEN call[c].mine[p] ELSE prices[p]
        IN  call' = IF read = NULL THEN [call EXCEPT ![c].todo = @ \ {line}]
                    ELSE [call EXCEPT ![c].pc = "write", ![c].line = line, ![c].read = read]
  BY DEF ReadPrices
<1>3. PICK read : read = IF line[1] \in Mine(c) THEN call[c].mine[line[1]] ELSE prices[line[1]]
  OBVIOUS
<1>4. line \in Lines /\ line[1] \in Products
  BY <1>1 DEF Applies, Lines
<1>5. read \in PriceLists \cup {NULL}
  BY <1>1, <1>3, <1>4 DEF Inv, TypesOK, Applies, Mine
<1>6. read # NULL => \A t \in PriceTypes \ {call[c].target} : Accounted(line[1], t, read[t])
  <2>1. CASE line[1] \in Mine(c)
    BY <1>1, <1>3, <2>1 DEF CallOK, MineAccounted
  <2>2. CASE line[1] \notin Mine(c)
    BY <1>3, <1>4, <2>2 DEF Inv, PricesAccounted
  <2> QED  BY <2>1, <2>2
<1>7. PICK k \in Applies :
        /\ call' = [call EXCEPT ![c] = k]
        /\ k.mine = call[c].mine /\ k.doc = call[c].doc /\ k.target = call[c].target
        /\ k.pc = "apply" \/ (k.pc = "write" /\ k.line = line /\ k.read = read /\ read # NULL)
  <2>1. CASE read = NULL
    <3> DEFINE k == [call[c] EXCEPT !.todo = @ \ {line}]
    <3>1. /\ k \in Applies /\ k.pc = "apply" /\ k.mine = call[c].mine /\ k.doc = call[c].doc
          /\ k.target = call[c].target
      BY <1>1 DEF Applies
    <3>2. call' = [call EXCEPT ![c] = k]
      BY <1>2, <1>3, <2>1
    <3> QED  BY <3>1, <3>2
  <2>2. CASE read # NULL
    <3> DEFINE k == [call[c] EXCEPT !.pc = "write", !.line = line, !.read = read]
    <3>1. /\ k \in Applies /\ k.pc = "write" /\ k.mine = call[c].mine /\ k.doc = call[c].doc
          /\ k.target = call[c].target /\ k.line = line /\ k.read = read
      BY <1>1, <1>4, <1>5 DEF Applies
    <3>2. call' = [call EXCEPT ![c] = k]
      BY <1>2, <1>3, <2>2
    <3> QED  BY <2>2, <3>1, <3>2
  <2> QED  BY <2>1, <2>2
<1>8. call'[c] = k
  BY <1>7 DEF Inv, TypesOK
<1>9. Kept
  BY <1>1, <1>7, NothingGone, DebtorsWait DEF tables, history
<1>10. TypesOK'
  BY <1>1, <1>7 DEF Inv, TypesOK, tables
<1>11. PricesAccounted'
  BY <1>1, <1>9 DEF Inv, PricesAccounted, Kept, tables
<1>12. CallOK(c)'
  <2>1. Mine(c)' = Mine(c) /\ Mine(c) = DOMAIN call[c].mine
    BY <1>1, <1>7, <1>8 DEF Mine
  <2>2. ApplyOK(c)'
    BY <1>1, <1>4, <1>5, <1>7, <1>8, <2>1 DEF CallOK, ApplyOK, tables
  <2>3. ReadAccounted(c)'
    BY <1>6, <1>7, <1>8, <1>9 DEF ReadAccounted, Kept
  <2>4. MineAccounted(c)'
    BY <1>1, <1>7, <1>8, <1>9, <2>1 DEF CallOK, MineAccounted, Kept
  <2>5. EditOK(c)'
    BY <1>7, <1>8 DEF EditOK
  <2> QED  BY <2>2, <2>3, <2>4, <2>5 DEF CallOK
<1> QED  BY <1>1, <1>7, <1>9, <1>10, <1>11, <1>12, StepKeeps DEF tables

\* What it writes are the prices it has read, and that of its line.
LEMMA WritePricesKeeps ==
  ASSUME Inv, NEW c \in Clients, WritePrices(c)
  PROVE  Inv'
<1> DEFINE p == call[c].line[1]
           new == [call[c].read EXCEPT ![call[c].target] = call[c].line[2]]
           mine == [q \in Mine(c) \cup {p} |-> IF q = p THEN new ELSE call[c].mine[q]]
           k == [call[c] EXCEPT !.pc = "apply", !.todo = @ \ {call[c].line},
                   !.line = NULL, !.read = NULL, !.mine = mine]
<1>1. /\ call[c].pc = "write" /\ call[c] \in Applies /\ CallOK(c)
      /\ call' = [call EXCEPT ![c] = k]
      /\ UNCHANGED <<tables, calls, history>>
  BY CallSorts DEF Inv, WritePrices
<1>2. /\ p \in Products /\ call[c].line[2] \in Values /\ call[c].target \in PriceTypes
      /\ call[c].read \in PriceLists
  BY <1>1 DEF CallOK, ApplyOK, Lines, Applies
<1>3. new \in PriceLists /\ new[call[c].target] \in Values
      /\ \A t \in PriceTypes \ {call[c].target} : new[t] = call[c].read[t]
  BY <1>2 DEF PriceLists
<1> HIDE DEF new
<1>4. PICK P \in SUBSET Products : Mine(c) = P /\ call[c].mine \in [P -> PriceLists]
  BY <1>1 DEF Applies, Mine
<1>5. mine \in UNION {[Q -> PriceLists] : Q \in SUBSET Products}
  <2>1. \A q \in P \cup {p} : mine[q] \in PriceLists
    <3>1. \A q \in P : call[c].mine[q] \in PriceLists
      BY <1>4
    <3> QED  BY <1>3, <1>4, <3>1
  <2>2. mine \in [P \cup {p} -> PriceLists]
    BY <1>4, <2>1
  <2> QED  BY <1>2, <2>2
<1>6. DOMAIN mine = Mine(c) \cup {p} /\ mine[p] = new
      /\ \A q \in Mine(c) \ {p} : mine[q] = call[c].mine[q]
  OBVIOUS
<1> HIDE DEF mine
<1>7. /\ k \in Applies /\ k.pc = "apply" /\ k.mine = mine /\ k.doc = call[c].doc
      /\ k.target = call[c].target
  BY <1>1, <1>5 DEF Applies
<1> HIDE DEF k
<1>8. call'[c] = k
  BY <1>1 DEF Inv, TypesOK
<1>9. Kept
  BY <1>1, NothingGone, DebtorsWait DEF tables, history
<1>10. TypesOK'
  BY <1>1, <1>7 DEF Inv, TypesOK, tables
<1>11. PricesAccounted'
  BY <1>1, <1>9 DEF Inv, PricesAccounted, Kept, tables
<1>12. CallOK(c)'
  <2>1. Mine(c)' = Mine(c) \cup {p}
    BY <1>6, <1>7, <1>8 DEF Mine
  <2>2. ApplyOK(c)'
    BY <1>1, <1>3, <1>6, <1>7, <1>8, <2>1 DEF CallOK, ApplyOK, tables
  <2>3. MineAccounted(c)'
    <3>1. \A t \in PriceTypes \ {call[c].target} : Accounted(p, t, new[t])
      BY <1>1, <1>3 DEF CallOK, ReadAccounted
    <3>2. ASSUME NEW q \in Mine(c) \cup {p}, NEW t \in PriceTypes \ {call[c].target}
          PROVE  Accounted(q, t, mine[q][t])
      BY <1>1, <1>6, <3>1 DEF CallOK, MineAccounted
    <3> QED  BY <1>7, <1>8, <1>9, <2>1, <3>2 DEF MineAccounted, Kept
  <2>4. EditOK(c)' /\ ReadAccounted(c)'
    BY <1>7, <1>8 DEF EditOK, ReadAccounted
  <2> QED  BY <2>2, <2>3, <2>4 DEF CallOK
<1> QED  BY <1>1, <1>9, <1>10, <1>11, <1>12, StepKeeps DEF tables

\* COMMIT: the prices of the document's own type are journaled here, those of the
\* others are accounted for since they were read.
LEMMA CommitApplyKeeps ==
  ASSUME Inv, NEW c \in Clients, CommitApply(c)
  PROVE  Inv'
<1>1. /\ call[c].pc = "apply" /\ call[c] \in Applies /\ CallOK(c)
      /\ call' = [call EXCEPT ![c] = Idle]
      /\ journal' = (journal \ call[c].gone) \cup Applied(c)
      /\ forgotten' = forgotten \cup PricesOf(call[c].gone)
      /\ UNCHANGED <<calls, unlogged>>
  BY CallSorts DEF Inv, CommitApply, Done
<1>2. PICK target \in PriceTypes : target = call[c].target
  BY <1>1 DEF Applies
<1>3. PICK P \in SUBSET Products : Mine(c) = P /\ call[c].mine \in [P -> PriceLists]
  BY <1>1 DEF Applies, Mine
<1>4. Kept
  <2>1. Remembered
    BY <1>1 DEF Remembered, PricesOf
  <2> QED  BY <1>1, <2>1, DebtorsWait
<1>5. Applied(c) \subseteq Rows
  <2>1. call[c].date \in Int /\ call[c].by \in PriceDocuments \X Int
    BY <1>1 DEF Applies
  <2>2. \A p \in Mine(c) : p \in Products /\ call[c].mine[p][target] \in Values
    BY <1>1, <1>2, <1>3 DEF CallOK, ApplyOK
  <2> QED  BY <1>2, <2>1, <2>2 DEF Applied, EntriesOf, Entry, Rows
<1>6. prices' \in [Products -> PriceLists \cup {NULL}]
  BY <1>3 DEF CommitApply, Inv, TypesOK
<1>7. document' \in [PriceDocuments -> DocumentRows \cup {NULL}]
      /\ \A d \in PriceDocuments : document[d] \in DocumentRows => document'[d] \in DocumentRows
  <2>1. call[c].doc \in PriceDocuments /\ document[call[c].doc] \in DocumentRows
    BY <1>1 DEF Applies, CallOK, ApplyOK
  <2>2. [document[call[c].doc] EXCEPT !.status = "APPLIED"] \in DocumentRows
    BY <2>1 DEF DocumentRows
  <2> QED  BY <2>1, <2>2 DEF CommitApply, Inv, TypesOK
<1>8. call'[c] = Idle
  BY <1>1 DEF Inv, TypesOK
<1>9. TypesOK'
  BY <1>1, <1>5, <1>6, <1>7 DEF Inv, TypesOK
<1>10. PricesAccounted'
  <2> SUFFICES ASSUME NEW p \in Products, NEW t \in PriceTypes, NEW v,
                      prices'[p] # NULL, v = prices'[p][t]
               PROVE  Accounted(p, t, v)'
    BY DEF PricesAccounted, Accounted
  <2>1. CASE p \notin Mine(c)
    BY <1>4, <2>1 DEF CommitApply, Inv, PricesAccounted, Kept
  <2>2. CASE p \in Mine(c) /\ t # target
    BY <1>1, <1>2, <1>4, <2>2 DEF CommitApply, CallOK, MineAccounted, Kept
  <2>3. CASE p \in Mine(c) /\ t = target
    <3>1. v = call[c].mine[p][target]
      BY <2>3 DEF CommitApply
    <3>2. Entry(p, target, v, call[c].date, "applied", call[c].by) \in journal'
      BY <1>1, <1>2, <2>3, <3>1 DEF Applied, EntriesOf
    <3> QED  BY <2>3, <3>2 DEF Accounted, Journaled, Entry
  <2> QED  BY <2>1, <2>2, <2>3
<1> QED  BY <1>1, <1>4, <1>7, <1>8, <1>9, <1>10, IdleCallOK, StepKeeps

-----------------------------------------------------------------------------
(* The calls that create and edit a product.                               *)

\* A call that has written its prices owes those to the journal that it has yet
\* to write.
LEMMA WriterOwes ==
  ASSUME NEW c \in Clients, NEW p, NEW new, NEW t \in PriceTypes,
         call'[c].pc \in {"again", "journal"}, call'[c].product = p, call'[c].new = new,
         call'[c].todo = Listed(new), new # NULL
  PROVE  Accounted(p, t, new[t])'
BY DEF Accounted, Owes, Listed

\* The first statement of both calls.
LEMMA FirstWriteKeeps ==
  ASSUME Inv, NEW c \in Clients, NEW p \in Products, NEW new \in PriceLists \cup {NULL},
         NEW pc \in {"again", "journal"}, NEW op \in {"create", "edit"},
         Calls(c),
         prices' = [prices EXCEPT ![p] = IF new = NULL THEN @ ELSE new],
         call' = [call EXCEPT ![c] =
           [pc |-> pc, op |-> op, product |-> p, new |-> new, todo |-> Listed(new)]],
         UNCHANGED <<document, journal, history>>
  PROVE  Inv'
<1> DEFINE k == [pc |-> pc, op |-> op, product |-> p, new |-> new, todo |-> Listed(new)]
<1>1. Listed(new) \in SUBSET PriceTypes
  BY DEF Listed
<1>2. /\ k \in Edits /\ k.pc = pc /\ k.product = p /\ k.new = new /\ k.todo = Listed(new)
      /\ call' = [call EXCEPT ![c] = k]
  BY <1>1 DEF Edits
<1> HIDE DEF k
<1>3. call'[c] = k
  BY <1>2 DEF Inv, TypesOK
<1>4. Kept
  BY <1>2, NothingGone, DebtorsWait DEF Calls, history
<1>5. TypesOK'
  BY <1>2, TimeAssumption DEF Inv, TypesOK, Calls
<1>6. PricesAccounted'
  <2> SUFFICES ASSUME NEW q \in Products, NEW t \in PriceTypes, NEW v,
                      prices'[q] # NULL, v = prices'[q][t]
               PROVE  Accounted(q, t, v)'
    BY DEF PricesAccounted, Accounted
  <2>1. CASE q = p /\ new # NULL
    <3>1. v = new[t]  BY <2>1 DEF Inv, TypesOK
    <3> QED  BY <1>2, <1>3, <2>1, <3>1, WriterOwes
  <2>2. CASE q # p \/ new = NULL
    BY <1>4, <2>2 DEF Inv, TypesOK, PricesAccounted, Kept
  <2> QED  BY <2>1, <2>2
<1>7. CallOK(c)'
  BY <1>2, <1>3 DEF CallOK, ApplyOK, EditOK, ReadAccounted, MineAccounted, Mine, Listed
<1> QED  BY <1>2, <1>4, <1>5, <1>6, <1>7, StepKeeps

\* The statement that writes prices of a new or an existing product.
LEMMA WritesKeep ==
  ASSUME Inv, NEW c \in Clients, NEW p \in Products, NEW new \in Sent,
         (CreateProduct(c, p, new) /\ new # NULL) \/ UpdateProduct(c, p, new)
  PROVE  Inv'
<1>1. new \in PriceLists \cup {NULL}
  BY TimeAssumption DEF PriceLists
<1>2. CASE CreateProduct(c, p, new) /\ new # NULL
  BY <1>1, <1>2, FirstWriteKeeps DEF CreateProduct
<1>3. CASE UpdateProduct(c, p, new)
  BY <1>1, <1>3, FirstWriteKeeps DEF UpdateProduct
<1> QED  BY <1>2, <1>3

\* The second UPDATE writes the prices that the call owes, or no prices at all.
LEMMA UpdateAgainKeeps ==
  ASSUME Inv, NEW c \in Clients, UpdateAgain(c)
  PROVE  Inv'
<1> DEFINE p == call[c].product
           new == call[c].new
           k == [call[c] EXCEPT !.pc = "journal"]
<1>1. /\ call[c].pc = "again" /\ call[c] \in Edits /\ CallOK(c)
      /\ call' = [call EXCEPT ![c] = k]
      /\ prices' = [prices EXCEPT ![p] = IF new = NULL THEN NoPrices ELSE new]
      /\ UNCHANGED <<document, journal, calls, history>>
  BY CallSorts DEF Inv, UpdateAgain
<1>2. p \in Products /\ new \in PriceLists \cup {NULL}
  BY <1>1 DEF Edits
<1>3. /\ k \in Edits /\ k.pc = "journal" /\ k.product = p /\ k.new = new
      /\ k.todo = call[c].todo /\ k.todo = Listed(new)
  BY <1>1 DEF Edits, CallOK, EditOK
<1> HIDE DEF k
<1>4. call'[c] = k
  BY <1>1 DEF Inv, TypesOK
<1>5. Kept
  <2>1. ASSUME NEW o \in Clients, NEW q, NEW t, NEW v, Owes(o, q, t, v)
        PROVE  Owes(o, q, t, v)'
    <3>1. CASE o = c
      BY <1>3, <1>4, <2>1, <3>1 DEF Owes
    <3>2. CASE o # c
      BY <1>1, <2>1, <3>2 DEF Owes
    <3> QED  BY <3>1, <3>2
  <2> QED  BY <1>1, <2>1, NothingGone, StaysAccounted DEF Accounted, history
<1>6. TypesOK'
  <2>1. NoPrices \in PriceLists
    BY DEF NoPrices, PriceLists
  <2>2. prices' \in [Products -> PriceLists \cup {NULL}]
    BY <1>1, <1>2, <2>1 DEF Inv, TypesOK
  <2> QED  BY <1>1, <1>3, <2>2 DEF Inv, TypesOK
<1>7. PricesAccounted'
  <2> SUFFICES ASSUME NEW q \in Products, NEW t \in PriceTypes, NEW v,
                      prices'[q] # NULL, v = prices'[q][t]
               PROVE  Accounted(q, t, v)'
    BY DEF PricesAccounted, Accounted
  <2>1. CASE q # p
    BY <1>1, <1>5, <2>1 DEF Inv, TypesOK, PricesAccounted, Kept
  <2>2. CASE q = p /\ new = NULL
    <3>1. v = NULL  BY <1>1, <2>2 DEF Inv, TypesOK, NoPrices
    <3> QED  BY <3>1 DEF Accounted
  <2>3. CASE q = p /\ new # NULL
    <3>1. v = new[t]  BY <1>1, <2>3 DEF Inv, TypesOK
    <3> QED  BY <1>3, <1>4, <2>3, <3>1, WriterOwes
  <2> QED  BY <2>1, <2>2, <2>3
<1>8. CallOK(c)'
  BY <1>3, <1>4 DEF CallOK, ApplyOK, EditOK, ReadAccounted, MineAccounted, Mine, Listed
<1> QED  BY <1>1, <1>5, <1>6, <1>7, <1>8, StepKeeps

\* The price a call no longer owes is in the journal: it puts it there, or has
\* found it as the latest entry.
LEMMA InsertEntryKeeps ==
  ASSUME Inv, NEW c \in Clients, InsertEntry(c)
  PROVE  Inv'
<1>1. /\ call[c].pc = "journal" /\ call[c] \in Edits /\ CallOK(c)
      /\ UNCHANGED <<prices, document, calls, history>>
  BY CallSorts DEF Inv, InsertEntry
<1>2. PICK t \in call[c].todo :
        /\ \/ journal' = journal \cup {Entry(call[c].product, t, call[c].new[t], Now, "manual", NULL)}
           \/ /\ \E e \in Latest(call[c].product, t) : e.newPrice = call[c].new[t]
              /\ journal' = journal
        /\ call' = [call EXCEPT ![c].todo = @ \ {t}]
  BY DEF InsertEntry
<1> DEFINE k == [call[c] EXCEPT !.todo = @ \ {t}]
<1>3. PICK p, new : p = call[c].product /\ new = call[c].new
  OBVIOUS
<1>4. t \in PriceTypes /\ new[t] \in Values
  BY <1>1, <1>3 DEF CallOK, EditOK, Edits, Listed, PriceLists
<1>5. /\ k \in Edits /\ k.pc = "journal" /\ k.product = p /\ k.new = new
      /\ k.todo = call[c].todo \ {t} /\ call' = [call EXCEPT ![c] = k]
  BY <1>1, <1>2, <1>3 DEF Edits
<1> HIDE DEF k
<1>6. call'[c] = k
  BY <1>5 DEF Inv, TypesOK
<1>7. /\ journal \subseteq journal'
      /\ \E e \in journal' : e.product = p /\ e.type = t /\ e.newPrice = new[t]
  <2>1. CASE journal' = journal \cup {Entry(p, t, new[t], Now, "manual", NULL)}
    <3> DEFINE e == Entry(p, t, new[t], Now, "manual", NULL)
    <3>1. e.product = p /\ e.type = t /\ e.newPrice = new[t]
      BY DEF Entry
    <3> QED  BY <2>1, <3>1
  <2>2. CASE journal' = journal /\ \E e \in Latest(p, t) : e.newPrice = new[t]
    BY <2>2 DEF Latest
  <2> QED  BY <1>2, <1>3, <2>1, <2>2
<1>8. Kept
  <2>1. ASSUME NEW o \in Clients, NEW q, NEW u, NEW v, Owes(o, q, u, v)
        PROVE  Accounted(q, u, v)'
    <3>1. CASE o = c /\ u = t
      BY <1>3, <1>7, <2>1, <3>1 DEF Owes, Accounted, Journaled
    <3>2. CASE o # c \/ u # t
      <4>1. Owes(o, q, u, v)'
        BY <1>1, <1>3, <1>5, <1>6, <2>1, <3>2 DEF Owes
      <4> QED  BY <4>1 DEF Accounted
    <3> QED  BY <3>1, <3>2
  <2> QED  BY <1>1, <1>7, <2>1, NothingGone, StaysAccounted DEF history
<1>9. TypesOK'
  <2>1. Entry(p, t, new[t], Now, "manual", NULL) \in Rows
    BY <1>1, <1>3, <1>4, TimesAreTimes DEF Inv, Edits, Entry, Rows
  <2>2. journal' \in SUBSET Rows
    BY <1>2, <1>3, <2>1 DEF Inv, TypesOK
  <2> QED  BY <1>1, <1>5, <2>2 DEF Inv, TypesOK
<1>10. PricesAccounted'
  BY <1>1, <1>8 DEF Inv, PricesAccounted, Kept
<1>11. CallOK(c)'
  BY <1>1, <1>3, <1>5, <1>6
     DEF CallOK, ApplyOK, EditOK, ReadAccounted, MineAccounted, Mine, Listed
<1> QED  BY <1>1, <1>5, <1>8, <1>9, <1>10, <1>11, StepKeeps

\* A call ends when it owes nothing any more, and a call that fails leaves what it
\* owes out of the journal.
LEMMA EndKeeps ==
  ASSUME Inv, NEW c \in Clients, EndProduct(c) \/ Fail(c)
  PROVE  Inv'
<1>1. /\ call' = [call EXCEPT ![c] = Idle] /\ UNCHANGED <<prices, document, journal, calls>>
      /\ unlogged \subseteq unlogged' /\ forgotten' = forgotten
  BY DEF EndProduct, Fail, Done, tables, history
<1>2. call'[c] = Idle
  BY <1>1 DEF Inv, TypesOK
<1>3. Kept
  <2>1. ASSUME NEW o \in Clients, NEW q, NEW t, NEW v, Owes(o, q, t, v)
        PROVE  Accounted(q, t, v)'
    <3>1. CASE o = c
      <4>1. Fail(c) /\ call[c].pc \in {"again", "journal"} /\ call[c].product = q
            /\ t \in call[c].todo
            /\ call[c].new[t] = v
        BY <2>1, <3>1 DEF Owes, EndProduct
      <4> QED  BY <4>1 DEF Fail, Accounted
    <3>2. CASE o # c
      <4>1. Owes(o, q, t, v)'
        BY <1>1, <2>1, <3>2 DEF Owes
      <4> QED  BY <4>1 DEF Accounted
    <3> QED  BY <3>1, <3>2
  <2> QED  BY <1>1, <2>1, NothingGone, StaysAccounted
<1>4. TypesOK'
  BY <1>1 DEF Inv, TypesOK
<1>5. PricesAccounted'
  BY <1>1, <1>3 DEF Inv, PricesAccounted, Kept
<1> QED  BY <1>1, <1>2, <1>3, <1>4, <1>5, IdleCallOK, StepKeeps

-----------------------------------------------------------------------------
(* The invariant holds in every state.                                     *)

\* Initially the prices are those the journal was written with.
LEMMA InitInv == Init => Inv
<1> SUFFICES ASSUME Init PROVE Inv
  OBVIOUS
<1>1. prices \in [Products -> PriceLists \cup {NULL}]
  BY TimeAssumption DEF Init, PriceLists
<1>2. journal \in SUBSET Rows
  <2>1. ASSUME NEW x \in Products \X PriceTypes,
               prices[x[1]] # NULL, prices[x[1]][x[2]] # NULL
        PROVE  Entry(x[1], x[2], prices[x[1]][x[2]], -1, "manual", NULL) \in Rows
    BY <1>1, <2>1 DEF PriceLists, Entry, Rows
  <2> QED  BY <2>1 DEF Init
<1>3. document \in [PriceDocuments -> DocumentRows \cup {NULL}]
  <2>1. Drafts \subseteq DocumentRows
    BY DraftsAssumption DEF DocumentRows
  <2> QED  BY <2>1 DEF Init
<1>4. TypesOK
  BY <1>1, <1>2, <1>3, TimeAssumption DEF Init, TypesOK
<1>5. PricesAccounted
  <2> SUFFICES ASSUME NEW p \in Products, NEW t \in PriceTypes,
                      prices[p] # NULL, prices[p][t] # NULL
               PROVE  \E e \in journal :
                        e.product = p /\ e.type = t /\ e.newPrice = prices[p][t]
    BY DEF PricesAccounted, Accounted, Journaled
  <2> DEFINE e == Entry(p, t, prices[p][t], -1, "manual", NULL)
             x == <<p, t>>
  <2>1. x \in Products \X PriceTypes /\ x[1] = p /\ x[2] = t
    OBVIOUS
  <2> HIDE DEF x
  <2>2. e \in journal
    BY <2>1 DEF Init
  <2>3. e.product = p /\ e.type = t /\ e.newPrice = prices[p][t]
    BY DEF Entry
  <2> QED  BY <2>2, <2>3
<1>6. \A c \in Clients : CallOK(c)
  BY DEF Init, CallOK, ApplyOK, EditOK, ReadAccounted, MineAccounted, Mine, Idle
<1> QED  BY <1>4, <1>5, <1>6 DEF Inv

\* Every step keeps it.
LEMMA NextInv ==
  ASSUME Inv, [Next]_vars
  PROVE  Inv'
<1>1. CASE UNCHANGED vars
  <2>1. \A c \in Clients : CallOK(c) => CallOK(c)'
    BY <1>1 DEF vars, tables, history, CallOK, ApplyOK, EditOK, ReadAccounted, MineAccounted,
                Mine, Listed, Accounted, Journaled, Owes
  <2>2. TypesOK' /\ PricesAccounted'
    BY <1>1 DEF Inv, vars, tables, history, TypesOK, PricesAccounted, Accounted, Journaled, Owes
  <2> QED  BY <2>1, <2>2 DEF Inv
<1>2. ASSUME NEW c \in Clients, NEW d \in PriceDocuments,
             \/ \E date \in Dates \cup {NULL}, t \in PriceTypes :
                  createDocument(c, d, date, t) \/ updateDocument(c, d, date, t)
             \/ \E items \in ItemLists : updateDocumentItems(c, d, items)
             \/ \E copy \in PriceDocuments : copyDocument(c, d, copy)
             \/ resetDocument(c, d)
      PROVE  Inv'
  BY <1>2, HeadsKeep, ItemsKeep, CopyKeeps, ResetKeeps
<1>3. ASSUME NEW c \in Clients, NEW d \in PriceDocuments, NEW repost \in BOOLEAN,
             BeginApply(c, d, repost)
      PROVE  Inv'
  BY <1>3, BeginKeeps
<1>4. ASSUME NEW c \in Clients,
             \/ ReadItems(c) \/ ReadPrices(c) \/ WritePrices(c) \/ CommitApply(c)
             \/ UpdateAgain(c) \/ InsertEntry(c) \/ EndProduct(c) \/ Fail(c)
      PROVE  Inv'
  BY <1>4, ReadItemsKeeps, ReadPricesKeeps, WritePricesKeeps, CommitApplyKeeps,
     UpdateAgainKeeps, InsertEntryKeeps, EndKeeps
<1>5. ASSUME NEW c \in Clients, NEW p \in Products, NEW new \in Sent,
             (CreateProduct(c, p, new) /\ new # NULL) \/ UpdateProduct(c, p, new)
      PROVE  Inv'
  BY <1>5, WritesKeep
<1> QED  BY <1>1, <1>2, <1>3, <1>4, <1>5 DEF Next

\* So it holds in every state of a behaviour.
LEMMA SpecInv ==
  Spec => []Inv
BY InitInv, NextInv, PTL DEF Spec

-----------------------------------------------------------------------------
\* The types of the tables hold in every state (TypeOK).
THEOREM TypeCorrect ==
  Spec => []TypeOK
<1>1. Inv => TypeOK
  BY DEF Inv, TypesOK, TypeOK, DocumentRows, Rows
<1> QED  BY <1>1, SpecInv, PTL

\* Whatever calls overlap, every price a product has is known to the journal, or
\* owed to it by a call that runs or has failed, or was deleted from it by a reset
\* (EveryPriceJournaled).
THEOREM JournalKnowsPrices ==
  Spec => []EveryPriceJournaled
<1>1. Inv => EveryPriceJournaled
  BY DEF Inv, PricesAccounted, Accounted, EveryPriceJournaled
<1> QED  BY <1>1, SpecInv, PTL

=============================================================================

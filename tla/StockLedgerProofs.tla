------------------------- MODULE StockLedgerProofs --------------------------
(***************************************************************************)
(* Proofs about the stock ledger for any number of documents, products and *)
(* batches and incoming quantities of either sign (an outgoing line asks   *)
(* for 0 or more): the tables keep their types, every unit that came in is *)
(* on stock or was taken by a document, no receipt can be edited or        *)
(* unposted in a way that loses track of sold goods, stock and documents   *)
(* agree, and so do the reports on stock.                                  *)
(***************************************************************************)
EXTENDS StockReports, QuantitiesProofs

\* A batch of a document belongs to a POSTED one: batches appear with post
\* and disappear with unpost.
BatchOfPosted ==
  \A b \in DOMAIN ProductBatch : ProductBatch[b].source # NULL =>
    /\ ProductBatch[b].source \in DOMAIN inbound
    /\ inbound[ProductBatch[b].source].status = "POSTED"

\* The rows of what was taken point at existing batches (foreign key, cascade).
TakenFromRows ==
  \A d \in Outbound, b \in BatchIds :
    b \notin DOMAIN ProductBatch => deducted[d][b] = 0

\* A document that is not POSTED holds nothing.
DraftHoldsNothing ==
  \A d \in Outbound : (d \in DOMAIN outbound => outbound[d].status # "POSTED")
    => \A b \in BatchIds : deducted[d][b] = 0

\* No document took from a batch that was entered negative.
NegativeUntouched ==
  \A b \in DOMAIN ProductBatch : ProductBatch[b].quantityLeft < 0 =>
    \A d \in Outbound : deducted[d][b] = 0

\* The inductive invariant.
Inv ==
  /\ TypeOK
  /\ NegativeUntouched
  /\ BatchOfPosted
  /\ TakenFromRows
  /\ DraftHoldsNothing
  /\ StockConserved

-----------------------------------------------------------------------------
(* Sums over batches.                                                      *)

\* Sets of batches are finite.
LEMMA BatchesFinite ==
  ASSUME TypeOK, NEW B \in SUBSET DOMAIN ProductBatch
  PROVE  IsFiniteSet(B)
BY FiniteAssumption, FS_Subset DEF TypeOK, IsTable

\* What was taken from a batch is a quantity.
LEMMA TakenNat ==
  ASSUME TypeOK, NEW b \in BatchIds
  PROVE  Taken(b) \in Nat
BY FiniteAssumption, TotalNat DEF Taken, TypeOK

\* What was taken from a set of batches is a quantity, what is left and what came
\* in are integers.
LEMMA SumsTyped ==
  ASSUME TypeOK, NEW B \in SUBSET DOMAIN ProductBatch
  PROVE  LeftOf(B) \in Int /\ TotalOf(B) \in Int /\ TakenFrom(B) \in Nat
<1>1. IsFiniteSet(B)  BY BatchesFinite
<1>2. B \subseteq BatchIds  BY DEF TypeOK, IsTable
<1>3. \A b \in B : /\ ProductBatch[b].quantityLeft \in Int
                   /\ ProductBatch[b].quantityTotal \in Int
  BY DEF TypeOK, IsTable, BatchRow
<1>4. \A b \in B : Taken(b) \in Nat
  BY <1>2, TakenNat
<1>5. TakenFrom(B) \in Nat
  BY <1>1, <1>4, TotalNat DEF TakenFrom
<1>6. LeftOf(B) \in Int
  BY <1>1, <1>3, NetInt DEF LeftOf
<1>7. TotalOf(B) \in Int
  BY <1>1, <1>3, NetInt DEF TotalOf
<1> QED  BY <1>5, <1>6, <1>7

\* Only the rows of a group and what was taken from them matter to its sums.
LEMMA SameGroup ==
  ASSUME NEW s, NEW p, Group(s, p)' = Group(s, p),
         \A b \in Group(s, p) :
           /\ ProductBatch'[b].quantityLeft = ProductBatch[b].quantityLeft
           /\ ProductBatch'[b].quantityTotal = ProductBatch[b].quantityTotal
           /\ \A d \in Outbound : deducted'[d][b] = deducted[d][b]
  PROVE  /\ LeftOf(Group(s, p))' = LeftOf(Group(s, p))
         /\ TotalOf(Group(s, p))' = TotalOf(Group(s, p))
         /\ TakenFrom(Group(s, p))' = TakenFrom(Group(s, p))
<1> DEFINE G == Group(s, p)
<1>1. LeftOf(G)' = Net([b \in G |-> ProductBatch'[b].quantityLeft], G)
  BY DEF LeftOf
<1>2. TotalOf(G)' = Net([b \in G |-> ProductBatch'[b].quantityTotal], G)
  BY DEF TotalOf
<1>3. TakenFrom(G)' = Total([b \in G |-> Taken(b)'], G)
  BY DEF TakenFrom
<1>4. \A b \in G : Taken(b)' = Taken(b)
  <2> TAKE b \in G
  <2>1. Taken(b)' = Total([d \in Outbound |-> deducted'[d][b]], Outbound)
    BY DEF Taken
  <2> QED  BY <2>1, TotalEqual DEF Taken
<1> HIDE DEF G
<1>5. LeftOf(G)' = LeftOf(G)
  BY <1>1, NetEqual DEF LeftOf, G
<1>6. TotalOf(G)' = TotalOf(G)
  BY <1>2, NetEqual DEF TotalOf, G
<1>7. TakenFrom(G)' = TakenFrom(G)
  BY <1>3, <1>4, TotalEqual DEF TakenFrom
<1> QED  BY <1>5, <1>6, <1>7 DEF G

-----------------------------------------------------------------------------
(* The steps that change documents only.                                   *)

\* Batches that stay as they are, new ones that nobody took from, and those that
\* hold no less than nothing leave no batch overdrawn.
LEMMA NegativeStep ==
  ASSUME Inv, \A b \in DOMAIN ProductBatch' :
    \/ ~(ProductBatch'[b].quantityLeft < 0)
    \/ /\ ProductBatch'[b].quantityLeft = ProductBatch'[b].quantityTotal
       /\ \A d \in Outbound : deducted'[d][b] = 0
    \/ /\ b \in DOMAIN ProductBatch
       /\ ProductBatch'[b].quantityLeft = ProductBatch[b].quantityLeft
       /\ ProductBatch'[b].quantityTotal = ProductBatch[b].quantityTotal
       /\ \A d \in Outbound : deducted'[d][b] = deducted[d][b]
  PROVE  NothingOverdrawn' /\ NegativeUntouched'
BY DEF Inv, TypeOK, NothingOverdrawn, NegativeUntouched

\* With batches and rows as they were, the part of Inv about them holds again.
LEMMA SameStock ==
  ASSUME Inv, UNCHANGED <<ProductBatch, deducted>>
  PROVE  StockConserved' /\ TakenFromRows' /\ NegativeUntouched'
<1>1. ASSUME NEW s \in Inbound, NEW p \in Products
      PROVE  (LeftOf(Group(s, p)) + TakenFrom(Group(s, p)) = TotalOf(Group(s, p)))'
  <2>1. Group(s, p)' = Group(s, p)  BY DEF Group
  <2>2. /\ LeftOf(Group(s, p))' = LeftOf(Group(s, p))
        /\ TotalOf(Group(s, p))' = TotalOf(Group(s, p))
        /\ TakenFrom(Group(s, p))' = TakenFrom(Group(s, p))
    BY <2>1, SameGroup
  <2> QED  BY <2>2 DEF Inv, StockConserved
<1>2. TakenFromRows' /\ NegativeUntouched'
  BY DEF Inv, TypeOK, TakenFromRows, NegativeUntouched
<1> QED  BY <1>1, <1>2 DEF StockConserved

\* create and update of an incoming document that is not POSTED.
LEMMA CreateInboundInv ==
  ASSUME Inv, NEW s \in Inbound, NEW st \in {"SAVED", "DRAFT"},
         NEW w \in Warehouses, NEW t \in Dates, NEW items \in InItems,
         CreateInbound(s, st, w, t, items)
  PROVE  Inv'
<1>1. TypeOK'
  BY DEF Inv, TypeOK, IsTable, NothingOverdrawn, CreateInbound, Put, InRow
<1>2. BatchOfPosted'
  BY DEF Inv, BatchOfPosted, CreateInbound, Put
<1>3. DraftHoldsNothing'
  BY DEF Inv, DraftHoldsNothing, CreateInbound
<1>4. StockConserved' /\ TakenFromRows' /\ NegativeUntouched'
  BY SameStock DEF CreateInbound
<1> QED  BY <1>1, <1>2, <1>3, <1>4 DEF Inv

\* Editing a document that is not POSTED touches no stock.
LEMMA EditInboundInv ==
  ASSUME Inv, NEW s \in Inbound,
         NEW w \in Warehouses, NEW t \in Dates, NEW items \in InItems,
         EditInbound(s, w, t, items)
  PROVE  Inv'
<1>1. TypeOK'
  <2>1. inbound \in [DOMAIN inbound -> InRow] /\ DOMAIN inbound \subseteq Inbound
        /\ s \in DOMAIN inbound
    BY DEF Inv, TypeOK, IsTable, EditInbound
  <2>2. [inbound[s] EXCEPT !.warehouseId = w, !.date = t, !.items = items] \in InRow
    BY <2>1 DEF InRow
  <2>3. inbound' = [inbound EXCEPT ![s] =
          [inbound[s] EXCEPT !.warehouseId = w, !.date = t, !.items = items]]
    BY DEF EditInbound, ReplaceInbound
  <2>4. IsTable(inbound, Inbound, InRow)'
    BY <2>1, <2>2, <2>3 DEF IsTable
  <2> QED  BY <2>4 DEF Inv, TypeOK, NothingOverdrawn, EditInbound
<1>2. BatchOfPosted'
  BY DEF Inv, BatchOfPosted, EditInbound, ReplaceInbound
<1>3. DraftHoldsNothing'
  BY DEF Inv, DraftHoldsNothing, EditInbound
<1>4. StockConserved' /\ TakenFromRows' /\ NegativeUntouched'
  BY SameStock DEF EditInbound
<1> QED  BY <1>1, <1>2, <1>3, <1>4 DEF Inv

\* delete finds no batch to detach: the document is not POSTED.
LEMMA DeleteInboundInv ==
  ASSUME Inv, NEW s \in Inbound, DeleteInbound(s)
  PROVE  Inv'
<1>1. BatchesOf(s) = {}
  BY IdAssumption DEF Inv, BatchOfPosted, DeleteInbound, BatchesOf
<1>2. ProductBatch' = ProductBatch
  BY <1>1 DEF Inv, TypeOK, IsTable, DeleteInbound
<1>3. TypeOK'
  BY <1>2 DEF Inv, TypeOK, IsTable, NothingOverdrawn, DeleteInbound, Without
<1>4. BatchOfPosted'
  BY <1>1, <1>2 DEF Inv, BatchOfPosted, DeleteInbound, Without, BatchesOf
<1>5. DraftHoldsNothing'
  BY DEF Inv, DraftHoldsNothing, DeleteInbound
<1>6. StockConserved' /\ TakenFromRows' /\ NegativeUntouched'
  BY <1>2, SameStock DEF DeleteInbound
<1> QED  BY <1>3, <1>4, <1>5, <1>6 DEF Inv

\* create, edit and delete of an outgoing document that is not POSTED.
LEMMA CreateOutboundInv ==
  ASSUME Inv, NEW d \in Outbound, NEW w \in Warehouses, NEW items \in OutItems,
         NEW o \in Orders \cup {NULL}, CreateOutbound(d, w, items, o),
         orderStatus' \in [Orders -> {"NEW", "ACCEPTED", "COMPLETED"}]
  PROVE  Inv'
<1>1. TypeOK'
  BY DEF Inv, TypeOK, IsTable, NothingOverdrawn, CreateOutbound, Put, OutRow
<1>2. BatchOfPosted'
  BY DEF Inv, BatchOfPosted, CreateOutbound
<1>3. DraftHoldsNothing'
  BY DEF Inv, DraftHoldsNothing, CreateOutbound, Put
<1>4. StockConserved' /\ TakenFromRows' /\ NegativeUntouched'
  BY SameStock DEF CreateOutbound
<1> QED  BY <1>1, <1>2, <1>3, <1>4 DEF Inv

\* Editing an outgoing draft deletes rows it does not have: drafts hold nothing.
LEMMA EditOutboundInv ==
  ASSUME Inv, NEW d \in Outbound, NEW w \in Warehouses, NEW items \in OutItems,
         EditOutbound(d, w, items)
  PROVE  Inv' /\ UNCHANGED deducted
<1>1. deducted' = deducted
  BY DEF Inv, TypeOK, DraftHoldsNothing, EditOutbound
<1>2. TypeOK'
  <2>1. IsTable(outbound, Outbound, OutRow)'
    <3>1. outbound[d] \in OutRow /\ DOMAIN outbound' = DOMAIN outbound
      BY DEF Inv, TypeOK, IsTable, EditOutbound
    <3>2. outbound'[d] \in OutRow
      BY <3>1 DEF Inv, TypeOK, IsTable, EditOutbound, OutRow
    <3> QED  BY <3>1, <3>2 DEF Inv, TypeOK, IsTable, EditOutbound
  <2> QED  BY <1>1, <2>1 DEF Inv, TypeOK, NothingOverdrawn, EditOutbound
<1>3. BatchOfPosted'
  BY DEF Inv, BatchOfPosted, EditOutbound
<1>4. DraftHoldsNothing'
  BY <1>1 DEF Inv, TypeOK, IsTable, DraftHoldsNothing, EditOutbound
<1>5. StockConserved' /\ TakenFromRows' /\ NegativeUntouched'
  <2>1. UNCHANGED ProductBatch
    BY DEF EditOutbound
  <2> QED  BY <1>1, <2>1, SameStock
<1> QED  BY <1>1, <1>2, <1>3, <1>4, <1>5 DEF Inv

\* Marking a draft realization deleted touches no stock.
LEMMA DeleteRealizationInv ==
  ASSUME Inv, NEW d \in Outbound, DeleteRealization(d)
  PROVE  Inv'
<1>1. TypeOK'
  <2>1. outbound \in [DOMAIN outbound -> OutRow] /\ DOMAIN outbound \subseteq Outbound
        /\ d \in DOMAIN outbound
    BY DEF Inv, TypeOK, IsTable, DeleteRealization
  <2>2. [outbound[d] EXCEPT !.isDeleted = TRUE] \in OutRow
    BY <2>1 DEF OutRow
  <2>3. outbound' = [outbound EXCEPT ![d] = [outbound[d] EXCEPT !.isDeleted = TRUE]]
    BY DEF DeleteRealization
  <2>4. IsTable(outbound, Outbound, OutRow)'
    BY <2>1, <2>2, <2>3 DEF IsTable
  <2> QED  BY <2>4 DEF Inv, TypeOK, NothingOverdrawn, DeleteRealization
<1>2. BatchOfPosted'
  BY DEF Inv, BatchOfPosted, DeleteRealization
<1>3. DraftHoldsNothing'
  BY DEF Inv, TypeOK, IsTable, DraftHoldsNothing, DeleteRealization
<1>4. StockConserved' /\ TakenFromRows' /\ NegativeUntouched'
  BY SameStock DEF DeleteRealization
<1> QED  BY <1>1, <1>2, <1>3, <1>4 DEF Inv

\* Deleting a draft supplier return deletes no row of what was taken.
LEMMA DeleteSupplierReturnInv ==
  ASSUME Inv, NEW d \in Outbound, DeleteSupplierReturn(d)
  PROVE  Inv' /\ UNCHANGED deducted
<1>1. deducted' = deducted
  BY DEF Inv, TypeOK, DraftHoldsNothing, DeleteSupplierReturn
<1>2. TypeOK'
  BY <1>1 DEF Inv, TypeOK, IsTable, NothingOverdrawn, DeleteSupplierReturn, Without
<1>3. BatchOfPosted'
  BY DEF Inv, BatchOfPosted, DeleteSupplierReturn
<1>4. DraftHoldsNothing'
  BY <1>1 DEF Inv, TypeOK, IsTable, DraftHoldsNothing, DeleteSupplierReturn, Without
<1>5. StockConserved' /\ TakenFromRows' /\ NegativeUntouched'
  BY <1>1, SameStock DEF DeleteSupplierReturn
<1> QED  BY <1>1, <1>2, <1>3, <1>4, <1>5 DEF Inv

-----------------------------------------------------------------------------
(* The steps that bring goods in.                                          *)

\* The row addStock inserts is a row of the table, and a full batch.
LEMMA NewBatchRow ==
  ASSUME NEW p \in Products, NEW q \in Int, NEW s \in Inbound \cup {NULL},
         NEW t \in Dates
  PROVE  /\ NewBatch(p, q, s, t) \in BatchRow
         /\ NewBatch(p, q, s, t).quantityLeft = NewBatch(p, q, s, t).quantityTotal
         /\ NewBatch(p, q, s, t).quantityTotal = q
         /\ NewBatch(p, q, s, t).source = s
         /\ NewBatch(p, q, s, t).productId = p
BY DEF NewBatch, BatchRow

\* A group of fresh batches is full, and no document has taken from it.
LEMMA FreshGroup ==
  ASSUME Inv, TypeOK', UNCHANGED deducted, NEW s, NEW p,
         Group(s, p)' \subseteq FreeIds,
         \A b \in Group(s, p)' :
           ProductBatch'[b].quantityLeft = ProductBatch'[b].quantityTotal
  PROVE  (LeftOf(Group(s, p)) + TakenFrom(Group(s, p)) = TotalOf(Group(s, p)))'
<1> DEFINE G == Group(s, p)'
<1>1. \A b \in G : Taken(b)' = 0
  <2> TAKE b \in G
  <2>1. \A d \in Outbound : deducted'[d][b] = 0
    BY DEF Inv, TakenFromRows, FreeIds
  <2> QED  BY <2>1, TotalZero DEF Taken
<1>2. TakenFrom(Group(s, p))' = 0
  BY <1>1, TotalZero DEF TakenFrom
<1>3. LeftOf(Group(s, p))' = Net([b \in G |-> ProductBatch'[b].quantityLeft], G)
  BY DEF LeftOf
<1>4. TotalOf(Group(s, p))' = Net([b \in G |-> ProductBatch'[b].quantityTotal], G)
  BY DEF TotalOf
<1>5. LeftOf(Group(s, p))' = TotalOf(Group(s, p))'
  BY <1>3, <1>4, NetEqual
<1>6. LeftOf(Group(s, p))' \in Int
  <2>1. G \subseteq DOMAIN ProductBatch'  BY DEF Group
  <2>2. IsFiniteSet(G)
    BY <2>1, FiniteAssumption, FS_Subset DEF TypeOK, IsTable
  <2>3. \A b \in G : ProductBatch'[b].quantityLeft \in Int
    BY <2>1 DEF BatchRow, TypeOK, IsTable
  <2> QED  BY <1>3, <2>2, <2>3, NetInt
<1> QED  BY <1>2, <1>5, <1>6

\* A batch of no document enters no group of a document.
LEMMA AddArrivalInv ==
  ASSUME Inv, NEW p \in Products, NEW q \in InQuantities, NEW t \in Dates,
         AddArrival(p, q, t)
  PROVE  Inv'
<1>1. PICK b \in FreeIds :
        ProductBatch' = Put(ProductBatch, b, NewBatch(p, q, NULL, t))
  BY DEF AddArrival
<1>2. NewBatch(p, q, NULL, t) \in BatchRow
  BY DataAssumption DEF NewBatch, BatchRow
<1>3. NothingOverdrawn' /\ NegativeUntouched'
  <2>1. \A d \in Outbound : deducted'[d][b] = 0
    BY DEF Inv, TakenFromRows, AddArrival, FreeIds
  <2>2. ProductBatch'[b].quantityLeft = ProductBatch'[b].quantityTotal
    BY <1>1 DEF Put, NewBatch
  <2>3. \A c \in DOMAIN ProductBatch' \ {b} :
          c \in DOMAIN ProductBatch /\ ProductBatch'[c] = ProductBatch[c]
    BY <1>1 DEF Put
  <2> QED  BY <2>1, <2>2, <2>3, NegativeStep DEF AddArrival
<1>7. TypeOK'
  BY <1>1, <1>2, <1>3 DEF Inv, TypeOK, IsTable, AddArrival, Put, FreeIds
<1>4. BatchOfPosted'
  BY <1>1 DEF Inv, BatchOfPosted, AddArrival, Put, NewBatch, FreeIds
<1>5. TakenFromRows' /\ DraftHoldsNothing'
  BY <1>1 DEF Inv, TakenFromRows, DraftHoldsNothing, AddArrival, Put
<1>6. StockConserved'
  <2> SUFFICES ASSUME NEW s \in Inbound, NEW r \in Products
               PROVE  (LeftOf(Group(s, r)) + TakenFrom(Group(s, r)) = TotalOf(Group(s, r)))'
    BY DEF StockConserved
  <2>1. Group(s, r)' = Group(s, r)
    BY <1>1, IdAssumption DEF Group, Put, NewBatch, FreeIds
  <2>2. \A c \in Group(s, r) : ProductBatch'[c] = ProductBatch[c]
    BY <1>1 DEF Group, Put, FreeIds
  <2> QED  BY <2>1, <2>2, SameGroup DEF Inv, StockConserved, AddArrival
<1> QED  BY <1>3, <1>4, <1>5, <1>6, <1>7 DEF Inv

\* post of an incoming document, which had no batches before.
LEMMA PostInboundInv ==
  ASSUME Inv, NEW s \in Inbound, PostInbound(s)
  PROVE  /\ Inv'
         /\ \A r \in Inbound, p \in Products : TotalOf(Group(r, p))' =
              IF r = s THEN QuantityOf(inbound[s].items, p) ELSE TotalOf(Group(r, p))
<1> DEFINE items == inbound[s].items
<1>1. inbound[s] \in InRow /\ s \in DOMAIN inbound
  BY DEF Inv, TypeOK, IsTable, PostInbound
<1>2. items \in InItems
  BY <1>1 DEF InRow
<1>3. \A l \in DOMAIN items : items[l] \in [productId : Products, quantity : InQuantities]
  BY <1>2 DEF InItems, Table
<1>4. PICK id \in Injection(DOMAIN items, FreeIds) :
        ProductBatch' = [b \in DOMAIN ProductBatch \cup Range(id) |->
              IF b \in DOMAIN ProductBatch THEN ProductBatch[b]
              ELSE LET l == CHOOSE l \in DOMAIN items : id[l] = b
                   IN  NewBatch(items[l].productId, items[l].quantity, s,
                                inbound[s].date)]
  BY Zenon DEF PostInbound
<1> HIDE DEF items
<1>5. id \in [DOMAIN items -> FreeIds] /\ Range(id) \subseteq FreeIds
  BY <1>4 DEF Injection, Range
<1>6. \A l \in DOMAIN items :
        ProductBatch'[id[l]] = NewBatch(items[l].productId, items[l].quantity, s, inbound[s].date)
  <2> TAKE k \in DOMAIN items
  <2> DEFINE l == CHOOSE l \in DOMAIN items : id[l] = id[k]
  <2>1. l \in DOMAIN items /\ id[l] = id[k]
    OBVIOUS
  <2>2. l = k
    BY <1>4, <2>1 DEF Injection, IsInjective
  <2> HIDE DEF l
  <2>3. id[k] \in Range(id) /\ id[k] \notin DOMAIN ProductBatch
    BY <1>5 DEF Range, FreeIds
  <2>4. ProductBatch'[id[k]] = NewBatch(items[l].productId, items[l].quantity, s, inbound[s].date)
    BY <1>4, <2>3 DEF l
  <2> QED  BY <2>2, <2>4
<1>7. \A b \in Range(id) : /\ ProductBatch'[b] \in BatchRow
                          /\ ProductBatch'[b].quantityLeft = ProductBatch'[b].quantityTotal
                          /\ ProductBatch'[b].source = s
  <2> TAKE b \in Range(id)
  <2>1. PICK l \in DOMAIN items :
          ProductBatch'[b] = NewBatch(items[l].productId, items[l].quantity, s, inbound[s].date)
    BY <1>5, <1>6 DEF Range
  <2>2. items[l].productId \in Products /\ items[l].quantity \in Int
    BY <1>3, DataAssumption
  <2>3. inbound[s].date \in Dates
    BY <1>1 DEF InRow
  <2> QED  BY <2>1, <2>2, <2>3, NewBatchRow
<1>8. /\ DOMAIN ProductBatch' = DOMAIN ProductBatch \cup Range(id)
      /\ \A b \in DOMAIN ProductBatch : ProductBatch'[b] = ProductBatch[b]
  BY <1>4
<1>16. NothingOverdrawn' /\ NegativeUntouched'
  <2>1. \A b \in Range(id), d \in Outbound : deducted'[d][b] = 0
    BY <1>5 DEF Inv, TakenFromRows, PostInbound, FreeIds
  <2> QED  BY <1>7, <1>8, <2>1, NegativeStep DEF PostInbound
<1>9. TypeOK'
  <2>1. IsTable(inbound, Inbound, InRow)'
    BY DEF Inv, TypeOK, IsTable, PostInbound, InRow
  <2>2. IsTable(ProductBatch, BatchIds, BatchRow)'
    BY <1>4, <1>5, <1>7, <1>8 DEF Inv, TypeOK, IsTable, FreeIds
  <2> QED  BY <2>1, <2>2, <1>16 DEF Inv, TypeOK, PostInbound
<1>10. BatchOfPosted'
  <2>1. /\ DOMAIN inbound' = DOMAIN inbound
        /\ inbound'[s].status = "POSTED"
        /\ \A r \in DOMAIN inbound : r # s => inbound'[r] = inbound[r]
    BY <1>1 DEF PostInbound, InRow
  <2> QED  BY <1>1, <1>7, <1>8, <2>1 DEF Inv, BatchOfPosted
<1>11. TakenFromRows' /\ DraftHoldsNothing'
  BY <1>8 DEF Inv, TakenFromRows, DraftHoldsNothing, PostInbound
<1>12. ASSUME NEW r \in Inbound, r # s, NEW p \in Products
       PROVE  /\ (LeftOf(Group(r, p)) + TakenFrom(Group(r, p)) = TotalOf(Group(r, p)))'
              /\ TotalOf(Group(r, p))' = TotalOf(Group(r, p))
  <2>1. Group(r, p)' = Group(r, p)
    BY <1>7, <1>8, <1>12 DEF Group
  <2>2. \A b \in Group(r, p) : ProductBatch'[b] = ProductBatch[b]
    BY <1>8 DEF Group
  <2>3. UNCHANGED deducted
    BY DEF PostInbound
  <2> QED  BY <2>1, <2>2, <2>3, SameGroup DEF Inv, StockConserved
<1>13. \A p \in Products : Group(s, p) = {}
  BY IdAssumption DEF Inv, BatchOfPosted, PostInbound, Group
<1>14. StockConserved'
  <2> SUFFICES ASSUME NEW r \in Inbound, NEW p \in Products
               PROVE  (LeftOf(Group(r, p)) + TakenFrom(Group(r, p)) = TotalOf(Group(r, p)))'
    BY DEF StockConserved
  <2>1. CASE r = s
    <3>1. Group(r, p)' \subseteq Range(id)
      BY <2>1, <1>8, <1>13 DEF Group
    <3> QED  BY <3>1, <1>5, <1>7, <1>9, FreshGroup DEF PostInbound
  <2> QED  BY <1>12, <2>1
<1>15. ASSUME NEW p \in Products
       PROVE  TotalOf(Group(s, p))' = QuantityOf(items, p)
  <2> DEFINE G == Group(s, p)'
             L == LinesOf(items, p)
             f == [l \in L |-> items[l].quantity]
             total == [b \in G |-> ProductBatch'[b].quantityTotal]
             h == [l \in L |-> id[l]]
  <2>1. L \subseteq DOMAIN items /\ \A l \in DOMAIN items : l \in L <=> items[l].productId = p
    BY DEF LinesOf
  <2>2. \A l \in DOMAIN items : id[l] \in DOMAIN ProductBatch'
    BY <1>5, <1>8 DEF Range
  <2>3. \A l \in DOMAIN items :
          /\ ProductBatch'[id[l]].productId = items[l].productId
          /\ ProductBatch'[id[l]].source = s
          /\ ProductBatch'[id[l]].quantityTotal = items[l].quantity
    <3> TAKE l \in DOMAIN items
    <3>1. items[l].productId \in Products /\ items[l].quantity \in Int
      BY <1>3, DataAssumption
    <3>2. inbound[s].date \in Dates
      BY <1>1 DEF InRow
    <3> QED  BY <1>6, <3>1, <3>2, NewBatchRow
  <2>4. \A l \in L : id[l] \in G
    BY <2>1, <2>2, <2>3 DEF Group
  <2>5. \A b \in G : \E l \in L : id[l] = b
    <3> TAKE b \in G
    <3>1. b \in Range(id) /\ ProductBatch'[b].productId = p
      BY <1>8, <1>13 DEF Group
    <3>2. PICK l \in DOMAIN items : id[l] = b
      BY <1>5, <3>1 DEF Range
    <3> QED  BY <2>1, <2>3, <3>1, <3>2
  <2>6. \A k, l \in L : id[k] = id[l] => k = l
    BY <1>4, <2>1 DEF Injection, IsInjective
  <2>7. IsFiniteSet(L)
    BY <1>2, <2>1, FiniteAssumption, FS_Subset DEF InItems, Table
  <2>8. \A l \in L : f[l] \in Int /\ total[id[l]] = f[l]
    BY <1>3, <2>1, <2>3, <2>4, DataAssumption
  <2>9. TotalOf(Group(s, p))' = Net(total, G)
    BY DEF TotalOf
  <2>10. QuantityOf(items, p) = Net(f, L)
    BY DEF QuantityOf
  <2> HIDE DEF G, L, f, total
  <2>11. h \in [L -> G] /\ \A l \in L : h[l] = id[l]
    BY <2>4
  <2> HIDE DEF h
  <2> QED  BY <2>5, <2>6, <2>7, <2>8, <2>9, <2>10, <2>11, NetMoved
<1> QED  BY <1>9, <1>10, <1>11, <1>12, <1>14, <1>15, <1>16 DEF Inv, items

-----------------------------------------------------------------------------
(* The steps that remove batches.                                          *)

\* unpost of an incoming document: its batches go, the others are untouched.
LEMMA DropBatchesInv ==
  ASSUME Inv, NEW s \in Inbound, s \in DOMAIN inbound,
         NEW st \in {"SAVED", "DRAFT"}, DropBatches(s, st)
  PROVE  Inv'
<1>1. /\ DOMAIN ProductBatch' = DOMAIN ProductBatch \ BatchesOf(s)
      /\ \A b \in DOMAIN ProductBatch' : ProductBatch'[b] = ProductBatch[b]
  BY DEF DropBatches, Without
<1>2. \A d \in Outbound, b \in BatchIds :
        deducted'[d][b] = IF b \in BatchesOf(s) THEN 0 ELSE deducted[d][b]
  BY DEF DropBatches, CascadeDeleted
<1>3. inbound[s] \in InRow
  BY DEF Inv, TypeOK, IsTable
<1>9. NothingOverdrawn' /\ NegativeUntouched'
  <2>1. DOMAIN ProductBatch \subseteq BatchIds
    BY DEF Inv, TypeOK, IsTable
  <2>2. \A b \in DOMAIN ProductBatch' : b \in DOMAIN ProductBatch /\ b \notin BatchesOf(s)
    BY <1>1
  <2> QED  BY <1>1, <1>2, <2>1, <2>2, NegativeStep
<1>4. TypeOK'
  <2>1. IsTable(inbound, Inbound, InRow)'
    BY <1>3 DEF Inv, TypeOK, IsTable, DropBatches, InRow
  <2>2. IsTable(ProductBatch, BatchIds, BatchRow)'
    BY DEF Inv, TypeOK, IsTable, DropBatches, Without
  <2>3. deducted' \in [Outbound -> [BatchIds -> Nat]]
    BY DEF Inv, TypeOK, DropBatches, CascadeDeleted
  <2> QED  BY <1>9, <2>1, <2>2, <2>3 DEF Inv, TypeOK, DropBatches
<1>5. BatchOfPosted'
  <2>1. /\ DOMAIN inbound' = DOMAIN inbound
        /\ \A r \in DOMAIN inbound : r # s => inbound'[r] = inbound[r]
    BY DEF DropBatches
  <2> QED  BY <1>1, <2>1 DEF Inv, BatchOfPosted, BatchesOf
<1>6. TakenFromRows'
  BY <1>1, <1>2 DEF Inv, TakenFromRows
<1>7. DraftHoldsNothing'
  BY <1>2 DEF Inv, DraftHoldsNothing, DropBatches
<1>8. StockConserved'
  <2> SUFFICES ASSUME NEW r \in Inbound, NEW p \in Products
               PROVE  (LeftOf(Group(r, p)) + TakenFrom(Group(r, p)) = TotalOf(Group(r, p)))'
    BY DEF StockConserved
  <2>1. CASE r = s
    <3>1. Group(r, p)' = {}
      BY <1>1, <2>1 DEF Group, BatchesOf
    <3>2. LeftOf(Group(r, p))' = 0 /\ TotalOf(Group(r, p))' = 0
          /\ TakenFrom(Group(r, p))' = 0
      BY <3>1, NetZero, TotalEmpty DEF LeftOf, TotalOf, TakenFrom
    <3> QED  BY <3>2
  <2>2. CASE r # s
    <3>1. Group(r, p)' = Group(r, p)
      BY <1>1, <2>2 DEF Group, BatchesOf
    <3>2. \A b \in Group(r, p) : /\ ProductBatch'[b] = ProductBatch[b]
                                /\ b \in BatchIds /\ b \notin BatchesOf(s)
      BY <1>1, <2>2 DEF Group, BatchesOf, Inv, TypeOK, IsTable
    <3>3. \A b \in Group(r, p), d \in Outbound : deducted'[d][b] = deducted[d][b]
      BY <1>2, <3>2
    <3> QED  BY <3>1, <3>2, <3>3, SameGroup DEF Inv, StockConserved
  <2> QED  BY <2>1, <2>2
<1> QED  BY <1>4, <1>5, <1>6, <1>7, <1>8, <1>9 DEF Inv

-----------------------------------------------------------------------------
(* The steps that move goods between stock and a document.                 *)

\* If what document d holds of a batch and what the batch has left add up to
\* the same as before, for every batch, then every group is conserved.
LEMMA MovedStock ==
  ASSUME Inv, TypeOK', NEW d \in Outbound,
         DOMAIN ProductBatch' = DOMAIN ProductBatch,
         \A b \in DOMAIN ProductBatch :
           /\ ProductBatch'[b].source = ProductBatch[b].source
           /\ ProductBatch'[b].productId = ProductBatch[b].productId
           /\ ProductBatch'[b].quantityTotal = ProductBatch[b].quantityTotal
           /\ ProductBatch'[b].quantityLeft + deducted'[d][b]
                = ProductBatch[b].quantityLeft + deducted[d][b]
           /\ \A e \in Outbound \ {d} : deducted'[e][b] = deducted[e][b]
  PROVE  StockConserved'
<1> SUFFICES ASSUME NEW s \in Inbound, NEW p \in Products
             PROVE  (LeftOf(Group(s, p)) + TakenFrom(Group(s, p)) = TotalOf(Group(s, p)))'
  BY DEF StockConserved
<1> DEFINE G == Group(s, p)
           sum == [b \in G |-> ProductBatch[b].quantityLeft + Taken(b)]
<1>1. Group(s, p)' = G /\ G \subseteq DOMAIN ProductBatch /\ G \subseteq BatchIds
  BY DEF Group, Inv, TypeOK, IsTable
<1>2. IsFiniteSet(G) /\ IsFiniteSet(Outbound) /\ IsFiniteSet(Outbound \ {d})
  BY <1>1, BatchesFinite, FiniteAssumption, FS_RemoveElement DEF Inv
<1>3. \A b \in G : /\ ProductBatch[b].quantityLeft \in Int
                   /\ ProductBatch'[b].quantityLeft \in Int
                   /\ \A e \in Outbound : deducted[e][b] \in Nat /\ deducted'[e][b] \in Nat
  BY <1>1 DEF Inv, TypeOK, IsTable, BatchRow
<1>4. \A b \in G : /\ Taken(b) \in Nat /\ Taken(b)' \in Nat
                   /\ ProductBatch'[b].quantityLeft + Taken(b)'
                        = ProductBatch[b].quantityLeft + Taken(b)
  <2> TAKE b \in G
  <2> DEFINE f == [e \in Outbound |-> deducted[e][b]]
             g == [e \in Outbound |-> deducted'[e][b]]
  <2>1. \A e \in Outbound : f[e] \in Nat /\ g[e] \in Nat
    BY <1>3
  <2>2. f[d] = deducted[d][b] /\ g[d] = deducted'[d][b]
    OBVIOUS
  <2>3. \A e \in Outbound \ {d} : g[e] = f[e]
    BY <1>1
  <2>4. Taken(b) = Total(f, Outbound) /\ Taken(b)' = Total(g, Outbound)
    BY DEF Taken
  <2> HIDE DEF f, g
  <2>5. Total(f, Outbound) = Total(f, Outbound \ {d}) + f[d]
    BY <1>2, <2>1, TotalRemove
  <2>6. Total(g, Outbound) = Total(g, Outbound \ {d}) + g[d]
    BY <1>2, <2>1, TotalRemove
  <2>7. Total(g, Outbound \ {d}) = Total(f, Outbound \ {d})
    BY <2>3, TotalEqual
  <2>8. Total(f, Outbound \ {d}) \in Nat
    BY <1>2, <2>1, TotalNat
  <2>9. ProductBatch'[b].quantityLeft + g[d] = ProductBatch[b].quantityLeft + f[d]
    BY <1>1, <2>2
  <2>10. f[d] \in Nat /\ g[d] \in Nat
    BY <2>1
  <2>11. PICK q, q2, x, y, r :
           /\ q = ProductBatch[b].quantityLeft /\ q2 = ProductBatch'[b].quantityLeft
           /\ x = f[d] /\ y = g[d] /\ r = Total(f, Outbound \ {d})
    OBVIOUS
  <2>12. q \in Int /\ q2 \in Int /\ x \in Nat /\ y \in Nat /\ r \in Nat /\ q2 + y = q + x
    BY <1>3, <2>8, <2>9, <2>10, <2>11
  <2>13. Taken(b) = r + x /\ Taken(b)' = r + y
    BY <2>4, <2>5, <2>6, <2>7, <2>11
  <2> QED  BY <2>11, <2>12, <2>13
<1> HIDE DEF G
<1>5. LeftOf(G) + TakenFrom(G) = Net(sum, G)
  <2>1. PICK f, g : f = [b \in G |-> ProductBatch[b].quantityLeft] /\ g = [b \in G |-> Taken(b)]
    OBVIOUS
  <2>2. \A b \in G : f[b] \in Int /\ g[b] \in Nat /\ g[b] \in Int /\ sum[b] = f[b] + g[b]
    BY <1>3, <1>4, <2>1
  <2>3. Net(sum, G) = Net(f, G) + Net(g, G)
    BY <1>2, <2>2, NetPlus
  <2>4. Net(g, G) = Total(g, G)
    BY <1>2, <2>2, NetNat
  <2> QED  BY <2>1, <2>3, <2>4 DEF LeftOf, TakenFrom
<1>6. LeftOf(Group(s, p))' + TakenFrom(Group(s, p))' = Net(sum, G)
  <2>1. PICK f, g : f = [b \in G |-> ProductBatch'[b].quantityLeft] /\ g = [b \in G |-> Taken(b)']
    OBVIOUS
  <2>2. \A b \in G : f[b] \in Int /\ g[b] \in Nat /\ g[b] \in Int /\ sum[b] = f[b] + g[b]
    BY <1>3, <1>4, <2>1
  <2>3. Net(sum, G) = Net(f, G) + Net(g, G)
    BY <1>2, <2>2, NetPlus
  <2>4. Net(g, G) = Total(g, G)
    BY <1>2, <2>2, NetNat
  <2>5. LeftOf(Group(s, p))' = Net(f, G)
    BY <1>1, <2>1 DEF LeftOf
  <2>6. TakenFrom(Group(s, p))' = Total(g, G)
    BY <1>1, <2>1 DEF TakenFrom
  <2> QED  BY <2>3, <2>4, <2>5, <2>6
<1>7. TotalOf(Group(s, p))' = TotalOf(G)
  <2>1. TotalOf(Group(s, p))' = Net([b \in G |-> ProductBatch'[b].quantityTotal], G)
    BY <1>1 DEF TotalOf
  <2>2. \A b \in G : ProductBatch'[b].quantityTotal = ProductBatch[b].quantityTotal
    BY <1>1
  <2> QED  BY <2>1, <2>2, NetEqual DEF TotalOf
<1>8. LeftOf(G) + TakenFrom(G) = TotalOf(G)
  BY DEF Inv, StockConserved, G
<1> QED  BY <1>5, <1>6, <1>7, <1>8

\* What deductStock takes from a batch is at most what the batch has left.
LEMMA TakeBounded ==
  ASSUME Inv, NEW d \in DOMAIN outbound, NEW take \in Takes(d),
         DeductStock(d, take), NEW b \in Candidates(d)
  PROVE  /\ b \in DOMAIN ProductBatch
         /\ take[b] \in Nat
         /\ take[b] <= ProductBatch[b].quantityLeft
         /\ ProductBatch[b].quantityLeft > 0
<1>1. PICK p \in Products : b \in Available(p, outbound[d].warehouseId)
  BY DEF Candidates
<1>2. take[b] \in UNION {0 .. outbound[d].items[q] : q \in Products}
  BY DEF Takes
<1>3. \A q \in Products : outbound[d].items[q] \in Nat
  BY DataAssumption DEF Inv, TypeOK, IsTable, OutRow, OutItems
<1>4. take[b] \in Nat
  BY <1>2, <1>3
<1>5. b \in DOMAIN ProductBatch /\ ProductBatch[b].quantityLeft > 0
  BY <1>1 DEF Available
<1>6. take[b] <= ProductBatch[b].quantityLeft
  BY <1>1 DEF DeductStock, FifoTake
<1> QED  BY <1>4, <1>5, <1>6

\* Posting an outgoing document moves goods from batches to its rows.
LEMMA PostOutboundInv ==
  ASSUME Inv, NEW d \in Outbound, PostOutbound(d),
         orderStatus' \in [Orders -> {"NEW", "ACCEPTED", "COMPLETED"}]
  PROVE  Inv'
<1>1. d \in DOMAIN outbound /\ outbound[d] \in OutRow
  BY DEF Inv, TypeOK, IsTable, PostOutbound
<1>2. PICK take \in Takes(d) :
        /\ DeductStock(d, take)
        /\ ProductBatch' = [b \in DOMAIN ProductBatch |->
             IF b \in Candidates(d)
             THEN [ProductBatch[b] EXCEPT !.quantityLeft = @ - take[b]]
             ELSE ProductBatch[b]]
        /\ deducted' = [deducted EXCEPT ![d] = [b \in BatchIds |->
             IF b \in Candidates(d) THEN @[b] + take[b] ELSE @[b]]]
  BY DEF PostOutbound
<1>3. \A b \in Candidates(d) : /\ b \in DOMAIN ProductBatch
                               /\ take[b] \in Nat
                               /\ take[b] <= ProductBatch[b].quantityLeft
                               /\ ProductBatch[b].quantityLeft > 0
  BY <1>1, <1>2, TakeBounded
<1>4. \A b \in DOMAIN ProductBatch : ProductBatch[b] \in BatchRow /\ b \in BatchIds
  BY DEF Inv, TypeOK, IsTable
<1>5. deducted \in [Outbound -> [BatchIds -> Nat]]
  BY DEF Inv, TypeOK
<1>6. \A b \in DOMAIN ProductBatch :
        /\ ProductBatch'[b].source = ProductBatch[b].source
        /\ ProductBatch'[b].productId = ProductBatch[b].productId
        /\ ProductBatch'[b].quantityTotal = ProductBatch[b].quantityTotal
        /\ ProductBatch'[b].createdAt = ProductBatch[b].createdAt
        /\ ProductBatch'[b].quantityLeft =
             IF b \in Candidates(d) THEN ProductBatch[b].quantityLeft - take[b]
             ELSE ProductBatch[b].quantityLeft
        /\ ProductBatch'[b] \in BatchRow
  BY <1>2, <1>3, <1>4 DEF BatchRow
<1>7. /\ DOMAIN ProductBatch' = DOMAIN ProductBatch
      /\ ProductBatch' = [b \in DOMAIN ProductBatch' |-> ProductBatch'[b]]
  BY <1>2
<1>8. /\ \A b \in BatchIds : deducted'[d][b] =
           IF b \in Candidates(d) THEN deducted[d][b] + take[b] ELSE deducted[d][b]
      /\ \A e \in Outbound \ {d} : deducted'[e] = deducted[e]
      /\ deducted' \in [Outbound -> [BatchIds -> Nat]]
  BY <1>2, <1>3, <1>5
<1>14. NothingOverdrawn' /\ NegativeUntouched'
  <2>1. ASSUME NEW b \in Candidates(d) PROVE ~(ProductBatch'[b].quantityLeft < 0)
    <3>1. ProductBatch[b].quantityLeft \in Int
      BY <1>3, <1>4 DEF BatchRow
    <3>2. ProductBatch'[b].quantityLeft = ProductBatch[b].quantityLeft - take[b]
      BY <1>3, <1>6
    <3> QED  BY <1>3, <3>1, <3>2
  <2>2. ASSUME NEW b \in DOMAIN ProductBatch, b \notin Candidates(d)
        PROVE  /\ ProductBatch'[b].quantityLeft = ProductBatch[b].quantityLeft
               /\ ProductBatch'[b].quantityTotal = ProductBatch[b].quantityTotal
               /\ \A e \in Outbound : deducted'[e][b] = deducted[e][b]
    BY <1>4, <1>6, <1>8, <2>2
  <2> QED  BY <1>7, <2>1, <2>2, NegativeStep
<1>9. TypeOK'
  <2>1. IsTable(outbound, Outbound, OutRow)'
    BY <1>1 DEF Inv, TypeOK, IsTable, PostOutbound, OutRow
  <2>2. IsTable(ProductBatch, BatchIds, BatchRow)'
    BY <1>4, <1>6, <1>7 DEF IsTable
  <2> QED  BY <1>8, <1>14, <2>1, <2>2 DEF Inv, TypeOK, PostOutbound
<1>10. BatchOfPosted'
  BY <1>6, <1>7 DEF Inv, BatchOfPosted, PostOutbound
<1>11. TakenFromRows'
  BY <1>3, <1>7, <1>8 DEF Inv, TakenFromRows
<1>12. DraftHoldsNothing'
  <2>1. /\ DOMAIN outbound' = DOMAIN outbound
        /\ outbound'[d].status = "POSTED"
        /\ \A e \in DOMAIN outbound : e # d => outbound'[e] = outbound[e]
    BY <1>1 DEF PostOutbound, OutRow
  <2> QED  BY <1>1, <1>8, <2>1 DEF Inv, DraftHoldsNothing
<1>13. StockConserved'
  <2>1. \A b \in DOMAIN ProductBatch :
          /\ ProductBatch[b].quantityLeft \in Int
          /\ deducted[d][b] \in Nat
    BY <1>4, <1>5 DEF BatchRow
  <2>2. \A b \in DOMAIN ProductBatch :
          ProductBatch'[b].quantityLeft + deducted'[d][b]
            = ProductBatch[b].quantityLeft + deducted[d][b]
    BY <1>3, <1>4, <1>6, <1>8, <2>1
  <2> QED  BY <1>6, <1>7, <1>8, <1>9, <2>2, MovedStock
<1> QED  BY <1>9, <1>10, <1>11, <1>12, <1>13, <1>14 DEF Inv

\* Unposting an outgoing document moves the goods of its rows back.
LEMMA UnpostOutboundInv ==
  ASSUME Inv, NEW d \in Outbound, UnpostOutbound(d),
         orderStatus' \in [Orders -> {"NEW", "ACCEPTED", "COMPLETED"}]
  PROVE  Inv'
<1>1. d \in DOMAIN outbound /\ outbound[d] \in OutRow
  BY DEF Inv, TypeOK, IsTable, UnpostOutbound
<1>2. \A b \in DOMAIN ProductBatch : ProductBatch[b] \in BatchRow /\ b \in BatchIds
  BY DEF Inv, TypeOK, IsTable
<1>3. deducted \in [Outbound -> [BatchIds -> Nat]]
  BY DEF Inv, TypeOK
<1>4. /\ \A b \in BatchIds : deducted'[d][b] = 0
      /\ \A e \in Outbound \ {d} : deducted'[e] = deducted[e]
      /\ deducted' \in [Outbound -> [BatchIds -> Nat]]
  BY <1>3 DEF UnpostOutbound
<1>5. /\ DOMAIN ProductBatch' = DOMAIN ProductBatch
      /\ ProductBatch' = [b \in DOMAIN ProductBatch' |-> ProductBatch'[b]]
      /\ \A b \in DOMAIN ProductBatch : ProductBatch'[b] =
           [ProductBatch[b] EXCEPT !.quantityLeft = @ + deducted[d][b]]
  BY DEF UnpostOutbound, ReturnStock
<1>6. \A b \in DOMAIN ProductBatch :
        /\ ProductBatch'[b].source = ProductBatch[b].source
        /\ ProductBatch'[b].productId = ProductBatch[b].productId
        /\ ProductBatch'[b].quantityTotal = ProductBatch[b].quantityTotal
        /\ ProductBatch'[b].quantityLeft = ProductBatch[b].quantityLeft + deducted[d][b]
        /\ ProductBatch'[b] \in BatchRow
  BY <1>2, <1>3, <1>5 DEF BatchRow
<1>12. NothingOverdrawn' /\ NegativeUntouched'
  <2> SUFFICES ASSUME NEW b \in DOMAIN ProductBatch, ProductBatch'[b].quantityLeft < 0
               PROVE  /\ ProductBatch'[b].quantityLeft = ProductBatch'[b].quantityTotal
                      /\ \A e \in Outbound : deducted'[e][b] = 0
    BY <1>5, NegativeStep
  <2>1. ProductBatch[b].quantityLeft \in Int /\ b \in BatchIds
    BY <1>2 DEF BatchRow
  <2>2. deducted[d][b] \in Nat
    BY <1>3, <2>1
  <2>3. ProductBatch[b].quantityLeft < 0
    BY <1>6, <2>1, <2>2
  <2>4. /\ ProductBatch[b].quantityLeft = ProductBatch[b].quantityTotal
        /\ \A e \in Outbound : deducted[e][b] = 0
    BY <2>3 DEF Inv, TypeOK, NothingOverdrawn, NegativeUntouched
  <2> QED  BY <1>4, <1>6, <2>1, <2>4
<1>7. TypeOK'
  <2>1. IsTable(outbound, Outbound, OutRow)'
    BY <1>1 DEF Inv, TypeOK, IsTable, UnpostOutbound, OutRow
  <2>2. IsTable(ProductBatch, BatchIds, BatchRow)'
    BY <1>2, <1>5, <1>6 DEF IsTable
  <2> QED  BY <1>4, <1>12, <2>1, <2>2 DEF Inv, TypeOK, UnpostOutbound
<1>8. BatchOfPosted'
  BY <1>5, <1>6 DEF Inv, BatchOfPosted, UnpostOutbound
<1>9. TakenFromRows'
  BY <1>4, <1>5 DEF Inv, TakenFromRows
<1>10. DraftHoldsNothing'
  <2>1. /\ DOMAIN outbound' = DOMAIN outbound
        /\ \A e \in DOMAIN outbound : e # d => outbound'[e] = outbound[e]
    BY DEF UnpostOutbound
  <2> QED  BY <1>4, <2>1 DEF Inv, DraftHoldsNothing
<1>11. StockConserved'
  <2>1. \A b \in DOMAIN ProductBatch :
          /\ ProductBatch[b].quantityLeft \in Int
          /\ deducted[d][b] \in Nat
    BY <1>2, <1>3 DEF BatchRow
  <2>2. \A b \in DOMAIN ProductBatch :
          ProductBatch'[b].quantityLeft + deducted'[d][b]
            = ProductBatch[b].quantityLeft + deducted[d][b]
    BY <1>2, <1>4, <1>6, <2>1
  <2> QED  BY <1>4, <1>5, <1>6, <1>7, <2>2, MovedStock
<1> QED  BY <1>7, <1>8, <1>9, <1>10, <1>11, <1>12 DEF Inv

-----------------------------------------------------------------------------
(* Editing a POSTED receipt.                                               *)

\* What update computes as sold is what documents really took.
LEMMA SoldIsTaken ==
  ASSUME Inv, NEW g \in Inbound, NEW p \in Products
  PROVE  SoldOf(g, p) = TakenFrom(Group(g, p)) /\ SoldOf(g, p) \in Nat
<1>1. Group(g, p) \in SUBSET DOMAIN ProductBatch
  BY DEF Group
<1>2. /\ LeftOf(Group(g, p)) \in Int /\ TotalOf(Group(g, p)) \in Int
      /\ TakenFrom(Group(g, p)) \in Nat
  BY <1>1, SumsTyped DEF Inv
<1>3. LeftOf(Group(g, p)) + TakenFrom(Group(g, p)) = TotalOf(Group(g, p))
  BY DEF Inv, StockConserved
<1> QED  BY <1>2, <1>3 DEF SoldOf

\* If nothing was taken from a set of batches, no document took from one.
LEMMA NothingTaken ==
  ASSUME Inv, NEW B \in SUBSET DOMAIN ProductBatch, TakenFrom(B) = 0
  PROVE  \A b \in B, d \in Outbound : deducted[d][b] = 0
<1> DEFINE f == [b \in B |-> Taken(b)]
<1>1. IsFiniteSet(B) /\ B \subseteq BatchIds
  BY BatchesFinite DEF Inv, TypeOK, IsTable
<1>2. \A b \in B : Taken(b) \in Nat
  BY <1>1, TakenNat DEF Inv
<1>3. \A b \in B : f[b] \in Nat /\ f[b] = Taken(b)
  BY <1>2
<1>4. Total(f, B) = 0
  BY DEF TakenFrom
<1> HIDE DEF f
<1>5. \A b \in B : f[b] <= Total(f, B)
  BY <1>1, <1>3, TotalBounds
<1>6. \A b \in B : Taken(b) = 0
  BY <1>2, <1>3, <1>4, <1>5
<1> TAKE b \in B, d \in Outbound
<1> DEFINE h == [e \in Outbound |-> deducted[e][b]]
<1>7. \A e \in Outbound : h[e] \in Nat
  BY <1>1 DEF Inv, TypeOK
<1>8. Total(h, Outbound) = 0
  BY <1>6 DEF Taken
<1>9. h[d] = deducted[d][b]
  OBVIOUS
<1> HIDE DEF h
<1>10. h[d] <= Total(h, Outbound)
  BY <1>7, FiniteAssumption, TotalBounds
<1> QED  BY <1>7, <1>8, <1>9, <1>10

\* update deletes no batch that a document took from.
LEMMA DroppedUntouched ==
  ASSUME Inv, NEW g \in Inbound, NEW items
  PROVE  \A b \in DroppedBatches(g, items), d \in Outbound : deducted[d][b] = 0
<1> TAKE b \in DroppedBatches(g, items)
<1> DEFINE p == ProductBatch[b].productId
<1>1. /\ b \in DOMAIN ProductBatch /\ ProductBatch[b].source = g
      /\ SoldOf(g, p) = 0
  BY DEF DroppedBatches, BatchesOf
<1>2. p \in Products
  BY <1>1 DEF Inv, TypeOK, IsTable, BatchRow
<1> HIDE DEF p
<1>3. b \in Group(g, p) /\ Group(g, p) \in SUBSET DOMAIN ProductBatch
  BY <1>1 DEF Group, p
<1>4. TakenFrom(Group(g, p)) = 0
  BY <1>1, <1>2, SoldIsTaken
<1> QED  BY <1>3, <1>4, NothingTaken

\* unpost of a receipt that passes its check removes no batch that a document
\* took from.
LEMMA NothingSoldUntouched ==
  ASSUME Inv, NEW g \in Inbound, NothingSold(g)
  PROVE  \A b \in BatchesOf(g), d \in Outbound : deducted[d][b] = 0
<1> TAKE b \in BatchesOf(g)
<1> DEFINE p == ProductBatch[b].productId
           G == Group(g, p)
           left == [c \in G |-> ProductBatch[c].quantityLeft]
           total == [c \in G |-> ProductBatch[c].quantityTotal]
<1>1. /\ b \in DOMAIN ProductBatch /\ b \in G
      /\ G \in SUBSET DOMAIN ProductBatch /\ G \subseteq BatchesOf(g)
  BY DEF BatchesOf, Group
<1>2. p \in Products
  BY <1>1 DEF Inv, TypeOK, IsTable, BatchRow
<1> HIDE DEF p
<1>3. IsFiniteSet(G)
  BY <1>1, BatchesFinite DEF Inv
<1>4. \A c \in G : left[c] \in Int /\ total[c] \in Int /\ total[c] <= left[c]
  BY <1>1 DEF Inv, TypeOK, IsTable, BatchRow, NothingSold
<1>5. TotalOf(G) = Net(total, G) /\ LeftOf(G) = Net(left, G)
  BY DEF TotalOf, LeftOf
<1> HIDE DEF left, total
<1>6. TotalOf(G) <= LeftOf(G)
  BY <1>3, <1>4, <1>5, NetMonotone
<1>7. TotalOf(G) \in Int /\ LeftOf(G) \in Int /\ TakenFrom(G) \in Nat
  BY <1>1, SumsTyped DEF Inv
<1>8. LeftOf(G) + TakenFrom(G) = TotalOf(G)
  BY <1>2 DEF Inv, StockConserved
<1>9. TakenFrom(G) = 0
  BY <1>6, <1>7, <1>8
<1> QED  BY <1>1, <1>9, NothingTaken

\* The quantity on the lines of a product is an integer.
LEMMA QuantityInt ==
  ASSUME NEW items \in InItems, NEW p
  PROVE  QuantityOf(items, p) \in Int
<1>1. LinesOf(items, p) \in SUBSET Lines
  BY DEF InItems, Table, LinesOf
<1>2. IsFiniteSet(LinesOf(items, p))
  BY <1>1, FiniteAssumption, FS_Subset
<1>3. \A l \in LinesOf(items, p) : items[l].quantity \in Int
  BY DataAssumption DEF InItems, Table, LinesOf
<1> QED  BY <1>2, <1>3, NetInt DEF QuantityOf

\* The rows that the old batches of the receipt become.
LEMMA ConsolidatedRow ==
  ASSUME Inv, NEW g \in Inbound, NEW items \in InItems, CoversSold(g, items),
         NEW first, NEW b \in BatchesOf(g)
  PROVE  LET c == Consolidated(g, items, first, b)
             p == ProductBatch[b].productId
         IN  /\ c \in BatchRow /\ c.source = g /\ c.productId = p
             /\ QuantityOf(items, p) # 0 =>
                  IF b = first[p]
                  THEN /\ c.quantityTotal = QuantityOf(items, p)
                       /\ c.quantityLeft = QuantityOf(items, p) - SoldOf(g, p)
                  ELSE c.quantityTotal = 0 /\ c.quantityLeft = 0
             /\ QuantityOf(items, p) # 0 => ~(c.quantityLeft < 0)
<1> DEFINE p == ProductBatch[b].productId
<1>1. ProductBatch[b] \in BatchRow /\ ProductBatch[b].source = g /\ p \in OldProducts(g)
  BY DEF Inv, TypeOK, IsTable, BatchesOf, OldProducts
<1>2. p \in Products
  BY <1>1 DEF BatchRow
<1>3. SoldOf(g, p) \in Nat /\ QuantityOf(items, p) \in Int
  BY <1>2, SoldIsTaken, QuantityInt
<1>4. QuantityOf(items, p) >= SoldOf(g, p)
  BY <1>1 DEF CoversSold
<1>5. QuantityOf(items, p) - SoldOf(g, p) \in Nat /\ QuantityOf(items, p) \in Nat
  BY <1>3, <1>4
<1>6. CASE QuantityOf(items, p) = 0
  BY <1>1, <1>6 DEF Consolidated
<1>9. QuantityOf(items, p) # 0 => ~(QuantityOf(items, p) <= 0)
  BY <1>5
<1>7. CASE QuantityOf(items, p) # 0 /\ b = first[p]
  <2>1. Consolidated(g, items, first, b) =
          [ProductBatch[b] EXCEPT !.quantityTotal = QuantityOf(items, p),
                                  !.quantityLeft = QuantityOf(items, p) - SoldOf(g, p)]
    BY <1>7, <1>9, Zenon DEF Consolidated
  <2> DEFINE q == QuantityOf(items, p)
             s == SoldOf(g, p)
             c == [ProductBatch[b] EXCEPT !.quantityTotal = q, !.quantityLeft = q - s]
  <2>2. q \in Int /\ q - s \in Int /\ ~(q - s < 0)
    BY <1>3, <1>5
  <2> HIDE DEF q, s
  <2>3. /\ c \in BatchRow /\ c.source = g /\ c.productId = p
        /\ c.quantityTotal = q /\ c.quantityLeft = q - s /\ ~(c.quantityLeft < 0)
    BY <1>1, <2>2 DEF BatchRow
  <2> HIDE DEF c
  <2>4. Consolidated(g, items, first, b) = c
    BY <2>1 DEF c, q, s
  <2> QED  BY <1>7, <2>3, <2>4 DEF q, s
<1>8. CASE QuantityOf(items, p) # 0 /\ b # first[p]
  <2>1. PICK z : z = 0
    OBVIOUS
  <2> DEFINE c == [ProductBatch[b] EXCEPT !.quantityTotal = z, !.quantityLeft = z]
  <2>2. Consolidated(g, items, first, b) = c
    BY <1>8, <1>9, <2>1, Zenon DEF Consolidated
  <2>3. z \in Int /\ ~(z < 0)
    BY <2>1
  <2>4. /\ c \in BatchRow /\ c.source = g /\ c.productId = p
        /\ c.quantityTotal = z /\ c.quantityLeft = z
    BY <1>1, <2>3 DEF BatchRow
  <2> HIDE DEF c
  <2> QED  BY <1>8, <2>1, <2>2, <2>3, <2>4
<1> QED  BY <1>6, <1>7, <1>8

\* Editing a POSTED receipt keeps what is sold of every product: the first
\* batch takes over the whole group, unsold products go, new ones come.
LEMMA UpdatePostedReceiptInv ==
  ASSUME Inv, NEW g \in Inbound, NEW w \in Warehouses, NEW t \in Dates,
         NEW items \in InItems, UpdatePostedReceipt(g, w, t, items)
  PROVE  /\ Inv' /\ UNCHANGED deducted
         /\ \A s \in Inbound, p \in Products : TotalOf(Group(s, p))' =
              IF s = g THEN QuantityOf(items, p) ELSE TotalOf(Group(s, p))
         /\ \A b \in DOMAIN ProductBatch \cap DOMAIN ProductBatch' :
              ProductBatch'[b].productId = ProductBatch[b].productId
<1> DEFINE Old == BatchesOf(g)
           Gone == DroppedBatches(g, items)
           New == NewProducts(g, items)
<1>1. /\ g \in DOMAIN inbound /\ inbound[g] \in InRow /\ inbound[g].status = "POSTED"
      /\ CoversSold(g, items)
  BY DEF Inv, TypeOK, IsTable, UpdatePostedReceipt
<1>2. PICK first \in [OldProducts(g) -> Old], id \in Injection(New, FreeIds) :
        /\ \A p \in OldProducts(g) : first[p] \in Group(g, p)
        /\ ProductBatch' = [b \in (DOMAIN ProductBatch \ Gone) \cup Range(id) |->
               IF b \in Old THEN Consolidated(g, items, first, b)
               ELSE IF b \in DOMAIN ProductBatch THEN ProductBatch[b]
               ELSE LET p == CHOOSE p \in New : id[p] = b
                    IN  NewBatch(p, QuantityOf(items, p), g, t)]
  BY Zenon DEF UpdatePostedReceipt
<1>3. /\ Old \subseteq DOMAIN ProductBatch /\ Gone \subseteq Old
      /\ \A b \in DOMAIN ProductBatch : b \in BatchIds /\ ProductBatch[b] \in BatchRow
  BY DEF BatchesOf, DroppedBatches, Inv, TypeOK, IsTable
<1>4. New \subseteq Products /\ New \cap OldProducts(g) = {}
  BY DEF NewProducts, InItems, Table
<1> HIDE DEF Old, Gone, New
<1>5. id \in [New -> FreeIds] /\ Range(id) \subseteq FreeIds
  BY <1>2 DEF Injection, Range
<1>6. UNCHANGED deducted
  <2>1. \A b \in Gone, d \in Outbound : deducted[d][b] = 0
    BY DroppedUntouched DEF Gone
  <2>2. deducted' = [d \in Outbound |->
          [b \in BatchIds |-> IF b \in Gone THEN 0 ELSE deducted[d][b]]]
    BY DEF UpdatePostedReceipt, CascadeDeleted, Gone
  <2> QED  BY <2>1, <2>2 DEF Inv, TypeOK
<1>7. DOMAIN ProductBatch' = (DOMAIN ProductBatch \ Gone) \cup Range(id)
  BY <1>2
<1>8. \A b \in Old \ Gone : ProductBatch'[b] = Consolidated(g, items, first, b)
  BY <1>2, <1>3
<1>9. \A b \in DOMAIN ProductBatch \ Old : ProductBatch'[b] = ProductBatch[b]
  BY <1>2, <1>3
<1>10. \A p \in New : ProductBatch'[id[p]] = NewBatch(p, QuantityOf(items, p), g, t)
  <2> TAKE r \in New
  <2> DEFINE q == CHOOSE p \in New : id[p] = id[r]
  <2>1. q \in New /\ id[q] = id[r]
    OBVIOUS
  <2>2. q = r
    BY <1>2, <2>1 DEF Injection, IsInjective
  <2> HIDE DEF q
  <2>3. id[r] \in Range(id) /\ id[r] \notin DOMAIN ProductBatch
    BY <1>5 DEF Range, FreeIds
  <2>4. ProductBatch'[id[r]] = NewBatch(q, QuantityOf(items, q), g, t)
    BY <1>2, <1>3, <2>3 DEF q
  <2> QED  BY <2>2, <2>4
<1>11. \A b \in Range(id) :
         /\ ProductBatch'[b] \in BatchRow
         /\ ProductBatch'[b].quantityLeft = ProductBatch'[b].quantityTotal
         /\ ProductBatch'[b].source = g
         /\ ProductBatch'[b].productId \in New
  <2> TAKE b \in Range(id)
  <2>1. PICK p \in New : ProductBatch'[b] = NewBatch(p, QuantityOf(items, p), g, t)
    BY <1>5, <1>10 DEF Range
  <2>2. p \in Products /\ QuantityOf(items, p) \in Int
    BY <1>4, QuantityInt
  <2> QED  BY <2>1, <2>2, NewBatchRow
<1>12. \A b \in Old \ Gone :
         /\ ProductBatch'[b] \in BatchRow
         /\ ProductBatch'[b].source = g
         /\ ProductBatch'[b].productId = ProductBatch[b].productId
  BY <1>1, <1>8, ConsolidatedRow DEF Old
<1>22. NothingOverdrawn' /\ NegativeUntouched'
  <2>1. ASSUME NEW b \in Old \ Gone  PROVE ~(ProductBatch'[b].quantityLeft < 0)
    <3> DEFINE p == ProductBatch[b].productId
    <3>1. b \in BatchesOf(g) /\ p \in Products /\ p \in OldProducts(g)
      BY <1>3 DEF Old, BatchRow, OldProducts
    <3>2. SoldOf(g, p) \in Nat /\ QuantityOf(items, p) >= SoldOf(g, p)
      BY <1>1, <3>1, SoldIsTaken DEF CoversSold
    <3>3. QuantityOf(items, p) # 0
      BY <3>1, <3>2 DEF Gone, DroppedBatches
    <3> QED  BY <1>1, <1>8, <3>1, <3>3, ConsolidatedRow
  <2>2. ASSUME NEW b \in Range(id)
        PROVE  /\ ProductBatch'[b].quantityLeft = ProductBatch'[b].quantityTotal
               /\ \A d \in Outbound : deducted'[d][b] = 0
    BY <1>5, <1>6, <1>11 DEF FreeIds, Inv, TakenFromRows
  <2> QED  BY <1>6, <1>7, <1>9, <2>1, <2>2, NegativeStep
<1>13. TypeOK'
  <2>1. IsTable(inbound, Inbound, InRow)'
    BY <1>1 DEF Inv, TypeOK, IsTable, UpdatePostedReceipt, ReplaceInbound, InRow
  <2>2. ProductBatch' = [b \in DOMAIN ProductBatch' |-> ProductBatch'[b]]
    BY <1>2
  <2>3. \A b \in DOMAIN ProductBatch' : ProductBatch'[b] \in BatchRow /\ b \in BatchIds
    BY <1>3, <1>5, <1>7, <1>9, <1>11, <1>12 DEF FreeIds
  <2>4. IsTable(ProductBatch, BatchIds, BatchRow)'
    BY <2>2, <2>3 DEF IsTable
  <2> QED  BY <1>6, <1>22, <2>1, <2>4 DEF Inv, TypeOK, UpdatePostedReceipt
<1>14. BatchOfPosted'
  <2>1. /\ DOMAIN inbound' = DOMAIN inbound
        /\ \A s \in DOMAIN inbound : inbound'[s].status = inbound[s].status
    BY <1>1 DEF UpdatePostedReceipt, ReplaceInbound, InRow, Inv, TypeOK, IsTable
  <2> QED  BY <1>1, <1>7, <1>9, <1>11, <1>12, <2>1 DEF Inv, BatchOfPosted
<1>15. TakenFromRows' /\ DraftHoldsNothing'
  <2>1. \A b \in Gone, d \in Outbound : deducted[d][b] = 0
    BY DroppedUntouched DEF Gone
  <2> QED  BY <1>6, <1>7, <2>1
           DEF Inv, TakenFromRows, DraftHoldsNothing, UpdatePostedReceipt
<1>16. ASSUME NEW s \in Inbound, s # g, NEW p \in Products
       PROVE  /\ (LeftOf(Group(s, p)) + TakenFrom(Group(s, p)) = TotalOf(Group(s, p)))'
              /\ TotalOf(Group(s, p))' = TotalOf(Group(s, p))
  <2>1. Group(s, p)' = Group(s, p)
    BY <1>3, <1>7, <1>9, <1>11, <1>12, <1>16 DEF Group, Old, BatchesOf
  <2>2. \A b \in Group(s, p) : ProductBatch'[b] = ProductBatch[b]
    BY <1>9, <1>16 DEF Group, Old, BatchesOf
  <2> QED  BY <1>6, <2>1, <2>2, SameGroup DEF Inv, StockConserved
<1>17. ASSUME NEW p \in Products, p \notin OldProducts(g)
       PROVE  /\ (LeftOf(Group(g, p)) + TakenFrom(Group(g, p)) = TotalOf(Group(g, p)))'
              /\ TotalOf(Group(g, p))' = QuantityOf(items, p)
  <2> DEFINE G == Group(g, p)'
             total == [b \in G |-> ProductBatch'[b].quantityTotal]
  <2>1. G \subseteq Range(id)
    BY <1>7, <1>9, <1>12, <1>17 DEF Group, Old, BatchesOf, OldProducts
  <2>2. TotalOf(Group(g, p))' = Net(total, G) /\ QuantityOf(items, p) \in Int
    BY QuantityInt DEF TotalOf
  <2>3. \A q \in New : ProductBatch'[id[q]].productId = q /\ ProductBatch'[id[q]].source = g
    BY <1>4, <1>10, QuantityInt, NewBatchRow
  <2>4. (LeftOf(Group(g, p)) + TakenFrom(Group(g, p)) = TotalOf(Group(g, p)))'
    BY <1>5, <1>6, <1>11, <1>13, <2>1, FreshGroup
  <2>5. CASE p \in New
    <3>1. id[p] \in G
      BY <1>5, <1>7, <2>3, <2>5 DEF Group, Range
    <3>2. G = {id[p]}
      <4>1. ASSUME NEW b \in G  PROVE b = id[p]
        <5>1. PICK q \in New : b = id[q]
          BY <1>5, <2>1 DEF Range
        <5>2. ProductBatch'[b].productId = p
          BY DEF Group
        <5> QED  BY <2>3, <5>1, <5>2
      <4> QED  BY <3>1, <4>1
    <3>3. total[id[p]] = QuantityOf(items, p)
      BY <1>10, <2>2, <2>5, <3>1, NewBatchRow
    <3> HIDE DEF G, total
    <3> QED  BY <2>2, <2>4, <3>2, <3>3, NetSingleton
  <2>6. CASE p \notin New
    <3>1. G = {}
      <4>1. ASSUME NEW b \in G  PROVE FALSE
        <5>1. ProductBatch'[b].productId = p
          BY DEF Group
        <5> QED  BY <1>11, <2>1, <2>6, <5>1
      <4> QED  BY <4>1
    <3>2. LinesOf(items, p) = {}
      BY <1>17, <2>6 DEF New, NewProducts, LinesOf
    <3>3. QuantityOf(items, p) = 0
      BY <3>2, NetZero DEF QuantityOf
    <3> HIDE DEF G, total
    <3> QED  BY <2>2, <2>4, <3>1, <3>3, NetZero
  <2> QED  BY <2>5, <2>6
<1>18. ASSUME NEW p \in OldProducts(g), QuantityOf(items, p) = 0
       PROVE  /\ (LeftOf(Group(g, p)) + TakenFrom(Group(g, p)) = TotalOf(Group(g, p)))'
              /\ TotalOf(Group(g, p))' = QuantityOf(items, p)
  <2>1. p \in Products
    BY <1>3 DEF OldProducts, Old, BatchRow
  <2>2. SoldOf(g, p) = 0
    <3>1. SoldOf(g, p) \in Nat
      BY <2>1, SoldIsTaken
    <3>2. 0 >= SoldOf(g, p)
      BY <1>1, <1>18 DEF CoversSold
    <3> QED  BY <3>1, <3>2
  <2>3. Group(g, p) \subseteq Gone
    BY <1>18, <2>2 DEF Group, Gone, DroppedBatches, BatchesOf
  <2>4. Group(g, p)' = {}
    BY <1>4, <1>7, <1>9, <1>11, <1>12, <2>3 DEF Group, Old, BatchesOf
  <2>5. /\ LeftOf(Group(g, p))' = 0 /\ TotalOf(Group(g, p))' = 0
        /\ TakenFrom(Group(g, p))' = 0
    BY <2>4, NetZero, TotalEmpty DEF LeftOf, TotalOf, TakenFrom
  <2> QED  BY <1>18, <2>5
<1>19. ASSUME NEW p \in OldProducts(g), QuantityOf(items, p) # 0
       PROVE  /\ (LeftOf(Group(g, p)) + TakenFrom(Group(g, p)) = TotalOf(Group(g, p)))'
              /\ TotalOf(Group(g, p))' = QuantityOf(items, p)
  <2> DEFINE G == Group(g, p)
             f == first[p]
             newTotal == QuantityOf(items, p)
             left == [b \in G |-> ProductBatch'[b].quantityLeft]
             total == [b \in G |-> ProductBatch'[b].quantityTotal]
  <2>1. p \in Products
    BY <1>3 DEF OldProducts, Old, BatchRow
  <2>2. SoldOf(g, p) = TakenFrom(G) /\ SoldOf(g, p) \in Nat
    BY <2>1, SoldIsTaken
  <2>3. newTotal \in Int /\ newTotal >= SoldOf(g, p)
    BY <1>1, QuantityInt DEF CoversSold
  <2>4. f \in G /\ G \subseteq Old \ Gone /\ G \in SUBSET DOMAIN ProductBatch
    BY <1>2, <1>19 DEF Group, Old, Gone, BatchesOf, DroppedBatches
  <2>5. Group(g, p)' = G
    <3>1. \A b \in Range(id) : b \notin Group(g, p)' /\ b \notin DOMAIN ProductBatch
      BY <1>4, <1>5, <1>11 DEF Group, FreeIds
    <3>2. \A b \in DOMAIN ProductBatch \ Gone : b \in Group(g, p)' <=> b \in G
      BY <1>7, <1>9, <1>12, <1>3 DEF Group, Old, BatchesOf
    <3>3. Group(g, p)' \subseteq DOMAIN ProductBatch'
      BY DEF Group
    <3> QED  BY <1>7, <2>4, <3>1, <3>2, <3>3
  <2>6. \A b \in G : /\ ProductBatch'[b].quantityTotal = (IF b = f THEN newTotal ELSE 0)
                     /\ ProductBatch'[b].quantityLeft =
                          (IF b = f THEN newTotal - SoldOf(g, p) ELSE 0)
    <3> TAKE b \in G
    <3>1. ProductBatch[b].productId = p
      BY DEF Group
    <3>2. b \in BatchesOf(g) /\ ProductBatch'[b] = Consolidated(g, items, first, b)
      BY <1>8, <2>4 DEF Old
    <3> QED  BY <1>1, <1>19, <3>1, <3>2, ConsolidatedRow
  <2>7. /\ left[f] = newTotal - SoldOf(g, p) /\ total[f] = newTotal
        /\ \A b \in G \ {f} : left[b] = 0 /\ total[b] = 0
        /\ left[f] \in Int /\ total[f] \in Int
    BY <2>2, <2>3, <2>4, <2>6
  <2>8. /\ LeftOf(Group(g, p))' = Net(left, G)
        /\ TotalOf(Group(g, p))' = Net(total, G)
    BY <2>5 DEF LeftOf, TotalOf
  <2>9. IsFiniteSet(G)
    BY <2>4, BatchesFinite DEF Inv
  <2>10. TakenFrom(Group(g, p))' = TakenFrom(G)
    <3>1. TakenFrom(Group(g, p))' = Total([b \in G |-> Taken(b)'], G)
      BY <2>5 DEF TakenFrom
    <3>2. \A b \in G : Taken(b)' = Taken(b)
      BY <1>6 DEF Taken
    <3> QED  BY <3>1, <3>2, TotalEqual DEF TakenFrom
  <2> HIDE DEF G, f, newTotal, left, total
  <2>11. Net(left, G) = left[f]
    BY <2>4, <2>7, <2>9, NetOnly
  <2>12. Net(total, G) = total[f]
    BY <2>4, <2>7, <2>9, NetOnly
  <2>13. LeftOf(Group(g, p))' = newTotal - SoldOf(g, p) /\ TotalOf(Group(g, p))' = newTotal
    BY <2>2, <2>3, <2>7, <2>8, <2>11, <2>12
  <2> QED  BY <2>2, <2>3, <2>10, <2>13 DEF newTotal
<1>20. StockConserved'
  BY <1>16, <1>17, <1>18, <1>19 DEF StockConserved
<1>21. \A b \in DOMAIN ProductBatch \cap DOMAIN ProductBatch' :
         ProductBatch'[b].productId = ProductBatch[b].productId
  BY <1>5, <1>7, <1>9, <1>12 DEF FreeIds
<1> QED  BY <1>6, <1>13, <1>14, <1>15, <1>16, <1>17, <1>18, <1>19, <1>20, <1>21, <1>22
         DEF Inv

-----------------------------------------------------------------------------
(* The invariant and what follows from it.                                 *)

\* The empty database satisfies the invariant.
LEMMA InitInv == Init => Inv
<1> SUFFICES ASSUME Init PROVE Inv
  OBVIOUS
<1>1. DOMAIN inbound = {} /\ DOMAIN outbound = {} /\ DOMAIN ProductBatch = {}
  BY DEF Init
<1>2. /\ inbound \in [{} -> InRow] /\ outbound \in [{} -> OutRow]
      /\ ProductBatch \in [{} -> BatchRow]
  BY DEF Init
<1>3. TypeOK
  BY <1>1, <1>2 DEF Init, TypeOK, IsTable, NothingOverdrawn
<1>4. BatchOfPosted /\ TakenFromRows /\ DraftHoldsNothing /\ NegativeUntouched
  BY <1>1 DEF Init, BatchOfPosted, TakenFromRows, DraftHoldsNothing, NegativeUntouched
<1>5. StockConserved
  <2> SUFFICES ASSUME NEW s \in Inbound, NEW p \in Products
               PROVE  LeftOf(Group(s, p)) + TakenFrom(Group(s, p)) = TotalOf(Group(s, p))
    BY DEF StockConserved
  <2>1. Group(s, p) = {}
    BY <1>1 DEF Group
  <2>2. LeftOf({}) = 0 /\ TakenFrom({}) = 0 /\ TotalOf({}) = 0
    BY NetZero, TotalEmpty DEF LeftOf, TakenFrom, TotalOf
  <2> QED  BY <2>1, <2>2
<1> QED  BY <1>3, <1>4, <1>5 DEF Inv

\* Every call on an incoming document, and an arrival, keeps the invariant.
LEMMA InboundNextInv == ASSUME Inv, InboundNext PROVE Inv'
<1>1. GoodsReceipts \subseteq Inbound /\ BuyerReturns \subseteq Inbound
  BY DEF Inbound
<1>2. ASSUME NEW g \in GoodsReceipts, NEW w \in Warehouses, NEW t \in Dates,
             NEW items \in InItems, CreateGoodsReceipt(g, w, t, items)
      PROVE  Inv'
  BY <1>1, <1>2, CreateInboundInv DEF CreateGoodsReceipt
<1>3. ASSUME NEW g \in GoodsReceipts, NEW w \in Warehouses, NEW t \in Dates,
             NEW items \in InItems, UpdateSavedReceipt(g, w, t, items)
      PROVE  Inv'
  BY <1>1, <1>3, EditInboundInv DEF UpdateSavedReceipt
<1>4. ASSUME NEW g \in GoodsReceipts, NEW w \in Warehouses, NEW t \in Dates,
             NEW items \in InItems, UpdatePostedReceipt(g, w, t, items)
      PROVE  Inv'
  BY <1>1, <1>4, UpdatePostedReceiptInv
<1>5. ASSUME NEW g \in GoodsReceipts, PostGoodsReceipt(g)  PROVE  Inv'
  BY <1>1, <1>5, PostInboundInv DEF PostGoodsReceipt
<1>6. ASSUME NEW g \in GoodsReceipts, UnpostGoodsReceipt(g)  PROVE  Inv'
  BY <1>1, <1>6, DropBatchesInv DEF UnpostGoodsReceipt
<1>7. ASSUME NEW g \in GoodsReceipts, DeleteGoodsReceipt(g)  PROVE  Inv'
  BY <1>1, <1>7, DeleteInboundInv DEF DeleteGoodsReceipt
<1>8. ASSUME NEW s \in BuyerReturns, NEW w \in Warehouses, NEW t \in Dates,
             NEW items \in InItems, CreateBuyerReturn(s, w, t, items)
      PROVE  Inv'
  BY <1>1, <1>8, CreateInboundInv DEF CreateBuyerReturn
<1>9. ASSUME NEW s \in BuyerReturns, NEW w \in Warehouses, NEW t \in Dates,
             NEW items \in InItems, UpdateBuyerReturn(s, w, t, items)
      PROVE  Inv'
  BY <1>1, <1>9, EditInboundInv DEF UpdateBuyerReturn
<1>10. ASSUME NEW s \in BuyerReturns, PostBuyerReturn(s)  PROVE  Inv'
  BY <1>1, <1>10, PostInboundInv DEF PostBuyerReturn
<1>11. ASSUME NEW s \in BuyerReturns, UnpostBuyerReturn(s)  PROVE  Inv'
  BY <1>1, <1>11, DropBatchesInv DEF UnpostBuyerReturn
<1>12. ASSUME NEW s \in BuyerReturns, DeleteBuyerReturn(s)  PROVE  Inv'
  BY <1>1, <1>12, DeleteInboundInv DEF DeleteBuyerReturn
<1>13. ASSUME NEW p \in Products, NEW q \in InQuantities, NEW t \in Dates,
              AddArrival(p, q, t)
       PROVE  Inv'
  BY <1>13, AddArrivalInv
<1> QED  BY <1>2, <1>3, <1>4, <1>5, <1>6, <1>7, <1>8, <1>9, <1>10, <1>11, <1>12, <1>13
         DEF InboundNext

\* Every call on an outgoing document keeps the invariant.
LEMMA OutboundNextInv == ASSUME Inv, OutboundNext PROVE Inv'
<1> DEFINE Statuses == {"NEW", "ACCEPTED", "COMPLETED"}
<1>1. Realizations \subseteq Outbound /\ SupplierReturns \subseteq Outbound
  BY DEF Outbound
<1>2. orderStatus \in [Orders -> Statuses]
  BY DEF Inv, TypeOK
<1>3. ASSUME NEW d, NEW st \in Statuses, SetOrder(d, st)
      PROVE  orderStatus' \in [Orders -> Statuses]
  BY <1>2, <1>3 DEF SetOrder
<1>4. ASSUME NEW r \in Realizations, NEW w \in Warehouses, NEW items \in OutItems,
             CreateRealization(r, w, items)
      PROVE  Inv'
  BY <1>1, <1>2, <1>4, CreateOutboundInv DEF CreateRealization
<1>5. ASSUME NEW r \in Realizations, NEW w \in Warehouses, NEW items \in OutItems,
             NEW o \in Orders, CreateFromOrder(r, o, w, items)
      PROVE  Inv'
  <2>1. orderStatus' \in [Orders -> Statuses]
    BY <1>2, <1>5 DEF CreateFromOrder
  <2> QED  BY <1>1, <1>5, <2>1, CreateOutboundInv DEF CreateFromOrder
<1>6. ASSUME NEW r \in Realizations, NEW w \in Warehouses, NEW items \in OutItems,
             EditRealization(r, w, items)
      PROVE  Inv'
  BY <1>1, <1>6, EditOutboundInv DEF EditRealization
<1>7. ASSUME NEW r \in Realizations, PostRealization(r)  PROVE  Inv'
  BY <1>1, <1>3, <1>7, PostOutboundInv DEF PostRealization
<1>8. ASSUME NEW r \in Realizations, UnpostRealization(r)  PROVE  Inv'
  BY <1>1, <1>3, <1>8, UnpostOutboundInv DEF UnpostRealization
<1>9. ASSUME NEW r \in Realizations, DeleteRealization(r)  PROVE  Inv'
  BY <1>1, <1>9, DeleteRealizationInv
<1>10. ASSUME NEW d \in SupplierReturns, NEW w \in Warehouses, NEW items \in OutItems,
              CreateSupplierReturn(d, w, items)
       PROVE  Inv'
  BY <1>1, <1>2, <1>10, CreateOutboundInv DEF CreateSupplierReturn
<1>11. ASSUME NEW d \in SupplierReturns, NEW w \in Warehouses, NEW items \in OutItems,
              UpdateSupplierReturn(d, w, items)
       PROVE  Inv'
  BY <1>1, <1>11, EditOutboundInv DEF UpdateSupplierReturn
<1>12. ASSUME NEW d \in SupplierReturns, PostSupplierReturn(d)  PROVE  Inv'
  BY <1>1, <1>2, <1>12, PostOutboundInv DEF PostSupplierReturn
<1>13. ASSUME NEW d \in SupplierReturns, UnpostSupplierReturn(d)  PROVE  Inv'
  BY <1>1, <1>2, <1>13, UnpostOutboundInv DEF UnpostSupplierReturn
<1>14. ASSUME NEW d \in SupplierReturns, DeleteSupplierReturn(d)  PROVE  Inv'
  BY <1>1, <1>14, DeleteSupplierReturnInv
<1> QED  BY <1>4, <1>5, <1>6, <1>7, <1>8, <1>9, <1>10, <1>11, <1>12, <1>13, <1>14
         DEF OutboundNext

\* A call that fails changes nothing, so it keeps the invariant.
LEMMA StutterInv == ASSUME Inv, UNCHANGED vars PROVE Inv'
<1>1. StockConserved' /\ TakenFromRows' /\ NegativeUntouched'
  BY SameStock DEF vars
<1>2. TypeOK' /\ BatchOfPosted' /\ DraftHoldsNothing'
  BY DEF vars, Inv, TypeOK, NothingOverdrawn, BatchOfPosted, DraftHoldsNothing
<1> QED  BY <1>1, <1>2 DEF Inv

\* The inductive invariant holds in every reachable state: posting, unposting,
\* editing and deleting documents in any order keeps the tables consistent.
THEOREM LedgerInvariant == Spec => []Inv
<1>1. Init => Inv
  BY InitInv
<1>2. Inv /\ [Next]_vars => Inv'
  BY InboundNextInv, OutboundNextInv, StutterInv DEF Next
<1> QED  BY <1>1, <1>2, PTL DEF Spec

\* Every table keeps its type and no batch is overdrawn, for goods entered with
\* quantities of either sign: a negative quantityLeft is the one the batch was
\* entered with.
THEOREM LedgerTypeOK == Spec => []TypeOK
<1>1. Inv => TypeOK
  BY DEF Inv
<1> QED  BY <1>1, LedgerInvariant, PTL

\* Every unit a document brought in is on stock or was taken by a document.
THEOREM LedgerConservesStock == Spec => []StockConserved
<1>1. Inv => StockConserved
  BY DEF Inv
<1> QED  BY <1>1, LedgerInvariant, PTL

-----------------------------------------------------------------------------
(* Sold goods keep their origin.                                           *)

\* The steps of an outgoing document touch the rows of that document only,
\* and only when it is not POSTED before or after.
LEMMA OutboundKeepsRows == ASSUME Inv, OutboundNext PROVE KeepsSoldRows
<1>1. Realizations \subseteq Outbound /\ SupplierReturns \subseteq Outbound
  BY DEF Outbound
<1>2. DOMAIN outbound \subseteq Outbound /\ \A d \in DOMAIN outbound : outbound[d] \in OutRow
  BY DEF Inv, TypeOK, IsTable
<1>3. deducted \in [Outbound -> [BatchIds -> Nat]]
  BY DEF Inv, TypeOK
<1>4. ASSUME NEW d \in Outbound, PostOutbound(d)  PROVE  KeepsSoldRows
  <2>1. outbound[d].status # "POSTED"
    BY <1>4 DEF PostOutbound
  <2>2. \A e \in Outbound \ {d} : deducted'[e] = deducted[e]
    BY <1>3, <1>4 DEF PostOutbound
  <2> QED  BY <1>2, <2>1, <2>2 DEF KeepsSoldRows
<1>5. ASSUME NEW d \in Outbound, UnpostOutbound(d)  PROVE  KeepsSoldRows
  <2>1. outbound'[d].status = "DRAFT"
    BY <1>2, <1>5 DEF UnpostOutbound, OutRow
  <2>2. \A e \in Outbound \ {d} : deducted'[e] = deducted[e]
    BY <1>3, <1>5 DEF UnpostOutbound
  <2> QED  BY <1>2, <2>1, <2>2 DEF KeepsSoldRows
<1>6. ASSUME UNCHANGED deducted  PROVE  KeepsSoldRows
  BY <1>6 DEF KeepsSoldRows
<1>7. ASSUME NEW d \in Outbound, NEW w \in Warehouses, NEW items \in OutItems,
             EditOutbound(d, w, items)
      PROVE  KeepsSoldRows
  BY <1>6, <1>7, EditOutboundInv
<1>8. ASSUME NEW r \in Realizations, NEW w \in Warehouses, NEW items \in OutItems,
             \/ CreateRealization(r, w, items)
             \/ \E o \in Orders : CreateFromOrder(r, o, w, items)
             \/ EditRealization(r, w, items)
      PROVE  KeepsSoldRows
  BY <1>1, <1>6, <1>7, <1>8
     DEF CreateRealization, CreateFromOrder, CreateOutbound, EditRealization
<1>9. ASSUME NEW r \in Realizations,
             PostRealization(r) \/ UnpostRealization(r) \/ DeleteRealization(r)
      PROVE  KeepsSoldRows
  BY <1>1, <1>4, <1>5, <1>6, <1>9 DEF PostRealization, UnpostRealization, DeleteRealization
<1>10. ASSUME NEW d \in SupplierReturns, NEW w \in Warehouses, NEW items \in OutItems,
              CreateSupplierReturn(d, w, items) \/ UpdateSupplierReturn(d, w, items)
       PROVE  KeepsSoldRows
  BY <1>1, <1>6, <1>7, <1>10 DEF CreateSupplierReturn, CreateOutbound, UpdateSupplierReturn
<1>11. ASSUME NEW d \in SupplierReturns,
              PostSupplierReturn(d) \/ UnpostSupplierReturn(d) \/ DeleteSupplierReturn(d)
       PROVE  KeepsSoldRows
  BY <1>1, <1>4, <1>5, <1>6, <1>11, DeleteSupplierReturnInv
     DEF PostSupplierReturn, UnpostSupplierReturn
<1> QED  BY <1>8, <1>9, <1>10, <1>11 DEF OutboundNext

\* The steps of an incoming document delete rows of untouched batches only,
\* unless the document is a buyer return.
LEMMA InboundKeepsRows == ASSUME Inv, InboundNext PROVE KeepsSoldRows
<1>1. GoodsReceipts \subseteq Inbound /\ DOMAIN outbound \subseteq Outbound
  BY DEF Inbound, Inv, TypeOK, IsTable
<1>2. ASSUME UNCHANGED deducted  PROVE  KeepsSoldRows
  BY <1>2 DEF KeepsSoldRows
<1>3. ASSUME NEW s, CascadeDeleted(BatchesOf(s))
      PROVE  \A d \in Outbound, b \in BatchIds :
               deducted'[d][b] # deducted[d][b] =>
                 b \in BatchesOf(s) /\ deducted[d][b] # 0
  BY <1>3 DEF CascadeDeleted
<1>4. ASSUME NEW g \in GoodsReceipts, NEW w \in Warehouses, NEW t \in Dates,
             NEW items \in InItems,
             \/ CreateGoodsReceipt(g, w, t, items)
             \/ UpdateSavedReceipt(g, w, t, items)
             \/ UpdatePostedReceipt(g, w, t, items)
      PROVE  KeepsSoldRows
  BY <1>1, <1>2, <1>4, UpdatePostedReceiptInv
     DEF CreateGoodsReceipt, CreateInbound, UpdateSavedReceipt, EditInbound
<1>5. ASSUME NEW g \in GoodsReceipts, UnpostGoodsReceipt(g)  PROVE  KeepsSoldRows
  <2>1. CascadeDeleted(BatchesOf(g)) /\ NothingSold(g)
    BY <1>5 DEF UnpostGoodsReceipt, DropBatches
  <2>2. \A b \in BatchesOf(g), d \in Outbound : deducted[d][b] = 0
    BY <1>1, <2>1, NothingSoldUntouched
  <2> QED  BY <1>1, <1>3, <2>1, <2>2 DEF KeepsSoldRows
<1>6. ASSUME NEW s \in BuyerReturns, UnpostBuyerReturn(s)  PROVE  KeepsSoldRows
  <2>1. CascadeDeleted(BatchesOf(s))
    BY <1>6 DEF UnpostBuyerReturn, DropBatches
  <2>2. \A b \in BatchesOf(s) : ProductBatch[b].source = s
    BY DEF BatchesOf
  <2> QED  BY <1>1, <1>3, <2>1, <2>2 DEF KeepsSoldRows
<1>7. ASSUME NEW s \in Inbound, PostInbound(s) \/ DeleteInbound(s)  PROVE  KeepsSoldRows
  BY <1>2, <1>7 DEF PostInbound, DeleteInbound
<1>8. ASSUME NEW s \in BuyerReturns, NEW w \in Warehouses, NEW t \in Dates,
             NEW items \in InItems,
             CreateBuyerReturn(s, w, t, items) \/ UpdateBuyerReturn(s, w, t, items)
      PROVE  KeepsSoldRows
  BY <1>2, <1>8 DEF CreateBuyerReturn, CreateInbound, UpdateBuyerReturn, EditInbound
<1>9. ASSUME NEW p \in Products, NEW q \in InQuantities, NEW t \in Dates,
             AddArrival(p, q, t)
      PROVE  KeepsSoldRows
  BY <1>2, <1>9 DEF AddArrival
<1>10. BuyerReturns \subseteq Inbound
  BY DEF Inbound
<1> QED  BY <1>1, <1>4, <1>5, <1>6, <1>7, <1>8, <1>9, <1>10
         DEF InboundNext, PostGoodsReceipt, DeleteGoodsReceipt, PostBuyerReturn,
             DeleteBuyerReturn

\* No receipt can be edited or unposted in a way that deletes the record of
\* where the goods of a POSTED sale came from: the checks of update and of
\* unpost, which look at the sums of the batches only, are sufficient.
THEOREM LedgerSoldStockSurvives == Spec => SoldStockSurvives
<1>1. Inv /\ [Next]_vars => [KeepsSoldRows]_vars
  BY InboundKeepsRows, OutboundKeepsRows DEF Next
<1> QED  BY <1>1, LedgerInvariant, PTL DEF Spec, SoldStockSurvives

-----------------------------------------------------------------------------
(* Stock agrees with the documents that brought it in.                     *)

\* A document that is not POSTED has brought nothing in.
LEMMA NotPostedNoTotal ==
  ASSUME BatchOfPosted', NEW s \in Inbound, NEW p,
         s \notin DOMAIN inbound' \/ inbound'[s].status # "POSTED"
  PROVE  TotalOf(Group(s, p))' = 0
<1>1. Group(s, p)' = {}
  BY IdAssumption DEF BatchOfPosted, Group
<1> QED  BY <1>1, NetZero DEF TotalOf

\* A document that stays POSTED with its lines needs the totals of its batches to
\* stay; that of another POSTED document is what its lines ask for.
LEMMA AccountedStep ==
  ASSUME Inv', ReceiptAccounted,
         \A s \in DOMAIN inbound', p \in Products : inbound'[s].status = "POSTED" =>
           \/ TotalOf(Group(s, p))' = QuantityOf(inbound'[s].items, p)
           \/ /\ s \in DOMAIN inbound /\ inbound[s].status = "POSTED"
              /\ inbound'[s].items = inbound[s].items
              /\ TotalOf(Group(s, p))' = TotalOf(Group(s, p))
  PROVE  ReceiptAccounted'
<1> SUFFICES ASSUME NEW s \in Inbound, NEW p \in Products
             PROVE  TotalOf(Group(s, p))' =
                      IF s \in DOMAIN inbound' /\ inbound'[s].status = "POSTED"
                      THEN QuantityOf(inbound'[s].items, p) ELSE 0
  BY DEF ReceiptAccounted, QuantityOf, LinesOf
<1>1. CASE s \in DOMAIN inbound' /\ inbound'[s].status = "POSTED"
  BY <1>1 DEF ReceiptAccounted
<1>2. CASE ~(s \in DOMAIN inbound' /\ inbound'[s].status = "POSTED")
  BY <1>2, NotPostedNoTotal DEF Inv
<1> QED  BY <1>1, <1>2

\* Steps that leave the incoming documents other than g alone, and what their
\* batches are.
LEMMA OthersAccounted ==
  ASSUME Inv, Inv', ReceiptAccounted, NEW g,
         \A s \in DOMAIN inbound' \ {g} : s \in DOMAIN inbound /\ inbound'[s] = inbound[s],
         \A s \in Inbound \ {g} : BatchesOf(s)' = BatchesOf(s),
         \A s \in Inbound \ {g} : \A b \in BatchesOf(s) :
           /\ ProductBatch'[b].productId = ProductBatch[b].productId
           /\ ProductBatch'[b].quantityTotal = ProductBatch[b].quantityTotal,
         g \in DOMAIN inbound' => inbound'[g].status # "POSTED"
  PROVE  ReceiptAccounted'
<1>1. ASSUME NEW s \in DOMAIN inbound', NEW p \in Products, s # g
      PROVE  TotalOf(Group(s, p))' = TotalOf(Group(s, p))
  <2>1. s \in Inbound
    BY <1>1 DEF Inv, TypeOK, IsTable
  <2>2. Group(s, p)' = Group(s, p) /\ Group(s, p) \subseteq BatchesOf(s)
    BY <1>1, <2>1 DEF Group, BatchesOf
  <2>3. TotalOf(Group(s, p))' = Net([b \in Group(s, p) |-> ProductBatch'[b].quantityTotal],
                                    Group(s, p))
    BY <2>2 DEF TotalOf
  <2>4. \A b \in Group(s, p) : ProductBatch'[b].quantityTotal = ProductBatch[b].quantityTotal
    BY <1>1, <2>1, <2>2
  <2> QED  BY <2>3, <2>4, NetEqual DEF TotalOf
<1> QED  BY <1>1, AccountedStep

\* The steps of an outgoing document change no batch but for what it has left.
LEMMA OutboundKeepsBatches ==
  ASSUME Inv, OutboundNext
  PROVE  /\ UNCHANGED inbound /\ DOMAIN ProductBatch' = DOMAIN ProductBatch
         /\ \A b \in DOMAIN ProductBatch :
              /\ ProductBatch'[b].source = ProductBatch[b].source
              /\ ProductBatch'[b].productId = ProductBatch[b].productId
              /\ ProductBatch'[b].quantityTotal = ProductBatch[b].quantityTotal
<1>1. \A b \in DOMAIN ProductBatch : ProductBatch[b] \in BatchRow
  BY DEF Inv, TypeOK, IsTable
<1>2. ASSUME NEW d, PostOutbound(d) \/ UnpostOutbound(d)
      PROVE  /\ UNCHANGED inbound /\ DOMAIN ProductBatch' = DOMAIN ProductBatch
             /\ \A b \in DOMAIN ProductBatch : \E q :
                  ProductBatch'[b] = [ProductBatch[b] EXCEPT !.quantityLeft = q]
  <2>1. CASE PostOutbound(d)
    <3>1. PICK take :
            ProductBatch' = [b \in DOMAIN ProductBatch |->
              IF b \in Candidates(d)
              THEN [ProductBatch[b] EXCEPT !.quantityLeft = @ - take[b]]
              ELSE ProductBatch[b]]
      BY <2>1 DEF PostOutbound
    <3>2. ASSUME NEW b \in DOMAIN ProductBatch, b \notin Candidates(d)
          PROVE  ProductBatch'[b] =
                   [ProductBatch[b] EXCEPT !.quantityLeft = ProductBatch[b].quantityLeft]
      BY <1>1, <3>1, <3>2 DEF BatchRow
    <3>3. ASSUME NEW b \in DOMAIN ProductBatch, b \in Candidates(d)
          PROVE  ProductBatch'[b] =
                   [ProductBatch[b] EXCEPT !.quantityLeft = @ - take[b]]
      BY <3>1, <3>3
    <3>4. \A b \in DOMAIN ProductBatch : \E q :
            ProductBatch'[b] = [ProductBatch[b] EXCEPT !.quantityLeft = q]
      BY <3>2, <3>3, Zenon
    <3> QED  BY <2>1, <3>1, <3>4 DEF PostOutbound
  <2>2. CASE UnpostOutbound(d)
    <3>1. \A b \in DOMAIN ProductBatch : \E q :
            ProductBatch'[b] = [ProductBatch[b] EXCEPT !.quantityLeft = q]
      BY <2>2, Zenon DEF UnpostOutbound, ReturnStock
    <3> QED  BY <2>2, <3>1 DEF UnpostOutbound, ReturnStock
  <2> QED  BY <1>2, <2>1, <2>2
<1>3. ASSUME NEW d, PostOutbound(d) \/ UnpostOutbound(d)
      PROVE  \A b \in DOMAIN ProductBatch :
               /\ ProductBatch'[b].source = ProductBatch[b].source
               /\ ProductBatch'[b].productId = ProductBatch[b].productId
               /\ ProductBatch'[b].quantityTotal = ProductBatch[b].quantityTotal
  <2> TAKE b \in DOMAIN ProductBatch
  <2>1. PICK q : ProductBatch'[b] = [ProductBatch[b] EXCEPT !.quantityLeft = q]
    BY <1>2, <1>3
  <2> QED  BY <1>1, <2>1 DEF BatchRow
<1>4. CASE UNCHANGED <<inbound, ProductBatch>>
  BY <1>4
<1>5. \/ UNCHANGED <<inbound, ProductBatch>>
      \/ \E d : PostOutbound(d) \/ UnpostOutbound(d)
  BY DEF OutboundNext, CreateRealization, CreateFromOrder, CreateOutbound, EditRealization,
         EditOutbound, PostRealization, UnpostRealization, DeleteRealization,
         CreateSupplierReturn, UpdateSupplierReturn, PostSupplierReturn,
         UnpostSupplierReturn, DeleteSupplierReturn
<1> QED  BY <1>2, <1>3, <1>4, <1>5

\* So do not change what the documents have brought in.
LEMMA OutboundAccounted ==
  ASSUME Inv, Inv', ReceiptAccounted, OutboundNext
  PROVE  ReceiptAccounted'
<1>1. \A s \in Inbound : BatchesOf(s)' = BatchesOf(s) /\ BatchesOf(s) \subseteq DOMAIN ProductBatch
  BY OutboundKeepsBatches DEF BatchesOf
<1>2. NULL \notin DOMAIN inbound'
  BY IdAssumption DEF Inv, TypeOK, IsTable
<1> QED  BY <1>1, <1>2, OutboundKeepsBatches, OthersAccounted

\* The steps of the incoming documents: posting and editing add up to the lines, and
\* a document whose batches go is not POSTED any more.
LEMMA InboundAccounted ==
  ASSUME Inv, Inv', ReceiptAccounted, InboundNext
  PROVE  ReceiptAccounted'
<1>1. /\ GoodsReceipts \subseteq Inbound /\ BuyerReturns \subseteq Inbound
      /\ DOMAIN inbound \subseteq Inbound /\ DOMAIN inbound' \subseteq Inbound
      /\ \A s \in DOMAIN inbound : inbound[s] \in InRow
  BY DEF Inv, TypeOK, IsTable, Inbound
<1>2. ASSUME NEW g \in Inbound, NEW w \in Warehouses, NEW t \in Dates, NEW items \in InItems,
             \/ CreateInbound(g, "SAVED", w, t, items) \/ CreateInbound(g, "DRAFT", w, t, items)
             \/ EditInbound(g, w, t, items)
      PROVE  ReceiptAccounted'
  <2>1. /\ \A s \in DOMAIN inbound' \ {g} : s \in DOMAIN inbound /\ inbound'[s] = inbound[s]
        /\ g \in DOMAIN inbound' => inbound'[g].status # "POSTED"
    <3>1. ASSUME NEW status \in {"SAVED", "DRAFT"}, CreateInbound(g, status, w, t, items)
          PROVE  /\ \A s \in DOMAIN inbound' \ {g} : s \in DOMAIN inbound /\ inbound'[s] = inbound[s]
                 /\ inbound'[g].status # "POSTED"
      BY <3>1 DEF CreateInbound, Put
    <3>2. CASE EditInbound(g, w, t, items)
      <4>1. inbound[g] \in InRow /\ inbound[g].status # "POSTED"
        BY <1>1, <3>2 DEF EditInbound
      <4>2. [inbound[g] EXCEPT !.warehouseId = w, !.date = t, !.items = items].status # "POSTED"
        BY <4>1 DEF InRow
      <4> QED  BY <3>2, <4>2 DEF EditInbound, ReplaceInbound
    <3> QED  BY <1>2, <3>1, <3>2
  <2>2. UNCHANGED ProductBatch
    BY <1>2 DEF CreateInbound, EditInbound
  <2> QED  BY <2>1, <2>2, OthersAccounted DEF BatchesOf
<1>3. ASSUME NEW s \in Inbound, PostInbound(s)
      PROVE  ReceiptAccounted'
  <2>1. /\ DOMAIN inbound' = DOMAIN inbound /\ inbound'[s].items = inbound[s].items
        /\ \A r \in DOMAIN inbound \ {s} : inbound'[r] = inbound[r]
    BY <1>1, <1>3 DEF PostInbound, InRow
  <2>2. \A r \in Inbound, p \in Products : TotalOf(Group(r, p))' =
          IF r = s THEN QuantityOf(inbound[s].items, p) ELSE TotalOf(Group(r, p))
    BY <1>3, PostInboundInv
  <2> QED  BY <1>1, <2>1, <2>2, AccountedStep
<1>4. ASSUME NEW g \in Inbound, NEW w \in Warehouses, NEW t \in Dates, NEW items \in InItems,
             UpdatePostedReceipt(g, w, t, items)
      PROVE  ReceiptAccounted'
  <2>1. /\ DOMAIN inbound' = DOMAIN inbound /\ inbound'[g].items = items
        /\ \A r \in DOMAIN inbound \ {g} : inbound'[r] = inbound[r]
    <3>1. inbound' = [inbound EXCEPT ![g] =
            [@ EXCEPT !.warehouseId = w, !.date = t, !.items = items]]
          /\ g \in DOMAIN inbound
      BY <1>4 DEF UpdatePostedReceipt, ReplaceInbound
    <3>2. inbound[g] \in InRow
      BY <1>1, <3>1
    <3>3. [inbound[g] EXCEPT !.warehouseId = w, !.date = t, !.items = items].items = items
      BY <3>2 DEF InRow
    <3> QED  BY <3>1, <3>3
  <2>2. \A r \in Inbound, p \in Products : TotalOf(Group(r, p))' =
          IF r = g THEN QuantityOf(items, p) ELSE TotalOf(Group(r, p))
    BY <1>4, UpdatePostedReceiptInv
  <2> QED  BY <1>1, <2>1, <2>2, AccountedStep
<1>5. ASSUME NEW s \in Inbound, s \in DOMAIN inbound, NEW status \in {"SAVED", "DRAFT"},
             DropBatches(s, status)
      PROVE  ReceiptAccounted'
  <2>1. /\ \A r \in DOMAIN inbound' \ {s} : r \in DOMAIN inbound /\ inbound'[r] = inbound[r]
        /\ inbound'[s].status # "POSTED"
    BY <1>1, <1>5 DEF DropBatches, InRow
  <2>2. \A r \in Inbound \ {s} : BatchesOf(r) \cap BatchesOf(s) = {}
    BY DEF BatchesOf
  <2>3. \A r \in Inbound \ {s} :
          /\ BatchesOf(r)' = BatchesOf(r)
          /\ \A b \in BatchesOf(r) : ProductBatch'[b] = ProductBatch[b]
    BY <1>5, <2>2 DEF DropBatches, Without, BatchesOf
  <2> QED  BY <2>1, <2>3, OthersAccounted
<1>6. ASSUME NEW s \in Inbound, DeleteInbound(s)
      PROVE  ReceiptAccounted'
  <2>1. /\ \A r \in DOMAIN inbound' \ {s} : r \in DOMAIN inbound /\ inbound'[r] = inbound[r]
        /\ s \notin DOMAIN inbound'
    BY <1>6 DEF DeleteInbound, Without
  <2>2. BatchesOf(s) = {}
    BY <1>6, IdAssumption DEF Inv, BatchOfPosted, DeleteInbound, BatchesOf
  <2>3. /\ DOMAIN ProductBatch' = DOMAIN ProductBatch
        /\ \A b \in DOMAIN ProductBatch : ProductBatch'[b] = ProductBatch[b]
    BY <1>6, <2>2 DEF DeleteInbound
  <2>4. \A r \in Inbound \ {s} : BatchesOf(r)' = BatchesOf(r)
    BY <2>3 DEF BatchesOf
  <2> QED  BY <2>1, <2>3, <2>4, OthersAccounted DEF BatchesOf
<1>7. ASSUME NEW p \in Products, NEW q \in InQuantities, NEW t \in Dates, AddArrival(p, q, t)
      PROVE  ReceiptAccounted'
  <2>1. PICK b \in FreeIds : ProductBatch' = Put(ProductBatch, b, NewBatch(p, q, NULL, t))
    BY <1>7 DEF AddArrival
  <2>2. \A s \in Inbound : /\ BatchesOf(s)' = BatchesOf(s)
                           /\ \A c \in BatchesOf(s) : ProductBatch'[c] = ProductBatch[c]
    BY <2>1, IdAssumption DEF BatchesOf, Put, NewBatch, FreeIds
  <2>3. UNCHANGED inbound /\ NULL \notin DOMAIN inbound'
    BY <1>1, <1>7, IdAssumption DEF AddArrival
  <2> QED  BY <2>2, <2>3, OthersAccounted
<1> QED  BY <1>1, <1>2, <1>3, <1>4, <1>5, <1>6, <1>7
         DEF InboundNext, CreateGoodsReceipt, UpdateSavedReceipt, PostGoodsReceipt,
             UnpostGoodsReceipt, DeleteGoodsReceipt, CreateBuyerReturn, UpdateBuyerReturn,
             PostBuyerReturn, UnpostBuyerReturn, DeleteBuyerReturn

\* However receipts and returns are posted, edited while POSTED, unposted and deleted,
\* the batches of every document add up to its lines (ReceiptAccounted).
THEOREM LedgerReceiptAccounted == Spec => []ReceiptAccounted
<1>1. Init => ReceiptAccounted
  <2>1. ASSUME Init, NEW s \in Inbound, NEW p \in Products
        PROVE  TotalOf(Group(s, p)) = 0 /\ s \notin DOMAIN inbound
    <3>1. Group(s, p) = {} /\ s \notin DOMAIN inbound
      BY <2>1 DEF Init, Group
    <3> QED  BY <3>1, NetZero DEF TotalOf
  <2> QED  BY <2>1 DEF ReceiptAccounted
<1>2. Inv /\ Inv' /\ ReceiptAccounted /\ [Next]_vars => ReceiptAccounted'
  <2>1. ASSUME Inv, Inv', ReceiptAccounted, UNCHANGED vars  PROVE ReceiptAccounted'
    <3>1. NULL \notin DOMAIN inbound'
      BY <2>1, IdAssumption DEF Inv, TypeOK, IsTable
    <3> QED  BY <2>1, <3>1, OthersAccounted DEF vars, BatchesOf
  <2> QED  BY <2>1, InboundAccounted, OutboundAccounted DEF Next
<1> QED  BY <1>1, <1>2, LedgerInvariant, PTL DEF Spec

-----------------------------------------------------------------------------
(* What outgoing documents hold agrees with their lines.                   *)

\* The batches of a product.
BatchesWith(p) == {b \in DOMAIN ProductBatch : ProductBatch[b].productId = p}

\* A document holds no more of a product when batches go, when batches come that it
\* has not taken from, and when its rows go.
LEMMA HeldFalls ==
  ASSUME Inv, TypeOK', NEW d \in Outbound, NEW p \in Products,
         \A b \in DOMAIN ProductBatch \cap DOMAIN ProductBatch' :
           ProductBatch'[b].productId = ProductBatch[b].productId,
         \A b \in BatchIds : deducted'[d][b] <= deducted[d][b]
  PROVE  HeldBy(d, p) \in Nat /\ HeldBy(d, p)' \in Nat /\ HeldBy(d, p)' <= HeldBy(d, p)
<1> DEFINE B == BatchesWith(p)
           C == BatchesWith(p)'
           f == [b \in BatchIds |-> deducted[d][b]]
           g == [b \in BatchIds |-> deducted'[d][b]]
<1>1. \A b \in BatchIds : f[b] \in Nat /\ g[b] \in Nat /\ g[b] <= f[b]
  BY DEF Inv, TypeOK
<1>2. /\ B \subseteq BatchIds /\ C \subseteq BatchIds
      /\ B \subseteq DOMAIN ProductBatch /\ C \subseteq DOMAIN ProductBatch'
  BY DEF BatchesWith, Inv, TypeOK, IsTable
<1>3. IsFiniteSet(B) /\ IsFiniteSet(C) /\ IsFiniteSet(B \cap C)
      /\ IsFiniteSet(B \ C) /\ IsFiniteSet(C \ B)
  BY <1>2, FiniteAssumption, FS_Subset
<1>4. HeldBy(d, p) = Total(f, B)
  <2>1. HeldBy(d, p) = Total([b \in B |-> deducted[d][b]], B)
    BY DEF HeldBy, BatchesWith
  <2>2. \A b \in B : deducted[d][b] = f[b]
    BY <1>2
  <2> QED  BY <2>1, <2>2, TotalEqual
<1>5. HeldBy(d, p)' = Total(g, C)
  <2>1. HeldBy(d, p)' = Total([b \in C |-> deducted'[d][b]], C)
    BY DEF HeldBy, BatchesWith
  <2>2. \A b \in C : deducted'[d][b] = g[b]
    BY <1>2
  <2> QED  BY <2>1, <2>2, TotalEqual
<1>6. \A b \in C \ B : g[b] = 0
  <2> TAKE b \in C \ B
  <2>1. b \notin DOMAIN ProductBatch
    BY DEF BatchesWith
  <2>2. f[b] = 0
    BY <1>2, <2>1 DEF Inv, TakenFromRows
  <2> QED  BY <1>1, <1>2, <2>2
<1> HIDE DEF B, C, f, g
<1>7. Total(g, C) = Total(g, B \cap C) + Total(g, C \ B)
  <2>1. C = (B \cap C) \cup (C \ B) /\ (B \cap C) \cap (C \ B) = {}
    OBVIOUS
  <2>2. \A b \in (B \cap C) \cup (C \ B) : g[b] \in Nat
    BY <1>1, <1>2
  <2>3. Total(g, (B \cap C) \cup (C \ B)) = Total(g, B \cap C) + Total(g, C \ B)
    BY <1>3, <2>1, <2>2, TotalUnion
  <2> QED  BY <2>1, <2>3
<1>8. Total(g, C \ B) = 0
  BY <1>6, TotalZero
<1>9. Total(g, B \cap C) <= Total(f, B \cap C)
  BY <1>1, <1>2, <1>3, TotalMonotone
<1>10. Total(f, B) = Total(f, B \cap C) + Total(f, B \ C)
  <2>1. B = (B \cap C) \cup (B \ C) /\ (B \cap C) \cap (B \ C) = {}
    OBVIOUS
  <2>2. \A b \in (B \cap C) \cup (B \ C) : f[b] \in Nat
    BY <1>1, <1>2
  <2>3. Total(f, (B \cap C) \cup (B \ C)) = Total(f, B \cap C) + Total(f, B \ C)
    BY <1>3, <2>1, <2>2, TotalUnion
  <2> QED  BY <2>1, <2>3
<1>11. /\ Total(f, B \ C) \in Nat /\ Total(f, B \cap C) \in Nat
       /\ Total(g, B \cap C) \in Nat
  BY <1>1, <1>2, <1>3, TotalNat
<1> QED  BY <1>4, <1>5, <1>7, <1>8, <1>9, <1>10, <1>11

\* The lines of a document ask for quantities.
LEMMA LinesNat ==
  ASSUME NEW row \in OutRow, NEW p \in Products
  PROVE  row.items[p] \in Nat
<1>1. row.items \in [Products -> OutQuantities \cup {0}]
  BY DEF OutRow, OutItems
<1>2. row.items[p] \in OutQuantities \/ row.items[p] = 0
  BY <1>1
<1>3. \A q \in OutQuantities : q \in Nat
  BY DataAssumption
<1> QED  BY <1>2, <1>3

\* Posting takes exactly what the lines ask for, from nothing.
LEMMA PostHoldsItsLines ==
  ASSUME Inv, Inv', NEW d \in Outbound, PostOutbound(d), NEW p \in Products
  PROVE  HeldBy(d, p)' = outbound[d].items[p]
<1> DEFINE A == Available(p, outbound[d].warehouseId)
           C == BatchesWith(p)'
           g == [b \in C |-> deducted'[d][b]]
<1>1. PICK take \in Takes(d) :
        /\ DeductStock(d, take)
        /\ ProductBatch' = [b \in DOMAIN ProductBatch |->
             IF b \in Candidates(d)
             THEN [ProductBatch[b] EXCEPT !.quantityLeft = @ - take[b]]
             ELSE ProductBatch[b]]
        /\ deducted' = [deducted EXCEPT ![d] = [b \in BatchIds |->
             IF b \in Candidates(d) THEN @[b] + take[b] ELSE @[b]]]
  BY DEF PostOutbound
<1>2. d \in DOMAIN outbound /\ outbound[d] \in OutRow /\ outbound[d].status # "POSTED"
  BY DEF Inv, TypeOK, IsTable, PostOutbound
<1>3. \A b \in Candidates(d) : take[b] \in Nat /\ b \in DOMAIN ProductBatch
  BY <1>1, <1>2, TakeBounded
<1>4. \A b \in BatchIds : deducted'[d][b] = IF b \in Candidates(d) THEN take[b] ELSE 0
  <2>1. \A b \in BatchIds : deducted[d][b] = 0
    BY <1>2 DEF Inv, DraftHoldsNothing
  <2> QED  BY <1>1, <1>3, <2>1 DEF Inv, TypeOK
<1>5. /\ DOMAIN ProductBatch \subseteq BatchIds
      /\ \A b \in DOMAIN ProductBatch : ProductBatch[b] \in BatchRow
  BY DEF Inv, TypeOK, IsTable
<1>6. C = BatchesWith(p)
  <2>1. \A b \in DOMAIN ProductBatch : ProductBatch'[b].productId = ProductBatch[b].productId
    BY <1>1, <1>5 DEF BatchRow
  <2> QED  BY <1>1, <2>1 DEF BatchesWith
<1>7. A \subseteq C /\ A \subseteq Candidates(d) /\ \A b \in C \ A : b \notin Candidates(d)
  BY <1>6 DEF BatchesWith, Available, Candidates
<1>8. /\ \A b \in A : g[b] = take[b] /\ g[b] \in Nat
      /\ \A b \in C \ A : g[b] = 0
  BY <1>3, <1>4, <1>5, <1>6, <1>7 DEF BatchesWith
<1>9. Total([b \in A |-> take[b]], A) = outbound[d].items[p]
  <2>1. Total([b \in A |-> take[b]], A) = outbound[d].items[p]
    BY <1>1 DEF DeductStock, FifoTake
  <2> QED  BY <2>1
<1>10. IsFiniteSet(A) /\ IsFiniteSet(C \ A)
  <2>1. C \subseteq BatchIds
    BY <1>5, <1>6 DEF BatchesWith
  <2> QED  BY <1>7, <2>1, FiniteAssumption, FS_Subset
<1>11. HeldBy(d, p)' = Total(g, C)
  BY DEF HeldBy, BatchesWith
<1>12. outbound[d].items[p] \in Nat
  BY <1>2, LinesNat
<1> HIDE DEF A, C, g
<1>13. Total(g, A) = outbound[d].items[p]
  <2>1. Total(g, A) = Total([b \in A |-> take[b]], A)
    BY <1>8, TotalEqual
  <2> QED  BY <1>9, <2>1
<1>14. Total(g, C \ A) = 0
  BY <1>8, TotalZero
<1>15. Total(g, C) = Total(g, A) + Total(g, C \ A)
  <2>1. C = A \cup (C \ A) /\ A \cap (C \ A) = {}
    BY <1>7
  <2>2. \A b \in A \cup (C \ A) : g[b] \in Nat
    BY <1>8
  <2>3. Total(g, A \cup (C \ A)) = Total(g, A) + Total(g, C \ A)
    BY <1>10, <2>1, <2>2, TotalUnion
  <2> QED  BY <2>1, <2>3
<1> QED  BY <1>11, <1>12, <1>13, <1>14, <1>15

\* A POSTED document is as it was, and its rows may only go, or it has just taken what
\* its lines ask for.
LEMMA HoldsStep ==
  ASSUME Inv, Inv', HoldsAtMostItsLines,
         \A b \in DOMAIN ProductBatch \cap DOMAIN ProductBatch' :
           ProductBatch'[b].productId = ProductBatch[b].productId,
         \A d \in DOMAIN outbound' : outbound'[d].status = "POSTED" =>
           \/ \A p \in Products : HeldBy(d, p)' <= outbound'[d].items[p]
           \/ /\ d \in DOMAIN outbound /\ outbound'[d] = outbound[d]
              /\ \A b \in BatchIds : deducted'[d][b] <= deducted[d][b]
  PROVE  HoldsAtMostItsLines'
<1>1. /\ DOMAIN outbound \subseteq Outbound /\ DOMAIN outbound' \subseteq Outbound
      /\ \A d \in DOMAIN outbound : outbound[d] \in OutRow
  BY DEF Inv, TypeOK, IsTable
<1>2. ASSUME NEW d \in DOMAIN outbound', outbound'[d].status = "POSTED",
             d \in DOMAIN outbound, outbound'[d] = outbound[d],
             \A b \in BatchIds : deducted'[d][b] <= deducted[d][b],
             NEW p \in Products
      PROVE  HeldBy(d, p)' <= outbound'[d].items[p]
  <2>1. HeldBy(d, p) <= outbound[d].items[p]
    BY <1>1, <1>2 DEF HoldsAtMostItsLines
  <2>2. HeldBy(d, p) \in Nat /\ HeldBy(d, p)' \in Nat /\ HeldBy(d, p)' <= HeldBy(d, p)
    BY <1>1, <1>2, HeldFalls DEF Inv
  <2>3. outbound[d].items[p] \in Nat
    BY <1>1, <1>2, LinesNat
  <2> QED  BY <1>2, <2>1, <2>2, <2>3
<1>3. ASSUME NEW d \in Outbound, ~(d \in DOMAIN outbound' /\ outbound'[d].status = "POSTED")
      PROVE  \A b \in BatchIds : deducted'[d][b] = 0
  BY <1>3 DEF Inv, DraftHoldsNothing
<1>4. ASSUME NEW d \in Outbound, NEW p \in Products,
             d \in DOMAIN outbound', outbound'[d].status = "POSTED"
      PROVE  HeldBy(d, p)' <= outbound'[d].items[p]
  BY <1>2, <1>4
<1> QED  BY <1>3, <1>4 DEF HoldsAtMostItsLines, HeldBy

\* The steps of incoming documents only take rows away.
LEMMA InboundHolds ==
  ASSUME Inv, Inv', HoldsAtMostItsLines, InboundNext
  PROVE  HoldsAtMostItsLines'
<1>1. /\ GoodsReceipts \subseteq Inbound /\ BuyerReturns \subseteq Inbound
      /\ \A e \in Outbound, b \in BatchIds : deducted[e][b] \in Nat
      /\ \A b \in DOMAIN ProductBatch : ProductBatch[b] \in BatchRow
  BY DEF Inv, TypeOK, IsTable, Inbound
<1>2. ASSUME UNCHANGED outbound,
             \A e \in Outbound, b \in BatchIds : deducted'[e][b] <= deducted[e][b],
             \A b \in DOMAIN ProductBatch \cap DOMAIN ProductBatch' :
               ProductBatch'[b].productId = ProductBatch[b].productId
      PROVE  HoldsAtMostItsLines'
  <2>1. DOMAIN outbound \subseteq Outbound
    BY DEF Inv, TypeOK, IsTable
  <2> QED  BY <1>2, <2>1, HoldsStep
<1>3. ASSUME NEW g \in Inbound, NEW w \in Warehouses, NEW t \in Dates, NEW items \in InItems,
             \/ CreateInbound(g, "SAVED", w, t, items) \/ CreateInbound(g, "DRAFT", w, t, items)
             \/ EditInbound(g, w, t, items)
      PROVE  HoldsAtMostItsLines'
  <2>1. UNCHANGED <<outbound, ProductBatch, deducted>>
    BY <1>3 DEF CreateInbound, EditInbound
  <2> QED  BY <1>1, <1>2, <2>1
<1>4. ASSUME NEW s \in Inbound, PostInbound(s)
      PROVE  HoldsAtMostItsLines'
  <2>1. UNCHANGED <<outbound, deducted>>
    BY <1>4 DEF PostInbound
  <2>2. \A b \in DOMAIN ProductBatch : ProductBatch'[b] = ProductBatch[b]
    BY <1>4 DEF PostInbound
  <2> QED  BY <1>1, <1>2, <2>1, <2>2
<1>5. ASSUME NEW g \in Inbound, NEW w \in Warehouses, NEW t \in Dates, NEW items \in InItems,
             UpdatePostedReceipt(g, w, t, items)
      PROVE  HoldsAtMostItsLines'
  <2>1. UNCHANGED outbound
    BY <1>5 DEF UpdatePostedReceipt
  <2>2. UNCHANGED deducted
        /\ \A b \in DOMAIN ProductBatch \cap DOMAIN ProductBatch' :
             ProductBatch'[b].productId = ProductBatch[b].productId
    BY <1>5, UpdatePostedReceiptInv
  <2> QED  BY <1>1, <1>2, <2>1, <2>2
<1>6. ASSUME NEW s \in Inbound, NEW status \in {"SAVED", "DRAFT"}, DropBatches(s, status)
      PROVE  HoldsAtMostItsLines'
  <2>1. UNCHANGED outbound
        /\ \A b \in DOMAIN ProductBatch' : ProductBatch'[b] = ProductBatch[b]
    BY <1>6 DEF DropBatches, Without
  <2>2. \A e \in Outbound, b \in BatchIds : deducted'[e][b] <= deducted[e][b]
    BY <1>1, <1>6 DEF DropBatches, CascadeDeleted
  <2> QED  BY <1>2, <2>1, <2>2
<1>7. ASSUME NEW s \in Inbound, DeleteInbound(s)
      PROVE  HoldsAtMostItsLines'
  <2>1. UNCHANGED <<outbound, deducted>>
    BY <1>7 DEF DeleteInbound
  <2>2. \A b \in DOMAIN ProductBatch : ProductBatch'[b].productId = ProductBatch[b].productId
    BY <1>1, <1>7 DEF DeleteInbound, BatchRow
  <2> QED  BY <1>1, <1>2, <2>1, <2>2
<1>8. ASSUME NEW p \in Products, NEW q \in InQuantities, NEW t \in Dates, AddArrival(p, q, t)
      PROVE  HoldsAtMostItsLines'
  <2>1. PICK b \in FreeIds : ProductBatch' = Put(ProductBatch, b, NewBatch(p, q, NULL, t))
    BY <1>8 DEF AddArrival
  <2>2. \A c \in DOMAIN ProductBatch : ProductBatch'[c] = ProductBatch[c]
    BY <2>1 DEF Put, FreeIds
  <2>3. UNCHANGED <<outbound, deducted>>
    BY <1>8 DEF AddArrival
  <2> QED  BY <1>1, <1>2, <2>2, <2>3
<1> QED  BY <1>1, <1>3, <1>4, <1>5, <1>6, <1>7, <1>8
         DEF InboundNext, CreateGoodsReceipt, UpdateSavedReceipt, PostGoodsReceipt,
             UnpostGoodsReceipt, DeleteGoodsReceipt, CreateBuyerReturn, UpdateBuyerReturn,
             PostBuyerReturn, UnpostBuyerReturn, DeleteBuyerReturn

\* The steps of an outgoing document are about that document only.
LEMMA OutboundHolds ==
  ASSUME Inv, Inv', HoldsAtMostItsLines, OutboundNext
  PROVE  HoldsAtMostItsLines'
<1>1. /\ Realizations \subseteq Outbound /\ SupplierReturns \subseteq Outbound
      /\ \A e \in Outbound : deducted[e] \in [BatchIds -> Nat]
      /\ deducted \in [Outbound -> [BatchIds -> Nat]]
      /\ \A e \in DOMAIN outbound : outbound[e] \in OutRow
      /\ DOMAIN outbound \subseteq Outbound
  BY DEF Inv, TypeOK, IsTable, Outbound
<1>2. \A b \in DOMAIN ProductBatch \cap DOMAIN ProductBatch' :
        ProductBatch'[b].productId = ProductBatch[b].productId
  BY OutboundKeepsBatches
<1>3. ASSUME NEW d \in Outbound, PostOutbound(d)
      PROVE  HoldsAtMostItsLines'
  <2>1. /\ d \in DOMAIN outbound /\ outbound'[d].items = outbound[d].items
        /\ \A e \in DOMAIN outbound' \ {d} : e \in DOMAIN outbound /\ outbound'[e] = outbound[e]
    BY <1>1, <1>3 DEF PostOutbound, OutRow
  <2>2. \A e \in Outbound \ {d} : deducted'[e] = deducted[e]
    BY <1>1, <1>3 DEF PostOutbound
  <2>3. \A e \in Outbound \ {d}, b \in BatchIds : deducted'[e][b] <= deducted[e][b]
    BY <1>1, <2>2
  <2>4. \A p \in Products : HeldBy(d, p)' <= outbound'[d].items[p]
    <3> TAKE p \in Products
    <3>1. outbound[d].items[p] \in Nat
      BY <1>1, <2>1, LinesNat
    <3> QED  BY <1>3, <2>1, <3>1, PostHoldsItsLines
  <2> QED  BY <1>1, <1>2, <2>1, <2>3, <2>4, HoldsStep
<1>4. ASSUME NEW d \in Outbound, UnpostOutbound(d)
      PROVE  HoldsAtMostItsLines'
  <2>1. /\ outbound'[d].status # "POSTED"
        /\ \A e \in DOMAIN outbound' \ {d} : e \in DOMAIN outbound /\ outbound'[e] = outbound[e]
    BY <1>1, <1>4 DEF UnpostOutbound, OutRow
  <2>2. \A e \in Outbound \ {d} : deducted'[e] = deducted[e]
    BY <1>1, <1>4 DEF UnpostOutbound
  <2>3. \A e \in Outbound \ {d}, b \in BatchIds : deducted'[e][b] <= deducted[e][b]
    BY <1>1, <2>2
  <2> QED  BY <1>1, <1>2, <2>1, <2>3, HoldsStep
<1>5. ASSUME NEW d \in Outbound, UNCHANGED deducted,
             d \in DOMAIN outbound' => outbound'[d].status # "POSTED",
             \A e \in DOMAIN outbound' \ {d} : e \in DOMAIN outbound /\ outbound'[e] = outbound[e]
      PROVE  HoldsAtMostItsLines'
  <2>1. \A e \in Outbound \ {d}, b \in BatchIds : deducted'[e][b] <= deducted[e][b]
    BY <1>1, <1>5
  <2> QED  BY <1>1, <1>2, <1>5, <2>1, HoldsStep
<1>6. ASSUME NEW d \in Outbound, NEW w \in Warehouses, NEW items \in OutItems,
             NEW o \in Orders \cup {NULL}, CreateOutbound(d, w, items, o)
      PROVE  HoldsAtMostItsLines'
  <2>1. /\ UNCHANGED deducted
        /\ \A e \in DOMAIN outbound' \ {d} : e \in DOMAIN outbound /\ outbound'[e] = outbound[e]
    BY <1>6 DEF CreateOutbound, Put
  <2>2. outbound'[d].status = "DRAFT"
    BY <1>6, Zenon DEF CreateOutbound, Put
  <2> QED  BY <1>5, <2>1, <2>2
<1>7. ASSUME NEW d \in Outbound, NEW w \in Warehouses, NEW items \in OutItems,
             EditOutbound(d, w, items)
      PROVE  HoldsAtMostItsLines'
  <2>1. UNCHANGED deducted
    BY <1>7, EditOutboundInv
  <2>2. /\ outbound'[d].status # "POSTED"
        /\ \A e \in DOMAIN outbound' \ {d} : e \in DOMAIN outbound /\ outbound'[e] = outbound[e]
    BY <1>1, <1>7 DEF EditOutbound, OutRow
  <2> QED  BY <1>5, <2>1, <2>2
<1>8. ASSUME NEW d \in Outbound, DeleteRealization(d) \/ DeleteSupplierReturn(d)
      PROVE  HoldsAtMostItsLines'
  <2>1. UNCHANGED deducted
    BY <1>8, DeleteSupplierReturnInv DEF DeleteRealization
  <2>2. /\ d \in DOMAIN outbound' => outbound'[d].status # "POSTED"
        /\ \A e \in DOMAIN outbound' \ {d} : e \in DOMAIN outbound /\ outbound'[e] = outbound[e]
    BY <1>1, <1>8 DEF DeleteRealization, DeleteSupplierReturn, Without, OutRow
  <2> QED  BY <1>5, <2>1, <2>2
<1>9. ASSUME NEW r \in Realizations, NEW w \in Warehouses, NEW items \in OutItems,
             \/ CreateRealization(r, w, items)
             \/ \E o \in Orders : CreateFromOrder(r, o, w, items)
             \/ EditRealization(r, w, items)
      PROVE  HoldsAtMostItsLines'
  BY <1>1, <1>6, <1>7, <1>9 DEF CreateRealization, CreateFromOrder, EditRealization
<1>10. ASSUME NEW r \in Realizations,
              PostRealization(r) \/ UnpostRealization(r) \/ DeleteRealization(r)
       PROVE  HoldsAtMostItsLines'
  BY <1>1, <1>3, <1>4, <1>8, <1>10 DEF PostRealization, UnpostRealization
<1>11. ASSUME NEW d \in SupplierReturns, NEW w \in Warehouses, NEW items \in OutItems,
              CreateSupplierReturn(d, w, items) \/ UpdateSupplierReturn(d, w, items)
       PROVE  HoldsAtMostItsLines'
  BY <1>1, <1>6, <1>7, <1>11 DEF CreateSupplierReturn, UpdateSupplierReturn
<1>12. ASSUME NEW d \in SupplierReturns,
              PostSupplierReturn(d) \/ UnpostSupplierReturn(d) \/ DeleteSupplierReturn(d)
       PROVE  HoldsAtMostItsLines'
  BY <1>1, <1>3, <1>4, <1>8, <1>12 DEF PostSupplierReturn, UnpostSupplierReturn
<1> QED  BY <1>9, <1>10, <1>11, <1>12 DEF OutboundNext

\* A POSTED outgoing document never holds more than its lines ask for, and one that
\* is not POSTED holds nothing, whatever happens to the batches it took from
\* (HoldsAtMostItsLines).
THEOREM LedgerHoldsAtMostItsLines == Spec => []HoldsAtMostItsLines
<1>1. Init => HoldsAtMostItsLines
  BY DEF Init, HoldsAtMostItsLines
<1>2. Inv /\ Inv' /\ HoldsAtMostItsLines /\ [Next]_vars => HoldsAtMostItsLines'
  <2>1. ASSUME Inv, Inv', HoldsAtMostItsLines, UNCHANGED vars
        PROVE  HoldsAtMostItsLines'
    <3>1. \A e \in Outbound, b \in BatchIds : deducted'[e][b] <= deducted[e][b]
      BY <2>1 DEF vars, Inv, TypeOK
    <3>2. DOMAIN outbound \subseteq Outbound
      BY <2>1 DEF Inv, TypeOK, IsTable
    <3> QED  BY <2>1, <3>1, <3>2, HoldsStep DEF vars
  <2> QED  BY <2>1, InboundHolds, OutboundHolds DEF Next
<1> QED  BY <1>1, <1>2, LedgerInvariant, PTL DEF Spec

-----------------------------------------------------------------------------
(* Posted sales, where no goods come from buyers.                          *)

\* The steps of incoming documents leave the outgoing ones alone, and a batch its product.
LEMMA InboundKeepsProducts ==
  ASSUME Inv, InboundNext
  PROVE  /\ UNCHANGED outbound
         /\ \A b \in DOMAIN ProductBatch \cap DOMAIN ProductBatch' :
              ProductBatch'[b].productId = ProductBatch[b].productId
<1> DEFINE Kept == UNCHANGED outbound /\ \A b \in DOMAIN ProductBatch \cap DOMAIN ProductBatch' :
                     ProductBatch'[b].productId = ProductBatch[b].productId
<1>1. /\ GoodsReceipts \subseteq Inbound /\ BuyerReturns \subseteq Inbound
      /\ \A b \in DOMAIN ProductBatch : ProductBatch[b] \in BatchRow
  BY DEF Inv, TypeOK, IsTable, Inbound
<1>2. ASSUME NEW g \in Inbound, NEW w \in Warehouses, NEW t \in Dates, NEW items \in InItems,
             \/ CreateInbound(g, "SAVED", w, t, items) \/ CreateInbound(g, "DRAFT", w, t, items)
             \/ EditInbound(g, w, t, items)
      PROVE  Kept
  BY <1>2 DEF CreateInbound, EditInbound
<1>3. ASSUME NEW s \in Inbound, PostInbound(s) PROVE Kept
  <2>1. \A b \in DOMAIN ProductBatch : ProductBatch'[b] = ProductBatch[b]
    BY <1>3 DEF PostInbound
  <2>2. UNCHANGED outbound
    BY <1>3 DEF PostInbound
  <2> QED  BY <2>1, <2>2
<1>4. ASSUME NEW g \in Inbound, NEW w \in Warehouses, NEW t \in Dates, NEW items \in InItems,
             UpdatePostedReceipt(g, w, t, items)
      PROVE  Kept
  <2>1. UNCHANGED outbound
    BY <1>4 DEF UpdatePostedReceipt
  <2> QED  BY <1>4, <2>1, UpdatePostedReceiptInv
<1>5. ASSUME NEW s \in Inbound, NEW status \in {"SAVED", "DRAFT"}, DropBatches(s, status)
      PROVE  Kept
  BY <1>5 DEF DropBatches, Without
<1>6. ASSUME NEW s \in Inbound, DeleteInbound(s) PROVE Kept
  BY <1>1, <1>6 DEF DeleteInbound, BatchRow
<1>7. ASSUME NEW p \in Products, NEW q \in InQuantities, NEW t \in Dates, AddArrival(p, q, t)
      PROVE  Kept
  <2>1. PICK b \in FreeIds : ProductBatch' = Put(ProductBatch, b, NewBatch(p, q, NULL, t))
    BY <1>7 DEF AddArrival
  <2>2. \A c \in DOMAIN ProductBatch : ProductBatch'[c] = ProductBatch[c]
    BY <2>1 DEF Put, FreeIds
  <2>3. UNCHANGED outbound
    BY <1>7 DEF AddArrival
  <2> QED  BY <2>2, <2>3
<1> HIDE DEF Kept
<1>8. Kept
  BY <1>1, <1>2, <1>3, <1>4, <1>5, <1>6, <1>7
     DEF InboundNext, CreateGoodsReceipt, UpdateSavedReceipt, PostGoodsReceipt,
         UnpostGoodsReceipt, DeleteGoodsReceipt, CreateBuyerReturn, UpdateBuyerReturn,
         PostBuyerReturn, UnpostBuyerReturn, DeleteBuyerReturn
<1> QED  BY <1>8 DEF Kept

\* A document is POSTED by posting it, and as long as it stays POSTED it stays as it is.
LEMMA PostedByPosting ==
  ASSUME Inv, OutboundNext, NEW d \in DOMAIN outbound', outbound'[d].status = "POSTED"
  PROVE  \/ d \in DOMAIN outbound /\ outbound'[d] = outbound[d]
         \/ PostOutbound(d) /\ outbound'[d].items = outbound[d].items
<1>1. /\ Realizations \subseteq Outbound /\ SupplierReturns \subseteq Outbound
      /\ \A e \in DOMAIN outbound : outbound[e] \in OutRow
      /\ DOMAIN outbound \subseteq Outbound
  BY DEF Inv, TypeOK, IsTable, Outbound
<1> DEFINE Kept == d \in DOMAIN outbound /\ outbound'[d] = outbound[d]
           Goal == Kept \/ (PostOutbound(d) /\ outbound'[d].items = outbound[d].items)
<1>2. ASSUME NEW e \in Outbound, PostOutbound(e) PROVE Goal
  <2>1. e \in DOMAIN outbound /\ outbound' = [outbound EXCEPT ![e].status = "POSTED"]
    BY <1>2 DEF PostOutbound
  <2>2. outbound'[e].items = outbound[e].items
    BY <1>1, <2>1 DEF OutRow
  <2>3. d # e => Kept
    BY <2>1
  <2> QED  BY <1>2, <2>2, <2>3
<1>3. ASSUME NEW e \in Outbound, UnpostOutbound(e) PROVE Goal
  BY <1>1, <1>3 DEF UnpostOutbound, OutRow
<1>4. ASSUME NEW e \in Outbound, NEW w \in Warehouses, NEW items \in OutItems,
             NEW o \in Orders \cup {NULL}, CreateOutbound(e, w, items, o)
      PROVE  Goal
  <2>1. outbound'[e].status = "DRAFT"
    BY <1>4, Zenon DEF CreateOutbound, Put
  <2> QED  BY <1>4, <2>1 DEF CreateOutbound, Put
<1>5. ASSUME NEW e \in Outbound, NEW w \in Warehouses, NEW items \in OutItems,
             EditOutbound(e, w, items)
      PROVE  Goal
  BY <1>1, <1>5 DEF EditOutbound, OutRow
<1>6. ASSUME NEW e \in Outbound, DeleteRealization(e) \/ DeleteSupplierReturn(e)
      PROVE  Goal
  BY <1>1, <1>6 DEF DeleteRealization, DeleteSupplierReturn, Without, OutRow
<1> HIDE DEF Goal
<1>7. ASSUME NEW r \in Realizations, NEW w \in Warehouses, NEW items \in OutItems,
             \/ CreateRealization(r, w, items)
             \/ \E o \in Orders : CreateFromOrder(r, o, w, items)
             \/ EditRealization(r, w, items)
      PROVE  Goal
  BY <1>1, <1>4, <1>5, <1>7 DEF CreateRealization, CreateFromOrder, EditRealization
<1>8. ASSUME NEW r \in Realizations,
             PostRealization(r) \/ UnpostRealization(r) \/ DeleteRealization(r)
      PROVE  Goal
  BY <1>1, <1>2, <1>3, <1>6, <1>8 DEF PostRealization, UnpostRealization
<1>9. ASSUME NEW e \in SupplierReturns, NEW w \in Warehouses, NEW items \in OutItems,
             CreateSupplierReturn(e, w, items) \/ UpdateSupplierReturn(e, w, items)
      PROVE  Goal
  BY <1>1, <1>4, <1>5, <1>9 DEF CreateSupplierReturn, UpdateSupplierReturn
<1>10. ASSUME NEW e \in SupplierReturns,
              PostSupplierReturn(e) \/ UnpostSupplierReturn(e) \/ DeleteSupplierReturn(e)
       PROVE  Goal
  BY <1>1, <1>2, <1>3, <1>6, <1>10 DEF PostSupplierReturn, UnpostSupplierReturn
<1>11. Goal
  BY <1>7, <1>8, <1>9, <1>10 DEF OutboundNext
<1> QED  BY <1>11 DEF Goal

\* A document holds the same of a product while its rows stay.
LEMMA HeldStays ==
  ASSUME Inv, Inv', NEW d \in Outbound, NEW p \in Products,
         \A b \in DOMAIN ProductBatch \cap DOMAIN ProductBatch' :
           ProductBatch'[b].productId = ProductBatch[b].productId,
         \A b \in BatchIds : deducted'[d][b] = deducted[d][b]
  PROVE  HeldBy(d, p)' = HeldBy(d, p)
<1>1. PICK B, C, f, g : /\ B = BatchesWith(p) /\ C = BatchesWith(p)'
                        /\ f = [b \in B |-> deducted[d][b]]
                        /\ g = [b \in C |-> deducted'[d][b]]
  OBVIOUS
<1>2. B \subseteq BatchIds /\ C \subseteq BatchIds
  BY <1>1 DEF BatchesWith, Inv, TypeOK, IsTable
<1>3. \A b \in B \cap C : f[b] = g[b]
  BY <1>1, <1>2
<1>4. ASSUME NEW b \in B \ C PROVE f[b] = 0
  <2>1. b \notin DOMAIN ProductBatch'
    BY <1>1 DEF BatchesWith
  <2>2. deducted'[d][b] = 0
    BY <1>2, <2>1 DEF Inv, TakenFromRows
  <2> QED  BY <1>1, <1>2, <2>2
<1>5. ASSUME NEW b \in C \ B PROVE g[b] = 0
  <2>1. b \notin DOMAIN ProductBatch
    BY <1>1 DEF BatchesWith
  <2>2. deducted[d][b] = 0
    BY <1>2, <2>1 DEF Inv, TakenFromRows
  <2> QED  BY <1>1, <1>2, <2>2
<1>6. Total(f, B) = Total(g, C)
  BY <1>3, <1>4, <1>5, TotalSame
<1>7. HeldBy(d, p) = Total(f, B)
  BY <1>1 DEF HeldBy, BatchesWith
<1>8. HeldBy(d, p)' = Total(g, C)
  BY <1>1 DEF HeldBy, BatchesWith
<1> QED  BY <1>6, <1>7, <1>8

\* Where no goods come from buyers, a POSTED outgoing document holds all of the goods
\* on its lines (PostedSaleCovered): receipts are not unposted from under a sale.
THEOREM ReceiptsCoverSales ==
  ASSUME BuyerReturns = {}
  PROVE  Spec => []PostedSaleCovered
<1>1. Init => PostedSaleCovered
  BY DEF Init, PostedSaleCovered
<1>2. ASSUME Inv, Inv', PostedSaleCovered, Next
      PROVE  PostedSaleCovered'
  <2> SUFFICES ASSUME NEW d \in DOMAIN outbound', outbound'[d].status = "POSTED",
                      NEW p \in Products
               PROVE  HeldBy(d, p)' = outbound'[d].items[p]
    BY DEF PostedSaleCovered, HeldBy
  <2>1. \A b \in DOMAIN ProductBatch \cap DOMAIN ProductBatch' :
          ProductBatch'[b].productId = ProductBatch[b].productId
    BY <1>2, InboundKeepsProducts, OutboundKeepsBatches DEF Next
  <2>2. KeepsSoldRows
    BY <1>2, InboundKeepsRows, OutboundKeepsRows DEF Next
  <2>3. d \in Outbound
    BY <1>2 DEF Inv, TypeOK, IsTable
  <2>4. CASE d \in DOMAIN outbound /\ outbound'[d] = outbound[d]
    <3>1. \A b \in BatchIds : deducted'[d][b] = deducted[d][b]
      BY <2>2, <2>4 DEF KeepsSoldRows
    <3>2. HeldBy(d, p)' = HeldBy(d, p)
      BY <1>2, <2>1, <2>3, <3>1, HeldStays
    <3>3. HeldBy(d, p) = outbound[d].items[p]
      BY <1>2, <2>4 DEF PostedSaleCovered
    <3> QED  BY <2>4, <3>2, <3>3
  <2>5. CASE PostOutbound(d) /\ outbound'[d].items = outbound[d].items
    <3>1. HeldBy(d, p)' = outbound[d].items[p]
      BY <1>2, <2>3, <2>5, PostHoldsItsLines
    <3> QED  BY <2>5, <3>1
  <2> QED  BY <1>2, <2>4, <2>5, InboundKeepsProducts, PostedByPosting DEF Next
<1>3. ASSUME PostedSaleCovered, UNCHANGED vars PROVE PostedSaleCovered'
  BY <1>3 DEF vars, PostedSaleCovered, HeldBy
<1>4. Inv /\ Inv' /\ PostedSaleCovered /\ [Next]_vars => PostedSaleCovered'
  BY <1>2, <1>3
<1> QED  BY <1>1, <1>4, LedgerInvariant, PTL DEF Spec

-----------------------------------------------------------------------------
(* The reports on stock.                                                   *)

\* Every outgoing document has a date.
SaleDated ==
  DOMAIN saleDate = DOMAIN outbound /\ \A d \in DOMAIN outbound : saleDate[d] \in Dates

\* What is written is dated, and what is not keeps its date.
LEMMA ReportsDated == ReportSpec => []SaleDated
<1>1. ReportInit => SaleDated
  BY DEF ReportInit, Init, SaleDated
<1>2. SaleDated /\ [ReportNext]_<<vars, saleDate>> => SaleDated'
  <2>1. ASSUME SaleDated, LedgerStep PROVE SaleDated'
    BY <2>1 DEF LedgerStep, SaleDated, Written
  <2>2. ASSUME SaleDated, NEW d \in Outbound, NEW t \in Dates, DateEdit(d, t)
        PROVE  SaleDated'
    BY <2>2 DEF DateEdit, SaleDated, vars
  <2>3. ASSUME SaleDated, UNCHANGED <<vars, saleDate>> PROVE SaleDated'
    BY <2>3 DEF SaleDated, vars
  <2> QED  BY <2>1, <2>2, <2>3 DEF ReportNext
<1> QED  BY <1>1, <1>2, PTL DEF ReportSpec

\* The reports only add dates to the ledger.
LEMMA ReportsFollowLedger == ReportSpec => Spec
<1>1. ReportInit => Init
  BY DEF ReportInit
<1>2. [ReportNext]_<<vars, saleDate>> => [Next]_vars
  BY DEF ReportNext, LedgerStep, DateEdit
<1> QED  BY <1>1, <1>2, PTL DEF ReportSpec, Spec

\* What documents took from batches is a quantity.
LEMMA OutNat ==
  ASSUME TypeOK, NEW B \in SUBSET DOMAIN ProductBatch, NEW D \in SUBSET Outbound
  PROVE  QuantityOut(B, D) \in Nat
<1>1. IsFiniteSet(B \X D)
  BY BatchesFinite, FiniteAssumption, FS_Subset, FS_Product
<1>2. \A r \in B \X D : deducted[r[2]][r[1]] \in Nat
  BY DEF TypeOK, IsTable
<1> QED  BY <1>1, <1>2, TotalNat DEF QuantityOut

\* It adds up over disjoint sets of documents.
LEMMA OutUnion ==
  ASSUME TypeOK, NEW B \in SUBSET DOMAIN ProductBatch,
         NEW D \in SUBSET Outbound, NEW E \in SUBSET Outbound, D \cap E = {}
  PROVE  QuantityOut(B, D \cup E) = QuantityOut(B, D) + QuantityOut(B, E)
<1>1. PICK f : f = [r \in B \X (D \cup E) |-> deducted[r[2]][r[1]]]
  OBVIOUS
<1>2. IsFiniteSet(B \X D) /\ IsFiniteSet(B \X E)
  BY BatchesFinite, FiniteAssumption, FS_Subset, FS_Product
<1>3. B \X (D \cup E) = (B \X D) \cup (B \X E) /\ (B \X D) \cap (B \X E) = {}
  OBVIOUS
<1>4. \A r \in (B \X D) \cup (B \X E) : f[r] \in Nat
  BY <1>1, <1>3 DEF TypeOK, IsTable
<1>5. Total(f, (B \X D) \cup (B \X E)) = Total(f, B \X D) + Total(f, B \X E)
  BY <1>2, <1>3, <1>4, TotalUnion
<1>6. Total(f, B \X D) = QuantityOut(B, D)
  BY <1>1, <1>3, TotalEqual DEF QuantityOut
<1>7. Total(f, B \X E) = QuantityOut(B, E)
  BY <1>1, <1>3, TotalEqual DEF QuantityOut
<1> QED  BY <1>1, <1>3, <1>5, <1>6, <1>7 DEF QuantityOut

\* Documents that are not POSTED took nothing, so they do not matter to the sum.
LEMMA OutPosted ==
  ASSUME Inv, NEW B \in SUBSET DOMAIN ProductBatch,
         NEW D \in SUBSET Outbound
  PROVE  QuantityOut(B, D) = QuantityOut(B, D \cap Posted)
<1>1. \A r \in B \X (D \ Posted) : deducted[r[2]][r[1]] = 0
  BY DEF Inv, DraftHoldsNothing, Posted, TypeOK, IsTable
<1>2. QuantityOut(B, D \ Posted) = 0
  BY <1>1, TotalZero DEF QuantityOut
<1>3. QuantityOut(B, (D \cap Posted) \cup (D \ Posted))
        = QuantityOut(B, D \cap Posted) + QuantityOut(B, D \ Posted)
  BY OutUnion DEF Inv
<1>4. QuantityOut(B, D \cap Posted) \in Nat
  BY OutNat DEF Inv
<1>5. D = (D \cap Posted) \cup (D \ Posted)
  OBVIOUS
<1> QED  BY <1>2, <1>3, <1>4, <1>5

\* What came in with batches of two dates adds up.
LEMMA InUnion ==
  ASSUME TypeOK, NEW B \in SUBSET DOMAIN ProductBatch,
         NEW T, NEW U, T \cap U = {}
  PROVE  QuantityIn(Arrived(B, T \cup U)) = QuantityIn(Arrived(B, T)) + QuantityIn(Arrived(B, U))
<1>1. PICK A, C, f : /\ A = Arrived(B, T) /\ C = Arrived(B, U)
                     /\ f = [b \in A \cup C |-> ProductBatch[b].quantityTotal]
  OBVIOUS
<1>2. A \cup C = Arrived(B, T \cup U) /\ A \cap C = {} /\ A \subseteq B /\ C \subseteq B
  BY <1>1 DEF Arrived
<1>3. IsFiniteSet(A) /\ IsFiniteSet(C)
  BY <1>2, BatchesFinite
<1>4. \A b \in A \cup C : f[b] \in Int
  BY <1>1, <1>2 DEF TypeOK, IsTable, BatchRow
<1>5. Net(f, A \cup C) = Net(f, A) + Net(f, C)
  BY <1>2, <1>3, <1>4, NetUnion
<1>6. Net(f, A) = QuantityIn(A) /\ Net(f, C) = QuantityIn(C)
  BY <1>1, NetEqual DEF QuantityIn
<1>7. Net(f, A \cup C) = QuantityIn(A \cup C)
  BY <1>1 DEF QuantityIn
<1> QED  BY <1>1, <1>2, <1>5, <1>6, <1>7

\* What came in is an integer.
LEMMA InInt ==
  ASSUME TypeOK, NEW B \in SUBSET DOMAIN ProductBatch
  PROVE  QuantityIn(B) \in Int
BY SumsTyped DEF QuantityIn, TotalOf

\* The movement of a period ends with the balance of its last day.
LEMMA MovementEnds ==
  ASSUME Inv, SaleDated
  PROVE  MovementEndsInBalance
<1> SUFFICES ASSUME NEW p \in Products, NEW w \in Warehouses,
                    NEW from \in Dates, NEW to \in Dates, from <= to
             PROVE  MovementEnd(p, w, from, to) = StockBalance(p, w, to)
  BY DEF MovementEndsInBalance
<1>1. PICK B : B = BatchesIn(p, w)
  OBVIOUS
<1>2. B \subseteq DOMAIN ProductBatch /\ DOMAIN outbound \subseteq Outbound /\ TypeOK
  BY <1>1 DEF BatchesIn, Inv, TypeOK, IsTable
<1>3. PICK T, U : T = {t \in Dates : t < from} /\ U = {t \in Dates : t >= from /\ t <= to}
  OBVIOUS
<1>4. from \in Int /\ to \in Int /\ \A t \in Dates : t \in Int
  BY DataAssumption
<1>5. /\ \A t \in Dates : t <= to <=> t < from \/ (t >= from /\ t <= to)
      /\ \A t \in Dates : ~(t < from /\ t >= from)
  BY <1>4
<1>6. T \cup U = {t \in Dates : t <= to} /\ T \cap U = {}
  BY <1>3, <1>5, Zenon
<1>7. QuantityIn(Arrived(B, T \cup U)) = QuantityIn(Arrived(B, T)) + QuantityIn(Arrived(B, U))
  BY <1>2, <1>6, InUnion
<1>8. PICK D, E : /\ D = {d \in DOMAIN outbound : saleDate[d] < from}
                  /\ E = {d \in DOMAIN outbound : saleDate[d] >= from /\ saleDate[d] <= to}
  OBVIOUS
<1>9. D \in SUBSET Outbound /\ E \in SUBSET Outbound /\ D \cap E = {}
  BY <1>2, <1>5, <1>8, Zenon DEF SaleDated
<1>10. QuantityOut(B, D \cup E) = QuantityOut(B, D) + QuantityOut(B, E)
  BY <1>2, <1>9, OutUnion
<1>11. QuantityOut(B, D \cup E) = QuantityOut(B, (D \cup E) \cap Posted)
  BY <1>2, <1>9, OutPosted
<1>12. (D \cup E) \cap Posted = {d \in Posted : saleDate[d] <= to}
  BY <1>5, <1>8, Zenon DEF SaleDated, Posted
<1>13. QuantityOut(B, D) \in Nat /\ QuantityOut(B, E) \in Nat
  BY <1>2, <1>9, OutNat
<1>14. Arrived(B, T) \subseteq B /\ Arrived(B, U) \subseteq B
  BY DEF Arrived
<1>15. QuantityIn(Arrived(B, T)) \in Int /\ QuantityIn(Arrived(B, U)) \in Int
  BY <1>2, <1>14, InInt
<1>16. MovementEnd(p, w, from, to)
         = QuantityIn(Arrived(B, T)) - QuantityOut(B, D)
             + QuantityIn(Arrived(B, U)) - QuantityOut(B, E)
  BY <1>1, <1>3, <1>8 DEF MovementEnd, StartOut, PeriodOut
<1>17. StockBalance(p, w, to)
         = QuantityIn(Arrived(B, T \cup U)) - QuantityOut(B, D \cup E)
  BY <1>1, <1>6, <1>11, <1>12 DEF StockBalance
<1> QED  BY <1>7, <1>10, <1>13, <1>15, <1>16, <1>17

\* The two reports on stock agree, whatever is posted, edited, unposted and deleted
\* (MovementEndsInBalance).
THEOREM ReportsMovementEndsInBalance == ReportSpec => []MovementEndsInBalance
<1>1. Inv /\ SaleDated => MovementEndsInBalance
  BY MovementEnds
<1> QED  BY <1>1, LedgerInvariant, ReportsFollowLedger, ReportsDated, PTL

\* The batches of product p that documents in S brought in.
BatchesFrom(p, S) ==
  {b \in DOMAIN ProductBatch : /\ ProductBatch[b].productId = p
                               /\ ProductBatch[b].source \in S}

\* Batch by batch, what is counted in f adds up document by document.
LEMMA FromDocuments ==
  ASSUME TypeOK, NEW p, NEW S,
         NEW f, \A b \in BatchesFrom(p, S) : f[b] \in Nat,
         NEW g, \A s \in S : g[s] = Total(f, Group(s, p))
  PROVE  Total(g, S) = Total(f, BatchesFrom(p, S))
<1>1. PICK B, k : B = BatchesFrom(p, S) /\ k = [b \in B |-> ProductBatch[b].source]
  OBVIOUS
<1>2. IsFiniteSet(B)
  BY <1>1, BatchesFinite DEF BatchesFrom
<1>3. \A b \in B : k[b] \in S
  BY <1>1 DEF BatchesFrom
<1>4. \A s \in S : GroupOf(B, k, s) = Group(s, p)
  BY <1>1 DEF GroupOf, Group, BatchesFrom
<1> QED  BY <1>1, <1>2, <1>3, <1>4, TotalGrouped

\* The same for integers, where the documents may be infinitely many: all but
\* finitely many of them have no batches.
LEMMA NetFromDocuments ==
  ASSUME TypeOK, NEW p, NEW S,
         NEW f, \A b \in BatchesFrom(p, S) : f[b] \in Int,
         NEW g, \A s \in S : g[s] = Net(f, Group(s, p))
  PROVE  Net(g, S) = Net(f, BatchesFrom(p, S))
<1>1. PICK B, k : B = BatchesFrom(p, S) /\ k = [b \in B |-> ProductBatch[b].source]
  OBVIOUS
<1>2. IsFiniteSet(B)
  BY <1>1, BatchesFinite DEF BatchesFrom
<1>3. PICK K : K = {k[b] : b \in B}
  OBVIOUS
<1>4. IsFiniteSet(K) /\ \A b \in B : k[b] \in K
  <2>1. k \in Surjection(B, K)
    BY <1>1, <1>3 DEF Surjection
  <2> QED  BY <1>2, <1>3, <2>1, FS_Surjection
<1>5. K \subseteq S
  BY <1>1, <1>3 DEF BatchesFrom
<1>6. \A s \in S : GroupOf(B, k, s) = Group(s, p)
  BY <1>1 DEF GroupOf, Group, BatchesFrom
<1>7. Net(g, K) = Net(f, B)
  BY <1>1, <1>2, <1>4, <1>5, <1>6, NetGrouped
<1>8. \A s \in S \ K : g[s] = 0
  <2> TAKE s \in S \ K
  <2>1. GroupOf(B, k, s) = {}
    BY <1>4 DEF GroupOf
  <2>2. Group(s, p) = {}
    BY <1>6, <2>1
  <2> QED  BY <2>2, NetZero
<1>9. Net(g, S) = Net(g, K)
  BY <1>5, <1>8, NetSame
<1> QED  BY <1>1, <1>7, <1>9

\* What is left of the goods that documents brought in, and what was taken of
\* them, is what they brought in.
LEMMA ConservedFrom ==
  ASSUME Inv, NEW p \in Products, NEW S \in SUBSET Inbound
  PROVE  LeftOf(BatchesFrom(p, S)) + TakenFrom(BatchesFrom(p, S)) = TotalOf(BatchesFrom(p, S))
<1>1. PICK B : B = BatchesFrom(p, S)
  OBVIOUS
<1>2. B \subseteq DOMAIN ProductBatch /\ TypeOK /\ IsFiniteSet(B)
  BY <1>1, BatchesFinite DEF BatchesFrom, Inv
<1>3. PICK K : K = {ProductBatch[b].source : b \in B}
  OBVIOUS
<1>4. K \subseteq S /\ B = BatchesFrom(p, K)
  BY <1>1, <1>3 DEF BatchesFrom
<1>5. IsFiniteSet(K)
  <2>1. PICK k : k = [b \in B |-> ProductBatch[b].source]
    OBVIOUS
  <2>2. k \in Surjection(B, K)
    BY <1>3, <2>1 DEF Surjection
  <2> QED  BY <1>2, <2>2, FS_Surjection
<1>6. PICK left, taken, total :
        /\ left = [b \in B |-> ProductBatch[b].quantityLeft]
        /\ taken = [b \in B |-> Taken(b)]
        /\ total = [b \in B |-> ProductBatch[b].quantityTotal]
  OBVIOUS
<1>7. /\ LeftOf(B) = Net(left, B) /\ TakenFrom(B) = Total(taken, B)
      /\ TotalOf(B) = Net(total, B)
  BY <1>6 DEF LeftOf, TakenFrom, TotalOf
<1>8. \A b \in B : left[b] \in Int /\ taken[b] \in Nat /\ total[b] \in Int
  BY <1>2, <1>6, TakenNat DEF TypeOK, IsTable, BatchRow
<1>9. PICK leftOf, takenOf, totalOf :
        /\ leftOf = [s \in K |-> LeftOf(Group(s, p))]
        /\ takenOf = [s \in K |-> TakenFrom(Group(s, p))]
        /\ totalOf = [s \in K |-> TotalOf(Group(s, p))]
  OBVIOUS
<1>10. ASSUME NEW s \in K
       PROVE  /\ leftOf[s] = Net(left, Group(s, p)) /\ takenOf[s] = Total(taken, Group(s, p))
              /\ totalOf[s] = Net(total, Group(s, p))
              /\ leftOf[s] \in Int /\ takenOf[s] \in Nat /\ takenOf[s] \in Int
              /\ totalOf[s] = leftOf[s] + takenOf[s]
  <2>1. PICK G : G = Group(s, p)
    OBVIOUS
  <2>2. G \subseteq B /\ G \subseteq DOMAIN ProductBatch
    BY <1>4, <2>1 DEF Group, BatchesFrom
  <2>3. LeftOf(G) = Net(left, G) /\ TakenFrom(G) = Total(taken, G) /\ TotalOf(G) = Net(total, G)
    BY <1>6, <2>2, NetEqual, TotalEqual DEF LeftOf, TakenFrom, TotalOf
  <2>4. LeftOf(G) \in Int /\ TakenFrom(G) \in Nat
    BY <1>2, <2>2, SumsTyped
  <2>5. LeftOf(G) + TakenFrom(G) = TotalOf(G)
    BY <1>4, <2>1 DEF Inv, StockConserved
  <2> QED  BY <1>9, <2>1, <2>3, <2>4, <2>5
<1>11. Net(totalOf, K) = Net(leftOf, K) + Net(takenOf, K)
  BY <1>5, <1>10, NetPlus
<1>12. Net(leftOf, K) = Net(left, B)
  BY <1>2, <1>4, <1>8, <1>10, NetFromDocuments
<1>13. Total(takenOf, K) = Total(taken, B)
  BY <1>2, <1>4, <1>8, <1>10, FromDocuments
<1>14. Net(totalOf, K) = Net(total, B)
  BY <1>2, <1>4, <1>8, <1>10, NetFromDocuments
<1>15. Net(takenOf, K) = Total(takenOf, K)
  BY <1>5, <1>10, NetNat
<1> QED  BY <1>1, <1>7, <1>11, <1>12, <1>13, <1>14, <1>15

\* What documents took together is what was taken from the batches.
LEMMA OutTaken ==
  ASSUME TypeOK, NEW B \in SUBSET DOMAIN ProductBatch
  PROVE  QuantityOut(B, Outbound) = TakenFrom(B)
<1>1. PICK f, g : /\ f = [r \in B \X Outbound |-> deducted[r[2]][r[1]]]
                  /\ g = [b \in B |-> Taken(b)]
  OBVIOUS
<1>2. IsFiniteSet(B) /\ IsFiniteSet(Outbound)
  BY BatchesFinite, FiniteAssumption
<1>3. \A b \in B : \A d \in Outbound : f[<<b, d>>] = deducted[d][b]
  BY <1>1
<1>4. \A b \in B : \A d \in Outbound : f[<<b, d>>] \in Nat
  <2>1. \A b \in B : \A d \in Outbound : deducted[d][b] \in Nat
    BY DEF TypeOK, IsTable
  <2> QED  BY <1>3, <2>1
<1>5. \A b \in B : g[b] = OverSecond(f, b, Outbound)
  BY <1>1, <1>3, TotalEqual DEF Taken, OverSecond
<1>6. Total(f, B \X Outbound) = Total(g, B)
  BY <1>2, <1>4, <1>5, TotalPairs
<1> QED  BY <1>1, <1>6 DEF QuantityOut, TakenFrom

\* The balances of the last day are what is left.
LEMMA BalanceIsLeft ==
  ASSUME Inv, SaleDated
  PROVE  BalanceIsStockLeft
<1> SUFFICES ASSUME NEW p \in Products, NEW w \in Warehouses, NEW day \in Dates,
                    \A t \in Dates : t <= day
             PROVE  StockBalance(p, w, day) = LeftOf(BatchesIn(p, w))
  BY DEF BalanceIsStockLeft
<1>1. PICK S : S = {s \in DOMAIN inbound : inbound[s].warehouseId = w}
  OBVIOUS
<1>2. S \subseteq Inbound /\ \A s \in S : inbound[s].date \in Dates
  BY <1>1 DEF Inv, TypeOK, IsTable, InRow
<1>3. PICK B : B = BatchesIn(p, w)
  OBVIOUS
<1>4. B = BatchesFrom(p, S)
  BY <1>1, <1>3, IdAssumption DEF BatchesIn, BatchesFrom, WarehouseOf
<1>5. LeftOf(B) + TakenFrom(B) = TotalOf(B)
  BY <1>2, <1>4, ConservedFrom
<1>6. B \subseteq DOMAIN ProductBatch /\ TypeOK
  BY <1>3 DEF BatchesIn, Inv
<1>7. Arrived(B, {t \in Dates : t <= day}) = B
  BY <1>1, <1>2, <1>4 DEF Arrived, BatchesFrom
<1>8. {d \in Posted : saleDate[d] <= day} = Outbound \cap Posted
  BY <1>6 DEF Posted, SaleDated, TypeOK, IsTable
<1>9. QuantityOut(B, Outbound) = QuantityOut(B, Outbound \cap Posted)
  BY <1>6, OutPosted
<1>10. QuantityOut(B, Outbound) = TakenFrom(B)
  BY <1>6, OutTaken
<1>11. LeftOf(B) \in Int /\ TakenFrom(B) \in Nat
  BY <1>6, SumsTyped
<1>12. StockBalance(p, w, day) = TotalOf(B) - TakenFrom(B)
  BY <1>3, <1>7, <1>8, <1>9, <1>10 DEF StockBalance, QuantityIn, TotalOf
<1> QED  BY <1>3, <1>5, <1>11, <1>12

\* The report on balances, which adds up documents, shows the goods that posting
\* can still take, which it never looks at (BalanceIsStockLeft).
THEOREM ReportsBalanceIsStockLeft == ReportSpec => []BalanceIsStockLeft
<1>1. Inv /\ SaleDated => BalanceIsStockLeft
  BY BalanceIsLeft
<1> QED  BY <1>1, LedgerInvariant, ReportsFollowLedger, ReportsDated, PTL

\* What documents took of a product is what each of them holds of it.
LEMMA OutHeld ==
  ASSUME TypeOK, NEW p \in Products, NEW D \in SUBSET Outbound,
         NEW g, \A d \in D : g[d] = HeldBy(d, p)
  PROVE  QuantityOut(BatchesWith(p), D) = Total(g, D)
<1>1. PICK B, f : B = BatchesWith(p) /\ f = [r \in B \X D |-> deducted[r[2]][r[1]]]
  OBVIOUS
<1>2. B \subseteq DOMAIN ProductBatch
  BY <1>1 DEF BatchesWith
<1>3. IsFiniteSet(B) /\ IsFiniteSet(D)
  BY <1>2, BatchesFinite, FiniteAssumption, FS_Subset
<1>4. \A b \in B : \A d \in D : f[<<b, d>>] = deducted[d][b]
  BY <1>1
<1>5. \A b \in B : \A d \in D : f[<<b, d>>] \in Nat
  <2>1. \A b \in B : \A d \in D : deducted[d][b] \in Nat
    BY <1>2 DEF TypeOK, IsTable
  <2> QED  BY <1>4, <2>1
<1>6. ASSUME NEW d \in D PROVE g[d] = OverFirst(f, B, d)
  <2>1. g[d] = Total([b \in B |-> deducted[d][b]], B)
    BY <1>1 DEF HeldBy, BatchesWith
  <2> QED  BY <1>4, <2>1, TotalEqual DEF OverFirst
<1>7. Total(f, B \X D) = Total(g, D)
  BY <1>3, <1>5, <1>6, TotalPairsSecond
<1> QED  BY <1>1, <1>7 DEF QuantityOut

\* What buyers returned is on the lines of their returns.
LEMMA ReturnedAccounted ==
  ASSUME Inv, ReceiptAccounted, NEW p \in Products, NEW from \in Dates, NEW to \in Dates
  PROVE  /\ QuantityIn(ReturnedBatches(p, from, to))
              = Net([s \in ReturnedIn(from, to) |-> QuantityOf(inbound[s].items, p)],
                    ReturnedIn(from, to))
         /\ QuantityIn(ReturnedBatches(p, from, to)) \in Int
<1>1. PICK S, B, f, g : /\ S = ReturnedIn(from, to) /\ B = BatchesFrom(p, S)
                        /\ f = [b \in B |-> ProductBatch[b].quantityTotal]
                        /\ g = [s \in S |-> QuantityOf(inbound[s].items, p)]
  OBVIOUS
<1>2. B \subseteq DOMAIN ProductBatch /\ TypeOK
  BY <1>1 DEF BatchesFrom, Inv
<1>3. \A b \in B : f[b] \in Int
  BY <1>1, <1>2 DEF TypeOK, IsTable, BatchRow
<1>4. ASSUME NEW s \in S PROVE g[s] = Net(f, Group(s, p))
  <2>1. s \in Inbound /\ s \in DOMAIN inbound /\ inbound[s].status = "POSTED"
    BY <1>1 DEF ReturnedIn, Inbound
  <2>2. g[s] = TotalOf(Group(s, p))
    BY <1>1, <2>1 DEF ReceiptAccounted
  <2>3. \A b \in Group(s, p) : f[b] = ProductBatch[b].quantityTotal
    BY <1>1 DEF Group, BatchesFrom
  <2>4. TotalOf(Group(s, p)) = Net(f, Group(s, p))
    BY <2>3, NetEqual DEF TotalOf
  <2> QED  BY <2>2, <2>4
<1>5. Net(g, S) = Net(f, B)
  BY <1>1, <1>2, <1>3, <1>4, NetFromDocuments
<1>6. B = ReturnedBatches(p, from, to)
  BY <1>1 DEF BatchesFrom, ReturnedBatches
<1>7. QuantityIn(B) = Net(f, B)
  BY <1>1 DEF QuantityIn
<1>8. QuantityIn(B) \in Int
  BY <1>2, InInt
<1> QED  BY <1>1, <1>5, <1>6, <1>7, <1>8

\* The sales report shows no less than was moved, and no more where all goods come
\* from receipts or nothing was sold.
LEMMA SalesMoved ==
  ASSUME Inv, ReceiptAccounted, HoldsAtMostItsLines,
         BuyerReturns = {} => PostedSaleCovered
  PROVE  SalesAreMoved
<1> SUFFICES ASSUME NEW p \in Products, NEW from \in Dates, NEW to \in Dates,
                    NEW B, B = BatchesWith(p), NEW moved,
                    moved = QuantityOut(B, SoldIn(from, to))
                              - QuantityIn(ReturnedBatches(p, from, to))
             PROVE  /\ moved <= SalesQuantity(p, from, to)
                    /\ (BuyerReturns = {} \/ SoldIn(from, to) = {}) =>
                         moved = SalesQuantity(p, from, to)
  BY DEF SalesAreMoved, BatchesWith
<1>1. PICK D, held, lines, returned :
        /\ D = SoldIn(from, to)
        /\ held = [d \in D |-> HeldBy(d, p)]
        /\ lines = [d \in D |-> outbound[d].items[p]]
        /\ returned = QuantityIn(ReturnedBatches(p, from, to))
  OBVIOUS
<1>2. TypeOK /\ B \subseteq DOMAIN ProductBatch
  BY DEF Inv, BatchesWith
<1>3. /\ D \in SUBSET Outbound /\ IsFiniteSet(D)
      /\ \A d \in D : d \in DOMAIN outbound /\ outbound[d].status = "POSTED"
                      /\ outbound[d] \in OutRow
  <2>1. D \in SUBSET Outbound
    BY <1>1 DEF SoldIn, Outbound
  <2>2. \A d \in D : d \in DOMAIN outbound /\ outbound[d].status = "POSTED"
    BY <1>1 DEF SoldIn, Posted
  <2> QED  BY <1>2, <2>1, <2>2, FiniteAssumption, FS_Subset DEF TypeOK, IsTable
<1>4. returned \in Int
  BY <1>1, ReturnedAccounted
<1>5. SalesQuantity(p, from, to) = Total(lines, D) - returned
  BY <1>1, ReturnedAccounted DEF SalesQuantity
<1>6. QuantityOut(B, D) = Total(held, D)
  BY <1>1, <1>2, <1>3, OutHeld
<1>7. \A d \in D : held[d] \in Nat
  <2> SUFFICES ASSUME NEW d \in D PROVE HeldBy(d, p) \in Nat
    BY <1>1
  <2>1. IsFiniteSet(B)
    BY <1>2, BatchesFinite
  <2>2. \A b \in B : [c \in B |-> deducted[d][c]][b] \in Nat
    BY <1>2, <1>3 DEF TypeOK, IsTable
  <2>3. Total([c \in B |-> deducted[d][c]], B) \in Nat
    BY <2>1, <2>2, TotalNat
  <2> QED  BY <2>3 DEF HeldBy, BatchesWith
<1>8. \A d \in D : lines[d] \in Nat
  BY <1>1, <1>3, LinesNat
<1>9. \A d \in D : held[d] <= lines[d]
  BY <1>1, <1>3 DEF HoldsAtMostItsLines
<1>10. Total(held, D) <= Total(lines, D)
  BY <1>3, <1>7, <1>8, <1>9, TotalMonotone
<1>11. Total(held, D) \in Nat /\ Total(lines, D) \in Nat
  BY <1>3, <1>7, <1>8, TotalNat
<1>12. moved = Total(held, D) - returned
  BY <1>1, <1>6
<1>13. ASSUME BuyerReturns = {} PROVE Total(held, D) = Total(lines, D)
  <2>1. \A d \in D : held[d] = lines[d]
    BY <1>1, <1>3, <1>13 DEF PostedSaleCovered
  <2> QED  BY <2>1, TotalEqual
<1>14. ASSUME D = {} PROVE Total(held, D) = Total(lines, D)
  BY <1>14, TotalEqual
<1> QED  BY <1>1, <1>4, <1>5, <1>10, <1>11, <1>12, <1>13, <1>14

\* The sales report, which adds up lines, never shows less than the rows say was
\* moved, and shows exactly that where nothing can be taken from under a sale
\* (SalesAreMoved).
THEOREM ReportsSalesAreMoved == ReportSpec => []SalesAreMoved
<1>1. CASE BuyerReturns = {}
  <2>1. Spec => []PostedSaleCovered
    BY <1>1, ReceiptsCoverSales
  <2>2. Inv /\ ReceiptAccounted /\ HoldsAtMostItsLines /\ PostedSaleCovered => SalesAreMoved
    BY SalesMoved
  <2> QED  BY <2>1, <2>2, LedgerInvariant, LedgerReceiptAccounted,
              LedgerHoldsAtMostItsLines, ReportsFollowLedger, PTL
<1>2. CASE BuyerReturns # {}
  <2>1. Inv /\ ReceiptAccounted /\ HoldsAtMostItsLines => SalesAreMoved
    BY <1>2, SalesMoved
  <2> QED  BY <2>1, LedgerInvariant, LedgerReceiptAccounted,
              LedgerHoldsAtMostItsLines, ReportsFollowLedger, PTL
<1> QED  BY <1>1, <1>2

=============================================================================

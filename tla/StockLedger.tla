---------------------------- MODULE StockLedger -----------------------------
(***************************************************************************)
(* The stock ledger of the RemoteOrder server: the batches of goods        *)
(* (ProductBatch), the documents that bring goods in (GoodsReceipt,        *)
(* BuyerReturn), the documents that take goods out (Realization,           *)
(* SupplierReturn) and the rows that say which batch a document took its   *)
(* goods from (RealizationItemBatch, SupplierReturnItemBatch).             *)
(*                                                                         *)
(* One action is one call of a service or route handler that commits; a    *)
(* call that throws rolls its transaction back and changes nothing, so it  *)
(* is no action.  Calls run one at a time here: what concurrent calls do   *)
(* to each other is the subject of module ConcurrentPosting.               *)
(*                                                                         *)
(* Left out: prices, amounts and profit (no guard reads them), comments,   *)
(* counterparties, document numbers, the date of an outgoing document (it  *)
(* plays no part in deductStock).                                          *)
(***************************************************************************)
EXTENDS Fifo, Functions

CONSTANTS
  Products, Warehouses,
  Dates,            \* document dates, integers: only their order matters
  GoodsReceipts, BuyerReturns,         \* ids of incoming documents
  Realizations, SupplierReturns,       \* ids of outgoing documents
  Orders,
  BatchIds,         \* the pool of ids of ProductBatch rows
  Lines,            \* line numbers of an incoming document
  InQuantities,     \* the quantities of an incoming line or an arrival
  OutQuantities,    \* what an outgoing line may ask for
  NULL              \* SQL's NULL

Inbound == GoodsReceipts \cup BuyerReturns
Outbound == Realizations \cup SupplierReturns

\* No handler and no column checks the sign of a quantity, so goods may come in
\* with a negative one.  An outgoing line of less than zero asks for nothing:
\* deductStock leaves its loop at once.
ASSUME DataAssumption ==
  /\ InQuantities \subseteq Int
  /\ OutQuantities \subseteq Nat
  /\ Dates \subseteq Int

ASSUME FiniteAssumption ==
  /\ IsFiniteSet(Outbound)
  /\ IsFiniteSet(BatchIds)
  /\ IsFiniteSet(Lines)

ASSUME IdAssumption ==
  /\ GoodsReceipts \cap BuyerReturns = {}
  /\ Realizations \cap SupplierReturns = {}
  /\ NULL \notin Inbound \cup Warehouses \cup Orders

VARIABLES
  inbound,        \* tables GoodsReceipt and BuyerReturn with their items
  outbound,       \* tables Realization and SupplierReturn with their items
  ProductBatch,   \* table ProductBatch
  deducted,       \* deducted[d][b]: what document d took from batch b (0: no row)
  orderStatus     \* column status of table Order

vars == <<inbound, outbound, ProductBatch, deducted, orderStatus>>

-----------------------------------------------------------------------------
\* The lines of an incoming document: a product may appear on several of them.
InItems == Table(Lines, [productId : Products, quantity : InQuantities])

\* What the lines of an outgoing document ask for, added up per product.
OutItems == [Products -> OutQuantities \cup {0}]

InRow == [status : {"SAVED", "DRAFT", "POSTED"},
          warehouseId : Warehouses, date : Dates, items : InItems]

OutRow == [status : {"DRAFT", "POSTED"}, warehouseId : Warehouses,
           items : OutItems, isDeleted : BOOLEAN, orderId : Orders \cup {NULL}]

\* source is goodsReceiptId or buyerReturnId, whichever is not NULL.
BatchRow == [productId : Products, quantityTotal : Int, quantityLeft : Int,
             source : Inbound \cup {NULL}, createdAt : Dates]

Init ==
  /\ inbound = << >>
  /\ outbound = << >>
  /\ ProductBatch = << >>
  /\ deducted = [d \in Outbound |-> [b \in BatchIds |-> 0]]
  /\ orderStatus = [o \in Orders |-> "NEW"]

-----------------------------------------------------------------------------
(* Sums over batches and documents.                                        *)

\* The batches that document s brought in of product p.
Group(s, p) ==
  {b \in DOMAIN ProductBatch : /\ ProductBatch[b].source = s
                               /\ ProductBatch[b].productId = p}

BatchesOf(s) == {b \in DOMAIN ProductBatch : ProductBatch[b].source = s}

TotalOf(B) == Net([b \in B |-> ProductBatch[b].quantityTotal], B)
LeftOf(B) == Net([b \in B |-> ProductBatch[b].quantityLeft], B)

\* What all documents together took from batch b, and from the batches in B.
Taken(b) == Total([d \in Outbound |-> deducted[d][b]], Outbound)
TakenFrom(B) == Total([b \in B |-> Taken(b)], B)

\* The lines of product p, and the quantity on them.
LinesOf(items, p) == {l \in DOMAIN items : items[l].productId = p}
QuantityOf(items, p) ==
  Net([l \in LinesOf(items, p) |-> items[l].quantity], LinesOf(items, p))

-----------------------------------------------------------------------------
(* InventoryService.                                                       *)

\* addStock: the row a new batch starts as.
NewBatch(p, quantity, s, date) ==
  [productId |-> p, quantityTotal |-> quantity, quantityLeft |-> quantity,
   source |-> s, createdAt |-> date]

FreeIds == BatchIds \ DOMAIN ProductBatch

\* COALESCE(gr."warehouseId", br."warehouseId"): NULL for a batch of neither.
WarehouseOf(b) ==
  LET s == ProductBatch[b].source
  IN  IF s \in DOMAIN inbound THEN inbound[s].warehouseId ELSE NULL

\* The batches deductStock selects for product p in warehouse w.
Available(p, w) ==
  {b \in DOMAIN ProductBatch : /\ ProductBatch[b].productId = p
                               /\ ProductBatch[b].quantityLeft > 0
                               /\ WarehouseOf(b) = w}

\* take is what deductStock takes for every line of document d.
DeductStock(d, take) ==
  \A p \in Products :
    LET B == Available(p, outbound[d].warehouseId)
    IN  FifoTake(take, [b \in B |-> ProductBatch[b].quantityLeft],
                 [b \in B |-> ProductBatch[b].createdAt], B,
                 outbound[d].items[p])

\* The batches the lines of d may take from, and the quantities they may take.
Candidates(d) == UNION {Available(p, outbound[d].warehouseId) : p \in Products}
Takes(d) == [Candidates(d) -> UNION {0 .. outbound[d].items[p] : p \in Products}]

\* Faulty variant: the quantity taken is set instead of added.
ReturnStock_Overwrites(d) ==
  ProductBatch' = [b \in DOMAIN ProductBatch |->
     IF deducted[d][b] > 0
     THEN [ProductBatch[b] EXCEPT !.quantityLeft = deducted[d][b]]
     ELSE ProductBatch[b]]

\* returnStock, and the loop of SupplierReturnService.unpost that equals it:
\* the quantities d took are added back to the batches they came from.
ReturnStock(d) ==
  ProductBatch' = [b \in DOMAIN ProductBatch |->
     [ProductBatch[b] EXCEPT !.quantityLeft = @ + deducted[d][b]]]

\* DELETE FROM "ProductBatch": ON DELETE CASCADE removes what points at them.
CascadeDeleted(B) ==
  deducted' = [d \in Outbound |->
     [b \in BatchIds |-> IF b \in B THEN 0 ELSE deducted[d][b]]]

\* POST /admin/inventory/arrival: a batch of no document, hence of no warehouse.
\* Only a quantity of zero is refused.
AddArrival(p, quantity, date) ==
  /\ quantity # 0
  /\ \E b \in FreeIds :
       ProductBatch' = Put(ProductBatch, b, NewBatch(p, quantity, NULL, date))
  /\ UNCHANGED <<inbound, outbound, deducted, orderStatus>>

-----------------------------------------------------------------------------
(* Incoming documents: GoodsReceiptService and BuyerReturnService.         *)

CreateInbound(s, status, warehouse, date, items) ==
  /\ s \notin DOMAIN inbound
  /\ inbound' = Put(inbound, s, [status |-> status, warehouseId |-> warehouse,
                                 date |-> date, items |-> items])
  /\ UNCHANGED <<outbound, ProductBatch, deducted, orderStatus>>

\* The header and the lines are overwritten, the status stays.
ReplaceInbound(s, warehouse, date, items) ==
  inbound' = [inbound EXCEPT ![s] =
     [@ EXCEPT !.warehouseId = warehouse, !.date = date, !.items = items]]

\* update of a document that is not POSTED touches no stock.
EditInbound(s, warehouse, date, items) ==
  /\ s \in DOMAIN inbound
  /\ inbound[s].status # "POSTED"
  /\ ReplaceInbound(s, warehouse, date, items)
  /\ UNCHANGED <<outbound, ProductBatch, deducted, orderStatus>>

\* post: one new batch per line, dated by the document.
PostInbound(s) ==
  /\ s \in DOMAIN inbound
  /\ inbound[s].status # "POSTED"
  /\ LET items == inbound[s].items
     IN  \E id \in Injection(DOMAIN items, FreeIds) :
           ProductBatch' = [b \in DOMAIN ProductBatch \cup Range(id) |->
              IF b \in DOMAIN ProductBatch THEN ProductBatch[b]
              ELSE LET l == CHOOSE l \in DOMAIN items : id[l] = b
                   IN  NewBatch(items[l].productId, items[l].quantity, s,
                                inbound[s].date)]
  /\ inbound' = [inbound EXCEPT ![s].status = "POSTED"]
  /\ UNCHANGED <<outbound, deducted, orderStatus>>

\* The batches of s and the rows that point at them go away.
DropBatches(s, status) ==
  /\ ProductBatch' = Without(ProductBatch, BatchesOf(s))
  /\ CascadeDeleted(BatchesOf(s))
  /\ inbound' = [inbound EXCEPT ![s].status = status]
  /\ UNCHANGED <<outbound, orderStatus>>

\* delete: ON DELETE SET NULL would detach the batches the document still has.
DeleteInbound(s) ==
  /\ s \in DOMAIN inbound
  /\ inbound[s].status # "POSTED"
  /\ inbound' = Without(inbound, {s})
  /\ ProductBatch' = [b \in DOMAIN ProductBatch |->
       IF b \in BatchesOf(s) THEN [ProductBatch[b] EXCEPT !.source = NULL]
       ELSE ProductBatch[b]]
  /\ UNCHANGED <<outbound, deducted, orderStatus>>

CreateGoodsReceipt(g, warehouse, date, items) ==
  CreateInbound(g, "SAVED", warehouse, date, items)

\* GoodsReceiptService.update of a document that is not POSTED.
UpdateSavedReceipt(g, warehouse, date, items) ==
  EditInbound(g, warehouse, date, items)

\* What update computes for a product of a POSTED receipt.
SoldOf(g, p) == TotalOf(Group(g, p)) - LeftOf(Group(g, p))

OldProducts(g) == {ProductBatch[b].productId : b \in BatchesOf(g)}
NewProducts(g, items) ==
  {items[l].productId : l \in DOMAIN items} \ OldProducts(g)

\* Faulty variant: the check is off by one.
CoversSold_OffByOne(g, items) ==
  \A p \in OldProducts(g) : QuantityOf(items, p) + 1 >= SoldOf(g, p)

\* The check of update: no product falls below what was sold of it.
CoversSold(g, items) ==
  \A p \in OldProducts(g) : QuantityOf(items, p) >= SoldOf(g, p)

\* The batches of products that were taken off the receipt and never sold.
DroppedBatches(g, items) ==
  {b \in BatchesOf(g) : LET p == ProductBatch[b].productId
                        IN  QuantityOf(items, p) = 0 /\ SoldOf(g, p) = 0}

\* Faulty variant: the first batch is refilled as if nothing were sold.
Consolidated_IgnoresSold(g, items, first, b) ==
  LET p == ProductBatch[b].productId
      newTotal == QuantityOf(items, p)
  IN  IF newTotal <= 0 THEN ProductBatch[b]
      ELSE IF b = first[p]
      THEN [ProductBatch[b] EXCEPT !.quantityTotal = newTotal,
                                   !.quantityLeft = newTotal]
      ELSE [ProductBatch[b] EXCEPT !.quantityTotal = 0, !.quantityLeft = 0]

\* Faulty variant: the other batches of the product keep their quantities.
Consolidated_KeepsOthers(g, items, first, b) ==
  LET p == ProductBatch[b].productId
      newTotal == QuantityOf(items, p)
  IN  IF newTotal <= 0 \/ b # first[p] THEN ProductBatch[b]
      ELSE [ProductBatch[b] EXCEPT !.quantityTotal = newTotal,
                                   !.quantityLeft = newTotal - SoldOf(g, p)]

\* The row an old batch of the receipt becomes: the first batch of its product
\* holds all of the new quantity, the others are emptied.
Consolidated(g, items, first, b) ==
  LET p == ProductBatch[b].productId
      newTotal == QuantityOf(items, p)
  IN  IF newTotal <= 0 THEN ProductBatch[b]
      ELSE IF b = first[p]
      THEN [ProductBatch[b] EXCEPT !.quantityTotal = newTotal,
                                   !.quantityLeft = newTotal - SoldOf(g, p)]
      ELSE [ProductBatch[b] EXCEPT !.quantityTotal = 0, !.quantityLeft = 0]

\* GoodsReceiptService.update of a POSTED document: the stock is adjusted in
\* place.  first: the SELECT has no ORDER BY, so any batch may come first.
UpdatePostedReceipt(g, warehouse, date, items) ==
  /\ g \in DOMAIN inbound
  /\ inbound[g].status = "POSTED"
  /\ CoversSold(g, items)
  /\ \E first \in [OldProducts(g) -> BatchesOf(g)],
        id \in Injection(NewProducts(g, items), FreeIds) :
       /\ \A p \in OldProducts(g) : first[p] \in Group(g, p)
       /\ ProductBatch' =
            [b \in (DOMAIN ProductBatch \ DroppedBatches(g, items)) \cup Range(id) |->
               IF b \in BatchesOf(g) THEN Consolidated(g, items, first, b)
               ELSE IF b \in DOMAIN ProductBatch THEN ProductBatch[b]
               ELSE LET p == CHOOSE p \in NewProducts(g, items) : id[p] = b
                    IN  NewBatch(p, QuantityOf(items, p), g, date)]
  /\ CascadeDeleted(DroppedBatches(g, items))
  /\ ReplaceInbound(g, warehouse, date, items)
  /\ UNCHANGED <<outbound, orderStatus>>

PostGoodsReceipt(g) == PostInbound(g)

\* Faulty variant: only a batch that is sold out stops unpost.
NothingSold_UnlessSoldOut(g) ==
  \A b \in BatchesOf(g) : ProductBatch[b].quantityLeft > 0

\* The check of unpost: no batch has less left than it had in total.
NothingSold(g) ==
  \A b \in BatchesOf(g) :
    ProductBatch[b].quantityLeft >= ProductBatch[b].quantityTotal

\* GoodsReceiptService.unpost: refused once a batch of the receipt is sold.
UnpostGoodsReceipt(g) ==
  /\ g \in DOMAIN inbound
  /\ inbound[g].status = "POSTED"
  /\ NothingSold(g)
  /\ DropBatches(g, "SAVED")

DeleteGoodsReceipt(g) == DeleteInbound(g)

CreateBuyerReturn(s, warehouse, date, items) ==
  CreateInbound(s, "DRAFT", warehouse, date, items)

UpdateBuyerReturn(s, warehouse, date, items) ==
  EditInbound(s, warehouse, date, items)

PostBuyerReturn(s) == PostInbound(s)

\* BuyerReturnService.unpost: the batches are removed outright, sold or not.
UnpostBuyerReturn(s) ==
  /\ s \in DOMAIN inbound
  /\ inbound[s].status = "POSTED"
  /\ DropBatches(s, "DRAFT")

DeleteBuyerReturn(s) == DeleteInbound(s)

-----------------------------------------------------------------------------
(* Outgoing documents: the realization routes, RealizationService and      *)
(* SupplierReturnService.                                                  *)

CreateOutbound(d, warehouse, items, order) ==
  /\ d \notin DOMAIN outbound
  /\ outbound' = Put(outbound, d,
       [status |-> "DRAFT", warehouseId |-> warehouse, items |-> items,
        isDeleted |-> FALSE, orderId |-> order])
  /\ UNCHANGED <<inbound, ProductBatch, deducted>>

\* Editing deletes the lines, and with them the rows of what they took.
EditOutbound(d, warehouse, items) ==
  /\ d \in DOMAIN outbound
  /\ outbound[d].status # "POSTED"
  /\ outbound' = [outbound EXCEPT ![d] =
       [@ EXCEPT !.warehouseId = warehouse, !.items = items]]
  /\ deducted' = [deducted EXCEPT ![d] = [b \in BatchIds |-> 0]]
  /\ UNCHANGED <<inbound, ProductBatch, orderStatus>>

\* The stock effect of posting: every line is deducted or the call throws.
PostOutbound(d) ==
  /\ d \in DOMAIN outbound
  /\ outbound[d].status # "POSTED"
  /\ \E take \in Takes(d) :
       /\ DeductStock(d, take)
       /\ ProductBatch' = [b \in DOMAIN ProductBatch |->
            IF b \in Candidates(d)
            THEN [ProductBatch[b] EXCEPT !.quantityLeft = @ - take[b]]
            ELSE ProductBatch[b]]
       /\ deducted' = [deducted EXCEPT ![d] = [b \in BatchIds |->
            IF b \in Candidates(d) THEN @[b] + take[b] ELSE @[b]]]
  /\ outbound' = [outbound EXCEPT ![d].status = "POSTED"]
  /\ UNCHANGED inbound

\* Faulty variant: the rows of what d took are kept.
UnpostOutbound_KeepsRows(d) ==
  /\ d \in DOMAIN outbound
  /\ outbound[d].status = "POSTED"
  /\ ReturnStock(d)
  /\ outbound' = [outbound EXCEPT ![d].status = "DRAFT"]
  /\ UNCHANGED <<inbound, deducted>>

UnpostOutbound(d) ==
  /\ d \in DOMAIN outbound
  /\ outbound[d].status = "POSTED"
  /\ ReturnStock(d)
  /\ deducted' = [deducted EXCEPT ![d] = [b \in BatchIds |-> 0]]
  /\ outbound' = [outbound EXCEPT ![d].status = "DRAFT"]
  /\ UNCHANGED inbound

\* The status post and unpost give the order a realization was made from.
SetOrder(d, status) ==
  orderStatus' = [o \in Orders |->
     IF o = outbound[d].orderId THEN status ELSE orderStatus[o]]

CreateRealization(r, warehouse, items) ==
  CreateOutbound(r, warehouse, items, NULL) /\ UNCHANGED orderStatus

\* POST /realizations/from-order: the order may have realizations already.
CreateFromOrder(r, o, warehouse, items) ==
  /\ CreateOutbound(r, warehouse, items, o)
  /\ orderStatus' = [orderStatus EXCEPT ![o] = "ACCEPTED"]

EditRealization(r, warehouse, items) == EditOutbound(r, warehouse, items)

PostRealization(r) == PostOutbound(r) /\ SetOrder(r, "COMPLETED")

UnpostRealization(r) == UnpostOutbound(r) /\ SetOrder(r, "ACCEPTED")

\* DELETE /realizations/:id only marks the row; no other handler reads the mark.
DeleteRealization(r) ==
  /\ r \in DOMAIN outbound
  /\ outbound[r].status # "POSTED"
  /\ outbound' = [outbound EXCEPT ![r].isDeleted = TRUE]
  /\ UNCHANGED <<inbound, ProductBatch, deducted, orderStatus>>

CreateSupplierReturn(d, warehouse, items) ==
  CreateOutbound(d, warehouse, items, NULL) /\ UNCHANGED orderStatus

UpdateSupplierReturn(d, warehouse, items) == EditOutbound(d, warehouse, items)

PostSupplierReturn(d) == PostOutbound(d) /\ UNCHANGED orderStatus

UnpostSupplierReturn(d) == UnpostOutbound(d) /\ UNCHANGED orderStatus

\* SupplierReturnService.delete: the lines go, and ON DELETE CASCADE the rows.
DeleteSupplierReturn(d) ==
  /\ d \in DOMAIN outbound
  /\ outbound[d].status # "POSTED"
  /\ outbound' = Without(outbound, {d})
  /\ deducted' = [deducted EXCEPT ![d] = [b \in BatchIds |-> 0]]
  /\ UNCHANGED <<inbound, ProductBatch, orderStatus>>

-----------------------------------------------------------------------------
InboundNext ==
  \/ \E g \in GoodsReceipts :
       \/ \E w \in Warehouses, t \in Dates, items \in InItems :
            \/ CreateGoodsReceipt(g, w, t, items)
            \/ UpdateSavedReceipt(g, w, t, items)
            \/ UpdatePostedReceipt(g, w, t, items)
       \/ PostGoodsReceipt(g)
       \/ UnpostGoodsReceipt(g)
       \/ DeleteGoodsReceipt(g)
  \/ \E s \in BuyerReturns :
       \/ \E w \in Warehouses, t \in Dates, items \in InItems :
            \/ CreateBuyerReturn(s, w, t, items)
            \/ UpdateBuyerReturn(s, w, t, items)
       \/ PostBuyerReturn(s)
       \/ UnpostBuyerReturn(s)
       \/ DeleteBuyerReturn(s)
  \/ \E p \in Products, q \in InQuantities, t \in Dates : AddArrival(p, q, t)

OutboundNext ==
  \/ \E r \in Realizations :
       \/ \E w \in Warehouses, items \in OutItems :
            \/ CreateRealization(r, w, items)
            \/ \E o \in Orders : CreateFromOrder(r, o, w, items)
            \/ EditRealization(r, w, items)
       \/ PostRealization(r)
       \/ UnpostRealization(r)
       \/ DeleteRealization(r)
  \/ \E d \in SupplierReturns :
       \/ \E w \in Warehouses, items \in OutItems :
            \/ CreateSupplierReturn(d, w, items)
            \/ UpdateSupplierReturn(d, w, items)
       \/ PostSupplierReturn(d)
       \/ UnpostSupplierReturn(d)
       \/ DeleteSupplierReturn(d)

Next == InboundNext \/ OutboundNext

Spec == Init /\ [][Next]_vars

-----------------------------------------------------------------------------
(* Properties.                                                             *)

\* Nothing is taken from a batch below zero: the only batch with a negative
\* quantityLeft is one that was entered negative, and it is as it was entered.
NothingOverdrawn ==
  \A b \in DOMAIN ProductBatch :
    ProductBatch[b].quantityLeft < 0 =>
      ProductBatch[b].quantityLeft = ProductBatch[b].quantityTotal

\* Every table holds rows of its type, and no batch is overdrawn, whatever is
\* posted, unposted and edited, and with whatever sign.
TypeOK ==
  /\ IsTable(inbound, Inbound, InRow)
  /\ IsTable(outbound, Outbound, OutRow)
  /\ IsTable(ProductBatch, BatchIds, BatchRow)
  /\ NothingOverdrawn
  /\ deducted \in [Outbound -> [BatchIds -> Nat]]
  /\ orderStatus \in [Orders -> {"NEW", "ACCEPTED", "COMPLETED"}]

\* Nothing is lost or sold twice: of what a document brought in of a product,
\* every unit is on stock or was taken by an outgoing document.  It holds per
\* document and product and not per batch: editing a posted receipt moves
\* quantities between its batches of one product.
StockConserved ==
  \A s \in Inbound, p \in Products :
    LeftOf(Group(s, p)) + TakenFrom(Group(s, p)) = TotalOf(Group(s, p))

\* Stock agrees with the documents: the batches of a POSTED document add up to
\* the quantity on its lines, product by product, even after posted receipts
\* were edited, and a document that is not POSTED has no batches.
ReceiptAccounted ==
  \A s \in Inbound, p \in Products :
    TotalOf(Group(s, p)) =
      IF s \in DOMAIN inbound /\ inbound[s].status = "POSTED"
      THEN QuantityOf(inbound[s].items, p) ELSE 0

\* What an outgoing document holds of a product.
HeldBy(d, p) ==
  LET B == {b \in DOMAIN ProductBatch : ProductBatch[b].productId = p}
  IN  Total([b \in B |-> deducted[d][b]], B)

\* A POSTED outgoing document never holds more of a product than its lines ask
\* for, and one that is not POSTED holds nothing: what posting took, unposting
\* gives back completely.
HoldsAtMostItsLines ==
  \A d \in Outbound, p \in Products :
    IF d \in DOMAIN outbound /\ outbound[d].status = "POSTED"
    THEN HeldBy(d, p) <= outbound[d].items[p]
    ELSE \A b \in BatchIds : deducted[d][b] = 0

\* A step that keeps the rows saying where the goods of a POSTED outgoing
\* document came from, except the rows of batches of buyer returns.
KeepsSoldRows ==
  \A d \in DOMAIN outbound \cap DOMAIN outbound', b \in BatchIds :
    (/\ outbound[d].status = "POSTED"
     /\ outbound'[d].status = "POSTED"
     /\ deducted'[d][b] # deducted[d][b])
      => ProductBatch[b].source \in BuyerReturns

\* While an outgoing document stays POSTED, the rows that say where its goods
\* came from stay as they are, however the receipts they came from are edited
\* or unposted; only unposting a buyer return deletes such rows.
SoldStockSurvives == [][KeepsSoldRows]_vars

\* A POSTED outgoing document holds all of the goods on its lines.
PostedSaleCovered ==
  \A d \in DOMAIN outbound : outbound[d].status = "POSTED" =>
    \A p \in Products : HeldBy(d, p) = outbound[d].items[p]

\* Once every document that sold goods of a POSTED receipt is unposted, the
\* receipt passes the check of unpost.
UnsoldReceiptUnpostable ==
  \A g \in GoodsReceipts \cap DOMAIN inbound :
    (/\ inbound[g].status = "POSTED"
     /\ \A b \in BatchesOf(g) : Taken(b) = 0)
      => \A b \in BatchesOf(g) :
           ProductBatch[b].quantityLeft >= ProductBatch[b].quantityTotal
=============================================================================

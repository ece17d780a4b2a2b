---------------------------- MODULE StockReports ----------------------------
(***************************************************************************)
(* The reports on stock (routes/reports.ts): the balances of a day and the *)
(* movement of a period.  Neither reads ProductBatch.quantityLeft: both    *)
(* add up what batches brought in and what the rows of outgoing documents  *)
(* took, by the dates of the documents.                                    *)
(*                                                                         *)
(* saleDate adds to the ledger the date of an outgoing document, which     *)
(* posting never looks at and the reports do.  It is given when the        *)
(* document is created or edited.                                          *)
(***************************************************************************)
EXTENDS StockLedger

VARIABLE saleDate

ReportInit == Init /\ saleDate = << >>

\* The step writes the lines or the warehouse of document d, and its date.
Written(d) ==
  \/ d \notin DOMAIN outbound
  \/ outbound'[d].items # outbound[d].items
  \/ outbound'[d].warehouseId # outbound[d].warehouseId

\* A step of the ledger: what it writes gets a date, what it deletes loses it.
LedgerStep ==
  /\ Next
  /\ \E t \in Dates : saleDate' = [d \in DOMAIN outbound' |->
       IF Written(d) THEN t ELSE saleDate[d]]

\* An edit that changes nothing but the date.
DateEdit(d, t) ==
  /\ d \in DOMAIN outbound
  /\ outbound[d].status # "POSTED"
  /\ saleDate' = [saleDate EXCEPT ![d] = t]
  /\ UNCHANGED vars

ReportNext == LedgerStep \/ \E d \in Outbound, t \in Dates : DateEdit(d, t)

ReportSpec == ReportInit /\ [][ReportNext]_<<vars, saleDate>>

-----------------------------------------------------------------------------
\* The batches of B whose document is dated in T; that of a batch of no document
\* is NULL, which no comparison of SQL holds for.
Arrived(B, T) ==
  {b \in B : /\ ProductBatch[b].source \in DOMAIN inbound
             /\ inbound[ProductBatch[b].source].date \in T}

\* The batches of product p in warehouse w.
BatchesIn(p, w) ==
  {b \in DOMAIN ProductBatch : ProductBatch[b].productId = p /\ WarehouseOf(b) = w}

QuantityIn(B) == Net([b \in B |-> ProductBatch[b].quantityTotal], B)

\* What documents in D took from the batches in B.
QuantityOut(B, D) ==
  Total([r \in B \X D |-> deducted[r[2]][r[1]]], B \X D)

Posted == {d \in DOMAIN outbound : outbound[d].status = "POSTED"}

\* Faulty variant: returns to suppliers are forgotten.
StockBalance_NoReturns(p, w, day) ==
  LET B == BatchesIn(p, w)
  IN  QuantityIn(Arrived(B, {t \in Dates : t <= day}))
        - QuantityOut(B, {d \in Posted \cap Realizations : saleDate[d] <= day})

\* GET /reports/stock-balances: incoming less outgoing up to the end of a day.
StockBalance(p, w, day) ==
  LET B == BatchesIn(p, w)
  IN  QuantityIn(Arrived(B, {t \in Dates : t <= day}))
        - QuantityOut(B, {d \in Posted : saleDate[d] <= day})

\* Faulty variant: the last day of the period is left out.
PeriodOut_Exclusive(B, from, to) ==
  QuantityOut(B, {d \in DOMAIN outbound : saleDate[d] >= from /\ saleDate[d] < to})

\* GET /reports/inventory-movement: a row of what a document took counts
\* whatever the status of the document.
StartOut(B, from) == QuantityOut(B, {d \in DOMAIN outbound : saleDate[d] < from})
PeriodOut(B, from, to) ==
  QuantityOut(B, {d \in DOMAIN outbound : saleDate[d] >= from /\ saleDate[d] <= to})

MovementEnd(p, w, from, to) ==
  LET B == BatchesIn(p, w)
      startBalance == QuantityIn(Arrived(B, {t \in Dates : t < from}))
                        - StartOut(B, from)
  IN  startBalance + QuantityIn(Arrived(B, {t \in Dates : t >= from /\ t <= to}))
        - PeriodOut(B, from, to)

\* The POSTED sales and returns of a period.
SoldIn(from, to) ==
  {d \in Posted \cap Realizations : saleDate[d] >= from /\ saleDate[d] <= to}
ReturnedIn(from, to) ==
  {s \in BuyerReturns \cap DOMAIN inbound :
     /\ inbound[s].status = "POSTED"
     /\ inbound[s].date >= from /\ inbound[s].date <= to}

\* GET /reports/sales/by-product, totalQuantity: the lines of POSTED documents.
\* (Amounts, costs and the filters by client and kind of sale are left out.)
SalesQuantity(p, from, to) ==
  Total([d \in SoldIn(from, to) |-> outbound[d].items[p]], SoldIn(from, to))
    - Net([s \in ReturnedIn(from, to) |-> QuantityOf(inbound[s].items, p)],
          ReturnedIn(from, to))

-----------------------------------------------------------------------------
(* Properties.                                                             *)

\* The balances of the last day are the goods that posting can still take,
\* product by product and warehouse by warehouse: the report, which never looks
\* at quantityLeft, and the stock do not drift apart, whatever was posted,
\* edited while posted, unposted and deleted.
BalanceIsStockLeft ==
  \A p \in Products, w \in Warehouses, day \in Dates :
    (\A t \in Dates : t <= day) => StockBalance(p, w, day) = LeftOf(BatchesIn(p, w))

\* The two reports agree: a period's movement ends with the balance of its last
\* day.  The movement does not look at the status of outgoing documents, so it
\* relies on unposting to leave no rows behind.
MovementEndsInBalance ==
  \A p \in Products, w \in Warehouses, from, to \in Dates :
    from <= to => MovementEnd(p, w, from, to) = StockBalance(p, w, to)

\* The batches of product p that buyer returns of a period brought in, in
\* whatever warehouse.
ReturnedBatches(p, from, to) ==
  {b \in DOMAIN ProductBatch : /\ ProductBatch[b].productId = p
                               /\ ProductBatch[b].source \in ReturnedIn(from, to)}

\* The sales report, which adds up lines, and the stock, of which rows say what
\* was taken: the report never shows less than was moved.  It shows exactly that
\* where all goods come from receipts, however those are edited and unposted after
\* the sale, and in a period in which nothing was sold.  (Unposting a buyer return
\* takes goods from under a sale, which the report goes on to show:
\* PostedSaleCovered.)
SalesAreMoved ==
  \A p \in Products, from, to \in Dates :
    LET B == {b \in DOMAIN ProductBatch : ProductBatch[b].productId = p}
        moved == QuantityOut(B, SoldIn(from, to))
                   - QuantityIn(ReturnedBatches(p, from, to))
    IN  /\ moved <= SalesQuantity(p, from, to)
        /\ (BuyerReturns = {} \/ SoldIn(from, to) = {}) =>
             moved = SalesQuantity(p, from, to)
=============================================================================

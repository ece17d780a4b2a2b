--------------------------- MODULE FinanceReports ---------------------------
(***************************************************************************)
(* The reports on money (routes/reports.ts): the reconciliation act of a   *)
(* counterparty and the cash flow.  Each is an opening balance computed by *)
(* one query and a ledger of movements read by a second one; both are      *)
(* operators here, over the tables of module Payments.                     *)
(*                                                                         *)
(* dateFrom and dateTo are days and the columns are times; a day is one    *)
(* value of Dates.  A counterparty group is resolved to its counterparties *)
(* before the queries run, so a report is about one counterparty at a      *)
(* time.  NULL stands for a missing date.                                  *)
(***************************************************************************)
EXTENDS Payments

\* The documents of each kind are rows of a table of their own.
ASSUME KindsAssumption ==
  /\ IsFiniteSet(BuyerReturns) /\ IsFiniteSet(SupplierReturns)
  /\ BuyerReturns \cap SupplierReturns = {}
  /\ Payable \cap (BuyerReturns \cup SupplierReturns) = {}
  /\ NULL \notin Int

InWindow(date, from, to) == (from # NULL => date >= from) /\ (to # NULL => date <= to)

\* The rows of the union that concern counterparty k: POSTED documents and
\* transactions that are not deleted.
LedgerDocuments(k) ==
  {d \in DOMAIN documents : /\ documents[d].status = "POSTED"
                            /\ documents[d].counterpartyId = k}

Live == {t \in DOMAIN CashTransaction : ~CashTransaction[t].isDeleted}

LedgerTransactions(k) == {t \in Live : CashTransaction[t].row.counterpartyId = k}

AmountOf(D) == Total([d \in D |-> documents[d].amount], D)
SumOf(T) == Total([t \in T |-> CashTransaction[t].row.amount], T)

-----------------------------------------------------------------------------
(* GET /reports/reconciliation                                             *)

\* The opening balance adds up each kind of row on its own.
SumDocuments(k, D, from) ==
  AmountOf({d \in LedgerDocuments(k) \cap D : documents[d].date < from})
SumPayments(k, type, from) ==
  SumOf({t \in LedgerTransactions(k) : /\ CashTransaction[t].row.type = type
                                       /\ CashTransaction[t].row.date < from})

\* Faulty variant: a return to the supplier is booked like the receipt.
StartBalance_ReturnSign(k, from) ==
  IF from = NULL THEN 0
  ELSE SumDocuments(k, Realizations, from) + SumPayments(k, "OUTCOME", from)
       - SumDocuments(k, BuyerReturns, from) - SumDocuments(k, GoodsReceipts, from)
       - SumDocuments(k, SupplierReturns, from) - SumPayments(k, "INCOME", from)

StartBalance(k, from) ==
  IF from = NULL THEN 0
  ELSE SumDocuments(k, Realizations, from) + SumPayments(k, "OUTCOME", from)
       - SumDocuments(k, BuyerReturns, from) - SumDocuments(k, GoodsReceipts, from)
       + SumDocuments(k, SupplierReturns, from) - SumPayments(k, "INCOME", from)

\* balanceChange of the rows of the ledger.
DocumentChange(d) ==
  IF d \in Realizations \cup SupplierReturns THEN documents[d].amount
  ELSE 0 - documents[d].amount
PaymentChange(t) ==
  IF CashTransaction[t].row.type = "INCOME" THEN 0 - CashTransaction[t].row.amount
  ELSE CashTransaction[t].row.amount

DocumentChanges(D) == Net([d \in D |-> DocumentChange(d)], D)
PaymentChanges(T) == Net([t \in T |-> PaymentChange(t)], T)

\* endBalance: the opening balance and every row of the window.
EndBalance(k, from, to) ==
  StartBalance(k, from)
    + DocumentChanges({d \in LedgerDocuments(k) : InWindow(documents[d].date, from, to)})
    + PaymentChanges({t \in LedgerTransactions(k) :
                        InWindow(CashTransaction[t].row.date, from, to)})

-----------------------------------------------------------------------------
(* GET /reports/cashflow                                                   *)

\* The transactions of cashbox b, or of all cashboxes where b is NULL.
InCashbox(b) == {t \in Live : b = NULL \/ CashTransaction[t].row.cashboxId = b}

OfType(T, type) == {t \in T : CashTransaction[t].row.type = type}

CashBefore(b, from) ==
  LET T == {t \in InCashbox(b) : CashTransaction[t].row.date < from}
  IN  SumOf(OfType(T, "INCOME")) - SumOf(OfType(T, "OUTCOME"))

\* The rows of the window; runningBalance starts at the opening balance.
CashWindow(b, from, to) ==
  {t \in InCashbox(b) : InWindow(CashTransaction[t].row.date, from, to)}
TotalIncome(b, from, to) == SumOf(OfType(CashWindow(b, from, to), "INCOME"))
TotalOutcome(b, from, to) == SumOf(CashWindow(b, from, to)
                                   \ OfType(CashWindow(b, from, to), "INCOME"))
CashEnd(b, from, to) ==
  (IF from = NULL THEN 0 ELSE CashBefore(b, from))
    + TotalIncome(b, from, to) - TotalOutcome(b, from, to)

-----------------------------------------------------------------------------
(* Properties.                                                             *)

\* Reports for adjacent periods fit together: the balance one period ends with
\* is the balance the next one starts with, for every counterparty and every
\* cashbox, although the two are computed by different queries.
PeriodsJoin ==
  \A from \in Dates \cup {NULL}, next \in Dates :
    LET to == next - 1
    IN  (from = NULL \/ from < next) =>
          /\ \A k \in Counterparties : EndBalance(k, from, to) = StartBalance(k, next)
          /\ \A b \in Cashboxes \cup {NULL} : CashEnd(b, from, to) = CashBefore(b, next)

\* What document d still adds to the balance of its counterparty.
Owed(d) ==
  IF d \in Realizations THEN documents[d].amount - documents[d].paidAmount
  ELSE IF d \in GoodsReceipts THEN documents[d].paidAmount - documents[d].amount
  ELSE DocumentChange(d)

\* What counterparty k owes by the documents: their unpaid amounts.
OpenDebt(k) == Net([d \in LedgerDocuments(k) |-> Owed(d)], LedgerDocuments(k))

\* What transaction t takes off it without paying a document.
Unspent(t) ==
  IF CashTransaction[t].row.type = "INCOME"
  THEN CashTransaction[t].row.amount - Allocated(t)
  ELSE Allocated(t) - CashTransaction[t].row.amount

\* The part of its payments that pays no document.
OnAccount(k) == Net([t \in LedgerTransactions(k) |-> Unspent(t)], LedgerTransactions(k))

\* The allocations made for k rest on documents that are in its ledger.
AllocationsInLedger ==
  \A t \in Live : \A a \in RowsOf(t) :
    /\ a[2] \in DOMAIN documents
    /\ documents[a[2]].status = "POSTED"
    /\ documents[a[2]].counterpartyId = CashTransaction[t].row.counterpartyId

\* The reconciliation act and the allocations tell the same story: as long as
\* no paid document was unposted or handed to another counterparty, the balance
\* is the unpaid amounts less the money that pays nothing.
BalanceIsOpenDebt ==
  AllocationsInLedger =>
    \A k \in Counterparties : EndBalance(k, NULL, NULL) = OpenDebt(k) - OnAccount(k)
=============================================================================

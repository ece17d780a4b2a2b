------------------------------ MODULE Payments ------------------------------
(***************************************************************************)
(* Cash transactions (routes/finance.ts) and the debts they pay.  Creating *)
(* a transaction allocates its amount to the unpaid POSTED documents of    *)
(* the counterparty, oldest first: income to realizations, outcome to      *)
(* goods receipts.  Editing it takes the allocations back and makes new    *)
(* ones, deleting it takes them back.                                      *)
(*                                                                         *)
(* Clients work at once, each in a PostgreSQL transaction at READ          *)
(* COMMITTED.  One action is one statement, or several of which only the   *)
(* last can wait or read what others write; what a call writes becomes     *)
(* visible in the action of its COMMIT.  The documents change under the    *)
(* payments: posting, unposting and editing them never looks at what is    *)
(* paid.  Each such call is one action here.                               *)
(***************************************************************************)
EXTENDS Fifo, Sequences

CONSTANTS
  Clients,
  Counterparties, Cashboxes,
  Realizations, GoodsReceipts,         \* ids of documents that are paid
  BuyerReturns, SupplierReturns,       \* ids of documents that only reports read
  Transactions,     \* the pool of ids of CashTransaction rows
  Dates,            \* integers: only their order matters
  Versions,         \* what a document may say: amount, date, counterparty
  Requests,         \* what POST or PUT /transactions may be asked for
  OneCallPerTransaction,   \* TRUE: nobody edits a transaction while another does
  NULL

Payable == Realizations \cup GoodsReceipts
Documents == Payable \cup BuyerReturns \cup SupplierReturns

ASSUME ContentAssumption ==
  /\ Dates \subseteq Int
  /\ \A v \in Versions :
       v.amount \in Nat /\ v.date \in Dates /\ v.counterpartyId \in Counterparties
  /\ \A row \in Requests :
       /\ row.type \in {"INCOME", "OUTCOME"} /\ row.amount \in Nat /\ row.date \in Dates
       /\ row.cashboxId \in Cashboxes
       /\ row.counterpartyId \in Counterparties \cup {NULL}
  /\ NULL \notin Requests
  /\ OneCallPerTransaction \in BOOLEAN

\* Realizations and receipts are rows of two tables.
ASSUME FiniteAssumption ==
  /\ IsFiniteSet(Clients) /\ IsFiniteSet(Transactions)
  /\ IsFiniteSet(Realizations) /\ IsFiniteSet(GoodsReceipts)
  /\ Realizations \cap GoodsReceipts = {}

VARIABLES
  documents,          \* the four document tables, paidAmount included
  CashTransaction,    \* table CashTransaction
  PaymentAllocation,  \* its rows; a row is named by the client whose call
                      \* inserted it and the document it pays, 0: no such row
  call                \* call[c]: the call client c is in

tables == <<documents, CashTransaction, PaymentAllocation>>
vars == <<tables, call>>

-----------------------------------------------------------------------------
\* amount: the column, or for a receipt the sum over its lines.
DocumentRow == [status : {"DRAFT", "POSTED"}, amount : Nat, date : Dates,
                counterpartyId : Counterparties, paidAmount : Int]

TransactionRow == [row : Requests, isDeleted : BOOLEAN]

AllocationId == Clients \X Payable

NoChange == [d \in Payable |-> 0]

\* id: the transaction; row: the request; plan: what the call is to add to the
\* paidAmount of documents; todo: those it has not come to; delta: what it has
\* added; seen, dropped: allocations its DELETE saw, and deleted; added: the
\* allocations it inserted; holds: the documents and transactions it locked.
IsCall(k) ==
  /\ k.op \in {"none", "create", "update", "delete"}
  /\ k.pc \in {"idle", "read", "revert", "drop", "dropping", "row", "unpaid", "pay",
               "commit"}
  /\ k.id \in Transactions \cup {NULL}
  /\ k.row \in Requests \cup {NULL}
  /\ k.plan \in [Payable -> Int] /\ k.delta \in [Payable -> Int]
  /\ k.todo \in Seq(Payable)
  /\ k.seen \subseteq AllocationId /\ k.dropped \subseteq AllocationId
  /\ k.added \in [Payable -> Nat]
  /\ k.holds \subseteq Payable \cup Transactions

Idle == [op |-> "none", pc |-> "idle", id |-> NULL, row |-> NULL, plan |-> NoChange,
         todo |-> << >>, delta |-> NoChange, seen |-> {}, dropped |-> {},
         added |-> NoChange, holds |-> {}]

\* A document as it is first saved.
Draft(v) == [status |-> "DRAFT", amount |-> v.amount, date |-> v.date,
             counterpartyId |-> v.counterpartyId, paidAmount |-> 0]

\* The documents are saved and not yet posted; nothing is paid.
Init ==
  /\ documents \in [Documents -> {Draft(v) : v \in Versions}]
  /\ CashTransaction = << >>
  /\ PaymentAllocation = [t \in Transactions |-> [a \in AllocationId |-> 0]]
  /\ call = [c \in Clients |-> Idle]

-----------------------------------------------------------------------------
(* Rows and locks.                                                         *)

Free(c, row) == \A e \in Clients \ {c} : row \notin call[e].holds

\* Every call has let go of document d.
Unlocked(d) == \A c \in Clients : d \notin call[c].holds

RowsOf(t) == {a \in AllocationId : PaymentAllocation[t][a] > 0}

\* What transaction t allocates to document d, and altogether.
AllocatedTo(t, d) == Total([c \in Clients |-> PaymentAllocation[t][<<c, d>>]], Clients)
Allocated(t) == Total(PaymentAllocation[t], AllocationId)

\* The documents in D, in an order a statement may go through them: by date
\* where it says ORDER BY "date", else any.
Orderings(D, byDate) ==
  {s \in [1 .. Cardinality(D) -> D] :
     \A i, j \in DOMAIN s : i < j =>
       /\ s[i] # s[j]
       /\ byDate => documents[s[i]].date <= documents[s[j]].date}

-----------------------------------------------------------------------------
(* The documents.                                                          *)

\* A receipt is edited in any status, the others only before they are POSTED.
EditDocument(d, v) ==
  /\ d \in DOMAIN documents
  /\ Unlocked(d)
  /\ documents[d].status # "POSTED" \/ d \in GoodsReceipts
  /\ documents' = [documents EXCEPT ![d] =
       [Draft(v) EXCEPT !.status = documents[d].status,
                        !.paidAmount = documents[d].paidAmount]]
  /\ UNCHANGED <<CashTransaction, PaymentAllocation, call>>

\* post and unpost: the paid amount stays.
SetStatus(d, old, new) ==
  /\ d \in DOMAIN documents
  /\ Unlocked(d)
  /\ documents[d].status = old
  /\ documents' = [documents EXCEPT ![d].status = new]
  /\ UNCHANGED <<CashTransaction, PaymentAllocation, call>>

PostDocument(d) == SetStatus(d, "DRAFT", "POSTED")
UnpostDocument(d) == SetStatus(d, "POSTED", "DRAFT")

\* A realization is only marked as deleted, which changes nothing here; the
\* rows of the others go, the allocations that pay them stay.
DeleteDocument(d) ==
  /\ d \in DOMAIN documents \ Realizations
  /\ Unlocked(d)
  /\ documents[d].status # "POSTED"
  /\ documents' = Without(documents, {d})
  /\ UNCHANGED <<CashTransaction, PaymentAllocation, call>>

-----------------------------------------------------------------------------
(* POST, PUT and DELETE /transactions.                                     *)

Begin(c, op, t, row, pc) ==
  /\ call[c].pc = "idle"
  /\ OneCallPerTransaction => \A e \in Clients : call[e].id # t
  /\ call' = [call EXCEPT ![c] =
       [Idle EXCEPT !.op = op, !.pc = pc, !.id = t, !.row = row]]
  /\ UNCHANGED tables

\* Debts are looked up when there is a counterparty and something to allocate.
AfterRow(row) ==
  IF row.counterpartyId # NULL /\ row.amount > 0 THEN "unpaid" ELSE "commit"

\* The INSERT of the row is not visible before COMMIT, and locks nothing that
\* others can name.
BeginCreate(c, t, row) ==
  /\ t \notin DOMAIN CashTransaction
  /\ \A e \in Clients : call[e].id # t
  /\ Begin(c, "create", t, row, AfterRow(row))

\* 'Transaction not found' unless the row is there and not deleted.
BeginUpdate(c, t, row) ==
  /\ t \in DOMAIN CashTransaction
  /\ ~CashTransaction[t].isDeleted
  /\ Begin(c, "update", t, row, "read")

\* The DELETE handler does not ask whether the transaction is deleted.
BeginDelete(c, t) ==
  /\ t \in DOMAIN CashTransaction
  /\ Begin(c, "delete", t, NULL, "read")

\* SELECT * FROM "PaymentAllocation": what is to be reverted, in any order.
ReadAllocations(c) ==
  /\ call[c].pc = "read"
  /\ LET t == call[c].id
         D == {d \in Payable : AllocatedTo(t, d) > 0}
     IN  \E s \in Orderings(D, FALSE) :
           call' = [call EXCEPT ![c].pc = IF D = {} THEN "drop" ELSE "revert",
                      ![c].todo = s,
                      ![c].plan = [d \in Payable |-> 0 - AllocatedTo(t, d)]]
  /\ UNCHANGED tables

\* UPDATE ... SET "paidAmount" = "paidAmount" +/- $1 of the next document; one
\* that was deleted is passed by.  When paying, the allocation is inserted too.
UpdatePaid(c) ==
  LET k == call[c]
      d == Head(k.todo)
      pay == k.pc = "pay"
      next == IF Len(k.todo) > 1 THEN k.pc ELSE IF pay THEN "commit" ELSE "drop"
      found == d \in DOMAIN documents
  IN  /\ k.pc \in {"revert", "pay"}
      /\ Free(c, d)
      /\ call' = [call EXCEPT ![c] =
           [k EXCEPT !.pc = next, !.todo = Tail(k.todo),
              !.delta[d] = IF found THEN k.delta[d] + k.plan[d] ELSE k.delta[d],
              !.added[d] = IF pay THEN k.plan[d] ELSE k.added[d],
              !.holds = IF found THEN k.holds \cup {d} ELSE k.holds]]
      /\ UNCHANGED tables

\* DELETE FROM "PaymentAllocation" sees the rows there are when it starts ...
SeeRows(c) ==
  /\ call[c].pc = "drop"
  /\ call' = [call EXCEPT ![c].pc = "dropping", ![c].seen = RowsOf(call[c].id)]
  /\ UNCHANGED tables

\* ... waits for the transactions that have deleted some of them, and deletes
\* those that are still there.
DropRows(c) ==
  /\ call[c].pc = "dropping"
  /\ \A e \in Clients \ {c} :
       call[e].id = call[c].id => call[e].dropped \cap call[c].seen = {}
  /\ call' = [call EXCEPT ![c].pc = "row",
                ![c].dropped = call[c].seen \cap RowsOf(call[c].id)]
  /\ UNCHANGED tables

\* UPDATE "CashTransaction": PUT overwrites the row, deleted meanwhile or not,
\* DELETE marks it.
WriteRow(c) ==
  /\ call[c].pc = "row"
  /\ Free(c, call[c].id)
  /\ call' = [call EXCEPT ![c].holds = @ \cup {call[c].id},
       ![c].pc = IF call[c].op = "update" THEN AfterRow(call[c].row) ELSE "commit"]
  /\ UNCHANGED tables

\* The debts as the call sees them: its own reverts count, those of others
\* only once they are committed.
Debt(c, d) == documents[d].amount - documents[d].paidAmount - call[c].delta[d]

Unpaid(c) ==
  LET row == call[c].row
  IN  {d \in (IF row.type = "INCOME" THEN Realizations ELSE GoodsReceipts)
              \cap DOMAIN documents :
         /\ documents[d].counterpartyId = row.counterpartyId
         /\ documents[d].status = "POSTED"
         /\ Debt(c, d) > 0}

\* Faulty variant: the last document gets more than is left of the amount.
Allocation_Uncapped(c, take) ==
  LET D == Unpaid(c)
  IN  /\ \A d \in D : take[d] \in {0, Debt(c, d)}
      /\ \E d \in D : take[d] > 0
      /\ OldestFirst(take, [d \in D |-> Debt(c, d)],
                     [d \in D |-> documents[d].date], D)

\* The loop over the unpaid documents: each gets its debt or what is left.
Allocation(c, take) ==
  LET D == Unpaid(c)
      debt == [d \in D |-> Debt(c, d)]
      owed == Total(debt, D)
  IN  FifoTake(take, debt, [d \in D |-> documents[d].date], D,
               IF owed < call[c].row.amount THEN owed ELSE call[c].row.amount)

\* Faulty variant: payments are subtracted, as reverts are.
ReadUnpaid_Subtracts(c) ==
  /\ call[c].pc = "unpaid"
  /\ \E take \in [Unpaid(c) -> 0 .. call[c].row.amount] :
       /\ Allocation(c, take)
       /\ LET D == {d \in Unpaid(c) : take[d] > 0}
          IN  \E s \in Orderings(D, TRUE) :
                call' = [call EXCEPT ![c].pc = IF D = {} THEN "commit" ELSE "pay",
                  ![c].todo = s,
                  ![c].plan = [d \in Payable |-> IF d \in D THEN 0 - take[d] ELSE 0]]
  /\ UNCHANGED tables

\* SELECT of the unpaid documents, oldest first, without a lock.
ReadUnpaid(c) ==
  /\ call[c].pc = "unpaid"
  /\ \E take \in [Unpaid(c) -> 0 .. call[c].row.amount] :
       /\ Allocation(c, take)
       /\ LET D == {d \in Unpaid(c) : take[d] > 0}
          IN  \E s \in Orderings(D, TRUE) :
                call' = [call EXCEPT ![c].pc = IF D = {} THEN "commit" ELSE "pay",
                  ![c].todo = s,
                  ![c].plan = [d \in Payable |-> IF d \in D THEN take[d] ELSE 0]]
  /\ UNCHANGED tables

\* Faulty variant: an edit keeps what the first allocation paid.
PaidAfter_KeepsOld(c, d) ==
  IF call[c].op = "update" THEN documents[d].paidAmount + call[c].added[d]
  ELSE documents[d].paidAmount + call[c].delta[d]

\* paidAmount of document d once call c commits.
PaidAfter(c, d) == documents[d].paidAmount + call[c].delta[d]

\* The allocations of the transaction once call c commits.
RowsAfter(c) ==
  [a \in AllocationId |->
     IF a[1] = c /\ call[c].added[a[2]] > 0 THEN call[c].added[a[2]]
     ELSE IF a \in call[c].dropped THEN 0
     ELSE PaymentAllocation[call[c].id][a]]

\* COMMIT makes the call's writes visible and releases its locks.
Commit(c) ==
  LET t == call[c].id
  IN  /\ call[c].pc = "commit"
      /\ documents' = [d \in DOMAIN documents |->
           IF d \in Payable
           THEN [documents[d] EXCEPT !.paidAmount = PaidAfter(c, d)]
           ELSE documents[d]]
      /\ PaymentAllocation' = [PaymentAllocation EXCEPT ![t] = RowsAfter(c)]
      /\ \/ /\ call[c].op = "create"
            /\ CashTransaction' =
                 Put(CashTransaction, t, [row |-> call[c].row, isDeleted |-> FALSE])
         \/ /\ call[c].op = "update"
            /\ CashTransaction' = [CashTransaction EXCEPT ![t].row = call[c].row]
         \/ /\ call[c].op = "delete"
            /\ CashTransaction' = [CashTransaction EXCEPT ![t].isDeleted = TRUE]
      /\ call' = [call EXCEPT ![c] = Idle]

\* A query fails, PostgreSQL ends a circle of waiting calls, or the server
\* stops: nothing of the call remains.
Fail(c) ==
  /\ call[c].pc # "idle"
  /\ call' = [call EXCEPT ![c] = Idle]
  /\ UNCHANGED tables

-----------------------------------------------------------------------------
Step(c) ==
  \/ ReadAllocations(c) \/ UpdatePaid(c) \/ SeeRows(c) \/ DropRows(c)
  \/ WriteRow(c) \/ ReadUnpaid(c) \/ Commit(c)

Next ==
  \/ \E d \in Documents :
       \/ \E v \in Versions : EditDocument(d, v)
       \/ PostDocument(d)
       \/ UnpostDocument(d)
       \/ DeleteDocument(d)
  \/ \E c \in Clients :
       \/ \E t \in Transactions :
            \/ \E row \in Requests : BeginCreate(c, t, row) \/ BeginUpdate(c, t, row)
            \/ BeginDelete(c, t)
       \/ Step(c)
       \/ Fail(c)

Spec == Init /\ [][Next]_vars

-----------------------------------------------------------------------------
(* Properties.                                                             *)

\* Every table holds rows of its type.
TypeOK ==
  /\ IsTable(documents, Documents, DocumentRow)
  /\ IsTable(CashTransaction, Transactions, TransactionRow)
  /\ PaymentAllocation \in [Transactions -> [AllocationId -> Nat]]
  /\ DOMAIN call = Clients /\ \A c \in Clients : IsCall(call[c])

\* paidAmount, which is only ever added to and subtracted from, is what the
\* payments allocate to the document: however payments are made, edited and
\* deleted at once, and documents posted, edited and unposted in between, no
\* revert is lost or made twice.
PaidIsAllocated ==
  \A d \in Payable \cap DOMAIN documents :
    documents[d].paidAmount =
      Total([t \in Transactions |-> AllocatedTo(t, d)], Transactions)

\* A payment is spent at most once: what it allocates is within its amount,
\* goes to documents of its kind, and is all taken back when it is deleted,
\* although an edit reverts and allocates anew in one transaction.
SpentOnce ==
  \A t \in Transactions :
    IF t \in DOMAIN CashTransaction /\ ~CashTransaction[t].isDeleted
    THEN /\ Allocated(t) <= CashTransaction[t].row.amount
         /\ \A a \in RowsOf(t) :
              a[2] \in Realizations <=> CashTransaction[t].row.type = "INCOME"
    ELSE RowsOf(t) = {}
=============================================================================

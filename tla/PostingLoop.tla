----------------------------- MODULE PostingLoop ----------------------------
(***************************************************************************)
(* The loops behind posting and unposting a Realization or SupplierReturn: *)
(* post goes through the lines, deductStock through the batches it         *)
(* selected for a line, unpost through the rows post left behind.  One     *)
(* action is one query with the assignments that follow it.                *)
(*                                                                         *)
(* The transaction works on its own version of the tables (work, made)     *)
(* which COMMIT publishes and ROLLBACK forgets.  The batches are those of  *)
(* the document's warehouse, locked FOR UPDATE: no other client writes     *)
(* them (module ConcurrentPosting has the clients and the locks).          *)
(***************************************************************************)
EXTENDS Fifo, Sequences

CONSTANTS
  Products, Batches, Dates,
  MaxLeft,        \* bound on the quantity a batch starts with
  MaxQuantity,    \* bound on the quantity of a line
  MaxLines        \* bound on the number of lines

ASSUME BoundsAssumption ==
  /\ MaxLeft \in Nat /\ MaxQuantity \in Nat /\ MaxLines \in Nat
  /\ Dates \subseteq Int /\ IsFiniteSet(Batches)

VARIABLES
  productId, createdAt, lines,   \* what is given: the batches and the document
  quantityLeft,   \* committed column of ProductBatch
  rows,           \* committed RealizationItemBatch rows of the document
  status, reply,
  pc,             \* "idle": no call; "line", "batch": post; "return": unpost
  line,           \* the line deductStock works on
  batches,        \* the batches it has not come to, as the SELECT read them
  remaining,      \* the quantity it still has to take
  work,           \* quantityLeft as the transaction sees it
  made,           \* the rows the transaction inserted
  todo            \* indexes of the rows unpost has not returned

given == <<productId, createdAt, lines>>
stored == <<quantityLeft, rows, status>>
vars == <<given, stored, reply, pc, line, batches, remaining, work, made, todo>>

Line == [productId : Products, quantity : 0 .. MaxQuantity]
Row == [batchId : Batches, quantity : Nat]

Init ==
  /\ productId \in [Batches -> Products]
  /\ createdAt \in [Batches -> Dates]
  /\ lines \in UNION {[1 .. n -> Line] : n \in 0 .. MaxLines}
  /\ quantityLeft \in [Batches -> 0 .. MaxLeft]
  /\ rows = << >>
  /\ status = "DRAFT"
  /\ reply = "none"
  /\ pc = "idle"
  /\ line = 0
  /\ batches = << >>
  /\ remaining = 0
  /\ work = quantityLeft
  /\ made = << >>
  /\ todo = {}

\* The call is over: its local variables are gone.
CallOver ==
  /\ pc' = "idle"
  /\ line' = 0
  /\ batches' = << >>
  /\ remaining' = 0
  /\ work' = quantityLeft'
  /\ made' = << >>
  /\ todo' = {}

-----------------------------------------------------------------------------
(* post *)

\* BEGIN; SELECT ... FOR UPDATE; the status check; the lines are read.
BeginPost ==
  /\ pc = "idle"
  /\ status # "POSTED"
  /\ pc' = "line"
  /\ line' = 1
  /\ work' = quantityLeft
  /\ made' = << >>
  /\ UNCHANGED <<given, stored, reply, batches, remaining, todo>>

\* Faulty variant: the ORDER BY is missing.
IsSelection_Unordered(s, p) ==
  /\ {s[i] : i \in DOMAIN s} = {b \in Batches : productId[b] = p /\ work[b] > 0}
  /\ \A i, j \in DOMAIN s : i < j => s[i] # s[j]

\* s is what the SELECT of deductStock may return for product p: the batches
\* with something left, oldest first, in any order among equal dates.
IsSelection(s, p) ==
  /\ {s[i] : i \in DOMAIN s} = {b \in Batches : productId[b] = p /\ work[b] > 0}
  /\ \A i, j \in DOMAIN s :
       i < j => s[i] # s[j] /\ createdAt[s[i]] <= createdAt[s[j]]

SelectBatches ==
  /\ pc = "line"
  /\ line <= Len(lines)
  /\ \E n \in 0 .. Cardinality(Batches) : \E s \in [1 .. n -> Batches] :
       /\ IsSelection(s, lines[line].productId)
       /\ batches' = [i \in 1 .. n |-> [id |-> s[i], quantityLeft |-> work[s[i]]]]
  /\ remaining' = lines[line].quantity
  /\ pc' = "batch"
  /\ UNCHANGED <<given, stored, reply, line, work, made, todo>>

\* Faulty variant: the quantity taken is not capped by the batch.
TakeOf_Uncapped(batch) == remaining

\* Math.min(remaining, batch.quantityLeft)
TakeOf(batch) ==
  IF remaining <= batch.quantityLeft THEN remaining ELSE batch.quantityLeft

\* One turn of the loop: UPDATE the batch, push the deduction; the INSERT of
\* its row follows in the caller's loop.
TakeFromBatch ==
  /\ pc = "batch"
  /\ batches # << >>
  /\ remaining > 0
  /\ LET batch == Head(batches)
         take == TakeOf(batch)
     IN  /\ work' = [work EXCEPT ![batch.id] = @ - take]
         /\ made' = Append(made, [batchId |-> batch.id, quantity |-> take])
         /\ remaining' = remaining - take
  /\ batches' = Tail(batches)
  /\ UNCHANGED <<given, stored, reply, pc, line, todo>>

\* deductStock returns and the caller goes on to the next line.
NextLine ==
  /\ pc = "batch"
  /\ remaining <= 0
  /\ line' = line + 1
  /\ batches' = << >>
  /\ pc' = "line"
  /\ UNCHANGED <<given, stored, reply, remaining, work, made, todo>>

\* INSUFFICIENT_STOCK: the caller's catch block rolls back.
Throw ==
  /\ pc = "batch"
  /\ batches = << >>
  /\ remaining > 0
  /\ reply' = "INSUFFICIENT_STOCK"
  /\ UNCHANGED <<given, stored>>
  /\ CallOver

CommitPost ==
  /\ pc = "line"
  /\ line > Len(lines)
  /\ quantityLeft' = work
  /\ rows' = rows \o made
  /\ status' = "POSTED"
  /\ reply' = "posted"
  /\ UNCHANGED given
  /\ CallOver

-----------------------------------------------------------------------------
(* unpost *)

BeginUnpost ==
  /\ pc = "idle"
  /\ status = "POSTED"
  /\ pc' = "return"
  /\ work' = quantityLeft
  /\ todo' = DOMAIN rows
  /\ UNCHANGED <<given, stored, reply, line, batches, remaining, made>>

\* The SELECT of returnStock has no ORDER BY: any row may be next.
ReturnRow(i) ==
  /\ pc = "return"
  /\ i \in todo
  /\ work' = [work EXCEPT ![rows[i].batchId] = @ + rows[i].quantity]
  /\ todo' = todo \ {i}
  /\ UNCHANGED <<given, stored, reply, pc, line, batches, remaining, made>>

CommitUnpost ==
  /\ pc = "return"
  /\ todo = {}
  /\ quantityLeft' = work
  /\ rows' = << >>
  /\ status' = "DRAFT"
  /\ reply' = "unposted"
  /\ UNCHANGED given
  /\ CallOver

\* Any query may fail; the catch block rolls the transaction back.
Abort ==
  /\ pc # "idle"
  /\ UNCHANGED <<given, stored, reply>>
  /\ CallOver

Next ==
  \/ BeginPost \/ SelectBatches \/ TakeFromBatch \/ NextLine \/ Throw \/ CommitPost
  \/ BeginUnpost \/ (\E i \in todo : ReturnRow(i)) \/ CommitUnpost
  \/ Abort

Spec == Init /\ [][Next]_vars

-----------------------------------------------------------------------------
(* Properties.                                                             *)

\* What the rows in s hold of batch b.
RowsTotal(s, b) ==
  LET I == {i \in DOMAIN s : s[i].batchId = b}
  IN  Total([i \in I |-> s[i].quantity], I)

\* At every query of post the transaction has moved goods and not made or lost
\* any: what it took off a batch is on the rows it inserted, and no batch it
\* selected is taken below zero, although a batch may serve several lines.
GoodsMoved ==
  pc \in {"line", "batch"} =>
    \A b \in Batches : /\ work[b] >= 0
                       /\ work[b] + RowsTotal(made, b) = quantityLeft[b]

Atomic == INSTANCE AtomicPosting
            WITH held <- [b \in Batches |-> RowsTotal(rows, b)]

\* The loops implement the atomic steps: line by line and batch by batch, with
\* a product on several lines and calls that fail in between, post takes what
\* one first-in first-out deduction of the summed lines takes, refuses only if
\* a product is short of stock, and unpost gives back exactly that.
ImplementsAtomic == Atomic!Spec
=============================================================================

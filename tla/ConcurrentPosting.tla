-------------------------- MODULE ConcurrentPosting -------------------------
(***************************************************************************)
(* Several clients of the server work on the stock documents at once.      *)
(* Every call runs its own PostgreSQL transaction at READ COMMITTED: a     *)
(* statement sees what is committed when it starts; UPDATE, DELETE and     *)
(* SELECT ... FOR UPDATE wait for a row another transaction has locked,    *)
(* look at the row again once they have it, and keep it to the end of the  *)
(* transaction; a plain SELECT never waits.                                *)
(*                                                                         *)
(* One action is one statement, or several of which only the last can wait *)
(* or be seen by others.  A transaction's writes become visible when it    *)
(* commits, so they are written down in the action of its COMMIT.  The     *)
(* FIFO loop is condensed to the relation FifoTake, which module           *)
(* PostingLoop justifies.                                                  *)
(*                                                                         *)
(* There is one product and one warehouse, and a receipt has one line: the *)
(* races are about rows, not about which product they hold.                *)
(***************************************************************************)
EXTENDS Fifo, Sequences

CONSTANTS
  Clients,
  GoodsReceipts,     \* a receipt is named by its date, an integer
  Realizations, SupplierReturns,
  BatchIds,          \* the pool of ids of ProductBatch rows
  ReceiptQuantities, SaleQuantities,   \* the quantities their lines may carry
  NULL

Outbound == Realizations \cup SupplierReturns
LineQuantities == ReceiptQuantities \cup SaleQuantities

ASSUME DataAssumption ==
  /\ GoodsReceipts \subseteq Int
  /\ LineQuantities \subseteq Nat \ {0}

ASSUME FiniteAssumption == IsFiniteSet(BatchIds) /\ IsFiniteSet(Outbound)

VARIABLES
  receipt,        \* table GoodsReceipt: status and quantity of its line
  sale,           \* tables Realization and SupplierReturn, likewise
  ProductBatch,   \* table ProductBatch
  taken,          \* taken[d][b]: the row that says what d took from batch b
  txn             \* txn[c]: the call client c is in

tables == <<receipt, sale, ProductBatch, taken>>
vars == <<tables, txn>>

ReceiptRow == [status : {"SAVED", "POSTED"}, quantity : ReceiptQuantities]
SaleRow == [status : {"DRAFT", "POSTED"}, quantity : SaleQuantities]

BatchRow == [goodsReceiptId : GoodsReceipts, quantityTotal : Nat, quantityLeft : Nat]

Ops == {"postReceipt", "unpostReceipt", "updateReceipt", "post", "unpost", "edit"}

NoLinks == [b \in BatchIds |-> 0]

\* doc: the document of the call; todo: the batches a statement has still to
\* lock; holds: the rows the transaction has locked; quantity: the new quantity
\* of an edit, or that of the line a receipt's posting has read.  What the call has read and goes on to use: wasPosted, whether the
\* receipt was POSTED; links, what the document took; read, rows of batches.
IsTxn(t) ==
  /\ t.op \in Ops \cup {"none"}
  /\ t.pc \in {"idle", "check", "lines", "select", "rows", "doc", "commit"}
  /\ t.doc \in GoodsReceipts \cup Outbound \cup {NULL}
  /\ t.todo \in Seq(BatchIds)
  /\ t.holds \subseteq GoodsReceipts \cup Outbound \cup BatchIds
  /\ t.quantity \in LineQuantities \cup {NULL}
  /\ t.wasPosted \in BOOLEAN
  /\ t.links \in [BatchIds -> Nat]
  /\ IsTable(t.read, BatchIds, BatchRow)

Idle == [op |-> "none", pc |-> "idle", doc |-> NULL, todo |-> << >>, holds |-> {},
         quantity |-> NULL, wasPosted |-> FALSE, links |-> NoLinks, read |-> << >>]

\* Receipts may be posted already, each with the batch of its line; nothing has
\* been sold.
Init ==
  /\ receipt \in [GoodsReceipts -> ReceiptRow]
  /\ sale \in [Outbound -> [status : {"DRAFT"}, quantity : SaleQuantities]]
  /\ LET Posted == {g \in GoodsReceipts : receipt[g].status = "POSTED"}
     IN  \E B \in SUBSET BatchIds : \E source \in [B -> Posted] :
           /\ \A g \in Posted : \E b \in B : source[b] = g
           /\ Cardinality(B) = Cardinality(Posted)
           /\ ProductBatch = [b \in B |->
                [goodsReceiptId |-> source[b],
                 quantityTotal |-> receipt[source[b]].quantity,
                 quantityLeft |-> receipt[source[b]].quantity]]
  /\ taken = [d \in Outbound |-> NoLinks]
  /\ txn = [c \in Clients |-> Idle]

-----------------------------------------------------------------------------
(* Rows and locks.                                                         *)

BatchesOf(g) == {b \in DOMAIN ProductBatch : ProductBatch[b].goodsReceiptId = g}

TotalOf(B) == Total([b \in B |-> ProductBatch[b].quantityTotal], B)
LeftOf(B) == Total([b \in B |-> ProductBatch[b].quantityLeft], B)

\* Ids are never used again: a call that waits for a row waits for that row.
FreeIds ==
  BatchIds \ (DOMAIN ProductBatch \cup UNION {
    DOMAIN txn[c].read \cup {txn[c].todo[i] : i \in DOMAIN txn[c].todo} : c \in Clients})

\* The bound on the calls that may add a batch: each finds an id of the pool.
RoomForBatch ==
  Cardinality({c \in Clients : txn[c].op \in {"postReceipt", "updateReceipt"}})
    < Cardinality(FreeIds)

\* The batches the statements of client c write.
Mine(c) == DOMAIN txn[c].read

Blocks(e, c, row) == e # c /\ row \in txn[e].holds
Free(c, row) == \A e \in Clients : ~Blocks(e, c, row)

\* The row the statement of client c is waiting for, or about to lock.
Wants(c, row) ==
  \/ txn[c].pc = "doc" /\ row = txn[c].doc
  \/ txn[c].pc = "rows" /\ txn[c].todo # << >> /\ row = Head(txn[c].todo)

WaitsFor(c, e) == \E row \in txn[e].holds : Wants(c, row) /\ Blocks(e, c, row)

Call(c, op, doc, pc) ==
  [Idle EXCEPT !.op = op, !.doc = doc, !.pc = pc]

Begin(c, call) ==
  /\ txn[c].pc = "idle"
  /\ txn' = [txn EXCEPT ![c] = call]
  /\ UNCHANGED tables

\* Faulty variant: the connection goes back to the pool inside its transaction.
Rollback_KeepsLocks(c) ==
  /\ txn' = [txn EXCEPT ![c] = [Idle EXCEPT !.holds = txn[c].holds]]
  /\ UNCHANGED tables

Rollback(c) ==
  /\ txn' = [txn EXCEPT ![c] = Idle]
  /\ UNCHANGED tables

\* COMMIT releases the locks; what it makes visible is the caller's to say.
Commit(c) ==
  /\ txn[c].pc = "commit"
  /\ txn' = [txn EXCEPT ![c] = Idle]

-----------------------------------------------------------------------------
(* The first statements of the calls, up to the first that can wait.       *)

\* GoodsReceiptService.post checks the status before BEGIN and locks nothing.
BeginPostReceipt(c, g) ==
  /\ RoomForBatch
  /\ receipt[g].status # "POSTED"
  /\ Begin(c, Call(c, "postReceipt", g, "lines"))

\* GoodsReceiptService.unpost, likewise.
BeginUnpostReceipt(c, g) ==
  /\ receipt[g].status = "POSTED"
  /\ Begin(c, Call(c, "unpostReceipt", g, "check"))

\* GoodsReceiptService.update remembers whether the receipt was POSTED.
BeginUpdateReceipt(c, g, quantity) ==
  /\ RoomForBatch
  /\ Begin(c, [Call(c, "updateReceipt", g, "doc") EXCEPT
                 !.quantity = quantity, !.wasPosted = receipt[g].status = "POSTED"])

\* post and unpost of an outgoing document start with SELECT ... FOR UPDATE.
BeginPost(c, d) == Begin(c, Call(c, "post", d, "doc"))
BeginUnpost(c, d) == Begin(c, Call(c, "unpost", d, "doc"))

\* PUT /realizations/:id checks the status without a lock.
BeginEditRealization(c, r, quantity) ==
  /\ sale[r].status # "POSTED"
  /\ Begin(c, [Call(c, "edit", r, "doc") EXCEPT !.quantity = quantity])

\* SupplierReturnService.update checks it once it has the row.
BeginUpdateReturn(c, s, quantity) ==
  Begin(c, [Call(c, "edit", s, "doc") EXCEPT !.quantity = quantity])

\* Then it reads the lines, without a lock either: the batches get what they say
\* now, whatever they say when the UPDATE of the receipt has its row.
ReadLines(c) ==
  /\ txn[c].pc = "lines"
  /\ txn' = [txn EXCEPT ![c].pc = "doc",
                         ![c].quantity = receipt[txn[c].doc].quantity]
  /\ UNCHANGED tables

-----------------------------------------------------------------------------
(* Locking.                                                                *)

\* What follows the statement that locks the document's row.
AfterDocument(c) ==
  IF \/ txn[c].op \in {"post", "unpost"}
     \/ txn[c].op = "updateReceipt" /\ txn[c].wasPosted
  THEN "select"
  ELSE "commit"

\* Faulty variant: an edit relies on what it read before it had the row.
Refused_TrustsEdit(c) ==
  LET d == txn[c].doc
  IN  \/ txn[c].op = "post" /\ sale[d].status = "POSTED"
      \/ txn[c].op = "unpost" /\ sale[d].status # "POSTED"

\* The status checks made on the locked row: SELECT ... FOR UPDATE.
Refused(c) ==
  LET d == txn[c].doc
  IN  \/ txn[c].op = "post" /\ sale[d].status = "POSTED"
      \/ txn[c].op = "unpost" /\ sale[d].status # "POSTED"
      \/ txn[c].op = "edit" /\ d \in SupplierReturns /\ sale[d].status = "POSTED"

\* Faulty variant: the document is read without FOR UPDATE.
LockDocument_Unlocked(c) ==
  /\ txn[c].pc = "doc"
  /\ IF Refused(c) THEN Rollback(c)
     ELSE /\ txn' = [txn EXCEPT ![c].pc = AfterDocument(c)]
          /\ UNCHANGED tables

LockDocument(c) ==
  /\ txn[c].pc = "doc"
  /\ Free(c, txn[c].doc)
  /\ IF Refused(c) THEN Rollback(c)
     ELSE /\ txn' = [txn EXCEPT ![c].pc = AfterDocument(c),
                                ![c].holds = @ \cup {txn[c].doc}]
          /\ UNCHANGED tables

\* unpost: "Check if ANY batches have been sold", a plain SELECT.
CheckUnsold(c) ==
  /\ txn[c].pc = "check"
  /\ IF \E b \in BatchesOf(txn[c].doc) :
          ProductBatch[b].quantityLeft < ProductBatch[b].quantityTotal
     THEN Rollback(c)
     ELSE /\ txn' = [txn EXCEPT ![c].pc = "select"]
          /\ UNCHANGED tables

\* The batches a call is about to lock, as its statement sees them.
Selected(c) ==
  IF txn[c].op = "post"
    THEN {b \in DOMAIN ProductBatch : ProductBatch[b].quantityLeft > 0}
  ELSE IF txn[c].op = "unpost" THEN {b \in BatchIds : taken[txn[c].doc][b] > 0}
  ELSE BatchesOf(txn[c].doc)

\* deductStock locks the rows in the order of its ORDER BY, which is the date
\* of the receipt; the other statements in any order.
InLockOrder(c, s) ==
  \A i, j \in DOMAIN s : i < j =>
    /\ s[i] # s[j]
    /\ txn[c].op = "post" =>
         ProductBatch[s[i]].goodsReceiptId <= ProductBatch[s[j]].goodsReceiptId

\* The rows of what d took are read here, the batches when they are locked.
SelectBatches(c) ==
  /\ txn[c].pc = "select"
  /\ \E s \in [1 .. Cardinality(Selected(c)) -> Selected(c)] :
       /\ InLockOrder(c, s)
       /\ txn' = [txn EXCEPT ![c].pc = "rows", ![c].todo = s,
            ![c].links = IF txn[c].op = "unpost" THEN taken[txn[c].doc] ELSE NoLinks]
  /\ UNCHANGED tables

\* A row that is gone, or that the WHERE of deductStock no longer selects once
\* the wait is over, is passed by.
StillSelected(c, b) ==
  /\ b \in DOMAIN ProductBatch
  /\ txn[c].op = "post" => ProductBatch[b].quantityLeft > 0

\* Faulty variant: the batches are read without FOR UPDATE.
LockRow_Unlocked(c) ==
  /\ txn[c].pc = "rows"
  /\ txn[c].todo # << >>
  /\ LET b == Head(txn[c].todo)
     IN  txn' = [txn EXCEPT ![c].todo = Tail(@),
           ![c].read = IF StillSelected(c, b) THEN Put(@, b, ProductBatch[b]) ELSE @]
  /\ UNCHANGED tables

LockRow(c) ==
  /\ txn[c].pc = "rows"
  /\ txn[c].todo # << >>
  /\ LET b == Head(txn[c].todo)
     IN  /\ Free(c, b)
         /\ txn' = IF StillSelected(c, b)
                   THEN [txn EXCEPT ![c].todo = Tail(@), ![c].holds = @ \cup {b},
                                    ![c].read = Put(@, b, ProductBatch[b])]
                   ELSE [txn EXCEPT ![c].todo = Tail(@)]
  /\ UNCHANGED tables

RowsLocked(c) ==
  /\ txn[c].pc = "rows"
  /\ txn[c].todo = << >>
  /\ txn' = [txn EXCEPT ![c].pc =
               IF txn[c].op = "unpostReceipt" THEN "doc" ELSE "commit"]
  /\ UNCHANGED tables

-----------------------------------------------------------------------------
(* What the transactions make visible.                                     *)

CommitPostReceipt(c) ==
  LET g == txn[c].doc
      quantity == txn[c].quantity
  IN  /\ txn[c].op = "postReceipt"
      /\ Commit(c)
      /\ \E b \in FreeIds :
           ProductBatch' = Put(ProductBatch, b,
             [goodsReceiptId |-> g, quantityTotal |-> quantity, quantityLeft |-> quantity])
      /\ receipt' = [receipt EXCEPT ![g].status = "POSTED"]
      /\ UNCHANGED <<sale, taken>>

\* The batches are deleted, and ON DELETE CASCADE the rows that point at them.
CommitUnpostReceipt(c) ==
  /\ txn[c].op = "unpostReceipt"
  /\ Commit(c)
  /\ ProductBatch' = Without(ProductBatch, Mine(c))
  /\ taken' = [d \in Outbound |->
       [b \in BatchIds |-> IF b \in Mine(c) THEN 0 ELSE taken[d][b]]]
  /\ receipt' = [receipt EXCEPT ![txn[c].doc].status = "SAVED"]
  /\ UNCHANGED sale

\* The rows that call c has read, added up.
ReadTotal(c) == Total([b \in Mine(c) |-> txn[c].read[b].quantityTotal], Mine(c))
ReadLeft(c) == Total([b \in Mine(c) |-> txn[c].read[b].quantityLeft], Mine(c))

\* const sold: what update takes to be sold of the receipt.
ReadSold(c) == ReadTotal(c) - ReadLeft(c)

\* update of a receipt that was POSTED when the call read it: the first batch
\* gets the new quantity, the others nothing; without batches, one is added.
CommitUpdateReceipt(c) ==
  LET g == txn[c].doc
      quantity == txn[c].quantity
  IN  /\ txn[c].op = "updateReceipt"
      /\ quantity >= ReadSold(c)
      /\ Commit(c)
      /\ \/ ~txn[c].wasPosted /\ UNCHANGED ProductBatch
         \/ /\ txn[c].wasPosted
            /\ \E first \in Mine(c) :
                 ProductBatch' = [b \in DOMAIN ProductBatch |->
                   IF b \notin Mine(c) THEN ProductBatch[b]
                   ELSE [ProductBatch[b] EXCEPT
                     !.quantityTotal = IF b = first THEN quantity ELSE 0,
                     !.quantityLeft = IF b = first THEN quantity - ReadSold(c) ELSE 0]]
         \/ /\ txn[c].wasPosted
            /\ Mine(c) = {}
            /\ \E b \in FreeIds : ProductBatch' = Put(ProductBatch, b,
                 [goodsReceiptId |-> g, quantityTotal |-> quantity,
                  quantityLeft |-> quantity])
      /\ receipt' = [receipt EXCEPT ![g].quantity = quantity]
      /\ UNCHANGED <<sale, taken>>

RefuseUpdateReceipt(c) ==
  /\ txn[c].op = "updateReceipt"
  /\ txn[c].pc = "commit"
  /\ txn[c].quantity < ReadSold(c)
  /\ Rollback(c)

CommitPost(c) ==
  LET d == txn[c].doc
      B == Mine(c)
  IN  /\ txn[c].op = "post"
      /\ Commit(c)
      /\ \E take \in [B -> 0 .. sale[d].quantity] :
           /\ FifoTake(take, [b \in B |-> txn[c].read[b].quantityLeft],
                       [b \in B |-> txn[c].read[b].goodsReceiptId], B,
                       sale[d].quantity)
           /\ ProductBatch' = [b \in DOMAIN ProductBatch |->
                IF b \in B THEN [ProductBatch[b] EXCEPT !.quantityLeft = @ - take[b]]
                ELSE ProductBatch[b]]
           /\ taken' = [taken EXCEPT ![d] =
                [b \in BatchIds |-> IF b \in B THEN @[b] + take[b] ELSE @[b]]]
      /\ sale' = [sale EXCEPT ![d].status = "POSTED"]
      /\ UNCHANGED receipt

\* INSUFFICIENT_STOCK
RefusePost(c) ==
  /\ txn[c].op = "post"
  /\ txn[c].pc = "commit"
  /\ ReadLeft(c) < sale[txn[c].doc].quantity
  /\ Rollback(c)

\* returnStock adds the quantities it read to the batches that still exist.
CommitUnpost(c) ==
  LET d == txn[c].doc
  IN  /\ txn[c].op = "unpost"
      /\ Commit(c)
      /\ ProductBatch' = [b \in DOMAIN ProductBatch |->
           IF b \in Mine(c)
           THEN [ProductBatch[b] EXCEPT !.quantityLeft = @ + txn[c].links[b]]
           ELSE ProductBatch[b]]
      /\ taken' = [taken EXCEPT ![d] = NoLinks]
      /\ sale' = [sale EXCEPT ![d].status = "DRAFT"]
      /\ UNCHANGED receipt

\* The lines are replaced, and ON DELETE CASCADE the rows of the old ones go.
CommitEdit(c) ==
  LET d == txn[c].doc
  IN  /\ txn[c].op = "edit"
      /\ Commit(c)
      /\ sale' = [sale EXCEPT ![d].quantity = txn[c].quantity]
      /\ taken' = [taken EXCEPT ![d] = NoLinks]
      /\ UNCHANGED <<receipt, ProductBatch>>

-----------------------------------------------------------------------------
(* Failures.                                                               *)

\* A query fails, or the server stops: PostgreSQL rolls back.
Fail(c) == txn[c].pc # "idle" /\ Rollback(c)

\* Every client of a circle waits for another one of it.
InCircle(c) ==
  \E S \in SUBSET Clients :
    /\ c \in S
    /\ \A x \in S : \E y \in S : WaitsFor(x, y)
    /\ \A y \in S : \E x \in S : WaitsFor(x, y)

\* PostgreSQL ends a circle of waiting transactions by failing one of them.
DeadlockDetected(c) == InCircle(c) /\ Rollback(c)

Start(c) ==
  \/ \E g \in GoodsReceipts :
       \/ BeginPostReceipt(c, g)
       \/ BeginUnpostReceipt(c, g)
       \/ \E q \in ReceiptQuantities : BeginUpdateReceipt(c, g, q)
  \/ \E d \in Outbound : BeginPost(c, d) \/ BeginUnpost(c, d)
  \/ \E q \in SaleQuantities :
       \/ \E r \in Realizations : BeginEditRealization(c, r, q)
       \/ \E s \in SupplierReturns : BeginUpdateReturn(c, s, q)

Step(c) ==
  \/ ReadLines(c) \/ LockDocument(c) \/ CheckUnsold(c) \/ SelectBatches(c) \/ LockRow(c)
  \/ RowsLocked(c)
  \/ CommitPostReceipt(c) \/ CommitUnpostReceipt(c)
  \/ CommitUpdateReceipt(c) \/ RefuseUpdateReceipt(c)
  \/ CommitPost(c) \/ RefusePost(c) \/ CommitUnpost(c) \/ CommitEdit(c)

Next == \E c \in Clients : Start(c) \/ Step(c) \/ Fail(c) \/ DeadlockDetected(c)

\* A statement is executed; one that waits for a row gets it in turn (strong
\* fairness: PostgreSQL's wait queues are first come, first served); a circle
\* is noticed (after deadlock_timeout).  Calls need not come, nor queries fail.
Fairness ==
  \A c \in Clients : SF_vars(Step(c)) /\ WF_vars(DeadlockDetected(c))

Spec == Init /\ [][Next]_vars /\ Fairness

-----------------------------------------------------------------------------
(* Properties.                                                             *)

\* Every table holds rows of its type; in particular no batch has a negative
\* quantityLeft, however many clients deduct from it at once.
TypeOK ==
  /\ receipt \in [GoodsReceipts -> ReceiptRow]
  /\ sale \in [Outbound -> SaleRow]
  /\ IsTable(ProductBatch, BatchIds, BatchRow)
  /\ taken \in [Outbound -> [BatchIds -> Nat]]
  /\ DOMAIN txn = Clients /\ \A c \in Clients : IsTxn(txn[c])

\* What the batches of receipt g say was sold of it.
SoldOf(g) == TotalOf(BatchesOf(g)) - LeftOf(BatchesOf(g))

\* A step that leaves the rows of all outgoing documents and the batches of
\* receipt g in place leaves what is sold of g as it is.
KeepsSold(g) ==
  (taken' = taken /\ BatchesOf(g) \subseteq BatchesOf(g)') => SoldOf(g)' = SoldOf(g)

\* Goods are not sold twice behind the back of an edited receipt: update writes
\* absolute quantities computed from an earlier read, and still no sale or
\* return that commits in between is lost or counted twice.
SoldQuantityKept == [][\A g \in GoodsReceipts : KeepsSold(g)]_vars

\* An outgoing document takes its goods once: two clients that post it at the
\* same time do not take them twice, and a document that is not POSTED holds
\* nothing although posting, unposting and editing overlap.
TakesOnce ==
  \A d \in Outbound :
    Total(taken[d], BatchIds) <=
      IF sale[d].status = "POSTED" THEN sale[d].quantity ELSE 0

\* The lines of document d do not change while it is POSTED.
KeepsLines(d) ==
  (sale[d].status = "POSTED" /\ sale'[d].status = "POSTED")
    => sale'[d].quantity = sale[d].quantity

\* A supplier return is never edited while it is POSTED, even by a call that
\* began before it was posted.
PostedReturnKept == [][\A s \in SupplierReturns : KeepsLines(s)]_vars

\* Every call comes back, with a result or an error: clients that wait for
\* each other's rows in a circle do not wait forever.
EveryCallReturns == \A c \in Clients : (txn[c].pc # "idle") ~> (txn[c].pc = "idle")

\* A receipt has one batch per line, hence one: it is not posted twice.
ReceiptPostedOnce == \A g \in GoodsReceipts : Cardinality(BatchesOf(g)) <= 1

\* The batch of a POSTED receipt is what its line says.
PostedReceiptCounted ==
  \A g \in GoodsReceipts :
    receipt[g].status = "POSTED" => TotalOf(BatchesOf(g)) = receipt[g].quantity

\* A POSTED outgoing document holds the goods on its lines.
PostedSaleCovered ==
  \A d \in Outbound :
    sale[d].status = "POSTED" => Total(taken[d], BatchIds) = sale[d].quantity

\* A realization is never edited while it is POSTED.
PostedRealizationKept == [][\A r \in Realizations : KeepsLines(r)]_vars
=============================================================================

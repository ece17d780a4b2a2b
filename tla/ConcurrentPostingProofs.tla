----------------------- MODULE ConcurrentPostingProofs -----------------------
(***************************************************************************)
(* Proofs about overlapping calls on the stock documents, for any number   *)
(* of clients, documents and batches: the row locks the calls take are     *)
(* enough for what is written at COMMIT to agree with what was read.       *)
(***************************************************************************)
EXTENDS ConcurrentPosting, QuantitiesProofs

\* What a call in progress may rely on.
Txns ==
  [op : Ops \cup {"none"},
   pc : {"idle", "check", "lines", "select", "rows", "doc", "commit"},
   doc : GoodsReceipts \cup Outbound \cup {NULL},
   todo : Seq(BatchIds),
   holds : SUBSET (GoodsReceipts \cup Outbound \cup BatchIds),
   quantity : LineQuantities \cup {NULL},
   wasPosted : BOOLEAN,
   links : [BatchIds -> Nat],
   read : UNION {[B -> BatchRow] : B \in SUBSET BatchIds}]

\* The batches a call has locked or is about to lock.
Named(t) == DOMAIN t.read \cup {t.todo[i] : i \in DOMAIN t.todo}

\* A call is about a document of its kind.
Routed(t) ==
  /\ t.pc # "idle" => t.op \in Ops
  /\ t.pc = "check" => t.op = "unpostReceipt"
  /\ t.pc = "lines" => t.op = "postReceipt"
  /\ (t.op = "postReceipt" /\ t.pc # "lines") => t.quantity \in ReceiptQuantities
  /\ t.op \in {"postReceipt", "unpostReceipt", "updateReceipt"} => t.doc \in GoodsReceipts
  /\ t.op = "updateReceipt" => t.quantity \in ReceiptQuantities
  /\ t.op \in {"post", "unpost", "edit"} => t.doc \in Outbound
  /\ t.op = "edit" => t.quantity \in SaleQuantities

\* A call on an outgoing document has the document's row, and with it the status
\* it has checked, from the check to the commit.
DocumentLocked(t) ==
  (t.op \in {"post", "unpost", "edit"} /\ t.pc \in {"select", "rows", "commit"}) =>
    /\ t.doc \in t.holds
    /\ t.op = "post" => sale[t.doc].status = "DRAFT"
    /\ (t.op = "edit" /\ t.doc \in SupplierReturns) => sale[t.doc].status = "DRAFT"

\* The batches a call has read are locked, hence as it read them.
BatchesLocked(t) ==
  \A b \in DOMAIN t.read :
    b \in t.holds /\ b \in DOMAIN ProductBatch /\ t.read[b] = ProductBatch[b]

\* The batches a call on a receipt selects are the receipt's.
OwnBatches(t) ==
  t.op \in {"unpostReceipt", "updateReceipt"} =>
    \A b \in Named(t) : b \in DOMAIN ProductBatch => ProductBatch[b].goodsReceiptId = t.doc

\* What unpost has read of a document's rows without locking them is still so,
\* for every batch that still exists.
LinksCurrent(t) ==
  (t.op = "unpost" /\ t.pc \in {"rows", "commit"}) =>
    \A b \in Named(t) : b \in DOMAIN ProductBatch => t.links[b] = taken[t.doc][b]

CallOK(c) ==
  /\ Routed(txn[c])
  /\ DocumentLocked(txn[c])
  /\ BatchesLocked(txn[c])
  /\ OwnBatches(txn[c])
  /\ LinksCurrent(txn[c])

\* No row is locked by two transactions.
Exclusive ==
  \A c, e \in Clients : c # e => txn[c].holds \cap txn[e].holds = {}

TablesOK ==
  /\ receipt \in [GoodsReceipts -> ReceiptRow]
  /\ sale \in [Outbound -> SaleRow]
  /\ IsTable(ProductBatch, BatchIds, BatchRow)
  /\ taken \in [Outbound -> [BatchIds -> Nat]]

\* The inductive invariant.
Inv ==
  /\ TablesOK
  /\ txn \in [Clients -> Txns]
  /\ Exclusive
  /\ \A c \in Clients : CallOK(c)
  /\ TakesOnce

-----------------------------------------------------------------------------
(* What a step leaves to the other calls.                                  *)

\* A call that has not begun relies on nothing.
LEMMA IdleFits ==
  /\ Idle \in Txns /\ Idle.holds = {} /\ Idle.read = << >> /\ Named(Idle) = {}
  /\ Routed(Idle) /\ DocumentLocked(Idle) /\ BatchesLocked(Idle) /\ OwnBatches(Idle)
  /\ LinksCurrent(Idle)
<1>1. << >> \in UNION {[B -> BatchRow] : B \in SUBSET BatchIds}
  <2>1. << >> \in [{} -> BatchRow] /\ {} \in SUBSET BatchIds
    OBVIOUS
  <2> QED  BY <2>1
<1>2. << >> \in Seq(BatchIds) /\ NoLinks \in [BatchIds -> Nat]
  BY DEF NoLinks
<1>3. Idle \in Txns
  BY <1>1, <1>2 DEF Idle, Txns
<1>4. /\ Idle.op = "none" /\ Idle.pc = "idle" /\ Idle.holds = {} /\ Idle.read = << >>
      /\ Idle.todo = << >>
  BY DEF Idle
<1>5. Named(Idle) = {}
  BY <1>4 DEF Named
<1>6. Routed(Idle) /\ DocumentLocked(Idle) /\ OwnBatches(Idle) /\ LinksCurrent(Idle)
  BY <1>4 DEF Routed, DocumentLocked, OwnBatches, LinksCurrent
<1>7. BatchesLocked(Idle)
  BY <1>4 DEF BatchesLocked
<1> QED  BY <1>3, <1>4, <1>5, <1>6, <1>7

\* The same once the step is done.
LEMMA IdleFitsNext ==
  ASSUME NEW c \in Clients, txn'[c] = Idle
  PROVE  CallOK(c)'
<1>1. /\ Idle.op = "none" /\ Idle.pc = "idle" /\ Idle.read = << >> /\ Idle.todo = << >>
  BY DEF Idle
<1>2. DOMAIN << >> = {}
  OBVIOUS
<1> QED  BY <1>1, <1>2
            DEF CallOK, Routed, DocumentLocked, BatchesLocked, OwnBatches, LinksCurrent, Named

\* A statement that changes no table: the call it belongs to may lock what nobody
\* else has locked.
LEMMA StatementKeeps ==
  ASSUME Inv, NEW c \in Clients, NEW t \in Txns, txn' = [txn EXCEPT ![c] = t],
         UNCHANGED tables,
         \A e \in Clients \ {c} : t.holds \cap txn[e].holds = {},
         Routed(t), DocumentLocked(t), BatchesLocked(t), OwnBatches(t), LinksCurrent(t)
  PROVE  Inv'
<1>1. UNCHANGED <<receipt, sale, ProductBatch, taken>>
  BY DEF tables
<1>2. txn'[c] = t /\ \A e \in Clients \ {c} : txn'[e] = txn[e]
  BY DEF Inv
<1>3. TablesOK' /\ TakesOnce'
  BY <1>1 DEF Inv, TablesOK, TakesOnce
<1>4. txn' \in [Clients -> Txns]
  BY DEF Inv
<1>5. Exclusive'
  <2> SUFFICES ASSUME NEW d \in Clients, NEW e \in Clients, d # e
               PROVE  txn'[d].holds \cap txn'[e].holds = {}
    BY DEF Exclusive
  <2>1. CASE d = c  BY <1>2, <2>1
  <2>2. CASE e = c  BY <1>2, <2>2
  <2>3. CASE d # c /\ e # c  BY <1>2, <2>3 DEF Inv, Exclusive
  <2> QED  BY <2>1, <2>2, <2>3
<1>6. ASSUME NEW e \in Clients  PROVE CallOK(e)'
  <2>1. PICK u : u = txn'[e]
    OBVIOUS
  <2>2. /\ Routed(u) /\ DocumentLocked(u) /\ BatchesLocked(u) /\ OwnBatches(u)
        /\ LinksCurrent(u)
    BY <1>2, <2>1 DEF Inv, CallOK
  <2> QED  BY <1>1, <2>1, <2>2
              DEF CallOK, Routed, DocumentLocked, BatchesLocked, OwnBatches, LinksCurrent, Named
<1> QED  BY <1>3, <1>4, <1>5, <1>6 DEF Inv

\* A COMMIT that writes only rows its transaction has locked, and new rows.
LEMMA CommitKeeps ==
  ASSUME Inv, NEW c \in Clients, txn' = [txn EXCEPT ![c] = Idle],
         TablesOK', TakesOnce',
         \A b \in DOMAIN ProductBatch :
           b \notin Mine(c) => b \in DOMAIN ProductBatch' /\ ProductBatch'[b] = ProductBatch[b],
         \A b \in DOMAIN ProductBatch' :
           \/ b \in FreeIds
           \/ /\ b \in DOMAIN ProductBatch
              /\ ProductBatch'[b].goodsReceiptId = ProductBatch[b].goodsReceiptId,
         \A d \in Outbound : d \notin txn[c].holds =>
           /\ sale'[d].status = sale[d].status
           /\ \A b \in DOMAIN ProductBatch' : b \in FreeIds \/ taken'[d][b] = taken[d][b]
  PROVE  Inv'
<1>1. txn'[c] = Idle /\ \A e \in Clients \ {c} : txn'[e] = txn[e]
  BY DEF Inv
<1>2. txn' \in [Clients -> Txns]
  BY IdleFits DEF Inv
<1>3. Exclusive'
  <2> SUFFICES ASSUME NEW d \in Clients, NEW e \in Clients, d # e
               PROVE  txn'[d].holds \cap txn'[e].holds = {}
    BY DEF Exclusive
  <2>1. CASE d = c  BY <1>1, <2>1, IdleFits
  <2>2. CASE e = c  BY <1>1, <2>2, IdleFits
  <2>3. CASE d # c /\ e # c  BY <1>1, <2>3 DEF Inv, Exclusive
  <2> QED  BY <2>1, <2>2, <2>3
<1>4. ASSUME NEW e \in Clients \ {c}  PROVE CallOK(e)'
  <2>1. PICK u : u = txn[e]
    OBVIOUS
  <2>2. u = txn'[e]
    BY <1>1, <2>1
  <2>3. /\ Routed(u) /\ DocumentLocked(u) /\ BatchesLocked(u) /\ OwnBatches(u)
        /\ LinksCurrent(u)
    BY <2>1 DEF Inv, CallOK
  <2>4. u.holds \cap txn[c].holds = {}
    BY <2>1 DEF Inv, Exclusive
  <2>5. \A b \in Mine(c) : b \in txn[c].holds
    BY DEF Inv, CallOK, BatchesLocked, Mine
  <2>6. \A b \in Named(u) : b \notin FreeIds
    BY <2>1 DEF FreeIds, Named
  <2>7. Routed(u)'
    BY <2>3 DEF Routed
  <2>8. BatchesLocked(u)'
    BY <2>3, <2>4, <2>5 DEF BatchesLocked
  <2>9. OwnBatches(u)'
    BY <2>3, <2>6 DEF OwnBatches, Named
  <2>10. (u.op \in {"post", "unpost", "edit"} /\ u.pc \in {"select", "rows", "commit"}) =>
            u.doc \in Outbound /\ u.doc \in u.holds /\ u.doc \notin txn[c].holds
    BY <2>3, <2>4 DEF Routed, DocumentLocked
  <2>11. DocumentLocked(u)'
    BY <2>3, <2>10 DEF DocumentLocked
  <2>12. LinksCurrent(u)'
    BY <2>3, <2>6, <2>10 DEF LinksCurrent, Named
  <2> QED  BY <2>2, <2>7, <2>8, <2>9, <2>11, <2>12 DEF CallOK
<1>5. CallOK(c)'
  BY <1>1, IdleFitsNext
<1> QED  BY <1>2, <1>3, <1>4, <1>5 DEF Inv

\* A call ends and leaves the tables alone.
LEMMA RollbackKeeps ==
  ASSUME Inv, NEW c \in Clients, Rollback(c)
  PROVE  Inv'
<1>1. \A e \in Clients \ {c} : Idle.holds \cap txn[e].holds = {}
  BY IdleFits
<1> QED  BY <1>1, IdleFits, StatementKeeps DEF Rollback

-----------------------------------------------------------------------------
(* The statements that change no table.                                    *)

\* A call that begins has locked and read nothing.
Fresh(t) == t.holds = {} /\ t.read = << >> /\ t.todo = << >>

\* The record of a call that begins.
LEMMA CallFresh ==
  ASSUME NEW c, NEW op \in Ops, NEW doc \in GoodsReceipts \cup Outbound,
         NEW pc \in {"doc", "check", "lines"}
  PROVE  /\ Call(c, op, doc, pc) \in Txns /\ Fresh(Call(c, op, doc, pc))
         /\ Call(c, op, doc, pc).op = op /\ Call(c, op, doc, pc).doc = doc
         /\ Call(c, op, doc, pc).pc = pc
<1>1. Idle.todo = << >>
  BY DEF Idle
<1> QED  BY <1>1, IdleFits DEF Call, Txns, Fresh

\* A call begins.
LEMMA BeginKeeps ==
  ASSUME Inv, NEW c \in Clients, NEW t \in Txns, Begin(c, t), Fresh(t), Routed(t),
         t.pc \in {"doc", "check", "lines"}
  PROVE  Inv'
<1>1. DocumentLocked(t) /\ LinksCurrent(t) /\ BatchesLocked(t)
  BY DEF DocumentLocked, LinksCurrent, BatchesLocked, Fresh
<1>2. Named(t) = {}
  BY DEF Named, Fresh
<1>3. OwnBatches(t)
  BY <1>2 DEF OwnBatches
<1> QED  BY <1>1, <1>3, StatementKeeps DEF Begin, Fresh

\* Every call starts with an operation on a document of its kind.
LEMMA StartKeeps ==
  ASSUME Inv, NEW c \in Clients, Start(c)
  PROVE  Inv'
<1>1. ASSUME NEW g \in GoodsReceipts, BeginPostReceipt(c, g) \/ BeginUnpostReceipt(c, g)
      PROVE  Inv'
  <2>1. PICK op \in {"postReceipt", "unpostReceipt"}, pc \in {"lines", "check"} :
          /\ Begin(c, Call(c, op, g, pc))
          /\ (pc = "check" => op = "unpostReceipt") /\ (pc = "lines" <=> op = "postReceipt")
    BY <1>1 DEF BeginPostReceipt, BeginUnpostReceipt
  <2>2. op \in Ops
    BY DEF Ops
  <2>3. Routed(Call(c, op, g, pc))
    BY <2>1, <2>2, CallFresh DEF Routed
  <2> QED  BY <2>1, <2>2, <2>3, CallFresh, BeginKeeps
<1>2. ASSUME NEW g \in GoodsReceipts, NEW q \in ReceiptQuantities, BeginUpdateReceipt(c, g, q)
      PROVE  Inv'
  <2> DEFINE call == Call(c, "updateReceipt", g, "doc")
             t == [call EXCEPT !.quantity = q, !.wasPosted = receipt[g].status = "POSTED"]
  <2>1. "updateReceipt" \in Ops
    BY DEF Ops
  <2>2. call \in Txns /\ Fresh(call) /\ call.op = "updateReceipt" /\ call.doc = g /\ call.pc = "doc"
    BY <2>1, CallFresh
  <2>3. Begin(c, t)
    BY <1>2 DEF BeginUpdateReceipt
  <2> HIDE DEF call
  <2>4. PICK b \in BOOLEAN : b <=> receipt[g].status = "POSTED"
    OBVIOUS
  <2>5. t = [call EXCEPT !.quantity = q, !.wasPosted = b]
    BY <2>4
  <2>6. q \in LineQuantities
    BY DEF LineQuantities
  <2>7. /\ t \in Txns /\ Fresh(t) /\ t.op = "updateReceipt" /\ t.doc = g /\ t.pc = "doc"
        /\ t.quantity = q
    BY <2>2, <2>5, <2>6 DEF Txns, Fresh
  <2> HIDE DEF t
  <2> QED  BY <2>1, <2>3, <2>7, BeginKeeps DEF Routed
<1>3. ASSUME NEW d \in Outbound, BeginPost(c, d) \/ BeginUnpost(c, d)
      PROVE  Inv'
  <2>1. PICK op \in {"post", "unpost"} : Begin(c, Call(c, op, d, "doc"))
    BY <1>3 DEF BeginPost, BeginUnpost
  <2>2. op \in Ops
    BY DEF Ops
  <2>3. Routed(Call(c, op, d, "doc"))
    BY <2>2, CallFresh DEF Routed
  <2> QED  BY <2>1, <2>2, <2>3, CallFresh, BeginKeeps
<1>4. ASSUME NEW d \in Outbound, NEW q \in SaleQuantities,
             BeginEditRealization(c, d, q) \/ BeginUpdateReturn(c, d, q)
      PROVE  Inv'
  <2> DEFINE call == Call(c, "edit", d, "doc")
             t == [call EXCEPT !.quantity = q]
  <2>1. "edit" \in Ops
    BY DEF Ops
  <2>2. call \in Txns /\ Fresh(call) /\ call.op = "edit" /\ call.doc = d /\ call.pc = "doc"
    BY <2>1, CallFresh
  <2>3. Begin(c, t)
    BY <1>4 DEF BeginEditRealization, BeginUpdateReturn
  <2> HIDE DEF call
  <2>4. q \in LineQuantities
    BY DEF LineQuantities
  <2>5. /\ t \in Txns /\ Fresh(t) /\ t.op = "edit" /\ t.doc = d /\ t.pc = "doc"
        /\ t.quantity = q
    BY <2>2, <2>4 DEF Txns, Fresh
  <2> HIDE DEF t
  <2> QED  BY <2>1, <2>3, <2>5, BeginKeeps DEF Routed
<1> QED  BY <1>1, <1>2, <1>3, <1>4 DEF Start, Outbound

\* What a call in progress is.
LEMMA CallFacts ==
  ASSUME Inv, NEW c \in Clients
  PROVE  /\ txn[c] \in Txns /\ CallOK(c)
         /\ txn[c].pc # "idle" => txn[c].doc \in GoodsReceipts \cup Outbound
<1>1. txn[c] \in Txns /\ CallOK(c)
  BY DEF Inv
<1> QED  BY <1>1 DEF CallOK, Routed, Ops

\* The lines of a receipt are read.
LEMMA ReadLinesKeeps ==
  ASSUME Inv, NEW c \in Clients, ReadLines(c)
  PROVE  Inv'
<1> DEFINE q == receipt[txn[c].doc].quantity
           t == [txn[c] EXCEPT !.pc = "doc", !.quantity = q]
<1>1. txn[c] \in Txns /\ CallOK(c) /\ txn[c].pc = "lines" /\ txn[c].op = "postReceipt"
  BY CallFacts DEF ReadLines, CallOK, Routed
<1>2. txn[c].doc \in GoodsReceipts
  BY <1>1 DEF CallOK, Routed
<1>3. q \in ReceiptQuantities /\ q \in LineQuantities
  BY <1>2 DEF Inv, TablesOK, ReceiptRow, LineQuantities
<1>4. txn' = [txn EXCEPT ![c] = t]
  BY <1>1 DEF ReadLines, Inv
<1> HIDE DEF q
<1>5. /\ t \in Txns /\ t.pc = "doc" /\ t.quantity = q /\ t.op = "postReceipt"
      /\ t.doc = txn[c].doc /\ t.todo = txn[c].todo /\ t.holds = txn[c].holds
      /\ t.read = txn[c].read
  BY <1>1, <1>3 DEF Txns
<1> HIDE DEF t
<1>6. \A e \in Clients \ {c} : t.holds \cap txn[e].holds = {}
  BY <1>5 DEF Inv, Exclusive
<1>7. Routed(t)
  BY <1>2, <1>3, <1>5, Zenon DEF Routed, Ops
<1>8. DocumentLocked(t) /\ LinksCurrent(t)
  BY <1>5 DEF DocumentLocked, LinksCurrent
<1>9. BatchesLocked(t) /\ OwnBatches(t)
  BY <1>1, <1>5 DEF CallOK, BatchesLocked, OwnBatches
<1> QED  BY <1>4, <1>5, <1>6, <1>7, <1>8, <1>9, StatementKeeps DEF ReadLines

\* The document's row is locked and its status checked again.
LEMMA LockDocumentKeeps ==
  ASSUME Inv, NEW c \in Clients, LockDocument(c)
  PROVE  Inv'
<1>1. CASE Refused(c)
  BY <1>1, RollbackKeeps DEF LockDocument
<1>2. CASE ~Refused(c)
  <2> DEFINE t == [txn[c] EXCEPT !.pc = AfterDocument(c), !.holds = @ \cup {txn[c].doc}]
  <2>1. txn[c] \in Txns /\ CallOK(c) /\ txn[c].pc = "doc"
        /\ txn[c].doc \in GoodsReceipts \cup Outbound
    BY CallFacts DEF LockDocument
  <2>2. txn' = [txn EXCEPT ![c] = t] /\ UNCHANGED tables
    BY <1>2 DEF LockDocument
  <2>3. AfterDocument(c) \in {"select", "commit"}
        /\ (AfterDocument(c) = "commit" => txn[c].op # "unpost")
    BY DEF AfterDocument
  <2>4. /\ t \in Txns /\ t.pc = AfterDocument(c) /\ t.holds = txn[c].holds \cup {txn[c].doc}
        /\ t.op = txn[c].op /\ t.doc = txn[c].doc /\ t.quantity = txn[c].quantity
        /\ t.todo = txn[c].todo /\ t.read = txn[c].read /\ t.links = txn[c].links
    BY <2>1, <2>3 DEF Txns
  <2> HIDE DEF t
  <2>5. \A e \in Clients \ {c} : t.holds \cap txn[e].holds = {}
    BY <2>4 DEF LockDocument, Free, Blocks, Inv, Exclusive
  <2>6. Routed(t)
    BY <2>1, <2>3, <2>4 DEF CallOK, Routed
  <2>7. \A d \in Outbound : sale[d].status \in {"DRAFT", "POSTED"}
    BY DEF Inv, TablesOK, SaleRow
  <2>8. DocumentLocked(t)
    BY <1>2, <2>1, <2>4, <2>7 DEF CallOK, Routed, DocumentLocked, Refused
  <2>9. BatchesLocked(t)
    BY <2>1, <2>4 DEF CallOK, BatchesLocked
  <2>10. OwnBatches(t)
    BY <2>1, <2>4 DEF CallOK, OwnBatches, Named
  <2>11. LinksCurrent(t)
    BY <2>3, <2>4 DEF LinksCurrent
  <2> QED  BY <2>2, <2>4, <2>5, <2>6, <2>8, <2>9, <2>10, <2>11, StatementKeeps
<1> QED  BY <1>1, <1>2

\* The check that nothing has been sold of a receipt.
LEMMA CheckUnsoldKeeps ==
  ASSUME Inv, NEW c \in Clients, CheckUnsold(c)
  PROVE  Inv'
<1>1. CASE Rollback(c)
  BY <1>1, RollbackKeeps
<1>2. CASE txn' = [txn EXCEPT ![c].pc = "select"] /\ UNCHANGED tables
  <2> DEFINE t == [txn[c] EXCEPT !.pc = "select"]
  <2>1. txn[c] \in Txns /\ CallOK(c) /\ txn[c].op = "unpostReceipt"
    BY CallFacts DEF CheckUnsold, CallOK, Routed
  <2>2. txn' = [txn EXCEPT ![c] = t] /\ UNCHANGED tables
    BY <1>2
  <2>3. /\ t \in Txns /\ t.pc = "select" /\ t.holds = txn[c].holds
        /\ t.op = txn[c].op /\ t.doc = txn[c].doc /\ t.todo = txn[c].todo /\ t.read = txn[c].read
    BY <2>1 DEF Txns
  <2> HIDE DEF t
  <2>4. \A e \in Clients \ {c} : t.holds \cap txn[e].holds = {}
    BY <2>3 DEF Inv, Exclusive
  <2>5. Routed(t) /\ DocumentLocked(t) /\ LinksCurrent(t)
    BY <2>1, <2>3 DEF CallOK, Routed, Ops, DocumentLocked, LinksCurrent
  <2>6. BatchesLocked(t) /\ OwnBatches(t)
    BY <2>1, <2>3 DEF CallOK, BatchesLocked, OwnBatches, Named
  <2> QED  BY <2>2, <2>3, <2>4, <2>5, <2>6, StatementKeeps
<1> QED  BY <1>1, <1>2 DEF CheckUnsold

\* The batches are selected, and with them what the document took.
LEMMA SelectBatchesKeeps ==
  ASSUME Inv, NEW c \in Clients, SelectBatches(c)
  PROVE  Inv'
<1>1. txn[c] \in Txns /\ CallOK(c) /\ txn[c].pc = "select"
  BY CallFacts DEF SelectBatches
<1>2. PICK s \in [1 .. Cardinality(Selected(c)) -> Selected(c)] :
        txn' = [txn EXCEPT ![c].pc = "rows", ![c].todo = s,
          ![c].links = IF txn[c].op = "unpost" THEN taken[txn[c].doc] ELSE NoLinks]
  BY DEF SelectBatches
<1>3. PICK links : links = IF txn[c].op = "unpost" THEN taken[txn[c].doc] ELSE NoLinks
  OBVIOUS
<1> DEFINE t == [txn[c] EXCEPT !.pc = "rows", !.todo = s, !.links = links]
<1>4. txn' = [txn EXCEPT ![c] = t] /\ UNCHANGED tables
  <2>1. txn' = [txn EXCEPT ![c].pc = "rows", ![c].todo = s, ![c].links = links]
    BY <1>2, <1>3
  <2> QED  BY <2>1 DEF SelectBatches
<1>5. Selected(c) \subseteq BatchIds
  BY DEF Selected, BatchesOf, Inv, TablesOK, IsTable
<1>6. Cardinality(Selected(c)) \in Nat
  BY <1>5, FiniteAssumption, FS_Subset, FS_CardinalityType
<1>7. s \in Seq(BatchIds) /\ \A i \in DOMAIN s : s[i] \in Selected(c)
  BY <1>5, <1>6
<1>8. links \in [BatchIds -> Nat]
  BY <1>1, <1>3 DEF CallOK, Routed, Inv, TablesOK, NoLinks
<1>9. /\ t \in Txns /\ t.pc = "rows" /\ t.todo = s /\ t.links = links
      /\ t.holds = txn[c].holds /\ t.op = txn[c].op /\ t.doc = txn[c].doc
      /\ t.quantity = txn[c].quantity /\ t.read = txn[c].read
  BY <1>1, <1>7, <1>8 DEF Txns
<1> HIDE DEF t
<1>10. \A e \in Clients \ {c} : t.holds \cap txn[e].holds = {}
  BY <1>9 DEF Inv, Exclusive
<1>11. Routed(t)
  BY <1>1, <1>9 DEF CallOK, Routed
<1>12. DocumentLocked(t)
  BY <1>1, <1>9 DEF CallOK, DocumentLocked
<1>13. BatchesLocked(t)
  BY <1>1, <1>9 DEF CallOK, BatchesLocked
<1>14. OwnBatches(t)
  <2> SUFFICES ASSUME t.op \in {"unpostReceipt", "updateReceipt"},
                      NEW b \in Named(t), b \in DOMAIN ProductBatch
               PROVE  ProductBatch[b].goodsReceiptId = t.doc
    BY DEF OwnBatches
  <2>1. CASE b \in Named(txn[c])
    BY <1>1, <1>9, <2>1 DEF CallOK, OwnBatches
  <2>2. CASE b \notin Named(txn[c])
    <3>1. b \in Selected(c)
      BY <1>7, <1>9, <2>2 DEF Named
    <3> QED  BY <1>9, <3>1 DEF Selected, BatchesOf
  <2> QED  BY <2>1, <2>2
<1>15. LinksCurrent(t)
  BY <1>3, <1>9 DEF LinksCurrent
<1> QED  BY <1>4, <1>9, <1>10, <1>11, <1>12, <1>13, <1>14, <1>15, StatementKeeps

\* The next batch is locked and read, or passed by.
LEMMA LockRowKeeps ==
  ASSUME Inv, NEW c \in Clients, LockRow(c)
  PROVE  Inv'
<1>1. txn[c] \in Txns /\ CallOK(c) /\ txn[c].pc = "rows" /\ txn[c].todo # << >>
  BY CallFacts DEF LockRow
<1>2. PICK b : b = Head(txn[c].todo)
  OBVIOUS
<1>3. PICK todo : todo = Tail(txn[c].todo)
  OBVIOUS
<1>4. txn[c].todo \in Seq(BatchIds)
  BY <1>1 DEF Txns
<1>5. /\ todo \in Seq(BatchIds) /\ b \in BatchIds /\ b \in {txn[c].todo[i] : i \in DOMAIN txn[c].todo}
      /\ {todo[i] : i \in DOMAIN todo} \subseteq {txn[c].todo[i] : i \in DOMAIN txn[c].todo}
  BY <1>1, <1>2, <1>3, <1>4
<1>6. CASE StillSelected(c, b)
  <2>1. PICK read : read = Put(txn[c].read, b, ProductBatch[b])
    OBVIOUS
  <2> DEFINE t == [txn[c] EXCEPT !.todo = todo, !.holds = @ \cup {b}, !.read = read]
  <2>2. txn' = [txn EXCEPT ![c] = t] /\ UNCHANGED tables
    BY <1>2, <1>3, <1>6, <2>1 DEF LockRow
  <2>3. b \in DOMAIN ProductBatch /\ ProductBatch[b] \in BatchRow
    BY <1>6 DEF StillSelected, Inv, TablesOK, IsTable
  <2>4. PICK B \in SUBSET BatchIds : txn[c].read \in [B -> BatchRow]
    BY <1>1 DEF Txns
  <2>5. read \in [B \cup {b} -> BatchRow] /\ B \cup {b} \in SUBSET BatchIds
    BY <1>5, <2>1, <2>3, <2>4 DEF Put
  <2>6. read \in UNION {[D -> BatchRow] : D \in SUBSET BatchIds}
    BY <2>5
  <2>7. /\ DOMAIN read = DOMAIN txn[c].read \cup {b} /\ read[b] = ProductBatch[b]
        /\ \A d \in DOMAIN txn[c].read : d # b => read[d] = txn[c].read[d]
    BY <2>1 DEF Put
  <2>8. /\ t \in Txns /\ t.pc = "rows" /\ t.todo = todo /\ t.read = read
        /\ t.holds = txn[c].holds \cup {b} /\ t.op = txn[c].op /\ t.doc = txn[c].doc
        /\ t.quantity = txn[c].quantity /\ t.links = txn[c].links
    BY <1>1, <1>5, <2>6 DEF Txns
  <2> HIDE DEF t
  <2>9. \A e \in Clients \ {c} : t.holds \cap txn[e].holds = {}
    BY <1>2, <2>8 DEF LockRow, Free, Blocks, Inv, Exclusive
  <2>10. Routed(t) /\ DocumentLocked(t)
    BY <1>1, <2>8 DEF CallOK, Routed, DocumentLocked
  <2>11. BatchesLocked(t)
    BY <1>1, <2>3, <2>7, <2>8 DEF CallOK, BatchesLocked
  <2>12. Named(t) \subseteq Named(txn[c])
    BY <1>5, <2>7, <2>8 DEF Named
  <2>13. OwnBatches(t) /\ LinksCurrent(t)
    BY <1>1, <2>8, <2>12 DEF CallOK, OwnBatches, LinksCurrent
  <2> QED  BY <2>2, <2>8, <2>9, <2>10, <2>11, <2>13, StatementKeeps
<1>7. CASE ~StillSelected(c, b)
  <2> DEFINE t == [txn[c] EXCEPT !.todo = todo]
  <2>1. txn' = [txn EXCEPT ![c] = t] /\ UNCHANGED tables
    BY <1>2, <1>3, <1>7 DEF LockRow
  <2>2. /\ t \in Txns /\ t.pc = "rows" /\ t.todo = todo /\ t.read = txn[c].read
        /\ t.holds = txn[c].holds /\ t.op = txn[c].op /\ t.doc = txn[c].doc
        /\ t.quantity = txn[c].quantity /\ t.links = txn[c].links
    BY <1>1, <1>5 DEF Txns
  <2> HIDE DEF t
  <2>3. \A e \in Clients \ {c} : t.holds \cap txn[e].holds = {}
    BY <2>2 DEF Inv, Exclusive
  <2>4. Routed(t) /\ DocumentLocked(t) /\ BatchesLocked(t)
    BY <1>1, <2>2 DEF CallOK, Routed, DocumentLocked, BatchesLocked
  <2>5. Named(t) \subseteq Named(txn[c])
    BY <1>5, <2>2 DEF Named
  <2>6. OwnBatches(t) /\ LinksCurrent(t)
    BY <1>1, <2>2, <2>5 DEF CallOK, OwnBatches, LinksCurrent
  <2> QED  BY <2>1, <2>2, <2>3, <2>4, <2>6, StatementKeeps
<1> QED  BY <1>6, <1>7

\* The last batch has been looked at.
LEMMA RowsLockedKeeps ==
  ASSUME Inv, NEW c \in Clients, RowsLocked(c)
  PROVE  Inv'
<1>1. txn[c] \in Txns /\ CallOK(c) /\ txn[c].pc = "rows"
  BY CallFacts DEF RowsLocked
<1>2. PICK pc : pc = IF txn[c].op = "unpostReceipt" THEN "doc" ELSE "commit"
  OBVIOUS
<1> DEFINE t == [txn[c] EXCEPT !.pc = pc]
<1>3. txn' = [txn EXCEPT ![c] = t] /\ UNCHANGED tables
  BY <1>2 DEF RowsLocked
<1>4. /\ t \in Txns /\ t.pc = pc /\ t.todo = txn[c].todo /\ t.read = txn[c].read
      /\ t.holds = txn[c].holds /\ t.op = txn[c].op /\ t.doc = txn[c].doc
      /\ t.quantity = txn[c].quantity /\ t.links = txn[c].links
  BY <1>1, <1>2 DEF Txns
<1> HIDE DEF t
<1>5. \A e \in Clients \ {c} : t.holds \cap txn[e].holds = {}
  BY <1>4 DEF Inv, Exclusive
<1>6. Routed(t) /\ DocumentLocked(t)
  BY <1>1, <1>2, <1>4 DEF CallOK, Routed, DocumentLocked
<1>7. BatchesLocked(t) /\ OwnBatches(t)
  BY <1>1, <1>4 DEF CallOK, BatchesLocked, OwnBatches, Named
<1>8. LinksCurrent(t)
  BY <1>1, <1>4 DEF CallOK, LinksCurrent, Named
<1> QED  BY <1>3, <1>4, <1>5, <1>6, <1>7, <1>8, StatementKeeps

-----------------------------------------------------------------------------
(* The commits.                                                            *)

\* The sums and sets a commit is about are finite, and what was read is what is there.
LEMMA ReadFacts ==
  ASSUME Inv, NEW c \in Clients
  PROVE  /\ Mine(c) \subseteq BatchIds /\ IsFiniteSet(Mine(c))
         /\ \A b \in Mine(c) : b \in DOMAIN ProductBatch /\ txn[c].read[b] = ProductBatch[b]
         /\ \A b \in DOMAIN ProductBatch :
              /\ b \in BatchIds /\ ProductBatch[b] \in BatchRow
              /\ ProductBatch[b].quantityTotal \in Nat /\ ProductBatch[b].quantityLeft \in Nat
<1>1. \A b \in Mine(c) : b \in DOMAIN ProductBatch /\ txn[c].read[b] = ProductBatch[b]
  BY DEF Inv, CallOK, BatchesLocked, Mine
<1>2. \A b \in DOMAIN ProductBatch :
        /\ b \in BatchIds /\ ProductBatch[b] \in BatchRow
        /\ ProductBatch[b].quantityTotal \in Nat /\ ProductBatch[b].quantityLeft \in Nat
  BY DEF Inv, TablesOK, IsTable, BatchRow
<1>3. Mine(c) \subseteq BatchIds
  BY <1>1, <1>2
<1> QED  BY <1>1, <1>2, <1>3, FiniteAssumption, FS_Subset

\* What an update of a receipt takes to be sold is the difference of two sums.
LEMMA ReadSums ==
  ASSUME Inv, NEW c \in Clients
  PROVE  ReadTotal(c) \in Nat /\ ReadLeft(c) \in Nat /\ ReadSold(c) \in Int
<1>1. \A b \in Mine(c) : /\ txn[c].read[b].quantityTotal \in Nat
                         /\ txn[c].read[b].quantityLeft \in Nat
  BY ReadFacts
<1>2. ReadTotal(c) \in Nat
  <2> DEFINE f == [b \in Mine(c) |-> txn[c].read[b].quantityTotal]
  <2>1. \A b \in Mine(c) : f[b] \in Nat  BY <1>1
  <2> HIDE DEF f
  <2>2. Total(f, Mine(c)) \in Nat  BY <2>1, ReadFacts, TotalNat
  <2> QED  BY <2>2 DEF ReadTotal, f
<1>3. ReadLeft(c) \in Nat
  <2> DEFINE f == [b \in Mine(c) |-> txn[c].read[b].quantityLeft]
  <2>1. \A b \in Mine(c) : f[b] \in Nat  BY <1>1
  <2> HIDE DEF f
  <2>2. Total(f, Mine(c)) \in Nat  BY <2>1, ReadFacts, TotalNat
  <2> QED  BY <2>2 DEF ReadLeft, f
<1> QED  BY <1>2, <1>3 DEF ReadSold

\* The sum of what a document took.
LEMMA TakenNat ==
  ASSUME Inv, NEW d \in Outbound
  PROVE  Total(taken[d], BatchIds) \in Nat /\ \A b \in BatchIds : taken[d][b] \in Nat
<1>1. \A b \in BatchIds : taken[d][b] \in Nat
  BY DEF Inv, TablesOK
<1> QED  BY <1>1, FiniteAssumption, TotalNat

\* A document that is not POSTED holds nothing.
LEMMA DraftHoldsNothing ==
  ASSUME Inv, NEW d \in Outbound, sale[d].status = "DRAFT"
  PROVE  \A b \in BatchIds : taken[d][b] = 0
<1>1. Total(taken[d], BatchIds) <= 0
  BY DEF Inv, TakesOnce
<1>2. \A b \in BatchIds : taken[d][b] <= Total(taken[d], BatchIds)
  BY TakenNat, FiniteAssumption, TotalBounds
<1> QED  BY <1>1, <1>2, TakenNat

\* A new batch gets an id no row and no call in progress names.
LEMMA FreshBatch ==
  ASSUME Inv, NEW b \in FreeIds, NEW row \in BatchRow, ProductBatch' = Put(ProductBatch, b, row)
  PROVE  /\ b \notin DOMAIN ProductBatch /\ IsTable(ProductBatch, BatchIds, BatchRow)'
         /\ DOMAIN ProductBatch' = DOMAIN ProductBatch \cup {b} /\ ProductBatch'[b] = row
         /\ \A x \in DOMAIN ProductBatch : ProductBatch'[x] = ProductBatch[x]
BY DEF Inv, TablesOK, IsTable, FreeIds, Put

\* A receipt is posted: it adds a batch.
LEMMA CommitPostReceiptKeeps ==
  ASSUME Inv, NEW c \in Clients, CommitPostReceipt(c)
  PROVE  Inv'
<1>1. CallOK(c) /\ txn[c].doc \in GoodsReceipts /\ txn' = [txn EXCEPT ![c] = Idle]
  BY CallFacts DEF CommitPostReceipt, Commit, CallOK, Routed
<1>2. txn[c].quantity \in Nat /\ receipt[txn[c].doc] \in ReceiptRow
  BY <1>1, DataAssumption
     DEF Inv, TablesOK, CallOK, Routed, CommitPostReceipt, Commit, LineQuantities
<1>3. PICK b \in FreeIds, row \in BatchRow : ProductBatch' = Put(ProductBatch, b, row)
  BY <1>1, <1>2 DEF CommitPostReceipt, BatchRow
<1>4. receipt' \in [GoodsReceipts -> ReceiptRow]
  BY <1>1, <1>2 DEF CommitPostReceipt, Inv, TablesOK, ReceiptRow
<1>5. TablesOK'
  BY <1>3, <1>4, FreshBatch DEF CommitPostReceipt, Inv, TablesOK
<1>6. TakesOnce'
  BY DEF CommitPostReceipt, Inv, TakesOnce
<1>7. UNCHANGED <<sale, taken>>
  BY DEF CommitPostReceipt
<1>8. /\ DOMAIN ProductBatch' = DOMAIN ProductBatch \cup {b}
      /\ \A x \in DOMAIN ProductBatch : ProductBatch'[x] = ProductBatch[x]
  BY <1>3, FreshBatch
<1> QED  BY <1>1, <1>5, <1>6, <1>7, <1>8, CommitKeeps

\* A receipt is unposted: the batches it has locked go, with the rows that point at them.
LEMMA CommitUnpostReceiptKeeps ==
  ASSUME Inv, NEW c \in Clients, CommitUnpostReceipt(c)
  PROVE  Inv'
<1>1. CallOK(c) /\ txn[c].doc \in GoodsReceipts /\ txn' = [txn EXCEPT ![c] = Idle]
  BY CallFacts DEF CommitUnpostReceipt, Commit, CallOK, Routed
<1>2. /\ DOMAIN ProductBatch' = DOMAIN ProductBatch \ Mine(c)
      /\ \A b \in DOMAIN ProductBatch' : ProductBatch'[b] = ProductBatch[b]
  BY DEF CommitUnpostReceipt, Without
<1>3. receipt' \in [GoodsReceipts -> ReceiptRow]
  BY <1>1 DEF CommitUnpostReceipt, Inv, TablesOK, ReceiptRow
<1>4. /\ taken' \in [Outbound -> [BatchIds -> Nat]]
      /\ \A d \in Outbound, b \in BatchIds :
           taken'[d][b] = IF b \in Mine(c) THEN 0 ELSE taken[d][b]
  BY DEF CommitUnpostReceipt, Inv, TablesOK
<1>5. TablesOK'
  <2>1. IsTable(ProductBatch, BatchIds, BatchRow)'
    BY <1>2 DEF CommitUnpostReceipt, Without, Inv, TablesOK, IsTable
  <2> QED  BY <1>3, <1>4, <2>1 DEF CommitUnpostReceipt, Inv, TablesOK
<1>6. TakesOnce'
  <2> SUFFICES ASSUME NEW d \in Outbound
               PROVE  Total(taken'[d], BatchIds) <=
                        IF sale[d].status = "POSTED" THEN sale[d].quantity ELSE 0
    BY DEF TakesOnce, CommitUnpostReceipt
  <2>1. \A b \in BatchIds :
          taken'[d][b] \in Nat /\ taken[d][b] \in Nat /\ taken'[d][b] <= taken[d][b]
    BY <1>4, TakenNat
  <2>2. Total(taken'[d], BatchIds) <= Total(taken[d], BatchIds)
    BY <2>1, FiniteAssumption, TotalMonotone
  <2>3. Total(taken'[d], BatchIds) \in Nat
    BY <2>1, FiniteAssumption, TotalNat
  <2>4. sale[d].quantity \in Nat
    BY DataAssumption DEF Inv, TablesOK, SaleRow, LineQuantities
  <2> QED  BY <2>2, <2>3, <2>4, TakenNat DEF Inv, TakesOnce
<1>7. \A b \in DOMAIN ProductBatch' : b \in DOMAIN ProductBatch /\ b \in BatchIds
  BY <1>2, ReadFacts
<1>8. \A d \in Outbound, b \in DOMAIN ProductBatch' : taken'[d][b] = taken[d][b]
  BY <1>2, <1>4, <1>7
<1> QED  BY <1>1, <1>2, <1>5, <1>6, <1>7, <1>8, CommitKeeps DEF CommitUnpostReceipt

\* The update of a receipt writes absolute quantities over the batches it has read.
LEMMA CommitUpdateReceiptKeeps ==
  ASSUME Inv, NEW c \in Clients, CommitUpdateReceipt(c)
  PROVE  Inv'
<1>1. /\ CallOK(c) /\ txn[c].doc \in GoodsReceipts /\ txn' = [txn EXCEPT ![c] = Idle]
      /\ txn[c].quantity \in ReceiptQuantities
      /\ UNCHANGED <<sale, taken>>
  BY CallFacts DEF CommitUpdateReceipt, Commit, CallOK, Routed
<1>2. txn[c].quantity \in Nat /\ txn[c].quantity - ReadSold(c) \in Nat
  <2>1. PICK q \in Nat : q = txn[c].quantity
    BY <1>1, DataAssumption DEF LineQuantities
  <2>2. PICK sold \in Int : sold = ReadSold(c)
    BY ReadSums
  <2>3. q >= sold
    BY <2>1, <2>2 DEF CommitUpdateReceipt
  <2>4. q - sold \in Nat
    BY <2>3
  <2> QED  BY <2>1, <2>2, <2>4
<1>3. receipt' \in [GoodsReceipts -> ReceiptRow]
  BY <1>1 DEF CommitUpdateReceipt, Inv, TablesOK, ReceiptRow
<1>4. TakesOnce'
  BY <1>1 DEF Inv, TakesOnce
<1>5. CASE UNCHANGED ProductBatch
  <2>1. TablesOK'
    BY <1>1, <1>3, <1>5 DEF Inv, TablesOK
  <2> QED  BY <1>1, <1>4, <1>5, <2>1, CommitKeeps
<1>6. CASE \E first \in Mine(c) :
             ProductBatch' = [b \in DOMAIN ProductBatch |->
               IF b \notin Mine(c) THEN ProductBatch[b]
               ELSE [ProductBatch[b] EXCEPT
                 !.quantityTotal = IF b = first THEN txn[c].quantity ELSE 0,
                 !.quantityLeft = IF b = first THEN txn[c].quantity - ReadSold(c) ELSE 0]]
  <2>1. PICK first \in Mine(c) :
          ProductBatch' = [b \in DOMAIN ProductBatch |->
            IF b \notin Mine(c) THEN ProductBatch[b]
            ELSE [ProductBatch[b] EXCEPT
              !.quantityTotal = IF b = first THEN txn[c].quantity ELSE 0,
              !.quantityLeft = IF b = first THEN txn[c].quantity - ReadSold(c) ELSE 0]]
    BY <1>6
  <2>2. \A b \in DOMAIN ProductBatch :
          /\ ProductBatch'[b] \in BatchRow
          /\ ProductBatch'[b].goodsReceiptId = ProductBatch[b].goodsReceiptId
          /\ b \notin Mine(c) => ProductBatch'[b] = ProductBatch[b]
    BY <1>2, <2>1, ReadFacts DEF BatchRow
  <2>3. IsTable(ProductBatch, BatchIds, BatchRow)'
    BY <2>1, <2>2 DEF Inv, TablesOK, IsTable
  <2>4. DOMAIN ProductBatch' = DOMAIN ProductBatch
    BY <2>1
  <2>5. TablesOK'
    BY <1>1, <1>3, <2>3 DEF Inv, TablesOK
  <2> QED  BY <1>1, <1>4, <2>2, <2>4, <2>5, CommitKeeps
<1>7. CASE \E b \in FreeIds : ProductBatch' = Put(ProductBatch, b,
             [goodsReceiptId |-> txn[c].doc, quantityTotal |-> txn[c].quantity,
              quantityLeft |-> txn[c].quantity])
  <2>1. PICK b \in FreeIds, row \in BatchRow : ProductBatch' = Put(ProductBatch, b, row)
    BY <1>1, <1>2, <1>7 DEF BatchRow
  <2>2. TablesOK'
    BY <1>1, <1>3, <2>1, FreshBatch DEF Inv, TablesOK
  <2>3. /\ DOMAIN ProductBatch' = DOMAIN ProductBatch \cup {b}
        /\ \A x \in DOMAIN ProductBatch : ProductBatch'[x] = ProductBatch[x]
    BY <2>1, FreshBatch
  <2>4. \A x \in DOMAIN ProductBatch :
          x \notin Mine(c) => x \in DOMAIN ProductBatch' /\ ProductBatch'[x] = ProductBatch[x]
    BY <2>3
  <2>5. \A x \in DOMAIN ProductBatch' :
          \/ x \in FreeIds
          \/ /\ x \in DOMAIN ProductBatch
             /\ ProductBatch'[x].goodsReceiptId = ProductBatch[x].goodsReceiptId
    BY <2>3
  <2> QED  BY <1>1, <1>4, <2>2, <2>4, <2>5, CommitKeeps
<1> QED  BY <1>5, <1>6, <1>7 DEF CommitUpdateReceipt

\* A document is posted: it takes what is on its lines, and took nothing before.
LEMMA CommitPostKeeps ==
  ASSUME Inv, NEW c \in Clients, CommitPost(c)
  PROVE  Inv'
<1> DEFINE d == txn[c].doc
           B == Mine(c)
<1>1. /\ CallOK(c) /\ d \in Outbound /\ d \in txn[c].holds /\ sale[d].status = "DRAFT"
      /\ txn' = [txn EXCEPT ![c] = Idle] /\ UNCHANGED receipt
      /\ sale' = [sale EXCEPT ![d].status = "POSTED"]
  BY CallFacts DEF CommitPost, Commit, CallOK, Routed, DocumentLocked
<1>2. PICK take \in [B -> 0 .. sale[d].quantity] :
        /\ FifoTake(take, [b \in B |-> txn[c].read[b].quantityLeft],
                    [b \in B |-> txn[c].read[b].goodsReceiptId], B, sale[d].quantity)
        /\ ProductBatch' = [b \in DOMAIN ProductBatch |->
             IF b \in B THEN [ProductBatch[b] EXCEPT !.quantityLeft = @ - take[b]]
             ELSE ProductBatch[b]]
        /\ taken' = [taken EXCEPT ![d] =
             [b \in BatchIds |-> IF b \in B THEN @[b] + take[b] ELSE @[b]]]
  BY DEF CommitPost
<1>3. /\ B \subseteq BatchIds /\ IsFiniteSet(B) /\ B \subseteq DOMAIN ProductBatch
      /\ \A b \in B : txn[c].read[b] = ProductBatch[b]
  BY ReadFacts
<1> HIDE DEF d, B
<1>4. sale[d].quantity \in Nat /\ sale[d] \in SaleRow
  BY <1>1, DataAssumption DEF Inv, TablesOK, SaleRow, LineQuantities
<1>q. PICK q \in Nat : q = sale[d].quantity
  BY <1>4
<1>5. \A b \in B : take[b] \in Nat /\ take[b] <= ProductBatch[b].quantityLeft
  BY <1>2, <1>3, <1>4 DEF FifoTake
<1>6. \A b \in DOMAIN ProductBatch :
        /\ ProductBatch'[b] \in BatchRow
        /\ ProductBatch'[b].goodsReceiptId = ProductBatch[b].goodsReceiptId
        /\ b \notin B => ProductBatch'[b] = ProductBatch[b]
  BY <1>2, <1>5, ReadFacts DEF BatchRow
<1>7. /\ taken' \in [Outbound -> [BatchIds -> Nat]]
      /\ \A e \in Outbound \ {d} : taken'[e] = taken[e]
      /\ \A b \in B : taken'[d][b] = take[b]
      /\ \A b \in BatchIds \ B : taken'[d][b] = 0
  <2>1. \A b \in BatchIds : taken[d][b] = 0
    BY <1>1, DraftHoldsNothing
  <2> DEFINE new == [b \in BatchIds |-> IF b \in B THEN taken[d][b] + take[b] ELSE taken[d][b]]
  <2>2. taken' = [taken EXCEPT ![d] = new]
    BY <1>2
  <2>3. new \in [BatchIds -> Nat] /\ \A b \in BatchIds : new[b] = IF b \in B THEN take[b] ELSE 0
    BY <1>5, <2>1
  <2> HIDE DEF new
  <2> QED  BY <1>1, <1>3, <2>2, <2>3 DEF Inv, TablesOK
<1>8. /\ sale' \in [Outbound -> SaleRow]
      /\ \A e \in Outbound \ {d} : sale'[e] = sale[e]
      /\ sale'[d].status = "POSTED" /\ sale'[d].quantity = sale[d].quantity
  BY <1>1, <1>4 DEF Inv, TablesOK, SaleRow
<1>9. DOMAIN ProductBatch' = DOMAIN ProductBatch
  BY <1>2
<1>10. TablesOK'
  <2>1. IsTable(ProductBatch, BatchIds, BatchRow)'
    BY <1>2, <1>6, <1>9 DEF Inv, TablesOK, IsTable
  <2> QED  BY <1>1, <1>7, <1>8, <2>1 DEF Inv, TablesOK
<1>11. Total(taken'[d], BatchIds) = q
  <2> DEFINE f == [b \in B |-> take[b]]
             g == taken'[d]
             C == BatchIds \ B
  <2>1. Total(f, B) = q
    BY <1>2, <1>q DEF FifoTake
  <2>2. IsFiniteSet(C) /\ B \cup C = BatchIds /\ B \cap C = {}
    BY <1>3, FiniteAssumption, FS_Subset
  <2>3. /\ \A b \in B : g[b] = f[b]
        /\ \A b \in C : g[b] = 0
        /\ \A b \in BatchIds : g[b] \in Nat
    BY <1>1, <1>7
  <2> HIDE DEF f, g, C
  <2>4. Total(g, B) = Total(f, B)
    BY <2>3, TotalEqual
  <2>5. Total(g, C) = 0
    BY <2>3, TotalZero
  <2>6. Total(g, B \cup C) = Total(g, B) + Total(g, C)
    BY <1>3, <2>2, <2>3, TotalUnion
  <2>7. Total(g, BatchIds) = Total(g, B) + Total(g, C)
    BY <2>2, <2>6
  <2>8. Total(g, BatchIds) = q
    BY <2>1, <2>4, <2>5, <2>7
  <2> QED  BY <2>8 DEF g
<1>12. TakesOnce'
  <2> SUFFICES ASSUME NEW e \in Outbound
               PROVE  Total(taken'[e], BatchIds) <=
                        IF sale'[e].status = "POSTED" THEN sale'[e].quantity ELSE 0
    BY DEF TakesOnce
  <2>1. CASE e = d  BY <1>8, <1>11, <1>q, <2>1
  <2>2. CASE e # d  BY <1>7, <1>8, <2>2 DEF Inv, TakesOnce
  <2> QED  BY <2>1, <2>2
<1>13. \A b \in DOMAIN ProductBatch :
         b \notin Mine(c) => b \in DOMAIN ProductBatch' /\ ProductBatch'[b] = ProductBatch[b]
  BY <1>6, <1>9 DEF B
<1>14. \A b \in DOMAIN ProductBatch' :
         /\ b \in DOMAIN ProductBatch
         /\ ProductBatch'[b].goodsReceiptId = ProductBatch[b].goodsReceiptId
  BY <1>6, <1>9
<1>15. \A e \in Outbound : e \notin txn[c].holds => sale'[e] = sale[e] /\ taken'[e] = taken[e]
  BY <1>1, <1>7, <1>8
<1> QED  BY <1>1, <1>10, <1>12, <1>13, <1>14, <1>15, CommitKeeps

\* A document that holds nothing keeps TakesOnce, whatever its status and lines.
LEMMA EmptiedTakesOnce ==
  ASSUME Inv, NEW d \in Outbound, taken' = [taken EXCEPT ![d] = NoLinks],
         sale' \in [Outbound -> SaleRow], \A e \in Outbound \ {d} : sale'[e] = sale[e]
  PROVE  TakesOnce' /\ taken' \in [Outbound -> [BatchIds -> Nat]]
<1>1. /\ taken' \in [Outbound -> [BatchIds -> Nat]]
      /\ \A e \in Outbound \ {d} : taken'[e] = taken[e]
      /\ \A b \in BatchIds : taken'[d][b] = 0
  BY DEF Inv, TablesOK, NoLinks
<1>2. Total(taken'[d], BatchIds) = 0
  BY <1>1, TotalZero
<1>3. sale'[d].quantity \in Nat
  BY DataAssumption DEF SaleRow, LineQuantities
<1>4. TakesOnce'
  <2> SUFFICES ASSUME NEW e \in Outbound
               PROVE  Total(taken'[e], BatchIds) <=
                        IF sale'[e].status = "POSTED" THEN sale'[e].quantity ELSE 0
    BY DEF TakesOnce
  <2>1. CASE e = d  BY <1>2, <1>3, <2>1
  <2>2. CASE e # d  BY <1>1, <2>2 DEF Inv, TakesOnce
  <2> QED  BY <2>1, <2>2
<1> QED  BY <1>1, <1>4

\* A document gives back what it took.
LEMMA CommitUnpostKeeps ==
  ASSUME Inv, NEW c \in Clients, CommitUnpost(c)
  PROVE  Inv'
<1>a. PICK d : d = txn[c].doc
  OBVIOUS
<1>1. /\ CallOK(c) /\ d \in Outbound /\ d \in txn[c].holds /\ txn[c] \in Txns
      /\ txn' = [txn EXCEPT ![c] = Idle] /\ UNCHANGED receipt
      /\ sale' = [sale EXCEPT ![d].status = "DRAFT"]
      /\ taken' = [taken EXCEPT ![d] = NoLinks]
  BY <1>a, CallFacts DEF CommitUnpost, Commit, CallOK, Routed, DocumentLocked
<1>2. \A b \in Mine(c) : b \in BatchIds /\ txn[c].links[b] \in Nat
  BY <1>1, ReadFacts DEF Txns
<1>3. ProductBatch' = [b \in DOMAIN ProductBatch |->
        IF b \in Mine(c)
        THEN [ProductBatch[b] EXCEPT !.quantityLeft = @ + txn[c].links[b]]
        ELSE ProductBatch[b]]
  BY DEF CommitUnpost
<1>4. \A b \in DOMAIN ProductBatch :
        /\ ProductBatch'[b] \in BatchRow
        /\ ProductBatch'[b].goodsReceiptId = ProductBatch[b].goodsReceiptId
        /\ b \notin Mine(c) => ProductBatch'[b] = ProductBatch[b]
  BY <1>2, <1>3, ReadFacts DEF BatchRow
<1>5. DOMAIN ProductBatch' = DOMAIN ProductBatch
  BY <1>3
<1>6. sale' \in [Outbound -> SaleRow] /\ \A e \in Outbound \ {d} : sale'[e] = sale[e]
  BY <1>1 DEF Inv, TablesOK, SaleRow
<1>7. TakesOnce' /\ taken' \in [Outbound -> [BatchIds -> Nat]]
  BY <1>1, <1>6, EmptiedTakesOnce
<1>8. TablesOK'
  <2>1. IsTable(ProductBatch, BatchIds, BatchRow)'
    BY <1>3, <1>4, <1>5 DEF Inv, TablesOK, IsTable
  <2> QED  BY <1>1, <1>6, <1>7, <2>1 DEF Inv, TablesOK
<1>9. \A e \in Outbound \ {d} : taken'[e] = taken[e]
  BY <1>1 DEF Inv, TablesOK
<1>10. \A e \in Outbound : e \notin txn[c].holds =>
         /\ sale'[e].status = sale[e].status
         /\ \A b \in DOMAIN ProductBatch' : b \in FreeIds \/ taken'[e][b] = taken[e][b]
  BY <1>1, <1>6, <1>9
<1>11. \A b \in DOMAIN ProductBatch :
         b \notin Mine(c) => b \in DOMAIN ProductBatch' /\ ProductBatch'[b] = ProductBatch[b]
  BY <1>4, <1>5
<1>12. \A b \in DOMAIN ProductBatch' :
         \/ b \in FreeIds
         \/ /\ b \in DOMAIN ProductBatch
            /\ ProductBatch'[b].goodsReceiptId = ProductBatch[b].goodsReceiptId
  BY <1>4, <1>5
<1> QED  BY <1>1, <1>7, <1>8, <1>10, <1>11, <1>12, CommitKeeps

\* The lines of a document are replaced.
LEMMA CommitEditKeeps ==
  ASSUME Inv, NEW c \in Clients, CommitEdit(c)
  PROVE  Inv'
<1>a. PICK d : d = txn[c].doc
  OBVIOUS
<1>1. /\ CallOK(c) /\ d \in Outbound /\ d \in txn[c].holds /\ txn[c].quantity \in SaleQuantities
      /\ txn' = [txn EXCEPT ![c] = Idle] /\ UNCHANGED <<receipt, ProductBatch>>
      /\ sale' = [sale EXCEPT ![d].quantity = txn[c].quantity]
      /\ taken' = [taken EXCEPT ![d] = NoLinks]
  BY <1>a, CallFacts DEF CommitEdit, Commit, CallOK, Routed, DocumentLocked
<1>2. sale' \in [Outbound -> SaleRow] /\ \A e \in Outbound \ {d} : sale'[e] = sale[e]
  BY <1>1 DEF Inv, TablesOK, SaleRow
<1>3. TakesOnce' /\ taken' \in [Outbound -> [BatchIds -> Nat]]
  BY <1>1, <1>2, EmptiedTakesOnce
<1>4. TablesOK'
  BY <1>1, <1>2, <1>3 DEF Inv, TablesOK
<1>5. \A e \in Outbound \ {d} : taken'[e] = taken[e]
  BY <1>1 DEF Inv, TablesOK
<1>6. \A e \in Outbound : e \notin txn[c].holds =>
        /\ sale'[e].status = sale[e].status
        /\ \A b \in DOMAIN ProductBatch' : b \in FreeIds \/ taken'[e][b] = taken[e][b]
  BY <1>1, <1>2, <1>5
<1> QED  BY <1>1, <1>3, <1>4, <1>6, CommitKeeps

-----------------------------------------------------------------------------
(* The invariant holds in every state.                                     *)

\* Initially nobody is in a call and nothing is sold.
LEMMA InitInv == Init => Inv
<1> SUFFICES ASSUME Init PROVE Inv
  OBVIOUS
<1>1. \A c \in Clients : txn[c] = Idle
  BY DEF Init
<1>2. txn \in [Clients -> Txns]
  BY IdleFits DEF Init
<1>3. Exclusive /\ \A c \in Clients : CallOK(c)
  BY <1>1, IdleFits DEF Exclusive, CallOK
<1>4. sale \in [Outbound -> SaleRow] /\ \A d \in Outbound : sale[d].status = "DRAFT"
  BY DEF Init, SaleRow
<1>5. taken \in [Outbound -> [BatchIds -> Nat]]
      /\ \A d \in Outbound, b \in BatchIds : taken[d][b] = 0
  BY DEF Init, NoLinks
<1>6. TakesOnce
  <2> SUFFICES ASSUME NEW d \in Outbound PROVE Total(taken[d], BatchIds) <= 0
    BY <1>4 DEF TakesOnce
  <2>1. Total(taken[d], BatchIds) = 0
    BY <1>5, TotalZero
  <2> QED  BY <2>1
<1>7. IsTable(ProductBatch, BatchIds, BatchRow)
  <2> DEFINE Posted == {g \in GoodsReceipts : receipt[g].status = "POSTED"}
  <2>1. PICK B \in SUBSET BatchIds :
          \E source \in [B -> Posted] : ProductBatch = [b \in B |->
            [goodsReceiptId |-> source[b],
             quantityTotal |-> receipt[source[b]].quantity,
             quantityLeft |-> receipt[source[b]].quantity]]
    BY DEF Init
  <2>4. PICK source \in [B -> Posted] :
          ProductBatch = [b \in B |->
            [goodsReceiptId |-> source[b],
             quantityTotal |-> receipt[source[b]].quantity,
             quantityLeft |-> receipt[source[b]].quantity]]
    BY <2>1
  <2>2. \A g \in GoodsReceipts : receipt[g].quantity \in Nat
    BY DataAssumption DEF Init, ReceiptRow, LineQuantities
  <2>3. \A b \in B : source[b] \in GoodsReceipts /\ receipt[source[b]].quantity \in Nat
    BY <2>2
  <2> QED  BY <2>3, <2>4 DEF IsTable, BatchRow
<1> QED  BY <1>2, <1>3, <1>4, <1>5, <1>6, <1>7 DEF Init, Inv, TablesOK

\* Every step keeps it.
LEMMA NextInv ==
  ASSUME Inv, [Next]_vars
  PROVE  Inv'
<1>1. CASE UNCHANGED vars
  <2>1. UNCHANGED <<receipt, sale, ProductBatch, taken, txn>>
    BY <1>1 DEF vars, tables
  <2>2. TablesOK' /\ TakesOnce' /\ Exclusive'
    BY <2>1 DEF Inv, TablesOK, TakesOnce, Exclusive
  <2>3. \A c \in Clients : CallOK(c)'
    BY <2>1 DEF Inv, CallOK, Routed, DocumentLocked, BatchesLocked, OwnBatches, LinksCurrent,
                Named
  <2> QED  BY <2>1, <2>2, <2>3 DEF Inv
<1>2. ASSUME NEW c \in Clients, Start(c) \/ Fail(c) \/ DeadlockDetected(c)
      PROVE  Inv'
  BY <1>2, StartKeeps, RollbackKeeps DEF Fail, DeadlockDetected
<1>3. ASSUME NEW c \in Clients, Step(c)
      PROVE  Inv'
  BY <1>3, ReadLinesKeeps, LockDocumentKeeps, CheckUnsoldKeeps, SelectBatchesKeeps, LockRowKeeps,
     RowsLockedKeeps, CommitPostReceiptKeeps, CommitUnpostReceiptKeeps,
     CommitUpdateReceiptKeeps, CommitPostKeeps, CommitUnpostKeeps, CommitEditKeeps,
     RollbackKeeps DEF Step, RefuseUpdateReceipt, RefusePost
<1> QED  BY <1>1, <1>2, <1>3 DEF Next

\* So it holds in every state of a behaviour.
LEMMA SpecInv == Spec => []Inv
BY InitInv, NextInv, PTL DEF Spec

-----------------------------------------------------------------------------
\* The tables and the calls in progress keep their types (TypeOK); in particular no
\* batch has a negative quantityLeft, however many clients deduct from it at once.
THEOREM TypeCorrect == Spec => []TypeOK
<1>1. ASSUME Inv PROVE TypeOK
  <2> SUFFICES ASSUME NEW c \in Clients PROVE IsTxn(txn[c])
    BY <1>1 DEF Inv, TablesOK, TypeOK
  <2>1. txn[c] \in Txns
    BY <1>1 DEF Inv
  <2>2. IsTable(txn[c].read, BatchIds, BatchRow)
    BY <2>1 DEF Txns, IsTable
  <2> QED  BY <2>1, <2>2 DEF Txns, IsTxn
<1> QED  BY <1>1, SpecInv, PTL

\* However many clients post, unpost and edit the same documents at once, a document
\* takes its goods once, and one that is not POSTED holds nothing (TakesOnce).
THEOREM GoodsTakenOnce == Spec => []TakesOnce
<1>1. Inv => TakesOnce
  BY DEF Inv
<1> QED  BY <1>1, SpecInv, PTL

-----------------------------------------------------------------------------
(* What a step may never do.                                               *)

\* A supplier return is never edited while it is POSTED, even by a call that began
\* before it was posted (PostedReturnKept).
THEOREM PostedReturnNotEdited == Spec => PostedReturnKept
<1>1. ASSUME Inv, [Next]_vars
      PROVE  [\A s \in SupplierReturns : KeepsLines(s)]_vars
  <2>1. SUFFICES ASSUME NEW s \in SupplierReturns, sale[s].status = "POSTED",
                        sale'[s].status = "POSTED", Next
                 PROVE  sale'[s].quantity = sale[s].quantity
    BY <1>1 DEF KeepsLines
  <2>2. s \in Outbound /\ sale \in [Outbound -> SaleRow]
    BY <1>1 DEF Outbound, Inv, TablesOK
  <2>3. PICK c \in Clients : Start(c) \/ Step(c) \/ Fail(c) \/ DeadlockDetected(c)
    BY <2>1 DEF Next
  <2>4. CASE UNCHANGED sale
    BY <2>4
  <2>5. CASE CommitPost(c) \/ CommitUnpost(c)
    <3>1. PICK st : sale' = [sale EXCEPT ![txn[c].doc].status = st]
      BY <2>5 DEF CommitPost, CommitUnpost
    <3>2. sale[s] \in SaleRow
      BY <2>2
    <3> QED  BY <2>2, <3>1, <3>2 DEF SaleRow
  <2>6. CASE CommitEdit(c)
    <3>1. CallOK(c)
      BY <1>1 DEF Inv
    <3>2. txn[c].doc # s
      BY <2>1, <2>6, <3>1 DEF CommitEdit, Commit, CallOK, DocumentLocked
    <3>3. sale' = [sale EXCEPT ![txn[c].doc].quantity = txn[c].quantity]
      BY <2>6 DEF CommitEdit
    <3> QED  BY <2>2, <3>2, <3>3
  <2>7. UNCHANGED sale \/ CommitPost(c) \/ CommitUnpost(c) \/ CommitEdit(c)
    <3>1. CASE Start(c)
      BY <3>1 DEF Start, BeginPostReceipt, BeginUnpostReceipt, BeginUpdateReceipt, BeginPost,
                  BeginUnpost, BeginEditRealization, BeginUpdateReturn, Begin, tables
    <3>2. CASE Step(c)
      BY <3>2 DEF Step, ReadLines, LockDocument, CheckUnsold, SelectBatches, LockRow,
                  RowsLocked,
                  CommitPostReceipt, CommitUnpostReceipt, CommitUpdateReceipt,
                  RefuseUpdateReceipt, RefusePost, Rollback, tables
    <3>3. CASE Fail(c) \/ DeadlockDetected(c)
      BY <3>3 DEF Fail, DeadlockDetected, Rollback, tables
    <3> QED  BY <2>3, <3>1, <3>2, <3>3
  <2> QED  BY <2>4, <2>5, <2>6, <2>7
<1> QED  BY <1>1, SpecInv, PTL DEF Spec, PostedReturnKept

\* The batches of a receipt are finitely many batches with natural quantities.
LEMMA BatchesFacts ==
  ASSUME Inv, NEW g
  PROVE  /\ BatchesOf(g) \subseteq BatchIds /\ IsFiniteSet(BatchesOf(g))
         /\ \A b \in BatchesOf(g) :
              ProductBatch[b].quantityTotal \in Nat /\ ProductBatch[b].quantityLeft \in Nat
<1>1. BatchesOf(g) \subseteq DOMAIN ProductBatch
  BY DEF BatchesOf
<1>2. \A b \in DOMAIN ProductBatch :
        /\ b \in BatchIds
        /\ ProductBatch[b].quantityTotal \in Nat /\ ProductBatch[b].quantityLeft \in Nat
  BY DEF Inv, TablesOK, IsTable, BatchRow
<1>3. BatchesOf(g) \subseteq BatchIds
  BY <1>1, <1>2
<1> QED  BY <1>1, <1>2, <1>3, FiniteAssumption, FS_Subset

\* The two sums behind what is sold of a set of batches.
Totals(table, B) == Total([b \in B |-> table[b].quantityTotal], B)
Lefts(table, B) == Total([b \in B |-> table[b].quantityLeft], B)

\* They are quantities.
LEMMA SumsNat ==
  ASSUME NEW table, NEW B, IsFiniteSet(B),
         \A b \in B : table[b].quantityTotal \in Nat /\ table[b].quantityLeft \in Nat
  PROVE  Totals(table, B) \in Nat /\ Lefts(table, B) \in Nat
<1> DEFINE f == [b \in B |-> table[b].quantityTotal]
           h == [b \in B |-> table[b].quantityLeft]
<1>1. \A b \in B : f[b] \in Nat /\ h[b] \in Nat
  OBVIOUS
<1> HIDE DEF f, h
<1>2. Total(f, B) \in Nat /\ Total(h, B) \in Nat
  BY <1>1, TotalNat
<1> QED  BY <1>2 DEF Totals, Lefts, f, h

\* They depend on the quantities only.
LEMMA SumsEqual ==
  ASSUME NEW table, NEW other, NEW B,
         \A b \in B : /\ other[b].quantityTotal = table[b].quantityTotal
                      /\ other[b].quantityLeft = table[b].quantityLeft
  PROVE  Totals(other, B) = Totals(table, B) /\ Lefts(other, B) = Lefts(table, B)
<1>1. [b \in B |-> other[b].quantityTotal] = [b \in B |-> table[b].quantityTotal]
  OBVIOUS
<1>2. [b \in B |-> other[b].quantityLeft] = [b \in B |-> table[b].quantityLeft]
  OBVIOUS
<1> QED  BY <1>1, <1>2 DEF Totals, Lefts

\* They add up over disjoint sets of batches.
LEMMA SumsUnion ==
  ASSUME NEW table, NEW B, NEW C, IsFiniteSet(B), IsFiniteSet(C), B \cap C = {},
         \A b \in B \cup C : table[b].quantityTotal \in Nat /\ table[b].quantityLeft \in Nat
  PROVE  /\ Totals(table, B \cup C) = Totals(table, B) + Totals(table, C)
         /\ Lefts(table, B \cup C) = Lefts(table, B) + Lefts(table, C)
<1> DEFINE f == [b \in B \cup C |-> table[b].quantityTotal]
           h == [b \in B \cup C |-> table[b].quantityLeft]
           fB == [b \in B |-> table[b].quantityTotal]
           fC == [b \in C |-> table[b].quantityTotal]
           hB == [b \in B |-> table[b].quantityLeft]
           hC == [b \in C |-> table[b].quantityLeft]
<1>1. /\ \A b \in B \cup C : f[b] \in Nat /\ h[b] \in Nat
      /\ \A b \in B : f[b] = fB[b] /\ h[b] = hB[b]
      /\ \A b \in C : f[b] = fC[b] /\ h[b] = hC[b]
  OBVIOUS
<1> HIDE DEF f, h, fB, fC, hB, hC
<1>2. Total(f, B \cup C) = Total(f, B) + Total(f, C)
      /\ Total(h, B \cup C) = Total(h, B) + Total(h, C)
  BY <1>1, TotalUnion
<1>3. /\ Total(f, B) = Total(fB, B) /\ Total(f, C) = Total(fC, C)
      /\ Total(h, B) = Total(hB, B) /\ Total(h, C) = Total(hC, C)
  BY <1>1, TotalEqual
<1> QED  BY <1>2, <1>3 DEF Totals, Lefts, f, h, fB, fC, hB, hC

\* One batch.
LEMMA SumsSingle ==
  ASSUME NEW table, NEW b, table[b].quantityTotal \in Nat, table[b].quantityLeft \in Nat
  PROVE  /\ Totals(table, {b}) = table[b].quantityTotal
         /\ Lefts(table, {b}) = table[b].quantityLeft
<1> DEFINE f == [x \in {b} |-> table[x].quantityTotal]
           h == [x \in {b} |-> table[x].quantityLeft]
<1>1. f[b] = table[b].quantityTotal /\ h[b] = table[b].quantityLeft
  OBVIOUS
<1> HIDE DEF f, h
<1>2. Total(f, {b}) = f[b] /\ Total(h, {b}) = h[b]
  BY <1>1, TotalSingleton
<1> QED  BY <1>1, <1>2 DEF Totals, Lefts, f, h

\* Batches that were emptied.
LEMMA SumsZero ==
  ASSUME NEW table, NEW B,
         \A b \in B : table[b].quantityTotal = 0 /\ table[b].quantityLeft = 0
  PROVE  Totals(table, B) = 0 /\ Lefts(table, B) = 0
<1>1. \A b \in B : [x \in B |-> table[x].quantityTotal][b] = 0
  OBVIOUS
<1>2. \A b \in B : [x \in B |-> table[x].quantityLeft][b] = 0
  OBVIOUS
<1> QED  BY <1>1, <1>2, TotalZero DEF Totals, Lefts

\* What is sold of a receipt whose batches keep their quantities.
LEMMA SameSold ==
  ASSUME NEW g, BatchesOf(g)' = BatchesOf(g),
         \A b \in BatchesOf(g) :
           /\ ProductBatch'[b].quantityTotal = ProductBatch[b].quantityTotal
           /\ ProductBatch'[b].quantityLeft = ProductBatch[b].quantityLeft
  PROVE  SoldOf(g)' = SoldOf(g)
<1>1. PICK B, old, new : B = BatchesOf(g) /\ old = ProductBatch /\ new = ProductBatch'
  OBVIOUS
<1>2. Totals(new, B) = Totals(old, B) /\ Lefts(new, B) = Lefts(old, B)
  BY <1>1, SumsEqual
<1>3. SoldOf(g) = Totals(old, B) - Lefts(old, B)
  BY <1>1 DEF SoldOf, TotalOf, LeftOf, Totals, Lefts
<1>4. SoldOf(g)' = Totals(new, B) - Lefts(new, B)
  BY <1>1 DEF SoldOf, TotalOf, LeftOf, Totals, Lefts
<1> QED  BY <1>2, <1>3, <1>4

\* A new batch adds nothing that is sold.
LEMMA AddedSold ==
  ASSUME Inv, NEW g, NEW b \in FreeIds, NEW row \in BatchRow,
         row.quantityTotal = row.quantityLeft, ProductBatch' = Put(ProductBatch, b, row)
  PROVE  SoldOf(g)' = SoldOf(g)
<1>1. /\ b \notin DOMAIN ProductBatch
      /\ DOMAIN ProductBatch' = DOMAIN ProductBatch \cup {b} /\ ProductBatch'[b] = row
      /\ \A x \in DOMAIN ProductBatch : ProductBatch'[x] = ProductBatch[x]
  BY FreshBatch
<1>2. CASE row.goodsReceiptId # g
  <2>1. BatchesOf(g)' = BatchesOf(g)
    BY <1>1, <1>2 DEF BatchesOf
  <2>2. \A x \in BatchesOf(g) : ProductBatch'[x] = ProductBatch[x]
    BY <1>1 DEF BatchesOf
  <2> QED  BY <2>1, <2>2, SameSold
<1>3. CASE row.goodsReceiptId = g
  <2>1. PICK B, old, new : B = BatchesOf(g) /\ old = ProductBatch /\ new = ProductBatch'
    OBVIOUS
  <2>12. PICK D : D = {b}
    OBVIOUS
  <2>2. BatchesOf(g)' = B \cup D /\ b \notin B
    BY <1>1, <1>3, <2>1, <2>12 DEF BatchesOf
  <2>3. /\ IsFiniteSet(B)
        /\ \A x \in B : old[x].quantityTotal \in Nat /\ old[x].quantityLeft \in Nat
    BY <2>1, BatchesFacts
  <2>4. /\ \A x \in B : new[x] = old[x]
        /\ new[b] = row
    BY <1>1, <2>1 DEF BatchesOf
  <2>5. PICK q \in Nat : q = row.quantityTotal /\ q = row.quantityLeft
    BY DEF BatchRow
  <2>6. Totals(new, B) = Totals(old, B) /\ Lefts(new, B) = Lefts(old, B)
    BY <2>4, SumsEqual
  <2>7. Totals(new, D) = q /\ Lefts(new, D) = q
    BY <2>4, <2>5, <2>12, SumsSingle
  <2>8. /\ Totals(new, B \cup D) = Totals(new, B) + Totals(new, D)
        /\ Lefts(new, B \cup D) = Lefts(new, B) + Lefts(new, D)
    <3>1. IsFiniteSet(D) /\ B \cap D = {}
      BY <2>2, <2>12, FS_Singleton
    <3>2. \A x \in B \cup D : new[x].quantityTotal \in Nat /\ new[x].quantityLeft \in Nat
      BY <2>3, <2>4, <2>5, <2>12
    <3> QED  BY <2>3, <3>1, <3>2, SumsUnion
  <2>9. Totals(old, B) \in Nat /\ Lefts(old, B) \in Nat
    BY <2>3, SumsNat
  <2>10. SoldOf(g) = Totals(old, B) - Lefts(old, B)
    BY <2>1 DEF SoldOf, TotalOf, LeftOf, Totals, Lefts
  <2>11. SoldOf(g)' = Totals(new, B \cup D) - Lefts(new, B \cup D)
    BY <2>1, <2>2 DEF SoldOf, TotalOf, LeftOf, Totals, Lefts
  <2> QED  BY <2>6, <2>7, <2>8, <2>9, <2>10, <2>11
<1> QED  BY <1>2, <1>3

\* The sums of a part of the batches and of the rest.
LEMMA SumsSplit ==
  ASSUME NEW table, NEW B, IsFiniteSet(B), NEW C, C \subseteq B, NEW R, R = B \ C,
         \A b \in B : table[b].quantityTotal \in Nat /\ table[b].quantityLeft \in Nat
  PROVE  /\ Totals(table, B) = Totals(table, C) + Totals(table, R)
         /\ Lefts(table, B) = Lefts(table, C) + Lefts(table, R)
<1>1. B = C \cup R /\ C \cap R = {}
  OBVIOUS
<1>2. IsFiniteSet(C) /\ IsFiniteSet(R)
  BY FS_Subset
<1>3. \A b \in C \cup R : table[b].quantityTotal \in Nat /\ table[b].quantityLeft \in Nat
  BY <1>1
<1>4. /\ Totals(table, C \cup R) = Totals(table, C) + Totals(table, R)
      /\ Lefts(table, C \cup R) = Lefts(table, C) + Lefts(table, R)
  BY <1>1, <1>2, <1>3, SumsUnion
<1> QED  BY <1>1, <1>4

\* The update of a receipt computes what is sold of it from the batches it has read:
\* locked since, they still say so, and the new quantities say the same.
LEMMA UpdatedSold ==
  ASSUME Inv, NEW c \in Clients, txn[c].op = "updateReceipt", NEW first \in Mine(c),
         NEW q \in Nat, NEW sold \in Int, sold = ReadSold(c), q >= sold, NEW g,
         DOMAIN ProductBatch' = DOMAIN ProductBatch,
         \A b \in DOMAIN ProductBatch :
           ProductBatch'[b].goodsReceiptId = ProductBatch[b].goodsReceiptId,
         \A b \in DOMAIN ProductBatch \ Mine(c) : ProductBatch'[b] = ProductBatch[b],
         ProductBatch'[first].quantityTotal = q, ProductBatch'[first].quantityLeft = q - sold,
         \A b \in Mine(c) \ {first} :
           ProductBatch'[b].quantityTotal = 0 /\ ProductBatch'[b].quantityLeft = 0
  PROVE  SoldOf(g)' = SoldOf(g)
<1>1. PICK M, old, new, read :
        M = Mine(c) /\ old = ProductBatch /\ new = ProductBatch' /\ read = txn[c].read
  OBVIOUS
<1>2. q - sold \in Nat
  OBVIOUS
<1>3. /\ M \subseteq DOMAIN old /\ IsFiniteSet(M)
      /\ \A b \in M : read[b] = old[b] /\ old[b].goodsReceiptId = txn[c].doc
  BY <1>1, ReadFacts DEF Inv, CallOK, OwnBatches, Named, Mine
<1>4. /\ \A b \in DOMAIN old \ M : new[b] = old[b]
      /\ new[first].quantityTotal = q /\ new[first].quantityLeft = q - sold
      /\ \A b \in M : b # first => new[b].quantityTotal = 0 /\ new[b].quantityLeft = 0
      /\ first \in M
  BY <1>1
<1>5. BatchesOf(g)' = BatchesOf(g)
  BY DEF BatchesOf
<1>6. CASE g # txn[c].doc
  <2>1. \A b \in BatchesOf(g) : ProductBatch'[b] = ProductBatch[b]
    BY <1>1, <1>3, <1>4, <1>6 DEF BatchesOf
  <2> QED  BY <1>5, <2>1, SameSold
<1>7. CASE g = txn[c].doc
  <2>1. PICK B, R, F, Z : B = BatchesOf(g) /\ R = B \ M /\ F = {first} /\ Z = M \ {first}
    OBVIOUS
  <2>2. M \subseteq B
    BY <1>1, <1>3, <1>7, <2>1 DEF BatchesOf
  <2>3. B = M \cup R /\ M \cap R = {} /\ M = F \cup Z /\ F \cap Z = {}
    BY <1>1, <2>1, <2>2
  <2>4. /\ IsFiniteSet(B)
        /\ \A b \in B : old[b].quantityTotal \in Nat /\ old[b].quantityLeft \in Nat
    BY <1>1, <2>1, BatchesFacts
  <2>5. IsFiniteSet(R) /\ IsFiniteSet(F) /\ IsFiniteSet(Z)
    <3>1. R \subseteq B /\ F \subseteq B /\ Z \subseteq B
      BY <2>2, <2>3
    <3> QED  BY <2>4, <3>1, FS_Subset
  <2>6. B \subseteq DOMAIN old
    BY <1>1, <2>1 DEF BatchesOf
  <2>7. \A b \in R : new[b] = old[b]
    BY <1>4, <2>1, <2>6
  <2>8. \A b \in B : new[b].quantityTotal \in Nat /\ new[b].quantityLeft \in Nat
    BY <1>1, <1>2, <1>4, <2>3, <2>4, <2>7
  <2>9. /\ Totals(old, B) = Totals(old, M) + Totals(old, R)
        /\ Lefts(old, B) = Lefts(old, M) + Lefts(old, R)
        /\ Totals(new, B) = Totals(new, M) + Totals(new, R)
        /\ Lefts(new, B) = Lefts(new, M) + Lefts(new, R)
    BY <2>1, <2>2, <2>4, <2>8, SumsSplit
  <2>10. Totals(new, R) = Totals(old, R) /\ Lefts(new, R) = Lefts(old, R)
    BY <2>7, SumsEqual
  <2>11. Totals(new, F) = q /\ Lefts(new, F) = q - sold
    BY <1>2, <1>4, <2>1, SumsSingle
  <2>12. Totals(new, Z) = 0 /\ Lefts(new, Z) = 0
    BY <1>4, <2>1, SumsZero
  <2>13. /\ Totals(new, M) = Totals(new, F) + Totals(new, Z)
         /\ Lefts(new, M) = Lefts(new, F) + Lefts(new, Z)
    <3>1. IsFiniteSet(M) /\ \A b \in M : new[b].quantityTotal \in Nat /\ new[b].quantityLeft \in Nat
      BY <2>2, <2>4, <2>8, FS_Subset
    <3>2. F \subseteq M /\ Z = M \ F
      BY <2>1, <2>3
    <3> QED  BY <3>1, <3>2, SumsSplit
  <2>14. Totals(new, M) = q /\ Lefts(new, M) = q - sold
    BY <1>2, <2>11, <2>12, <2>13
  <2>15. sold = Totals(old, M) - Lefts(old, M)
    <3>1. sold = Totals(read, M) - Lefts(read, M)
      BY <1>1 DEF ReadSold, ReadTotal, ReadLeft, Totals, Lefts
    <3>2. Totals(read, M) = Totals(old, M) /\ Lefts(read, M) = Lefts(old, M)
      BY <1>3, SumsEqual
    <3> QED  BY <3>1, <3>2
  <2>16. /\ Totals(old, M) \in Nat /\ Lefts(old, M) \in Nat
         /\ Totals(old, R) \in Nat /\ Lefts(old, R) \in Nat
    BY <1>3, <2>2, <2>3, <2>4, <2>5, SumsNat
  <2>17. SoldOf(g) = Totals(old, B) - Lefts(old, B)
    BY <1>1, <2>1 DEF SoldOf, TotalOf, LeftOf, Totals, Lefts
  <2>18. SoldOf(g)' = Totals(new, B) - Lefts(new, B)
    BY <1>1, <1>5, <2>1 DEF SoldOf, TotalOf, LeftOf, Totals, Lefts
  <2> QED  BY <2>9, <2>10, <2>14, <2>15, <2>16, <2>17, <2>18
<1> QED  BY <1>6, <1>7

\* Goods are not sold twice behind the back of an edited receipt: a step that leaves
\* the rows of the outgoing documents alone leaves what is sold of a receipt as it
\* is, though update writes quantities computed from an earlier read (SoldQuantityKept).
THEOREM SoldGoodsKept == Spec => SoldQuantityKept
<1>1. ASSUME Inv, [Next]_vars
      PROVE  [\A g \in GoodsReceipts : KeepsSold(g)]_vars
  <2>1. SUFFICES ASSUME NEW g \in GoodsReceipts, taken' = taken,
                        BatchesOf(g) \subseteq BatchesOf(g)', Next
                 PROVE  SoldOf(g)' = SoldOf(g)
    BY <1>1 DEF KeepsSold
  <2>2. PICK c \in Clients : Start(c) \/ Step(c) \/ Fail(c) \/ DeadlockDetected(c)
    BY <2>1 DEF Next
  <2>3. CallOK(c) /\ txn[c] \in Txns
    BY <1>1 DEF Inv
  <2>4. CASE UNCHANGED ProductBatch
    <3>1. BatchesOf(g)' = BatchesOf(g)
      BY <2>4 DEF BatchesOf
    <3> QED  BY <2>4, <3>1, SameSold
  <2>5. CASE CommitPostReceipt(c)
    <3>1. txn[c].doc \in GoodsReceipts
      BY <2>3, <2>5 DEF CommitPostReceipt, CallOK, Routed
    <3>2. txn[c].quantity \in Nat
      BY <2>3, <2>5, DataAssumption
         DEF CommitPostReceipt, Commit, CallOK, Routed, LineQuantities
    <3>3. PICK b \in FreeIds, row \in BatchRow :
            row.quantityTotal = row.quantityLeft /\ ProductBatch' = Put(ProductBatch, b, row)
      BY <2>5, <3>1, <3>2 DEF CommitPostReceipt, BatchRow
    <3> QED  BY <1>1, <3>3, AddedSold
  <2>6. CASE CommitUnpostReceipt(c)
    <3>1. \A b \in BatchesOf(g) : b \notin Mine(c)
      BY <2>1, <2>6 DEF CommitUnpostReceipt, BatchesOf, Without
    <3>2. BatchesOf(g)' = BatchesOf(g) /\ \A b \in BatchesOf(g) : ProductBatch'[b] = ProductBatch[b]
      BY <2>6, <3>1 DEF CommitUnpostReceipt, BatchesOf, Without
    <3> QED  BY <3>2, SameSold
  <2>7. CASE CommitUpdateReceipt(c)
    <3>1. /\ txn[c].op = "updateReceipt" /\ txn[c].quantity >= ReadSold(c)
          /\ txn[c].doc \in GoodsReceipts /\ txn[c].quantity \in Nat
      BY <2>3, <2>7, DataAssumption DEF CommitUpdateReceipt, CallOK, Routed, LineQuantities
    <3>2. CASE \E first \in Mine(c) :
                 ProductBatch' = [b \in DOMAIN ProductBatch |->
                   IF b \notin Mine(c) THEN ProductBatch[b]
                   ELSE [ProductBatch[b] EXCEPT
                     !.quantityTotal = IF b = first THEN txn[c].quantity ELSE 0,
                     !.quantityLeft = IF b = first THEN txn[c].quantity - ReadSold(c) ELSE 0]]
      <4>1. PICK first \in Mine(c) :
              ProductBatch' = [b \in DOMAIN ProductBatch |->
                IF b \notin Mine(c) THEN ProductBatch[b]
                ELSE [ProductBatch[b] EXCEPT
                  !.quantityTotal = IF b = first THEN txn[c].quantity ELSE 0,
                  !.quantityLeft = IF b = first THEN txn[c].quantity - ReadSold(c) ELSE 0]]
        BY <3>2
      <4>2. PICK q \in Nat, sold \in Int : q = txn[c].quantity /\ sold = ReadSold(c)
        BY <1>1, <3>1, ReadSums
      <4>3. /\ DOMAIN ProductBatch' = DOMAIN ProductBatch
            /\ \A b \in DOMAIN ProductBatch :
                 ProductBatch'[b].goodsReceiptId = ProductBatch[b].goodsReceiptId
            /\ \A b \in DOMAIN ProductBatch \ Mine(c) : ProductBatch'[b] = ProductBatch[b]
            /\ ProductBatch'[first].quantityTotal = q
            /\ ProductBatch'[first].quantityLeft = q - sold
            /\ \A b \in Mine(c) \ {first} :
                 ProductBatch'[b].quantityTotal = 0 /\ ProductBatch'[b].quantityLeft = 0
        BY <1>1, <4>1, <4>2, ReadFacts DEF BatchRow
      <4>4. q >= sold
        BY <3>1, <4>2
      <4> QED  BY <1>1, <3>1, <4>2, <4>3, <4>4, UpdatedSold
    <3>3. CASE \E b \in FreeIds : ProductBatch' = Put(ProductBatch, b,
                 [goodsReceiptId |-> txn[c].doc, quantityTotal |-> txn[c].quantity,
                  quantityLeft |-> txn[c].quantity])
      <4>1. PICK b \in FreeIds, row \in BatchRow :
              row.quantityTotal = row.quantityLeft /\ ProductBatch' = Put(ProductBatch, b, row)
        BY <3>1, <3>3 DEF BatchRow
      <4> QED  BY <1>1, <4>1, AddedSold
    <3> QED  BY <2>4, <2>7, <3>2, <3>3 DEF CommitUpdateReceipt
  <2>8. CASE CommitPost(c)
    <3> DEFINE d == txn[c].doc
               B == Mine(c)
    <3>1. d \in Outbound /\ B \subseteq BatchIds
      BY <1>1, <2>3, <2>8, ReadFacts DEF CommitPost, CallOK, Routed
    <3>2. PICK take \in [B -> 0 .. sale[d].quantity] :
            /\ ProductBatch' = [b \in DOMAIN ProductBatch |->
                 IF b \in B THEN [ProductBatch[b] EXCEPT !.quantityLeft = @ - take[b]]
                 ELSE ProductBatch[b]]
            /\ taken' = [taken EXCEPT ![d] =
                 [b \in BatchIds |-> IF b \in B THEN @[b] + take[b] ELSE @[b]]]
      BY <2>8 DEF CommitPost
    <3> HIDE DEF d, B
    <3>3. \A b \in B : take[b] = 0
      <4> SUFFICES ASSUME NEW b \in B PROVE take[b] = 0
        OBVIOUS
      <4>1. taken[d][b] \in Nat /\ taken'[d][b] = taken[d][b]
        BY <1>1, <2>1, <3>1, TakenNat
      <4>2. taken'[d][b] = taken[d][b] + take[b]
        BY <1>1, <3>1, <3>2 DEF Inv, TablesOK
      <4>3. take[b] \in Int
        BY <3>2
      <4> QED  BY <4>1, <4>2, <4>3
    <3>4. /\ DOMAIN ProductBatch' = DOMAIN ProductBatch
          /\ \A b \in DOMAIN ProductBatch :
               /\ ProductBatch'[b].goodsReceiptId = ProductBatch[b].goodsReceiptId
               /\ ProductBatch'[b].quantityTotal = ProductBatch[b].quantityTotal
               /\ ProductBatch'[b].quantityLeft = ProductBatch[b].quantityLeft
      BY <1>1, <3>2, <3>3, ReadFacts DEF BatchRow
    <3> QED  BY <3>4, SameSold DEF BatchesOf
  <2>9. CASE CommitUnpost(c)
    <3> DEFINE d == txn[c].doc
    <3>1. /\ d \in Outbound /\ taken' = [taken EXCEPT ![d] = NoLinks]
          /\ \A b \in Mine(c) : b \in BatchIds /\ b \in DOMAIN ProductBatch
                                 /\ txn[c].links[b] = taken[d][b]
      BY <1>1, <2>3, <2>9, ReadFacts
         DEF CommitUnpost, Commit, CallOK, Routed, LinksCurrent, Named, Mine
    <3>2. ProductBatch' = [b \in DOMAIN ProductBatch |->
            IF b \in Mine(c)
            THEN [ProductBatch[b] EXCEPT !.quantityLeft = @ + txn[c].links[b]]
            ELSE ProductBatch[b]]
      BY <2>9 DEF CommitUnpost
    <3> HIDE DEF d
    <3>3. \A b \in Mine(c) : txn[c].links[b] = 0
      BY <1>1, <2>1, <3>1 DEF NoLinks, Inv, TablesOK
    <3>4. /\ DOMAIN ProductBatch' = DOMAIN ProductBatch
          /\ \A b \in DOMAIN ProductBatch :
               /\ ProductBatch'[b].goodsReceiptId = ProductBatch[b].goodsReceiptId
               /\ ProductBatch'[b].quantityTotal = ProductBatch[b].quantityTotal
               /\ ProductBatch'[b].quantityLeft = ProductBatch[b].quantityLeft
      BY <1>1, <3>2, <3>3, ReadFacts DEF BatchRow
    <3> QED  BY <3>4, SameSold DEF BatchesOf
  <2>10. \/ UNCHANGED ProductBatch \/ CommitPostReceipt(c) \/ CommitUnpostReceipt(c)
         \/ CommitUpdateReceipt(c) \/ CommitPost(c) \/ CommitUnpost(c)
    <3>1. CASE Start(c)
      BY <3>1 DEF Start, BeginPostReceipt, BeginUnpostReceipt, BeginUpdateReceipt, BeginPost,
                  BeginUnpost, BeginEditRealization, BeginUpdateReturn, Begin, tables
    <3>2. CASE Step(c)
      BY <3>2 DEF Step, ReadLines, LockDocument, CheckUnsold, SelectBatches, LockRow,
                  RowsLocked,
                  RefuseUpdateReceipt, RefusePost, CommitEdit, Rollback, tables
    <3>3. CASE Fail(c) \/ DeadlockDetected(c)
      BY <3>3 DEF Fail, DeadlockDetected, Rollback, tables
    <3> QED  BY <2>2, <3>1, <3>2, <3>3
  <2> QED  BY <2>4, <2>5, <2>6, <2>7, <2>8, <2>9, <2>10
<1> QED  BY <1>1, SpecInv, PTL DEF Spec, SoldQuantityKept
=============================================================================

---------------------------- MODULE AtomicPosting ---------------------------
(***************************************************************************)
(* What posting and unposting an outgoing document promise its caller: one *)
(* step that takes the goods of all lines first-in first-out, or refuses   *)
(* and changes nothing; and one step that gives all of them back.  It is   *)
(* the step PostOutbound / UnpostOutbound of module StockLedger, for one   *)
(* document and the batches of its warehouse.                              *)
(***************************************************************************)
EXTENDS Fifo

CONSTANTS Products, Batches

VARIABLES
  productId,      \* columns of the batches that posting never writes
  createdAt,
  lines,          \* the lines of the document, a sequence
  quantityLeft,   \* column quantityLeft of the batches
  held,           \* held[b]: what the document holds of batch b
  status,         \* column status of the document
  reply           \* what the last call answered

given == <<productId, createdAt, lines>>
vars == <<given, quantityLeft, held, status, reply>>

Of(p) == {b \in Batches : productId[b] = p}

\* All lines of a product together: a product may be on several lines.
Needed(p) ==
  LET L == {i \in DOMAIN lines : lines[i].productId = p}
  IN  Total([i \in L |-> lines[i].quantity], L)

InStock(p) == Total([b \in Of(p) |-> quantityLeft[b]], Of(p))

Takes == UNION {0 .. quantityLeft[b] : b \in Batches}

Post ==
  /\ status = "DRAFT"
  /\ \E take \in [Batches -> Takes] :
       /\ \A p \in Products :
            FifoTake(take, quantityLeft, createdAt, Of(p), Needed(p))
       /\ quantityLeft' = [b \in Batches |-> quantityLeft[b] - take[b]]
       /\ held' = take
  /\ status' = "POSTED"
  /\ reply' = "posted"

\* Posting is refused only for want of stock.
Refuse ==
  /\ status = "DRAFT"
  /\ \E p \in Products : InStock(p) < Needed(p)
  /\ reply' = "INSUFFICIENT_STOCK"
  /\ UNCHANGED <<quantityLeft, held, status>>

Unpost ==
  /\ status = "POSTED"
  /\ quantityLeft' = [b \in Batches |-> quantityLeft[b] + held[b]]
  /\ held' = [b \in Batches |-> 0]
  /\ status' = "DRAFT"
  /\ reply' = "unposted"

Next == (Post \/ Refuse \/ Unpost) /\ UNCHANGED given

Init ==
  /\ quantityLeft \in [Batches -> Nat]
  /\ held = [b \in Batches |-> 0]
  /\ status = "DRAFT"
  /\ reply = "none"

Spec == Init /\ [][Next]_vars
=============================================================================

-------------------------------- MODULE Fifo --------------------------------
(***************************************************************************)
(* What InventoryService.deductStock promises: which quantities it may     *)
(* take from the batches of a product.  The ledger (module StockLedger)    *)
(* posts documents by this relation; module PostingLoop shows that the     *)
(* loops of the code take such quantities.                                 *)
(***************************************************************************)
EXTENDS Quantities

\* A batch is touched only when every older one is emptied.  Batches of one
\* date may share the quantity in any way: the ORDER BY leaves their order open
\* and it may differ from line to line of a document.
OldestFirst(take, left, createdAt, B) ==
  \A older, b \in B :
    (createdAt[older] < createdAt[b] /\ take[b] > 0) => take[older] = left[older]

\* take provides the quantity needed on all lines of a product from its batches
\* B; there is no such take when deductStock throws INSUFFICIENT_STOCK.
FifoTake(take, left, createdAt, B, needed) ==
  /\ \A b \in B : take[b] <= left[b]
  /\ Total([b \in B |-> take[b]], B) = needed
  /\ OldestFirst(take, left, createdAt, B)
=============================================================================

--------------------------- MODULE MCStockReports ---------------------------
(* StockReports for TLC: the ids of batches are interchangeable. *)
EXTENDS StockReports, TLC

\* Quantities of incoming lines, of either sign (a cfg has no negative numbers).
MCInQuantities == {-1, 2}

BatchSymmetry == Permutations(BatchIds)
=============================================================================

--------------------------- MODULE MCStockLedger ----------------------------
(***************************************************************************)
(* Small instances of StockLedger for TLC.  The ids of batches are         *)
(* interchangeable: no definition tells one from another.                  *)
(***************************************************************************)
EXTENDS StockLedger, TLC

BatchSymmetry == Permutations(BatchIds)
=============================================================================

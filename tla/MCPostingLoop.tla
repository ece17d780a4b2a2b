--------------------------- MODULE MCPostingLoop ----------------------------
(* PostingLoop for TLC: batches and products are
   interchangeable ids. *)
EXTENDS PostingLoop, TLC

IdSymmetry == Permutations(Batches) \cup Permutations(Products)
=============================================================================

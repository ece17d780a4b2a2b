------------------------ MODULE MCConcurrentPosting -------------------------
(* ConcurrentPosting for TLC: clients and batch ids are interchangeable. *)
EXTENDS ConcurrentPosting, TLC

Symmetry == Permutations(Clients) \cup Permutations(BatchIds)
=============================================================================

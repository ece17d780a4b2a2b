------------------------------ MODULE MCPrices ------------------------------
(* Prices for TLC: one product with two kinds of prices. *)
EXTENDS Prices, TLC

CONSTANTS standard, special

MCPriceTypes == {standard, special}

\* A full list of prices, a list that leaves a type out, and no list.
MCSent == {(standard :> 1 @@ special :> 2), (standard :> 2 @@ special :> NULL), NULL}

\* Drafts of one date, one of which was inserted in that millisecond.
MCDrafts == {Draft(0, standard, [p \in Products |-> 2], 0),
             Draft(0, special, [p \in Products |-> 1], -1)}

Symmetry == Permutations(Clients) \cup Permutations(PriceDocuments)
=============================================================================

------------------------------ MODULE MCRepost ------------------------------
(* Repost for TLC: requests for everything, for one type, for some dates. *)
EXTENDS Repost, TLC

Ask(action, types, from, to) ==
  [action |-> action, types |-> types, from |-> from, to |-> to]

MCOptions == {Ask("REPOST", {}, NULL, NULL), Ask("POST", {}, 2, NULL),
              Ask("UNPOST", {"REALIZATION", "GOODS_RECEIPT"}, NULL, 1)}

\* Price documents move no units: one date for them is enough.  Realizations are
\* alike: which of them has the first date does not matter.
MCInit ==
  /\ Init
  /\ \A d \in PriceDocuments : date[d] = 1
  /\ LET first == CHOOSE r \in Realizations : TRUE
     IN  \A r \in Realizations : date[first] <= date[r]
MCSpec == MCInit /\ [][Next]_vars /\ Fairness
=============================================================================

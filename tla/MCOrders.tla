------------------------------ MODULE MCOrders ------------------------------
(* Orders for TLC: full syncs of one and of two changes, two of which take   *)
(* the orders' locks in opposite order.                                      *)
EXTENDS Orders, TLC

CONSTANTS o1, o2, i1

Change(op, table, id, items) == [op |-> op, table |-> table, id |-> id, items |-> items]

MCOrders == {o1, o2}

MCFullSyncs ==
  {<<Change("INSERT", "Order", o1, i1)>>,
   <<Change("INSERT", NULL, o1, i1), Change("UPDATE", "Order", o2, i1)>>,
   <<Change("UPDATE", NULL, o2, i1), Change("DELETE", "Order", o1, NULL)>>}

\* Order o2 is there, and only full syncs change it.
MCInit == Init /\ order[o2] = i1
MCSpec == MCInit /\ [][Next]_vars /\ Fairness
=============================================================================

----------------------------- MODULE Quantities -----------------------------
(***************************************************************************)
(* Sums of quantities and rows of a database table, the two pieces of data *)
(* the stock modules are built from.                                       *)
(*                                                                         *)
(* A quantity is a natural number: the columns are DECIMAL(10,3), so the   *)
(* unit is a thousandth.  Total is defined by counting units instead of by *)
(* recursion over the set, so that what it computes can be proved with the *)
(* library's theorems about cardinality (module QuantitiesProofs).         *)
(***************************************************************************)
EXTENDS Integers, FiniteSets

\* The units f[x] counts for the x in S: each is a holder and a rank.
Units(f, S) == UNION {{x} \X (1 .. f[x]) : x \in S}

\* The sum of f[x] over the x in S.
Total(f, S) == Cardinality(Units(f, S))

\* The same where f[x] may be negative: what is added less what is subtracted.
Net(f, S) ==
  Total([x \in S |-> IF f[x] > 0 THEN f[x] ELSE 0], S)
    - Total([x \in S |-> IF f[x] < 0 THEN 0 - f[x] ELSE 0], S)

-----------------------------------------------------------------------------
\* A table is a function from the ids of its rows to the rows.
Table(Id, Row) == UNION {[ids -> Row] : ids \in SUBSET Id}

IsTable(table, Id, Row) ==
  DOMAIN table \subseteq Id /\ table \in [DOMAIN table -> Row]

\* INSERT of row under id (or UPDATE of the whole row).
Put(table, id, row) ==
  [i \in DOMAIN table \cup {id} |-> IF i = id THEN row ELSE table[i]]

\* DELETE of the rows whose id is in ids.
Without(table, ids) == [i \in DOMAIN table \ ids |-> table[i]]
=============================================================================

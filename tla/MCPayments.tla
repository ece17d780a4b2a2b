----------------------------- MODULE MCPayments -----------------------------
(* Payments and its reports for TLC: names are interchangeable. *)
EXTENDS FinanceReports, TLC

Symmetry ==
  Permutations(Clients) \cup Permutations(Realizations) \cup Permutations(Transactions)

Somebody == CHOOSE k \in Counterparties : TRUE
Box == CHOOSE b \in Cashboxes : TRUE

Version(amount, date, k) == [amount |-> amount, date |-> date, counterpartyId |-> k]
Pay(type, amount, date, k, b) ==
  [type |-> type, amount |-> amount, date |-> date, cashboxId |-> b,
   counterpartyId |-> k]

\* For the races: an older and a smaller debt, payments that cover one or both.
MCVersions == {Version(1, 1, Somebody), Version(2, 2, Somebody)}
MCRequests == {Pay("INCOME", 2, 1, Somebody, Box), Pay("INCOME", 1, 1, NULL, Box)}

\* For the reports: payments of both types, and from nobody in another cashbox.
ReportVersions == {Version(1, 1, Somebody)} \cup {Version(2, 2, k) : k \in Counterparties}
ReportRequests ==
  {Pay("INCOME", 2, 1, Somebody, Box), Pay("OUTCOME", 1, 2, Somebody, Box)}
    \cup {Pay("OUTCOME", 1, 2, NULL, b) : b \in Cashboxes \ {Box}}
=============================================================================

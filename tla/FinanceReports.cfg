CONSTANTS
  Clients = {c1}
  Counterparties = {k1}
  Cashboxes = {x1, x2}
  Realizations = {r1}
  GoodsReceipts = {g1}
  BuyerReturns = {n1}
  SupplierReturns = {s1}
  Transactions = {t1}
  Dates = {1, 2}
  Versions <- ReportVersions
  Requests <- ReportRequests
  OneCallPerTransaction = TRUE
  NULL = NULL
SPECIFICATION Spec
INVARIANTS PeriodsJoin BalanceIsOpenDebt

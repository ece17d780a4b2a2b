CONSTANTS
  Clients = {c1, c2}
  Counterparties = {k1}
  Cashboxes = {x1}
  Realizations = {r1, r2}
  GoodsReceipts = {}
  BuyerReturns = {}
  SupplierReturns = {}
  Transactions = {t1, t2}
  Dates = {1, 2}
  Versions <- MCVersions
  Requests <- MCRequests
  OneCallPerTransaction = TRUE
  NULL = NULL
SYMMETRY Symmetry
SPECIFICATION Spec
INVARIANTS TypeOK PaidIsAllocated SpentOnce

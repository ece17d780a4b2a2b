CONSTANTS
  Reposters = {p1}
  Clients = {c1}
  GoodsReceipts = {g1}
  BuyerReturns = {n1}
  PriceDocuments = {d1}
  Realizations = {r1, r2}
  SupplierReturns = {s1}
  Dates = {1, 2}
  Options <- MCOptions
  NULL = NULL
SPECIFICATION MCSpec
INVARIANTS TypeOK SoldOnce
PROPERTIES RepostRestores LockReleased

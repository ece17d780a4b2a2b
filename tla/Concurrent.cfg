CONSTANTS
  Clients = {c1, c2}
  GoodsReceipts = {1, 2}
  Realizations = {r1}
  SupplierReturns = {s1}
  BatchIds = {b1, b2}
  ReceiptQuantities = {1}
  SaleQuantities = {1, 2}
  NULL = NULL
SYMMETRY Symmetry
SPECIFICATION Spec
INVARIANTS TypeOK TakesOnce
PROPERTIES SoldQuantityKept PostedReturnKept

CONSTANTS
  Clients = {c1, c2}
  GoodsReceipts = {1}
  Realizations = {}
  SupplierReturns = {s1}
  BatchIds = {b1, b2}
  ReceiptQuantities = {1}
  SaleQuantities = {1}
  NULL = NULL
SPECIFICATION Spec
INVARIANT PostedSaleCovered

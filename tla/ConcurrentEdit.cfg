CONSTANTS
  Clients = {c1, c2}
  GoodsReceipts = {1}
  Realizations = {r1}
  SupplierReturns = {}
  BatchIds = {b1, b2}
  ReceiptQuantities = {1}
  SaleQuantities = {1, 2}
  NULL = NULL
SPECIFICATION Spec
PROPERTY PostedRealizationKept

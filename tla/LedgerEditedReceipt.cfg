CONSTANTS
  Products = {p1}
  Warehouses = {w1}
  Dates = {1}
  GoodsReceipts = {g1}
  BuyerReturns = {}
  Realizations = {r1}
  SupplierReturns = {}
  Orders = {}
  BatchIds = {b1, b2}
  Lines = {1, 2}
  InQuantities = {1, 2}
  OutQuantities = {1, 2}
  NULL = NULL
SPECIFICATION Spec
INVARIANT UnsoldReceiptUnpostable

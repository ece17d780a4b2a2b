CONSTANTS
  Products = {p1}
  Warehouses = {w1}
  Dates = {1}
  GoodsReceipts = {}
  BuyerReturns = {br1}
  Realizations = {r1}
  SupplierReturns = {}
  Orders = {}
  BatchIds = {b1}
  Lines = {1}
  InQuantities = {1}
  OutQuantities = {1}
  NULL = NULL
SPECIFICATION Spec
INVARIANT PostedSaleCovered

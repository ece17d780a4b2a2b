CONSTANTS
  Products = {p1}
  Warehouses = {w1, w2}
  Dates = {1, 2}
  GoodsReceipts = {g1}
  BuyerReturns = {br1}
  Realizations = {}
  SupplierReturns = {sr1}
  Orders = {}
  BatchIds = {b1, b2}
  Lines = {1}
  InQuantities <- MCInQuantities
  OutQuantities = {1, 2}
  NULL = NULL
SYMMETRY BatchSymmetry
SPECIFICATION ReportSpec
INVARIANTS HoldsAtMostItsLines StockConserved BalanceIsStockLeft MovementEndsInBalance

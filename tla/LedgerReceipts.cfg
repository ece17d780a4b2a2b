CONSTANTS
  Products = {p1, p2}
  Warehouses = {w1}
  Dates = {1}
  GoodsReceipts = {g1}
  BuyerReturns = {}
  Realizations = {r1}
  SupplierReturns = {}
  Orders = {o1}
  BatchIds = {b1, b2, b3}
  Lines = {1, 2}
  InQuantities <- MCInQuantities
  OutQuantities = {1, 2}
  NULL = NULL
SYMMETRY BatchSymmetry
SPECIFICATION ReportSpec
INVARIANTS TypeOK StockConserved ReceiptAccounted SalesAreMoved
PROPERTIES SoldStockSurvives

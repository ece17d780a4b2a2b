CONSTANTS
  Products = {p1, p2}
  Batches = {b1, b2, b3}
  Dates = {1, 2}
  MaxLeft = 2
  MaxQuantity = 2
  MaxLines = 2
SYMMETRY IdSymmetry
SPECIFICATION Spec
INVARIANT GoodsMoved
PROPERTY ImplementsAtomic

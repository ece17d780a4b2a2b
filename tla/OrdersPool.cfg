CONSTANTS
  Clients = {c1, c2}
  o1 = o1
  o2 = o2
  i1 = i1
  Orders <- MCOrders
  Lists = {i1}
  PoolSize = 2
  Single = {o1}
  FullSyncs <- MCFullSyncs
  Empty = Empty
  NULL = NULL
SPECIFICATION MCSpec

INVARIANTS PoolSuffices

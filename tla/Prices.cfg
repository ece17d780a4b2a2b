CONSTANTS
  Clients = {c1, c2}
  Products = {p1}
  standard = standard
  special = special
  PriceTypes <- MCPriceTypes
  PriceDocuments = {d1, d2}
  Values = {1, 2}
  Dates = {0, 2}
  Sent <- MCSent
  Drafts <- MCDrafts
  MaxCalls = 3
  NULL = NULL
SPECIFICATION Spec
SYMMETRY Symmetry
CHECK_DEADLOCK FALSE
INVARIANTS TypeOK EveryPriceJournaled

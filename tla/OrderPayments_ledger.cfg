SPECIFICATION PaySpec
CONSTANTS
  Orders = {o1}
  LegacyOrders = {}
  Requests = {}
  Codes = {c1}
  NoCode = NoCode
  NoOrder = NoOrder
  MaxAborts = 1
  Payments = {p1}
  PayRequests = {w1, w2, w3}
  Keys = {k1}
  NoKey = NoKey
  MaxCalls = 3
SYMMETRY PaySymmetry
INVARIANTS
  BooksAreSound
  PayTypeOK
PROPERTIES
  ImplementsLedger
CHECK_DEADLOCK FALSE

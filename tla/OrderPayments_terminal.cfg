SPECIFICATION PaySpec
CONSTANTS
  Orders = {o1}
  LegacyOrders = {}
  Requests = {r1}
  Codes = {c1}
  NoCode = NoCode
  NoOrder = NoOrder
  MaxAborts = 0
  Payments = {p1}
  PayRequests = {w1}
  Keys = {}
  NoKey = NoKey
  MaxCalls = 4
SYMMETRY PaySymmetry
PROPERTIES
  TerminalIsFinal
CHECK_DEADLOCK FALSE

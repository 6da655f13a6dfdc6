SPECIFICATION FairPaySpec
CONSTANTS
  Orders = {o1}
  LegacyOrders = {}
  Requests = {r1}
  Codes = {c1}
  NoCode = NoCode
  NoOrder = NoOrder
  MaxAborts = 0
  Payments = {p1}
  PayRequests = {w1}
  Keys = {}
  NoKey = NoKey
  MaxCalls = 2
PROPERTIES
  RefundIsRecorded
CHECK_DEADLOCK FALSE

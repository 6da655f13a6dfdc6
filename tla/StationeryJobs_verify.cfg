SPECIFICATION JobSpec
CONSTANTS
  Workers = {w1, w2}
  MaxRequests = 4
  MaxAborts = 1
  RzpOrders = {r1, r2}
PROPERTIES
  VerifyMarksSuccess
CHECK_DEADLOCK FALSE

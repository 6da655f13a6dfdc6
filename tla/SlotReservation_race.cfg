SPECIFICATION FairSpec
CONSTANTS
  Workers = {w1, w2}
  NoWorker = NoWorker
  MaxOrders = 3
  LimitedAt = 2
  MaxRequests = 5
  MaxAborts = 1
INVARIANTS
  CountIsSafe
  CountIsRight
  TypeOK
PROPERTIES
  LockIsReleased
CHECK_DEADLOCK FALSE

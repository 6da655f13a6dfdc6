SPECIFICATION Spec
CONSTANTS
  Workers = {w1, w2}
  NoWorker = NoWorker
  MaxOrders = 2
  LimitedAt = 1
  MaxRequests = 4
  MaxAborts = 0
SYMMETRY WorkerSymmetry
INVARIANTS
  CapacityIsEnforced
CHECK_DEADLOCK FALSE

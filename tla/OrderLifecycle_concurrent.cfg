SPECIFICATION FairSpec
CONSTANTS
  Orders = {o1, o2}
  LegacyOrders = {o2}
  Requests = {r1, r2}
  Codes = {c1, c2}
  NoCode = NoCode
  NoOrder = NoOrder
  MaxAborts = 1
INVARIANTS
  TypeOK
  HandedOverOnlyWhenReady
  TimelineAgrees
PROPERTIES
  ReadyIsAnnounced
CHECK_DEADLOCK FALSE

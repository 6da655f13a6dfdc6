SPECIFICATION TrackSpec
CONSTANTS
  Orders = {o1, o2}
  LegacyOrders = {o2}
  Requests = {r1}
  Codes = {c1, c2}
  NoCode = NoCode
  NoOrder = NoOrder
  MaxAborts = 1
  Watched = o1
  MaxViewings = 2
INVARIANTS
  RewardedAtMostOnce
  ViewIsAheadOnly
PROPERTIES
  ImplementsStateMachine
  ViewersHearTheEnd
CHECK_DEADLOCK FALSE

SPECIFICATION PlaceSpec
CONSTANTS
  Workers = {w1, w2}
  MaxRequests = 3
  MaxAborts = 1
  Keys = {k1}
INVARIANTS
  RetryPlacesNoSecondOrder
CHECK_DEADLOCK FALSE

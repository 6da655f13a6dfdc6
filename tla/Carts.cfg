SPECIFICATION CartsSpec
CONSTANTS
  Workers = {w1, w2}
  MaxRequests = 5
  MaxAborts = 1
  Users = {owner, mate}
  Owner = owner
  CartRows = {c1, c2}
  SplitRows = {s1, s2}
  CartQuantities = {1}
  SplitAmounts <- MCSplitAmounts
  Groups = {g1, g2}
  Slots = {t1, t2}
  LockRows = {l1, l2, l3}
  Minutes = {0, 30}
  Items = {"i1", "i2", "i3"}
  Sellers = {"v1", "v2"}
  SellerOf <- MCSellerOf
  Quantities = {1}
  Keys = {k1, k2}
SYMMETRY CartsSymmetry
INVARIANTS
  CartsTypeOK
  CartAddsUp
  GroupIsWhole
  GroupOrderIsCovered
  KeyPlacesOneOrder
PROPERTIES
  OrdersTheCart
  SlotLocksHold
CHECK_DEADLOCK FALSE

SPECIFICATION ServicesSpec
CONSTANTS
  Workers = {w1, w2}
  MaxRequests = 7
  MaxRaces = 4
  MaxAborts = 1
  Accounts = {a1, a2}
  Amounts = {1, 2}
  MinPoints = 1
  Vouchers = {"v1", "v2"}
  FixedOff <- MCFixedOff
  Percent <- MCPercent
  MaxOff <- MCMaxOff
  MinBill <- MCMinBill
  Limits = {1, 2}
  Bills = {a1, a2}
  Price = 6
  RzpOrders = {r1, r2}
  SendLimit = 1
  MaxAttempts = 3
  MaxOtps = 2
  Limit = 2
  Settings = {TRUE, FALSE}
  Default = FALSE
  PrefKeys = {k1, k2}
  Defaulted = {k2}
  MaxPrefs = 2
  Texts = {1, 2}
  Readers = {a1, a2}
  Hours = {15, 16, 17}
  Bonuses = {10}
  Cases = {c1}
  Assignees = {a1, a2}
  Past = {a1, a2}
  Openings = 3
  Window = 2
  Places = 1
  Copied = 2
  Customers = {a1, a2}
  SlotVendor <- MCSlotVendor
  SlotHour <- MCSlotHour
  Capacity <- MCCapacity
  DayHours = {11, 12}
  Pauses = {10, 25}
  OldBooks <- MCOldBooks
  OldFills <- MCOldFills
  TextEnums = TRUE
  Kind <- MCKind
  MaxInsights = 3
SYMMETRY ServicesSymmetry
INVARIANTS
  PointsAddUp
  VoucherBooksAgree
  LoginIsGuarded
  WindowIsSound
  ProfileIsWhole
  ServicesTypeOK
  RzpOrdersAreTraced
  SmsIsHonest
  NoticesAreTexted
  ComplaintsAreHandled
  PolicyIsAudited
  PastOrdersAreHandled
  AdviceHolds
  FiguresHold
  LatestIsInForce
CHECK_DEADLOCK FALSE

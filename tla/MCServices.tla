----------------------------- MODULE MCServices -----------------------------
(***************************************************************************)
(* The services beside the order have no row and no key in common, so one  *)
(* run explores each on its own: part says which of them the requests are  *)
(* for.                                                                    *)
(***************************************************************************)
EXTENDS RewardPoints, RewardPolicy, Vouchers, StationeryJobs, OtpLogin, Notices, RateLimit,
        AdminSettings, UserProfiles, Complaints, PastOrders, UserInsights, TLC

CONSTANTS
  MaxRaces,    \* bound: requests of an execution in which two may overlap
  MaxInsights  \* bound: requests that change the order book

VARIABLE part

Services == {"points", "policy", "vouchers", "jobs", "otp", "notices", "limit", "settings",
             "profiles", "cases", "past", "insights"}

servicesVars == <<pointsRows, policyRows, voucherRows, jobRows, otpKeys, noticeRows, smsVars,
                  limitKeys, settingRows, profileRows, caseRows, pastRows, salesRows, workVars, part>>

ServicesInit ==
  /\ part \in Services
  /\ PointsInit /\ PolicyInit /\ VouchersInit /\ JobInit /\ OtpInit /\ NoticesInit /\ SmsInit
  /\ LimitInit /\ SettingsInit /\ ProfilesInit /\ CasesInit /\ PastInit /\ SalesInit
  /\ WorkInit
  /\ part # "vouchers" => \A v \in Vouchers : voucher[v].limit = CHOOSE n \in Limits : TRUE
  /\ part # "otp" => known
  /\ part # "past" => completed = {}
  /\ part # "insights" => sales = <<>> /\ filled = [s \in Offers |-> 0]
  /\ part \notin {"otp", "notices"} => gateway = [live |-> FALSE, configured |-> {}]
  /\ part = "otp" => "primary" \notin gateway.configured
  /\ ~gateway.live => gateway.configured = {}

\* The rows and keys of the other services.
Untouched ==
  /\ part # "points" => UNCHANGED pointsRows
  /\ part # "policy" => UNCHANGED policyRows
  /\ part # "vouchers" => UNCHANGED voucherRows
  /\ part # "jobs" => UNCHANGED jobRows
  /\ part # "otp" => UNCHANGED otpKeys
  /\ part # "notices" => UNCHANGED noticeRows
  /\ part \notin {"otp", "notices"} => UNCHANGED smsVars
  /\ part # "limit" => UNCHANGED limitKeys
  /\ part # "settings" => UNCHANGED settingRows
  /\ part # "profiles" => UNCHANGED profileRows
  /\ part # "cases" => UNCHANGED caseRows
  /\ part # "past" => UNCHANGED pastRows
  /\ part # "insights" => UNCHANGED salesRows

ServicesNext ==
  /\ UNCHANGED part
  /\ Untouched
  /\ \/ part = "points" /\ PointsNext
     \/ part = "policy" /\ PolicyNext
     \/ part = "vouchers" /\ VouchersNext
     \/ part = "jobs" /\ JobNext
     \/ part = "otp" /\ OtpNext
     \/ part = "notices" /\ NoticesNext
     \/ part = "limit" /\ LimitNext
     \/ part = "settings" /\ SettingsNext
     \/ part = "profiles" /\ ProfilesNext
     \/ part = "cases" /\ CasesNext
     \/ part = "past" /\ PastNext
     \/ part = "insights" /\ SalesNext /\ begun' <= MaxInsights
  /\ begun' <= MaxRaces \/ (part = "otp" /\ ~raced')

ServicesSpec == ServicesInit /\ [][ServicesNext]_servicesVars

\* v1 takes 5 off, v2 half of the total and at most 2.
MCFixedOff == [v \in Vouchers |-> IF v = "v1" THEN 5 ELSE 0]
MCPercent == [v \in Vouchers |-> 50]
MCMaxOff == [v \in Vouchers |-> 2]
MCMinBill == [v \in Vouchers |-> IF v = "v1" THEN 1 ELSE 3]

\* Vendor 1 has two slots, vendor 2 one.  Of the places of the first seven may have
\* been taken without an order, so that an order makes it 80, 90 or 100% full.
MCSlotVendor == <<1, 1, 2>>
MCSlotHour == <<12, 11, 12>>
MCCapacity == <<10, 2, 1>>
MCOldFills == {<<0, 0, 0>>, <<7, 0, 0>>}
MCKind == <<"food", "stationery">>

\* Rows of an earlier version: none, one with the minutes it took, waiting to be
\* picked up or completed, or seven on three days.
OldSale(day, status, minutes) ==
  [user |-> CHOOSE u \in Customers : TRUE, slot |-> 3, status |-> status, day |-> day,
   hour |-> 11, eta |-> 20, actual |-> minutes]
MCOldBooks ==
  {<<>>, <<OldSale(-1, "READY_FOR_PICKUP", 10)>>, <<OldSale(-1, "COMPLETED", 40)>>}
  \cup {[i \in 1 .. 7 |-> OldSale(IF i < 3 THEN i - 3 ELSE 0, "COMPLETED", NoMinutes)]}

\* Accounts, bills, readers, assignees, past orders and customers never meet in one
\* part and have the same two values: a permutation of one set permutes them all.
ServicesSymmetry == Permutations(Workers) \cup Permutations(Accounts)

(* The rows, keys and requests of every service have their types.            *)
ServicesTypeOK ==
  /\ PointsTypeOK /\ PolicyTypeOK /\ VouchersTypeOK /\ JobTypeOK /\ OtpTypeOK /\ NoticesTypeOK
  /\ LimitTypeOK /\ SettingsTypeOK /\ ProfilesTypeOK /\ CasesTypeOK /\ PastTypeOK
  /\ part = "insights" => SalesTypeOK

(* What the parts of the program that look at a slot say of it fits          *)
(* together, in every state of the slots and of the orders: load labels,     *)
(* scores, congestion, ETA, delay, overload and recommendation               *)
(* (core/load_insights.py:6-32, ai_intelligence/utils/scoring.py:11-140,     *)
(* planners/eta_engine.py:18-134, ai_intelligence/service.py:43-82).  The    *)
(* other parts of the run do not touch an order row.                         *)
AdviceHolds == part = "insights" => AdviceIsConsistent

(* The boards of the vendors and of the admin, the plan, the ranking and     *)
(* what is said of students and groups are figures of the same orders and    *)
(* agree, whatever happens to the orders and however much time goes by       *)
(* (orders/order_service.py:297-408, admin/router.py:166-315,                *)
(* planners/demand_planner.py:18-204, learning/usage_patterns.py:48-334,     *)
(* ai_intelligence/service.py:123-204).                                      *)
FiguresHold == part = "insights" => FiguresAgree
=============================================================================

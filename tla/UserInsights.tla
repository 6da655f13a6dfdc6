----------------------------- MODULE UserInsights -----------------------------
(***************************************************************************)
(* What the program says of a student's habits                             *)
(* (ai_intelligence/learning/usage_patterns.py, preference_engine.py,      *)
(* planners/reorder_engine.py, signals.py) and of a group's                *)
(* (ai_intelligence/service.py).  The items of an order and its amount are *)
(* left out.                                                               *)
(***************************************************************************)
EXTENDS VendorInsights

CONSTANT Kind  \* what each vendor sells

ASSUME KindAssumption == Sellers \subseteq DOMAIN Kind

NoHour == -1

\* Orders of thirty days, and the level: one a day, one in two, one in ten.
Frequency(u) ==
  LET n == Cardinality(OfUser(u) \cap Since(30))
  IN IF n >= 30 THEN "high" ELSE IF 2 * n >= 30 THEN "medium"
     ELSE IF 10 * n >= 30 THEN "low" ELSE "rare"

PreferredHours(u) == Leaders(Tally(OfUser(u) \cap Since(30), HourOf), 1)

\* Without the rows that are "cancelled".
Categories(I) == Tally(I \ Having({"cancelled"}), LAMBDA i : Kind[VendorOf(i)])
CategoryPreferences(u) == Categories(OfUser(u) \cap Since(30))
\* Hundredths.
Diversity(u) == Rounded(100 * Min({3, Cardinality(DOMAIN CategoryPreferences(u))}), 3)
PopularCategories == Categories(Since(7))

Loyalty(u) == Tally(OfUser(u) \cap Since(30), VendorOf)
LoyaltyScore(u) ==
  LET orders == Loyalty(u)
  IN IF DOMAIN orders = {} THEN <<0, 1>>
     ELSE <<Max({orders[v] : v \in DOMAIN orders}), Total(orders)>>

SystemPeakHours == Leaders(Tally(Since(7), HourOf), 5)

\* By how much, in tenths of a percent, the completion rate of the last seven days
\* differs from that of the seven before.
Change(v) ==
  LET orders(I) == OfVendor(v) \cap I
      rate(I, default) == Share(orders(I) \cap Having({"completed"}), orders(I), default)
      current == rate(Since(7), <<0, 1>>)
      previous == rate(Since(14) \ Since(7), current)
      change == Rounded(1000 * (current[1] * previous[2] - previous[1] * current[2]),
                        current[2] * previous[2])
  IN Max({change, -change})

\* The five vendors whose rate changed most.
TrendingVendors ==
  Leaders([v \in {VendorOf(i) : i \in Since(14) \ Having({"cancelled"})} |-> Change(v)], 5)

-----------------------------------------------------------------------------
FavouriteVendors(u) == Leaders(Tally(OfUser(u) \cap Since(30), VendorOf), 5)

\* The hour she stated, else one she orders in most, else noon.
TimingHours(u, stated) ==
  IF stated # NoHour THEN {stated}
  ELSE IF OfUser(u) \cap Since(30) = {} THEN {12}
  ELSE UNION PreferredHours(u)

SmartSuggestions(u, preferred) ==
  {r \in {"timing"} : hour - preferred \in -2 .. 2}
  \cup {r \in {"loyalty"} : OfUser(u) \cap Since(30) # {}}
  \cup {r \in {"reorder"} : OfUser(u) \cap Since(7) = {}}

\* generate_reorder_suggestions looks for orders that are "completed".
ReorderBasis(u) == OfUser(u) \cap Since(30) \cap Having({"completed"})
ReorderReminder(u) == ReorderBasis(u) # {}

-----------------------------------------------------------------------------
\* thirty_days_ago is the last midnight.
Participants(group, h) == {u \in group : \E i \in OfUser(u) \cap SinceMidnight : sales[i].hour = h}

Windows(group) == {h \in 0 .. 23 : Cardinality(Participants(group, h)) >= 2}

\* Hundredths.  Half of one is exact here, and a float there.
Confidence(group, h) ==
  Rounded(100 * Cardinality(Participants(group, h)), Cardinality(group))

\* Sorted by confidence, then by participants; of equals the earlier hour first.
WindowsInOrder(group) ==
  InOrder(Windows(group), LAMBDA h, k :
    \/ Confidence(group, h) > Confidence(group, k)
    \/ /\ Confidence(group, h) = Confidence(group, k)
       /\ \/ Cardinality(Participants(group, h)) > Cardinality(Participants(group, k))
          \/ Cardinality(Participants(group, h)) = Cardinality(Participants(group, k)) /\ h < k)

CandidateHours(group) ==
  LET order == WindowsInOrder(group) IN ToSet(SubSeq(order, 1, Min({3, Len(order)})))

\* 0.7 for the hour and 0.3 for the places left; the first slot of the best.
UnifiedSlot(group) ==
  LET candidates == {s \in Offers : SlotHour[s] \in CandidateHours(group)}
      worth(s) ==
        LET max == Max({Capacity[s], 1})
        IN <<7 * Confidence(group, SlotHour[s]) * max + 300 * (Capacity[s] - filled[s]),
             1000 * max>>
      best == {s \in candidates : \A t \in candidates : ~Below(worth(s), worth(t))}
  IN IF best = {} THEN 0 ELSE Min(best)

CoordinationScore(group) ==
  IF Windows(group) = {} THEN 0
  ELSE Min({100, Rounded(11 * Confidence(group, Head(WindowsInOrder(group))), 10)})

-----------------------------------------------------------------------------
\* What one part says of a student another does not deny.  The usage patterns are
\* answered as a whole or not at all.
HabitsAgree ==
  \A u \in Customers :
    LET orders == OfUser(u) \cap Since(30)
    IN /\ TextEnums =>
            /\ Total(CategoryPreferences(u)) = Total(Loyalty(u))
            /\ Diversity(u) > 0 <=> orders # {}
            /\ LoyaltyScore(u)[1] > 0
                 => ~Below(LoyaltyScore(u), <<1, Cardinality(DOMAIN Loyalty(u))>>)
            /\ orders # {} => \A K \in FavouriteVendors(u) :
                                \E v \in K : Loyalty(u)[v] = LoyaltyScore(u)[1]
            /\ Frequency(u) # "rare" => "loyalty" \in SmartSuggestions(u, 12)
       /\ \A h \in TimingHours(u, NoHour) :
            "loyalty" \notin SmartSuggestions(u, h) => "reorder" \in SmartSuggestions(u, h) /\ h = 12

\* What is said of the whole campus is the sum of what is said of its vendors: the
\* categories are those of the week's orders, a list of fewer than five hours
\* counts them all, and a list of fewer than five vendors names all who sold.
CampusAddsUp ==
  TextEnums =>
    LET hours == Tally(Since(7), HourOf)
    IN /\ Total(PopularCategories) = WeekComparison.this
       /\ \A K \in SystemPeakHours :
            Cardinality(K) < 5 => Total([h \in K |-> hours[h]]) = WeekComparison.this
       /\ \A K \in TrendingVendors :
            Cardinality(K) < 5 => {VendorOf(i) : i \in Since(7)} \subseteq K

\* A group is sent to a slot in an hour two of its members order in, and is told
\* how well it is coordinated exactly when there is such an hour, unless the group
\* is so large that the share of two members is rounded to 0.
SuggestionIsShared ==
  TextEnums =>
    LET slot == UnifiedSlot(Customers)
    IN /\ slot # 0 => Cardinality(Participants(Customers, SlotHour[slot])) >= 2
       /\ slot = 0 => \A s \in Offers : SlotHour[s] \notin CandidateHours(Customers)
       /\ CoordinationScore(Customers) > 0 => Windows(Customers) # {}
       /\ Windows(Customers) # {} /\ Cardinality(Customers) < 400
            => CoordinationScore(Customers) > 0
       /\ Windows(Customers) \subseteq DOMAIN HoursOfAllTime

(* The boards of the vendors and of the admin, the plan, the ranking and     *)
(* what is said of students and groups are figures of the same orders and    *)
(* agree, whatever happens to the orders and however much time goes by       *)
(* (orders/order_service.py:297-408, admin/router.py:166-315,                *)
(* planners/demand_planner.py, learning/usage_patterns.py,                   *)
(* ai_intelligence/service.py:123-204).                                      *)
FiguresAgree ==
  BoardsAddUp /\ PlanStandsOnOrders /\ RankingIsSound /\ HabitsAgree /\ CampusAddsUp
  /\ SuggestionIsShared

(* "Generate smart reorder suggestions for a user" (planners/                *)
(* reorder_engine.py:19): who has completed an order in the last thirty days *)
(* is suggested to order again.  Not so: the status is compared with         *)
(* "completed".                                                              *)
CompletedOrdersAreSeen ==
  \A u \in Customers :
    OfUser(u) \cap Since(30) \cap Having({"COMPLETED"}) # {} => ReorderReminder(u)
=============================================================================

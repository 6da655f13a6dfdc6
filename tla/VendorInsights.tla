---------------------------- MODULE VendorInsights ----------------------------
(***************************************************************************)
(* What a vendor and an admin are told: the ranking                        *)
(* (ai_intelligence/planners/vendor_ranker.py), the demand plan            *)
(* (demand_planner.py), the capacity advice (slot_planner.py), the         *)
(* vendor's own analytics (orders/order_service.py) and those of the admin *)
(* (admin/router.py).  Amounts of money are left out.                      *)
(***************************************************************************)
EXTENDS PickupAdvice

\* Terms of the rank: percentages as quotients of 1, half when there is nothing.
Success(v, days) ==
  Share(OfVendor(v) \cap Having({"COMPLETED", "CONFIRMED"}) \cap Since(days),
        OfVendor(v) \cap Since(days), <<1, 2>>)

Satisfaction(v) ==
  LET orders == Tally(OfVendor(v) \cap Since(30), UserOf)
  IN Share({u \in DOMAIN orders : orders[u] > 1}, DOMAIN orders, <<1, 2>>)

Utilisation(v) ==
  LET slots == SlotsOf(v)
      sum == FoldSet(LAMBDA s, q : Plus(<<filled[s], Max({Capacity[s], 1})>>, q), <<0, 1>>, slots)
  IN IF slots = {} THEN <<1, 2>> ELSE <<sum[1], sum[2] * Cardinality(slots)>>

\* In hundredths, rounded.
RankScore(v) ==
  LET Weighed(w, q) == <<w * q[1], q[2]>>
      month == Plus(Weighed(30, CompletionRate(v, 30, <<1, 2>>)), Weighed(25, Success(v, 30)))
      usage == Plus(Weighed(20, Satisfaction(v)), Weighed(15, Utilisation(v)))
      score == Plus(Plus(month, usage), Weighed(10, Success(v, 7)))
  IN (200 * score[1] + score[2]) \div (2 * score[2])

\* The list shows the load of all slots of a vendor together, and so does the
\* list of vendors (vendors/router.py).
LiveLoad(v) ==
  IF SlotsOf(v) = {} THEN "LOW" ELSE LoadLabel(TotalFilled(v), TotalCapacity(v))
LiveExpress(v) == SlotsOf(v) # {} /\ ExpressEligible(TotalFilled(v), TotalCapacity(v))

Ranking ==
  InOrder(Sellers, LAMBDA v, w :
    \/ RankScore(v) > RankScore(w)
    \/ RankScore(v) = RankScore(w) /\ v < w)

RankReason(v) ==
  IF RankScore(v) >= 8000 THEN "excellent" ELSE IF RankScore(v) >= 6000 THEN "good"
  ELSE IF RankScore(v) >= 4000 THEN "average" ELSE "poor"

-----------------------------------------------------------------------------
\* The orders of thirty days by hour and day of the week.
DailyPattern(v) ==
  Tally(OfVendor(v) \cap Since(30), LAMBDA i : <<sales[i].hour, sales[i].day % 7>>)

HourTotals(v) ==
  LET pattern == DailyPattern(v)
  IN [h \in {k[1] : k \in DOMAIN pattern} |->
        Total([k \in {k \in DOMAIN pattern : k[1] = h} |-> pattern[k]])]

PeakHours(v) == Leaders(HourTotals(v), 3)

\* The standard deviation of the orders of a day exceeds 0.7 of their mean.
Volatile(v) ==
  LET daily == Tally(OfVendor(v) \cap Since(30), DayOf)
      n == Cardinality(DOMAIN daily)
      sum == Total(daily)
      squares == MapThenSumSet(LAMBDA d : daily[d] * daily[d], DOMAIN daily)
  IN n >= 2 /\ 100 * (n * squares - sum * sum) > 49 * sum * sum

\* Orders a day, 5% more than in the last thirty days.
ForecastOf(v) ==
  [day \in 1 .. 7 |-> (105 * Cardinality(OfVendor(v) \cap Since(30))) \div (100 * 30)]

PeakDemand(v) ==
  LET pattern == DailyPattern(v) IN Max({0} \cup {pattern[k] : k \in DOMAIN pattern})
OptimalCapacity(v) == (12 * PeakDemand(v)) \div 10
CapacityGap(v) == OptimalCapacity(v) - TotalCapacity(v)

PlanningAdvice(v) ==
  {r \in {"capacity"} : CapacityGap(v) > 0}
  \cup {r \in {"scheduling"} : DOMAIN DailyPattern(v) # {}}
  \cup {r \in {"risk"} : Volatile(v)}

-----------------------------------------------------------------------------
\* Slots of the vendor that any order of the week refers to.
UsedSlots(v) == SlotsOf(v) \cap {sales[i].slot : i \in Since(7)}

\* Hundredths; as text nothing is ever "completed".
SpeedFactor(v) ==
  LET orders == OfVendor(v) \cap Since(7)
      done == orders \cap Having({"completed"})
  IN IF orders = {} THEN 100 ELSE 80 + (40 * Cardinality(done)) \div Cardinality(orders)

RecommendedCapacity(v) ==
  LET slots == UsedSlots(v)
      orders == Total([s \in slots |-> filled[s]])
      advice == IF slots = {} THEN 0
                ELSE (orders * SpeedFactor(v)) \div (100 * Cardinality(slots))
  IN Max({5, Min({advice, 50})})

BusyHours(v) == Leaders(Tally(OfVendor(v) \cap Since(7), HourOf), 3)

\* For the hours the database may answer.
AdjustmentSignals(v, busy) ==
  {<<"peak_hour_detected", hour>> : h \in busy \cap {hour}}
  \cup {<<"underutilized_slot", s>> : s \in {s \in SlotsOf(v) : Underutilised(s)}}
  \cup {<<"slot_duration", 15 + 5>> : i \in {0} \ Having({"completed"})}

-----------------------------------------------------------------------------
\* Mutant: only the canonical final status counts as completed.
VendorBoardOfPicked(v) ==
  LET count(statuses) == Cardinality(OfVendor(v) \cap Having(statuses))
  IN [total |-> Cardinality(OfVendor(v)),
      pending |-> count({"PLACED", "PENDING"}), confirmed |-> count({"CONFIRMED"}),
      ready |-> count({"READY", "READY_FOR_PICKUP"}), completed |-> count({"PICKED"}),
      cancelled |-> count({"CANCELLED"})]

VendorBoard(v) ==
  LET count(statuses) == Cardinality(OfVendor(v) \cap Having(statuses))
  IN [total |-> Cardinality(OfVendor(v)),
      pending |-> count({"PLACED", "PENDING"}), confirmed |-> count({"CONFIRMED"}),
      ready |-> count({"READY", "READY_FOR_PICKUP"}), completed |-> count({"PICKED", "COMPLETED"}),
      cancelled |-> count({"CANCELLED"})]

\* max over the counter answers the first key inserted among the largest.
FirstLeader(I, Key(_)) ==
  LET tally == Tally(I, Key)
      top == {i \in I : \A k \in DOMAIN tally : tally[Key(i)] >= tally[k]}
  IN Key(Min(top))

PeakHour(v) == FirstLeader(OfVendor(v), HourOf)
BusiestDay(v) == FirstLeader(OfVendor(v), LAMBDA i : sales[i].day % 7)

\* The admin's figures.
OrdersByDay == Tally(Since(30), DayOf)
OrderStatusBreakdown == Tally(Rows, StatusOf)
TopVendors == Leaders(Tally(Rows, VendorOf), 10)
HoursOfAllTime == Tally(Rows, HourOf)
WeekComparison ==
  [this |-> Cardinality(Since(7)), last |-> Cardinality(Since(14) \ Since(7))]
FraudRate ==  \* hundredths of a percent
  IF Rows = {} THEN 0 ELSE (10000 * Cardinality(flagged)) \div Len(sales)

-----------------------------------------------------------------------------
\* Every order is counted in one field of its vendor's board, and the boards
\* together are the admin's breakdown, whose top ten, where there are no more
\* vendors, are those who have an order.
BoardsAddUp ==
  /\ \A v \in Sellers :
       LET b == VendorBoard(v)
       IN b.total = b.pending + b.confirmed + b.ready + b.completed + b.cancelled
  /\ Total(OrderStatusBreakdown) = Total([v \in Sellers |-> VendorBoard(v).total])
  /\ Total(HoursOfAllTime) = Len(sales)
  /\ Cardinality(Sellers) <= 10 => TopVendors = {{v \in Sellers : VendorBoard(v).total > 0}}
  /\ WeekComparison.this + WeekComparison.last <= Len(sales)
  /\ WeekComparison.this <= Total(OrdersByDay)
  /\ FraudRate <= 10000

\* The plan stands on the same orders: it forecasts no more than a quarter of a
\* month's, its busiest hours are hours of the board, a vendor told to keep the
\* capacity could have served the busiest hour, and, where the query for its
\* speed is answered, no slot is advised to take more than the largest does.
PlanStandsOnOrders ==
  \A v \in Sellers :
    /\ Total(ForecastOf(v)) <= Cardinality(OfVendor(v) \cap Since(30))
    /\ Total(HourTotals(v)) = Cardinality(OfVendor(v) \cap Since(30))
    /\ CapacityGap(v) <= 0 => PeakDemand(v) <= TotalCapacity(v)
    /\ OfVendor(v) # {} => PeakHour(v) \in DOMAIN HoursOfAllTime
    /\ OfVendor(v) # {} /\ OfVendor(v) \subseteq Since(30)
         => /\ \E K \in PeakHours(v) : PeakHour(v) \in K
            /\ BusiestDay(v) \in {k[2] : k \in DOMAIN DailyPattern(v)}
    /\ Volatile(v) => "scheduling" \in PlanningAdvice(v)
    /\ \A K \in BusyHours(v) :
         /\ K \subseteq DOMAIN HourTotals(v)
         /\ TextEnums =>
              AdjustmentSignals(v, K) \cap {<<"peak_hour_detected", h>> : h \in DayHours \ K} = {}
    /\ TextEnums =>
         RecommendedCapacity(v) <= Max({5} \cup {Capacity[s] : s \in SlotsOf(v)})

\* The ranking is one of all vendors, by scores between 0 and 100, and what it
\* says of the load of a vendor is not what none of its slots says.
RankingIsSound ==
  /\ ToSet(Ranking) = Sellers /\ Len(Ranking) = Cardinality(Sellers)
  /\ \A v \in Sellers :
       /\ RankScore(v) >= 0 /\ RankScore(v) <= 10000
       /\ RankReason(v) = "poor" => RankReason(Ranking[Len(Ranking)]) = "poor"
       /\ \A label \in {"LOW", "HIGH"} :
            SlotsOf(v) # {} /\ (\A s \in SlotsOf(v) : SlotLabel(s) = label)
              => LiveLoad(v) = label
       /\ LiveExpress(v) => \E s \in SlotsOf(v) : s \notin Overloaded

(* "Calculate order success rate" (planners/vendor_ranker.py:129): getting an *)
(* order ready never lowers the rank of its vendor.  Not so: CONFIRMED counts *)
(* as a success, READY and PICKED do not.                                     *)
PreparingPays ==
  [][\A v \in Sellers : VendorBoard(v)'.ready > VendorBoard(v).ready
       => RankScore(v)' >= RankScore(v)]_salesVars
=============================================================================

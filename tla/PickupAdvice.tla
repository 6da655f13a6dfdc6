----------------------------- MODULE PickupAdvice -----------------------------
(***************************************************************************)
(* What the student is told about the slots: the load label                *)
(* (core/load_insights.py), the score, the congestion level and the        *)
(* predicted ETA (ai_intelligence/utils/scoring.py,                        *)
(* ai_intelligence/planners/eta_engine.py), and the recommendations and    *)
(* alerts built from them (ai_intelligence/service.py, signals.py).        *)
(* Quotients are exact here, floating-point there.                         *)
(***************************************************************************)
EXTENDS SalesBook

\* Mutant: exactly half full still counts as a low load.
LoadLabelAtHalf(current, max) ==
  IF max <= 0 \/ 2 * current <= max THEN "LOW"
  ELSE IF 10 * current < 8 * max THEN "MEDIUM"
  ELSE "HIGH"

LoadLabel(current, max) ==
  IF max <= 0 \/ 2 * current < max THEN "LOW"
  ELSE IF 10 * current < 8 * max THEN "MEDIUM"
  ELSE "HIGH"

ExpressEligible(current, max) ==
  /\ max > 0
  /\ max - current >= 2
  /\ LoadLabel(current, max) # "HIGH"

SlotLabel(s) == LoadLabel(filled[s], Capacity[s])

SlotsOf(v) == {s \in Offers : SlotVendor[s] = v}
TotalFilled(v) == Total([s \in SlotsOf(v) |-> filled[s]])
TotalCapacity(v) == Total([s \in SlotsOf(v) |-> Capacity[s]])

-----------------------------------------------------------------------------
\* Tenths of the penalty for an hour.
Rush(h) ==
  IF h \in 12 .. 14 \/ h \in 19 .. 21 THEN 3
  ELSE IF h \in 11 .. 15 \/ h \in 18 .. 22 THEN 1
  ELSE 0

Congestion(s) ==
  IF Capacity[s] = 0 \/ 2 * filled[s] < Capacity[s] THEN "LOW"
  ELSE IF 10 * filled[s] >= 9 * Capacity[s] THEN "CRITICAL"
  ELSE IF 4 * filled[s] >= 3 * Capacity[s] THEN "HIGH"
  ELSE "MEDIUM"

CompletedSince(v, days) == OfVendor(v) \cap Having({"COMPLETED"}) \cap Since(days)

\* The average of eta - actual, over the orders that have both.
SpeedScore(v) ==
  LET timed == {i \in CompletedSince(v, 30) : sales[i].actual # NoMinutes}
      early == MapThenSumSet(LAMBDA i : sales[i].eta - sales[i].actual, timed)
      n == Cardinality(timed)
  IN IF n = 0 THEN 50
     ELSE IF early <= -5 * n THEN 90
     ELSE IF early <= 0 THEN 75
     ELSE IF early <= 10 * n THEN 60
     ELSE 30

CompletionRate(v, days, default) ==
  Share(CompletedSince(v, days), OfVendor(v) \cap Since(days), default)

\* 35% for the places left, 25% for the speed, 20% for the rate, which is a
\* fraction of 1, not of 100; and so is the rush.
SlotScore(s) ==
  LET max == IF Capacity[s] = 0 THEN 1 ELSE Capacity[s]
      rate == CompletionRate(SlotVendor[s], 30, <<1, 2>>)
      places == <<35 * (Capacity[s] - filled[s]), max>>
      speed == 25 * SpeedScore(SlotVendor[s]) - 2 * Rush(SlotHour[s])
      total == Plus(places, <<speed * rate[2] + 20 * rate[1], 100 * rate[2]>>)
  IN IF total[1] < 0 THEN <<0, 1>> ELSE IF Below(<<100, 1>>, total) THEN <<100, 1>> ELSE total

-----------------------------------------------------------------------------
\* Tenths.
QueueFactor(s) ==
  IF Capacity[s] = 0 \/ 2 * filled[s] < Capacity[s] THEN 10
  ELSE IF 10 * filled[s] < 8 * Capacity[s] THEN 12
  ELSE 15

BasePrepTime(v) ==
  LET rows == CompletedSince(v, 30)
      minutes == MapThenSumSet(LAMBDA i : sales[i].eta, rows)
  IN IF minutes = 0 THEN <<15, 1>> ELSE <<minutes, Cardinality(rows)>>

\* 2 - the completion rate of seven days.
Efficiency(v) ==
  LET rate == CompletionRate(v, 7, <<1, 1>>)
  IN <<2 * rate[2] - rate[1], rate[2]>>

PredictedEta(s) ==
  LET base == BasePrepTime(SlotVendor[s])
      pace == Efficiency(SlotVendor[s])
      minutes == (base[1] * QueueFactor(s) * pace[1]) \div (base[2] * 10 * pace[2])
  IN Max({5, Min({minutes, 60})})

DelayRisk(s) ==
  IF Capacity[s] = 0 THEN "LOW"
  ELSE IF 10 * filled[s] > 9 * Capacity[s] /\ PredictedEta(s) > 30 THEN "HIGH"
  ELSE IF 10 * filled[s] > 7 * Capacity[s] \/ PredictedEta(s) > 25 THEN "MEDIUM"
  ELSE "LOW"

-----------------------------------------------------------------------------
\* Every slot is scored: its status, in capitals, is never "full" (as text).  The
\* list is sorted by score, and the sort is stable.
Recommended ==
  InOrder(Offers, LAMBDA s, t :
    \/ Below(SlotScore(t), SlotScore(s))
    \/ ~Below(SlotScore(s), SlotScore(t)) /\ s < t)

\* The loop keeps the first slot whose score exceeds all before it and 0.
BestSlot ==
  LET improves(s) == /\ Below(<<0, 1>>, SlotScore(s))
                     /\ \A t \in Offers : t < s => Below(SlotScore(t), SlotScore(s))
      leading == {s \in Offers : improves(s)}
  IN IF leading = {} THEN 0 ELSE Max(leading)

Reasons(s) ==
  LET score == SlotScore(s)
      speed == SpeedScore(SlotVendor[s])
      rate == CompletionRate(SlotVendor[s], 30, <<1, 2>>)
  IN {IF ~Below(score, <<80, 1>>) THEN "excellent"
      ELSE IF ~Below(score, <<60, 1>>) THEN "good" ELSE "alternative"}
     \cup {r \in {"fast"} : speed > 70} \cup {r \in {"slower"} : speed < 40}
     \cup {r \in {"reliable"} : Below(<<9, 10>>, rate)}
     \cup {r \in {"variable"} : Below(rate, <<7, 10>>)}
     \cup {r \in {"limited"} : Capacity[s] - filled[s] < 3}

\* Alerts of the service and warnings of the signals.
Overloaded == {s \in Offers : 10 * filled[s] >= 9 * Capacity[s] /\ Capacity[s] > 0}
NearlyFull == {s \in Offers : 10 * filled[s] >= 9 * Capacity[s] /\ Capacity[s] > 0}

\* The orders of a user's last two hours that may be late; those looked at for an
\* alert are chosen by status in small letters.
AtRisk(u, statuses) ==
  {i \in OfUser(u) \cap Having(statuses) :
     24 * (today - sales[i].day) + hour - sales[i].hour <= 2 /\ DelayRisk(sales[i].slot) = "HIGH"}
DelayAlerts(u) == AtRisk(u, {"confirmed", "preparing"})

Underutilised(s) == 100 * filled[s] < 30 * Max({Capacity[s], 1})

-----------------------------------------------------------------------------
\* The thresholds of load, queue, congestion, delay, overload and utilisation
\* were written apart.
ThresholdsAgree ==
  \A s \in Offers :
    LET label == SlotLabel(s)
    IN /\ label = "LOW" <=> QueueFactor(s) = 10
       /\ label = "HIGH" <=> QueueFactor(s) = 15
       /\ label = "LOW" <=> Congestion(s) = "LOW"
       /\ Congestion(s) = "CRITICAL" <=> s \in Overloaded
       /\ s \in Overloaded => label = "HIGH" /\ s \in NearlyFull
       /\ DelayRisk(s) = "HIGH" => s \in Overloaded
       /\ ExpressEligible(filled[s], Capacity[s]) => DelayRisk(s) # "HIGH" /\ s \notin Overloaded
       /\ Underutilised(s) => label = "LOW"

\* Of two slots of a vendor that start in the same kind of hour the fuller is
\* never scored better or predicted to be quicker.
FullerIsNeverBetter ==
  \A s, t \in Offers :
    /\ SlotVendor[s] = SlotVendor[t]
    /\ Capacity[s] > 0 /\ Capacity[t] > 0
    /\ filled[s] * Capacity[t] >= filled[t] * Capacity[s]
    => /\ PredictedEta(s) >= PredictedEta(t)
       /\ Rush(SlotHour[s]) = Rush(SlotHour[t]) => ~Below(SlotScore(t), SlotScore(s))

\* Where the query is answered, the best slot heads the list, and is full only if
\* the vendor's other slots have less than one place in 583 left, which is what
\* the hour can outweigh; no score ever earns the praise.
BestSlotLeads ==
  TextEnums =>
  /\ Offers # {} => BestSlot = Head(Recommended)
  /\ \A s \in Offers : /\ SlotVendor[s] = SlotVendor[BestSlot]
                       /\ filled[BestSlot] = Capacity[BestSlot]
                       => 3500 * (Capacity[s] - filled[s]) <= 6 * Capacity[s]
  /\ \A s \in Offers : "alternative" \in Reasons(s)

(* What the parts of the program that look at a slot say of it fits together *)
(* in every state of the slots and of the orders (core/load_insights.py:6-32,*)
(* utils/scoring.py:11-140, planners/eta_engine.py:18-134,                   *)
(* ai_intelligence/service.py:43-82 and 430-450).                            *)
AdviceIsConsistent == ThresholdsAgree /\ FullerIsNeverBetter /\ BestSlotLeads

(* "Get all available slots" (ai_intelligence/service.py:45): what is        *)
(* recommended has room.  Not so: the status is compared with "full".        *)
RecommendedSlotsHaveRoom ==
  \A s \in Offers : filled[s] = Capacity[s] => ~Contains(Recommended, s)

(* "Check user's upcoming orders" (ai_intelligence/service.py:406): the owner *)
(* of an order that is accepted and likely to be late is alerted.  Not so:   *)
(* the statuses are compared with "confirmed" and "preparing".               *)
DelaysAreAnnounced ==
  \A u \in Customers : AtRisk(u, {"CONFIRMED", "PREPARING"}) \subseteq DelayAlerts(u)

(* "faster than ETA = higher score" (utils/scoring.py:106).  Not so: the     *)
(* difference has the other sign.                                            *)
FasterScoresHigher ==
  \A i \in Rows : sales[i].actual # NoMinutes /\ CompletedSince(VendorOf(i), 30) = {i}
                    => (sales[i].actual < sales[i].eta <=> SpeedScore(VendorOf(i)) > 60)
=============================================================================

------------------------------ MODULE SalesBook ------------------------------
(***************************************************************************)
(* The order rows as the analytics read them: who ordered from which slot, *)
(* on which day and in which hour, how far the order got, and how many     *)
(* places of each slot are taken.  The steps are those of the checkout     *)
(* (orders/checkout_service.py), of the order handlers (OrderTransitions)  *)
(* and of the admin who flags an order (admin/router.py).                  *)
(***************************************************************************)
EXTENDS OrderTransitions, Integers, SequencesExt, Worker

CONSTANTS
  Customers,   \* students
  SlotVendor,  \* the vendor of each slot; slots and vendors are numbered
  SlotHour,    \* the hour in which a slot starts
  Capacity,    \* max_orders of a slot
  DayHours,    \* hours of a day in which something happens
  Pauses,      \* bound: lengths in days of the pauses in which nothing does
  OldBooks,    \* the rows an earlier version of the program may have left
  OldFills,    \* the places taken without an order (slots/router.py books them)
  TextEnums    \* the status columns hold text, as in the SQLite of the tests

Offers == DOMAIN SlotVendor
Sellers == {SlotVendor[s] : s \in Offers}

NoMinutes == -1  \* actual_completion_minutes is NULL: no code writes it

Sale == [user : Customers, slot : Offers, status : OrderStatus, day : Int, hour : DayHours,
         eta : Nat, actual : Nat \cup {NoMinutes}]

ASSUME SalesAssumption ==
  /\ SlotVendor \in Seq(Nat)
  /\ SlotHour \in [Offers -> 0 .. 23] /\ Capacity \in [Offers -> Nat]
  /\ DayHours \subseteq 0 .. 23 /\ DayHours # {} /\ Pauses \subseteq Nat \ {0}
  /\ OldBooks \subseteq Seq(Sale) /\ IsFiniteSet(Customers)
  /\ \A fills \in OldFills : fills \in [Offers -> Nat] /\ \A s \in Offers : fills[s] <= Capacity[s]
  /\ TextEnums \in BOOLEAN

VARIABLES
  sales,    \* the order rows, oldest first
  flagged,  \* the rows with a fraud flag
  filled,   \* current_orders of each slot
  today,    \* the day, counted from the first order there could be
  hour      \* the hour

salesRows == <<sales, flagged, filled, today, hour>>
salesVars == <<salesRows, workVars>>

SalesInit ==
  /\ sales \in OldBooks
  /\ flagged = {}
  /\ filled \in OldFills
  /\ today = 0
  /\ hour = Min(DayHours)

\* congestion_level is an attribute of the object, in percent; the ETA that is
\* stored is 15 minutes and one more for every ten percent.
CheckoutEta(s, orders) == 15 + (10 * orders) \div Capacity[s]

PlaceSale(u, s) ==
  /\ filled[s] < Capacity[s]
  /\ AtOnce
  /\ filled' = [filled EXCEPT ![s] = @ + 1]
  /\ sales' = Append(sales, [user |-> u, slot |-> s, status |-> "PLACED", day |-> today,
                             hour |-> hour, eta |-> CheckoutEta(s, filled'[s]),
                             actual |-> NoMinutes])
  /\ UNCHANGED <<flagged, today, hour>>

MoveOn(i, status) ==
  /\ CanTransition(sales[i].status, status)
  /\ AtOnce
  /\ sales' = [sales EXCEPT ![i].status = status]
  /\ UNCHANGED <<flagged, filled, today, hour>>

MarkFraud(i) ==
  /\ i \notin flagged
  /\ AtOnce
  /\ flagged' = flagged \cup {i}
  /\ UNCHANGED <<sales, filled, today, hour>>

LaterToday(h) ==
  /\ h > hour
  /\ hour' = h
  /\ UNCHANGED <<sales, flagged, filled, today, workVars>>

Pause(days) ==
  /\ AtOnce
  /\ today' = today + days
  /\ hour' = Min(DayHours)
  /\ UNCHANGED <<sales, flagged, filled>>

SalesNext ==
  \/ \E u \in Customers, s \in Offers : PlaceSale(u, s)
  \/ \E i \in DOMAIN sales, status \in OrderStatus : MoveOn(i, status)
  \/ \E i \in DOMAIN sales : MarkFraud(i)
  \/ \E h \in DayHours : LaterToday(h)
  \/ \E days \in Pauses : Pause(days)

SalesSpec == SalesInit /\ WorkInit /\ [][SalesNext]_salesVars

-----------------------------------------------------------------------------
(* What the queries select: sets of row numbers.                             *)

Rows == DOMAIN sales

\* created_at >= utcnow - days, to the hour.
Since(days) == {i \in Rows : 24 * (today - sales[i].day) + hour - sales[i].hour <= 24 * days}
SinceMidnight == {i \in Rows : sales[i].day = today}

OfVendor(v) == {i \in Rows : SlotVendor[sales[i].slot] = v}
OfUser(u) == {i \in Rows : sales[i].user = u}

\* The column holds the names of the members of OrderStatus, in capitals, and a
\* comparison with a member finds them.  One with a literal in small letters
\* finds no row, and excludes none, where the column is text; PostgreSQL, whose
\* column is of an enum type, refuses the query, and the handler fails: what
\* rests on such a query is answered under TextEnums only.
Having(statuses) == {i \in Rows : sales[i].status \in statuses}

\* GROUP BY key, COUNT: how many rows of I have each key.
Tally(I, Key(_)) == [k \in {Key(i) : i \in I} |-> Cardinality({i \in I : Key(i) = k})]
HourOf(i) == sales[i].hour
DayOf(i) == sales[i].day
UserOf(i) == sales[i].user
VendorOf(i) == SlotVendor[sales[i].slot]
StatusOf(i) == sales[i].status

Total(tally) == MapThenSumSet(LAMBDA k : tally[k], DOMAIN tally)

\* ORDER BY count DESC LIMIT n leaves ties to the database: every set of keys it
\* may answer.
Leaders(tally, n) ==
  {K \in SUBSET DOMAIN tally :
     /\ Cardinality(K) = Min({n, Cardinality(DOMAIN tally)})
     /\ \A k \in K, l \in DOMAIN tally \ K : tally[k] >= tally[l]}

\* A quotient n / d that is not rounded is the pair of its terms.
Below(p, q) == p[1] * q[2] < q[1] * p[2]
Plus(p, q) == <<p[1] * q[2] + q[1] * p[2], p[2] * q[2]>>

\* round(): the nearest integer, and of two as near the even one.
Rounded(n, d) ==
  LET q == n \div d
      r == n % d
  IN IF 2 * r > d \/ (2 * r = d /\ q % 2 = 1) THEN q + 1 ELSE q

\* sorted(): the elements of S one after another, where Before is a total order.
InOrder(S, Before(_, _)) ==
  CHOOSE q \in [1 .. Cardinality(S) -> S] :
    \A i, j \in 1 .. Cardinality(S) : i < j => Before(q[i], q[j])

\* part / whole, or the default when there are no rows.
Share(part, whole, default) ==
  IF whole = {} THEN default ELSE <<Cardinality(part), Cardinality(whole)>>

SalesTypeOK ==
  /\ WorkTypeOK
  /\ sales \in Seq(Sale)
  /\ flagged \subseteq Rows
  /\ filled \in [Offers -> Nat] /\ \A s \in Offers : filled[s] <= Capacity[s]
  /\ today \in Nat /\ hour \in DayHours
=============================================================================

-------------------------- MODULE SlotReservation ---------------------------
(***************************************************************************)
(* One time slot and the requests that take a place in it: a checkout      *)
(* (checkout_order_for_user calls reserve_slot_for_order and commits at    *)
(* its end) and a booking (POST /slots/{id}/book calls book_slot, which    *)
(* commits at once).  Both load the slot row first, then take the Redis    *)
(* key slot_lock:{id} (SET NX EX 5), then the row lock, and compute from   *)
(* the row they loaded.  Slots do not interact, so one is enough.          *)
(***************************************************************************)
EXTENDS Naturals, Session

CONSTANTS
  Workers,      \* worker threads
  NoWorker,     \* the row lock is free
  MaxOrders,    \* slots.max_orders
  LimitedAt,    \* int(max_orders * 0.7)
  MaxRequests,  \* bound: requests
  MaxAborts     \* bound: requests that die

ASSUME NoWorkerAssumption == NoWorker \notin Workers
ASSUME CapacityAssumption == MaxOrders \in Nat /\ LimitedAt \in 0 .. MaxOrders
ASSUME BoundsAssumption == MaxRequests \in Nat /\ MaxAborts \in Nat

VARIABLES
  current,   \* slots.current_orders
  label,     \* slots.status
  locked,    \* slot_lock:{id} is in Redis; its value names no owner
  rowLock,   \* the worker whose transaction holds the row
  task,      \* the request of each worker
  placed,    \* orders committed with their items
  partial,   \* orders committed by a checkout that failed after reserving
  booked,    \* bookings committed
  requests,  \* requests so far
  raced,     \* some request began while another was in progress (history)
  aborts

slot == <<current, label>>
taken == <<placed, partial, booked>>
locks == <<locked, rowLock>>
arrivals == <<requests, raced>>
vars == <<slot, taken, locks, task, arrivals, aborts>>

SlotStatus == {"AVAILABLE", "LIMITED", "FULL"}
Kinds == {"checkout", "book"}

\* Where a request is: "locked" holds the Redis key, "holding" the row too;
\* "flushed" has written without committing, "done" has committed; "reserved"
\* has given the key back and still has its order to write.
Places == {"loaded", "locked", "holding", "flushed", "done", "reserved"}

Task == [at : Places, kind : Kinds, seen : Nat, seenLabel : SlotStatus]
NoTask == [at |-> "idle"]

\* Places of the slot that somebody holds.
Taken == placed + partial + booked

Init ==
  /\ current = 0
  /\ label = "AVAILABLE"
  /\ locked = FALSE
  /\ rowLock = NoWorker
  /\ task = [w \in Workers |-> NoTask]
  /\ placed = 0 /\ partial = 0 /\ booked = 0
  /\ requests = 0
  /\ raced = FALSE
  /\ aborts = 0

-----------------------------------------------------------------------------
At(w, place) == task[w].at = place
Go(w, place) == task' = [task EXCEPT ![w].at = place]
Leave(w) == task' = [task EXCEPT ![w] = NoTask]

\* The first SELECT of the handler.  The session keeps what it loaded: the
\* SELECT ... FOR UPDATE below finds the row in its identity map.
Load(w, kind) ==
  /\ At(w, "idle")
  /\ requests < MaxRequests
  /\ requests' = requests + 1
  /\ raced' = (raced \/ \E v \in Workers : task[v] # NoTask)
  /\ task' = [task EXCEPT ![w] =
       [at |-> "loaded", kind |-> kind, seen |-> current, seenLabel |-> label]]
  /\ UNCHANGED <<slot, taken, locks, aborts>>

Acquire(w) ==
  /\ At(w, "loaded")
  /\ ~locked
  /\ locked' = TRUE
  /\ Go(w, "locked")
  /\ UNCHANGED <<slot, taken, rowLock, arrivals, aborts>>

\* 429: slot is being booked.
Busy(w) ==
  /\ At(w, "loaded")
  /\ locked
  /\ Leave(w)
  /\ UNCHANGED <<slot, taken, locks, arrivals, aborts>>

\* SELECT ... FOR UPDATE waits until no other transaction holds the row.
LockRow(w) ==
  /\ At(w, "locked")
  /\ rowLock = NoWorker
  /\ rowLock' = w
  /\ Go(w, "holding")
  /\ UNCHANGED <<slot, taken, locked, arrivals, aborts>>

\* The label the code computes; below the LIMITED threshold it leaves it alone.
Label(n, old) == IF n >= MaxOrders THEN "FULL"
                 ELSE IF n >= LimitedAt THEN "LIMITED" ELSE old

\* Mutant: one place too many.
IsFullLate(w) == task[w].seen > MaxOrders

IsFull(w) == task[w].seen >= MaxOrders

\* Mutant: the place is given back instead of taken.
WriteSlotBackwards(w) ==
  LET t == task[w]
  IN /\ current' = t.seen - 1
     /\ label' = Flushed(Label(t.seen - 1, t.seenLabel), t.seenLabel, label)

\* The columns as the commit of w leaves them.
WriteSlot(w) ==
  LET t == task[w]
  IN IF IsFull(w)
     THEN /\ label' = Flushed("FULL", t.seenLabel, label)
          /\ UNCHANGED current
     ELSE /\ current' = t.seen + 1
          /\ label' = Flushed(Label(t.seen + 1, t.seenLabel), t.seenLabel, label)

\* book_slot commits inside the lock, a full slot's label included.
CommitBooking(w) ==
  /\ At(w, "holding")
  /\ task[w].kind = "book"
  /\ WriteSlot(w)
  /\ booked' = IF IsFull(w) THEN booked ELSE booked + 1
  /\ rowLock' = NoWorker
  /\ Go(w, "done")
  /\ UNCHANGED <<locked, placed, partial, arrivals, aborts>>

\* reserve_slot_for_order only flushes: nothing is visible to others yet.
Flush(w) ==
  /\ At(w, "holding")
  /\ task[w].kind = "checkout"
  /\ Go(w, "flushed")
  /\ UNCHANGED <<slot, taken, locks, arrivals, aborts>>

\* finally: redis_client.delete(lock_key), whoever set the key last.
Unlock(w) ==
  /\ task[w].at \in {"flushed", "done"}
  /\ locked' = FALSE
  /\ IF At(w, "flushed") THEN Go(w, "reserved") ELSE Leave(w)
  /\ UNCHANGED <<slot, taken, rowLock, arrivals, aborts>>

\* Mutant: the order is written and the reservation is not.
CommitCheckoutUnreserved(w) ==
  /\ At(w, "reserved")
  /\ placed' = placed + 1
  /\ rowLock' = NoWorker
  /\ Leave(w)
  /\ UNCHANGED <<slot, partial, booked, locked, arrivals, aborts>>

\* @transactional commits when the checkout returns.  It commits as well when
\* add_items_to_order raises an HTTPException: the order row and the place are
\* kept, its items and total are not.
CommitCheckout(w) ==
  /\ At(w, "reserved")
  /\ WriteSlot(w)
  /\ IF IsFull(w)
     THEN UNCHANGED taken
     ELSE \/ placed' = placed + 1 /\ UNCHANGED <<partial, booked>>
          \/ partial' = partial + 1 /\ UNCHANGED <<placed, booked>>
  /\ rowLock' = NoWorker
  /\ Leave(w)
  /\ UNCHANGED <<locked, arrivals, aborts>>

\* Mutant: the key is set without an expiry.
ExpireNever == FALSE /\ UNCHANGED vars

\* The key's five seconds are over, whether its owner is slow or gone.
Expire ==
  /\ locked
  /\ locked' = FALSE
  /\ UNCHANGED <<slot, taken, rowLock, task, arrivals, aborts>>

\* The request dies and is rolled back.  An exception inside the lock still
\* runs the finally clause; a killed process leaves the key to its expiry.
Abort(w) ==
  /\ task[w] # NoTask
  /\ aborts < MaxAborts
  /\ aborts' = aborts + 1
  /\ rowLock' = IF rowLock = w THEN NoWorker ELSE rowLock
  /\ \/ UNCHANGED locked
     \/ task[w].at \in {"locked", "holding", "flushed", "done"} /\ locked' = FALSE
  /\ Leave(w)
  /\ UNCHANGED <<slot, taken, arrivals>>

-----------------------------------------------------------------------------
Step(w) ==
  \/ Acquire(w)
  \/ Busy(w)
  \/ LockRow(w)
  \/ CommitBooking(w)
  \/ Flush(w)
  \/ Unlock(w)
  \/ CommitCheckout(w)

Next ==
  \/ Expire
  \/ \E w \in Workers : (\E kind \in Kinds : Load(w, kind)) \/ Step(w) \/ Abort(w)

Spec == Init /\ [][Next]_vars

\* Workers keep running, PostgreSQL grants a row lock in the order it was asked
\* for (so a waiter is not passed for ever), and Redis expires the key.
FairSpec ==
  /\ Spec
  /\ \A w \in Workers : WF_vars(Step(w)) /\ SF_vars(LockRow(w))
  /\ WF_vars(Expire)

-----------------------------------------------------------------------------
TypeOK ==
  /\ current \in Nat
  /\ label \in SlotStatus
  /\ locked \in BOOLEAN
  /\ rowLock \in Workers \cup {NoWorker}
  /\ task \in [Workers -> Task \cup {NoTask}]
  /\ placed \in Nat /\ partial \in Nat /\ booked \in Nat
  /\ requests \in 0 .. MaxRequests
  /\ raced \in BOOLEAN
  /\ aborts \in 0 .. MaxAborts

(* The counter stays within the capacity however stale the row is that a     *)
(* request computes from: the fullness check and the increment use the same  *)
(* loaded value (slots/service.py:31-39).                                    *)
CountWithinCapacity == current <= MaxOrders

(* The counter never shows more places taken than there are: a lost update   *)
(* only ever counts too few, so no free place is refused.                    *)
NothingIsOvercounted == current <= Taken

(* As long as no two requests overlapped the counter is exact, checkouts     *)
(* that fail and workers that die included.                                  *)
CountIsExact == ~raced => current = Taken

(* As long as no two requests overlapped the label tells the load            *)
(* (slots/service.py:42-45): a slot is FULL exactly when nothing is left.    *)
LabelFollowsCount ==
  ~raced =>
    /\ IF current = 0 THEN label # "LIMITED" ELSE label = Label(current, "AVAILABLE")
    /\ label = "FULL" => current >= MaxOrders

(* Whatever interleaves, the counter turns nobody away for a place that is   *)
(* free and lets nobody in who sees it full (slots/service.py:31-45).        *)
CountIsSafe == CountWithinCapacity /\ NothingIsOvercounted

(* As long as no two requests overlapped, counter and label are the truth    *)
(* about the slot (slots/service.py:34-48).                                  *)
CountIsRight == CountIsExact /\ LabelFollowsCount

(* A slot is never locked for good: the key of a dead worker expires.        *)
LockIsReleased == []<>~locked

(* "capacity enforced at DB level" (FEATURE_ANALYSIS_REPORT.md:312): no more *)
(* places are taken than the slot has.                                       *)
CapacityIsEnforced == Taken <= MaxOrders

(* "this entire checkout lands in a single atomic transaction"               *)
(* (checkout_service.py:78-80): a checkout that fails leaves no order.       *)
CheckoutIsAtomic == partial = 0
=============================================================================

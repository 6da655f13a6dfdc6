----------------------- MODULE SlotReservation_proofs -----------------------
(***************************************************************************)
(* Theorems about SlotReservation for any capacity and any number of       *)
(* workers; the last one is about requests that never overlapped.          *)
(***************************************************************************)
EXTENDS SlotReservation, TLAPS

(* What a request loaded was true once, and places are only ever taken. *)
SeenIsPast ==
  \A w \in Workers : task[w] # NoTask => task[w].seen <= Taken

IInv ==
  /\ TypeOK
  /\ SeenIsPast
  /\ CountWithinCapacity
  /\ NothingIsOvercounted

-----------------------------------------------------------------------------
(* The record of a request that has begun.                                   *)
LEMMA TaskRecord ==
  ASSUME TypeOK, NEW w \in Workers, task[w].at # "idle"
  PROVE  /\ task[w] \in Task /\ task[w] # NoTask
         /\ task[w].seen \in Nat /\ task[w].seenLabel \in SlotStatus
BY DEF TypeOK, Task, NoTask, Places

(* A commit leaves the counter within the capacity, at most one above what   *)
(* the request saw, and counts one more place if it moved the counter.       *)
LEMMA CommitWrites ==
  ASSUME IInv, NEW w \in Workers, task[w].at # "idle", WriteSlot(w),
         IF IsFull(w) THEN Taken' = Taken ELSE Taken' = Taken + 1
  PROVE  /\ current' \in Nat /\ label' \in SlotStatus
         /\ CountWithinCapacity' /\ NothingIsOvercounted'
<1> /\ task[w].seen \in Nat /\ task[w].seenLabel \in SlotStatus
    /\ task[w].seen <= Taken /\ Taken \in Nat
    /\ current \in Nat /\ label \in SlotStatus
  BY TaskRecord DEF IInv, SeenIsPast, TypeOK, Taken
<1>1. CASE IsFull(w)
  <2>1. current' = current /\ label' \in SlotStatus /\ Taken' = Taken
    BY <1>1 DEF WriteSlot, Flushed, SlotStatus
  <2> QED
    BY <2>1 DEF IInv, CountWithinCapacity, NothingIsOvercounted
<1>2. CASE ~IsFull(w)
  <2>1. current' = task[w].seen + 1 /\ Taken' = Taken + 1 /\ task[w].seen < MaxOrders
    BY <1>2, CapacityAssumption DEF WriteSlot, IsFull
  <2>2. label' \in SlotStatus
    BY <1>2 DEF WriteSlot, Flushed, Label, SlotStatus
  <2> QED
    BY <2>1, <2>2, CapacityAssumption DEF CountWithinCapacity, NothingIsOvercounted
<1> QED
  BY <1>1, <1>2

(* Moving or ending a task keeps what the other tasks saw.                   *)
LEMMA TaskMoves ==
  ASSUME IInv, NEW w \in Workers, task[w].at # "idle", NEW place \in Places,
         Leave(w) \/ Go(w, place), Taken' \in Nat, Taken <= Taken'
  PROVE  /\ task' \in [Workers -> Task \cup {NoTask}]
         /\ SeenIsPast'
         /\ \A v \in Workers \ {w} : task'[v] = task[v]
         /\ task'[w].at = IF Leave(w) THEN "idle" ELSE place
<1> USE DEF IInv
<1>0. task \in [Workers -> Task \cup {NoTask}] /\ Taken \in Nat
  BY DEF TypeOK, Taken
<1>1. task[w] \in Task /\ task[w].seen \in Nat /\ task[w].seen <= Taken
  BY TaskRecord DEF SeenIsPast
<1>a. \A v \in Workers : task[v] # NoTask => task[v].seen <= Taken /\ task[v].seen \in Nat
  BY <1>0 DEF SeenIsPast, Task
<1>2. CASE Leave(w)
  <2>1. task' = [task EXCEPT ![w] = NoTask] /\ NoTask.at = "idle"
    BY <1>2 DEF Leave, NoTask
  <2>2. /\ task' \in [Workers -> Task \cup {NoTask}]
        /\ task'[w] = NoTask
        /\ \A v \in Workers \ {w} : task'[v] = task[v]
    BY <1>0, <2>1
  <2>3. SeenIsPast'
    BY <1>0, <1>a, <2>2 DEF SeenIsPast
  <2> QED
    BY <1>2, <2>1, <2>2, <2>3
<1>3. CASE ~Leave(w) /\ Go(w, place)
  <2>1. /\ task' \in [Workers -> Task \cup {NoTask}]
        /\ task'[w].at = place
        /\ task'[w].seen = task[w].seen
        /\ \A v \in Workers \ {w} : task'[v] = task[v]
    BY <1>0, <1>1, <1>3 DEF Go, Task
  <2>2. SeenIsPast'
    BY <1>0, <1>1, <1>a, <2>1 DEF SeenIsPast
  <2> QED
    BY <1>3, <2>1, <2>2
<1> QED
  BY <1>2, <1>3

LEMMA InitInductive == Init => IInv
<1> SUFFICES ASSUME Init PROVE IInv
  OBVIOUS
<1>1. TypeOK
  <2>1. requests \in 0 .. MaxRequests /\ aborts \in 0 .. MaxAborts
    BY BoundsAssumption DEF Init
  <2>2. /\ current \in Nat /\ label \in SlotStatus /\ rowLock \in Workers \cup {NoWorker}
        /\ placed \in Nat /\ partial \in Nat /\ booked \in Nat
        /\ task \in [Workers -> Task \cup {NoTask}]
    BY DEF Init, SlotStatus
  <2>3. locked \in BOOLEAN /\ raced \in BOOLEAN
    BY DEF Init
  <2> QED
    BY <2>1, <2>2, <2>3 DEF TypeOK
<1>2. SeenIsPast
  BY DEF Init, SeenIsPast, NoTask
<1>3. CountWithinCapacity /\ NothingIsOvercounted
  BY CapacityAssumption DEF Init, CountWithinCapacity, NothingIsOvercounted, Taken
<1> QED
  BY <1>1, <1>2, <1>3 DEF IInv

(* Steps that move a request and touch neither the slot nor the places.      *)
LEMMA QuietStep ==
  ASSUME IInv, NEW w \in Workers, task[w].at # "idle", NEW place \in Places,
         Leave(w) \/ Go(w, place), UNCHANGED <<slot, taken, arrivals>>,
         locked' \in BOOLEAN, aborts' \in 0 .. MaxAborts,
         \/ UNCHANGED rowLock
         \/ rowLock = NoWorker /\ rowLock' = w
         \/ Leave(w) /\ rowLock' = IF rowLock = w THEN NoWorker ELSE rowLock
  PROVE  IInv'
<1>0. UNCHANGED <<current, label, placed, partial, booked, requests, raced>>
  BY DEF slot, taken, arrivals
<1>1. Taken' = Taken /\ Taken \in Nat
  BY <1>0 DEF Taken, IInv, TypeOK
<1>2. /\ task' \in [Workers -> Task \cup {NoTask}]
      /\ SeenIsPast'
      /\ \A v \in Workers \ {w} : task'[v] = task[v]
      /\ task'[w].at = IF Leave(w) THEN "idle" ELSE place
  BY <1>1, TaskMoves
<1>3. TypeOK'
  BY <1>0, <1>2 DEF IInv, TypeOK
<1>4. CountWithinCapacity' /\ NothingIsOvercounted'
  BY <1>0, <1>1 DEF IInv, CountWithinCapacity, NothingIsOvercounted
<1> QED
  BY <1>2, <1>3, <1>4 DEF IInv

(* The two commits: the slot is written and the row lock given up.           *)
LEMMA CommitStep ==
  ASSUME IInv, NEW w \in Workers, task[w].at \in {"holding", "reserved"}, WriteSlot(w),
         Leave(w) \/ Go(w, "done"), rowLock' = NoWorker, UNCHANGED <<locked, arrivals, aborts>>,
         placed' \in Nat, partial' \in Nat, booked' \in Nat,
         IF IsFull(w) THEN Taken' = Taken ELSE Taken' = Taken + 1
  PROVE  IInv'
<1>1. Taken \in Nat /\ Taken' \in Nat /\ Taken <= Taken'
  <2>1. Taken \in Nat
    BY DEF Taken, IInv, TypeOK
  <2> QED
    BY <2>1
<1>2. "done" \in Places
  BY DEF Places
<1>3. /\ task' \in [Workers -> Task \cup {NoTask}]
      /\ SeenIsPast'
      /\ \A v \in Workers \ {w} : task'[v] = task[v]
      /\ task'[w].at = IF Leave(w) THEN "idle" ELSE "done"
  BY <1>1, <1>2, TaskMoves
<1>4. /\ current' \in Nat /\ label' \in SlotStatus
      /\ CountWithinCapacity' /\ NothingIsOvercounted'
  BY CommitWrites
<1>5. TypeOK'
  BY <1>3, <1>4 DEF IInv, TypeOK, arrivals
<1> QED
  BY <1>3, <1>4, <1>5 DEF IInv

LEMMA NextInductive == IInv /\ [Next]_vars => IInv'
<1> SUFFICES ASSUME IInv, [Next]_vars PROVE IInv'
  OBVIOUS
<1>0. /\ locked \in BOOLEAN /\ aborts \in 0 .. MaxAborts /\ requests \in 0 .. MaxRequests
      /\ placed \in Nat /\ partial \in Nat /\ booked \in Nat
  BY DEF IInv, TypeOK
<1>1. CASE Expire \/ UNCHANGED vars
  BY <1>1 DEF Expire, IInv, TypeOK, SeenIsPast, CountWithinCapacity,
              NothingIsOvercounted, Taken, vars, slot, taken, locks, arrivals
<1>2. ASSUME NEW w \in Workers, NEW kind \in Kinds, Load(w, kind)
      PROVE  IInv'
  <2> DEFINE t == [at |-> "loaded", kind |-> kind, seen |-> current, seenLabel |-> label]
  <2>0. /\ task' = [task EXCEPT ![w] = t]
        /\ requests < MaxRequests /\ requests' = requests + 1 /\ raced' \in BOOLEAN
        /\ UNCHANGED <<current, label, placed, partial, booked, locked, rowLock, aborts>>
    BY <1>2 DEF Load, slot, taken, locks
  <2>1. t \in Task /\ t.at = "loaded" /\ t.seen <= Taken
    BY DEF Task, Places, IInv, TypeOK, NothingIsOvercounted
  <2> HIDE DEF t
  <2>2. TypeOK'
    BY <2>0, <2>1, BoundsAssumption DEF IInv, TypeOK
  <2>3. SeenIsPast'
    BY <2>0, <2>1 DEF IInv, TypeOK, SeenIsPast, Taken
  <2>4. CountWithinCapacity' /\ NothingIsOvercounted'
    BY <2>0 DEF IInv, CountWithinCapacity, NothingIsOvercounted, Taken
  <2> QED
    BY <2>2, <2>3, <2>4 DEF IInv
<1>3. ASSUME NEW w \in Workers, Acquire(w)
      PROVE  IInv'
  BY <1>0, <1>3, QuietStep DEF Acquire, At, Places
<1>4. ASSUME NEW w \in Workers, Busy(w)
      PROVE  IInv'
  <2>1. "loaded" \in Places
    BY DEF Places
  <2> QED
    BY <1>0, <1>4, <2>1, QuietStep DEF Busy, At, locks
<1>5. ASSUME NEW w \in Workers, LockRow(w)
      PROVE  IInv'
  BY <1>0, <1>5, QuietStep DEF LockRow, At, Places
<1>6. ASSUME NEW w \in Workers, CommitBooking(w)
      PROVE  IInv'
  <2>1. booked' \in Nat /\ IF IsFull(w) THEN Taken' = Taken ELSE Taken' = Taken + 1
    BY <1>0, <1>6 DEF CommitBooking, Taken
  <2> QED
    BY <1>0, <1>6, <2>1, CommitStep DEF CommitBooking, At
<1>7. ASSUME NEW w \in Workers, Flush(w)
      PROVE  IInv'
  <2>1. task[w].at = "holding" /\ "flushed" \in Places
    BY <1>7 DEF Flush, At, Places
  <2> QED
    BY <1>0, <1>7, <2>1, QuietStep DEF Flush, locks
<1>8. ASSUME NEW w \in Workers, Unlock(w)
      PROVE  IInv'
  <2>1. task[w].at # "idle" /\ "reserved" \in Places
    BY <1>8 DEF Unlock, At, Places
  <2> QED
    BY <1>0, <1>8, <2>1, QuietStep DEF Unlock
<1>9. ASSUME NEW w \in Workers, CommitCheckout(w)
      PROVE  IInv'
  <2>1. /\ placed' \in Nat /\ partial' \in Nat /\ booked' \in Nat
        /\ IF IsFull(w) THEN Taken' = Taken ELSE Taken' = Taken + 1
    BY <1>0, <1>9 DEF CommitCheckout, Taken, taken
  <2> QED
    BY <1>9, <2>1, CommitStep DEF CommitCheckout, At
<1>10. ASSUME NEW w \in Workers, Abort(w)
       PROVE  IInv'
  <2>1. task[w].at # "idle"
    BY <1>10 DEF Abort, IInv, TypeOK, Task, Places
  <2>2. aborts' \in 0 .. MaxAborts
    BY <1>0, <1>10, BoundsAssumption DEF Abort
  <2>3. locked' \in BOOLEAN /\ "loaded" \in Places
    BY <1>0, <1>10 DEF Abort, Places
  <2> QED
    BY <1>10, <2>1, <2>2, <2>3, QuietStep DEF Abort
<1> QED
  BY <1>1, <1>2, <1>3, <1>4, <1>5, <1>6, <1>7, <1>8, <1>9, <1>10 DEF Next, Step

(* IInv holds in every reachable state of the slot.                          *)
THEOREM Invariance == Spec => []IInv
BY InitInductive, NextInductive, PTL DEF Spec

(* Type correctness: whatever the workers do, counter, label and locks stay   *)
(* what their columns and keys can hold (slots/service.py:14-66).            *)
THEOREM TypeCorrect == Spec => []TypeOK
<1>1. IInv => TypeOK
  BY DEF IInv
<1> QED
  BY <1>1, Invariance, PTL

(* Whatever the capacity and the number of racing requests, the counter      *)
(* stays within max_orders and never counts a place that nobody took: what a *)
(* lost update can do is count too few (slots/service.py:31-45).             *)
THEOREM CounterIsSafe == Spec => []CountIsSafe
<1>1. IInv => CountIsSafe
  BY DEF IInv, CountIsSafe
<1> QED
  BY <1>1, Invariance, PTL

-----------------------------------------------------------------------------
(* While no two requests overlapped, the one in progress is alone and what   *)
(* it loaded is what it writes over.                                         *)
Alone ==
  \A w1, w2 \in Workers : task[w1].at # "idle" /\ task[w2].at # "idle" => w1 = w2

SeenIsCurrent ==
  \A w \in Workers :
    task[w].at \notin {"idle", "done"} => task[w].seen = current /\ task[w].seenLabel = label

SerialInv ==
  /\ IInv
  /\ ~raced => Alone /\ SeenIsCurrent
  /\ CountIsExact
  /\ LabelFollowsCount

(* A commit that writes over what it saw keeps count and label right.        *)
LEMMA SerialCommit ==
  ASSUME SerialInv, ~raced, UNCHANGED raced,
         NEW w \in Workers, task[w].at \in {"holding", "reserved"}, WriteSlot(w),
         IF IsFull(w) THEN Taken' = Taken ELSE Taken' = Taken + 1
  PROVE  CountIsExact' /\ LabelFollowsCount'
<1>1. /\ task[w].seen = current /\ task[w].seenLabel = label
      /\ current = Taken /\ current \in Nat /\ label \in SlotStatus
  BY DEF SerialInv, SeenIsCurrent, CountIsExact, IInv, TypeOK
<1>2. /\ IF current = 0 THEN label # "LIMITED" ELSE label = Label(current, "AVAILABLE")
      /\ label = "FULL" => current >= MaxOrders
  BY DEF SerialInv, LabelFollowsCount
<1>3. CASE IsFull(w)
  <2>1. current >= MaxOrders /\ current' = current /\ Taken' = Taken /\ label' = "FULL"
    BY <1>1, <1>3 DEF IsFull, WriteSlot, Flushed
  <2> QED
    BY <1>1, <2>1 DEF CountIsExact, LabelFollowsCount, Label
<1>4. CASE ~IsFull(w)
  <2>1. ~(current >= MaxOrders) /\ current' = current + 1 /\ Taken' = Taken + 1
    BY <1>1, <1>4 DEF IsFull, WriteSlot
  <2>2. label' = Label(current + 1, label)
    BY <1>1, <1>4 DEF WriteSlot, Flushed
  <2>3. label' = Label(current + 1, "AVAILABLE")
    BY <1>1, <1>2, <2>1, <2>2, CapacityAssumption DEF Label, SlotStatus
  <2> QED
    BY <1>1, <2>1, <2>3 DEF CountIsExact, LabelFollowsCount, Label
<1> QED
  BY <1>3, <1>4

LEMMA SerialNext == SerialInv /\ [Next]_vars => SerialInv'
<1> DEFINE Goal == Alone' /\ SeenIsCurrent' /\ CountIsExact' /\ LabelFollowsCount'
<1> SUFFICES ASSUME SerialInv, [Next]_vars
             PROVE  ~raced' => Goal
  BY NextInductive DEF SerialInv, CountIsExact, LabelFollowsCount
<1>0. raced \in BOOLEAN /\ TypeOK
  BY DEF SerialInv, IInv, TypeOK
<1>a. ~raced => Alone /\ SeenIsCurrent
  BY DEF SerialInv
<1>b. CountIsExact /\ LabelFollowsCount
  BY DEF SerialInv
<1>1. CASE UNCHANGED <<slot, taken, task, raced>>
  BY <1>a, <1>b, <1>1
     DEF Alone, SeenIsCurrent, CountIsExact, LabelFollowsCount, Label, Taken, slot, taken
<1>2. ASSUME NEW w \in Workers, NEW kind \in Kinds, Load(w, kind), ~raced'
      PROVE  Goal
  <2>1. ~raced /\ \A v \in Workers : task[v] = NoTask
    BY <1>0, <1>2 DEF Load
  <2>2. /\ task'[w].at = "loaded" /\ task'[w].seen = current /\ task'[w].seenLabel = label
        /\ \A v \in Workers \ {w} : task'[v] = NoTask
        /\ UNCHANGED <<current, label, placed, partial, booked>>
    BY <1>0, <1>2, <2>1 DEF Load, slot, taken, TypeOK
  <2>3. Alone' /\ SeenIsCurrent'
    BY <2>2 DEF Alone, SeenIsCurrent, NoTask
  <2>4. CountIsExact' /\ LabelFollowsCount'
    BY <1>b, <2>1, <2>2 DEF CountIsExact, LabelFollowsCount, Label, Taken
  <2> QED
    BY <2>3, <2>4
<1>3. ASSUME NEW w \in Workers, NEW place \in Places, Leave(w) \/ Go(w, place),
             task[w].at \in Places, UNCHANGED <<slot, taken, raced>>,
             task[w].at = "done" => Leave(w), ~raced
      PROVE  Goal
  <2>0. Alone /\ SeenIsCurrent /\ task[w].at # "idle"
    BY <1>a, <1>3 DEF Places
  <2>1. CountIsExact' /\ LabelFollowsCount'
    BY <1>b, <1>3 DEF CountIsExact, LabelFollowsCount, Label, Taken, slot, taken
  <2>2. \A v \in Workers \ {w} : task[v].at = "idle" /\ task'[v] = task[v]
    BY <1>0, <1>3, <2>0 DEF Alone, Leave, Go, TypeOK
  <2>3. Alone'
    BY <2>2 DEF Alone
  <2>4. CASE Leave(w)
    BY <1>0, <2>1, <2>2, <2>3, <2>4 DEF Leave, NoTask, SeenIsCurrent, TypeOK
  <2>5. CASE Go(w, place) /\ task[w].at # "done"
    <3>1. task[w] \in Task /\ task[w].seen = current /\ task[w].seenLabel = label
      BY <1>0, <2>0, <2>5, TaskRecord DEF SeenIsCurrent
    <3>2. task'[w].seen = current /\ task'[w].seenLabel = label
      BY <1>0, <2>5, <3>1 DEF Go, TypeOK, Task
    <3> QED
      BY <1>3, <2>1, <2>2, <2>3, <3>2 DEF SeenIsCurrent, slot
  <2> QED
    BY <1>3, <2>4, <2>5
<1>4. ASSUME NEW w \in Workers, task[w].at \in {"holding", "reserved"}, WriteSlot(w),
             Leave(w) \/ Go(w, "done"), UNCHANGED raced, ~raced,
             IF IsFull(w) THEN Taken' = Taken ELSE Taken' = Taken + 1
      PROVE  Goal
  <2>1. CountIsExact' /\ LabelFollowsCount'
    BY <1>4, SerialCommit
  <2>2. task[w] \in Task /\ Alone
    BY <1>0, <1>a, <1>4, TaskRecord
  <2>3. task'[w].at \in {"idle", "done"}
    BY <1>0, <1>4, <2>2 DEF Leave, Go, NoTask, Task, TypeOK
  <2>4. \A v \in Workers \ {w} : task'[v].at = "idle"
    BY <1>0, <1>4, <2>2 DEF Alone, Leave, Go, TypeOK
  <2> QED
    BY <2>1, <2>3, <2>4 DEF SeenIsCurrent, Alone
<1>5. ASSUME NEW w \in Workers, Acquire(w) \/ Busy(w) \/ LockRow(w) \/ Flush(w) \/ Unlock(w),
             ~raced'
      PROVE  Goal
  <2>1. /\ task[w].at \in Places /\ UNCHANGED <<slot, taken, raced>>
        /\ \E place \in Places : Leave(w) \/ Go(w, place)
        /\ task[w].at = "done" => Leave(w)
    BY <1>5 DEF Acquire, Busy, LockRow, Flush, Unlock, At, Places, arrivals
  <2> QED
    BY <1>5, <2>1, <1>3
<1>6. ASSUME NEW w \in Workers, Abort(w), ~raced'
      PROVE  Goal
  <2>1. task[w].at \in Places /\ Leave(w) /\ UNCHANGED <<slot, taken, raced>>
    BY <1>0, <1>6 DEF Abort, TypeOK, Task, arrivals
  <2>2. "loaded" \in Places
    BY DEF Places
  <2> QED
    BY <1>6, <2>1, <2>2, <1>3
<1>7. ASSUME NEW w \in Workers, CommitBooking(w), ~raced'
      PROVE  Goal
  <2>1. IF IsFull(w) THEN Taken' = Taken ELSE Taken' = Taken + 1
    BY <1>0, <1>7 DEF CommitBooking, Taken, TypeOK
  <2> QED
    BY <1>7, <2>1, <1>4 DEF CommitBooking, At, arrivals
<1>8. ASSUME NEW w \in Workers, CommitCheckout(w), ~raced'
      PROVE  Goal
  <2>1. IF IsFull(w) THEN Taken' = Taken ELSE Taken' = Taken + 1
    BY <1>0, <1>8 DEF CommitCheckout, Taken, taken, TypeOK
  <2> QED
    BY <1>8, <2>1, <1>4 DEF CommitCheckout, At, arrivals
<1>9. Expire \/ UNCHANGED vars => UNCHANGED <<slot, taken, task, raced>>
  BY DEF Expire, vars, arrivals
<1> QED
  BY <1>1, <1>2, <1>5, <1>6, <1>7, <1>8, <1>9 DEF Next, Step

(* As long as no two requests overlapped, the counter is exact and the label *)
(* true to it, for any capacity and any number of requests, whatever fails   *)
(* or dies among them (slots/service.py:31-48).                              *)
THEOREM SerialCountIsRight == Spec => []CountIsRight
<1>1. Init => Alone /\ SeenIsCurrent /\ CountIsExact /\ LabelFollowsCount
  BY CapacityAssumption
     DEF Init, Alone, SeenIsCurrent, CountIsExact, LabelFollowsCount, NoTask, Taken
<1>2. Init => SerialInv
  BY <1>1, InitInductive DEF SerialInv
<1>3. SerialInv => CountIsRight
  BY DEF SerialInv, CountIsRight
<1> QED
  BY <1>2, <1>3, SerialNext, PTL DEF Spec

(* The capacity, which overlapping requests can exceed, is enforced as long  *)
(* as no two overlapped: the check of one request and its increment see the  *)
(* places that the requests before it took (slots/service.py:31-39).         *)
THEOREM SerialCapacityIsEnforced == Spec => [](~raced => CapacityIsEnforced)
<1>1. Init => SerialInv
  <2>1. Init => Alone /\ SeenIsCurrent /\ CountIsExact /\ LabelFollowsCount
    BY CapacityAssumption
       DEF Init, Alone, SeenIsCurrent, CountIsExact, LabelFollowsCount, NoTask, Taken
  <2> QED
    BY <2>1, InitInductive DEF SerialInv
<1>2. SerialInv => (~raced => CapacityIsEnforced)
  BY DEF SerialInv, IInv, CountIsExact, CountIsSafe, CountWithinCapacity, CapacityIsEnforced
<1> QED
  BY <1>1, <1>2, SerialNext, PTL DEF Spec
=============================================================================

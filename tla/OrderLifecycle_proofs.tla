----------------------- MODULE OrderLifecycle_proofs ------------------------
(***************************************************************************)
(* Theorems about OrderLifecycle for any number of orders and workers, and *)
(* any number of aborted requests.  The first part holds however the       *)
(* handlers interleave; the second part (from SerialInv on) is what the    *)
(* handlers keep when they run one after another.                          *)
(***************************************************************************)
EXTENDS OrderLifecycle, TLAPS

(* A request past its read step holds an order, and a code if it issues one. *)
RequestsHoldRows ==
  \A r \in Requests :
    /\ req[r].op # "idle" => req[r].order \in Orders
    /\ req[r].op = "qr" => req[r].code \in Codes

OrderHadBeenReady(o) == o \in LegacyOrders \/ Recorded(o, "READY")

(* Only an order that was marked ready is in a pickup status. *)
PickupStatusIsEarned ==
  \A o \in Orders : status[o] \in PickupStatuses => OrderHadBeenReady(o)

(* What a pickup request saw when it read is still true when it commits: no  *)
(* handler takes a code or a READY row away.                                 *)
PendingPickupIsEarned ==
  \A r \in Requests : req[r].op = "pickup" =>
    qr[req[r].order] # NoCode /\ OrderHadBeenReady(req[r].order)

IInv ==
  /\ TypeOK
  /\ RequestsHoldRows
  /\ PickupStatusIsEarned
  /\ PendingPickupIsEarned
  /\ HandedOverOnlyWhenReady

-----------------------------------------------------------------------------
(* Appending a row to a timeline keeps every earlier row.                    *)
LEMMA AppendKeeps ==
  ASSUME NEW h \in Seq(OrderStatus), NEW s \in OrderStatus
  PROVE  /\ Append(h, s) \in Seq(OrderStatus)
         /\ Append(h, s) # <<>>
         /\ Append(h, s)[Len(Append(h, s))] = s
         /\ \E i \in 1 .. Len(Append(h, s)) : Append(h, s)[i] = s
         /\ \A x : (\E i \in 1 .. Len(h) : h[i] = x)
                     => \E i \in 1 .. Len(Append(h, s)) : Append(h, s)[i] = x
OBVIOUS

(* The targets of the handlers are statuses the notifications know.          *)
LEMMA Targets ==
  \A op : /\ Target(op) \in {"CONFIRMED", "READY", "CANCELLED"}
          /\ op \in {"confirm", "cancel"} => Target(op) \in {"CONFIRMED", "CANCELLED"}
BY DEF Target

LEMMA InitInductive == Init => IInv
<1> SUFFICES ASSUME Init PROVE IInv
  OBVIOUS
<1>1. TypeOK
  BY MaxAbortsAssumption
     DEF Init, TypeOK, Idle, Request, Ops, OrderStatus, CreatedStatuses
<1>2. RequestsHoldRows
  BY DEF Init, RequestsHoldRows, Idle
<1>3. PickupStatusIsEarned
  <2> SUFFICES ASSUME NEW o \in Orders, status[o] \in PickupStatuses
               PROVE  o \in LegacyOrders
    BY DEF PickupStatusIsEarned, OrderHadBeenReady
  <2> QED
    BY DEF Init, PickupStatuses, CreatedStatuses
<1>4. PendingPickupIsEarned
  BY DEF Init, PendingPickupIsEarned, Idle
<1>5. HandedOverOnlyWhenReady
  BY DEF Init, HandedOverOnlyWhenReady, CreatedStatuses
<1> QED
  BY <1>1, <1>2, <1>3, <1>4, <1>5 DEF IInv

-----------------------------------------------------------------------------
(* A read step leaves every row alone: it only adds a pending request.       *)
LEMMA ReadStep ==
  ASSUME IInv, NEW r \in Requests, NEW op \in Ops \ {"idle"}, NEW o \in Orders,
         NEW c \in Codes \cup {NoCode}, Start(r, op, o, c),
         op = "qr" => c \in Codes,
         op = "pickup" => qr[o] # NoCode /\ OrderHadBeenReady(o)
  PROVE  IInv'
<1> USE DEF IInv
<1>0. /\ req' = [req EXCEPT ![r] = [op |-> op, order |-> o, code |-> c]]
      /\ UNCHANGED <<status, history, qr, pickup, rewards, notices, handed, aborts>>
  BY DEF Start, rows
<1>1. TypeOK'
  BY <1>0 DEF TypeOK, Request
<1>2. RequestsHoldRows'
  BY <1>0 DEF RequestsHoldRows, TypeOK
<1>3. PickupStatusIsEarned'
  BY <1>0 DEF PickupStatusIsEarned, OrderHadBeenReady, Recorded
<1>4. PendingPickupIsEarned'
  BY <1>0 DEF PendingPickupIsEarned, OrderHadBeenReady, Recorded, TypeOK
<1>5. HandedOverOnlyWhenReady'
  BY <1>0 DEF HandedOverOnlyWhenReady, Recorded
<1> QED
  BY <1>1, <1>2, <1>3, <1>4, <1>5

(* Ending a request, or turning it into the announcement of the same order,  *)
(* keeps what is said of the pending requests.                               *)
LEMMA RequestEnds ==
  ASSUME TypeOK, RequestsHoldRows, NEW r \in Requests,
         \/ Finish(r)
         \/ req[r].op # "idle" /\ req' = [req EXCEPT ![r].op = "announce"]
  PROVE  /\ req' \in [Requests -> Request]
         /\ RequestsHoldRows'
         /\ \A x \in Requests : req'[x].op \in {"qr", "pickup"} => req'[x] = req[x]
<1>1. CASE Finish(r)
  BY <1>1 DEF Finish, Idle, TypeOK, RequestsHoldRows, Request, Ops
<1>2. CASE req[r].op # "idle" /\ req' = [req EXCEPT ![r].op = "announce"]
  BY <1>2 DEF TypeOK, RequestsHoldRows, Request, Ops
<1> QED
  BY <1>1, <1>2

(* update_order_status on a row: the status and its timeline move together,  *)
(* whatever the status has become since the handler checked it.              *)
LEMMA TransitionStep ==
  ASSUME IInv, NEW o \in Orders, NEW s \in {"CONFIRMED", "READY", "CANCELLED"},
         ApplyTransition(o, s), UNCHANGED <<qr, pickup>>,
         \A x \in Requests : req'[x].op = "pickup" => req'[x] = req[x],
         RequestsHoldRows'
  PROVE  /\ status' \in [Orders -> OrderStatus]
         /\ history' \in [Orders -> Seq(OrderStatus)]
         /\ PickupStatusIsEarned'
         /\ PendingPickupIsEarned'
         /\ HandedOverOnlyWhenReady'
<1> USE DEF IInv
<1>0. /\ status' = [status EXCEPT ![o] = s]
      /\ history' = [history EXCEPT ![o] = Append(history[o], s)]
      /\ s \in OrderStatus
      /\ history[o] \in Seq(OrderStatus)
  BY DEF ApplyTransition, OrderStatus, TypeOK
<1>a. /\ Append(history[o], s) \in Seq(OrderStatus)
      /\ history'[o] = Append(history[o], s)
      /\ \A x \in Orders \ {o} : history'[x] = history[x] /\ status'[x] = status[x]
      /\ status'[o] = s
  BY <1>0, AppendKeeps DEF TypeOK
<1>b. \A z : \A x \in Orders : Recorded(x, z) => Recorded(x, z)'
  BY <1>0, <1>a, AppendKeeps DEF Recorded
<1>c. \A x \in Orders : OrderHadBeenReady(x) => OrderHadBeenReady(x)'
  BY <1>b DEF OrderHadBeenReady
<1>d. Recorded(o, s)'
  BY <1>0, <1>a, AppendKeeps DEF Recorded
<1>1. status' \in [Orders -> OrderStatus] /\ history' \in [Orders -> Seq(OrderStatus)]
  BY <1>0, <1>a DEF TypeOK
<1>2. PickupStatusIsEarned'
  <2> SUFFICES ASSUME NEW x \in Orders, status'[x] \in PickupStatuses
               PROVE  OrderHadBeenReady(x)'
    BY DEF PickupStatusIsEarned
  <2>1. CASE x = o
    BY <2>1, <1>a, <1>d DEF PickupStatuses, OrderHadBeenReady
  <2>2. CASE x # o
    BY <2>2, <1>a, <1>c DEF PickupStatusIsEarned
  <2> QED
    BY <2>1, <2>2
<1>3. PendingPickupIsEarned'
  BY <1>c DEF PendingPickupIsEarned, RequestsHoldRows
<1>4. HandedOverOnlyWhenReady'
  <2> SUFFICES ASSUME NEW x \in Orders, status'[x] = "PICKED"
               PROVE  /\ pickup'[x]
                      /\ qr'[x] # NoCode
                      /\ x \in LegacyOrders \/ Recorded(x, "READY")'
    BY DEF HandedOverOnlyWhenReady
  <2>1. x # o /\ status[x] = "PICKED"
    BY <1>a
  <2> QED
    BY <2>1, <1>b DEF HandedOverOnlyWhenReady
<1> QED
  BY <1>1, <1>2, <1>3, <1>4

-----------------------------------------------------------------------------
(* Every step of the handlers preserves the invariant.                       *)
LEMMA NextInductive == IInv /\ [Next]_vars => IInv'
<1> USE DEF IInv
<1> SUFFICES ASSUME IInv, [Next]_vars PROVE IInv'
  OBVIOUS
<1>1. ASSUME NEW r \in Requests, NEW o \in Orders, NEW op \in Handlers, BeginUpdate(r, op, o)
      PROVE  IInv'
  BY <1>1, ReadStep DEF BeginUpdate, Handlers, Ops
<1>2. ASSUME NEW r \in Requests, NEW o \in Orders, BeginQr(r, o)
      PROVE  IInv'
  BY <1>2, ReadStep DEF BeginQr, Ops
<1>3. ASSUME NEW r \in Requests, NEW o \in Orders, ReuseQr(r, o)
      PROVE  IInv'
  <2>0. /\ handed' = [handed EXCEPT ![o] = @ \cup {qr[o]}]
        /\ UNCHANGED <<status, history, qr, pickup, rewards, notices, req, aborts>>
        /\ qr[o] \in Codes
    BY <1>3 DEF ReuseQr, TypeOK
  <2>1. TypeOK'
    BY <2>0 DEF TypeOK
  <2>2. RequestsHoldRows' /\ PickupStatusIsEarned' /\ PendingPickupIsEarned'
    BY <2>0 DEF RequestsHoldRows, PickupStatusIsEarned, PendingPickupIsEarned,
                OrderHadBeenReady, Recorded
  <2>3. HandedOverOnlyWhenReady'
    BY <2>0 DEF HandedOverOnlyWhenReady, Recorded
  <2> QED
    BY <2>1, <2>2, <2>3
<1>4. ASSUME NEW r \in Requests, NEW o \in Orders, BeginPickup(r, o)
      PROVE  IInv'
  BY <1>4, ReadStep DEF BeginPickup, Ops, PickupStatusIsEarned
<1>5. ASSUME NEW r \in Requests, CommitUpdate(r)
      PROVE  IInv'
  <2> DEFINE o == req[r].order
             s == Target(req[r].op)
  <2>0. /\ o \in Orders
        /\ s \in {"CONFIRMED", "CANCELLED"}
        /\ ApplyTransition(o, s)
        /\ notices' = [notices EXCEPT ![o] = @ \cup {s}]
        /\ Finish(r)
        /\ UNCHANGED <<qr, pickup, rewards, handed, aborts>>
    BY <1>5, Targets DEF CommitUpdate, RequestsHoldRows
  <2>1. /\ req' \in [Requests -> Request]
        /\ RequestsHoldRows'
        /\ \A x \in Requests : req'[x].op \in {"qr", "pickup"} => req'[x] = req[x]
    BY <2>0, RequestEnds
  <2> HIDE DEF o, s
  <2>2. notices' \in [Orders -> SUBSET Notices]
    BY <2>0 DEF TypeOK, Notices
  <2>3. /\ status' \in [Orders -> OrderStatus]
        /\ history' \in [Orders -> Seq(OrderStatus)]
        /\ PickupStatusIsEarned'
        /\ PendingPickupIsEarned'
        /\ HandedOverOnlyWhenReady'
    BY <2>0, <2>1, TransitionStep
  <2> QED
    BY <2>0, <2>1, <2>2, <2>3 DEF TypeOK
<1>6. ASSUME NEW r \in Requests, CommitReady(r)
      PROVE  IInv'
  <2> DEFINE o == req[r].order
  <2>0. /\ o \in Orders
        /\ ApplyTransition(o, "READY")
        /\ rewards' = [rewards EXCEPT ![o] = @ + 1]
        /\ req[r].op # "idle"
        /\ req' = [req EXCEPT ![r].op = "announce"]
        /\ UNCHANGED <<qr, pickup, notices, handed, aborts>>
    BY <1>6 DEF CommitReady, RequestsHoldRows
  <2>1. /\ req' \in [Requests -> Request]
        /\ RequestsHoldRows'
        /\ \A x \in Requests : req'[x].op \in {"qr", "pickup"} => req'[x] = req[x]
    BY <2>0, RequestEnds
  <2> HIDE DEF o
  <2>2. rewards' \in [Orders -> Nat]
    BY <2>0 DEF TypeOK
  <2>3. /\ status' \in [Orders -> OrderStatus]
        /\ history' \in [Orders -> Seq(OrderStatus)]
        /\ PickupStatusIsEarned'
        /\ PendingPickupIsEarned'
        /\ HandedOverOnlyWhenReady'
    BY <2>0, <2>1, TransitionStep
  <2> QED
    BY <2>0, <2>1, <2>2, <2>3 DEF TypeOK
<1>7. ASSUME NEW r \in Requests, CommitAnnounce(r)
      PROVE  IInv'
  <2>0. /\ req[r].order \in Orders
        /\ notices' = [notices EXCEPT ![req[r].order] = @ \cup {"READY"}]
        /\ Finish(r)
        /\ UNCHANGED <<status, history, qr, pickup, rewards, handed, aborts>>
    BY <1>7 DEF CommitAnnounce, RequestsHoldRows
  <2>1. /\ req' \in [Requests -> Request]
        /\ RequestsHoldRows'
        /\ \A x \in Requests : req'[x].op \in {"qr", "pickup"} => req'[x] = req[x]
    BY <2>0, RequestEnds
  <2>2. TypeOK'
    BY <2>0, <2>1 DEF TypeOK, Notices
  <2>3. PickupStatusIsEarned' /\ PendingPickupIsEarned'
    BY <2>0, <2>1 DEF PickupStatusIsEarned, PendingPickupIsEarned, OrderHadBeenReady, Recorded
  <2>4. HandedOverOnlyWhenReady'
    BY <2>0 DEF HandedOverOnlyWhenReady, Recorded
  <2> QED
    BY <2>1, <2>2, <2>3, <2>4
<1>8. ASSUME NEW r \in Requests, CommitQr(r)
      PROVE  IInv'
  <2>0. /\ req[r].order \in Orders
        /\ req[r].code \in Codes
        /\ qr' = [qr EXCEPT ![req[r].order] = req[r].code]
        /\ handed' = [handed EXCEPT ![req[r].order] = @ \cup {req[r].code}]
        /\ Finish(r)
        /\ UNCHANGED <<status, history, pickup, rewards, notices, aborts>>
    BY <1>8 DEF CommitQr, RequestsHoldRows
  <2>1. /\ req' \in [Requests -> Request]
        /\ RequestsHoldRows'
        /\ \A x \in Requests : req'[x].op \in {"qr", "pickup"} => req'[x] = req[x]
    BY <2>0, RequestEnds
  <2>2. TypeOK'
    BY <2>0, <2>1 DEF TypeOK
  <2>3. \A x \in Orders : qr[x] # NoCode => qr'[x] # NoCode
    BY <2>0, NoCodeAssumption DEF TypeOK
  <2>4. PickupStatusIsEarned' /\ PendingPickupIsEarned'
    BY <2>0, <2>1, <2>3
       DEF PickupStatusIsEarned, PendingPickupIsEarned, OrderHadBeenReady, Recorded,
           RequestsHoldRows
  <2>5. HandedOverOnlyWhenReady'
    BY <2>0, <2>3 DEF HandedOverOnlyWhenReady, Recorded
  <2> QED
    BY <2>1, <2>2, <2>4, <2>5
<1>9. ASSUME NEW r \in Requests, CommitPickup(r)
      PROVE  IInv'
  <2> DEFINE o == req[r].order
  <2>0. /\ o \in Orders
        /\ status' = [status EXCEPT ![o] = "PICKED"]
        /\ pickup' = [pickup EXCEPT ![o] = TRUE]
        /\ Finish(r)
        /\ UNCHANGED <<history, qr, rewards, notices, handed, aborts>>
        /\ qr[o] # NoCode /\ OrderHadBeenReady(o)
    BY <1>9 DEF CommitPickup, RequestsHoldRows, PendingPickupIsEarned
  <2>1. /\ req' \in [Requests -> Request]
        /\ RequestsHoldRows'
        /\ \A x \in Requests : req'[x].op \in {"qr", "pickup"} => req'[x] = req[x]
    BY <2>0, RequestEnds
  <2> HIDE DEF o
  <2>2. TypeOK'
    BY <2>0, <2>1 DEF TypeOK, OrderStatus
  <2>a. \A x \in Orders : OrderHadBeenReady(x) => OrderHadBeenReady(x)'
    BY <2>0 DEF OrderHadBeenReady, Recorded
  <2>b. \A x \in Orders : status'[x] \in PickupStatuses => status[x] \in PickupStatuses
    BY <2>0 DEF PickupStatuses, TypeOK
  <2>3. PickupStatusIsEarned' /\ PendingPickupIsEarned'
    BY <2>0, <2>1, <2>a, <2>b
       DEF PickupStatusIsEarned, PendingPickupIsEarned, RequestsHoldRows
  <2>4. HandedOverOnlyWhenReady'
    BY <2>0 DEF HandedOverOnlyWhenReady, OrderHadBeenReady, Recorded, TypeOK
  <2> QED
    BY <2>1, <2>2, <2>3, <2>4
<1>10. ASSUME NEW r \in Requests, Abort(r)
       PROVE  IInv'
  <2>0. /\ Finish(r)
        /\ aborts < MaxAborts
        /\ aborts' = aborts + 1
        /\ UNCHANGED <<status, history, qr, pickup, rewards, notices, handed>>
    BY <1>10 DEF Abort, rows
  <2>1. /\ req' \in [Requests -> Request]
        /\ RequestsHoldRows'
        /\ \A x \in Requests : req'[x].op \in {"qr", "pickup"} => req'[x] = req[x]
    BY <2>0, RequestEnds
  <2>2. TypeOK'
    BY <2>0, <2>1, MaxAbortsAssumption DEF TypeOK
  <2>3. PickupStatusIsEarned' /\ PendingPickupIsEarned'
    BY <2>0, <2>1 DEF PickupStatusIsEarned, PendingPickupIsEarned, OrderHadBeenReady, Recorded
  <2>4. HandedOverOnlyWhenReady'
    BY <2>0 DEF HandedOverOnlyWhenReady, Recorded
  <2> QED
    BY <2>1, <2>2, <2>3, <2>4
<1>11. CASE UNCHANGED vars
  BY <1>11
     DEF vars, rows, TypeOK, RequestsHoldRows, PickupStatusIsEarned, PendingPickupIsEarned,
         OrderHadBeenReady, HandedOverOnlyWhenReady, Recorded
<1> QED
  BY <1>1, <1>2, <1>3, <1>4, <1>5, <1>6, <1>7, <1>8, <1>9, <1>10, <1>11
     DEF Next, Begin, Commit

(* A write of the status appends what it wrote; the pickup writes PICKED.     *)
LEMMA TimelineNext == IInv /\ TimelineAgrees /\ [Next]_vars => TimelineAgrees'
<1> SUFFICES ASSUME TypeOK, RequestsHoldRows, TimelineAgrees, [Next]_vars PROVE TimelineAgrees'
  BY DEF IInv
<1>1. ASSUME NEW o \in Orders, NEW s \in OrderStatus, ApplyTransition(o, s)
      PROVE  TimelineAgrees'
  <2>1. /\ status' = [status EXCEPT ![o] = s]
        /\ history' = [history EXCEPT ![o] = Append(history[o], s)]
        /\ history[o] \in Seq(OrderStatus)
    BY <1>1 DEF ApplyTransition, TypeOK
  <2>2. /\ Append(history[o], s) # <<>>
        /\ Append(history[o], s)[Len(Append(history[o], s))] = s
    BY <2>1, AppendKeeps
  <2> QED
    BY <2>1, <2>2 DEF TimelineAgrees, TypeOK
<1>2. ASSUME NEW r \in Requests, CommitUpdate(r) \/ CommitReady(r)
      PROVE  TimelineAgrees'
  <2>1. \E s \in OrderStatus : ApplyTransition(req[r].order, s)
    BY <1>2, Targets DEF CommitUpdate, CommitReady, OrderStatus
  <2>2. req[r].order \in Orders
    BY <1>2 DEF CommitUpdate, CommitReady, RequestsHoldRows
  <2> QED
    BY <2>1, <2>2, <1>1
<1>3. ASSUME NEW r \in Requests, CommitPickup(r)
      PROVE  TimelineAgrees'
  BY <1>3 DEF CommitPickup, TimelineAgrees, TypeOK
<1>4. ASSUME UNCHANGED <<status, history>>
      PROVE  TimelineAgrees'
  BY <1>4 DEF TimelineAgrees
<1>5. ASSUME NEW r \in Requests, CommitAnnounce(r) \/ CommitQr(r) \/ Abort(r)
      PROVE  UNCHANGED <<status, history>>
  BY <1>5 DEF CommitAnnounce, CommitQr, Abort, rows
<1>6. ASSUME NEW r \in Requests, Begin(r)
      PROVE  UNCHANGED <<status, history>>
  BY <1>6 DEF Begin, BeginUpdate, BeginQr, ReuseQr, BeginPickup, Start, rows
<1>7. UNCHANGED vars => UNCHANGED <<status, history>>
  BY DEF vars, rows
<1> QED
  BY <1>2, <1>3, <1>4, <1>5, <1>6, <1>7 DEF Next, Commit

(* IInv holds in every reachable state of the handlers.                      *)
THEOREM Invariance == Spec => []IInv
BY InitInductive, NextInductive, PTL DEF Spec

(* Every row keeps its column types and every pending request holds a row,   *)
(* whatever the handlers do (orders/order_service.py, qr_service.py).        *)
THEOREM TypeCorrect == Spec => []TypeOK
BY Invariance, PTL DEF IInv

(* For any number of orders and workers, an order in status PICKED had been  *)
(* marked READY (or is a legacy row) and had a QR code: confirm_pickup never *)
(* hands over an order the vendor had not finished.                          *)
THEOREM HandOverIsEarned == Spec => []HandedOverOnlyWhenReady
BY Invariance, PTL DEF IInv

(* For any number of racing handlers, the last order_history row of an order *)
(* is its status, or the order was picked up since.                          *)
THEOREM TimelineIsCurrent == Spec => []TimelineAgrees
<1>1. Init => TimelineAgrees
  BY DEF Init, TimelineAgrees, CreatedStatuses
<1>2. IInv /\ TimelineAgrees /\ [Next]_vars => TimelineAgrees'
  BY TimelineNext
<1> QED
  BY <1>1, <1>2, Invariance, PTL DEF Spec

-----------------------------------------------------------------------------
(* One worker: the handlers run one after another, so what a handler read is *)
(* what it writes over.                                                      *)
OneWorker == \A r1, r2 \in Requests : r1 = r2

(* What a pending request checked still holds. *)
ChecksAreFresh ==
  \A r \in Requests :
    /\ req[r].op \in Handlers => CanTransition(status[req[r].order], Target(req[r].op))
    /\ req[r].op = "pickup" => status[req[r].order] \in PickupStatuses
    /\ req[r].op = "qr" => qr[req[r].order] = NoCode

(* An order is rewarded on its way into READY and never comes back before it. *)
RewardIsBehind ==
  \A o \in Orders : rewards[o] > 0 => status[o] \in {"READY", "PICKED", "CANCELLED"}

SerialInv ==
  /\ IInv
  /\ ChecksAreFresh
  /\ RewardIsBehind
  /\ RewardedAtMostOnce
  /\ HandedCodesResolve

(* The rows of the table the handlers and the pickup walk along.             *)
LEMMA TableRows ==
  \A old \in OrderStatus :
    /\ CanTransition(old, "READY") => old = "CONFIRMED"
    /\ CanTransition(old, "CONFIRMED") => old \in {"PLACED", "PENDING"}
    /\ CanTransition(old, "CANCELLED") => old \notin {"PICKED", "CANCELLED", "COMPLETED"}
    /\ old \in PickupStatuses => CanTransition(old, "PICKED")
    /\ old \in Terminal => \A new : ~CanTransition(old, new)
BY DEF CanTransition, AllowedTransitions, OrderStatus, PickupStatuses, Terminal

LEMMA SerialInit == Init => SerialInv
<1> SUFFICES ASSUME Init PROVE SerialInv
  OBVIOUS
<1>1. ChecksAreFresh
  BY DEF Init, ChecksAreFresh, Idle, Handlers
<1>2. RewardIsBehind /\ RewardedAtMostOnce /\ HandedCodesResolve
  BY DEF Init, RewardIsBehind, RewardedAtMostOnce, HandedCodesResolve
<1> QED
  BY <1>1, <1>2, InitInductive DEF SerialInv

LEMMA SameTable ==
  /\ Machine!OrderStatus = OrderStatus
  /\ \A old, new : Machine!CanTransition(old, new) <=> CanTransition(old, new)
BY DEF Machine!OrderStatus, OrderStatus, Machine!CanTransition, CanTransition,
       Machine!AllowedTransitions, AllowedTransitions

(* A write of a status that the table permits is a step of the state machine. *)
LEMMA MachineStep ==
  ASSUME NEW o \in Orders, NEW s \in OrderStatus, CanTransition(status[o], s),
         status' = [status EXCEPT ![o] = s]
  PROVE  Machine!Next
BY SameTable DEF Machine!Next, Machine!Move

(* A read step of the only worker.                                           *)
LEMMA SerialRead ==
  ASSUME OneWorker, SerialInv, NEW r \in Requests, NEW op \in Ops, NEW o \in Orders,
         NEW c \in Codes \cup {NoCode}, Start(r, op, o, c),
         op \in Handlers => CanTransition(status[o], Target(op)),
         op = "pickup" => status[o] \in PickupStatuses,
         op = "qr" => qr[o] = NoCode
  PROVE  ChecksAreFresh' /\ RewardIsBehind' /\ RewardedAtMostOnce' /\ HandedCodesResolve'
<1>0. /\ req' = [req EXCEPT ![r] = [op |-> op, order |-> o, code |-> c]]
      /\ UNCHANGED <<status, history, qr, pickup, rewards, notices, handed, aborts>>
  BY DEF Start, rows
<1>1. ChecksAreFresh'
  BY <1>0 DEF ChecksAreFresh, OneWorker, SerialInv, IInv, TypeOK
<1>2. RewardIsBehind' /\ RewardedAtMostOnce' /\ HandedCodesResolve'
  BY <1>0 DEF SerialInv, RewardIsBehind, RewardedAtMostOnce, HandedCodesResolve
<1> QED
  BY <1>1, <1>2

(* When the only worker is done no check is outstanding.                     *)
LEMMA SerialFinish ==
  ASSUME OneWorker, TypeOK, NEW r \in Requests,
         Finish(r) \/ req' = [req EXCEPT ![r].op = "announce"]
  PROVE  ChecksAreFresh'
<1>1. \A x \in Requests : req'[x].op \in {"idle", "announce"}
  <2>1. CASE Finish(r)
    BY <2>1 DEF Finish, Idle, OneWorker, TypeOK
  <2>2. CASE req' = [req EXCEPT ![r].op = "announce"]
    BY <2>2 DEF OneWorker, TypeOK, Request
  <2> QED
    BY <2>1, <2>2
<1> QED
  BY <1>1 DEF ChecksAreFresh, Handlers

(* One after another the handlers keep SerialInv, and every write of a       *)
(* status is a step of the state machine.                                    *)
LEMMA SerialNext ==
  OneWorker /\ SerialInv /\ [Next]_vars => SerialInv' /\ [Machine!Next]_status
<1> SUFFICES ASSUME OneWorker, SerialInv, [Next]_vars
             PROVE  /\ ChecksAreFresh' /\ RewardIsBehind'
                    /\ RewardedAtMostOnce' /\ HandedCodesResolve'
                    /\ [Machine!Next]_status
  BY NextInductive DEF SerialInv
<1> DEFINE Goal == /\ ChecksAreFresh' /\ RewardIsBehind'
                   /\ RewardedAtMostOnce' /\ HandedCodesResolve'
                   /\ [Machine!Next]_status
<1>0. TypeOK /\ RequestsHoldRows /\ RewardIsBehind /\ RewardedAtMostOnce
      /\ HandedCodesResolve /\ ChecksAreFresh
  BY DEF SerialInv, IInv
<1>1. ASSUME NEW r \in Requests, NEW o \in Orders, NEW op \in Handlers, BeginUpdate(r, op, o)
      PROVE  Goal
  <2>1. /\ op \in Ops /\ op \notin {"pickup", "qr"}
        /\ NoCode \in Codes \cup {NoCode}
        /\ Start(r, op, o, NoCode)
        /\ CanTransition(status[o], Target(op))
        /\ status' = status
    BY <1>1 DEF BeginUpdate, UpdateAllowed, Handlers, Ops, Start, rows
  <2> QED
    BY <2>1, SerialRead
<1>2. ASSUME NEW r \in Requests, NEW o \in Orders, BeginQr(r, o)
      PROVE  Goal
  <2> PICK c \in Codes : Start(r, "qr", o, c)
    BY <1>2 DEF BeginQr
  <2>1. /\ "qr" \in Ops /\ "qr" \notin Handlers
        /\ qr[o] = NoCode /\ status' = status
    BY <1>2 DEF BeginQr, Ops, Handlers, Start, rows
  <2> QED
    BY <2>1, SerialRead
<1>3. ASSUME NEW r \in Requests, NEW o \in Orders, ReuseQr(r, o)
      PROVE  Goal
  <2>0. /\ handed' = [handed EXCEPT ![o] = @ \cup {qr[o]}]
        /\ UNCHANGED <<status, qr, rewards, req>>
    BY <1>3 DEF ReuseQr
  <2>1. HandedCodesResolve'
    BY <1>0, <2>0 DEF HandedCodesResolve, TypeOK
  <2> QED
    BY <1>0, <2>0, <2>1 DEF ChecksAreFresh, RewardIsBehind, RewardedAtMostOnce
<1>4. ASSUME NEW r \in Requests, NEW o \in Orders, BeginPickup(r, o)
      PROVE  Goal
  <2>1. /\ "pickup" \in Ops /\ "pickup" \notin Handlers
        /\ NoCode \in Codes \cup {NoCode}
        /\ Start(r, "pickup", o, NoCode)
        /\ status[o] \in PickupStatuses /\ status' = status
    BY <1>4 DEF BeginPickup, Ops, Handlers, Start, rows
  <2> QED
    BY <2>1, SerialRead
<1>5. ASSUME NEW r \in Requests, CommitUpdate(r)
      PROVE  Goal
  <2> DEFINE o == req[r].order
             s == Target(req[r].op)
  <2>0. /\ o \in Orders
        /\ s \in {"CONFIRMED", "CANCELLED"}
        /\ CanTransition(status[o], s)
        /\ status' = [status EXCEPT ![o] = s]
        /\ UNCHANGED <<qr, rewards, handed>>
    BY <1>0, <1>5, Targets
       DEF CommitUpdate, RequestsHoldRows, ChecksAreFresh, Handlers, ApplyTransition
  <2>1. ChecksAreFresh'
    BY <1>0, <1>5, SerialFinish DEF CommitUpdate
  <2> HIDE DEF o, s
  <2>2. Machine!Next
    BY <2>0, MachineStep DEF OrderStatus
  <2>a. status[o] \in OrderStatus /\ rewards[o] \in Nat
    BY <1>0, <2>0 DEF TypeOK
  <2>b. s = "CONFIRMED" => status[o] \in {"PLACED", "PENDING"}
    BY <2>0, <2>a, TableRows
  <2>3. s = "CONFIRMED" => rewards[o] = 0
    BY <1>0, <2>0, <2>a, <2>b DEF RewardIsBehind
  <2>4. RewardIsBehind' /\ RewardedAtMostOnce' /\ HandedCodesResolve'
    BY <1>0, <2>0, <2>3 DEF RewardIsBehind, RewardedAtMostOnce, HandedCodesResolve, TypeOK
  <2> QED
    BY <2>1, <2>2, <2>4
<1>6. ASSUME NEW r \in Requests, CommitReady(r)
      PROVE  Goal
  <2> DEFINE o == req[r].order
  <2>0. /\ o \in Orders
        /\ CanTransition(status[o], "READY")
        /\ status' = [status EXCEPT ![o] = "READY"]
        /\ rewards' = [rewards EXCEPT ![o] = @ + 1]
        /\ UNCHANGED <<qr, handed>>
    BY <1>0, <1>6
       DEF CommitReady, RequestsHoldRows, ChecksAreFresh, Handlers, ApplyTransition, Target
  <2>1. ChecksAreFresh'
    BY <1>0, <1>6, SerialFinish DEF CommitReady
  <2> HIDE DEF o
  <2>2. Machine!Next
    BY <2>0, MachineStep DEF OrderStatus
  <2>a. status[o] \in OrderStatus /\ rewards[o] \in Nat
    BY <1>0, <2>0 DEF TypeOK
  <2>b. status[o] = "CONFIRMED"
    BY <2>0, <2>a, TableRows
  <2>3. rewards[o] = 0
    BY <1>0, <2>0, <2>a, <2>b DEF RewardIsBehind
  <2>4. RewardIsBehind' /\ RewardedAtMostOnce' /\ HandedCodesResolve'
    BY <1>0, <2>0, <2>3 DEF RewardIsBehind, RewardedAtMostOnce, HandedCodesResolve, TypeOK
  <2> QED
    BY <2>1, <2>2, <2>4
<1>7. ASSUME NEW r \in Requests, CommitAnnounce(r)
      PROVE  Goal
  <2>0. UNCHANGED <<status, qr, rewards, handed>>
    BY <1>7 DEF CommitAnnounce
  <2>1. ChecksAreFresh'
    BY <1>0, <1>7, SerialFinish DEF CommitAnnounce
  <2> QED
    BY <1>0, <2>0, <2>1 DEF RewardIsBehind, RewardedAtMostOnce, HandedCodesResolve
<1>8. ASSUME NEW r \in Requests, CommitQr(r)
      PROVE  Goal
  <2> DEFINE o == req[r].order
             c == req[r].code
  <2>0. /\ o \in Orders
        /\ c \in Codes
        /\ qr[o] = NoCode
        /\ qr' = [qr EXCEPT ![o] = c]
        /\ handed' = [handed EXCEPT ![o] = @ \cup {c}]
        /\ UNCHANGED <<status, rewards>>
    BY <1>0, <1>8 DEF CommitQr, RequestsHoldRows, ChecksAreFresh
  <2>1. ChecksAreFresh'
    BY <1>0, <1>8, SerialFinish DEF CommitQr
  <2> HIDE DEF o, c
  <2>2. handed[o] = {}
    BY <1>0, <2>0, NoCodeAssumption DEF HandedCodesResolve, TypeOK
  <2>3. HandedCodesResolve'
    BY <1>0, <2>0, <2>2 DEF HandedCodesResolve, TypeOK
  <2> QED
    BY <1>0, <2>0, <2>1, <2>3 DEF RewardIsBehind, RewardedAtMostOnce
<1>9. ASSUME NEW r \in Requests, CommitPickup(r)
      PROVE  Goal
  <2> DEFINE o == req[r].order
  <2>0. /\ o \in Orders
        /\ status[o] \in PickupStatuses
        /\ status' = [status EXCEPT ![o] = "PICKED"]
        /\ UNCHANGED <<qr, rewards, handed>>
    BY <1>0, <1>9 DEF CommitPickup, RequestsHoldRows, ChecksAreFresh
  <2>1. ChecksAreFresh'
    BY <1>0, <1>9, SerialFinish DEF CommitPickup
  <2> HIDE DEF o
  <2>a. CanTransition(status[o], "PICKED")
    BY <1>0, <2>0, TableRows DEF TypeOK
  <2>2. Machine!Next
    BY <2>0, <2>a, MachineStep DEF OrderStatus
  <2>3. RewardIsBehind' /\ RewardedAtMostOnce' /\ HandedCodesResolve'
    BY <1>0, <2>0 DEF RewardIsBehind, RewardedAtMostOnce, HandedCodesResolve, TypeOK
  <2> QED
    BY <2>1, <2>2, <2>3
<1>10. ASSUME NEW r \in Requests, Abort(r)
       PROVE  Goal
  <2>0. UNCHANGED <<status, qr, rewards, handed>>
    BY <1>10 DEF Abort, rows
  <2>1. ChecksAreFresh'
    BY <1>0, <1>10, SerialFinish DEF Abort
  <2> QED
    BY <1>0, <2>0, <2>1 DEF RewardIsBehind, RewardedAtMostOnce, HandedCodesResolve
<1>11. CASE UNCHANGED vars
  BY <1>0, <1>11
     DEF vars, rows, ChecksAreFresh, RewardIsBehind, RewardedAtMostOnce, HandedCodesResolve
<1> QED
  BY <1>1, <1>2, <1>3, <1>4, <1>5, <1>6, <1>7, <1>8, <1>9, <1>10, <1>11
     DEF Next, Begin, Commit

(* With one worker every write of orders.status follows ALLOWED_TRANSITIONS, *)
(* the QR pickup included although it never calls validate_transition: the   *)
(* handlers implement the state machine of state_machine.py.                 *)
THEOREM SerialImplementsStateMachine == OneWorker /\ Spec => ImplementsStateMachine
<1> SUFFICES ASSUME OneWorker PROVE Spec => Machine!Spec
  BY DEF ImplementsStateMachine
<1>1. Init => Machine!Init
  BY SameTable DEF Init, Machine!Init, CreatedStatuses, OrderStatus
<1>2. SerialInv /\ [Next]_vars => SerialInv' /\ [Machine!Next]_status
  BY SerialNext
<1> QED
  BY <1>1, <1>2, SerialInit, PTL DEF Spec, Machine!Spec

(* With one worker an order that ended stays as it ended, as                 *)
(* state_machine.py:24-25 says.  With two a handler that validated before    *)
(* the order ended may still move it.                                        *)
THEOREM SerialEndsAreFinal == OneWorker /\ Spec => TerminalIsFinal
<1> DEFINE A == \A o \in Orders : status[o] \in Terminal => status'[o] = status[o]
<1> SUFFICES ASSUME OneWorker PROVE Spec => [][A]_vars
  BY DEF TerminalIsFinal
<1>1. SerialInv /\ [Next]_vars => SerialInv' /\ [Machine!Next]_status
  BY SerialNext
<1>2. SerialInv /\ [Next]_vars => [A]_vars
  <2> SUFFICES ASSUME SerialInv, [Machine!Next]_status PROVE A
    BY <1>1
  <2>1. status \in [Orders -> OrderStatus]
    BY DEF SerialInv, IInv, TypeOK
  <2>2. ASSUME NEW o \in Orders, NEW s \in OrderStatus, Machine!Move(o, s)
        PROVE  A
    <3>1. status[o] \notin Terminal /\ status' = [status EXCEPT ![o] = s]
      BY <2>2, SameTable DEF Machine!Move, Terminal, CanTransition
    <3> QED
      BY <2>1, <3>1
  <2>3. CASE UNCHANGED status
    BY <2>3
  <2> QED
    BY <2>2, <2>3, SameTable DEF Machine!Next
<1> QED
  BY <1>1, <1>2, SerialInit, PTL DEF Spec

(* With one worker an order is rewarded once, although every entry into      *)
(* READY calls process_order_completion_rewards (orders/service.py:75).      *)
THEOREM SerialRewardsOnce == OneWorker /\ Spec => []RewardedAtMostOnce
<1> SUFFICES ASSUME OneWorker PROVE Spec => []RewardedAtMostOnce
  OBVIOUS
<1>1. SerialInv /\ [Next]_vars => SerialInv'
  BY SerialNext
<1>2. SerialInv => RewardedAtMostOnce
  BY DEF SerialInv
<1> QED
  BY <1>1, <1>2, SerialInit, PTL DEF Spec

(* With one worker every QR code a student was given stays on the row, so it *)
(* can still be scanned (qr_service.py:23).                                  *)
THEOREM SerialCodesResolve == OneWorker /\ Spec => []HandedCodesResolve
<1> SUFFICES ASSUME OneWorker PROVE Spec => []HandedCodesResolve
  OBVIOUS
<1>1. SerialInv /\ [Next]_vars => SerialInv'
  BY SerialNext
<1>2. SerialInv => HandedCodesResolve
  BY DEF SerialInv
<1> QED
  BY <1>1, <1>2, SerialInit, PTL DEF Spec
=============================================================================

--------------------------- MODULE OrderLifecycle ---------------------------
(***************************************************************************)
(* The HTTP handlers that move an order: confirm_order, mark_order_ready,  *)
(* cancel_order, generate_order_qr and confirm_qr_pickup.  Each runs in a  *)
(* worker thread with a session of its own, so a handler is a read step    *)
(* (its SELECT and every check made on what it read) and a commit step     *)
(* (its writes); other handlers run in between.  Requests is the set of    *)
(* worker threads: with one element the handlers run one after another.    *)
(***************************************************************************)
EXTENDS Naturals, Sequences, OrderTransitions

CONSTANTS
  Orders,        \* order rows
  LegacyOrders,  \* rows that predate the canonical statuses
  Requests,      \* worker threads
  Codes,         \* uuid4 values generate_qr_code may draw
  NoCode,        \* qr_code IS NULL
  NoOrder,       \* a worker with no request
  MaxAborts      \* bound: requests that die before they commit

ASSUME LegacyAssumption == LegacyOrders \subseteq Orders
ASSUME NoOrderAssumption == NoOrder \notin Orders
ASSUME NoCodeAssumption == NoCode \notin Codes
ASSUME MaxAbortsAssumption == MaxAborts \in Nat

VARIABLES
  status,   \* orders.status
  history,  \* the order_history rows of each order, oldest first
  qr,       \* orders.qr_code
  pickup,   \* orders.pickup_confirmed_at is set
  rewards,  \* ORDER_COMPLETION reward transactions of each order
  notices,  \* notification rows about each order
  handed,   \* QR codes returned to a caller
  req,      \* the request each worker is executing, past its read step
  aborts    \* requests that died so far

rows == <<status, history, qr, pickup, rewards, notices, handed>>
vars == <<rows, req, aborts>>

Handlers == {"confirm", "ready", "cancel"}
Ops == Handlers \cup {"idle", "announce", "qr", "pickup"}
Notices == {"CONFIRMED", "READY", "CANCELLED", "PAID", "REFUNDED"}

\* The target and the role each handler passes to update_order_status.
Target(op) == IF op = "confirm" THEN "CONFIRMED"
              ELSE IF op = "ready" THEN "READY" ELSE "CANCELLED"
Actor(op) == IF op = "cancel" THEN "student" ELSE "vendor"

Request == [op : Ops, order : Orders \cup {NoOrder}, code : Codes \cup {NoCode}]

Idle == [op |-> "idle", order |-> NoOrder, code |-> NoCode]

\* Statuses an order row is created in: checkout and reorder (PLACED), group
\* placement (PENDING, or CONFIRMED when nothing is left to pay).
CreatedStatuses == {"PLACED", "PENDING", "CONFIRMED"}

Init ==
  /\ status \in [Orders -> CreatedStatuses \cup {"READY_FOR_PICKUP"}]
  /\ \A o \in Orders : status[o] = "READY_FOR_PICKUP" <=> o \in LegacyOrders
  /\ history = [o \in Orders |-> <<>>]
  /\ qr = [o \in Orders |-> NoCode]
  /\ pickup = [o \in Orders |-> FALSE]
  /\ rewards = [o \in Orders |-> 0]
  /\ notices = [o \in Orders |-> {}]
  /\ handed = [o \in Orders |-> {}]
  /\ req = [r \in Requests |-> Idle]
  /\ aborts = 0

-----------------------------------------------------------------------------
\* Read steps: the row is loaded and every check is made on what was loaded.

Start(r, op, o, c) ==
  /\ req[r] = Idle
  /\ req' = [req EXCEPT ![r] = [op |-> op, order |-> o, code |-> c]]
  /\ UNCHANGED <<rows, aborts>>

\* confirm_order, mark_order_ready, cancel_order up to "Apply the transition".
BeginUpdate(r, op, o) ==
  /\ UpdateAllowed(status[o], Target(op), Actor(op))
  /\ Start(r, op, o, NoCode)

\* A uuid4 that no row, no caller and no request has seen.
FreshCode(c) ==
  /\ \A o \in Orders : qr[o] # c /\ c \notin handed[o]
  /\ \A r \in Requests : req[r].code # c

\* generate_qr_code finds no code on the row.
BeginQr(r, o) ==
  /\ status[o] \in PickupStatuses
  /\ qr[o] = NoCode
  /\ \E c \in Codes : FreshCode(c) /\ Start(r, "qr", o, c)

\* generate_qr_code returns the code already on the row.
ReuseQr(r, o) ==
  /\ req[r] = Idle
  /\ status[o] \in PickupStatuses
  /\ qr[o] # NoCode
  /\ handed' = [handed EXCEPT ![o] = @ \cup {qr[o]}]
  /\ UNCHANGED <<status, history, qr, pickup, rewards, notices, req, aborts>>

\* confirm_pickup resolves a code the student was given to its order.
BeginPickup(r, o) ==
  /\ qr[o] # NoCode
  /\ qr[o] \in handed[o]
  /\ status[o] \in PickupStatuses
  /\ Start(r, "pickup", o, NoCode)

-----------------------------------------------------------------------------
\* Commit steps.

Finish(r) == req' = [req EXCEPT ![r] = Idle]

\* Mutant: the transition without its order_history row.
ApplyTransitionUnrecorded(o, s) ==
  /\ status' = [status EXCEPT ![o] = s]
  /\ UNCHANGED history

\* Mutant: the column gets the value of the enum member, which is no member name.
ApplyTransitionByValue(o, s) ==
  /\ status' = [status EXCEPT ![o] = IF s = "READY" THEN "ready" ELSE s]
  /\ history' = [history EXCEPT ![o] = Append(@, s)]

\* The transition and its order_history row, written by one flush.
ApplyTransition(o, s) ==
  /\ status' = [status EXCEPT ![o] = s]
  /\ history' = [history EXCEPT ![o] = Append(@, s)]

\* confirm_order and cancel_order: status, history row and notification commit
\* together (@transactional).
CommitUpdate(r) ==
  LET o == req[r].order
      s == Target(req[r].op)
  IN /\ req[r].op \in {"confirm", "cancel"}
     /\ ApplyTransition(o, s)
     /\ notices' = [notices EXCEPT ![o] = @ \cup {s}]
     /\ Finish(r)
     /\ UNCHANGED <<qr, pickup, rewards, handed, aborts>>

\* Mutant: mark_order_ready returns once the reward is committed.
CommitReadySilently(r) ==
  LET o == req[r].order
  IN /\ req[r].op = "ready"
     /\ ApplyTransition(o, "READY")
     /\ rewards' = [rewards EXCEPT ![o] = @ + 1]
     /\ Finish(r)
     /\ UNCHANGED <<qr, pickup, notices, handed, aborts>>

\* mark_order_ready: award_points commits inside update_order_status, so the
\* transition and the reward are durable before the student is notified.
CommitReady(r) ==
  LET o == req[r].order
  IN /\ req[r].op = "ready"
     /\ ApplyTransition(o, "READY")
     /\ rewards' = [rewards EXCEPT ![o] = @ + 1]
     /\ req' = [req EXCEPT ![r].op = "announce"]
     /\ UNCHANGED <<qr, pickup, notices, handed, aborts>>

\* ... and the notification commits on its own.
CommitAnnounce(r) ==
  LET o == req[r].order
  IN /\ req[r].op = "announce"
     /\ notices' = [notices EXCEPT ![o] = @ \cup {"READY"}]
     /\ Finish(r)
     /\ UNCHANGED <<status, history, qr, pickup, rewards, handed, aborts>>

CommitQr(r) ==
  LET o == req[r].order
  IN /\ req[r].op = "qr"
     /\ qr' = [qr EXCEPT ![o] = req[r].code]
     /\ handed' = [handed EXCEPT ![o] = @ \cup {req[r].code}]
     /\ Finish(r)
     /\ UNCHANGED <<status, history, pickup, rewards, notices, aborts>>

\* confirm_pickup sets PICKED itself: no order_history row, no reward.
CommitPickup(r) ==
  LET o == req[r].order
  IN /\ req[r].op = "pickup"
     /\ status' = [status EXCEPT ![o] = "PICKED"]
     /\ pickup' = [pickup EXCEPT ![o] = TRUE]
     /\ Finish(r)
     /\ UNCHANGED <<history, qr, rewards, notices, handed, aborts>>

\* The request dies (crash, lost connection, unexpected exception): whatever it
\* has not committed is rolled back.
Abort(r) ==
  /\ req[r] # Idle
  /\ aborts < MaxAborts
  /\ aborts' = aborts + 1
  /\ Finish(r)
  /\ UNCHANGED rows

-----------------------------------------------------------------------------
Begin(r) ==
  \E o \in Orders :
    \/ \E op \in Handlers : BeginUpdate(r, op, o)
    \/ BeginQr(r, o)
    \/ ReuseQr(r, o)
    \/ BeginPickup(r, o)

Commit(r) ==
  \/ CommitUpdate(r)
  \/ CommitReady(r)
  \/ CommitAnnounce(r)
  \/ CommitQr(r)
  \/ CommitPickup(r)

Next == \E r \in Requests : Begin(r) \/ Commit(r) \/ Abort(r)

Spec == Init /\ [][Next]_vars

\* A worker thread that has read finishes its request: the thread pool keeps
\* scheduling it.  Nothing obliges a client to send a request.
FairSpec == Spec /\ \A r \in Requests : WF_vars(Commit(r))

-----------------------------------------------------------------------------
TypeOK ==
  /\ status \in [Orders -> OrderStatus]
  /\ history \in [Orders -> Seq(OrderStatus)]
  /\ qr \in [Orders -> Codes \cup {NoCode}]
  /\ pickup \in [Orders -> BOOLEAN]
  /\ rewards \in [Orders -> Nat]
  /\ notices \in [Orders -> SUBSET Notices]
  /\ handed \in [Orders -> SUBSET Codes]
  /\ req \in [Requests -> Request]
  /\ aborts \in 0 .. MaxAborts

Recorded(o, s) == \E i \in 1 .. Len(history[o]) : history[o][i] = s

(* No order is handed over unless the vendor had marked it ready and a QR   *)
(* code had been issued for it, however the handlers interleave: PICKED is  *)
(* reached only through confirm_pickup on a row in a pickup status.         *)
HandedOverOnlyWhenReady ==
  \A o \in Orders : status[o] = "PICKED" =>
    /\ pickup[o]
    /\ qr[o] # NoCode
    /\ o \in LegacyOrders \/ Recorded(o, "READY")

(* The timeline a student sees (get_order_timeline) ends in the status of   *)
(* the order, whatever two racing handlers wrote; the QR pickup is the one  *)
(* change that leaves no row in it.                                         *)
TimelineAgrees ==
  \A o \in Orders :
    IF history[o] = <<>>
    THEN status[o] \in CreatedStatuses \cup {"READY_FOR_PICKUP", "PICKED"}
    ELSE status[o] \in {history[o][Len(history[o])], "PICKED"}

(* An order earns its completion points once: update_order_status rewards   *)
(* every entry into READY, so this needs an order never to be READY twice.  *)
RewardedAtMostOnce == \A o \in Orders : rewards[o] <= 1

(* "Return existing QR if already generated" (qr_service.py:23): every QR   *)
(* code a student was given still resolves to the order.                    *)
HandedCodesResolve == \A o \in Orders : handed[o] \subseteq {qr[o]}

(* A terminal order is never moved again ("terminal - no further            *)
(* transitions", state_machine.py:24-25).                                   *)
TerminalIsFinal ==
  [][\A o \in Orders : status[o] \in Terminal => status'[o] = status[o]]_vars

(* The handlers implement the state machine they are written against.       *)
Machine == INSTANCE OrderStateMachine WITH Orders <- Orders, status <- status
ImplementsStateMachine == Machine!Spec

(* Unless a request dies, an order marked READY is announced to its student: *)
(* the notification of mark_order_ready is a transaction of its own, after  *)
(* the one that made the order READY.                                       *)
ReadyIsAnnounced ==
  \A o \in Orders :
    Recorded(o, "READY") /\ aborts = 0 ~> "READY" \in notices[o] \/ aborts > 0
=============================================================================

-------------------------- MODULE OrderTransitions --------------------------
(***************************************************************************)
(* The order statuses and the table of permitted transitions               *)
(* (orders/model.py, orders/state_machine.py) with the role layer that     *)
(* update_order_status puts on top of it.  Constant level: no state.       *)
(***************************************************************************)

OrderStatus ==
  {"PLACED", "CONFIRMED", "READY", "PICKED", "CANCELLED",
   "PENDING", "READY_FOR_PICKUP", "COMPLETED"}

\* Mutant: a READY order may be confirmed again.
AllowedTransitionsReopening ==
  [PLACED           |-> {"CONFIRMED", "CANCELLED"},
   CONFIRMED        |-> {"READY", "CANCELLED"},
   READY            |-> {"CONFIRMED", "PICKED", "CANCELLED"},
   PICKED           |-> {},
   CANCELLED        |-> {},
   PENDING          |-> {"CONFIRMED", "CANCELLED"},
   READY_FOR_PICKUP |-> {"PICKED", "COMPLETED", "CANCELLED"},
   COMPLETED        |-> {}]

\* ALLOWED_TRANSITIONS: every status mapped to the statuses it may move to.
AllowedTransitions ==
  [PLACED           |-> {"CONFIRMED", "CANCELLED"},
   CONFIRMED        |-> {"READY", "CANCELLED"},
   READY            |-> {"PICKED", "CANCELLED"},
   PICKED           |-> {},
   CANCELLED        |-> {},
   PENDING          |-> {"CONFIRMED", "CANCELLED"},
   READY_FOR_PICKUP |-> {"PICKED", "COMPLETED", "CANCELLED"},
   COMPLETED        |-> {}]

Terminal == {s \in OrderStatus : AllowedTransitions[s] = {}}

\* validate_transition returns without raising.
CanTransition(old, new) == new \in AllowedTransitions[old]

VendorTargets == {"CONFIRMED", "READY", "PICKED", "COMPLETED", "READY_FOR_PICKUP"}

\* Mutant: the role layer alone, without the table.
UpdateAllowedByRole(old, new, actor) ==
  /\ actor = "student" => new = "CANCELLED"
  /\ actor = "vendor" => new \in VendorTargets

\* The guards of update_order_status: the table first, then the role layer.
UpdateAllowed(old, new, actor) ==
  /\ CanTransition(old, new)
  /\ actor = "student" => new = "CANCELLED"
  /\ actor = "vendor" => new \in VendorTargets

\* Mutant: a QR code is issued as soon as the order is confirmed.
PickupStatusesTooEarly == {"CONFIRMED", "READY", "READY_FOR_PICKUP"}

\* The statuses in which a QR code is issued and accepted.
PickupStatuses == {"READY", "READY_FOR_PICKUP"}
=============================================================================

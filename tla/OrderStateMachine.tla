------------------------- MODULE OrderStateMachine --------------------------
(***************************************************************************)
(* What orders/state_machine.py promises: orders move along the table and  *)
(* along nothing else, "regardless of who is requesting it" (line 28), and *)
(* a terminal order moves no further.  It knows nothing of requests,       *)
(* sessions or payments; OrderLifecycle is the code that should keep it.   *)
(***************************************************************************)
EXTENDS OrderTransitions

CONSTANT Orders
VARIABLE status

\* Rows of every age exist, so an order may be first seen in any status.
Init == status \in [Orders -> OrderStatus]

Move(o, s) ==
  /\ CanTransition(status[o], s)
  /\ status' = [status EXCEPT ![o] = s]

Next == \E o \in Orders, s \in OrderStatus : Move(o, s)

Spec == Init /\ [][Next]_status
=============================================================================

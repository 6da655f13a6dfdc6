----------------------------- MODULE PastOrders ------------------------------
(***************************************************************************)
(* What a student may do with an order in status COMPLETED, which legacy   *)
(* rows have and no handler writes any more: rate it (feedback/router.py)  *)
(* and order it again (orders/reorder_service.py).  The slots of its       *)
(* vendor are numbered in the order in which they start.                   *)
(***************************************************************************)
EXTENDS Integers, FiniteSetsExt, Worker

CONSTANTS
  Past,      \* orders of the student
  Openings,  \* number of slots
  Window,    \* how many of them start within two hours
  Places,    \* max_orders of a slot
  Copied     \* items of an order

ASSUME PastAssumption == {Openings, Window, Places, Copied} \subseteq Nat \ {0}

VARIABLES
  completed,  \* the orders in status COMPLETED
  young,     \* those of them that are at most seven days old
  reviews,    \* feedback rows of each order
  taken,      \* current_orders of each slot
  clock,      \* slots that have started
  onMenu,     \* every item of the orders is available
  again       \* the orders a reorder committed, with what it read (history)

pastRows == <<completed, young, reviews, taken, clock, onMenu, again>>
pastVars == <<pastRows, workVars>>

Slotted == 1 .. Openings

PastInit ==
  /\ completed \in SUBSET Past
  /\ young \in SUBSET completed
  /\ reviews = [o \in Past |-> 0]
  /\ taken = [s \in Slotted |-> 0]
  /\ clock = 0
  /\ onMenu = TRUE
  /\ again = {}

-----------------------------------------------------------------------------
\* submit_feedback up to its checks.
BeginReview(w, o) ==
  /\ o \in completed /\ reviews[o] = 0
  /\ Begin(w, [at |-> "review", order |-> o])
  /\ UNCHANGED pastRows

CommitReview(w) ==
  /\ work[w].at = "review"
  /\ reviews' = [reviews EXCEPT ![work[w].order] = @ + 1]
  /\ Finish(w)
  /\ UNCHANGED <<completed, young, taken, clock, onMenu, again>>

\* The slots a reorder may choose from.
Available == {s \in Slotted : clock < s /\ s <= clock + Window /\ taken[s] < Places}

\* Mutant: the slots come in no order.
BeginReorderAnywhere(w, o) ==
  /\ o \in young
  /\ \E s \in Available :
       Begin(w, [at |-> "reorder", order |-> o, slot |-> s, choice |-> Available])
  /\ UNCHANGED pastRows

\* create_reorder up to the slot, the first one available.  An order that is older
\* than a week is refused.
BeginReorder(w, o) ==
  /\ o \in young
  /\ Available # {}
  /\ Begin(w, [at |-> "reorder", order |-> o, slot |-> Min(Available), choice |-> Available])
  /\ UNCHANGED pastRows

\* calculate_eta: minutes from the end of the slot, for the items the query sees.
Eta(items) == 5 + 2 * items

\* get_order_eta computes it each time, for no column keeps it.
ToldEta == Eta(Copied)

\* The items are copied, the ETA is computed before they are flushed (the
\* session has no autoflush: it sees none) and the order is committed.  It takes
\* no place, and the notification flushed after the commit goes with the
\* session.  An item that is gone makes the request fail and roll back.
CommitReorder(w) ==
  LET t == work[w]
  IN /\ t.at = "reorder"
     /\ again' = IF ~onMenu THEN again ELSE again \cup
          {[order |-> t.order, slot |-> t.slot, choice |-> t.choice,
            left |-> Places - taken[t.slot], promised |-> Eta(0)]}
     /\ Finish(w)
     /\ UNCHANGED <<completed, young, reviews, taken, clock, onMenu>>

\* Another order takes a place (SlotReservation), the menu changes, time passes.
TakeOpening(s) ==
  /\ clock < s /\ taken[s] < Places
  /\ AtOnce
  /\ taken' = [taken EXCEPT ![s] = @ + 1]
  /\ UNCHANGED <<completed, young, reviews, clock, onMenu, again>>

ChangeMenu ==
  /\ AtOnce
  /\ onMenu' = ~onMenu
  /\ UNCHANGED <<completed, young, reviews, taken, clock, again>>

StartSlot ==
  /\ clock < Openings
  /\ clock' = clock + 1
  /\ UNCHANGED <<completed, young, reviews, taken, onMenu, again, workVars>>

GrowOld(o) ==
  /\ young' = young \ {o}
  /\ UNCHANGED <<completed, reviews, taken, clock, onMenu, again, workVars>>

-----------------------------------------------------------------------------
PastStep(w) ==
  \/ \E o \in Past : BeginReview(w, o) \/ BeginReorder(w, o)
  \/ CommitReview(w)
  \/ CommitReorder(w)
  \/ Die(w) /\ UNCHANGED pastRows

PastNext ==
  \/ \E w \in Workers : PastStep(w)
  \/ \E s \in Slotted : TakeOpening(s)
  \/ ChangeMenu
  \/ StartSlot
  \/ \E o \in young : GrowOld(o)

PastSpec == PastInit /\ WorkInit /\ [][PastNext]_pastVars

-----------------------------------------------------------------------------
PastTypeOK ==
  /\ WorkTypeOK
  /\ completed \subseteq Past /\ young \subseteq completed
  /\ reviews \in [Past -> Nat]
  /\ taken \in [Slotted -> 0 .. Places]
  /\ clock \in 0 .. Openings
  /\ onMenu \in BOOLEAN
  /\ again \subseteq [order : completed, slot : Slotted, choice : SUBSET Slotted,
                    left : Nat, promised : Nat]

(* Only completed orders are rated, and as long as no two requests           *)
(* overlapped each of them once: feedback has no constraint that says so     *)
(* (feedback/router.py:40-54).                                               *)
ReviewsAreSingle ==
  \A o \in Past : /\ reviews[o] > 0 => o \in completed
                  /\ ~raced => reviews[o] <= 1

(* A reorder goes to the earliest slot that had room when it looked, and as  *)
(* long as no two requests overlapped that slot still has room when it is    *)
(* committed (orders/reorder_service.py:79-112).                             *)
ReordersFit ==
  \A r \in again : /\ r.slot \in r.choice /\ \A s \in r.choice : r.slot <= s
                   /\ ~raced => r.left > 0

(* What a student does with an order that is over counts once and fits.      *)
PastOrdersAreHandled == ReviewsAreSingle /\ ReordersFit

(* "Feedback already submitted for this order" (feedback/router.py:42,       *)
(* test_feedback.py:140-149): an order has one review, whoever else is       *)
(* asking.  Not so: two requests that both found none both insert one.       *)
ReviewedOnce == \A o \in Past : reviews[o] <= 1

(* The places of a slot, and no more, are ordered.  Not so: a reorder never  *)
(* counts itself.                                                            *)
ReordersAreCounted ==
  \A s \in Slotted : taken[s] + Cardinality({r \in again : r.slot = s}) <= Places

(* "Add preparation time based on order complexity"                          *)
(* (orders/reorder_service.py:27): what a reorder promises is what is told    *)
(* later.  Not so.                                                           *)
EtaIsKept == \A r \in again : r.promised = ToldEta
=============================================================================

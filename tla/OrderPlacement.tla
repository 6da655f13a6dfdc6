--------------------------- MODULE OrderPlacement ---------------------------
(***************************************************************************)
(* place_order (orders/order_service.py) with an idempotency key, which    *)
(* its client sends again when no answer arrives: the key is looked up in  *)
(* Redis, the checkout commits the order, then the key is set for an hour, *)
(* then the notification commits.  Keys are a student's own; another       *)
(* checkout of hers is a request with another key.                         *)
(***************************************************************************)
EXTENDS Naturals, Worker

CONSTANT Keys

VARIABLES
  marked,     \* keys in Redis
  orders,     \* orders placed with each key since it last expired
  fragments,  \* of these, orders whose checkout failed
  notices     \* "Order Placed" notifications of each key since it last expired

placeRows == <<marked, orders, fragments, notices>>
placeVars == <<placeRows, workVars>>

PlaceInit ==
  /\ marked = {}
  /\ orders = [k \in Keys |-> 0]
  /\ fragments = [k \in Keys |-> 0]
  /\ notices = [k \in Keys |-> 0]

-----------------------------------------------------------------------------
\* Mutant: the key is not looked up.
BeginPlaceUnguarded(w, k) ==
  /\ Begin(w, [at |-> "unmarked", key |-> k])
  /\ UNCHANGED placeRows

\* A key that exists is answered 409.
BeginPlace(w, k) ==
  /\ k \notin marked
  /\ Begin(w, [at |-> "unmarked", key |-> k])
  /\ UNCHANGED placeRows

\* The checkout refuses, commits the order, or fails after it has reserved the
\* slot: @transactional then commits an order without its items.
CommitOrder(w) ==
  LET k == work[w].key
  IN /\ work[w].at = "unmarked"
     /\ \/ Finish(w) /\ UNCHANGED <<orders, fragments>>
        \/ /\ orders' = [orders EXCEPT ![k] = @ + 1]
           /\ Continue(w, [at |-> "placed", key |-> k])
           /\ UNCHANGED fragments
        \/ /\ orders' = [orders EXCEPT ![k] = @ + 1]
           /\ fragments' = [fragments EXCEPT ![k] = @ + 1]
           /\ Finish(w)
     /\ UNCHANGED <<marked, notices>>

MarkKey(w) ==
  /\ work[w].at = "placed"
  /\ marked' = marked \cup {work[w].key}
  /\ Continue(w, [at |-> "notify", key |-> work[w].key])
  /\ UNCHANGED <<orders, fragments, notices>>

CommitNotice(w) ==
  /\ work[w].at = "notify"
  /\ notices' = [notices EXCEPT ![work[w].key] = @ + 1]
  /\ Finish(w)
  /\ UNCHANGED <<marked, orders, fragments>>

\* The hour is over.
ExpireKey(k) ==
  /\ k \in marked
  /\ marked' = marked \ {k}
  /\ orders' = [orders EXCEPT ![k] = 0]
  /\ fragments' = [fragments EXCEPT ![k] = 0]
  /\ notices' = [notices EXCEPT ![k] = 0]
  /\ UNCHANGED workVars

-----------------------------------------------------------------------------
PlaceStep(w) ==
  \/ \E k \in Keys : BeginPlace(w, k)
  \/ CommitOrder(w)
  \/ MarkKey(w)
  \/ CommitNotice(w)
  \/ Die(w) /\ UNCHANGED placeRows

PlaceNext == (\E w \in Workers : PlaceStep(w)) \/ (\E k \in Keys : ExpireKey(k))

PlaceSpec == PlaceInit /\ WorkInit /\ [][PlaceNext]_placeVars

-----------------------------------------------------------------------------
PlaceTypeOK ==
  /\ WorkTypeOK
  /\ marked \subseteq Keys
  /\ {orders, fragments, notices} \subseteq [Keys -> Nat]

(* As long as no two requests overlapped and none died, a key that is sent   *)
(* again in the hour places one order with items at most, and a key is set   *)
(* only after its order exists (orders/order_service.py:106-116).            *)
KeyPlacesOneOrder ==
  ~raced /\ died = 0 =>
    \A k \in Keys :
      /\ orders[k] - fragments[k] <= 1
      /\ k \in marked => orders[k] - fragments[k] = 1

(* "Idempotency guard - prevents duplicate orders from network retries"      *)
(* (orders/order_service.py:106): a retry places no second order with items. *)
RetryPlacesNoSecondOrder == \A k \in Keys : orders[k] - fragments[k] <= 1
=============================================================================

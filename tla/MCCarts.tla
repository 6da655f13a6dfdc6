------------------------------ MODULE MCCarts ------------------------------
(***************************************************************************)
(* What happens before an order exists.  The solo cart, the idempotency    *)
(* key, the group cart and its slot lock have no row in common, so the run *)
(* explores each on its own: part says what the requests are for.          *)
(***************************************************************************)
EXTENDS GroupCart, GroupSlotLock, SoloCart, OrderPlacement, TLC

VARIABLE part

cartsVars == <<groupRows, lock, cartRows, placeRows, workVars, part>>

CartsInit ==
  /\ part \in {"group", "lock", "cart", "place"}
  /\ GroupInit /\ LockInit /\ CartInit /\ PlaceInit /\ WorkInit
  /\ part # "group" => group = "none"

CartsNext ==
  \/ part = "group" /\ GroupNext /\ UNCHANGED <<lock, cartRows, placeRows, part>>
  \/ part = "lock" /\ LockNext /\ UNCHANGED <<groupRows, cartRows, placeRows, part>>
  \/ part = "cart" /\ CartNext /\ UNCHANGED <<groupRows, lock, placeRows, part>>
  \/ part = "place" /\ PlaceNext /\ UNCHANGED <<groupRows, lock, cartRows, part>>

CartsSpec == CartsInit /\ [][CartsNext]_cartsVars

\* Three items, the last one of another vendor.
MCSellerOf == [i \in Items |-> IF i = "i3" THEN "v2" ELSE "v1"]

\* One amount is negative, and with the last it adds up to a bill of two.
MCSplitAmounts == {-1, 0, 3}

CartsSymmetry == Permutations(Workers) \cup Permutations(Groups) \cup Permutations(Slots)

(* The rows, keys and requests of carts and groups have their types.         *)
CartsTypeOK == GroupTypeOK /\ LockTypeOK /\ CartTypeOK /\ PlaceTypeOK
=============================================================================

------------------------------ MODULE SoloCart ------------------------------
(***************************************************************************)
(* The cart of one student (cart/router.py): a JSON value in Redis that    *)
(* every request reads, changes and writes back whole.  A checkout reads   *)
(* it, commits an order and deletes it.  Students share no cart, so one is *)
(* enough.                                                                 *)
(***************************************************************************)
EXTENDS Integers, Worker

CONSTANTS
  Items,       \* menu items
  Sellers,     \* vendors
  SellerOf,    \* menu_items.vendor_id
  Quantities   \* quantities a request adds

ASSUME SellerAssumption == SellerOf \in [Items -> Sellers]
ASSUME QuantityAssumption == Quantities \subseteq Nat \ {0}

VARIABLES
  cart,     \* the quantity of each item, and vendor_id
  added,    \* quantities added by answered requests (history)
  dropped,  \* quantities removed, cleared or expired (history)
  ordered   \* quantities in committed orders (history)

cartRows == <<cart, added, dropped, ordered>>
cartVars == <<cartRows, workVars>>

None == [i \in Items |-> 0]
Plus(f, g) == [i \in Items |-> f[i] + g[i]]

\* A missing key reads as an empty cart.  vendors: the set of its vendor_id.
EmptyCart == [vendors |-> {}, items |-> None]

CartInit == cart = EmptyCart /\ added = None /\ dropped = None /\ ordered = None

-----------------------------------------------------------------------------
BeginAdd(w, i, n) ==
  /\ cart.vendors \subseteq {SellerOf[i]}
  /\ Begin(w, [at |-> "adding", item |-> i, n |-> n, seen |-> cart])
  /\ UNCHANGED cartRows

SaveAdd(w) ==
  LET t == work[w]
  IN /\ t.at = "adding"
     /\ cart' = [vendors |-> {SellerOf[t.item]}, items |-> [t.seen.items EXCEPT ![t.item] = @ + t.n]]
     /\ added' = [added EXCEPT ![t.item] = @ + t.n]
     /\ Finish(w)
     /\ UNCHANGED <<dropped, ordered>>

BeginRemove(w, i) ==
  /\ cart.items[i] > 0
  /\ Begin(w, [at |-> "removing", item |-> i, seen |-> cart])
  /\ UNCHANGED cartRows

\* Mutant: the last item leaves its vendor behind.
SaveRemoveKeepsVendor(w) ==
  LET t == work[w]
  IN /\ t.at = "removing"
     /\ cart' = [vendors |-> t.seen.vendors, items |-> [t.seen.items EXCEPT ![t.item] = 0]]
     /\ dropped' = [dropped EXCEPT ![t.item] = @ + t.seen.items[t.item]]
     /\ Finish(w)
     /\ UNCHANGED <<added, ordered>>

SaveRemove(w) ==
  LET t == work[w]
      left == [t.seen.items EXCEPT ![t.item] = 0]
  IN /\ t.at = "removing"
     /\ cart' = IF left = None THEN EmptyCart ELSE [vendors |-> t.seen.vendors, items |-> left]
     /\ dropped' = [dropped EXCEPT ![t.item] = @ + t.seen.items[t.item]]
     /\ Finish(w)
     /\ UNCHANGED <<added, ordered>>

\* DELETE /cart, which reads nothing; or twelve hours without a write, which
\* may overlap a request as well and is bounded like one.
ClearCart ==
  /\ AtOnce
  /\ cart' = EmptyCart
  /\ dropped' = Plus(dropped, cart.items)
  /\ UNCHANGED <<added, ordered>>

BeginCheckout(w) ==
  /\ cart.items # None
  /\ Begin(w, [at |-> "checkout", items |-> cart.items])
  /\ UNCHANGED cartRows

\* checkout_order_for_user commits an order with what the request read, or
\* raises and the cart stays.
CommitCartOrder(w) ==
  LET t == work[w]
  IN /\ t.at = "checkout"
     /\ \/ ordered' = Plus(ordered, t.items) /\ Continue(w, [at |-> "ordered"])
        \/ Finish(w) /\ UNCHANGED ordered
     /\ UNCHANGED <<cart, added, dropped>>

\* The key is deleted, with whatever was saved in it since.
EmptyAfterOrder(w) ==
  /\ work[w].at = "ordered"
  /\ cart' = EmptyCart
  /\ Finish(w)
  /\ UNCHANGED <<added, dropped, ordered>>

-----------------------------------------------------------------------------
CartStep(w) ==
  \/ \E i \in Items : BeginRemove(w, i) \/ \E n \in Quantities : BeginAdd(w, i, n)
  \/ SaveAdd(w)
  \/ SaveRemove(w)
  \/ BeginCheckout(w)
  \/ CommitCartOrder(w)
  \/ EmptyAfterOrder(w)
  \/ Die(w) /\ UNCHANGED cartRows

CartNext == (\E w \in Workers : CartStep(w)) \/ ClearCart

CartSpec == CartInit /\ WorkInit /\ [][CartNext]_cartVars

-----------------------------------------------------------------------------
CartTypeOK ==
  /\ WorkTypeOK
  /\ cart \in [vendors : SUBSET Sellers, items : [Items -> Nat]]
  /\ {added, dropped, ordered} \subseteq [Items -> Nat]

(* A cart holds items of one vendor, the one it names, and names none when   *)
(* it is empty, whichever requests overwrite each other: the whole value is  *)
(* written at once (cart/router.py:118-142, 157-166).                        *)
CartHasOneVendor == cart.vendors = {SellerOf[i] : i \in {j \in Items : cart.items[j] > 0}}

(* However requests race and die, a cart never holds more of an item than    *)
(* was added to it: an overwritten save loses items and makes none.          *)
NothingAppears == \A i \in Items : cart.items[i] <= added[i]

(* As long as no two requests overlapped and none died, every item added is  *)
(* in the cart, in an order or was dropped, and only once.                   *)
ItemsAreAccountedFor ==
  ~raced /\ died = 0 /\ (\A w \in Workers : work[w].at # "ordered")
    => added = Plus(cart.items, Plus(ordered, dropped))

(* A cart can be answered for: one vendor, no item from nowhere, and none    *)
(* lost where nothing overlapped.                                            *)
CartAddsUp == CartHasOneVendor /\ NothingAppears /\ ItemsAreAccountedFor
=============================================================================

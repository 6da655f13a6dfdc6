----------------------------- MODULE GroupCart -----------------------------
(***************************************************************************)
(* A group cart (group_cart/service.py): its members, the items each has   *)
(* put in it, how they split the bill and the orders its owner places for  *)
(* them.  Every check is a SELECT of its own and no table has a unique     *)
(* constraint.  Groups share nothing but slots (see GroupSlotLock), so one *)
(* group is enough; one menu item of price 1 stands for the menu.          *)
(***************************************************************************)
EXTENDS Sums, Worker

CONSTANTS
  Users,
  Owner,         \* groups.owner_id
  CartRows,      \* group_cart_items rows that may be inserted
  SplitRows,     \* group_payment_splits rows that may be inserted
  CartQuantities,\* quantities a request adds
  SplitAmounts   \* amounts of a split

ASSUME OwnerAssumption == Owner \in Users
ASSUME RowsAssumption == IsFiniteSet(Users) /\ IsFiniteSet(CartRows)
ASSUME SplitAmountsAssumption == 0 \in SplitAmounts /\ SplitAmounts \subseteq Int
ASSUME CartQuantitiesAssumption == CartQuantities \subseteq Int

VARIABLES
  group,    \* "none", or groups.status
  member,   \* group_members rows of each user
  basket,   \* the group_cart_items rows
  split,    \* the group_payment_splits rows
  locked,   \* the group has a group_slot_locks row, expired or not
  receipt   \* what the last group order answered

groupRows == <<group, member, basket, split, locked, receipt>>
groupVars == <<groupRows, workVars>>

NoItem == [owner |-> "none"]
NoSplit == [user |-> "none"]
NoReceipt == [placed |-> "none"]
Item == [owner : Users, quantity : Int]
Split == [user : Users, type : {"equal", "custom", "unified"}, amount : SplitAmounts]

\* A group is created by a request, or is there with some members.
GroupInit ==
  /\ \/ group = "none" /\ member = [u \in Users |-> 0]
     \/ group = "active" /\ member \in [Users -> {0, 1}] /\ member[Owner] = 1
  /\ basket = [r \in CartRows |-> NoItem]
  /\ split = [r \in SplitRows |-> NoSplit]
  /\ locked = FALSE
  /\ receipt = NoReceipt

-----------------------------------------------------------------------------
Holds(u) == {r \in CartRows : basket[r] # NoItem /\ basket[r].owner = u}
SplitsOf(u) == {r \in SplitRows : split[r] # NoSplit /\ split[r].user = u}
Quantity(u) == SumOf([r \in Holds(u) |-> basket[r].quantity])

\* create_group commits the group, then its owner's membership.
BeginCreate(w) ==
  /\ group = "none"
  /\ group' = "active"
  /\ Begin(w, [at |-> "founded"])
  /\ UNCHANGED <<member, basket, split, locked, receipt>>

JoinOwner(w) ==
  /\ work[w].at = "founded"
  /\ member' = [member EXCEPT ![Owner] = @ + 1]
  /\ Finish(w)
  /\ UNCHANGED <<group, basket, split, locked, receipt>>

\* Any member invites a user who is none.
BeginInvite(w, u) ==
  /\ \E v \in Users : member[v] > 0
  /\ member[u] = 0
  /\ Begin(w, [at |-> "inviting", user |-> u])
  /\ UNCHANGED groupRows

CommitInvite(w) ==
  /\ work[w].at = "inviting"
  /\ member' = [member EXCEPT ![work[w].user] = @ + 1]
  /\ Finish(w)
  /\ UNCHANGED <<group, basket, split, locked, receipt>>

\* Mutant: the item is not looked for in the cart.
BeginPutAlways(w, u, n) ==
  /\ member[u] > 0
  /\ Begin(w, [at |-> "putting", user |-> u, n |-> n])
  /\ UNCHANGED groupRows

\* add_cart_item: a row of the user is updated, the first one found, or inserted.
BeginPut(w, u, n) ==
  /\ member[u] > 0
  /\ IF Holds(u) = {}
     THEN Begin(w, [at |-> "putting", user |-> u, n |-> n])
     ELSE \E r \in Holds(u) :
            Begin(w, [at |-> "raising", row |-> r, total |-> basket[r].quantity + n])
  /\ UNCHANGED groupRows

\* Ids of new rows: not those a request in progress has loaded.
NewItems == {r \in CartRows : basket[r] = NoItem /\ \A v \in Workers :
                                work[v].at = "raising" => work[v].row # r}
NewSplits == {r \in SplitRows : split[r] = NoSplit /\ \A v \in Workers :
                                   work[v].at = "splitting" => r \notin work[v].old}

InsertItem(w) ==
  /\ work[w].at = "putting"
  /\ NewItems # {}
  /\ basket' = [basket EXCEPT ![CHOOSE r \in NewItems : TRUE] =
                  [owner |-> work[w].user, quantity |-> work[w].n]]
  /\ Finish(w)
  /\ UNCHANGED <<group, member, split, locked, receipt>>

\* The sum is written; a row that is gone by now makes the request fail.
UpdateItem(w) ==
  LET t == work[w]
  IN /\ t.at = "raising"
     /\ basket' = IF basket[t.row] = NoItem THEN basket
                  ELSE [basket EXCEPT ![t.row] = [owner |-> basket[t.row].owner, quantity |-> t.total]]
     /\ Finish(w)
     /\ UNCHANGED <<group, member, split, locked, receipt>>

\* remove_cart_item, by the owner of the item.
RemoveItem(r) ==
  /\ basket[r] # NoItem
  /\ AtOnce
  /\ basket' = [basket EXCEPT ![r] = NoItem]
  /\ UNCHANGED <<group, member, split, locked, receipt>>

\* set_payment_split deletes the rows of the user that it finds; the amount of
\* a split that is not CUSTOM is stored unseen (None counts as 0) ...
BeginSplit(w, u, s) ==
  /\ member[u] > 0
  /\ s.user = u /\ (s.type = "custom" => s.amount >= 0)
  /\ Begin(w, [at |-> "splitting", old |-> SplitsOf(u), new |-> s])
  /\ UNCHANGED groupRows

\* ... and inserts one under a new id.
CommitSplit(w) ==
  LET t == work[w]
  IN /\ t.at = "splitting"
     /\ NewSplits # {}
     /\ split' = [r \in SplitRows |-> IF r = (CHOOSE x \in NewSplits : TRUE) THEN t.new
                                     ELSE IF r \in t.old THEN NoSplit ELSE split[r]]
     /\ Finish(w)
     /\ UNCHANGED <<group, member, basket, locked, receipt>>

\* lock_slot, which any member may call.
LockSlot ==
  /\ ~locked
  /\ \E u \in Users : member[u] > 0
  /\ locked' = TRUE
  /\ UNCHANGED <<group, member, basket, split, receipt, workVars>>

\* Mutant: quantities are left out.
BeginGroupOrderOfOne(w) ==
  /\ member[Owner] > 0 /\ locked
  /\ LET buyers == {u \in Users : member[u] > 0 /\ Holds(u) # {}}
     IN /\ buyers # {}
        /\ Begin(w, [at |-> "ordering", orders |-> [u \in buyers |-> member[u]],
                     total |-> [u \in buyers |-> Cardinality(Holds(u))]])
  /\ UNCHANGED groupRows

\* place_group_order loads group, members, items and lock.  It asks neither
\* for the status of the group nor whether the lock has expired.
BeginGroupOrder(w) ==
  /\ member[Owner] > 0
  /\ locked
  /\ \E r \in CartRows : basket[r] # NoItem
  /\ LET buyers == {u \in Users : member[u] > 0 /\ Holds(u) # {}}
     IN /\ buyers # {}
        /\ Begin(w, [at |-> "ordering", orders |-> [u \in buyers |-> member[u]],
                     total |-> [u \in buyers |-> Quantity(u)]])
  /\ UNCHANGED groupRows

\* Mutant: the remainder is dropped.
EqualSplitsFloor(M, total) == {[u \in M |-> total \div Cardinality(M)]}

\* _equal_split: the first members of the list, in whatever order the rows
\* came, pay one more.
EqualSplits(M, total) ==
  {[u \in M |-> total \div Cardinality(M) + IF u \in X THEN 1 ELSE 0] :
     X \in {Y \in SUBSET M : Cardinality(Y) = total % Cardinality(M)}}

\* _build_split_reconciliation: the bills it may return for the split rows.
\* The first row decides; of two rows of a user the last one counts.
Bills(M, total) ==
  LET rows == {r \in SplitRows : split[r] # NoSplit}
      first == {split[r].type : r \in rows}
  IN (IF rows = {} \/ "equal" \in first THEN EqualSplits(M, total) ELSE {})
     \cup (IF "unified" \in first /\ Owner \in M
           THEN {[u \in M |-> IF u = Owner THEN total ELSE 0]} ELSE {})
     \cup (IF "custom" \in first
           THEN {f \in [M -> SplitAmounts] :
                   SumOf(f) = total /\ \A u \in M : \E r \in SplitsOf(u) : split[r].amount = f[u]}
           ELSE {})

\* Orders, payments and the status commit together; the cart stays as it is.
\* An item that is not available, or a split that does not add up, rolls back.
CommitGroupOrder(w) ==
  LET t == work[w]
  IN /\ t.at = "ordering"
     /\ \/ UNCHANGED groupRows
        \/ \E bill \in Bills(DOMAIN t.total, SumOf(t.total)) :
             /\ receipt' = [orders |-> t.orders, total |-> t.total, payable |-> bill]
             /\ group' = "ordered"
             /\ UNCHANGED <<member, basket, split, locked>>
     /\ Finish(w)

-----------------------------------------------------------------------------
GroupStep(w) ==
  \/ BeginCreate(w)
  \/ JoinOwner(w)
  \/ \E u \in Users :
       \/ BeginInvite(w, u)
       \/ \E n \in CartQuantities : BeginPut(w, u, n)
       \/ \E s \in Split : BeginSplit(w, u, s)
  \/ CommitInvite(w)
  \/ InsertItem(w)
  \/ UpdateItem(w)
  \/ CommitSplit(w)
  \/ BeginGroupOrder(w)
  \/ CommitGroupOrder(w)
  \/ Die(w) /\ UNCHANGED groupRows

GroupNext == (\E w \in Workers : GroupStep(w)) \/ (\E r \in CartRows : RemoveItem(r)) \/ LockSlot

GroupSpec == GroupInit /\ WorkInit /\ [][GroupNext]_groupVars

-----------------------------------------------------------------------------
GroupTypeOK ==
  /\ WorkTypeOK
  /\ group \in {"none", "active", "ordered"}
  /\ member \in [Users -> Nat]
  /\ basket \in [CartRows -> Item \cup {NoItem}]
  /\ split \in [SplitRows -> Split \cup {NoSplit}]
  /\ locked \in BOOLEAN
  /\ \/ receipt = NoReceipt
     \/ \E M \in SUBSET Users :
          receipt \in [orders : [M -> Nat], total : [M -> Int], payable : [M -> Int]]

(* As long as no two requests overlapped, a user is a member once, has one   *)
(* row for an item and one split (the checks of group_cart/service.py:123,   *)
(* 177 and 484 stand in for constraints the tables do not have).             *)
GroupRowsAreUnique ==
  ~raced => \A u \in Users :
    member[u] <= 1 /\ Cardinality(Holds(u)) <= 1 /\ Cardinality(SplitsOf(u)) <= 1

(* The owner of a group is a member of it unless the request that created it *)
(* is still in progress or died between its two commits                      *)
(* (group_cart/service.py:72-82); without that nobody gets into the group.   *)
OwnerIsMember ==
  group # "none" /\ died = 0 /\ (\A w \in Workers : work[w].at # "founded") => member[Owner] > 0

(* The rows of a group fit together: nobody is in it twice and its owner is. *)
GroupIsWhole == GroupRowsAreUnique /\ OwnerIsMember

(* The payments of a group order cover its orders to the last paisa, however *)
(* it is split and whatever else changes meanwhile, as long as no user is a  *)
(* member twice, which orders and charges her twice                          *)
(* (group_cart/service.py:301-370, 420-461).                                 *)
GroupOrderIsCovered ==
  receipt # NoReceipt /\ (\A u \in DOMAIN receipt.orders : receipt.orders[u] = 1)
    => /\ DOMAIN receipt.payable = DOMAIN receipt.total
       /\ SumOf(receipt.payable) = SumOf(receipt.total)

(* "Custom split requires a non-negative amount" (group_cart/service.py:481): *)
(* nobody is billed less than nothing.                                       *)
NobodyIsBilledLess == receipt # NoReceipt => \A u \in DOMAIN receipt.payable : receipt.payable[u] >= 0

(* A group order that overlapped no other request orders what each member    *)
(* has in the cart, once.                                                    *)
OrdersTheCart ==
  [][receipt' # receipt /\ ~raced =>
       /\ DOMAIN receipt'.total = {u \in Users : member[u] > 0 /\ Holds(u) # {}}
       /\ \A u \in DOMAIN receipt'.total :
            receipt'.total[u] = Quantity(u) /\ receipt'.orders[u] = 1
    ]_groupVars
=============================================================================

---------------------------- MODULE Carts_proofs ----------------------------
(***************************************************************************)
(* Theorems about what happens before an order exists: the group cart, its *)
(* slot lock, the solo cart and the idempotency key, for any users, rows,  *)
(* items, keys and requests.                                               *)
(***************************************************************************)
EXTENDS MCCarts, ServiceLemmas

-----------------------------------------------------------------------------
(* The group cart. *)

(* The members who have something in the cart. *)
Buyers == {u \in Users : member[u] > 0 /\ Holds(u) # {}}

(* The tasks of requests about a group; an order is of at least one buyer. *)
GroupTask ==
  [at : {"founded"}]
    \cup [at : {"inviting"}, user : Users]
    \cup [at : {"putting"}, user : Users, n : CartQuantities]
    \cup [at : {"raising"}, row : CartRows, total : Int]
    \cup [at : {"splitting"}, old : SUBSET SplitRows, new : Split]
    \cup UNION {[at : {"ordering"}, orders : [M -> Nat], total : [M -> Int]] : M \in (SUBSET Users) \ {{}}}

(* No two rows say the same of one user. *)
RowsDiffer ==
  \A u \in Users :
    /\ member[u] <= 1
    /\ \A q, r \in Holds(u) : q = r
    /\ \A q, r \in SplitsOf(u) : q = r

(* What a request has read is still so.                                       *)
Fits(t) ==
  /\ t.at = "founded" => member[Owner] = 0
  /\ t.at = "inviting" => member[t.user] = 0
  /\ t.at = "putting" => Holds(t.user) = {}
  /\ t.at = "splitting" => t.old = SplitsOf(t.new.user)
  /\ t.at = "ordering" =>
       /\ DOMAIN t.total = Buyers
       /\ \A u \in Buyers : t.total[u] = Quantity(u) /\ t.orders[u] = member[u]

(* Nobody is in a group, or about to be, before there is one.                 *)
NoGroupNoMembers ==
  group = "none" =>
    /\ \A u \in Users : member[u] = 0
    /\ \A w \in Workers : work[w].at \notin {"founded", "inviting", "ordering"}

(* The payments of the last order cover it. *)
ReceiptCovers ==
  receipt # NoReceipt =>
    DOMAIN receipt.payable = DOMAIN receipt.total /\ SumOf(receipt.payable) = SumOf(receipt.total)

(* The inductive invariant of a group: what a request has read is only known *)
(* to be so while no two requests overlapped.                                *)
GroupInv ==
  /\ GroupTypeOK /\ Alone /\ Typed(GroupTask)
  /\ ~raced => RowsDiffer /\ \A w \in Workers : Fits(work[w])
  /\ NoGroupNoMembers /\ OwnerIsMember /\ ReceiptCovers

(* What a task about a group is. *)
LEMMA GroupShapes ==
  ASSUME Typed(GroupTask), NEW w \in Workers
  PROVE  /\ work[w].at = "founded" => work[w] # Rest
         /\ work[w].at = "inviting" => work[w] # Rest /\ work[w].user \in Users
         /\ work[w].at = "putting" =>
              work[w] # Rest /\ work[w].user \in Users /\ work[w].n \in CartQuantities
         /\ work[w].at = "raising" => work[w] # Rest /\ work[w].row \in CartRows /\ work[w].total \in Int
         /\ work[w].at = "splitting" =>
              work[w] # Rest /\ work[w].old \in SUBSET SplitRows /\ work[w].new \in Split
         /\ work[w].at = "ordering" =>
              /\ work[w] # Rest
              /\ \E M \in (SUBSET Users) \ {{}} :
                   work[w] \in [at : {"ordering"}, orders : [M -> Nat], total : [M -> Int]]
         /\ work[w] = Rest <=> work[w].at = "rest"
<1>1. Rest.at = "rest"
  BY DEF Rest
<1>2. work[w] \in GroupTask \cup {Rest}
  BY DEF Typed
<1> QED
  BY <1>1, <1>2 DEF GroupTask

(* What the invariant says of the rows. *)
LEMMA GroupFacts ==
  ASSUME GroupInv
  PROVE  /\ WorkTypeOK /\ Alone /\ Typed(GroupTask) /\ GroupTypeOK
         /\ group \in {"none", "active", "ordered"}
         /\ member \in [Users -> Nat]
         /\ basket \in [CartRows -> Item \cup {NoItem}]
         /\ split \in [SplitRows -> Split \cup {NoSplit}]
         /\ died \in Nat /\ Owner \in Users
BY WorkerBounds, OwnerAssumption DEF GroupInv, GroupTypeOK, WorkTypeOK

-----------------------------------------------------------------------------

(* Equal shares, with one more for the members of X, add up. *)
LEMMA EqualShares ==
  ASSUME NEW M, IsFiniteSet(M), NEW q \in Int, NEW X \in SUBSET M
  PROVE  SumOf([u \in M |-> q + IF u \in X THEN 1 ELSE 0]) = q * Cardinality(M) + Cardinality(X)
<1> DEFINE f == [u \in M |-> q + IF u \in X THEN 1 ELSE 0]
           T == {U \in SUBSET M : SumOn(f, U) = q * Cardinality(U) + Cardinality(U \cap X)}
<1>0. \A x \in M : f[x] \in Int /\ f[x] = q + IF x \in X THEN 1 ELSE 0
  OBVIOUS
<1>1. ASSUME NEW U \in SUBSET M, \A V \in SUBSET U : V # U => V \in T
      PROVE  U \in T
  <2>1. CASE U = {}
    <3>1. Cardinality(U) = 0 /\ Cardinality(U \cap X) = 0
      BY <2>1, FS_EmptySet
    <3>2. SumOn(f, U) = 0
      BY <2>1, SumOnEmpty
    <3> QED
      BY <3>1, <3>2
  <2>2. CASE U # {}
    <3>1. PICK x \in U : TRUE
      BY <2>2
    <3> DEFINE V == U \ {x}
    <3>2. V \in SUBSET U /\ V # U /\ x \notin V
      BY <3>1
    <3>3. IsFiniteSet(U) /\ IsFiniteSet(V) /\ IsFiniteSet(U \cap X) /\ IsFiniteSet(V \cap X)
      BY FS_Subset
    <3>4. Cardinality(U) = Cardinality(V) + 1 /\ Cardinality(V) \in Nat
      BY <3>1, <3>3, FS_RemoveElement, FS_CardinalityType
    <3>5. Cardinality(V \cap X) \in Nat
      BY <3>3, FS_CardinalityType
    <3>6. SumOn(f, V) = q * Cardinality(V) + Cardinality(V \cap X)
      BY <1>1, <3>2
    <3>7. SumOn(f, U) = f[x] + SumOn(f, V)
      <4> HIDE DEF f
      <4> QED
        BY <1>0, <3>1, <3>3, SumOnSplit
    <3>8. Cardinality(U \cap X) = Cardinality(V \cap X) + IF x \in X THEN 1 ELSE 0
      <4>1. CASE x \in X
        <5>1. U \cap X = (V \cap X) \cup {x} /\ x \notin V \cap X
          BY <3>1, <4>1
        <5>2. Cardinality((V \cap X) \cup {x}) = Cardinality(V \cap X) + 1
          BY <3>3, <5>1, FS_AddElement
        <5> QED
          BY <4>1, <5>1, <5>2
      <4>2. CASE x \notin X
        <5>1. U \cap X = V \cap X
          BY <4>2
        <5> QED
          BY <3>5, <4>2, <5>1
      <4> QED
        BY <4>1, <4>2
    <3> HIDE DEF f, V
    <3>9. q * Cardinality(U) = q * Cardinality(V) + q
      BY <3>4
    <3>10. PICK c \in Int : c = q * Cardinality(V)
      BY <3>4
    <3>11. PICK e \in {0, 1} : e = IF x \in X THEN 1 ELSE 0
      OBVIOUS
    <3>12. f[x] = q + e
      BY <1>0, <3>1, <3>11
    <3>13. SumOn(f, U) = (q + e) + (c + Cardinality(V \cap X))
      BY <3>6, <3>7, <3>10, <3>12
    <3>14. q * Cardinality(U) + Cardinality(U \cap X) = (c + q) + (Cardinality(V \cap X) + e)
      BY <3>8, <3>9, <3>10, <3>11
    <3>15. SumOn(f, U) = q * Cardinality(U) + Cardinality(U \cap X)
      BY <3>5, <3>13, <3>14
    <3> QED
      BY <3>15
  <2> QED
    BY <2>1, <2>2
<1>2. M \in T
  <2> HIDE DEF T
  <2>1. \A U \in SUBSET M : U \in T
    BY <1>1, SubsetInduction
  <2> QED
    BY <2>1
<1>3. SumOf(f) = SumOn(f, M) /\ M \cap X = X
  BY SumOfIsSumOn
<1> QED
  BY <1>2, <1>3

(* A bill that one member pays adds up. *)
LEMMA OnePays ==
  ASSUME NEW M, IsFiniteSet(M), NEW o \in M, NEW n \in Int
  PROVE  SumOf([u \in M |-> IF u = o THEN n ELSE 0]) = n
<1> DEFINE f == [u \in M |-> 0]
           g == [u \in M |-> IF u = o THEN n ELSE 0]
<1>1. f \in [M -> {0}] /\ f \in [M -> Int] /\ g \in [M -> Int] /\ f[o] = 0 /\ g[o] = n
      /\ \A y \in M \ {o} : g[y] = f[y]
  OBVIOUS
<1> HIDE DEF f, g
<1>2. SumOf(f) = 0
  BY <1>1, SumOfZeros
<1>3. SumOf(g) = (SumOf(f) - f[o]) + g[o]
  BY <1>1, SumUpdate
<1>4. SumOf(g) = n
  BY <1>1, <1>2, <1>3
<1> QED
  BY <1>4 DEF g

(* Quotient and remainder, for every number of members. *)
LEMMA Remainder ==
  \A n \in Int : \A d \in Nat \ {0} : n % d \in 0 .. d - 1 /\ n % d = n - (n \div d) * d
<1>1. \A n \in Int : \A d \in Nat \ {0} : n % d \in 0 .. d - 1
  OBVIOUS
<1>2. \A n \in Int : \A d \in Nat \ {0} : n % d = n - (n \div d) * d
  BY SMTT(30)
<1> QED
  BY <1>1, <1>2, Zenon

(* What is left over after equal shares are taken is the remainder. *)
LEMMA DivisionSplits ==
  \A n \in Int : \A d \in Nat \ {0} : \A c : c = n % d =>
    \E q \in Int : q = n \div d /\ q * d + c = n
<1> SUFFICES ASSUME NEW n \in Int, NEW d \in Nat \ {0}, NEW c, c = n % d
             PROVE  \E q \in Int : q = n \div d /\ q * d + c = n
  OBVIOUS
<1>1. n \div d \in Int
  OBVIOUS
<1>2. PICK q \in Int : q = n \div d
  BY <1>1
<1>3. n % d \in 0 .. d - 1 /\ n % d = n - (n \div d) * d
  BY Remainder
<1>4. c = n - (n \div d) * d
  BY <1>3, Zenon
<1>5. c = n - q * d
  BY <1>2, <1>4, Zenon
<1>6. q * d \in Int
  OBVIOUS
<1>7. q * d + c = n
  BY <1>5, <1>6
<1> QED
  BY <1>2, <1>7

(* Whatever the split rows say, a bill adds up to the total.                  *)
LEMMA BillsCover ==
  ASSUME NEW M \in SUBSET Users, M # {}, NEW n \in Int, NEW bill \in Bills(M, n)
  PROVE  bill \in [M -> Int] /\ SumOf(bill) = n
<1>1. IsFiniteSet(M)
  BY RowsAssumption, FS_Subset
<1>2. Cardinality(M) \in Nat /\ Cardinality(M) > 0
  BY <1>1, FS_CardinalityType, FS_EmptySet
<1>3. CASE bill \in EqualSplits(M, n)
  <2>1. PICK X \in SUBSET M :
          /\ Cardinality(X) = n % Cardinality(M)
          /\ bill = [u \in M |-> n \div Cardinality(M) + IF u \in X THEN 1 ELSE 0]
    BY <1>3 DEF EqualSplits
  <2>2. Cardinality(M) \in Nat \ {0}
    BY <1>2
  <2>3. PICK q \in Int : q = n \div Cardinality(M) /\ q * Cardinality(M) + Cardinality(X) = n
    BY <2>1, <2>2, DivisionSplits, Zenon
  <2>4. bill = [u \in M |-> q + IF u \in X THEN 1 ELSE 0]
    BY <2>1, <2>3
  <2>5. SumOf(bill) = q * Cardinality(M) + Cardinality(X)
    BY <1>1, <2>4, EqualShares
  <2>6. bill \in [M -> Int]
    BY <2>4
  <2> QED
    BY <2>3, <2>5, <2>6, Zenon
<1>4. CASE Owner \in M /\ bill = [u \in M |-> IF u = Owner THEN n ELSE 0]
  BY <1>1, <1>4, OnePays
<1>5. CASE bill \in [M -> SplitAmounts] /\ SumOf(bill) = n
  <2>1. SplitAmounts \subseteq Int
    BY SplitAmountsAssumption
  <2>2. bill \in [M -> Int]
    BY <1>5, <2>1
  <2> QED
    BY <1>5, <2>2
<1> QED
  BY <1>3, <1>4, <1>5 DEF Bills

(* The quantity a user has in the cart is an integer. *)
LEMMA QuantityType ==
  ASSUME GroupTypeOK, NEW u \in Users
  PROVE  Quantity(u) \in Int
<1>1. IsFiniteSet(Holds(u))
  BY RowsAssumption, FS_Subset DEF Holds
<1>2. [r \in Holds(u) |-> basket[r].quantity] \in [Holds(u) -> Int]
  BY DEF GroupTypeOK, Holds, Item
<1> QED
  BY <1>1, <1>2, SumType DEF Quantity

-----------------------------------------------------------------------------

(* An item is not a row without one. *)
LEMMA ItemFields ==
  ASSUME NEW u \in Users, NEW n \in Int
  PROVE  [owner |-> u, quantity |-> n] \in Item /\ [owner |-> u, quantity |-> n] # NoItem
<1>1. [owner |-> u, quantity |-> n] \in Item
  BY DEF Item
<1> DEFINE i == [owner |-> u, quantity |-> n]
<1>2. "quantity" \in DOMAIN i /\ "quantity" \notin DOMAIN NoItem
  BY DEF NoItem
<1>3. i # NoItem
  BY <1>2
<1> QED
  BY <1>1, <1>3

(* A split is not a row without one. *)
LEMMA SplitFields == ASSUME NEW s \in Split PROVE s # NoSplit /\ s.user \in Users
<1>1. "type" \in DOMAIN s /\ "type" \notin DOMAIN NoSplit /\ s.user \in Users
  BY DEF Split, NoSplit
<1>2. s # NoSplit
  BY <1>1
<1> QED
  BY <1>1, <1>2

(* The type invariant without the workers. *)
GroupRowsOK ==
  /\ group \in {"none", "active", "ordered"}
  /\ member \in [Users -> Nat]
  /\ basket \in [CartRows -> Item \cup {NoItem}]
  /\ split \in [SplitRows -> Split \cup {NoSplit}]
  /\ locked \in BOOLEAN
  /\ \/ receipt = NoReceipt
     \/ \E M \in SUBSET Users :
          receipt \in [orders : [M -> Nat], total : [M -> Int], payable : [M -> Int]]

(* The type invariant is the one of the rows and of the workers. *)
LEMMA GroupRowsAreTyped ==
  /\ GroupTypeOK => WorkTypeOK /\ GroupRowsOK
  /\ WorkTypeOK /\ GroupRowsOK => GroupTypeOK
BY DEF GroupTypeOK, GroupRowsOK

(* GroupInv holds at first. *)
LEMMA GroupInitInductive == GroupInit /\ WorkInit => GroupInv
<1> SUFFICES ASSUME GroupInit, WorkInit PROVE GroupInv
  OBVIOUS
<1>1. WorkTypeOK /\ Alone /\ Typed(GroupTask)
  BY WorkInitHolds
<1>2. \A w \in Workers : work[w].at = "rest"
  BY DEF WorkInit, Rest
<1>3. member \in [Users -> {0, 1}] /\ group \in {"none", "active"}
  BY DEF GroupInit
<1>4. locked \in BOOLEAN
  BY DEF GroupInit
<1>5. GroupRowsOK
  BY <1>3, <1>4 DEF GroupInit, GroupRowsOK
<1>6. RowsDiffer
  BY <1>3 DEF GroupInit, RowsDiffer, Holds, SplitsOf
<1>7. \A w \in Workers : Fits(work[w])
  BY <1>2 DEF Fits
<1>8. NoGroupNoMembers
  BY <1>2 DEF GroupInit, NoGroupNoMembers
<1>9. OwnerIsMember /\ ReceiptCovers
  BY DEF GroupInit, OwnerIsMember, ReceiptCovers
<1> QED
  BY <1>1, <1>5, <1>6, <1>7, <1>8, <1>9, GroupRowsAreTyped DEF GroupInv

(* A request that has only read: what it has read is so.                      *)
LEMMA GroupTaken ==
  ASSUME GroupInv, NEW w \in Workers, NEW t \in GroupTask, Begin(w, t), UNCHANGED groupRows,
         ~raced /\ RowsDiffer => Fits(t),
         t.at # "founded", group = "none" => t.at \notin {"inviting", "ordering"}
  PROVE  GroupInv'
<1>1. WorkTypeOK /\ Alone /\ Typed(GroupTask) /\ GroupRowsOK
  BY GroupRowsAreTyped DEF GroupInv
<1>2. /\ WorkTypeOK' /\ Alone' /\ Typed(GroupTask)'
      /\ work[w] = Rest /\ work'[w] = t /\ \A v \in Workers \ {w} : work'[v] = work[v]
      /\ ~raced' => ~raced /\ \A v \in Workers : work[v] = Rest
      /\ died' = died
  BY <1>1, TaskBegins
<1>3. /\ group' = group /\ member' = member /\ basket' = basket /\ split' = split
      /\ locked' = locked /\ receipt' = receipt
  BY DEF groupRows
<1>4. GroupTypeOK'
  BY <1>1, <1>2, <1>3, GroupRowsAreTyped DEF GroupTypeOK, GroupRowsOK
<1>5. Rest.at = "rest"
  BY DEF Rest
<1>6. ASSUME ~raced' PROVE RowsDiffer' /\ \A v \in Workers : Fits(work[v])'
  <2>1. RowsDiffer /\ Fits(t)
    BY <1>2, <1>6 DEF GroupInv
  <2>2. RowsDiffer'
    BY <1>3, <2>1 DEF RowsDiffer, Holds, SplitsOf
  <2>3. \A v \in Workers \ {w} : Fits(work[v])'
    BY <1>2, <1>5, <1>6 DEF Fits
  <2>4. Fits(t)'
    BY <1>3, <2>1 DEF Fits, Buyers, Holds, SplitsOf, Quantity
  <2>5. Fits(work[w])'
    BY <1>2, <2>4 DEF Fits, Buyers, Holds, SplitsOf, Quantity
  <2> QED
    BY <2>2, <2>3, <2>5
<1>7. NoGroupNoMembers'
  BY <1>2, <1>3, <1>5 DEF GroupInv, NoGroupNoMembers
<1>8. OwnerIsMember'
  BY <1>2, <1>3, <1>5 DEF GroupInv, OwnerIsMember
<1>9. ReceiptCovers'
  BY <1>3 DEF GroupInv, ReceiptCovers
<1> QED
  BY <1>2, <1>4, <1>6, <1>7, <1>8, <1>9 DEF GroupInv

(* A request that ends, having written or not.                                *)
LEMMA GroupWritten ==
  ASSUME GroupInv, NEW w \in Workers, work[w] # Rest, Finish(w) \/ Die(w),
         GroupRowsOK', ReceiptCovers',
         ~raced /\ RowsDiffer => RowsDiffer',
         \A u \in Users : member'[u] >= member[u],
         group = "none" => group' = group /\ member' = member,
         group # "none" => group' # "none",
         work[w].at = "founded" /\ died' = 0 => member'[Owner] > 0
  PROVE  GroupInv'
<1>1. WorkTypeOK /\ Alone /\ Typed(GroupTask) /\ GroupRowsOK
  BY GroupRowsAreTyped DEF GroupInv
<1>2. /\ WorkTypeOK' /\ Alone' /\ Typed(GroupTask)'
      /\ work'[w] = Rest /\ \A v \in Workers \ {w} : work'[v] = work[v]
      /\ ~raced => \A v \in Workers : work'[v] = Rest
      /\ raced' = raced /\ (died' = died \/ died' = died + 1)
  BY <1>1, TaskFinishes, TaskDies
<1>3. died \in Nat
  BY <1>1, WorkerBounds DEF WorkTypeOK
<1>4. Rest.at = "rest"
  BY DEF Rest
<1>5. GroupTypeOK'
  BY <1>2, GroupRowsAreTyped DEF GroupTypeOK, GroupRowsOK
<1>6. ASSUME ~raced' PROVE RowsDiffer' /\ \A v \in Workers : Fits(work[v])'
  <2>1. RowsDiffer'
    BY <1>2, <1>6 DEF GroupInv
  <2>2. \A v \in Workers : Fits(work[v])'
    BY <1>2, <1>4, <1>6 DEF Fits
  <2> QED
    BY <2>1, <2>2
<1>7. NoGroupNoMembers'
  BY <1>2, <1>4 DEF GroupInv, NoGroupNoMembers
<1>8. OwnerIsMember'
  <2> SUFFICES ASSUME group' # "none", died' = 0, \A v \in Workers : work'[v].at # "founded"
               PROVE  member'[Owner] > 0
    BY DEF OwnerIsMember
  <2>1. CASE work[w].at = "founded"
    BY <2>1
  <2>2. CASE work[w].at # "founded"
    <3>1. group # "none" /\ died = 0
      BY <1>2, <1>3
    <3>2. \A v \in Workers : work[v].at # "founded"
      BY <1>2, <2>2
    <3>3. member[Owner] > 0
      BY <3>1, <3>2 DEF GroupInv, OwnerIsMember
    <3>4. member[Owner] \in Nat /\ member'[Owner] \in Nat /\ member'[Owner] >= member[Owner]
      BY <1>1, OwnerAssumption DEF GroupRowsOK
    <3> QED
      BY <3>3, <3>4
  <2> QED
    BY <2>1, <2>2
<1> QED
  BY <1>2, <1>5, <1>6, <1>7, <1>8 DEF GroupInv

(* GroupInv is kept when create_group has committed the group. *)
LEMMA BeginCreateInductive == ASSUME GroupInv, NEW w \in Workers, BeginCreate(w) PROVE GroupInv'
<1>1. WorkTypeOK /\ Alone /\ Typed(GroupTask) /\ GroupRowsOK
  BY GroupRowsAreTyped DEF GroupInv
<1>2. PICK t : t = [at |-> "founded"]
  OBVIOUS
<1>3. t \in GroupTask /\ t.at = "founded"
  BY <1>2 DEF GroupTask
<1>4. /\ group = "none" /\ group' = "active" /\ Begin(w, t)
      /\ member' = member /\ basket' = basket /\ split' = split /\ locked' = locked
      /\ receipt' = receipt
  BY <1>2 DEF BeginCreate
<1>5. /\ WorkTypeOK' /\ Alone' /\ Typed(GroupTask)'
      /\ work'[w] = t /\ \A v \in Workers \ {w} : work'[v] = work[v]
      /\ ~raced' => ~raced /\ \A v \in Workers : work[v] = Rest
  BY <1>1, <1>3, <1>4, TaskBegins
<1>6. GroupTypeOK'
  BY <1>1, <1>4, <1>5 DEF GroupTypeOK, GroupRowsOK
<1>7. ASSUME ~raced' PROVE RowsDiffer' /\ \A v \in Workers : Fits(work[v])'
  <2>1. RowsDiffer /\ \A v \in Workers \ {w} : work'[v].at = "rest"
    BY <1>5, <1>7 DEF GroupInv, Rest
  <2>2. RowsDiffer'
    BY <1>4, <2>1 DEF RowsDiffer, Holds, SplitsOf
  <2>3. member[Owner] = 0
    BY <1>4, OwnerAssumption DEF GroupInv, NoGroupNoMembers
  <2>4. \A v \in Workers : Fits(work[v])'
    BY <1>3, <1>4, <1>5, <2>1, <2>3 DEF Fits
  <2> QED
    BY <2>2, <2>4
<1>8. NoGroupNoMembers'
  BY <1>4 DEF NoGroupNoMembers
<1>9. OwnerIsMember'
  BY <1>3, <1>5 DEF OwnerIsMember
<1>10. ReceiptCovers'
  BY <1>4 DEF GroupInv, ReceiptCovers
<1> QED
  BY <1>5, <1>6, <1>7, <1>8, <1>9, <1>10 DEF GroupInv

(* create_group and invite_member insert a membership (group_cart/service.py:76, 131). *)
LEMMA MemberJoins ==
  ASSUME GroupInv, NEW w \in Workers, work[w] # Rest, Finish(w), NEW u \in Users,
         ~raced => member[u] = 0, group # "none",
         member' = [member EXCEPT ![u] = @ + 1],
         UNCHANGED <<group, basket, split, locked, receipt>>,
         work[w].at = "founded" => u = Owner
  PROVE  GroupInv'
<1>1. GroupRowsOK
  BY GroupRowsAreTyped DEF GroupInv
<1>2. member \in [Users -> Nat] /\ Owner \in Users
  BY <1>1, OwnerAssumption DEF GroupRowsOK
<1>3. /\ member' \in [Users -> Nat] /\ member'[u] = member[u] + 1
      /\ \A v \in Users \ {u} : member'[v] = member[v]
  BY <1>2
<1>4. \A v \in Users : member'[v] >= member[v]
  BY <1>2, <1>3
<1>5. GroupRowsOK'
  BY <1>1, <1>3 DEF GroupRowsOK
<1>6. ReceiptCovers'
  BY DEF GroupInv, ReceiptCovers
<1>7. ~raced /\ RowsDiffer => RowsDiffer'
  BY <1>2, <1>3 DEF RowsDiffer, Holds, SplitsOf
<1>8. work[w].at = "founded" => member'[Owner] > 0
  BY <1>2, <1>3
<1>9. group' # "none"
  OBVIOUS
<1> QED
  BY <1>4, <1>5, <1>6, <1>7, <1>8, <1>9, GroupWritten

(* GroupInv is kept when it commits the membership of the owner. *)
LEMMA JoinOwnerInductive == ASSUME GroupInv, NEW w \in Workers, JoinOwner(w) PROVE GroupInv'
<1>1. work[w].at = "founded" /\ work[w] # Rest
  BY GroupFacts, GroupShapes DEF JoinOwner
<1>2. group # "none"
  BY <1>1 DEF GroupInv, NoGroupNoMembers
<1>3. ~raced => member[Owner] = 0
  BY <1>1 DEF GroupInv, Fits
<1> QED
  BY <1>1, <1>2, <1>3, MemberJoins, OwnerAssumption DEF JoinOwner

(* GroupInv is kept when invite_member commits one. *)
LEMMA CommitInviteInductive == ASSUME GroupInv, NEW w \in Workers, CommitInvite(w) PROVE GroupInv'
<1>1. work[w].at = "inviting" /\ work[w] # Rest /\ work[w].user \in Users
  BY GroupFacts, GroupShapes DEF CommitInvite
<1>2. PICK u \in Users : work[w].user = u
  BY <1>1
<1>3. group # "none"
  BY <1>1 DEF GroupInv, NoGroupNoMembers
<1>4. ~raced => member[u] = 0
  BY <1>1, <1>2 DEF GroupInv, Fits
<1>5. Finish(w) /\ member' = [member EXCEPT ![u] = @ + 1]
      /\ UNCHANGED <<group, basket, split, locked, receipt>>
  BY <1>2 DEF CommitInvite
<1> QED
  BY <1>1, <1>3, <1>4, <1>5, MemberJoins

(* GroupInv is kept when it has found none. *)
LEMMA BeginInviteInductive ==
  ASSUME GroupInv, NEW w \in Workers, NEW u \in Users, BeginInvite(w, u) PROVE GroupInv'
<1>1. PICK t : t = [at |-> "inviting", user |-> u]
  OBVIOUS
<1>2. t \in GroupTask /\ t.at = "inviting" /\ t.user = u
  BY <1>1 DEF GroupTask
<1>3. Begin(w, t) /\ UNCHANGED groupRows /\ member[u] = 0 /\ \E v \in Users : member[v] > 0
  BY <1>1 DEF BeginInvite
<1>4. group # "none"
  BY <1>3 DEF GroupInv, NoGroupNoMembers
<1>5. Fits(t)
  BY <1>2, <1>3 DEF Fits
<1> QED
  BY <1>2, <1>3, <1>4, <1>5, GroupTaken

(* GroupInv is kept when add_cart_item has looked for a row of the user. *)
LEMMA BeginPutInductive ==
  ASSUME GroupInv, NEW w \in Workers, NEW u \in Users, NEW n \in CartQuantities, BeginPut(w, u, n)
  PROVE  GroupInv'
<1>0. UNCHANGED groupRows
  BY DEF BeginPut
<1>1. CASE Holds(u) = {}
  <2>1. PICK t : t = [at |-> "putting", user |-> u, n |-> n]
    OBVIOUS
  <2>2. t \in GroupTask /\ t.at = "putting" /\ t.user = u
    BY <2>1 DEF GroupTask
  <2>3. Begin(w, t)
    BY <1>1, <2>1 DEF BeginPut
  <2>4. Fits(t)
    BY <1>1, <2>2 DEF Fits
  <2> QED
    BY <1>0, <2>2, <2>3, <2>4, GroupTaken
<1>2. CASE Holds(u) # {}
  <2>1. PICK r \in Holds(u) :
          Begin(w, [at |-> "raising", row |-> r, total |-> basket[r].quantity + n])
    BY <1>2 DEF BeginPut
  <2>2. r \in CartRows /\ basket[r].quantity \in Int
    BY GroupFacts DEF Holds, Item
  <2>3. basket[r].quantity + n \in Int
    BY <2>2, CartQuantitiesAssumption
  <2>4. PICK m \in Int : m = basket[r].quantity + n
    BY <2>3
  <2>5. PICK t : t = [at |-> "raising", row |-> r, total |-> m]
    OBVIOUS
  <2>6. t \in GroupTask /\ t.at = "raising"
    BY <2>2, <2>5 DEF GroupTask
  <2>7. Begin(w, t)
    BY <2>1, <2>4, <2>5
  <2>8. Fits(t)
    BY <2>6 DEF Fits
  <2> QED
    BY <1>0, <2>6, <2>7, <2>8, GroupTaken
<1> QED
  BY <1>1, <1>2

(* GroupInv is kept when set_payment_split has deleted the rows it found. *)
LEMMA BeginSplitInductive ==
  ASSUME GroupInv, NEW w \in Workers, NEW u \in Users, NEW s \in Split, BeginSplit(w, u, s)
  PROVE  GroupInv'
<1>1. PICK old \in SUBSET SplitRows : old = SplitsOf(u)
  BY DEF SplitsOf
<1>2. PICK t : t = [at |-> "splitting", old |-> old, new |-> s]
  OBVIOUS
<1>3. t \in GroupTask /\ t.at = "splitting" /\ t.old = old /\ t.new = s
  BY <1>2 DEF GroupTask
<1>4. Begin(w, t) /\ UNCHANGED groupRows /\ s.user = u
  BY <1>1, <1>2 DEF BeginSplit
<1>5. Fits(t)
  BY <1>1, <1>3, <1>4 DEF Fits
<1> QED
  BY <1>3, <1>4, <1>5, GroupTaken

(* GroupInv is kept when place_group_order has loaded the cart. *)
LEMMA BeginGroupOrderInductive ==
  ASSUME GroupInv, NEW w \in Workers, BeginGroupOrder(w) PROVE GroupInv'
<1>1. PICK M \in SUBSET Users : M = Buyers
  BY DEF Buyers
<1>2. PICK f \in [M -> Nat] : f = [u \in Buyers |-> member[u]]
  BY <1>1, GroupFacts
<1>3. PICK g \in [M -> Int] : g = [u \in Buyers |-> Quantity(u)]
  <2>1. \A u \in M : Quantity(u) \in Int
    BY GroupFacts, QuantityType
  <2> QED
    BY <1>1, <2>1
<1>4. PICK t : t = [at |-> "ordering", orders |-> f, total |-> g]
  OBVIOUS
<1>5. M # {} /\ Begin(w, t) /\ UNCHANGED groupRows /\ member[Owner] > 0
  BY <1>1, <1>2, <1>3, <1>4 DEF BeginGroupOrder, Buyers
<1>6. t \in GroupTask
  <2>1. M \in (SUBSET Users) \ {{}}
    BY <1>5
  <2>2. t \in [at : {"ordering"}, orders : [M -> Nat], total : [M -> Int]]
    BY <1>4
  <2> QED
    BY <2>1, <2>2 DEF GroupTask
<1>7. t.at = "ordering" /\ t.orders = f /\ t.total = g
  BY <1>4
<1>8. Fits(t)
  BY <1>1, <1>2, <1>3, <1>7 DEF Fits
<1>9. group # "none"
  BY <1>5, OwnerAssumption DEF GroupInv, NoGroupNoMembers
<1> QED
  BY <1>5, <1>6, <1>7, <1>8, <1>9, GroupTaken

(* A row of a user, or none, is all she has after a write that touched        *)
(* nobody else's.                                                             *)
LEMMA InsertItemInductive == ASSUME GroupInv, NEW w \in Workers, InsertItem(w) PROVE GroupInv'
<1>1. /\ work[w].at = "putting" /\ work[w] # Rest /\ work[w].user \in Users
      /\ work[w].n \in CartQuantities
  BY GroupFacts, GroupShapes DEF InsertItem
<1>2. PICK u \in Users : work[w].user = u
  BY <1>1
<1>3. PICK n \in Int : work[w].n = n
  BY <1>1, CartQuantitiesAssumption
<1>4. PICK i : i = [owner |-> u, quantity |-> n]
  OBVIOUS
<1>5. i \in Item /\ i # NoItem /\ i.owner = u
  BY <1>4, ItemFields
<1>6. PICK r \in NewItems : r = CHOOSE x \in NewItems : TRUE
  BY DEF InsertItem
<1>7. r \in CartRows /\ basket[r] = NoItem
  BY <1>6 DEF NewItems
<1>8. /\ Finish(w) /\ basket' = [basket EXCEPT ![r] = i]
      /\ UNCHANGED <<group, member, split, locked, receipt>>
  BY <1>2, <1>3, <1>4, <1>6 DEF InsertItem
<1>9. GroupRowsOK
  BY GroupRowsAreTyped DEF GroupInv
<1>10. /\ basket' \in [CartRows -> Item \cup {NoItem}] /\ basket'[r] = i
       /\ \A q \in CartRows \ {r} : basket'[q] = basket[q]
  BY <1>5, <1>7, <1>8, <1>9 DEF GroupRowsOK
<1>11. GroupRowsOK'
  BY <1>8, <1>9, <1>10 DEF GroupRowsOK
<1>12. ReceiptCovers'
  BY <1>8 DEF GroupInv, ReceiptCovers
<1>13. ASSUME ~raced, RowsDiffer PROVE RowsDiffer'
  <2>1. Holds(u) = {}
    BY <1>1, <1>2, <1>13 DEF GroupInv, Fits
  <2>2. \A q \in Holds(u)' : q = r
    BY <1>10, <2>1 DEF Holds
  <2>3. \A v \in Users \ {u} : Holds(v)' \subseteq Holds(v)
    BY <1>5, <1>10 DEF Holds
  <2>4. \A v \in Users : \A p, q \in Holds(v)' : p = q
    BY <1>13, <2>2, <2>3 DEF RowsDiffer
  <2>5. \A v \in Users : SplitsOf(v)' = SplitsOf(v)
    BY <1>8 DEF SplitsOf
  <2> QED
    BY <1>8, <1>13, <2>4, <2>5 DEF RowsDiffer
<1>14. \A v \in Users : member'[v] >= member[v]
  BY <1>8, <1>9 DEF GroupRowsOK
<1>15. group' = group /\ member' = member /\ work[w].at # "founded"
  BY <1>1, <1>8
<1> QED
  BY <1>1, <1>8, <1>11, <1>12, <1>13, <1>14, <1>15, GroupWritten

(* GroupInv is kept when it writes the sum into the one it found. *)
LEMMA UpdateItemInductive == ASSUME GroupInv, NEW w \in Workers, UpdateItem(w) PROVE GroupInv'
<1>1. /\ work[w].at = "raising" /\ work[w] # Rest /\ work[w].row \in CartRows
      /\ work[w].total \in Int
  BY GroupFacts, GroupShapes DEF UpdateItem
<1>2. PICK r \in CartRows : work[w].row = r
  BY <1>1
<1>3. PICK n \in Int : work[w].total = n
  BY <1>1
<1>4. Finish(w) /\ UNCHANGED <<group, member, split, locked, receipt>>
  BY DEF UpdateItem
<1>5. GroupRowsOK
  BY GroupRowsAreTyped DEF GroupInv
<1>6. /\ basket' \in [CartRows -> Item \cup {NoItem}]
      /\ \A q \in CartRows : (basket'[q] = NoItem <=> basket[q] = NoItem)
      /\ \A q \in CartRows : basket[q] # NoItem => basket'[q].owner = basket[q].owner
  <2>1. CASE basket[r] = NoItem
    <3>1. basket' = basket
      BY <1>2, <2>1 DEF UpdateItem
    <3> QED
      BY <1>5, <3>1 DEF GroupRowsOK
  <2>2. CASE basket[r] # NoItem
    <3>1. PICK u \in Users : u = basket[r].owner
      BY <1>5, <2>2 DEF GroupRowsOK, Item
    <3>2. PICK i : i = [owner |-> u, quantity |-> n]
      OBVIOUS
    <3>3. i \in Item /\ i # NoItem /\ i.owner = u
      BY <3>2, ItemFields
    <3>4. basket' = [basket EXCEPT ![r] = i]
      BY <1>2, <1>3, <2>2, <3>1, <3>2 DEF UpdateItem
    <3> QED
      BY <1>5, <2>2, <3>1, <3>3, <3>4 DEF GroupRowsOK
  <2> QED
    BY <2>1, <2>2
<1>7. GroupRowsOK'
  BY <1>4, <1>5, <1>6 DEF GroupRowsOK
<1>8. ReceiptCovers'
  BY <1>4 DEF GroupInv, ReceiptCovers
<1>9. \A v \in Users : Holds(v)' = Holds(v) /\ SplitsOf(v)' = SplitsOf(v)
  BY <1>4, <1>6 DEF Holds, SplitsOf
<1>10. RowsDiffer => RowsDiffer'
  BY <1>4, <1>9 DEF RowsDiffer
<1>11. \A v \in Users : member'[v] >= member[v]
  BY <1>4, <1>5 DEF GroupRowsOK
<1>12. group' = group /\ member' = member /\ work[w].at # "founded"
  BY <1>1, <1>4
<1> QED
  BY <1>1, <1>4, <1>7, <1>8, <1>10, <1>11, <1>12, GroupWritten

(* GroupInv is kept when set_payment_split inserts its row. *)
LEMMA CommitSplitInductive == ASSUME GroupInv, NEW w \in Workers, CommitSplit(w) PROVE GroupInv'
<1>1. /\ work[w].at = "splitting" /\ work[w] # Rest /\ work[w].old \in SUBSET SplitRows
      /\ work[w].new \in Split
  BY GroupFacts, GroupShapes DEF CommitSplit
<1>2. PICK s \in Split : work[w].new = s
  BY <1>1
<1>3. PICK old \in SUBSET SplitRows : work[w].old = old
  BY <1>1
<1>4. s # NoSplit /\ s.user \in Users
  BY SplitFields
<1>5. PICK r \in NewSplits : r = CHOOSE x \in NewSplits : TRUE
  BY DEF CommitSplit
<1>6. r \in SplitRows /\ split[r] = NoSplit
  BY <1>5 DEF NewSplits
<1>7. /\ Finish(w) /\ UNCHANGED <<group, member, basket, locked, receipt>>
      /\ split' = [q \in SplitRows |-> IF q = r THEN s ELSE IF q \in old THEN NoSplit ELSE split[q]]
  BY <1>2, <1>3, <1>5 DEF CommitSplit
<1>8. GroupRowsOK
  BY GroupRowsAreTyped DEF GroupInv
<1>9. /\ split' \in [SplitRows -> Split \cup {NoSplit}] /\ split'[r] = s
      /\ \A q \in SplitRows \ {r} : split'[q] = IF q \in old THEN NoSplit ELSE split[q]
  BY <1>6, <1>7, <1>8 DEF GroupRowsOK
<1>10. GroupRowsOK'
  BY <1>7, <1>8, <1>9 DEF GroupRowsOK
<1>11. ReceiptCovers'
  BY <1>7 DEF GroupInv, ReceiptCovers
<1>12. ASSUME ~raced, RowsDiffer PROVE RowsDiffer'
  <2>1. old = SplitsOf(s.user)
    <3>1. Fits(work[w])
      BY <1>12 DEF GroupInv
    <3> QED
      BY <1>1, <1>2, <1>3, <3>1 DEF Fits
  <2>2. \A q \in SplitsOf(s.user)' : q = r
    BY <1>9, <2>1 DEF SplitsOf
  <2>3. \A v \in Users \ {s.user} : SplitsOf(v)' \subseteq SplitsOf(v)
    BY <1>9 DEF SplitsOf
  <2>4. \A v \in Users : \A p, q \in SplitsOf(v)' : p = q
    BY <1>12, <2>2, <2>3 DEF RowsDiffer
  <2>5. \A v \in Users : Holds(v)' = Holds(v)
    BY <1>7 DEF Holds
  <2> QED
    BY <1>7, <1>12, <2>4, <2>5 DEF RowsDiffer
<1>13. \A v \in Users : member'[v] >= member[v]
  BY <1>7, <1>8 DEF GroupRowsOK
<1>14. group' = group /\ member' = member /\ work[w].at # "founded"
  BY <1>1, <1>7
<1> QED
  BY <1>1, <1>7, <1>10, <1>11, <1>12, <1>13, <1>14, GroupWritten

(* What a group order writes.                                                 *)
LEMMA GroupOrderWrites ==
  ASSUME GroupInv, NEW w \in Workers, CommitGroupOrder(w), ~UNCHANGED groupRows
  PROVE  /\ work[w].at = "ordering" /\ work[w] # Rest
         /\ group' = "ordered" /\ UNCHANGED <<member, basket, split, locked>>
         /\ receipt'.orders = work[w].orders /\ receipt'.total = work[w].total
         /\ \E M \in SUBSET Users :
              receipt' \in [orders : [M -> Nat], total : [M -> Int], payable : [M -> Int]]
         /\ DOMAIN receipt'.payable = DOMAIN receipt'.total
         /\ SumOf(receipt'.payable) = SumOf(receipt'.total)
<1>1. work[w].at = "ordering" /\ work[w] # Rest
  BY GroupFacts, GroupShapes DEF CommitGroupOrder
<1>2. PICK M \in (SUBSET Users) \ {{}} :
        work[w] \in [at : {"ordering"}, orders : [M -> Nat], total : [M -> Int]]
  BY <1>1, GroupFacts, GroupShapes
<1>3. PICK f \in [M -> Nat] : work[w].orders = f
  BY <1>2
<1>4. PICK g \in [M -> Int] : work[w].total = g
  BY <1>2
<1>5. PICK bill \in Bills(DOMAIN g, SumOf(g)) :
        /\ receipt' = [orders |-> f, total |-> g, payable |-> bill]
        /\ group' = "ordered" /\ UNCHANGED <<member, basket, split, locked>>
  BY <1>3, <1>4 DEF CommitGroupOrder
<1>6. DOMAIN g = M /\ SumOf(g) \in Int
  <2>1. IsFiniteSet(M)
    BY RowsAssumption, FS_Subset
  <2> QED
    BY <2>1, SumType
<1>7. bill \in [M -> Int] /\ SumOf(bill) = SumOf(g)
  BY <1>5, <1>6, BillsCover
<1> QED
  BY <1>1, <1>3, <1>4, <1>5, <1>7

(* GroupInv is kept when a group order commits or rolls back. *)
LEMMA CommitGroupOrderInductive ==
  ASSUME GroupInv, NEW w \in Workers, CommitGroupOrder(w) PROVE GroupInv'
<1>1. work[w].at = "ordering" /\ work[w] # Rest /\ Finish(w)
  BY GroupFacts, GroupShapes DEF CommitGroupOrder
<1>2. GroupRowsOK /\ group # "none"
  BY <1>1, GroupRowsAreTyped DEF GroupInv, NoGroupNoMembers
<1>3. /\ UNCHANGED <<member, basket, split, locked>>
      /\ GroupRowsOK' /\ ReceiptCovers' /\ group' # "none"
  <2>1. CASE UNCHANGED groupRows
    BY <1>2, <2>1 DEF groupRows, GroupRowsOK, GroupInv, ReceiptCovers
  <2>2. CASE ~UNCHANGED groupRows
    BY <1>2, <2>2, GroupOrderWrites DEF GroupRowsOK, ReceiptCovers
  <2> QED
    BY <2>1, <2>2
<1>4. RowsDiffer => RowsDiffer'
  BY <1>3 DEF RowsDiffer, Holds, SplitsOf
<1>5. \A v \in Users : member'[v] >= member[v]
  BY <1>2, <1>3 DEF GroupRowsOK
<1> QED
  BY <1>1, <1>2, <1>3, <1>4, <1>5, GroupWritten

(* GroupInv is kept when a request dies. *)
LEMMA GroupDieInductive ==
  ASSUME GroupInv, NEW w \in Workers, Die(w), UNCHANGED groupRows PROVE GroupInv'
<1>1. /\ group' = group /\ member' = member /\ basket' = basket /\ split' = split
      /\ locked' = locked /\ receipt' = receipt
  BY DEF groupRows
<1>2. work[w] # Rest /\ died' = died + 1 /\ died \in Nat
  BY GroupFacts DEF Die
<1>3. GroupRowsOK' /\ ReceiptCovers' /\ \A v \in Users : member'[v] >= member[v]
  <2>1. GroupRowsOK
    BY GroupRowsAreTyped DEF GroupInv
  <2> QED
    BY <1>1, <2>1 DEF GroupRowsOK, GroupInv, ReceiptCovers
<1>4. RowsDiffer => RowsDiffer'
  BY <1>1 DEF RowsDiffer, Holds, SplitsOf
<1>5. died' # 0
  BY <1>2
<1> QED
  BY <1>1, <1>2, <1>3, <1>4, <1>5, GroupWritten

(* A step of no request in progress: an item is removed, a slot is locked.    *)
LEMMA GroupIdles ==
  ASSUME GroupInv, AtOnce \/ UNCHANGED workVars, GroupRowsOK', ReceiptCovers',
         group' = group, member' = member, RowsDiffer => RowsDiffer',
         work' = work /\ ~raced' => \A v \in Workers : Fits(work[v])'
  PROVE  GroupInv'
<1>1. WorkTypeOK /\ Alone /\ Typed(GroupTask)
  BY GroupRowsAreTyped DEF GroupInv
<1>2. /\ WorkTypeOK' /\ Alone' /\ Typed(GroupTask)'
      /\ work' = work /\ died' = died /\ (~raced' => ~raced)
  BY <1>1, RequestAtOnce, NoRequest
<1>3. GroupTypeOK'
  BY <1>2, GroupRowsAreTyped DEF GroupTypeOK, GroupRowsOK
<1>4. ~raced' => RowsDiffer' /\ \A v \in Workers : Fits(work[v])'
  BY <1>2 DEF GroupInv
<1>5. NoGroupNoMembers' /\ OwnerIsMember'
  BY <1>2 DEF GroupInv, NoGroupNoMembers, OwnerIsMember
<1> QED
  BY <1>2, <1>3, <1>4, <1>5 DEF GroupInv

(* GroupInv is kept when remove_cart_item deletes a row. *)
LEMMA RemoveItemInductive == ASSUME GroupInv, NEW r \in CartRows, RemoveItem(r) PROVE GroupInv'
<1>1. /\ AtOnce /\ basket' = [basket EXCEPT ![r] = NoItem]
      /\ group' = group /\ member' = member /\ split' = split /\ locked' = locked
      /\ receipt' = receipt
  BY DEF RemoveItem
<1>2. GroupRowsOK
  BY GroupRowsAreTyped DEF GroupInv
<1>3. /\ basket' \in [CartRows -> Item \cup {NoItem}] /\ basket'[r] = NoItem
      /\ \A q \in CartRows \ {r} : basket'[q] = basket[q]
  BY <1>1, <1>2 DEF GroupRowsOK
<1>4. GroupRowsOK' /\ ReceiptCovers'
  BY <1>1, <1>2, <1>3 DEF GroupRowsOK, GroupInv, ReceiptCovers
<1>5. \A v \in Users : Holds(v)' \subseteq Holds(v) /\ SplitsOf(v)' = SplitsOf(v)
  BY <1>1, <1>3 DEF Holds, SplitsOf
<1>6. RowsDiffer => RowsDiffer'
  BY <1>1, <1>5 DEF RowsDiffer
<1>7. ASSUME work' = work, ~raced' PROVE \A v \in Workers : Fits(work[v])'
  <2>1. \A v \in Workers : work'[v].at = "rest"
    BY <1>1, <1>7, GroupFacts, RequestAtOnce DEF Rest
  <2> QED
    BY <2>1 DEF Fits
<1> QED
  BY <1>1, <1>4, <1>6, <1>7, GroupIdles

(* GroupInv is kept when a slot is locked or nothing happens. *)
LEMMA LockSlotInductive ==
  ASSUME GroupInv, LockSlot \/ UNCHANGED groupVars PROVE GroupInv'
<1>1. /\ group' = group /\ member' = member /\ basket' = basket /\ split' = split
      /\ locked' \in {locked, TRUE} /\ receipt' = receipt /\ UNCHANGED workVars
  BY DEF LockSlot, groupVars, groupRows
<1>2. GroupRowsOK
  BY GroupRowsAreTyped DEF GroupInv
<1>3. locked' \in BOOLEAN
  BY <1>1, <1>2 DEF GroupRowsOK
<1>4. GroupRowsOK' /\ ReceiptCovers'
  BY <1>1, <1>2, <1>3 DEF GroupRowsOK, GroupInv, ReceiptCovers
<1>5. RowsDiffer => RowsDiffer'
  BY <1>1 DEF RowsDiffer, Holds, SplitsOf
<1>6. ASSUME work' = work, ~raced' PROVE \A v \in Workers : Fits(work[v])'
  <2>1. \A v \in Workers : Fits(work[v])
    BY <1>1, <1>6 DEF GroupInv, workVars
  <2> QED
    BY <1>1, <1>6, <2>1 DEF Fits, Buyers, Holds, SplitsOf, Quantity
<1> QED
  BY <1>1, <1>4, <1>5, <1>6, GroupIdles

(* GroupInv is inductive: every step keeps it. *)
LEMMA GroupNextInductive == ASSUME GroupInv, [GroupNext]_groupVars PROVE GroupInv'
BY BeginCreateInductive, JoinOwnerInductive, BeginInviteInductive, BeginPutInductive,
   BeginSplitInductive, CommitInviteInductive, InsertItemInductive, UpdateItemInductive,
   CommitSplitInductive, BeginGroupOrderInductive, CommitGroupOrderInductive,
   GroupDieInductive, RemoveItemInductive, LockSlotInductive
   DEF GroupNext, GroupStep

(* The step that writes a receipt orders what the cart holds. *)
LEMMA GroupNextOrders ==
  ASSUME GroupInv, [GroupNext]_groupVars, receipt' # receipt, ~raced
  PROVE  /\ DOMAIN receipt'.total = {u \in Users : member[u] > 0 /\ Holds(u) # {}}
         /\ \A u \in DOMAIN receipt'.total :
              receipt'.total[u] = Quantity(u) /\ receipt'.orders[u] = 1
<1>1. PICK w \in Workers : CommitGroupOrder(w)
  BY DEF GroupNext, GroupStep, groupVars, groupRows, BeginCreate, JoinOwner, BeginInvite, BeginPut,
         BeginSplit, CommitInvite, InsertItem, UpdateItem, CommitSplit, BeginGroupOrder,
         RemoveItem, LockSlot
<1>2. ~UNCHANGED groupRows
  BY DEF groupRows
<1>3. /\ work[w].at = "ordering"
      /\ receipt'.orders = work[w].orders /\ receipt'.total = work[w].total
  BY <1>1, <1>2, GroupOrderWrites
<1>4. RowsDiffer /\ Fits(work[w])
  BY DEF GroupInv
<1>5. /\ DOMAIN work[w].total = Buyers
      /\ \A u \in Buyers : work[w].total[u] = Quantity(u) /\ work[w].orders[u] = member[u]
  BY <1>3, <1>4 DEF Fits
<1>6. \A u \in Buyers : member[u] = 1
  BY <1>4, GroupFacts DEF Buyers, RowsDiffer
<1> QED
  BY <1>3, <1>5, <1>6 DEF Buyers

(* The invariant says what is claimed of a group. *)
LEMMA GroupInvSuffices == GroupInv => GroupTypeOK /\ GroupIsWhole /\ GroupOrderIsCovered
<1> SUFFICES ASSUME GroupInv PROVE GroupTypeOK /\ GroupIsWhole /\ GroupOrderIsCovered
  OBVIOUS
<1>1. GroupTypeOK /\ OwnerIsMember /\ GroupOrderIsCovered
  BY DEF GroupInv, ReceiptCovers, GroupOrderIsCovered
<1>2. ASSUME ~raced, NEW u \in Users
      PROVE  member[u] <= 1 /\ Cardinality(Holds(u)) <= 1 /\ Cardinality(SplitsOf(u)) <= 1
  <2>1. member[u] <= 1 /\ (\A q, r \in Holds(u) : q = r) /\ (\A q, r \in SplitsOf(u) : q = r)
    BY <1>2 DEF GroupInv, RowsDiffer
  <2>2. Cardinality(Holds(u)) \in {0, 1} /\ Cardinality(SplitsOf(u)) \in {0, 1}
    BY <2>1, AtMostOne
  <2> QED
    BY <2>1, <2>2
<1> QED
  BY <1>1, <1>2 DEF GroupIsWhole, GroupRowsAreUnique

(* However many users, rows and requests: the type invariant of a group, its  *)
(* rows fit together, and the payments of a group order cover its orders      *)
(* (group_cart/service.py:72-82, 123, 301-370, 420-461).                      *)
THEOREM GroupsAreSound == GroupSpec => [](GroupTypeOK /\ GroupIsWhole /\ GroupOrderIsCovered)
<1>1. GroupInit /\ WorkInit => GroupInv
  BY GroupInitInductive
<1>2. GroupInv /\ [GroupNext]_groupVars => GroupInv'
  BY GroupNextInductive
<1> QED
  BY <1>1, <1>2, GroupInvSuffices, PTL DEF GroupSpec

(* A group order that overlapped no request orders the cart as it is when it  *)
(* commits (group_cart/service.py:388-461).                                   *)
THEOREM GroupsOrderTheCart == GroupSpec => OrdersTheCart
<1>1. GroupInit /\ WorkInit => GroupInv
  BY GroupInitInductive
<1>2. GroupInv /\ [GroupNext]_groupVars => GroupInv'
  BY GroupNextInductive
<1> DEFINE A == receipt' # receipt /\ ~raced =>
       /\ DOMAIN receipt'.total = {u \in Users : member[u] > 0 /\ Holds(u) # {}}
       /\ \A u \in DOMAIN receipt'.total :
            receipt'.total[u] = Quantity(u) /\ receipt'.orders[u] = 1
<1>3. GroupInv /\ [GroupNext]_groupVars => [A]_groupVars
  BY GroupNextOrders
<1>4. OrdersTheCart <=> [][A]_groupVars
  BY DEF OrdersTheCart
<1> QED
  BY <1>1, <1>2, <1>3, <1>4, PTL DEF GroupSpec

-----------------------------------------------------------------------------
(* The slot lock of a group. *)

(* The tasks of requests that lock a slot. *)
LockTask ==
  [at : {"free"}, group : Groups, slot : Slots, minutes : Minutes, loaded : SUBSET LockRows]
    \cup [at : {"insert"}, group : Groups, slot : Slots, minutes : Minutes]
    \cup [at : {"update"}, group : Groups, slot : Slots, minutes : Minutes, row : LockRows, seen : Slots]

(* A row that is to be updated is there and stays that of its group: no lock  *)
(* row is ever deleted.                                                       *)
LoadedLocksExist ==
  \A w \in Workers :
    work[w].at = "update" => lock[work[w].row] # NoLock /\ lock[work[w].row].group = work[w].group

(* A slot has one fresh lock and a group one row. *)
LocksDiffer ==
  /\ \A s \in Slots : \A q, r \in FreshLocks(s) : q = r
  /\ \A g \in Groups : \A q, r \in LocksOf(g) : q = r

(* What the check of a request found is still so when the request writes.     *)
ChecksHold ==
  \A w \in Workers :
    /\ work[w].at \in {"free", "insert"} =>
         \A r \in FreshLocks(work[w].slot) : lock[r].group = work[w].group
    /\ work[w].at = "free" => \A r \in work[w].loaded : lock[r] # NoLock /\ lock[r].slot = work[w].slot
    /\ work[w].at = "insert" => LocksOf(work[w].group) = {}
    /\ work[w].at = "update" =>
         /\ lock[work[w].row].slot = work[w].seen
         /\ \A r \in FreshLocks(work[w].slot) : r = work[w].row

(* The inductive invariant of the slot locks. *)
LockInv ==
  /\ LockTypeOK /\ Alone /\ Typed(LockTask) /\ LoadedLocksExist
  /\ ~raced => LocksDiffer /\ ChecksHold

(* What a task about a lock is. *)
LEMMA LockShapes ==
  ASSUME Typed(LockTask), NEW w \in Workers
  PROVE  /\ work[w].at \in {"free", "insert", "update"} =>
              /\ work[w] # Rest /\ work[w].group \in Groups /\ work[w].slot \in Slots
              /\ work[w].minutes \in Minutes
         /\ work[w].at = "free" => work[w].loaded \in SUBSET LockRows
         /\ work[w].at = "update" => work[w].row \in LockRows /\ work[w].seen \in Slots
         /\ work[w] = Rest <=> work[w].at = "rest"
<1>1. Rest.at = "rest"
  BY DEF Rest
<1>2. work[w] \in LockTask \cup {Rest}
  BY DEF Typed
<1> QED
  BY <1>1, <1>2 DEF LockTask

(* A lock is not a row without one. *)
LEMMA LockFields ==
  ASSUME NEW g \in Groups, NEW s \in Slots, NEW b \in BOOLEAN
  PROVE  /\ [group |-> g, slot |-> s, fresh |-> b] \in Lock
         /\ [group |-> g, slot |-> s, fresh |-> b] # NoLock
<1>1. [group |-> g, slot |-> s, fresh |-> b] \in Lock
  BY Zenon DEF Lock
<1> DEFINE l == [group |-> g, slot |-> s, fresh |-> b]
<1>2. DOMAIN l = {"group", "slot", "fresh"} /\ DOMAIN NoLock = {"group"}
  BY DEF NoLock
<1>3. "slot" \in DOMAIN l /\ "slot" \notin DOMAIN NoLock
  BY <1>2
<1>4. l # NoLock
  BY <1>3
<1> QED
  BY <1>1, <1>4

(* The columns of a lock row. *)
LEMMA LockRowFields ==
  ASSUME LockTypeOK, NEW r \in LockRows, lock[r] # NoLock
  PROVE  lock[r].group \in Groups /\ lock[r].slot \in Slots /\ lock[r].fresh \in BOOLEAN
<1>1. lock[r] \in Lock
  BY DEF LockTypeOK
<1>2. lock[r].fresh \in BOOLEAN
  BY <1>1, Zenon DEF Lock
<1>3. lock[r].group \in Groups /\ lock[r].slot \in Slots
  BY <1>1 DEF Lock
<1> QED
  BY <1>2, <1>3

(* LockInv holds at first. *)
LEMMA LockInitInductive == LockInit /\ WorkInit => LockInv
<1> SUFFICES ASSUME LockInit, WorkInit PROVE LockInv
  OBVIOUS
<1>1. WorkTypeOK /\ Alone /\ Typed(LockTask)
  BY WorkInitHolds
<1>2. \A w \in Workers : work[w].at = "rest"
  BY DEF WorkInit, Rest
<1>3. LockTypeOK
  BY <1>1 DEF LockInit, LockTypeOK
<1>4. LocksDiffer
  BY DEF LockInit, LocksDiffer, FreshLocks, LocksOf
<1>5. ChecksHold /\ LoadedLocksExist
  BY <1>2 DEF ChecksHold, LoadedLocksExist
<1> QED
  BY <1>1, <1>3, <1>4, <1>5 DEF LockInv

(* LockInv is kept when lock_slot has found the slot free. *)
LEMMA BeginLockInductive ==
  ASSUME LockInv, NEW w \in Workers, NEW g \in Groups, NEW s \in Slots, NEW m \in Minutes,
         BeginLock(w, g, s, m)
  PROVE  LockInv'
<1>0. WorkTypeOK /\ Alone /\ Typed(LockTask)
  BY DEF LockInv, LockTypeOK
<1>1. PICK L \in SUBSET LockRows :
        /\ Begin(w, [at |-> "free", group |-> g, slot |-> s, minutes |-> m, loaded |-> L])
        /\ \/ L = {} /\ FreshLocks(s) = {}
           \/ \E r \in FreshLocks(s) : lock[r].group = g /\ L = {r}
        /\ lock' = lock
  <2>1. CASE FreshLocks(s) = {} /\ Begin(w, [at |-> "free", group |-> g, slot |-> s, minutes |-> m, loaded |-> {}])
    BY <2>1 DEF BeginLock
  <2>2. ASSUME NEW r \in FreshLocks(s), lock[r].group = g,
               Begin(w, [at |-> "free", group |-> g, slot |-> s, minutes |-> m, loaded |-> {r}])
        PROVE  \E L \in SUBSET LockRows :
                 /\ Begin(w, [at |-> "free", group |-> g, slot |-> s, minutes |-> m, loaded |-> L])
                 /\ \/ L = {} /\ FreshLocks(s) = {}
                    \/ \E q \in FreshLocks(s) : lock[q].group = g /\ L = {q}
                 /\ lock' = lock
    <3>1. {r} \in SUBSET LockRows /\ lock' = lock
      BY DEF FreshLocks, BeginLock
    <3> QED
      BY <2>2, <3>1
  <2> QED
    BY <2>1, <2>2 DEF BeginLock
<1> DEFINE t == [at |-> "free", group |-> g, slot |-> s, minutes |-> m, loaded |-> L]
<1>2. t \in LockTask /\ t.at = "free" /\ t.group = g /\ t.slot = s /\ t.loaded = L
  BY DEF LockTask
<1>3. Begin(w, t) /\ lock' = lock
  BY <1>1
<1> HIDE DEF t
<1>4. /\ WorkTypeOK' /\ Alone' /\ Typed(LockTask)'
      /\ work[w] = Rest /\ work'[w] = t /\ \A v \in Workers \ {w} : work'[v] = work[v]
      /\ ~raced' => ~raced /\ \A v \in Workers : work[v] = Rest
  BY <1>0, <1>2, <1>3, TaskBegins
<1>5. LockTypeOK' /\ LoadedLocksExist'
  BY <1>2, <1>3, <1>4 DEF LockInv, LockTypeOK, LoadedLocksExist
<1>6. ASSUME ~raced' PROVE LocksDiffer' /\ ChecksHold'
  <2>1. LocksDiffer
    BY <1>4, <1>6 DEF LockInv
  <2>2. LocksDiffer'
    BY <1>3, <2>1 DEF LocksDiffer, FreshLocks, LocksOf
  <2>3. \A v \in Workers \ {w} : work'[v].at = "rest"
    BY <1>4, <1>6 DEF Rest
  <2>4. \A r \in FreshLocks(s) : lock[r].group = g
    <3>1. CASE FreshLocks(s) = {}
      BY <3>1
    <3>2. CASE \E r \in FreshLocks(s) : lock[r].group = g
      BY <2>1, <3>2 DEF LocksDiffer
    <3> QED
      BY <1>1, <3>1, <3>2
  <2>5. \A r \in L : lock[r] # NoLock /\ lock[r].slot = s
    BY <1>1 DEF FreshLocks
  <2>6. ChecksHold'
    BY <1>2, <1>3, <1>4, <2>3, <2>4, <2>5 DEF ChecksHold, FreshLocks
  <2> QED
    BY <2>2, <2>6
<1> QED
  BY <1>4, <1>5, <1>6 DEF LockInv

(* LockInv is kept when it has looked for the row of the group. *)
LEMMA FindLockInductive == ASSUME LockInv, NEW w \in Workers, FindLock(w) PROVE LockInv'
<1>0. WorkTypeOK /\ Alone /\ Typed(LockTask) /\ LockTypeOK
  BY DEF LockInv, LockTypeOK
<1>1. /\ work[w].at = "free" /\ work[w] # Rest /\ work[w].group \in Groups /\ work[w].slot \in Slots
      /\ work[w].minutes \in Minutes /\ lock' = lock
  BY <1>0, LockShapes DEF FindLock
<1>2. PICK g \in Groups : work[w].group = g
  BY <1>1
<1>3. PICK s \in Slots : work[w].slot = s
  BY <1>1
<1>a. PICK m \in Minutes : work[w].minutes = m
  BY <1>1
<1>4. PICK t \in LockTask :
        /\ Continue(w, t) /\ t.at \in {"insert", "update"} /\ t.slot = s /\ t.group = g
        /\ t.at = "insert" => LocksOf(g) = {}
        /\ t.at = "update" => /\ t.row \in LocksOf(g)
                              /\ t.seen = IF t.row \in work[w].loaded THEN s ELSE lock[t.row].slot
  <2>1. CASE LocksOf(g) = {}
    <3>1. PICK t : t = [at |-> "insert", group |-> g, slot |-> s, minutes |-> m]
      OBVIOUS
    <3>2. Continue(w, t)
      BY <1>2, <1>3, <1>a, <2>1, <3>1 DEF FindLock
    <3> QED
      BY <2>1, <3>1, <3>2 DEF LockTask
  <2>2. CASE LocksOf(g) # {}
    <3>1. PICK r \in LocksOf(g) :
            Continue(w, [at |-> "update", group |-> g, slot |-> s, minutes |-> m, row |-> r,
                         seen |-> IF r \in work[w].loaded THEN s ELSE lock[r].slot])
      BY <1>2, <1>3, <1>a, <2>2 DEF FindLock
    <3>2. r \in LockRows /\ lock[r].slot \in Slots
      BY <1>0, LockRowFields DEF LocksOf
    <3>3. PICK old \in Slots : old = IF r \in work[w].loaded THEN s ELSE lock[r].slot
      BY <3>2
    <3>4. PICK t : t = [at |-> "update", group |-> g, slot |-> s, minutes |-> m, row |-> r, seen |-> old]
      OBVIOUS
    <3>5. Continue(w, t) /\ t \in LockTask
      BY <3>1, <3>2, <3>3, <3>4 DEF LockTask
    <3>6. t.at = "update" /\ t.row = r /\ t.seen = old /\ t.slot = s /\ t.group = g
      BY <3>4
    <3> QED
      BY <3>3, <3>5, <3>6
  <2> QED
    BY <2>1, <2>2
<1>5. /\ WorkTypeOK' /\ Alone' /\ Typed(LockTask)'
      /\ work'[w] = t /\ \A v \in Workers \ {w} : work'[v] = work[v]
      /\ ~raced => \A v \in Workers \ {w} : work[v] = Rest
      /\ raced' = raced
  BY <1>0, <1>1, <1>4, TaskContinues
<1>6. LockTypeOK'
  BY <1>0, <1>1, <1>5 DEF LockTypeOK
<1>7. LoadedLocksExist'
  BY <1>1, <1>4, <1>5 DEF LockInv, LoadedLocksExist, LocksOf
<1>8. ASSUME ~raced' PROVE LocksDiffer' /\ ChecksHold'
  <2>1. LocksDiffer /\ ChecksHold
    BY <1>5, <1>8 DEF LockInv
  <2>2. LocksDiffer'
    BY <1>1, <2>1 DEF LocksDiffer, FreshLocks, LocksOf
  <2>3. \A v \in Workers \ {w} : work'[v].at = "rest"
    BY <1>5, <1>8 DEF Rest
  <2>4. \A r \in FreshLocks(s) : lock[r].group = g
    BY <1>1, <1>2, <1>3, <2>1 DEF ChecksHold
  <2>5. t.at = "update" => \A r \in FreshLocks(s) : r = t.row
    <3> SUFFICES ASSUME t.at = "update", NEW r \in FreshLocks(s) PROVE r = t.row
      OBVIOUS
    <3>1. r \in LocksOf(g)
      BY <2>4 DEF FreshLocks, LocksOf
    <3> QED
      BY <1>4, <2>1, <3>1 DEF LocksDiffer
  <2>9. t.at = "update" => lock[t.row].slot = t.seen
    BY <1>1, <1>3, <1>4, <2>1 DEF ChecksHold
  <2>6. (\A x \in Slots : FreshLocks(x)' = FreshLocks(x)) /\ \A x \in Groups : LocksOf(x)' = LocksOf(x)
    BY <1>1 DEF FreshLocks, LocksOf
  <2>7. CASE t.at = "insert"
    BY <1>1, <1>4, <1>5, <2>2, <2>3, <2>4, <2>6, <2>7 DEF ChecksHold
  <2>8. CASE t.at = "update"
    BY <1>1, <1>4, <1>5, <2>2, <2>3, <2>5, <2>6, <2>8, <2>9 DEF ChecksHold
  <2> QED
    BY <1>4, <2>7, <2>8
<1> QED
  BY <1>5, <1>6, <1>7, <1>8 DEF LockInv

(* A row is written by a request that ends: nothing else is in progress where *)
(* no two requests overlapped.                                                *)
LEMMA LockWritten ==
  ASSUME LockInv, NEW w \in Workers, work[w] # Rest, Finish(w), NEW row \in LockRows, NEW l \in Lock,
         l # NoLock, lock' = [lock EXCEPT ![row] = l],
         NEW g \in Groups, NEW s \in Slots, l.group = g, l.slot = s,
         lock[row] = NoLock \/ lock[row].group = g,
         ~raced => /\ \A r \in FreshLocks(s) : r = row
                   /\ \A r \in LocksOf(g) : r = row
  PROVE  LockInv'
<1>0. WorkTypeOK /\ Alone /\ Typed(LockTask) /\ lock \in [LockRows -> Lock \cup {NoLock}]
  BY DEF LockInv, LockTypeOK
<1>1. /\ WorkTypeOK' /\ Alone' /\ Typed(LockTask)'
      /\ work'[w] = Rest /\ \A v \in Workers \ {w} : work'[v] = work[v]
      /\ ~raced => \A v \in Workers : work'[v] = Rest
      /\ raced' = raced
  BY <1>0, TaskFinishes
<1>2. /\ lock' \in [LockRows -> Lock \cup {NoLock}] /\ lock'[row] = l
      /\ \A r \in LockRows \ {row} : lock'[r] = lock[r]
  BY <1>0
<1>3. LockTypeOK'
  BY <1>1, <1>2 DEF LockTypeOK
<1>4. LoadedLocksExist'
  <2> SUFFICES ASSUME NEW v \in Workers, work'[v].at = "update"
               PROVE  lock'[work'[v].row] # NoLock /\ lock'[work'[v].row].group = work'[v].group
    BY DEF LoadedLocksExist
  <2>1. /\ work'[v] = work[v] /\ work[v].row \in LockRows /\ lock[work[v].row] # NoLock
        /\ lock[work[v].row].group = work[v].group
    BY <1>0, <1>1, LockShapes DEF LockInv, LoadedLocksExist, Rest
  <2> QED
    BY <1>2, <2>1
<1>5. ASSUME ~raced' PROVE LocksDiffer' /\ ChecksHold'
  <2>1. LocksDiffer /\ (\A r \in FreshLocks(s) : r = row) /\ (\A r \in LocksOf(g) : r = row)
    BY <1>1, <1>5 DEF LockInv
  <2>2. ASSUME NEW x \in Slots, NEW q \in FreshLocks(x)', NEW r \in FreshLocks(x)' PROVE q = r
    <3>1. CASE q = row /\ r = row
      BY <3>1
    <3>2. CASE q # row /\ r # row
      <4>1. q \in FreshLocks(x) /\ r \in FreshLocks(x)
        BY <1>2, <2>2, <3>2 DEF FreshLocks
      <4> QED
        BY <2>1, <4>1 DEF LocksDiffer
    <3>3. CASE q # row /\ r = row
      <4>1. x = s /\ q \in FreshLocks(s)
        BY <1>2, <2>2, <3>3 DEF FreshLocks
      <4> QED
        BY <2>1, <3>3, <4>1
    <3>4. CASE q = row /\ r # row
      <4>1. x = s /\ r \in FreshLocks(s)
        BY <1>2, <2>2, <3>4 DEF FreshLocks
      <4> QED
        BY <2>1, <3>4, <4>1
    <3> QED
      BY <3>1, <3>2, <3>3, <3>4
  <2>3. ASSUME NEW x \in Groups, NEW q \in LocksOf(x)', NEW r \in LocksOf(x)' PROVE q = r
    <3>1. CASE q = row /\ r = row
      BY <3>1
    <3>2. CASE q # row /\ r # row
      <4>1. q \in LocksOf(x) /\ r \in LocksOf(x)
        BY <1>2, <2>3, <3>2 DEF LocksOf
      <4> QED
        BY <2>1, <4>1 DEF LocksDiffer
    <3>3. CASE q # row /\ r = row
      <4>1. x = g /\ q \in LocksOf(g)
        BY <1>2, <2>3, <3>3 DEF LocksOf
      <4> QED
        BY <2>1, <3>3, <4>1
    <3>4. CASE q = row /\ r # row
      <4>1. x = g /\ r \in LocksOf(g)
        BY <1>2, <2>3, <3>4 DEF LocksOf
      <4> QED
        BY <2>1, <3>4, <4>1
    <3> QED
      BY <3>1, <3>2, <3>3, <3>4
  <2>4. LocksDiffer'
    BY <2>2, <2>3 DEF LocksDiffer
  <2>5. ChecksHold'
    BY <1>1, <1>5 DEF ChecksHold, Rest
  <2> QED
    BY <2>4, <2>5
<1> QED
  BY <1>1, <1>3, <1>4, <1>5 DEF LockInv

(* Which row an insert writes, and that the request got what it asked for.   *)
LEMMA InsertLockInductive ==
  ASSUME LockInv, NEW w \in Workers, InsertLock(w)
  PROVE  /\ LockInv'
         /\ work[w].at = "insert"
         /\ \E r \in LockRows :
              /\ lock'[r] # NoLock
              /\ lock'[r].group = work[w].group /\ lock'[r].slot = work[w].slot
              /\ lock'[r].fresh <=> work[w].minutes > 0
<1>0. WorkTypeOK /\ Alone /\ Typed(LockTask) /\ lock \in [LockRows -> Lock \cup {NoLock}]
  BY DEF LockInv, LockTypeOK
<1>1. /\ work[w].at = "insert" /\ work[w] # Rest /\ work[w].group \in Groups /\ work[w].slot \in Slots
      /\ Finish(w)
  BY <1>0, LockShapes DEF InsertLock
<1>2. PICK g \in Groups : work[w].group = g
  BY <1>1
<1>3. PICK s \in Slots : work[w].slot = s
  BY <1>1
<1>a. PICK b \in BOOLEAN : b = (work[w].minutes > 0)
  <2>1. CASE work[w].minutes > 0
    <3>1. TRUE \in BOOLEAN /\ TRUE = (work[w].minutes > 0)
      BY <2>1
    <3> QED
      BY <3>1
  <2>2. CASE ~(work[w].minutes > 0)
    <3>1. FALSE \in BOOLEAN /\ FALSE = (work[w].minutes > 0)
      BY <2>2
    <3> QED
      BY <3>1
  <2> QED
    BY <2>1, <2>2
<1>4. PICK l : l = [group |-> g, slot |-> s, fresh |-> b]
  OBVIOUS
<1>5. PICK row \in LockRows : row = (CHOOSE r \in LockRows : lock[r] = NoLock) /\ lock[row] = NoLock
  BY DEF InsertLock
<1>6. lock' = [lock EXCEPT ![row] = l]
  BY <1>2, <1>3, <1>a, <1>4, <1>5 DEF InsertLock
<1>7. l \in Lock /\ l # NoLock
  BY <1>4, LockFields
<1>8. l.group = g /\ l.slot = s /\ l.fresh = b
  BY <1>4
<1>9. ASSUME ~raced PROVE FreshLocks(s) = {} /\ LocksOf(g) = {}
  <2>1. LocksOf(g) = {} /\ \A r \in FreshLocks(s) : lock[r].group = g
    BY <1>1, <1>2, <1>3, <1>9 DEF LockInv, ChecksHold
  <2>2. \A r \in FreshLocks(s) : r \in LocksOf(g)
    BY <2>1 DEF FreshLocks, LocksOf
  <2> QED
    BY <2>1, <2>2
<1>10. LockInv'
  BY <1>1, <1>5, <1>6, <1>7, <1>8, <1>9, LockWritten
<1>11. lock'[row] = l
  BY <1>0, <1>6
<1> QED
  BY <1>1, <1>2, <1>3, <1>a, <1>7, <1>8, <1>10, <1>11

(* LockInv is kept when it moves the one it found to the slot. *)
LEMMA UpdateLockInductive ==
  ASSUME LockInv, NEW w \in Workers, UpdateLock(w)
  PROVE  /\ LockInv'
         /\ work[w].at = "update"
         /\ ~raced => \E r \in LockRows :
              /\ lock'[r] # NoLock
              /\ lock'[r].group = work[w].group /\ lock'[r].slot = work[w].slot
              /\ lock'[r].fresh <=> work[w].minutes > 0
<1>0. /\ WorkTypeOK /\ Alone /\ Typed(LockTask) /\ lock \in [LockRows -> Lock \cup {NoLock}]
      /\ LockTypeOK
  BY DEF LockInv, LockTypeOK
<1>1. /\ work[w].at = "update" /\ work[w] # Rest /\ work[w].row \in LockRows
      /\ work[w].slot \in Slots /\ work[w].seen \in Slots /\ Finish(w)
  BY <1>0, LockShapes DEF UpdateLock
<1>2. PICK row \in LockRows : work[w].row = row
  BY <1>1
<1>3. lock[row] # NoLock /\ lock[row].group = work[w].group
  BY <1>1, <1>2 DEF LockInv, LoadedLocksExist
<1>4. lock[row].group \in Groups /\ lock[row].slot \in Slots
  BY <1>0, <1>3, LockRowFields
<1>5. PICK g \in Groups : lock[row].group = g
  BY <1>4
<1>6. PICK s \in Slots : s = IF work[w].seen = work[w].slot THEN lock[row].slot ELSE work[w].slot
  BY <1>1, <1>4
<1>a. PICK b \in BOOLEAN : b = (work[w].minutes > 0)
  <2>1. CASE work[w].minutes > 0
    <3>1. TRUE \in BOOLEAN /\ TRUE = (work[w].minutes > 0)
      BY <2>1
    <3> QED
      BY <3>1
  <2>2. CASE ~(work[w].minutes > 0)
    <3>1. FALSE \in BOOLEAN /\ FALSE = (work[w].minutes > 0)
      BY <2>2
    <3> QED
      BY <3>1
  <2> QED
    BY <2>1, <2>2
<1>7. PICK l : l = [group |-> g, slot |-> s, fresh |-> b]
  OBVIOUS
<1>8. lock' = [lock EXCEPT ![row] = l]
  BY <1>2, <1>5, <1>6, <1>a, <1>7 DEF UpdateLock
<1>9. l \in Lock /\ l # NoLock
  BY <1>7, LockFields
<1>10. l.group = g /\ l.slot = s /\ l.fresh = b
  BY <1>7
<1>11. ASSUME ~raced
       PROVE  /\ s = work[w].slot
              /\ \A r \in FreshLocks(s) : r = row
              /\ \A r \in LocksOf(g) : r = row
  <2>1. /\ lock[row].slot = work[w].seen /\ \A r \in FreshLocks(work[w].slot) : r = row
        /\ LocksDiffer
    BY <1>1, <1>2, <1>11 DEF LockInv, ChecksHold
  <2>2. s = work[w].slot
    BY <1>6, <2>1
  <2>3. row \in LocksOf(g)
    BY <1>3, <1>5 DEF LocksOf
  <2> QED
    BY <2>1, <2>2, <2>3 DEF LocksDiffer
<1>12. LockInv'
  BY <1>1, <1>5, <1>8, <1>9, <1>10, <1>11, LockWritten
<1>13. lock'[row] = l
  BY <1>0, <1>8
<1> QED
  BY <1>1, <1>3, <1>5, <1>a, <1>9, <1>10, <1>11, <1>12, <1>13

(* LockInv is kept when a request dies. *)
LEMMA LockDieInductive ==
  ASSUME LockInv, NEW w \in Workers, Die(w), UNCHANGED lock PROVE LockInv' /\ died' # died
<1>0. WorkTypeOK /\ Alone /\ Typed(LockTask) /\ died \in Nat
  BY WorkerBounds DEF LockInv, LockTypeOK, WorkTypeOK
<1>1. /\ WorkTypeOK' /\ Alone' /\ Typed(LockTask)'
      /\ work'[w] = Rest /\ \A v \in Workers \ {w} : work'[v] = work[v]
      /\ ~raced => \A v \in Workers : work'[v] = Rest
      /\ raced' = raced /\ died' = died + 1
  BY <1>0, TaskDies
<1>2. LockTypeOK'
  BY <1>1 DEF LockInv, LockTypeOK
<1>3. LoadedLocksExist'
  BY <1>1 DEF LockInv, LoadedLocksExist, Rest
<1>4. ASSUME ~raced' PROVE LocksDiffer' /\ ChecksHold'
  BY <1>1, <1>4 DEF LockInv, LocksDiffer, ChecksHold, FreshLocks, LocksOf, Rest
<1> QED
  BY <1>0, <1>1, <1>2, <1>3, <1>4 DEF LockInv

(* LockInv is kept when a lock expires. *)
LEMMA ExpireLockInductive == ASSUME LockInv, NEW r \in LockRows, ExpireLock(r) PROVE LockInv'
<1>0. /\ WorkTypeOK /\ Alone /\ Typed(LockTask) /\ lock \in [LockRows -> Lock \cup {NoLock}]
      /\ LockTypeOK
  BY DEF LockInv, LockTypeOK
<1>1. UNCHANGED workVars /\ lock[r] # NoLock
  BY DEF ExpireLock
<1>2. WorkTypeOK' /\ Alone' /\ Typed(LockTask)' /\ UNCHANGED <<work, begun, raced, died>>
  BY <1>0, <1>1, NoRequest
<1>3. PICK g \in Groups : lock[r].group = g
  BY <1>0, <1>1, LockRowFields
<1>4. PICK s \in Slots : lock[r].slot = s
  BY <1>0, <1>1, LockRowFields
<1>5. PICK l : l = [group |-> g, slot |-> s, fresh |-> FALSE]
  OBVIOUS
<1>6. lock' = [lock EXCEPT ![r] = l]
  BY <1>3, <1>4, <1>5 DEF ExpireLock
<1>7. l \in Lock /\ l # NoLock
  <2>1. FALSE \in BOOLEAN
    OBVIOUS
  <2> QED
    BY <1>5, <2>1, LockFields
<1>8. l.group = g /\ l.slot = s /\ ~l.fresh
  BY <1>5
<1>9. /\ lock' \in [LockRows -> Lock \cup {NoLock}] /\ lock'[r] = l
      /\ \A q \in LockRows \ {r} : lock'[q] = lock[q]
  BY <1>0, <1>6, <1>7
<1>10. LockTypeOK'
  BY <1>2, <1>9 DEF LockTypeOK
<1>11. \A q \in LockRows :
         /\ lock'[q] # NoLock <=> lock[q] # NoLock
         /\ lock[q] # NoLock => lock'[q].group = lock[q].group /\ lock'[q].slot = lock[q].slot
  BY <1>1, <1>3, <1>4, <1>7, <1>8, <1>9
<1>12. LoadedLocksExist'
  <2> SUFFICES ASSUME NEW v \in Workers, work[v].at = "update"
               PROVE  lock'[work[v].row] # NoLock /\ lock'[work[v].row].group = work[v].group
    BY <1>2 DEF LoadedLocksExist
  <2>1. work[v].row \in LockRows /\ lock[work[v].row] # NoLock /\ lock[work[v].row].group = work[v].group
    BY <1>0, LockShapes DEF LockInv, LoadedLocksExist
  <2> QED
    BY <1>11, <2>1
<1>13. \A x \in Slots : FreshLocks(x)' \subseteq FreshLocks(x)
  <2> SUFFICES ASSUME NEW x \in Slots, NEW q \in FreshLocks(x)' PROVE q \in FreshLocks(x)
    OBVIOUS
  <2>1. q \in LockRows /\ lock'[q] # NoLock /\ lock'[q].slot = x /\ lock'[q].fresh
    BY DEF FreshLocks
  <2>2. q # r
    BY <1>8, <1>9, <2>1
  <2> QED
    BY <1>9, <2>1, <2>2 DEF FreshLocks
<1>14. \A x \in Groups : LocksOf(x)' = LocksOf(x)
  BY <1>11 DEF LocksOf
<1>15. ASSUME ~raced' PROVE LocksDiffer' /\ ChecksHold'
  <2>1. LocksDiffer /\ ChecksHold
    BY <1>2, <1>15 DEF LockInv
  <2>2. LocksDiffer'
    BY <1>13, <1>14, <2>1 DEF LocksDiffer
  <2>3. ChecksHold'
    <3> SUFFICES ASSUME NEW v \in Workers
                 PROVE  /\ work[v].at \in {"free", "insert"} =>
                             \A q \in FreshLocks(work[v].slot)' : lock'[q].group = work[v].group
                        /\ work[v].at = "free" => \A q \in work[v].loaded : lock'[q] # NoLock /\ lock'[q].slot = work[v].slot
                        /\ work[v].at = "insert" => LocksOf(work[v].group)' = {}
                        /\ work[v].at = "update" =>
                             /\ lock'[work[v].row].slot = work[v].seen
                             /\ \A q \in FreshLocks(work[v].slot)' : q = work[v].row
      BY <1>2 DEF ChecksHold
    <3>1. CASE work[v].at \in {"free", "insert"}
      <4>1. PICK x \in Slots : work[v].slot = x
        BY <1>0, <3>1, LockShapes
      <4>2. PICK y \in Groups : work[v].group = y
        BY <1>0, <3>1, LockShapes
      <4>3. /\ \A q \in FreshLocks(x) : lock[q].group = y
            /\ work[v].at = "insert" => LocksOf(y) = {}
        BY <2>1, <3>1, <4>1, <4>2 DEF ChecksHold
      <4>4. \A q \in FreshLocks(x) : q \in LockRows /\ lock[q] # NoLock
        BY DEF FreshLocks
      <4>5. \A q \in FreshLocks(x)' : lock'[q].group = y
        BY <1>11, <1>13, <4>3, <4>4
      <4>6. work[v].at = "insert" => LocksOf(y)' = {}
        BY <1>14, <4>3
      <4>7. work'[v].slot = x /\ work'[v].group = y
        BY <1>2, <4>1, <4>2
      <4>8. work[v].at = "free" => \A q \in work[v].loaded : lock'[q] # NoLock /\ lock'[q].slot = work[v].slot
        <5> SUFFICES ASSUME work[v].at = "free", NEW q \in work[v].loaded
                     PROVE  lock'[q] # NoLock /\ lock'[q].slot = work[v].slot
          OBVIOUS
        <5>1. q \in LockRows
          BY <1>0, LockShapes
        <5>2. lock[q] # NoLock /\ lock[q].slot = work[v].slot
          BY <2>1 DEF ChecksHold
        <5> QED
          BY <1>11, <5>1, <5>2
      <4> QED
        BY <3>1, <4>1, <4>2, <4>5, <4>6, <4>7, <4>8 DEF FreshLocks, LocksOf
    <3>2. CASE work[v].at = "update"
      <4>1. PICK x \in Slots : work[v].slot = x
        BY <1>0, <3>2, LockShapes
      <4>2. work[v].row \in LockRows /\ lock[work[v].row] # NoLock
        BY <1>0, <3>2, LockShapes DEF LockInv, LoadedLocksExist
      <4>3. lock[work[v].row].slot = work[v].seen /\ \A q \in FreshLocks(x) : q = work[v].row
        BY <2>1, <3>2, <4>1 DEF ChecksHold
      <4>4. \A q \in FreshLocks(x)' : q = work[v].row
        BY <1>13, <4>3
      <4>5. lock'[work[v].row].slot = work[v].seen
        BY <1>11, <4>2, <4>3
      <4>6. work'[v].slot = x
        BY <1>2, <4>1
      <4> QED
        BY <3>2, <4>1, <4>4, <4>5, <4>6 DEF FreshLocks
    <3> QED
      BY <3>1, <3>2
  <2> QED
    BY <2>2, <2>3
<1> QED
  BY <1>2, <1>10, <1>12, <1>15 DEF LockInv

(* LockInv is inductive: every step keeps it. *)
LEMMA LockNextInductive == ASSUME LockInv, [LockNext]_lockVars PROVE LockInv'
<1>1. ASSUME UNCHANGED lockVars PROVE LockInv'
  <2>1. lock' = lock /\ UNCHANGED workVars /\ WorkTypeOK /\ Alone /\ Typed(LockTask)
    BY <1>1 DEF lockVars, LockInv, LockTypeOK
  <2>2. WorkTypeOK' /\ Alone' /\ Typed(LockTask)' /\ UNCHANGED <<work, begun, raced, died>>
    BY <2>1, NoRequest
  <2> QED
    BY <2>1, <2>2 DEF LockInv, LockTypeOK, LoadedLocksExist, LocksDiffer, ChecksHold, FreshLocks, LocksOf
<1> QED
  BY <1>1, BeginLockInductive, FindLockInductive, InsertLockInductive, UpdateLockInductive,
     LockDieInductive, ExpireLockInductive DEF LockNext, LockStep

(* A request that is answered, and overlapped no other, holds the slot it    *)
(* asked for.                                                                *)
LEMMA LockNextAnswers ==
  ASSUME LockInv, [LockNext]_lockVars PROVE [~raced => LockedWhatWasAsked]_lockVars
<1> SUFFICES ASSUME LockNext, ~raced, NEW v \in Workers, work[v].at \in {"insert", "update"},
                    died' = died, work'[v] = Rest
             PROVE  \E r \in LockRows :
                      /\ lock'[r] # NoLock
                      /\ lock'[r].group = work[v].group /\ lock'[r].slot = work[v].slot
                      /\ lock'[r].fresh <=> work[v].minutes > 0
  BY DEF LockedWhatWasAsked
<1>0. WorkTypeOK /\ Alone /\ Typed(LockTask) /\ work[v] # Rest
  BY LockShapes DEF LockInv, LockTypeOK
<1>1. work' # work
  BY <1>0
<1>2. PICK w \in Workers : LockStep(w)
  BY <1>1 DEF LockNext, ExpireLock, workVars
<1>3. ~Die(w)
  <2>1. died \in Nat
    BY <1>0, WorkerBounds DEF WorkTypeOK
  <2> QED
    BY <2>1 DEF Die
<1>4. CASE InsertLock(w)
  <2>1. v = w
    BY <1>0, <1>4 DEF InsertLock, Finish, Continue, Typed
  <2> QED
    BY <1>4, <2>1, InsertLockInductive
<1>5. CASE UpdateLock(w)
  <2>1. v = w
    BY <1>0, <1>5 DEF UpdateLock, Finish, Continue, Typed
  <2> QED
    BY <1>5, <2>1, UpdateLockInductive
<1>6. CASE FindLock(w)
  <2>1. \A u \in Workers \ {w} : work'[u] = work[u]
    BY <1>0, <1>6 DEF FindLock, Continue, Typed
  <2>2. work[w].at = "free"
    BY <1>6 DEF FindLock
  <2> QED
    BY <1>0, <2>1, <2>2
<1>7. ASSUME NEW g \in Groups, NEW s \in Slots, NEW m \in Minutes, BeginLock(w, g, s, m) PROVE FALSE
  <2>1. work[w] = Rest /\ \A u \in Workers \ {w} : work'[u] = work[u]
    BY <1>0, <1>7 DEF BeginLock, Begin, Typed
  <2> QED
    BY <1>0, <2>1
<1> QED
  BY <1>2, <1>3, <1>4, <1>5, <1>6, <1>7 DEF LockStep

(* The invariant says what is claimed of the locks. *)
LEMMA LockInvSuffices == LockInv => LockTypeOK /\ (~raced => SlotsAreExclusive)
<1> SUFFICES ASSUME LockInv, ~raced PROVE SlotsAreExclusive
  BY DEF LockInv
<1>1. LocksDiffer
  BY DEF LockInv
<1>2. \A s \in Slots : Cardinality(FreshLocks(s)) \in {0, 1}
  BY <1>1, AtMostOne DEF LocksDiffer
<1>3. \A g \in Groups : Cardinality(LocksOf(g)) \in {0, 1}
  BY <1>1, AtMostOne DEF LocksDiffer
<1> QED
  BY <1>2, <1>3 DEF SlotsAreExclusive

(* For any number of groups, slots and requests: as long as no two           *)
(* overlapped, a slot has one fresh lock and a group one row, and a request  *)
(* that wrote one has locked what it was asked for                           *)
(* (group_cart/service.py:232-262).                                          *)
THEOREM SlotLocksAreSound == LockSpec => []LockTypeOK /\ SlotLocksHold
<1>1. LockInit /\ WorkInit => LockInv
  BY LockInitInductive
<1>2. LockInv /\ [LockNext]_lockVars => LockInv'
  BY LockNextInductive
<1>3. LockInv /\ [LockNext]_lockVars => [~raced => LockedWhatWasAsked]_lockVars
  BY LockNextAnswers
<1> QED
  BY <1>1, <1>2, <1>3, LockInvSuffices, PTL DEF LockSpec, SlotLocksHold

-----------------------------------------------------------------------------
(* The solo cart. *)

(* What a snapshot of a cart is. *)
Cart == [vendors : SUBSET Sellers, items : [Items -> Nat]]

(* The tasks of requests about the cart. *)
CartTask ==
  [at : {"adding"}, item : Items, n : Quantities, seen : Cart]
    \cup [at : {"removing"}, item : Items, seen : Cart]
    \cup [at : {"checkout"}, items : [Items -> Nat]]
    \cup [at : {"ordered"}]

(* One vendor at most, that of the items.                                     *)
Coherent(c) ==
  /\ c.vendors = {SellerOf[i] : i \in {j \in Items : c.items[j] > 0}}
  /\ \A a, b \in c.vendors : a = b

(* What a request has loaded is a cart. *)
SnapshotsAreCarts ==
  /\ Coherent(cart)
  /\ \A w \in Workers : work[w].at \in {"adding", "removing"} =>
       /\ Coherent(work[w].seen)
       /\ \A i \in Items : work[w].seen.items[i] <= added[i]
  /\ \A w \in Workers : work[w].at = "adding" => work[w].seen.vendors \subseteq {SellerOf[work[w].item]}

(* Between its commit and the deletion of the cart an order holds what is     *)
(* still in the cart.                                                         *)
CartIsBalanced ==
  ~raced /\ died = 0 =>
    /\ \A w \in Workers :
         /\ work[w].at \in {"adding", "removing"} => work[w].seen = cart
         /\ work[w].at = "checkout" => work[w].items = cart.items
         /\ work[w].at = "ordered" => \A i \in Items : added[i] = ordered[i] + dropped[i]
    /\ (\A w \in Workers : work[w].at # "ordered")
         => \A i \in Items : added[i] = cart.items[i] + ordered[i] + dropped[i]

(* The inductive invariant of the cart. *)
CartInv ==
  /\ CartTypeOK /\ Alone /\ Typed(CartTask)
  /\ SnapshotsAreCarts /\ NothingAppears /\ CartIsBalanced

(* What a task about the cart is. *)
LEMMA CartShapes ==
  ASSUME Typed(CartTask), NEW w \in Workers
  PROVE  /\ work[w].at = "adding" =>
              /\ work[w] # Rest /\ work[w].item \in Items /\ work[w].n \in Quantities
              /\ work[w].seen \in Cart
         /\ work[w].at = "removing" =>
              work[w] # Rest /\ work[w].item \in Items /\ work[w].seen \in Cart
         /\ work[w].at = "checkout" => work[w] # Rest /\ work[w].items \in [Items -> Nat]
         /\ work[w].at = "ordered" => work[w] # Rest
         /\ work[w] = Rest => work[w].at = "rest"
<1>1. Rest.at = "rest"
  BY DEF Rest
<1>2. work[w] \in CartTask \cup {Rest}
  BY DEF Typed
<1> QED
  BY <1>1, <1>2 DEF CartTask

(* What the invariant says of the cart. *)
LEMMA CartFacts ==
  ASSUME CartInv
  PROVE  /\ WorkTypeOK /\ Alone /\ Typed(CartTask)
         /\ cart \in Cart /\ cart.items \in [Items -> Nat] /\ cart.vendors \in SUBSET Sellers
         /\ added \in [Items -> Nat] /\ dropped \in [Items -> Nat] /\ ordered \in [Items -> Nat]
         /\ died \in Nat
BY WorkerBounds DEF CartInv, CartTypeOK, WorkTypeOK, Cart

(* An item more in a cart adds up. *)
LEMMA PlusSums ==
  ASSUME NEW f \in [Items -> Nat], NEW g \in [Items -> Nat]
  PROVE  Plus(f, g) \in [Items -> Nat] /\ \A i \in Items : Plus(f, g)[i] = f[i] + g[i]
BY DEF Plus

(* An empty cart adds up. *)
LEMMA EmptyIsCoherent ==
  /\ EmptyCart \in Cart /\ EmptyCart.items = None /\ EmptyCart.vendors = {}
  /\ Coherent(EmptyCart) /\ \A i \in Items : None[i] = 0
<1>1. None \in [Items -> Nat] /\ \A i \in Items : None[i] = 0
  BY DEF None
<1>2. EmptyCart \in Cart /\ EmptyCart.items = None /\ EmptyCart.vendors = {}
  BY <1>1 DEF EmptyCart, Cart
<1>3. \A i \in Items : ~(EmptyCart.items[i] > 0)
  BY <1>1, <1>2
<1> QED
  BY <1>1, <1>2, <1>3 DEF Coherent

(* CartInv holds at first. *)
LEMMA CartInitInductive == CartInit /\ WorkInit => CartInv
<1> SUFFICES ASSUME CartInit, WorkInit PROVE CartInv
  OBVIOUS
<1>1. WorkTypeOK /\ Alone /\ Typed(CartTask)
  BY WorkInitHolds
<1>2. \A w \in Workers : work[w].at = "rest"
  BY DEF WorkInit, Rest
<1>3. cart = EmptyCart /\ added = None /\ dropped = None /\ ordered = None /\ None \in [Items -> Nat]
  BY DEF CartInit, None
<1>4. CartTypeOK
  BY <1>1, <1>3, EmptyIsCoherent DEF CartTypeOK, Cart
<1>5. SnapshotsAreCarts /\ NothingAppears
  BY <1>2, <1>3, EmptyIsCoherent DEF SnapshotsAreCarts, NothingAppears
<1>6. CartIsBalanced
  BY <1>2, <1>3, EmptyIsCoherent DEF CartIsBalanced
<1> QED
  BY <1>1, <1>4, <1>5, <1>6 DEF CartInv

(* A request is taken up: it read the cart as it is.                          *)
LEMMA CartTakenUp ==
  ASSUME CartInv, UNCHANGED cartRows, NEW w \in Workers, NEW t \in CartTask, Begin(w, t),
         t.at \in {"adding", "removing"} => t.seen = cart,
         t.at = "adding" => cart.vendors \subseteq {SellerOf[t.item]},
         t.at = "checkout" => t.items = cart.items,
         t.at # "ordered"
  PROVE  CartInv'
<1>1. UNCHANGED <<cart, added, dropped, ordered>>
  BY DEF cartRows
<1>2. /\ WorkTypeOK' /\ Alone' /\ Typed(CartTask)'
      /\ work[w] = Rest /\ work'[w] = t /\ \A v \in Workers \ {w} : work'[v] = work[v]
      /\ ~raced' => ~raced /\ \A v \in Workers : work[v] = Rest
      /\ died' = died
  BY CartFacts, TaskBegins
<1>3. work[w].at = "rest"
  BY <1>2, CartFacts, CartShapes
<1>4. CartTypeOK'
  BY <1>1, <1>2 DEF CartInv, CartTypeOK
<1>5. SnapshotsAreCarts'
  BY <1>1, <1>2 DEF CartInv, SnapshotsAreCarts, NothingAppears
<1>6. NothingAppears'
  BY <1>1 DEF CartInv, NothingAppears
<1>7. CartIsBalanced'
  BY <1>1, <1>2, <1>3 DEF CartInv, CartIsBalanced
<1> QED
  BY <1>2, <1>4, <1>5, <1>6, <1>7 DEF CartInv

(* A request ends, or goes on to "ordered".                                   *)
LEMMA CartWritten ==
  ASSUME CartInv, NEW w \in Workers, NEW t \in {Rest, [at |-> "ordered"]}, work[w] # Rest,
         \/ Continue(w, t)
         \/ Die(w) /\ t = Rest,
         cart' \in Cart, Coherent(cart'),
         added' \in [Items -> Nat], dropped' \in [Items -> Nat], ordered' \in [Items -> Nat],
         \A i \in Items : added[i] <= added'[i] /\ cart'.items[i] <= added'[i],
         ~raced /\ died' = 0 => \A i \in Items :
            added'[i] = (IF t = Rest THEN cart'.items[i] ELSE 0) + ordered'[i] + dropped'[i]
  PROVE  CartInv'
<1>1. [at |-> "ordered"] \in CartTask /\ Rest.at = "rest" /\ t \in CartTask \cup {Rest}
  BY DEF CartTask, Rest
<1>2. /\ WorkTypeOK' /\ Alone' /\ Typed(CartTask)'
      /\ work'[w] = t /\ \A v \in Workers \ {w} : work'[v] = work[v]
      /\ ~raced => \A v \in Workers \ {w} : work[v] = Rest
      /\ raced' = raced
  <2>1. CASE Continue(w, t)
    BY <1>1, <2>1, CartFacts, TaskContinues
  <2>2. CASE Die(w) /\ t = Rest
    BY <2>2, CartFacts, TaskDies DEF Alone
  <2> QED
    BY <2>1, <2>2
<1>3. CartTypeOK'
  BY <1>2 DEF CartTypeOK, Cart
<1>4. t.at \notin {"adding", "removing", "checkout"} /\ (t # Rest => t.at = "ordered")
  BY <1>1
<1>5. SnapshotsAreCarts'
  <2> SUFFICES ASSUME NEW v \in Workers, work'[v].at \in {"adding", "removing"}
               PROVE  /\ Coherent(work'[v].seen)
                      /\ \A i \in Items : work'[v].seen.items[i] <= added'[i]
                      /\ work'[v].at = "adding" =>
                           work'[v].seen.vendors \subseteq {SellerOf[work'[v].item]}
    BY DEF SnapshotsAreCarts
  <2>1. work'[v] = work[v] /\ work[v].at \in {"adding", "removing"}
    BY <1>2, <1>4
  <2>2. PICK c \in Cart : work[v].seen = c
    BY <2>1, CartFacts, CartShapes
  <2>3. /\ Coherent(c) /\ \A i \in Items : c.items[i] <= added[i]
        /\ work[v].at = "adding" => c.vendors \subseteq {SellerOf[work[v].item]}
    BY <2>1, <2>2 DEF CartInv, SnapshotsAreCarts
  <2>4. \A i \in Items : c.items[i] \in Nat /\ added[i] \in Nat /\ added'[i] \in Nat
    BY CartFacts DEF Cart
  <2>5. \A i \in Items : c.items[i] <= added'[i]
    BY <2>3, <2>4
  <2> QED
    BY <2>1, <2>2, <2>3, <2>5
<1>6. NothingAppears'
  BY DEF NothingAppears
<1>7. CartIsBalanced'
  <2> SUFFICES ASSUME ~raced', died' = 0 PROVE CartIsBalanced'
    BY DEF CartIsBalanced
  <2>1. \A v \in Workers \ {w} : work'[v].at = "rest"
    BY <1>1, <1>2
  <2>2. CASE t = Rest
    <3>1. \A i \in Items : added'[i] = cart'.items[i] + ordered'[i] + dropped'[i]
      BY <1>2, <2>2
    <3>2. \A v \in Workers : work'[v].at = "rest"
      BY <1>1, <1>2, <2>1, <2>2
    <3> QED
      BY <3>1, <3>2 DEF CartIsBalanced
  <2>3. CASE t # Rest
    <3>1. \A i \in Items : added'[i] = ordered'[i] + dropped'[i]
      BY <1>2, <2>3
    <3>2. work'[w].at = "ordered"
      BY <1>2, <1>4, <2>3
    <3> QED
      BY <2>1, <3>1, <3>2 DEF CartIsBalanced
  <2> QED
    BY <2>2, <2>3
<1> QED
  BY <1>2, <1>3, <1>5, <1>6, <1>7 DEF CartInv

(* CartInv is kept when add_to_cart saves. *)
LEMMA SaveAddInductive == ASSUME CartInv, NEW w \in Workers, SaveAdd(w) PROVE CartInv'
<1>1. work[w].at = "adding" /\ UNCHANGED <<dropped, ordered>> /\ Continue(w, Rest)
  BY DEF SaveAdd, Finish
<1>2. PICK c \in Cart : work[w].seen = c
  BY <1>1, CartFacts, CartShapes
<1>3. PICK i \in Items : work[w].item = i
  BY <1>1, CartFacts, CartShapes
<1>4. PICK n \in Quantities : work[w].n = n
  BY <1>1, CartFacts, CartShapes
<1>5. n \in Nat /\ n > 0 /\ c.items \in [Items -> Nat] /\ SellerOf[i] \in Sellers
  BY QuantityAssumption, SellerAssumption DEF Cart
<1>6. /\ cart' = [vendors |-> {SellerOf[i]}, items |-> [c.items EXCEPT ![i] = @ + n]]
      /\ added' = [added EXCEPT ![i] = @ + n]
  BY <1>2, <1>3, <1>4 DEF SaveAdd
<1>7. /\ Coherent(c) /\ \A j \in Items : c.items[j] <= added[j]
      /\ c.vendors \subseteq {SellerOf[i]}
  BY <1>1, <1>2, <1>3 DEF CartInv, SnapshotsAreCarts
<1>8. /\ cart'.items = [c.items EXCEPT ![i] = @ + n] /\ cart'.vendors = {SellerOf[i]}
      /\ cart'.items \in [Items -> Nat] /\ cart'.items[i] = c.items[i] + n
      /\ \A j \in Items \ {i} : cart'.items[j] = c.items[j]
  BY <1>5, <1>6
<1>9. cart' \in Cart
  BY <1>5, <1>6, <1>8 DEF Cart
<1>10. Coherent(cart')
  <2>1. cart'.items[i] > 0
    BY <1>5, <1>8
  <2>2. \A j \in Items : cart'.items[j] > 0 => SellerOf[j] = SellerOf[i]
    <3> SUFFICES ASSUME NEW j \in Items, cart'.items[j] > 0, j # i PROVE SellerOf[j] = SellerOf[i]
      OBVIOUS
    <3>1. c.items[j] > 0
      BY <1>8
    <3>2. SellerOf[j] \in c.vendors
      BY <1>7, <3>1 DEF Coherent
    <3> QED
      BY <1>7, <3>2
  <2> QED
    BY <1>8, <2>1, <2>2 DEF Coherent
<1>11. /\ added \in [Items -> Nat] /\ added' \in [Items -> Nat] /\ added'[i] = added[i] + n
       /\ \A j \in Items \ {i} : added'[j] = added[j]
  BY <1>5, <1>6, CartFacts
<1>12. \A j \in Items : added[j] <= added'[j] /\ cart'.items[j] <= added'[j]
  BY <1>5, <1>7, <1>8, <1>11
<1>13. ASSUME ~raced, died' = 0, NEW j \in Items
       PROVE  added'[j] = cart'.items[j] + ordered[j] + dropped[j]
  <2>1. died = 0 /\ \A v \in Workers \ {w} : work[v] = Rest
    BY <1>1, <1>13, CartFacts, CartShapes DEF Alone, Continue
  <2>2. c = cart /\ \A v \in Workers : work[v].at # "ordered"
    <3>1. \A v \in Workers \ {w} : work[v].at = "rest"
      BY <2>1, CartFacts, CartShapes
    <3> QED
      BY <1>1, <1>2, <1>13, <2>1, <3>1 DEF CartInv, CartIsBalanced
  <2>3. added[j] = c.items[j] + ordered[j] + dropped[j]
    BY <1>13, <2>1, <2>2 DEF CartInv, CartIsBalanced
  <2>4. ordered[j] \in Nat /\ dropped[j] \in Nat /\ c.items[j] \in Nat /\ added[j] \in Nat
    BY <1>5, CartFacts
  <2>5. CASE j = i
    BY <1>5, <1>8, <1>11, <2>3, <2>4, <2>5
  <2>6. CASE j # i
    BY <1>8, <1>11, <2>3, <2>6
  <2> QED
    BY <2>5, <2>6
<1>14. work[w] # Rest
  BY <1>1, CartFacts, CartShapes
<1> QED
  BY <1>1, <1>9, <1>10, <1>11, <1>12, <1>13, <1>14, CartFacts, CartWritten

(* CartInv is kept when remove_from_cart saves. *)
LEMMA SaveRemoveInductive == ASSUME CartInv, NEW w \in Workers, SaveRemove(w) PROVE CartInv'
<1>1. work[w].at = "removing" /\ UNCHANGED <<added, ordered>> /\ Continue(w, Rest) /\ work[w] # Rest
  BY CartFacts, CartShapes DEF SaveRemove, Finish
<1>2. PICK c \in Cart : work[w].seen = c
  BY <1>1, CartFacts, CartShapes
<1>3. PICK i \in Items : work[w].item = i
  BY <1>1, CartFacts, CartShapes
<1> DEFINE left == [c.items EXCEPT ![i] = 0]
<1>4. /\ cart' = IF left = None THEN EmptyCart ELSE [vendors |-> c.vendors, items |-> left]
      /\ dropped' = [dropped EXCEPT ![i] = @ + c.items[i]]
  BY <1>2, <1>3 DEF SaveRemove
<1>5. /\ c.items \in [Items -> Nat] /\ c.vendors \in SUBSET Sellers
      /\ left \in [Items -> Nat] /\ left[i] = 0 /\ \A j \in Items \ {i} : left[j] = c.items[j]
  BY DEF Cart
<1> HIDE DEF left
<1>6. Coherent(c) /\ \A j \in Items : c.items[j] <= added[j]
  BY <1>1, <1>2 DEF CartInv, SnapshotsAreCarts
<1>7. cart' \in Cart /\ cart'.items = left
  <2>1. CASE left = None
    BY <1>4, <2>1, EmptyIsCoherent
  <2>2. CASE left # None
    BY <1>4, <1>5, <2>2 DEF Cart
  <2> QED
    BY <2>1, <2>2
<1>8. Coherent(cart')
  <2>1. CASE left = None
    BY <1>4, <2>1, EmptyIsCoherent
  <2>2. CASE left # None
    <3>1. cart'.vendors = c.vendors
      BY <1>4, <2>2
    <3>2. PICK j \in Items : left[j] > 0
      <4>1. PICK j \in Items : left[j] # None[j]
        BY <1>5, <2>2 DEF None
      <4> QED
        BY <1>5, <4>1, EmptyIsCoherent
    <3>3. \A k \in Items : left[k] > 0 => c.items[k] > 0
      BY <1>5
    <3>4. SellerOf[j] \in c.vendors /\ \A k \in Items : left[k] > 0 => SellerOf[k] \in c.vendors
      BY <1>6, <3>2, <3>3 DEF Coherent
    <3>5. c.vendors = {SellerOf[k] : k \in {m \in Items : left[m] > 0}}
      <4>1. \A a \in c.vendors : a = SellerOf[j]
        BY <1>6, <3>4 DEF Coherent
      <4>2. SellerOf[j] \in {SellerOf[k] : k \in {m \in Items : left[m] > 0}}
        BY <3>2
      <4>3. {SellerOf[k] : k \in {m \in Items : left[m] > 0}} \subseteq c.vendors
        BY <3>4
      <4> QED
        BY <4>1, <4>2, <4>3, Zenon
    <3> QED
      BY <1>6, <1>7, <3>1, <3>5 DEF Coherent
  <2> QED
    BY <2>1, <2>2
<1>9. /\ dropped \in [Items -> Nat] /\ dropped' \in [Items -> Nat]
      /\ dropped'[i] = dropped[i] + c.items[i] /\ \A j \in Items \ {i} : dropped'[j] = dropped[j]
  <2>1. c.items[i] \in Nat
    BY <1>5
  <2> QED
    BY <1>4, <2>1, CartFacts
<1>10. \A j \in Items : added[j] <= added'[j] /\ cart'.items[j] <= added'[j]
  <2> SUFFICES ASSUME NEW j \in Items PROVE added[j] <= added[j] /\ left[j] <= added[j]
    BY <1>1, <1>7
  <2>1. added[j] \in Nat /\ c.items[j] <= added[j] /\ c.items[j] \in Nat
    BY <1>5, <1>6, CartFacts
  <2> QED
    BY <1>5, <2>1
<1>11. ASSUME ~raced, died' = 0, NEW j \in Items
       PROVE  added'[j] = cart'.items[j] + ordered'[j] + dropped'[j]
  <2>1. died = 0 /\ \A v \in Workers \ {w} : work[v] = Rest
    BY <1>1, <1>11 DEF CartInv, Alone, Continue
  <2>2. c = cart /\ \A v \in Workers : work[v].at # "ordered"
    <3>1. \A v \in Workers \ {w} : work[v].at = "rest"
      BY <2>1, CartFacts, CartShapes
    <3> QED
      BY <1>1, <1>2, <1>11, <2>1, <3>1 DEF CartInv, CartIsBalanced
  <2>3. added[j] = c.items[j] + ordered[j] + dropped[j]
    BY <1>11, <2>1, <2>2 DEF CartInv, CartIsBalanced
  <2>4. ordered[j] \in Nat /\ dropped[j] \in Nat /\ c.items[j] \in Nat /\ added[j] \in Nat
    BY <1>5, CartFacts
  <2>5. added'[j] = added[j] /\ ordered'[j] = ordered[j] /\ cart'.items[j] = left[j]
    BY <1>1, <1>7
  <2>6. CASE j = i
    BY <1>5, <1>9, <2>3, <2>4, <2>5, <2>6
  <2>7. CASE j # i
    BY <1>5, <1>9, <2>3, <2>4, <2>5, <2>7
  <2> QED
    BY <2>6, <2>7
<1>12. added' \in [Items -> Nat] /\ ordered' \in [Items -> Nat]
  BY <1>1, CartFacts
<1> QED
  BY <1>1, <1>7, <1>8, <1>9, <1>10, <1>11, <1>12, CartWritten

(* CartInv is kept when the cart is cleared. *)
LEMMA ClearCartInductive == ASSUME CartInv, ClearCart PROVE CartInv'
<1>1. /\ cart' = EmptyCart /\ dropped' = Plus(dropped, cart.items) /\ UNCHANGED <<added, ordered>>
      /\ AtOnce
  BY DEF ClearCart
<1>2. /\ WorkTypeOK' /\ Alone' /\ Typed(CartTask)' /\ work' = work /\ died' = died
      /\ ~raced' => ~raced /\ \A v \in Workers : work[v] = Rest
  BY <1>1, CartFacts, RequestAtOnce
<1>3. /\ dropped' \in [Items -> Nat]
      /\ \A i \in Items : dropped'[i] = dropped[i] + cart.items[i]
  BY <1>1, CartFacts, PlusSums
<1>4. CartTypeOK'
  BY <1>1, <1>2, <1>3, CartFacts, EmptyIsCoherent DEF CartTypeOK, Cart
<1>5. SnapshotsAreCarts'
  BY <1>1, <1>2, EmptyIsCoherent DEF CartInv, SnapshotsAreCarts
<1>6. NothingAppears'
  BY <1>1, CartFacts, EmptyIsCoherent DEF NothingAppears
<1>7. CartIsBalanced'
  <2> SUFFICES ASSUME ~raced', died' = 0 PROVE CartIsBalanced'
    BY DEF CartIsBalanced
  <2>1. \A v \in Workers : work[v].at = "rest"
    BY <1>2, CartFacts, CartShapes
  <2>2. \A i \in Items : added[i] = cart.items[i] + ordered[i] + dropped[i]
    BY <1>2, <2>1 DEF CartInv, CartIsBalanced
  <2>3. \A i \in Items : added[i] = 0 + ordered[i] + dropped'[i]
    BY <1>3, <2>2, CartFacts
  <2> QED
    BY <1>1, <1>2, <2>1, <2>3, EmptyIsCoherent DEF CartIsBalanced
<1> QED
  BY <1>2, <1>4, <1>5, <1>6, <1>7 DEF CartInv

(* CartInv is kept when an order is placed from it. *)
LEMMA CommitCartOrderInductive == ASSUME CartInv, NEW w \in Workers, CommitCartOrder(w) PROVE CartInv'
<1>1. work[w].at = "checkout" /\ UNCHANGED <<cart, added, dropped>> /\ work[w] # Rest
  BY CartFacts, CartShapes DEF CommitCartOrder
<1>2. PICK sold \in [Items -> Nat] : work[w].items = sold
  BY <1>1, CartFacts, CartShapes
<1>3. /\ cart' \in Cart /\ Coherent(cart') /\ added' \in [Items -> Nat] /\ dropped' \in [Items -> Nat]
      /\ \A i \in Items : added[i] <= added'[i] /\ cart'.items[i] <= added'[i]
  <2>1. \A i \in Items : added[i] \in Nat /\ cart.items[i] <= added[i]
    BY CartFacts DEF CartInv, NothingAppears
  <2> QED
    BY <1>1, <2>1, CartFacts DEF CartInv, SnapshotsAreCarts
<1>4. ASSUME ~raced, died = 0
      PROVE  /\ sold = cart.items
             /\ \A i \in Items : added[i] = cart.items[i] + ordered[i] + dropped[i]
  <2>1. \A v \in Workers : work[v].at # "ordered"
    BY <1>1, <1>4, CartFacts, CartShapes DEF Alone
  <2> QED
    BY <1>1, <1>2, <1>4, <2>1 DEF CartInv, CartIsBalanced
<1>5. CASE ordered' = Plus(ordered, work[w].items) /\ Continue(w, [at |-> "ordered"])
  <2>1. ordered' \in [Items -> Nat] /\ \A i \in Items : ordered'[i] = ordered[i] + sold[i]
    BY <1>2, <1>5, CartFacts, PlusSums
  <2>2. [at |-> "ordered"] # Rest /\ died' = died
    BY <1>5 DEF Rest, Continue
  <2>3. ASSUME ~raced, died' = 0, NEW i \in Items
        PROVE  added'[i] = 0 + ordered'[i] + dropped'[i]
    <3>1. ordered[i] \in Nat /\ dropped[i] \in Nat /\ sold[i] \in Nat /\ added[i] \in Nat
      BY CartFacts
    <3>2. added[i] = sold[i] + ordered[i] + dropped[i]
      BY <1>4, <2>2, <2>3
    <3> QED
      BY <1>1, <2>1, <3>1, <3>2
  <2>4. PICK t : t = [at |-> "ordered"]
    OBVIOUS
  <2>5. t \in {Rest, [at |-> "ordered"]} /\ t # Rest /\ Continue(w, t)
    BY <1>5, <2>2, <2>4
  <2>6. ~raced /\ died' = 0 => \A i \in Items :
            added'[i] = (IF t = Rest THEN cart'.items[i] ELSE 0) + ordered'[i] + dropped'[i]
    BY <2>3, <2>5
  <2> QED
    BY <1>1, <1>3, <2>1, <2>5, <2>6, CartWritten
<1>6. CASE Finish(w) /\ UNCHANGED ordered
  <2>1. ordered' \in [Items -> Nat] /\ Continue(w, Rest) /\ died' = died
    BY <1>6, CartFacts DEF Finish, Continue
  <2>2. ~raced /\ died' = 0 => \A i \in Items :
            added'[i] = cart'.items[i] + ordered'[i] + dropped'[i]
    BY <1>1, <1>4, <1>6, <2>1
  <2> QED
    BY <1>1, <1>3, <2>1, <2>2, CartWritten
<1> QED
  BY <1>5, <1>6 DEF CommitCartOrder

(* CartInv is kept when it is emptied after the order. *)
LEMMA EmptyAfterOrderInductive == ASSUME CartInv, NEW w \in Workers, EmptyAfterOrder(w) PROVE CartInv'
<1>1. /\ work[w].at = "ordered" /\ UNCHANGED <<added, dropped, ordered>> /\ work[w] # Rest
      /\ cart' = EmptyCart /\ Continue(w, Rest) /\ died' = died
  BY CartFacts, CartShapes DEF EmptyAfterOrder, Finish, Continue
<1>2. \A i \in Items : added[i] \in Nat /\ cart'.items[i] = 0 /\ added'[i] = added[i]
  BY <1>1, CartFacts, EmptyIsCoherent
<1>3. ASSUME ~raced, died' = 0, NEW i \in Items
      PROVE  added'[i] = cart'.items[i] + ordered'[i] + dropped'[i]
  <2>1. added[i] = ordered[i] + dropped[i]
    BY <1>1, <1>3 DEF CartInv, CartIsBalanced
  <2>2. ordered[i] \in Nat /\ dropped[i] \in Nat
    BY CartFacts
  <2> QED
    BY <1>1, <1>2, <2>1, <2>2
<1>4. /\ cart' \in Cart /\ Coherent(cart') /\ added' \in [Items -> Nat] /\ dropped' \in [Items -> Nat]
      /\ ordered' \in [Items -> Nat]
      /\ \A i \in Items : added[i] <= added'[i] /\ cart'.items[i] <= added'[i]
  BY <1>1, <1>2, CartFacts, EmptyIsCoherent
<1> QED
  BY <1>1, <1>3, <1>4, CartWritten

(* CartInv is kept when a request dies. *)
LEMMA CartDieInductive == ASSUME CartInv, NEW w \in Workers, Die(w), UNCHANGED cartRows PROVE CartInv'
<1>1. UNCHANGED <<cart, added, dropped, ordered>> /\ work[w] # Rest /\ died' = died + 1
  BY DEF cartRows, Die
<1>2. died' # 0
  BY <1>1, CartFacts
<1>3. \A i \in Items : added[i] \in Nat /\ cart.items[i] <= added[i]
  BY CartFacts DEF CartInv, NothingAppears
<1>4. /\ cart' \in Cart /\ Coherent(cart') /\ added' \in [Items -> Nat] /\ dropped' \in [Items -> Nat]
      /\ ordered' \in [Items -> Nat]
      /\ \A i \in Items : added[i] <= added'[i] /\ cart'.items[i] <= added'[i]
  BY <1>1, <1>3, CartFacts DEF CartInv, SnapshotsAreCarts
<1> QED
  BY <1>1, <1>2, <1>4, CartWritten

(* CartInv is inductive: every step keeps it. *)
LEMMA CartNextInductive == ASSUME CartInv, [CartNext]_cartVars PROVE CartInv'
<1>1. ASSUME NEW w \in Workers, NEW i \in Items, NEW n \in Quantities, BeginAdd(w, i, n) PROVE CartInv'
  <2>1. PICK c \in Cart : c = cart
    BY CartFacts
  <2> DEFINE t == [at |-> "adding", item |-> i, n |-> n, seen |-> c]
  <2>2. t \in CartTask /\ t.at = "adding" /\ t.seen = c /\ t.item = i
    BY DEF CartTask
  <2>3. Begin(w, t) /\ UNCHANGED cartRows /\ cart.vendors \subseteq {SellerOf[i]}
    BY <1>1, <2>1 DEF BeginAdd
  <2> HIDE DEF t
  <2> QED
    BY <2>1, <2>2, <2>3, CartTakenUp
<1>2. ASSUME NEW w \in Workers, NEW i \in Items, BeginRemove(w, i) PROVE CartInv'
  <2>1. PICK c \in Cart : c = cart
    BY CartFacts
  <2> DEFINE t == [at |-> "removing", item |-> i, seen |-> c]
  <2>2. t \in CartTask /\ t.at = "removing" /\ t.seen = c
    BY DEF CartTask
  <2>3. Begin(w, t) /\ UNCHANGED cartRows
    BY <1>2, <2>1 DEF BeginRemove
  <2> HIDE DEF t
  <2> QED
    BY <2>1, <2>2, <2>3, CartTakenUp
<1>3. ASSUME NEW w \in Workers, BeginCheckout(w) PROVE CartInv'
  <2>1. PICK f \in [Items -> Nat] : f = cart.items
    BY CartFacts
  <2> DEFINE t == [at |-> "checkout", items |-> f]
  <2>2. t \in CartTask /\ t.at = "checkout" /\ t.items = f
    BY DEF CartTask
  <2>3. Begin(w, t) /\ UNCHANGED cartRows
    BY <1>3, <2>1 DEF BeginCheckout
  <2> HIDE DEF t
  <2> QED
    BY <2>1, <2>2, <2>3, CartTakenUp
<1>4. ASSUME UNCHANGED cartVars PROVE CartInv'
  <2>1. UNCHANGED <<cart, added, dropped, ordered>> /\ UNCHANGED workVars
    BY <1>4 DEF cartVars, cartRows
  <2>2. WorkTypeOK' /\ Alone' /\ Typed(CartTask)' /\ UNCHANGED <<work, begun, raced, died>>
    BY <2>1, CartFacts, NoRequest
  <2> QED
    BY <2>1, <2>2 DEF CartInv, CartTypeOK, SnapshotsAreCarts, NothingAppears, CartIsBalanced
<1> QED
  BY <1>1, <1>2, <1>3, <1>4, SaveAddInductive, SaveRemoveInductive, ClearCartInductive,
     CommitCartOrderInductive, EmptyAfterOrderInductive, CartDieInductive DEF CartNext, CartStep

(* The invariant says what is claimed of the cart. *)
LEMMA CartInvSuffices == CartInv => CartTypeOK /\ CartAddsUp
<1> SUFFICES ASSUME CartInv PROVE CartAddsUp
  BY DEF CartInv
<1>1. CartHasOneVendor
  BY DEF CartInv, SnapshotsAreCarts, Coherent, CartHasOneVendor
<1>2. NothingAppears
  BY DEF CartInv
<1>3. ItemsAreAccountedFor
  <2> SUFFICES ASSUME ~raced, died = 0, \A w \in Workers : work[w].at # "ordered"
               PROVE  added = Plus(cart.items, Plus(ordered, dropped))
    BY DEF ItemsAreAccountedFor
  <2>1. \A i \in Items : added[i] = cart.items[i] + ordered[i] + dropped[i]
    BY DEF CartInv, CartIsBalanced
  <2>2. /\ Plus(ordered, dropped) \in [Items -> Nat]
        /\ \A i \in Items : Plus(ordered, dropped)[i] = ordered[i] + dropped[i]
    BY CartFacts, PlusSums
  <2>3. /\ Plus(cart.items, Plus(ordered, dropped)) \in [Items -> Nat]
        /\ \A i \in Items : Plus(cart.items, Plus(ordered, dropped))[i]
                              = cart.items[i] + Plus(ordered, dropped)[i]
    BY <2>2, CartFacts, PlusSums
  <2>4. \A i \in Items : added[i] = Plus(cart.items, Plus(ordered, dropped))[i]
    BY <2>1, <2>2, <2>3, CartFacts
  <2> QED
    BY <2>3, <2>4, CartFacts
<1> QED
  BY <1>1, <1>2, <1>3 DEF CartAddsUp

(* For any items, vendors, quantities and requests: a cart is of one vendor  *)
(* and never holds more of an item than was added, whatever races and dies;  *)
(* where no two requests overlapped and none died every item added is in the *)
(* cart, in an order or was dropped (cart/router.py:118-166).                *)
THEOREM CartsAreSound == CartSpec => [](CartTypeOK /\ CartAddsUp)
<1>1. CartInit /\ WorkInit => CartInv
  BY CartInitInductive
<1>2. CartInv /\ [CartNext]_cartVars => CartInv'
  BY CartNextInductive
<1> QED
  BY <1>1, <1>2, CartInvSuffices, PTL DEF CartSpec

-----------------------------------------------------------------------------
(* The idempotency key. *)

(* The tasks of requests that place an order. *)
PlaceTask == [at : {"unmarked", "placed", "notify"}, key : Keys]

(* Orders with items.                                                         *)
Whole(k) == orders[k] - fragments[k]

(* A request has placed the order of k and not marked the key. *)
Between(k) == \E w \in Workers : work[w].at = "placed" /\ work[w].key = k

(* A key has an order if it is set, or about to be, and otherwise none.       *)
KeysAreCounted ==
  ~raced /\ died = 0 =>
    /\ \A k \in Keys : Whole(k) = IF k \in marked \/ Between(k) THEN 1 ELSE 0
    /\ \A w \in Workers : work[w].at \in {"unmarked", "placed"} => work[w].key \notin marked

(* The inductive invariant of the idempotency keys. *)
PlaceInv == PlaceTypeOK /\ Alone /\ Typed(PlaceTask) /\ KeysAreCounted

(* What a task of a placement is. *)
LEMMA PlaceShapes ==
  ASSUME Typed(PlaceTask), NEW w \in Workers
  PROVE  /\ work[w].at \in {"unmarked", "placed", "notify"} => work[w] # Rest /\ work[w].key \in Keys
         /\ work[w] = Rest <=> work[w].at = "rest"
<1>1. Rest.at = "rest"
  BY DEF Rest
<1>2. work[w] \in PlaceTask \cup {Rest}
  BY DEF Typed
<1> QED
  BY <1>1, <1>2 DEF PlaceTask

(* What the invariant says of keys and orders. *)
LEMMA PlaceFacts ==
  ASSUME PlaceInv
  PROVE  /\ WorkTypeOK /\ Alone /\ Typed(PlaceTask) /\ marked \subseteq Keys
         /\ orders \in [Keys -> Nat] /\ fragments \in [Keys -> Nat] /\ notices \in [Keys -> Nat]
         /\ died \in Nat
BY WorkerBounds DEF PlaceInv, PlaceTypeOK, WorkTypeOK

(* PlaceInv holds at first. *)
LEMMA PlaceInitInductive == PlaceInit /\ WorkInit => PlaceInv
<1> SUFFICES ASSUME PlaceInit, WorkInit PROVE PlaceInv
  OBVIOUS
<1>1. WorkTypeOK /\ Alone /\ Typed(PlaceTask)
  BY WorkInitHolds
<1>2. \A w \in Workers : work[w].at = "rest"
  BY DEF WorkInit, Rest
<1>3. PlaceTypeOK
  BY <1>1 DEF PlaceInit, PlaceTypeOK
<1>4. KeysAreCounted
  BY <1>2 DEF KeysAreCounted, Whole, Between, PlaceInit
<1> QED
  BY <1>1, <1>3, <1>4 DEF PlaceInv

(* PlaceInv is kept when a request has found its key unmarked, or is         *)
(* answered from it.                                                         *)
LEMMA BeginPlaceInductive ==
  ASSUME PlaceInv, NEW w \in Workers, NEW k \in Keys, BeginPlace(w, k) PROVE PlaceInv'
<1> DEFINE t == [at |-> "unmarked", key |-> k]
<1>1. t \in PlaceTask /\ t.at = "unmarked" /\ t.key = k
  BY DEF PlaceTask
<1>2. Begin(w, t) /\ k \notin marked /\ UNCHANGED <<marked, orders, fragments, notices>>
  BY DEF BeginPlace, placeRows
<1> HIDE DEF t
<1>3. /\ WorkTypeOK' /\ Alone' /\ Typed(PlaceTask)'
      /\ work[w] = Rest /\ work'[w] = t /\ \A v \in Workers \ {w} : work'[v] = work[v]
      /\ ~raced' => ~raced /\ \A v \in Workers : work[v] = Rest
      /\ died' = died
  BY <1>1, <1>2, PlaceFacts, TaskBegins
<1>4. PlaceTypeOK'
  BY <1>2, <1>3 DEF PlaceInv, PlaceTypeOK
<1>5. KeysAreCounted'
  <2> SUFFICES ASSUME ~raced', died' = 0 PROVE KeysAreCounted'
    BY DEF KeysAreCounted
  <2>1. \A v \in Workers : work[v].at = "rest"
    BY <1>3, PlaceFacts, PlaceShapes
  <2>2. \A j \in Keys : Whole(j) = IF j \in marked THEN 1 ELSE 0
    BY <1>3, <2>1 DEF PlaceInv, KeysAreCounted, Between
  <2>3. \A v \in Workers : work'[v].at \in {"unmarked", "placed"} => v = w
    BY <1>3, <2>1
  <2>4. \A j \in Keys : ~Between(j)'
    BY <1>1, <1>3, <2>3 DEF Between
  <2>5. \A j \in Keys : Whole(j)' = Whole(j)
    BY <1>2 DEF Whole
  <2> QED
    BY <1>1, <1>2, <1>3, <2>2, <2>3, <2>4, <2>5 DEF KeysAreCounted
<1> QED
  BY <1>3, <1>4, <1>5 DEF PlaceInv

(* What the keys are when the only request in progress is at t.               *)
SettledAt(t) ==
  ~raced /\ died = 0 =>
    /\ \A k \in Keys : Whole(k) = IF k \in marked \/ (t.at = "placed" /\ t.key = k) THEN 1 ELSE 0
    /\ t.at = "placed" => t.key \notin marked

(* The step of a request that leaves it at t.                                 *)
LEMMA PlaceStepHolds ==
  ASSUME PlaceInv, NEW w \in Workers, NEW t \in PlaceTask \cup {Rest}, work[w] # Rest,
         Continue(w, t) \/ (Die(w) /\ t = Rest),
         marked' \subseteq Keys,
         orders' \in [Keys -> Nat], fragments' \in [Keys -> Nat], notices' \in [Keys -> Nat],
         t.at # "unmarked",
         SettledAt(t)'
  PROVE  PlaceInv'
<1>1. /\ WorkTypeOK' /\ Alone' /\ Typed(PlaceTask)'
      /\ work'[w] = t /\ \A v \in Workers \ {w} : work'[v] = work[v]
      /\ ~raced => \A v \in Workers \ {w} : work[v] = Rest
      /\ raced' = raced
  <2>1. CASE Continue(w, t)
    BY <2>1, PlaceFacts, TaskContinues
  <2>2. CASE Die(w) /\ t = Rest
    BY <2>2, PlaceFacts, TaskDies DEF Alone
  <2> QED
    BY <2>1, <2>2
<1>2. PlaceTypeOK'
  BY <1>1 DEF PlaceTypeOK
<1>3. KeysAreCounted'
  <2> SUFFICES ASSUME ~raced', died' = 0 PROVE KeysAreCounted'
    BY DEF KeysAreCounted
  <2>1. \A v \in Workers \ {w} : work'[v].at = "rest"
    BY <1>1, PlaceFacts, PlaceShapes
  <2>2. \A k \in Keys : Between(k)' <=> t.at = "placed" /\ t.key = k
    BY <1>1, <2>1 DEF Between
  <2>3. /\ \A k \in Keys : Whole(k)' = IF k \in marked' \/ Between(k)' THEN 1 ELSE 0
        /\ t.at = "placed" => t.key \notin marked'
    BY <1>1, <2>2 DEF SettledAt
  <2> QED
    BY <1>1, <2>1, <2>3 DEF KeysAreCounted
<1> QED
  BY <1>1, <1>2, <1>3 DEF PlaceInv

(* PlaceInv is kept when the order commits. *)
LEMMA CommitOrderInductive == ASSUME PlaceInv, NEW w \in Workers, CommitOrder(w) PROVE PlaceInv'
<1>1. /\ work[w].at = "unmarked" /\ work[w] # Rest /\ work[w].key \in Keys
      /\ UNCHANGED <<marked, notices>>
  BY PlaceFacts, PlaceShapes DEF CommitOrder
<1>2. PICK k \in Keys : work[w].key = k
  BY <1>1
<1>3. ASSUME ~raced, died = 0
      PROVE  k \notin marked /\ \A j \in Keys : Whole(j) = IF j \in marked THEN 1 ELSE 0
  <2>1. \A j \in Keys : ~Between(j)
    BY <1>1, <1>3, PlaceFacts, PlaceShapes DEF Between, Alone
  <2> QED
    BY <1>1, <1>2, <1>3, <2>1 DEF PlaceInv, KeysAreCounted
<1>4. CASE Finish(w) /\ UNCHANGED <<orders, fragments>>
  <2>1. Continue(w, Rest) /\ died' = died /\ Rest.at = "rest"
    BY <1>4 DEF Finish, Continue, Rest
  <2>2. \A j \in Keys : Whole(j)' = Whole(j)
    BY <1>4 DEF Whole
  <2>3. SettledAt(Rest)'
    BY <1>1, <1>3, <2>1, <2>2 DEF SettledAt, Continue
  <2> QED
    BY <1>1, <1>4, <2>1, <2>3, PlaceFacts, PlaceStepHolds
<1>5. CASE /\ orders' = [orders EXCEPT ![work[w].key] = @ + 1]
           /\ Continue(w, [at |-> "placed", key |-> work[w].key])
           /\ UNCHANGED fragments
  <2>0. PICK t : t = [at |-> "placed", key |-> k]
    OBVIOUS
  <2>1. t \in PlaceTask /\ t.at = "placed" /\ t.key = k
    BY <2>0 DEF PlaceTask
  <2>2. Continue(w, t) /\ died' = died
    BY <1>2, <1>5, <2>0 DEF Continue
  <2>3. /\ orders' \in [Keys -> Nat] /\ orders'[k] = orders[k] + 1
        /\ \A j \in Keys \ {k} : orders'[j] = orders[j]
    BY <1>2, <1>5, PlaceFacts
  <2>4. Whole(k)' = Whole(k) + 1 /\ \A j \in Keys \ {k} : Whole(j)' = Whole(j)
    BY <1>5, <2>3, PlaceFacts DEF Whole
  <2>5. ASSUME ~raced, died' = 0, NEW j \in Keys
        PROVE  Whole(j)' = IF j \in marked' \/ (t.at = "placed" /\ t.key = j) THEN 1 ELSE 0
    <3>1. k \notin marked /\ Whole(j) = (IF j \in marked THEN 1 ELSE 0)
      BY <1>3, <2>2, <2>5
    <3>2. CASE j = k
      BY <2>1, <2>4, <3>1, <3>2
    <3>3. CASE j # k
      BY <1>1, <2>1, <2>4, <3>1, <3>3
    <3> QED
      BY <3>2, <3>3
  <2>6. ~raced /\ died' = 0 => t.key \notin marked'
    BY <1>1, <1>3, <2>1, <2>2
  <2>7. t \in PlaceTask \cup {Rest} /\ marked' \subseteq Keys /\ t.at # "unmarked"
    BY <1>1, <2>1, PlaceFacts
  <2>8. SettledAt(t)'
    BY <2>2, <2>5, <2>6 DEF SettledAt, Continue
  <2>9. orders' \in [Keys -> Nat] /\ fragments' \in [Keys -> Nat] /\ notices' \in [Keys -> Nat]
    BY <1>1, <1>5, <2>3, PlaceFacts
  <2> QED
    BY <1>1, <2>2, <2>7, <2>8, <2>9, PlaceStepHolds
<1>6. CASE /\ orders' = [orders EXCEPT ![work[w].key] = @ + 1]
           /\ fragments' = [fragments EXCEPT ![work[w].key] = @ + 1]
           /\ Finish(w)
  <2>1. Continue(w, Rest) /\ died' = died /\ Rest.at = "rest"
    BY <1>6 DEF Finish, Continue, Rest
  <2>2. /\ orders' \in [Keys -> Nat] /\ orders'[k] = orders[k] + 1
        /\ \A j \in Keys \ {k} : orders'[j] = orders[j]
    BY <1>2, <1>6, PlaceFacts
  <2>3. /\ fragments' \in [Keys -> Nat] /\ fragments'[k] = fragments[k] + 1
        /\ \A j \in Keys \ {k} : fragments'[j] = fragments[j]
    BY <1>2, <1>6, PlaceFacts
  <2>4. orders[k] \in Nat /\ fragments[k] \in Nat
    BY PlaceFacts
  <2>5. Whole(k)' = Whole(k)
    BY <2>2, <2>3, <2>4 DEF Whole
  <2>6. \A j \in Keys \ {k} : Whole(j)' = Whole(j)
    BY <2>2, <2>3 DEF Whole
  <2>7. \A j \in Keys : Whole(j)' = Whole(j)
    BY <2>5, <2>6
  <2>8. SettledAt(Rest)'
    BY <1>1, <1>3, <2>1, <2>7 DEF SettledAt, Continue
  <2> QED
    BY <1>1, <2>1, <2>2, <2>3, <2>8, PlaceFacts, PlaceStepHolds
<1> QED
  BY <1>4, <1>5, <1>6 DEF CommitOrder

(* PlaceInv is kept when the key is marked. *)
LEMMA MarkKeyInductive == ASSUME PlaceInv, NEW w \in Workers, MarkKey(w) PROVE PlaceInv'
<1>1. /\ work[w].at = "placed" /\ work[w] # Rest /\ work[w].key \in Keys
      /\ UNCHANGED <<orders, fragments, notices>>
  BY PlaceFacts, PlaceShapes DEF MarkKey
<1>2. PICK k \in Keys : work[w].key = k
  BY <1>1
<1>0. PICK t : t = [at |-> "notify", key |-> k]
  OBVIOUS
<1>3. t \in PlaceTask /\ t.at = "notify"
  BY <1>0 DEF PlaceTask
<1>4. Continue(w, t) /\ died' = died /\ marked' = marked \cup {k}
  BY <1>0, <1>2 DEF MarkKey, Continue
<1>5. ASSUME ~raced, died' = 0, NEW j \in Keys
      PROVE  Whole(j)' = IF j \in marked' THEN 1 ELSE 0
  <2>1. Between(j) <=> j = k
    BY <1>1, <1>2, <1>5, PlaceFacts, PlaceShapes DEF Between, Alone
  <2>2. Whole(j) = IF j \in marked \/ Between(j) THEN 1 ELSE 0
    BY <1>4, <1>5 DEF PlaceInv, KeysAreCounted
  <2>3. Whole(j)' = Whole(j)
    BY <1>1 DEF Whole
  <2> QED
    BY <1>4, <2>1, <2>2, <2>3
<1>6. t \in PlaceTask \cup {Rest} /\ marked' \subseteq Keys /\ t.at # "unmarked"
  BY <1>3, <1>4, PlaceFacts
<1>7. SettledAt(t)'
  BY <1>3, <1>4, <1>5 DEF SettledAt, Continue
<1>8. orders' \in [Keys -> Nat] /\ fragments' \in [Keys -> Nat] /\ notices' \in [Keys -> Nat]
  BY <1>1, PlaceFacts
<1> QED
  BY <1>1, <1>4, <1>6, <1>7, <1>8, PlaceStepHolds

(* A request past the key ends, or any request dies.                          *)
LEMMA PlaceEndInductive ==
  ASSUME PlaceInv, NEW w \in Workers,
         CommitNotice(w) \/ (Die(w) /\ UNCHANGED placeRows)
  PROVE  PlaceInv'
<1>1. CASE CommitNotice(w)
  <2>1. /\ work[w].at = "notify" /\ work[w] # Rest /\ work[w].key \in Keys
        /\ UNCHANGED <<marked, orders, fragments>> /\ Continue(w, Rest) /\ died' = died
    BY <1>1, PlaceFacts, PlaceShapes DEF CommitNotice, Finish, Continue
  <2>2. notices' \in [Keys -> Nat]
    BY <1>1, <2>1, PlaceFacts DEF CommitNotice
  <2>3. \A j \in Keys : Whole(j)' = Whole(j)
    BY <2>1 DEF Whole
  <2>4. ASSUME ~raced, died' = 0, NEW j \in Keys PROVE Whole(j)' = IF j \in marked' THEN 1 ELSE 0
    <3>1. ~Between(j)
      BY <2>1, <2>4, PlaceFacts, PlaceShapes DEF Between, Alone
    <3> QED
      BY <2>1, <2>3, <2>4, <3>1 DEF PlaceInv, KeysAreCounted
  <2>5. Rest.at = "rest"
    BY DEF Rest
  <2>6. SettledAt(Rest)'
    BY <2>1, <2>4, <2>5 DEF SettledAt, Continue
  <2> QED
    BY <2>1, <2>2, <2>5, <2>6, PlaceFacts, PlaceStepHolds
<1>2. CASE Die(w) /\ UNCHANGED placeRows
  <2>1. died' # 0 /\ work[w] # Rest
    BY <1>2, PlaceFacts DEF Die
  <2>2. UNCHANGED <<marked, orders, fragments, notices>> /\ Rest.at = "rest"
    BY <1>2 DEF placeRows, Rest
  <2>3. SettledAt(Rest)'
    BY <2>1 DEF SettledAt
  <2> QED
    BY <1>2, <2>1, <2>2, <2>3, PlaceFacts, PlaceStepHolds
<1> QED
  BY <1>1, <1>2

(* PlaceInv is kept when a key expires. *)
LEMMA ExpireKeyInductive == ASSUME PlaceInv, NEW k \in Keys, ExpireKey(k) PROVE PlaceInv'
<1>1. /\ k \in marked /\ marked' = marked \ {k} /\ UNCHANGED workVars
      /\ orders' = [orders EXCEPT ![k] = 0] /\ fragments' = [fragments EXCEPT ![k] = 0]
      /\ notices' = [notices EXCEPT ![k] = 0]
  BY DEF ExpireKey
<1>2. WorkTypeOK' /\ Alone' /\ Typed(PlaceTask)' /\ UNCHANGED <<work, begun, raced, died>>
  BY <1>1, PlaceFacts, NoRequest
<1>3. /\ marked' \subseteq Keys
      /\ orders' \in [Keys -> Nat] /\ fragments' \in [Keys -> Nat] /\ notices' \in [Keys -> Nat]
  BY <1>1, PlaceFacts
<1>4. PlaceTypeOK'
  BY <1>2, <1>3 DEF PlaceTypeOK
<1>5. orders'[k] = 0 /\ fragments'[k] = 0
  BY <1>1, PlaceFacts
<1>6. Whole(k)' = 0 /\ \A j \in Keys \ {k} : Whole(j)' = Whole(j)
  BY <1>1, <1>5, PlaceFacts DEF Whole
<1>7. \A j \in Keys : Between(j)' <=> Between(j)
  BY <1>2 DEF Between
<1>8. KeysAreCounted'
  <2> SUFFICES ASSUME ~raced', died' = 0 PROVE KeysAreCounted'
    BY DEF KeysAreCounted
  <2>1. /\ \A j \in Keys : Whole(j) = IF j \in marked \/ Between(j) THEN 1 ELSE 0
        /\ \A w \in Workers : work[w].at \in {"unmarked", "placed"} => work[w].key \notin marked
    BY <1>2 DEF PlaceInv, KeysAreCounted
  <2>2. ~Between(k)
    BY <1>1, <2>1 DEF Between
  <2>3. ASSUME NEW j \in Keys PROVE Whole(j)' = IF j \in marked' \/ Between(j)' THEN 1 ELSE 0
    <3>1. CASE j = k
      BY <1>1, <1>6, <1>7, <2>2, <3>1
    <3>2. CASE j # k
      BY <1>1, <1>6, <1>7, <2>1, <3>2
    <3> QED
      BY <3>1, <3>2
  <2>4. \A w \in Workers : work'[w].at \in {"unmarked", "placed"} => work'[w].key \notin marked'
    BY <1>1, <1>2, <2>1
  <2> QED
    BY <2>3, <2>4 DEF KeysAreCounted
<1> QED
  BY <1>2, <1>4, <1>8 DEF PlaceInv

(* PlaceInv is inductive: every step keeps it. *)
LEMMA PlaceNextInductive == ASSUME PlaceInv, [PlaceNext]_placeVars PROVE PlaceInv'
<1>1. ASSUME UNCHANGED placeVars PROVE PlaceInv'
  <2>1. UNCHANGED <<marked, orders, fragments, notices>> /\ UNCHANGED workVars
    BY <1>1 DEF placeVars, placeRows
  <2>2. WorkTypeOK' /\ Alone' /\ Typed(PlaceTask)' /\ UNCHANGED <<work, begun, raced, died>>
    BY <2>1, PlaceFacts, NoRequest
  <2>3. PlaceTypeOK'
    BY <2>1, <2>2 DEF PlaceInv, PlaceTypeOK
  <2>4. KeysAreCounted'
    BY <2>1, <2>2 DEF PlaceInv, KeysAreCounted, Whole, Between
  <2> QED
    BY <2>2, <2>3, <2>4 DEF PlaceInv
<1> QED
  BY <1>1, BeginPlaceInductive, CommitOrderInductive, MarkKeyInductive, PlaceEndInductive,
     ExpireKeyInductive DEF PlaceNext, PlaceStep

(* It says what is claimed of the keys. *)
LEMMA PlaceInvSuffices == PlaceInv => PlaceTypeOK /\ KeyPlacesOneOrder
<1> SUFFICES ASSUME PlaceInv, ~raced, died = 0, NEW k \in Keys
             PROVE  Whole(k) <= 1 /\ (k \in marked => Whole(k) = 1)
  BY DEF PlaceInv, KeyPlacesOneOrder, Whole
<1>1. Whole(k) = IF k \in marked \/ Between(k) THEN 1 ELSE 0
  BY DEF PlaceInv, KeysAreCounted
<1> QED
  BY <1>1

(* For any number of keys and requests: where no two overlapped and none     *)
(* died, a key that is sent again within the hour places one order with      *)
(* items at most, and a key that is set has its order                        *)
(* (orders/order_service.py:106-116).                                        *)
THEOREM PlacementsAreSound == PlaceSpec => [](PlaceTypeOK /\ KeyPlacesOneOrder)
<1>1. PlaceInit /\ WorkInit => PlaceInv
  BY PlaceInitInductive
<1>2. PlaceInv /\ [PlaceNext]_placeVars => PlaceInv'
  BY PlaceNextInductive
<1> QED
  BY <1>1, <1>2, PlaceInvSuffices, PTL DEF PlaceSpec

-----------------------------------------------------------------------------
(* All of them: the specification that is checked, for any instance. *)

(* The inductive invariant of the run: every row has its type, and the part  *)
(* that is explored has its own invariant.                                   *)
CartsInv ==
  /\ CartsTypeOK
  /\ part = "group" => GroupInv
  /\ part = "lock" => LockInv
  /\ part = "cart" => CartInv
  /\ part = "place" => PlaceInv

(* Rows that no request of the part touches keep their types with it.        *)
LEMMA OtherCartsKeepTypes ==
  ASSUME CartsTypeOK, WorkTypeOK'
  PROVE  /\ UNCHANGED groupRows => GroupTypeOK'
         /\ UNCHANGED lock => LockTypeOK'
         /\ UNCHANGED cartRows => CartTypeOK'
         /\ UNCHANGED placeRows => PlaceTypeOK'
<1>1. UNCHANGED groupRows => GroupTypeOK'
  BY DEF CartsTypeOK, GroupTypeOK, groupRows
<1>2. UNCHANGED lock => LockTypeOK'
  BY DEF CartsTypeOK, LockTypeOK
<1>3. UNCHANGED cartRows => CartTypeOK'
  BY DEF CartsTypeOK, CartTypeOK, cartRows
<1>4. UNCHANGED placeRows => PlaceTypeOK'
  BY DEF CartsTypeOK, PlaceTypeOK, placeRows
<1> QED
  BY <1>1, <1>2, <1>3, <1>4

(* Rows, keys and requests of carts and groups have their types, whichever   *)
(* of the four the requests are for.                                         *)
THEOREM CartsTypeCorrect == CartsSpec => []CartsTypeOK
<1>1. CartsInit => CartsInv
  <2> SUFFICES ASSUME CartsInit PROVE CartsInv
    OBVIOUS
  <2>1. GroupInv /\ LockInv /\ CartInv /\ PlaceInv
    BY GroupInitInductive, LockInitInductive, CartInitInductive, PlaceInitInductive DEF CartsInit
  <2> QED
    BY <2>1 DEF CartsInv, CartsTypeOK, GroupInv, LockInv, CartInv, PlaceInv
<1>2. CartsInv /\ [CartsNext]_cartsVars => CartsInv'
  <2> SUFFICES ASSUME CartsInv, [CartsNext]_cartsVars PROVE CartsInv'
    OBVIOUS
  <2>1. CASE part = "group" /\ GroupNext /\ UNCHANGED <<lock, cartRows, placeRows, part>>
    <3>1. GroupInv'
      BY <2>1, GroupNextInductive DEF CartsInv
    <3> QED
      BY <2>1, <3>1, OtherCartsKeepTypes DEF CartsInv, CartsTypeOK, GroupInv, GroupTypeOK
  <2>2. CASE part = "lock" /\ LockNext /\ UNCHANGED <<groupRows, cartRows, placeRows, part>>
    <3>1. LockInv'
      BY <2>2, LockNextInductive DEF CartsInv
    <3> QED
      BY <2>2, <3>1, OtherCartsKeepTypes DEF CartsInv, CartsTypeOK, LockInv, LockTypeOK
  <2>3. CASE part = "cart" /\ CartNext /\ UNCHANGED <<groupRows, lock, placeRows, part>>
    <3>1. CartInv'
      BY <2>3, CartNextInductive DEF CartsInv
    <3> QED
      BY <2>3, <3>1, OtherCartsKeepTypes DEF CartsInv, CartsTypeOK, CartInv, CartTypeOK
  <2>4. CASE part = "place" /\ PlaceNext /\ UNCHANGED <<groupRows, lock, cartRows, part>>
    <3>1. PlaceInv'
      BY <2>4, PlaceNextInductive DEF CartsInv
    <3> QED
      BY <2>4, <3>1, OtherCartsKeepTypes DEF CartsInv, CartsTypeOK, PlaceInv, PlaceTypeOK
  <2>5. CASE UNCHANGED cartsVars
    <3>1. /\ UNCHANGED <<groupRows, lock, cartRows, placeRows, part>> /\ WorkTypeOK'
      BY <2>5 DEF cartsVars, workVars, CartsInv, CartsTypeOK, LockTypeOK, WorkTypeOK
    <3>2. /\ part = "group" => GroupInv'
          /\ part = "lock" => LockInv'
          /\ part = "cart" => CartInv'
          /\ part = "place" => PlaceInv'
      BY <2>5, GroupNextInductive, LockNextInductive, CartNextInductive, PlaceNextInductive
         DEF CartsInv, cartsVars, groupVars, lockVars, cartVars, placeVars
    <3> QED
      BY <3>1, <3>2, OtherCartsKeepTypes DEF CartsInv, CartsTypeOK
  <2> QED
    BY <2>1, <2>2, <2>3, <2>4, <2>5 DEF CartsNext
<1>3. CartsInv => CartsTypeOK
  BY DEF CartsInv
<1> QED
  BY <1>1, <1>2, <1>3, PTL DEF CartsSpec
=============================================================================

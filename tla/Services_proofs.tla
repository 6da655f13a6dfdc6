-------------------------- MODULE Services_proofs ---------------------------
(***************************************************************************)
(* Theorems about the services beside the order: reward points, reward     *)
(* policy and vouchers, print jobs, admin settings, complaints, past       *)
(* orders, the order rows the analytics read and what is told of them, for *)
(* any accounts, amounts, rows and requests.                               *)
(***************************************************************************)
EXTENDS MCServices, Accounts_proofs

-----------------------------------------------------------------------------
(* Reward points. *)

(* The operations on an account. *)
PointsOps == {"award", "bonus", "redeem", "view"}

(* The tasks of requests about points. *)
PointsTask ==
  [at : {"missing"}, op : PointsOps, n : Amounts]
    \cup [at : {"loaded"}, op : PointsOps, n : Amounts, row : Accounts, seen : Balance, logged : BOOLEAN]
    \cup [at : {"created"}, n : Amounts, row : Accounts]
    \cup [at : {"bonus"}]

(* A request has loaded its account. *)
Loaded(w) == work[w].at = "loaded"

(* The request that inserted a row and has yet to write its points there. *)
Founding(w) == work[w].at = "created" \/ (work[w].at = "loaded" /\ work[w].logged)

(* The points a request is about to write are not the first to be seen. *)
RowsAreThere ==
  \A w \in Workers : work[w].at \in {"loaded", "created"} => work[w].row \in Wallets

(* Without overlap only one request is about to create an account. *)
FoundersDiffer ==
  \A v, w \in Workers : Founding(v) /\ Founding(w) /\ work[v].row = work[w].row => v = w

(* A redemption in progress has enough points in what it loaded. *)
RedemptionsAreCovered ==
  /\ NobodyOwesPoints
  /\ \A w \in Workers : Loaded(w) => /\ work[w].seen.points >= 0
                                     /\ work[w].op = "redeem" => work[w].seen.points >= work[w].n

(* b bounds what the rows, and what requests saw of them, may come to without  *)
(* another reward_transactions row.                                            *)
Bounds(b) ==
  /\ \A a \in Wallets : account[a].earned <= b[a]
  /\ \A w \in Workers : Loaded(w) => work[w].seen.earned <= b[work[w].row]
  /\ \A v \in Workers : Founding(v) =>
       /\ account[work[v].row].earned + work[v].n <= b[work[v].row]
       /\ \A w \in Workers : Loaded(w) /\ work[w].row = work[v].row
            => work[w].seen.earned + work[v].n <= b[work[v].row]

(* What the accounts earned is bounded by what was recorded. *)
EarnedIsBounded == \E b \in [Accounts -> Nat] : SumOf(b) <= recorded /\ Bounds(b)

(* Without overlap a request works on what is there. *)
SeenIsThere ==
  ~raced =>
    /\ Wallets = {} => spent = 0
    /\ \A w \in Workers :
         /\ Loaded(w) => work[w].seen = account[work[w].row]
         /\ work[w].at = "missing" => Wallets = {}

(* The inductive invariant of the points. *)
PointsInv ==
  /\ PointsTypeOK /\ Typed(PointsTask) /\ Alone
  /\ RowsAreThere /\ FoundersDiffer /\ RedemptionsAreCovered
  /\ EarnedIsBounded
  /\ AccountAddsUp /\ SeenIsThere

(* PointsInv holds at first. *)
LEMMA PointsInitInductive == PointsInit /\ WorkInit => PointsInv
<1> SUFFICES ASSUME PointsInit, WorkInit PROVE PointsInv
  OBVIOUS
<1>1. WorkTypeOK /\ Alone /\ Typed(PointsTask)
  BY WorkInitHolds
<1>2. \A w \in Workers : work[w].at = "rest"
  BY DEF WorkInit, Rest
<1>3. Wallets = {}
  BY DEF PointsInit, Wallets
<1>4. PointsTypeOK
  BY <1>1 DEF PointsInit, PointsTypeOK
<1>5. EarnedIsBounded
  <2> DEFINE b == [a \in Accounts |-> 0]
  <2>1. b \in [Accounts -> Nat] /\ \A a \in Accounts : b[a] = 0
    OBVIOUS
  <2>2. SumOf(b) = 0
    BY <2>1, SumOfZeros, AccountsAssumption
  <2>3. Bounds(b)
    BY <1>2, <1>3 DEF Bounds, Loaded, Founding
  <2> HIDE DEF b
  <2> QED
    BY <2>1, <2>2, <2>3 DEF EarnedIsBounded, PointsInit
<1> QED
  BY <1>1, <1>2, <1>3, <1>4, <1>5
     DEF PointsInv, RowsAreThere, FoundersDiffer, RedemptionsAreCovered, NobodyOwesPoints, AccountAddsUp,
         SeenIsThere, Loaded, Founding, PointsInit

(* What a task about points is. *)
LEMMA TaskShapes ==
  ASSUME Typed(PointsTask), NEW w \in Workers
  PROVE  /\ work[w].at \in {"missing", "loaded", "created", "bonus", "rest"}
         /\ work[w].at = "rest" <=> work[w] = Rest
         /\ work[w].at = "missing" => work[w] \in [at : {"missing"}, op : PointsOps, n : Amounts]
         /\ work[w].at = "loaded" =>
              work[w] \in [at : {"loaded"}, op : PointsOps, n : Amounts, row : Accounts, seen : Balance,
                           logged : BOOLEAN]
         /\ work[w].at = "created" => work[w] \in [at : {"created"}, n : Amounts, row : Accounts]
         /\ work[w].at \in {"missing", "loaded", "created"} => work[w].n \in Nat \ {0}
<1>1. work[w] \in PointsTask \cup {Rest}
  BY DEF Typed
<1>2. CASE work[w] = Rest
  BY <1>2 DEF Rest
<1>3. CASE work[w] \in [at : {"missing"}, op : PointsOps, n : Amounts]
  <2>1. work[w].at = "missing" /\ work[w] # Rest
    BY <1>3 DEF Rest
  <2>2. work[w].n \in Nat \ {0}
    BY <1>3, AmountsAssumption
  <2> QED
    BY <1>3, <2>1, <2>2
<1>4. CASE work[w] \in [at : {"loaded"}, op : PointsOps, n : Amounts, row : Accounts, seen : Balance,
                        logged : BOOLEAN]
  <2>1. work[w].at = "loaded" /\ work[w] # Rest
    BY <1>4 DEF Rest
  <2>2. work[w].n \in Nat \ {0}
    BY <1>4, AmountsAssumption
  <2> QED
    BY <1>4, <2>1, <2>2
<1>5. CASE work[w] \in [at : {"created"}, n : Amounts, row : Accounts]
  <2>1. work[w].at = "created" /\ work[w] # Rest
    BY <1>5 DEF Rest
  <2>2. work[w].n \in Nat \ {0}
    BY <1>5, AmountsAssumption
  <2> QED
    BY <1>5, <2>1, <2>2
<1>6. CASE work[w] \in [at : {"bonus"}]
  <2>1. work[w].at = "bonus" /\ work[w] # Rest
    BY <1>6 DEF Rest
  <2> QED
    BY <1>6, <2>1
<1> QED
  BY <1>1, <1>2, <1>3, <1>4, <1>5, <1>6 DEF PointsTask

(* What the invariant says of the account rows. *)
LEMMA AccountRows ==
  ASSUME PointsTypeOK, NEW a \in Accounts
  PROVE  /\ a \in Wallets <=> account[a] # NoAccount
         /\ a \in Wallets => /\ account[a] \in Balance /\ account[a].points \in Int
                             /\ account[a].earned \in Nat /\ account[a].redeemed \in Nat
BY DEF PointsTypeOK, Wallets, Balance

(* A request moves on to what it has just loaded, or ends, and writes nothing. *)
LEMMA PointsQuietStep ==
  ASSUME PointsInv, UNCHANGED pointsRows, NEW w \in Workers, NEW t \in PointsTask \cup {Rest},
         WorkTypeOK', Alone', Typed(PointsTask)', raced' \in {raced, TRUE},
         work'[w] = t, \A v \in Workers \ {w} : work'[v] = work[v],
         t.at # "created",
         t.at = "missing" => Wallets = {},
         t.at = "loaded" =>
           /\ t.row \in Wallets /\ t.seen = account[t.row]
           /\ t.op = "redeem" => t.seen.points >= t.n
           /\ t.logged => Founding(w) /\ work[w].row = t.row /\ work[w].n = t.n
  PROVE  PointsInv'
<1>0. /\ UNCHANGED <<account, recorded, spent>> /\ Wallets' = Wallets
      /\ Typed(PointsTask) /\ PointsTypeOK
  BY DEF pointsRows, Wallets, PointsInv
<1>1. PointsTypeOK'
  BY <1>0 DEF PointsTypeOK
<1>2. \A a \in Wallets : account[a].points >= 0 /\ account[a].earned \in Nat
  BY <1>0, AccountRows DEF PointsInv, RedemptionsAreCovered, NobodyOwesPoints, Wallets
<1>3. RowsAreThere'
  BY <1>0 DEF PointsInv, RowsAreThere
<1>4. \A v \in Workers : Founding(v)' => Founding(v) /\ work'[v].row = work[v].row /\ work'[v].n = work[v].n
  BY DEF Founding
<1>5. FoundersDiffer'
  BY <1>4 DEF PointsInv, FoundersDiffer
<1>6. RedemptionsAreCovered'
  BY <1>0, <1>2 DEF PointsInv, RedemptionsAreCovered, NobodyOwesPoints, Loaded
<1>7. EarnedIsBounded'
  <2>1. PICK b \in [Accounts -> Nat] : SumOf(b) <= recorded /\ Bounds(b)
    BY DEF PointsInv, EarnedIsBounded
  <2>2. \A v \in Workers : Loaded(v)' =>
          \/ Loaded(v) /\ work'[v] = work[v]
          \/ v = w /\ t.at = "loaded"
    BY DEF Loaded
  <2>3. ASSUME NEW v \in Workers, Loaded(v)'
        PROVE  work'[v].seen.earned <= b[work'[v].row]
    BY <1>0, <2>1, <2>2, <2>3 DEF Bounds
  <2>4. ASSUME NEW u \in Workers, Founding(u)'
        PROVE  /\ account[work'[u].row].earned + work'[u].n <= b[work'[u].row]
               /\ \A v \in Workers : Loaded(v)' /\ work'[v].row = work'[u].row
                    => work'[v].seen.earned + work'[u].n <= b[work'[u].row]
    BY <1>0, <1>4, <2>1, <2>2, <2>4 DEF Bounds
  <2>5. Bounds(b)'
    BY <1>0, <2>1, <2>3, <2>4 DEF Bounds
  <2> QED
    BY <1>0, <2>1, <2>5 DEF EarnedIsBounded
<1>8. AccountAddsUp' /\ SeenIsThere'
  <2> SUFFICES ASSUME ~raced' PROVE AccountAddsUp' /\ SeenIsThere'
    BY DEF AccountAddsUp, SeenIsThere
  <2>1. ~raced
    OBVIOUS
  <2>2. AccountAddsUp'
    BY <1>0, <2>1 DEF PointsInv, AccountAddsUp
  <2>3. SeenIsThere'
    BY <1>0, <2>1 DEF PointsInv, SeenIsThere, Loaded
  <2> QED
    BY <2>2, <2>3
<1> QED
  BY <1>1, <1>3, <1>5, <1>6, <1>7, <1>8 DEF PointsInv

(* What a request that looks for the row of the student finds.               *)
LEMMA LookupFinds ==
  ASSUME PointsInv, NEW op \in PointsOps, NEW n \in Amounts, NEW t \in Lookup(op, n)
  PROVE  /\ t \in PointsTask
         /\ t.at = "missing" => Wallets = {}
         /\ t.at = "loaded" => t.row \in Wallets /\ t.seen = account[t.row] /\ ~t.logged /\ t.op = op /\ t.n = n
         /\ t.at \in {"missing", "loaded"}
<1>1. CASE Wallets = {}
  <2>1. t = [at |-> "missing", op |-> op, n |-> n]
    BY <1>1 DEF Lookup
  <2> QED
    BY <1>1, <2>1 DEF PointsTask
<1>2. CASE Wallets # {}
  <2>1. PICK a \in Wallets :
          t = [at |-> "loaded", op |-> op, n |-> n, row |-> a, seen |-> account[a], logged |-> FALSE]
    BY <1>2 DEF Lookup
  <2>2. account[a] \in Balance /\ a \in Accounts
    BY AccountRows DEF PointsInv, Wallets
  <2>3. t \in [at : {"loaded"}, op : PointsOps, n : Amounts, row : Accounts, seen : Balance, logged : BOOLEAN]
    BY <2>1, <2>2
  <2> QED
    BY <2>1, <2>2, <2>3 DEF PointsTask
<1> QED
  BY <1>1, <1>2

(* PointsInv is kept when an account is created. *)
LEMMA CreateAccountInductive ==
  ASSUME PointsInv, NEW w \in Workers, CreateAccount(w)
  PROVE  PointsInv'
<1> DEFINE t == work[w]
<1>1. /\ WorkTypeOK /\ Alone /\ Typed(PointsTask) /\ PointsTypeOK /\ recorded \in Nat /\ spent \in Nat
  BY DEF PointsInv, PointsTypeOK
<1>2. t.at = "missing" /\ t # Rest /\ t.n \in Nat \ {0} /\ t.n \in Amounts
  BY <1>1, TaskShapes DEF CreateAccount
<1>3. PICK a \in Accounts \ Wallets :
        /\ account' = [account EXCEPT ![a] = Empty]
        /\ IF t.op = "award"
           THEN /\ Continue(w, [at |-> "created", n |-> t.n, row |-> a]) /\ recorded' = recorded + t.n
           ELSE Finish(w) /\ UNCHANGED recorded
        /\ spent' = spent
  BY DEF CreateAccount
<1> DEFINE next == IF t.op = "award" THEN [at |-> "created", n |-> t.n, row |-> a] ELSE Rest
<1>4. next \in PointsTask \cup {Rest} /\ Continue(w, next) /\ recorded' \in Nat
      /\ recorded' >= recorded
  BY <1>1, <1>2, <1>3 DEF Finish, PointsTask
<1>5. /\ WorkTypeOK' /\ Alone' /\ Typed(PointsTask)'
      /\ work'[w] = next /\ \A v \in Workers \ {w} : work'[v] = work[v]
      /\ raced' = raced
      /\ ~raced => \A v \in Workers \ {w} : work[v] = Rest
  <2> HIDE DEF next
  <2> QED
    BY <1>1, <1>2, <1>4, TaskContinues
<1>6. /\ Empty \in Balance /\ Empty # NoAccount /\ Empty.points = 0 /\ Empty.earned = 0 /\ Empty.redeemed = 0
  BY DEF Empty, Balance, NoAccount
<1>7. account \in [Accounts -> Balance \cup {NoAccount}]
  BY <1>1 DEF PointsTypeOK
<1>8. /\ account' \in [Accounts -> Balance \cup {NoAccount}]
      /\ account'[a] = Empty /\ \A x \in Accounts \ {a} : account'[x] = account[x]
  BY <1>3, <1>6, <1>7
<1>9. Wallets' = Wallets \cup {a} /\ a \notin Wallets
  BY <1>3, <1>6, <1>8 DEF Wallets
<1>10. \A v \in Workers \ {w} : work[v].at \in {"loaded", "created"} => work[v].row \in Wallets /\ work[v].row # a
  BY <1>9 DEF PointsInv, RowsAreThere
<1>11. PointsTypeOK'
  BY <1>1, <1>3, <1>4, <1>5, <1>8 DEF PointsTypeOK
<1>12. next.at \in {"created", "rest"} /\ (next.at = "created" => next.row = a /\ next.n = t.n)
  BY DEF Rest
<1> HIDE DEF next
<1>13. RowsAreThere'
  BY <1>5, <1>9, <1>10, <1>12 DEF RowsAreThere
<1>14. FoundersDiffer'
  <2> SUFFICES ASSUME NEW u \in Workers, NEW v \in Workers, Founding(u)', Founding(v)', work'[u].row = work'[v].row
               PROVE  u = v
    BY DEF FoundersDiffer
  <2>1. CASE u = w /\ v # w
    BY <1>5, <1>10, <1>12, <2>1 DEF Founding
  <2>2. CASE u # w /\ v = w
    BY <1>5, <1>10, <1>12, <2>2 DEF Founding
  <2>3. CASE u # w /\ v # w
    BY <1>5, <2>3 DEF PointsInv, FoundersDiffer, Founding
  <2> QED
    BY <2>1, <2>2, <2>3
<1>15. RedemptionsAreCovered'
  BY <1>5, <1>6, <1>8, <1>9, <1>12 DEF PointsInv, RedemptionsAreCovered, NobodyOwesPoints, Wallets, Loaded
<1>16. EarnedIsBounded'
  <2>1. PICK b \in [Accounts -> Nat] : SumOf(b) <= recorded /\ Bounds(b)
    BY DEF PointsInv, EarnedIsBounded
  <2> DEFINE m == IF t.op = "award" THEN t.n ELSE 0
  <2>2. m \in Nat /\ recorded' = recorded + m
    BY <1>1, <1>2, <1>3
  <2>m. next.at = "created" => m = t.n
    BY <1>2 DEF next, Rest
  <2> HIDE DEF m
  <2>3. PICK c \in [Accounts -> Nat] :
          c[a] = b[a] + m /\ b[a] \in Nat /\ \A x \in Accounts \ {a} : c[x] = b[x]
    <3>1. [b EXCEPT ![a] = b[a] + m] \in [Accounts -> Nat]
      BY <1>3, <2>1, <2>2
    <3> QED
      BY <1>3, <2>1, <3>1
  <2>4. SumOf(c) = (SumOf(b) - b[a]) + c[a]
    <3>1. b \in [Accounts -> Int] /\ c \in [Accounts -> Int] /\ a \in Accounts
      BY <1>3, <2>1, <2>3
    <3> QED
      BY <2>3, <3>1, SumUpdate, AccountsAssumption
  <2>5. SumOf(b) \in Int
    BY <2>1, SumType, AccountsAssumption
  <2>6. SumOf(c) <= recorded'
    BY <1>1, <2>1, <2>2, <2>3, <2>4, <2>5
  <2>7. \A x \in Wallets' : account'[x].earned <= c[x]
    BY <1>6, <1>8, <1>9, <2>1, <2>2, <2>3 DEF Bounds, Wallets
  <2>8. \A v \in Workers : Loaded(v)' => v # w /\ Loaded(v) /\ work'[v] = work[v] /\ work[v].row \in Wallets
    BY <1>5, <1>10, <1>12 DEF Loaded
  <2>9. \A v \in Workers : Loaded(v)' => work'[v].seen.earned <= c[work'[v].row]
    BY <1>9, <2>1, <2>3, <2>8 DEF Bounds, Wallets
  <2>10. ASSUME NEW u \in Workers, Founding(u)'
         PROVE  /\ account'[work'[u].row].earned + work'[u].n <= c[work'[u].row]
                /\ \A v \in Workers : Loaded(v)' /\ work'[v].row = work'[u].row
                     => work'[v].seen.earned + work'[u].n <= c[work'[u].row]
    <3>1. CASE u = w
      <4>1. next.at = "created" /\ work'[u].row = a /\ work'[u].n = m
        BY <1>5, <1>12, <2>10, <2>m, <3>1 DEF Founding
      <4>2. \A v \in Workers : Loaded(v)' => work'[v].row # a
        BY <1>9, <2>8
      <4> QED
        BY <1>6, <1>8, <2>2, <2>3, <4>1, <4>2
    <3>2. CASE u # w
      <4>1. Founding(u) /\ work'[u] = work[u] /\ work[u].row \in Wallets /\ work[u].row # a
        BY <1>5, <1>10, <2>10, <3>2 DEF Founding
      <4>2. work[u].row \in Accounts /\ c[work[u].row] = b[work[u].row] /\ account'[work[u].row] = account[work[u].row]
        BY <1>8, <2>3, <4>1 DEF Wallets
      <4> QED
        BY <2>1, <2>8, <4>1, <4>2 DEF Bounds
    <3> QED
      BY <3>1, <3>2
  <2>11. Bounds(c)'
    BY <2>7, <2>9, <2>10 DEF Bounds
  <2> QED
    BY <2>3, <2>6, <2>11 DEF EarnedIsBounded
<1>17. AccountAddsUp' /\ SeenIsThere'
  <2> SUFFICES ASSUME ~raced PROVE AccountAddsUp' /\ SeenIsThere'
    BY <1>5 DEF AccountAddsUp, SeenIsThere
  <2>1. Wallets = {} /\ spent = 0
    BY <1>2 DEF PointsInv, SeenIsThere
  <2>2. Wallets' = {a}
    BY <1>9, <2>1
  <2>3. AccountAddsUp'
    BY <1>3, <1>6, <1>8, <2>1, <2>2 DEF AccountAddsUp
  <2>4. \A v \in Workers : work'[v].at \notin {"loaded", "missing"}
    BY <1>5, <1>12 DEF Rest
  <2>5. SeenIsThere'
    BY <2>2, <2>4 DEF SeenIsThere, Loaded
  <2> QED
    BY <2>3, <2>5
<1> QED
  BY <1>5, <1>11, <1>13, <1>14, <1>15, <1>16, <1>17 DEF PointsInv

(* PointsInv is kept when award_points commits. *)
LEMMA CommitAwardInductive ==
  ASSUME PointsInv, NEW w \in Workers, CommitAward(w)
  PROVE  PointsInv'
<1> DEFINE t == work[w]
           a == t.row
<1>1. /\ WorkTypeOK /\ Alone /\ Typed(PointsTask) /\ PointsTypeOK /\ recorded \in Nat /\ spent \in Nat
  BY DEF PointsInv, PointsTypeOK
<1>2. /\ t.at = "loaded" /\ t # Rest /\ t.n \in Nat \ {0} /\ a \in Accounts /\ t.seen \in Balance
      /\ t.logged \in BOOLEAN
  BY <1>1, TaskShapes DEF CommitAward
<1>3. /\ account' = [account EXCEPT ![a] = [points |-> t.seen.points + t.n, earned |-> t.seen.earned + t.n,
                                             redeemed |-> account[a].redeemed]]
      /\ recorded' = IF t.logged THEN recorded ELSE recorded + t.n
      /\ Finish(w) \/ Continue(w, [at |-> "bonus"])
      /\ spent' = spent
  BY DEF CommitAward
<1>4. PICK next \in PointsTask \cup {Rest} : Continue(w, next) /\ next.at \in {"bonus", "rest"}
  <2>1. CASE Finish(w)
    <3>1. Rest \in PointsTask \cup {Rest} /\ Rest.at = "rest" /\ Continue(w, Rest)
      BY <2>1 DEF Finish, Rest
    <3> QED
      BY <3>1
  <2>2. CASE Continue(w, [at |-> "bonus"])
    <3>1. [at |-> "bonus"] \in PointsTask \cup {Rest} /\ [at |-> "bonus"].at = "bonus"
      BY DEF PointsTask
    <3> QED
      BY <2>2, <3>1
  <2> QED
    BY <1>3, <2>1, <2>2
<1>5. /\ WorkTypeOK' /\ Alone' /\ Typed(PointsTask)'
      /\ work'[w] = next /\ \A v \in Workers \ {w} : work'[v] = work[v]
      /\ raced' = raced
      /\ ~raced => \A v \in Workers \ {w} : work[v] = Rest
  BY <1>1, <1>2, <1>4, TaskContinues
<1>6. /\ t.seen.points \in Int /\ t.seen.points >= 0 /\ t.seen.earned \in Nat /\ t.seen.redeemed \in Nat
      /\ a \in Wallets /\ account[a] \in Balance /\ account[a].redeemed \in Nat /\ account[a].earned \in Nat
  BY <1>1, <1>2, AccountRows
     DEF PointsInv, RedemptionsAreCovered, RowsAreThere, Loaded, Balance
<1>7. account \in [Accounts -> Balance \cup {NoAccount}]
  BY <1>1 DEF PointsTypeOK
<1>8. /\ account' \in [Accounts -> Balance \cup {NoAccount}]
      /\ account'[a] \in Balance /\ account'[a] # NoAccount
      /\ account'[a].points = t.seen.points + t.n /\ account'[a].earned = t.seen.earned + t.n
      /\ account'[a].redeemed = account[a].redeemed
      /\ \A x \in Accounts \ {a} : account'[x] = account[x]
  <2> DEFINE row == [points |-> t.seen.points + t.n, earned |-> t.seen.earned + t.n,
                     redeemed |-> account[a].redeemed]
  <2>1. row \in Balance
    BY <1>2, <1>6 DEF Balance
  <2>2. row # NoAccount
    BY <1>2, <1>6 DEF NoAccount
  <2>3. account'[a] = row /\ \A x \in Accounts \ {a} : account'[x] = account[x]
    BY <1>2, <1>3, <1>7
  <2> QED
    BY <1>2, <1>3, <1>7, <2>1, <2>2, <2>3
<1>9. Wallets' = Wallets
  BY <1>2, <1>6, <1>8 DEF Wallets
<1>10. recorded' \in Nat
  BY <1>1, <1>2, <1>3
<1>11. PointsTypeOK'
  BY <1>1, <1>3, <1>5, <1>8, <1>10 DEF PointsTypeOK
<1>12. RowsAreThere'
  BY <1>4, <1>5, <1>9 DEF PointsInv, RowsAreThere
<1>13. \A v \in Workers : Founding(v)' => v # w /\ Founding(v) /\ work'[v] = work[v]
  BY <1>4, <1>5 DEF Founding
<1>14. \A v \in Workers : Loaded(v)' => v # w /\ Loaded(v) /\ work'[v] = work[v]
  BY <1>4, <1>5 DEF Loaded
<1>15. FoundersDiffer'
  BY <1>13 DEF PointsInv, FoundersDiffer
<1>16. RedemptionsAreCovered'
  <2>1. \A x \in Wallets' : account'[x].points >= 0
    <3> SUFFICES ASSUME NEW x \in Wallets PROVE account'[x].points >= 0
      BY <1>9
    <3>1. CASE x = a
      BY <1>2, <1>6, <1>8, <3>1
    <3>2. CASE x # a
      BY <1>8, <3>2 DEF PointsInv, RedemptionsAreCovered, NobodyOwesPoints, Wallets
    <3> QED
      BY <3>1, <3>2
  <2> QED
    BY <1>14, <2>1 DEF PointsInv, RedemptionsAreCovered, NobodyOwesPoints
<1>17. EarnedIsBounded'
  <2>1. PICK b \in [Accounts -> Nat] : SumOf(b) <= recorded /\ Bounds(b)
    BY DEF PointsInv, EarnedIsBounded
  <2> DEFINE m == IF t.logged THEN 0 ELSE t.n
  <2>2. m \in Nat /\ recorded' = recorded + m /\ b[a] \in Nat
    BY <1>1, <1>2, <1>3, <2>1
  <2>n. ~t.logged => m = t.n
    OBVIOUS
  <2>l. t.logged => m = 0
    OBVIOUS
  <2> HIDE DEF m
  <2>3. PICK c \in [Accounts -> Nat] : c[a] = b[a] + m /\ \A x \in Accounts \ {a} : c[x] = b[x]
    <3>1. b[a] + m \in Nat
      BY <2>2
    <3>2. [b EXCEPT ![a] = b[a] + m] \in [Accounts -> Nat]
      BY <2>1, <3>1
    <3> QED
      BY <1>2, <2>1, <3>2
  <2>4. SumOf(c) = (SumOf(b) - b[a]) + c[a] /\ SumOf(b) \in Int
    <3>1. b \in [Accounts -> Int] /\ c \in [Accounts -> Int] /\ a \in Accounts
      BY <1>2, <2>1, <2>3
    <3> QED
      BY <2>3, <3>1, SumUpdate, SumType, AccountsAssumption
  <2>5. SumOf(c) <= recorded'
    BY <1>1, <2>1, <2>2, <2>3, <2>4
  <2>6. \A x \in Accounts : b[x] \in Nat /\ c[x] \in Nat /\ b[x] <= c[x]
    BY <2>1, <2>2, <2>3
  <2>7. account'[a].earned <= c[a]
    <3>1. t.seen.earned <= b[a]
      BY <1>2, <2>1 DEF Bounds, Loaded
    <3>2. t.logged => t.seen.earned + t.n <= b[a]
      BY <1>2, <2>1 DEF Bounds, Loaded, Founding
    <3>3. CASE t.logged
      BY <1>2, <1>6, <1>8, <2>2, <2>3, <2>l, <3>2, <3>3
    <3>4. CASE ~t.logged
      BY <1>2, <1>6, <1>8, <2>2, <2>3, <2>n, <3>1, <3>4
    <3> QED
      BY <3>3, <3>4
  <2>8. \A x \in Wallets' : account'[x].earned <= c[x]
    <3> SUFFICES ASSUME NEW x \in Wallets, x # a PROVE account'[x].earned <= c[x]
      BY <1>9, <2>7
    <3>1. x \in Accounts /\ account'[x] = account[x] /\ account[x].earned <= b[x] /\ c[x] = b[x]
      BY <1>8, <2>1, <2>3 DEF Wallets, Bounds
    <3> QED
      BY <3>1
  <2>9. \A v \in Workers : Loaded(v)' =>
          work'[v].row \in Accounts /\ work'[v].seen.earned \in Nat /\ work'[v].seen.earned <= c[work'[v].row]
    <3> SUFFICES ASSUME NEW v \in Workers, Loaded(v)'
                 PROVE  /\ work'[v].row \in Accounts /\ work'[v].seen.earned \in Nat
                        /\ work'[v].seen.earned <= c[work'[v].row]
      OBVIOUS
    <3>1. Loaded(v) /\ work'[v] = work[v]
      BY <1>14
    <3>2. work[v].row \in Accounts /\ work[v].seen \in Balance
      BY <1>1, <3>1, TaskShapes DEF Loaded
    <3>3. work[v].seen.earned \in Nat /\ work[v].seen.earned <= b[work[v].row]
      BY <2>1, <3>1, <3>2 DEF Bounds, Balance
    <3> QED
      BY <2>6, <3>1, <3>2, <3>3
  <2>10. ASSUME NEW u \in Workers, Founding(u)'
         PROVE  /\ account'[work'[u].row].earned + work'[u].n <= c[work'[u].row]
                /\ \A v \in Workers : Loaded(v)' /\ work'[v].row = work'[u].row
                     => work'[v].seen.earned + work'[u].n <= c[work'[u].row]
    <3>1. u # w /\ Founding(u) /\ work'[u] = work[u]
      BY <1>13, <2>10
    <3>2. work[u].at \in {"loaded", "created"}
      BY <3>1 DEF Founding
    <3>3. work[u].row \in Wallets /\ work[u].row \in Accounts /\ work[u].n \in Nat
      BY <1>1, <3>2, TaskShapes DEF PointsInv, RowsAreThere, Wallets
    <3>4. account[work[u].row].earned \in Nat /\ account[work[u].row].earned + work[u].n <= b[work[u].row]
      BY <1>1, <2>1, <3>1, <3>3, AccountRows DEF Bounds
    <3>5. account'[work[u].row].earned + work[u].n <= c[work[u].row]
      <4>1. CASE work[u].row # a
        BY <1>8, <2>3, <3>3, <3>4, <4>1
      <4>2. CASE work[u].row = a
        <5>1. ~t.logged
          BY <1>2, <3>1, <4>2 DEF PointsInv, FoundersDiffer, Founding
        <5>2. t.seen.earned + work[u].n <= b[a]
          BY <1>2, <2>1, <3>1, <4>2 DEF Bounds, Loaded
        <5> QED
          BY <1>2, <1>6, <1>8, <2>2, <2>3, <2>n, <3>3, <4>2, <5>1, <5>2
      <4> QED
        BY <4>1, <4>2
    <3>6. ASSUME NEW v \in Workers, Loaded(v)', work'[v].row = work'[u].row
          PROVE  work'[v].seen.earned + work'[u].n <= c[work'[u].row]
      <4>1. Loaded(v) /\ work'[v] = work[v]
        BY <1>14, <3>6
      <4>2. work[v].seen.earned + work[u].n <= b[work[u].row]
        BY <2>1, <3>1, <3>6, <4>1 DEF Bounds
      <4>3. work[v].seen.earned \in Nat
        BY <2>9, <3>6, <4>1
      <4> QED
        BY <2>6, <3>1, <3>3, <4>1, <4>2, <4>3
    <3> QED
      BY <3>1, <3>5, <3>6
  <2>11. Bounds(c)'
    BY <2>8, <2>9, <2>10 DEF Bounds
  <2> QED
    BY <2>3, <2>5, <2>11 DEF EarnedIsBounded
<1>18. AccountAddsUp' /\ SeenIsThere'
  <2> SUFFICES ASSUME ~raced PROVE AccountAddsUp' /\ SeenIsThere'
    BY <1>5 DEF AccountAddsUp, SeenIsThere
  <2>1. t.seen = account[a]
    BY <1>2 DEF PointsInv, SeenIsThere, Loaded
  <2>2. \A x \in Wallets : x = a
    BY <1>6 DEF PointsInv, AccountAddsUp
  <2>3. account[a].points = account[a].earned - account[a].redeemed /\ account[a].redeemed = spent
    BY <1>6 DEF PointsInv, AccountAddsUp
  <2>4. AccountAddsUp'
    BY <1>2, <1>3, <1>6, <1>8, <1>9, <2>1, <2>2, <2>3 DEF AccountAddsUp
  <2>5. \A v \in Workers : work'[v].at \notin {"loaded", "missing"}
    BY <1>4, <1>5 DEF Rest
  <2>6. SeenIsThere'
    BY <1>6, <1>9, <2>5 DEF SeenIsThere, Loaded
  <2> QED
    BY <2>4, <2>6
<1> QED
  BY <1>5, <1>11, <1>12, <1>15, <1>16, <1>17, <1>18 DEF PointsInv

(* PointsInv is kept when a redemption commits. *)
LEMMA CommitRedeemInductive ==
  ASSUME PointsInv, NEW w \in Workers, CommitRedeem(w)
  PROVE  PointsInv'
<1> DEFINE t == work[w]
           a == t.row
<1>1. /\ WorkTypeOK /\ Alone /\ Typed(PointsTask) /\ PointsTypeOK /\ recorded \in Nat /\ spent \in Nat
  BY DEF PointsInv, PointsTypeOK
<1>2. /\ t.at = "loaded" /\ t # Rest /\ t.op = "redeem" /\ t.n \in Nat \ {0} /\ a \in Accounts
      /\ t.seen \in Balance
  BY <1>1, TaskShapes DEF CommitRedeem
<1>3. /\ account' = [account EXCEPT ![a] = [points |-> t.seen.points - t.n, earned |-> account[a].earned,
                                             redeemed |-> t.seen.redeemed + t.n]]
      /\ spent' = spent + t.n
      /\ Finish(w)
      /\ recorded' = recorded
  BY DEF CommitRedeem
<1>4. /\ WorkTypeOK' /\ Alone' /\ Typed(PointsTask)'
      /\ work'[w] = Rest /\ \A v \in Workers \ {w} : work'[v] = work[v]
      /\ raced' = raced
      /\ ~raced => \A v \in Workers : work'[v] = Rest
  BY <1>1, <1>2, <1>3, TaskFinishes
<1>5. Rest.at = "rest"
  BY DEF Rest
<1>6. /\ t.seen.points \in Int /\ t.seen.points >= t.n /\ t.seen.redeemed \in Nat
      /\ a \in Wallets /\ account[a] \in Balance /\ account[a].earned \in Nat
  BY <1>1, <1>2, AccountRows
     DEF PointsInv, RedemptionsAreCovered, RowsAreThere, Loaded, Balance
<1>7. account \in [Accounts -> Balance \cup {NoAccount}]
  BY <1>1 DEF PointsTypeOK
<1>8. /\ account' \in [Accounts -> Balance \cup {NoAccount}]
      /\ account'[a] \in Balance /\ account'[a] # NoAccount
      /\ account'[a].points = t.seen.points - t.n /\ account'[a].earned = account[a].earned
      /\ account'[a].redeemed = t.seen.redeemed + t.n
      /\ \A x \in Accounts \ {a} : account'[x] = account[x]
  <2> DEFINE row == [points |-> t.seen.points - t.n, earned |-> account[a].earned,
                     redeemed |-> t.seen.redeemed + t.n]
  <2>1. row \in Balance
    BY <1>2, <1>6 DEF Balance
  <2>2. row # NoAccount
    BY <1>2, <1>6 DEF NoAccount
  <2>3. account'[a] = row /\ \A x \in Accounts \ {a} : account'[x] = account[x]
    BY <1>2, <1>3, <1>7
  <2> QED
    BY <1>2, <1>3, <1>7, <2>1, <2>2, <2>3
<1>9. Wallets' = Wallets
  BY <1>2, <1>6, <1>8 DEF Wallets
<1>10. spent' \in Nat
  BY <1>1, <1>2, <1>3
<1>11. PointsTypeOK'
  BY <1>1, <1>3, <1>4, <1>8, <1>10 DEF PointsTypeOK
<1>12. RowsAreThere'
  BY <1>4, <1>5, <1>9 DEF PointsInv, RowsAreThere
<1>13. \A v \in Workers : Founding(v)' => v # w /\ Founding(v) /\ work'[v] = work[v]
  BY <1>4, <1>5 DEF Founding
<1>14. \A v \in Workers : Loaded(v)' => v # w /\ Loaded(v) /\ work'[v] = work[v]
  BY <1>4, <1>5 DEF Loaded
<1>15. FoundersDiffer'
  BY <1>13 DEF PointsInv, FoundersDiffer
<1>16. RedemptionsAreCovered'
  <2>1. \A x \in Wallets' : account'[x].points >= 0
    <3> SUFFICES ASSUME NEW x \in Wallets PROVE account'[x].points >= 0
      BY <1>9
    <3>1. CASE x = a
      BY <1>2, <1>6, <1>8, <3>1
    <3>2. CASE x # a
      BY <1>8, <3>2 DEF PointsInv, RedemptionsAreCovered, NobodyOwesPoints, Wallets
    <3> QED
      BY <3>1, <3>2
  <2> QED
    BY <1>14, <2>1 DEF PointsInv, RedemptionsAreCovered, NobodyOwesPoints
<1>17. EarnedIsBounded'
  <2>1. PICK b \in [Accounts -> Nat] : SumOf(b) <= recorded /\ Bounds(b)
    BY DEF PointsInv, EarnedIsBounded
  <2>2. \A x \in Wallets' : account'[x].earned <= b[x]
    BY <1>8, <1>9, <2>1 DEF Bounds, Wallets
  <2>3. \A u \in Workers : Founding(u) => account'[work[u].row].earned = account[work[u].row].earned
    BY <1>8 DEF PointsInv, RowsAreThere, Founding, Wallets
  <2>4. Bounds(b)'
    BY <1>13, <1>14, <2>1, <2>2, <2>3 DEF Bounds
  <2> QED
    BY <1>3, <2>1, <2>4 DEF EarnedIsBounded
<1>18. AccountAddsUp' /\ SeenIsThere'
  <2> SUFFICES ASSUME ~raced PROVE AccountAddsUp' /\ SeenIsThere'
    BY <1>4 DEF AccountAddsUp, SeenIsThere
  <2>1. t.seen = account[a]
    BY <1>2 DEF PointsInv, SeenIsThere, Loaded
  <2>2. \A x \in Wallets : x = a
    BY <1>6 DEF PointsInv, AccountAddsUp
  <2>3. account[a].points = account[a].earned - account[a].redeemed /\ account[a].redeemed = spent
    BY <1>6 DEF PointsInv, AccountAddsUp
  <2>4. AccountAddsUp'
    BY <1>1, <1>2, <1>3, <1>6, <1>8, <1>9, <2>1, <2>2, <2>3 DEF AccountAddsUp
  <2>5. \A v \in Workers : work'[v].at \notin {"loaded", "missing"}
    BY <1>4, <1>5
  <2>6. SeenIsThere'
    BY <1>6, <1>9, <2>5 DEF SeenIsThere, Loaded
  <2> QED
    BY <2>4, <2>6
<1> QED
  BY <1>4, <1>11, <1>12, <1>15, <1>16, <1>17, <1>18 DEF PointsInv

(* PointsInv is inductive: every step keeps it. *)
LEMMA PointsNextInductive ==
  ASSUME PointsInv, [PointsNext]_pointsVars
  PROVE  PointsInv'
<1>1. WorkTypeOK /\ Alone /\ Typed(PointsTask) /\ raced \in BOOLEAN
  BY DEF PointsInv, PointsTypeOK, WorkTypeOK
<1>2. Rest \in PointsTask \cup {Rest} /\ Rest.at = "rest"
  BY DEF Rest
<1>3. ASSUME NEW w \in Workers, BeginPoints(w)
      PROVE  PointsInv'
  <2>0. PICK n \in Amounts, op \in {"award", "redeem", "view"} : \E t \in Lookup(op, n) :
          /\ op = "redeem" => n >= MinPoints /\ (t.at = "loaded" => t.seen.points >= n)
          /\ Begin(w, t)
    BY <1>3 DEF BeginPoints
  <2>1. PICK t \in Lookup(op, n) :
          /\ op = "redeem" => n >= MinPoints /\ (t.at = "loaded" => t.seen.points >= n)
          /\ Begin(w, t)
    BY <2>0
  <2>2. op \in PointsOps
    BY DEF PointsOps
  <2>3. /\ t \in PointsTask
        /\ t.at = "missing" => Wallets = {}
        /\ t.at = "loaded" => t.row \in Wallets /\ t.seen = account[t.row] /\ ~t.logged /\ t.op = op /\ t.n = n
        /\ t.at \in {"missing", "loaded"}
    BY <2>2, LookupFinds
  <2>4. /\ WorkTypeOK' /\ Alone' /\ Typed(PointsTask)' /\ work'[w] = t
        /\ \A v \in Workers \ {w} : work'[v] = work[v]
    BY <1>1, <2>1, <2>3, TaskBegins
  <2>5. raced' \in {raced, TRUE}
    BY <1>1, <2>1 DEF Begin, Arrive
  <2>6. UNCHANGED pointsRows
    BY <1>3 DEF BeginPoints
  <2> QED
    BY <2>1, <2>3, <2>4, <2>5, <2>6, PointsQuietStep
<1>4. ASSUME NEW w \in Workers, Refresh(w)
      PROVE  PointsInv'
  <2> DEFINE t == [at |-> "loaded", op |-> "award", n |-> work[w].n, row |-> work[w].row,
                   seen |-> account[work[w].row], logged |-> TRUE]
  <2>1. work[w].at = "created" /\ Continue(w, t) /\ UNCHANGED pointsRows
    BY <1>4 DEF Refresh
  <2>2. work[w] \in [at : {"created"}, n : Amounts, row : Accounts] /\ work[w] # Rest
    BY <1>1, <2>1, TaskShapes
  <2>3. work[w].row \in Wallets /\ account[work[w].row] \in Balance
    BY <2>1, <2>2, AccountRows DEF PointsInv, RowsAreThere
  <2>4. t \in PointsTask
    BY <2>2, <2>3 DEF PointsTask, PointsOps
  <2>5. /\ t.at = "loaded" /\ t.row \in Wallets /\ t.seen = account[t.row] /\ t.op = "award"
        /\ Founding(w) /\ work[w].row = t.row /\ work[w].n = t.n
    BY <2>1, <2>3 DEF Founding
  <2>6. /\ WorkTypeOK' /\ Alone' /\ Typed(PointsTask)' /\ work'[w] = t
        /\ \A v \in Workers \ {w} : work'[v] = work[v] /\ raced' = raced
    <3> HIDE DEF t
    <3> QED
      BY <1>1, <2>1, <2>2, <2>4, TaskContinues
  <2>7. raced' \in {raced, TRUE}
    BY <2>1 DEF Continue
  <2> HIDE DEF t
  <2> QED
    BY <2>1, <2>4, <2>5, <2>6, <2>7, PointsQuietStep
<1>5. ASSUME NEW w \in Workers, BeginBonus(w)
      PROVE  PointsInv'
  <2>0. PICK n \in Amounts : \E t \in Lookup("bonus", n) : Continue(w, t)
    BY <1>5 DEF BeginBonus
  <2>1. PICK t \in Lookup("bonus", n) : Continue(w, t)
    BY <2>0
  <2>2. "bonus" \in PointsOps /\ work[w] # Rest /\ UNCHANGED pointsRows
    BY <1>2, <1>5 DEF PointsOps, BeginBonus
  <2>3. /\ t \in PointsTask
        /\ t.at = "missing" => Wallets = {}
        /\ t.at = "loaded" => t.row \in Wallets /\ t.seen = account[t.row] /\ ~t.logged /\ t.op = "bonus"
        /\ t.at \in {"missing", "loaded"}
    BY <2>2, LookupFinds
  <2>4. /\ WorkTypeOK' /\ Alone' /\ Typed(PointsTask)' /\ work'[w] = t
        /\ \A v \in Workers \ {w} : work'[v] = work[v]
    BY <1>1, <2>1, <2>2, <2>3, TaskContinues
  <2>5. raced' \in {raced, TRUE}
    BY <2>1 DEF Continue
  <2> QED
    BY <2>2, <2>3, <2>4, <2>5, PointsQuietStep
<1>6. ASSUME NEW w \in Workers, Die(w), UNCHANGED pointsRows
      PROVE  PointsInv'
  <2>1. /\ WorkTypeOK' /\ Alone' /\ Typed(PointsTask)' /\ work'[w] = Rest
        /\ \A v \in Workers \ {w} : work'[v] = work[v]
    BY <1>1, <1>6, TaskDies
  <2>2. raced' \in {raced, TRUE}
    BY <1>6 DEF Die
  <2> QED
    BY <1>2, <1>6, <2>1, <2>2, PointsQuietStep
<1>7. ASSUME UNCHANGED pointsVars
      PROVE  PointsInv'
  <2>1. UNCHANGED <<account, recorded, spent, work, begun, raced, died>> /\ Wallets' = Wallets
    BY <1>7 DEF pointsVars, pointsRows, workVars, Wallets
  <2>2. PointsTypeOK' /\ Typed(PointsTask)' /\ Alone' /\ RowsAreThere' /\ FoundersDiffer'
    BY <2>1 DEF PointsInv, PointsTypeOK, WorkTypeOK, Typed, Alone, RowsAreThere, FoundersDiffer, Founding
  <2>3. RedemptionsAreCovered' /\ AccountAddsUp' /\ SeenIsThere'
    BY <2>1 DEF PointsInv, RedemptionsAreCovered, NobodyOwesPoints, AccountAddsUp, SeenIsThere, Loaded
  <2>4. EarnedIsBounded'
    <3>1. PICK b \in [Accounts -> Nat] : SumOf(b) <= recorded /\ Bounds(b)
      BY DEF PointsInv, EarnedIsBounded
    <3>2. Bounds(b)'
      BY <2>1, <3>1 DEF Bounds, Loaded, Founding
    <3> QED
      BY <2>1, <3>1, <3>2 DEF EarnedIsBounded
  <2> QED
    BY <2>2, <2>3, <2>4 DEF PointsInv
<1> QED
  BY <1>3, <1>4, <1>5, <1>6, <1>7, CreateAccountInductive, CommitAwardInductive, CommitRedeemInductive
     DEF PointsNext, PointsStep

(* It says what is claimed of the points. *)
LEMMA PointsInvIsEnough == ASSUME PointsInv PROVE PointsTypeOK /\ PointsAddUp
<1>1. PointsTypeOK /\ NobodyOwesPoints /\ AccountAddsUp
  BY DEF PointsInv, RedemptionsAreCovered
<1>2. PICK b \in [Accounts -> Nat] : SumOf(b) <= recorded /\ Bounds(b)
  BY DEF PointsInv, EarnedIsBounded
<1> DEFINE e == [a \in Wallets |-> account[a].earned]
<1>3. Wallets \in SUBSET Accounts
  BY DEF Wallets
<1>4. e \in [Wallets -> Nat] /\ \A a \in Wallets : e[a] <= b[a]
  <2>1. \A a \in Wallets : account[a].earned \in Nat /\ account[a].earned <= b[a]
    BY <1>1, <1>2, <1>3, AccountRows DEF Bounds
  <2> QED
    BY <2>1
<1>5. SumOf(e) <= SumOf(b)
  <2> HIDE DEF e
  <2> QED
    BY <1>2, <1>3, <1>4, SumOfPart, AccountsAssumption
<1>6. SumOf(e) \in Int /\ SumOf(b) \in Int
  <2> HIDE DEF e
  <2>1. IsFiniteSet(Wallets)
    BY <1>3, FS_Subset, AccountsAssumption
  <2> QED
    BY <1>2, <1>4, <2>1, SumOfNaturals, AccountsAssumption
<1>7. recorded \in Int
  BY <1>1 DEF PointsTypeOK
<1>8. SumOf(e) <= recorded
  <2> HIDE DEF e
  <2> QED
    BY <1>2, <1>5, <1>6, <1>7
<1> QED
  BY <1>1, <1>8 DEF PointsAddUp, EarnedIsRecorded

(* For any accounts, amounts and requests: no student owes points and no     *)
(* point is earned without a reward_transactions row, whatever races and     *)
(* dies; without overlap a student has one row and it adds up                *)
(* (rewards/service.py:27-106).                                              *)
THEOREM PointsAreSound == PointsSpec => [](PointsTypeOK /\ PointsAddUp)
<1>1. PointsInit /\ WorkInit => PointsInv
  BY PointsInitInductive
<1>2. PointsInv /\ [PointsNext]_pointsVars => PointsInv'
  BY PointsNextInductive
<1>3. PointsInv => PointsTypeOK /\ PointsAddUp
  BY PointsInvIsEnough
<1> QED
  BY <1>1, <1>2, <1>3, PTL DEF PointsSpec

-----------------------------------------------------------------------------
(* The reward policy. *)

(* The tasks of requests that change the policy. *)
PolicyTask ==
  [at : {"policy"}, set : Policy, row : Nat, loaded : Policy]
    \cup [at : {"rules"}, missing : BOOLEAN]
    \cup [at : {"seeding"}]

(* Every column of p was set by an audited change. *)
Audited(p) ==
  /\ \E i \in 1 .. Len(audit) : audit[i].enabled = p.enabled
  /\ \E i \in 1 .. Len(audit) : audit[i].start = p.start
  /\ \E i \in 1 .. Len(audit) : audit[i].end = p.end
  /\ \E i \in 1 .. Len(audit) : audit[i].bonus = p.bonus

(* Every stored policy can be explained by the audit log. *)
PolicyRowsAudited == \A r \in 1 .. Len(policies) : Audited(policies[r])

(* The policy in force is the last one the log tells of. *)
LastAudited ==
  ~raced /\ Len(policies) > 0 =>
    /\ Len(policies) = 1 /\ Len(audit) > 0
    /\ policies[1] = audit[Len(audit)] /\ Legal(policies[1])

(* A change in progress has passed the validation. *)
ChangesAreLegal ==
  \A w \in Workers : work[w].at = "policy" =>
    /\ Legal(work[w].set)
    /\ work[w].row <= Len(policies)
    /\ ~raced => work[w].row = Len(policies) /\ work[w].loaded = PolicyInForce

(* The inductive invariant of the policy. *)
PolicyInv ==
  /\ WorkTypeOK /\ Alone /\ Typed(PolicyTask)
  /\ policies \in Seq(Policy) /\ audit \in Seq(Policy) /\ rules \in BOOLEAN
  /\ PolicyRowsAudited /\ LastAudited /\ ChangesAreLegal

(* What a task about the policy is. *)
LEMMA PolicyShapes ==
  ASSUME Typed(PolicyTask), NEW w \in Workers
  PROVE  /\ work[w].at \in {"policy", "rules", "seeding", "rest"}
         /\ work[w].at = "rest" <=> work[w] = Rest
         /\ work[w].at = "policy" => work[w] \in [at : {"policy"}, set : Policy, row : Nat, loaded : Policy]
<1>1. work[w] \in PolicyTask \cup {Rest}
  BY DEF Typed
<1>2. CASE work[w] = Rest
  BY <1>2 DEF Rest
<1>3. CASE work[w] \in [at : {"policy"}, set : Policy, row : Nat, loaded : Policy]
  <2>1. work[w].at = "policy" /\ work[w] # Rest
    BY <1>3 DEF Rest
  <2> QED
    BY <1>3, <2>1
<1>4. CASE work[w] \in [at : {"rules"}, missing : BOOLEAN]
  <2>1. work[w].at = "rules" /\ work[w] # Rest
    BY <1>4 DEF Rest
  <2> QED
    BY <2>1
<1>5. CASE work[w] \in [at : {"seeding"}]
  <2>1. work[w].at = "seeding" /\ work[w] # Rest
    BY <1>5 DEF Rest
  <2> QED
    BY <2>1
<1> QED
  BY <1>1, <1>2, <1>3, <1>4, <1>5 DEF PolicyTask

(* The default policy would pass the validation. *)
LEMMA DefaultIsLegal == DefaultPolicy \in Policy /\ Legal(DefaultPolicy)
<1>1. 15 \in Hours /\ 17 \in Hours /\ 10 \in Bonuses
  BY PolicyAssumption
<1> QED
  BY <1>1 DEF DefaultPolicy, Policy, Legal

(* The policy in force is the default or the newest row. *)
LEMMA ForceIsTyped ==
  ASSUME policies \in Seq(Policy)
  PROVE  /\ PolicyInForce \in Policy
         /\ Len(policies) \in Nat
         /\ policies = <<>> <=> Len(policies) = 0
         /\ Len(policies) > 0 => PolicyInForce = policies[Len(policies)]
<1>1. CASE policies = <<>>
  BY <1>1, DefaultIsLegal DEF PolicyInForce
<1>2. CASE policies # <<>>
  BY <1>2 DEF PolicyInForce, Last
<1> QED
  BY <1>1, <1>2

(* PolicyInv holds at first. *)
LEMMA PolicyInitInductive == PolicyInit /\ WorkInit => PolicyInv
<1> SUFFICES ASSUME PolicyInit, WorkInit PROVE PolicyInv
  OBVIOUS
<1>1. WorkTypeOK /\ Alone /\ Typed(PolicyTask)
  BY WorkInitHolds
<1>2. \A w \in Workers : work[w].at = "rest"
  BY DEF WorkInit, Rest
<1>3. policies = <<>> /\ audit = <<>> /\ rules = FALSE
  BY DEF PolicyInit
<1>4. policies \in Seq(Policy) /\ audit \in Seq(Policy) /\ Len(policies) = 0
  BY <1>3
<1>5. rules \in BOOLEAN
  BY <1>3
<1> QED
  BY <1>1, <1>2, <1>4, <1>5 DEF PolicyInv, PolicyRowsAudited, LastAudited, ChangesAreLegal

(* A request moves on without a commit to policies or audit.                  *)
LEMMA PolicyQuietStep ==
  ASSUME PolicyInv, UNCHANGED <<policies, audit>>, rules' \in BOOLEAN,
         NEW w \in Workers, NEW t \in PolicyTask \cup {Rest},
         WorkTypeOK', Alone', Typed(PolicyTask)', raced' \in {raced, TRUE},
         work'[w] = t, \A v \in Workers \ {w} : work'[v] = work[v],
         t.at = "policy" => Legal(t.set) /\ t.row = Len(policies) /\ t.loaded = PolicyInForce
  PROVE  PolicyInv'
<1>1. PolicyInForce' = PolicyInForce
  BY DEF PolicyInForce
<1>2. PolicyRowsAudited' /\ LastAudited'
  BY DEF PolicyInv, PolicyRowsAudited, Audited, LastAudited
<1>3. Len(policies) \in Nat
  BY ForceIsTyped DEF PolicyInv
<1>4. ChangesAreLegal'
  <2> SUFFICES ASSUME NEW v \in Workers, work'[v].at = "policy"
               PROVE  /\ Legal(work'[v].set) /\ work'[v].row <= Len(policies)
                      /\ ~raced' => work'[v].row = Len(policies) /\ work'[v].loaded = PolicyInForce
    BY <1>1 DEF ChangesAreLegal, Legal
  <2>1. CASE v = w
    BY <1>3, <2>1
  <2>2. CASE v # w
    <3>1. work'[v] = work[v]
      BY <2>2
    <3>2. ~raced' => ~raced
      OBVIOUS
    <3> QED
      BY <3>1, <3>2 DEF PolicyInv, ChangesAreLegal
  <2> QED
    BY <2>1, <2>2
<1> QED
  BY <1>2, <1>4 DEF PolicyInv

(* PolicyInv is kept when a change and its log row commit. *)
LEMMA CommitPolicyInductive ==
  ASSUME PolicyInv, NEW w \in Workers, CommitPolicy(w)
  PROVE  PolicyInv'
<1> DEFINE t == work[w]
<1>1. WorkTypeOK /\ Alone /\ Typed(PolicyTask) /\ policies \in Seq(Policy) /\ audit \in Seq(Policy) /\ rules \in BOOLEAN
  BY DEF PolicyInv
<1>2. PICK set \in Policy, row \in Nat, loaded \in Policy :
        /\ t.at = "policy" /\ t # Rest /\ t.set = set /\ t.row = row /\ t.loaded = loaded
        /\ Legal(set) /\ row <= Len(policies)
        /\ ~raced => row = Len(policies) /\ loaded = PolicyInForce
  BY <1>1, PolicyShapes DEF CommitPolicy, PolicyInv, ChangesAreLegal
<1>3. /\ policies' = IF row = 0 THEN Append(policies, set) ELSE [policies EXCEPT ![row] = Merged(policies[row], t)]
      /\ audit' = Append(audit, set)
      /\ Finish(w)
      /\ rules' = rules
  BY <1>2 DEF CommitPolicy
<1>4. /\ WorkTypeOK' /\ Alone' /\ Typed(PolicyTask)'
      /\ work'[w] = Rest /\ \A v \in Workers \ {w} : work'[v] = work[v]
      /\ raced' = raced
      /\ ~raced => \A v \in Workers : work'[v] = Rest
  BY <1>1, <1>2, <1>3, TaskFinishes
<1>5. Rest.at = "rest"
  BY DEF Rest
<1>6. /\ audit' \in Seq(Policy) /\ Len(audit') = Len(audit) + 1 /\ Len(audit) \in Nat
      /\ audit'[Len(audit')] = set /\ \A i \in 1 .. Len(audit) : audit'[i] = audit[i]
  BY <1>1, <1>3
<1>7. ASSUME NEW p, Audited(p)
      PROVE  /\ \E i \in 1 .. Len(audit') : audit'[i].enabled = p.enabled
             /\ \E i \in 1 .. Len(audit') : audit'[i].start = p.start
             /\ \E i \in 1 .. Len(audit') : audit'[i].end = p.end
             /\ \E i \in 1 .. Len(audit') : audit'[i].bonus = p.bonus
  <2>1. \A i \in 1 .. Len(audit) : i \in 1 .. Len(audit') /\ audit'[i] = audit[i]
    BY <1>6
  <2> QED
    BY <1>7, <2>1 DEF Audited
<1>8. Len(audit') \in 1 .. Len(audit')
  BY <1>6
<1>9. CASE row = 0
  <2>1. /\ policies' = Append(policies, set) /\ policies' \in Seq(Policy)
        /\ Len(policies') = Len(policies) + 1 /\ Len(policies) \in Nat
        /\ policies'[Len(policies')] = set /\ \A r \in 1 .. Len(policies) : policies'[r] = policies[r]
    BY <1>1, <1>3, <1>9
  <2>2. PolicyRowsAudited'
    <3> SUFFICES ASSUME NEW r \in 1 .. Len(policies')
                 PROVE  /\ \E i \in 1 .. Len(audit') : audit'[i].enabled = policies'[r].enabled
                        /\ \E i \in 1 .. Len(audit') : audit'[i].start = policies'[r].start
                        /\ \E i \in 1 .. Len(audit') : audit'[i].end = policies'[r].end
                        /\ \E i \in 1 .. Len(audit') : audit'[i].bonus = policies'[r].bonus
      BY DEF PolicyRowsAudited, Audited
    <3>1. CASE r = Len(policies')
      BY <1>6, <1>8, <2>1, <3>1
    <3>2. CASE r # Len(policies')
      <4>1. r \in 1 .. Len(policies)
        BY <2>1, <3>2
      <4>2. Audited(policies[r]) /\ policies'[r] = policies[r]
        BY <2>1, <4>1 DEF PolicyInv, PolicyRowsAudited
      <4> QED
        BY <1>7, <4>2
    <3> QED
      BY <3>1, <3>2
  <2>3. LastAudited'
    <3> SUFFICES ASSUME ~raced
                 PROVE  Len(policies') = 1 /\ Len(audit') > 0 /\ policies'[1] = audit'[Len(audit')] /\ Legal(policies'[1])
      BY <1>4 DEF LastAudited, Legal
    <3>1. Len(policies') = 1
      BY <1>2, <1>9, <2>1
    <3>2. policies'[1] = set /\ audit'[Len(audit')] = set /\ Len(audit') > 0
      BY <1>6, <2>1, <3>1
    <3> QED
      BY <1>2, <3>1, <3>2
  <2>4. ChangesAreLegal'
    <3> SUFFICES ASSUME NEW v \in Workers, work'[v].at = "policy"
                 PROVE  /\ Legal(work'[v].set) /\ work'[v].row <= Len(policies') /\ raced'
      BY DEF ChangesAreLegal, Legal
    <3>1. v # w /\ work'[v] = work[v] /\ work[v] # Rest
      BY <1>4, <1>5
    <3>2. Legal(work[v].set) /\ work[v].row <= Len(policies) /\ work[v].row \in Nat
      BY <1>1, <3>1, PolicyShapes DEF PolicyInv, ChangesAreLegal
    <3>3. raced
      BY <1>4, <3>1
    <3> QED
      BY <1>4, <2>1, <3>1, <3>2, <3>3
  <2> QED
    BY <1>1, <1>3, <1>4, <1>6, <2>1, <2>2, <2>3, <2>4 DEF PolicyInv
<1>10. CASE row # 0
  <2>0. row \in 1 .. Len(policies) /\ Len(policies) \in Nat
    BY <1>1, <1>2, <1>10
  <2>1. PICK m \in Policy :
          /\ m = Merged(policies[row], t)
          /\ m.enabled \in {set.enabled, policies[row].enabled} /\ m.start \in {set.start, policies[row].start}
          /\ m.end \in {set.end, policies[row].end} /\ m.bonus \in {set.bonus, policies[row].bonus}
          /\ policies[row] = loaded => m = set
    <3> DEFINE m == Merged(policies[row], t)
    <3>0. policies[row] \in Policy
      BY <1>1, <2>0
    <3>1. m = [enabled |-> Flushed(set.enabled, loaded.enabled, policies[row].enabled),
               start   |-> Flushed(set.start, loaded.start, policies[row].start),
               end     |-> Flushed(set.end, loaded.end, policies[row].end),
               bonus   |-> Flushed(set.bonus, loaded.bonus, policies[row].bonus)]
      BY <1>2 DEF Merged
    <3>2. /\ m.enabled \in {set.enabled, policies[row].enabled} /\ m.start \in {set.start, policies[row].start}
          /\ m.end \in {set.end, policies[row].end} /\ m.bonus \in {set.bonus, policies[row].bonus}
      BY <3>1 DEF Flushed
    <3>3. m \in Policy
      <4>1. /\ m = [enabled |-> m.enabled, start |-> m.start, end |-> m.end, bonus |-> m.bonus]
        BY <3>1
      <4>2. m.enabled \in BOOLEAN /\ m.start \in Hours /\ m.end \in Hours /\ m.bonus \in Bonuses
        BY <3>0, <3>2 DEF Policy
      <4> HIDE DEF m
      <4> QED
        BY <4>1, <4>2 DEF Policy
    <3>4. ASSUME policies[row] = loaded PROVE m = set
      <4>1. m.enabled = set.enabled /\ m.start = set.start /\ m.end = set.end /\ m.bonus = set.bonus
        BY <3>1, <3>4 DEF Flushed
      <4> HIDE DEF m
      <4> QED
        BY <3>3, <4>1 DEF Policy
    <3> QED
      BY <3>2, <3>3, <3>4
  <2>2. /\ policies' \in Seq(Policy) /\ Len(policies') = Len(policies)
        /\ policies'[row] = m /\ \A r \in 1 .. Len(policies) : r # row => policies'[r] = policies[r]
    <3>1. policies' = [policies EXCEPT ![row] = m]
      BY <1>3, <1>10, <2>1
    <3> QED
      BY <1>1, <2>0, <3>1
  <2>3. PolicyRowsAudited'
    <3> SUFFICES ASSUME NEW r \in 1 .. Len(policies')
                 PROVE  /\ \E i \in 1 .. Len(audit') : audit'[i].enabled = policies'[r].enabled
                        /\ \E i \in 1 .. Len(audit') : audit'[i].start = policies'[r].start
                        /\ \E i \in 1 .. Len(audit') : audit'[i].end = policies'[r].end
                        /\ \E i \in 1 .. Len(audit') : audit'[i].bonus = policies'[r].bonus
      BY DEF PolicyRowsAudited, Audited
    <3>0. Audited(policies[r])
      BY <2>2 DEF PolicyInv, PolicyRowsAudited
    <3>1. CASE r = row
      <4>1. /\ policies'[r].enabled \in {set.enabled, policies[r].enabled}
            /\ policies'[r].start \in {set.start, policies[r].start}
            /\ policies'[r].end \in {set.end, policies[r].end}
            /\ policies'[r].bonus \in {set.bonus, policies[r].bonus}
        BY <2>1, <2>2, <3>1
      <4>2. /\ \E i \in 1 .. Len(audit') : audit'[i].enabled = policies[r].enabled
            /\ \E i \in 1 .. Len(audit') : audit'[i].start = policies[r].start
            /\ \E i \in 1 .. Len(audit') : audit'[i].end = policies[r].end
            /\ \E i \in 1 .. Len(audit') : audit'[i].bonus = policies[r].bonus
        BY <1>7, <3>0
      <4>3. /\ \E i \in 1 .. Len(audit') : audit'[i].enabled = set.enabled
            /\ \E i \in 1 .. Len(audit') : audit'[i].start = set.start
            /\ \E i \in 1 .. Len(audit') : audit'[i].end = set.end
            /\ \E i \in 1 .. Len(audit') : audit'[i].bonus = set.bonus
        BY <1>6, <1>8
      <4> QED
        BY <4>1, <4>2, <4>3
    <3>2. CASE r # row
      BY <1>7, <2>2, <3>0, <3>2
    <3> QED
      BY <3>1, <3>2
  <2>4. LastAudited'
    <3> SUFFICES ASSUME ~raced
                 PROVE  Len(policies') = 1 /\ Len(audit') > 0 /\ policies'[1] = audit'[Len(audit')] /\ Legal(policies'[1])
      BY <1>4 DEF LastAudited, Legal
    <3>1. Len(policies) = 1 /\ row = 1
      BY <1>2, <2>0 DEF PolicyInv, LastAudited
    <3>2. loaded = policies[row]
      BY <1>1, <1>2, <3>1, ForceIsTyped
    <3>3. policies'[1] = set /\ audit'[Len(audit')] = set /\ Len(audit') > 0
      BY <1>6, <2>1, <2>2, <3>1, <3>2
    <3> QED
      BY <1>2, <2>2, <3>1, <3>3
  <2>5. ChangesAreLegal'
    <3> SUFFICES ASSUME NEW v \in Workers, work'[v].at = "policy"
                 PROVE  /\ Legal(work'[v].set) /\ work'[v].row <= Len(policies') /\ raced'
      BY DEF ChangesAreLegal, Legal
    <3>1. v # w /\ work'[v] = work[v] /\ work[v] # Rest
      BY <1>4, <1>5
    <3>2. Legal(work[v].set) /\ work[v].row <= Len(policies) /\ work[v].row \in Nat
      BY <1>1, <3>1, PolicyShapes DEF PolicyInv, ChangesAreLegal
    <3>3. raced
      BY <1>4, <3>1
    <3> QED
      BY <1>4, <2>2, <3>1, <3>2, <3>3
  <2> QED
    BY <1>1, <1>3, <1>4, <1>6, <2>2, <2>3, <2>4, <2>5 DEF PolicyInv
<1> QED
  BY <1>9, <1>10

(* PolicyInv is inductive: every step keeps it. *)
LEMMA PolicyNextInductive ==
  ASSUME PolicyInv, [PolicyNext]_policyVars
  PROVE  PolicyInv'
<1>1. WorkTypeOK /\ Alone /\ Typed(PolicyTask) /\ raced \in BOOLEAN /\ policies \in Seq(Policy) /\ rules \in BOOLEAN
  BY DEF PolicyInv, WorkTypeOK
<1>2. Rest \in PolicyTask \cup {Rest} /\ Rest.at = "rest"
  BY DEF Rest
<1>3. ASSUME NEW p \in Policy, Legal(p)
      PROVE  /\ Load(p) \in PolicyTask
             /\ Legal(Load(p).set) /\ Load(p).row = Len(policies) /\ Load(p).loaded = PolicyInForce
  <2>1. PolicyInForce \in Policy /\ Len(policies) \in Nat
    BY <1>1, ForceIsTyped
  <2> QED
    BY <1>3, <2>1 DEF Load, PolicyTask
<1>4. ASSUME NEW w \in Workers, BeginPolicy(w)
      PROVE  PolicyInv'
  <2>1. PICK p \in Policy : Legal(p) /\ Begin(w, Load(p))
    BY <1>4 DEF BeginPolicy
  <2>2. PICK t \in PolicyTask :
          Begin(w, t) /\ Legal(t.set) /\ t.row = Len(policies) /\ t.loaded = PolicyInForce
    BY <1>3, <2>1
  <2>3. /\ WorkTypeOK' /\ Alone' /\ Typed(PolicyTask)' /\ work'[w] = t
        /\ \A v \in Workers \ {w} : work'[v] = work[v]
    BY <1>1, <2>2, TaskBegins
  <2>4. raced' \in {raced, TRUE}
    BY <1>1, <2>2 DEF Begin, Arrive
  <2>5. UNCHANGED <<policies, audit, rules>>
    BY <1>4 DEF BeginPolicy, policyRows
  <2> QED
    BY <1>1, <2>2, <2>3, <2>4, <2>5, PolicyQuietStep
<1>5. ASSUME NEW w \in Workers, BeginRules(w)
      PROVE  PolicyInv'
  <2> DEFINE t == [at |-> "rules", missing |-> ~rules]
  <2>1. Begin(w, t) /\ UNCHANGED <<policies, audit, rules>>
    BY <1>5 DEF BeginRules, policyRows
  <2>2. t \in PolicyTask /\ t.at # "policy"
    <3>1. (~rules) \in BOOLEAN
      OBVIOUS
    <3> QED
      BY <3>1 DEF PolicyTask
  <2> HIDE DEF t
  <2>3. /\ WorkTypeOK' /\ Alone' /\ Typed(PolicyTask)' /\ work'[w] = t
        /\ \A v \in Workers \ {w} : work'[v] = work[v]
    BY <1>1, <2>1, <2>2, TaskBegins
  <2>4. raced' \in {raced, TRUE}
    BY <1>1, <2>1 DEF Begin, Arrive
  <2> QED
    BY <1>1, <2>1, <2>2, <2>3, <2>4, PolicyQuietStep
<1>6. ASSUME NEW w \in Workers, NEW t \in PolicyTask \cup {Rest}, work[w] # Rest, Continue(w, t),
             UNCHANGED <<policies, audit>>, rules' \in BOOLEAN,
             t.at = "policy" => Legal(t.set) /\ t.row = Len(policies) /\ t.loaded = PolicyInForce
      PROVE  PolicyInv'
  <2>1. /\ WorkTypeOK' /\ Alone' /\ Typed(PolicyTask)' /\ work'[w] = t
        /\ \A v \in Workers \ {w} : work'[v] = work[v] /\ raced' = raced
    BY <1>1, <1>6, TaskContinues
  <2>2. raced' \in {raced, TRUE}
    BY <1>6 DEF Continue
  <2> QED
    BY <1>6, <2>1, <2>2, PolicyQuietStep
<1>7. ASSUME NEW w \in Workers, CommitRules(w)
      PROVE  PolicyInv'
  <2>1. work[w].at = "rules" /\ rules' = TRUE /\ UNCHANGED <<policies, audit>>
    BY <1>7 DEF CommitRules
  <2>2. Continue(w, Rest) \/ Continue(w, [at |-> "seeding"])
    BY <1>7 DEF CommitRules, Finish
  <2>3. [at |-> "seeding"] \in PolicyTask \cup {Rest} /\ [at |-> "seeding"].at # "policy"
    BY DEF PolicyTask
  <2> QED
    BY <1>2, <1>6, <2>1, <2>2, <2>3
<1>8. ASSUME NEW w \in Workers, SeedPolicy(w)
      PROVE  PolicyInv'
  <2>1. work[w].at = "seeding" /\ UNCHANGED <<policies, audit, rules>>
    BY <1>8 DEF SeedPolicy, policyRows
  <2>2. CASE policies = <<>>
    <3>1. Continue(w, Load(DefaultPolicy))
      BY <1>8, <2>2 DEF SeedPolicy
    <3> QED
      BY <1>1, <1>2, <1>3, <1>6, <2>1, <3>1, DefaultIsLegal
  <2>3. CASE policies # <<>>
    <3>1. Continue(w, Rest)
      BY <1>8, <2>3 DEF SeedPolicy, Finish
    <3> QED
      BY <1>1, <1>2, <1>6, <2>1, <3>1
  <2> QED
    BY <2>2, <2>3
<1>9. ASSUME NEW w \in Workers, Die(w), UNCHANGED policyRows
      PROVE  PolicyInv'
  <2>1. /\ WorkTypeOK' /\ Alone' /\ Typed(PolicyTask)' /\ work'[w] = Rest
        /\ \A v \in Workers \ {w} : work'[v] = work[v]
    BY <1>1, <1>9, TaskDies
  <2>2. raced' \in {raced, TRUE} /\ UNCHANGED <<policies, audit, rules>>
    BY <1>9 DEF Die, policyRows
  <2> QED
    BY <1>1, <1>2, <2>1, <2>2, PolicyQuietStep
<1>10. ASSUME UNCHANGED policyVars
       PROVE  PolicyInv'
  <2>1. UNCHANGED <<policies, audit, rules, work, begun, raced, died>> /\ UNCHANGED workVars
    BY <1>10 DEF policyVars, policyRows, workVars
  <2>2. WorkTypeOK' /\ Alone' /\ Typed(PolicyTask)'
    BY <1>1, <2>1, NoRequest
  <2>3. PolicyInForce' = PolicyInForce
    BY <2>1 DEF PolicyInForce
  <2> QED
    BY <2>1, <2>2, <2>3 DEF PolicyInv, PolicyRowsAudited, Audited, LastAudited, ChangesAreLegal
<1> QED
  BY <1>4, <1>5, <1>7, <1>8, <1>9, <1>10, CommitPolicyInductive DEF PolicyNext, PolicyStep

(* It says what is claimed of the policy. *)
LEMMA PolicyInvIsEnough == ASSUME PolicyInv PROVE PolicyTypeOK /\ PolicyIsAudited
<1>1. policies \in Seq(Policy) /\ audit \in Seq(Policy)
  BY DEF PolicyInv
<1>2. PolicyTypeOK
  <2>1. Range(policies) \subseteq Policy /\ Range(audit) \subseteq Policy
    BY <1>1 DEF Range
  <2> QED
    BY <2>1 DEF PolicyInv, PolicyTypeOK
<1>3. ASSUME policies # <<>>
      PROVE  /\ \A k \in DOMAIN PolicyInForce : \E i \in DOMAIN audit : audit[i][k] = PolicyInForce[k]
             /\ ~raced => Len(policies) = 1 /\ PolicyInForce = Last(audit) /\ Legal(PolicyInForce)
  <2>1. /\ PolicyInForce \in Policy /\ PolicyInForce = policies[Len(policies)] /\ Len(policies) \in 1 .. Len(policies)
        /\ Len(policies) > 0
    BY <1>1, <1>3, ForceIsTyped
  <2>2. Audited(PolicyInForce)
    BY <2>1 DEF PolicyInv, PolicyRowsAudited
  <2>3. DOMAIN PolicyInForce = {"enabled", "start", "end", "bonus"}
    BY <2>1 DEF Policy
  <2>4. DOMAIN audit = 1 .. Len(audit)
    BY <1>1
  <2>5. ASSUME NEW k \in DOMAIN PolicyInForce
        PROVE  \E i \in DOMAIN audit : audit[i][k] = PolicyInForce[k]
    <3>1. CASE k = "enabled"
      BY <2>2, <2>4, <3>1 DEF Audited
    <3>2. CASE k = "start"
      BY <2>2, <2>4, <3>2 DEF Audited
    <3>3. CASE k = "end"
      BY <2>2, <2>4, <3>3 DEF Audited
    <3>4. CASE k = "bonus"
      BY <2>2, <2>4, <3>4 DEF Audited
    <3> QED
      BY <2>3, <3>1, <3>2, <3>3, <3>4
  <2>6. ~raced => Len(policies) = 1 /\ PolicyInForce = Last(audit) /\ Legal(PolicyInForce)
    BY <2>1 DEF PolicyInv, LastAudited, Last
  <2> QED
    BY <2>5, <2>6
<1> QED
  BY <1>2, <1>3 DEF PolicyIsAudited

(* For any hours, bonuses and admins: every column of the policy in force    *)
(* was set by an audited change, and as long as no two overlapped it is the  *)
(* last audited one and passes the checks (rewards/service.py:404-522).      *)
THEOREM PoliciesAreSound == PolicySpec => [](PolicyTypeOK /\ PolicyIsAudited)
<1>1. PolicyInit /\ WorkInit => PolicyInv
  BY PolicyInitInductive
<1>2. PolicyInv /\ [PolicyNext]_policyVars => PolicyInv'
  BY PolicyNextInductive
<1>3. PolicyInv => PolicyTypeOK /\ PolicyIsAudited
  BY PolicyInvIsEnough
<1> QED
  BY <1>1, <1>2, <1>3, PTL DEF PolicySpec

-----------------------------------------------------------------------------
(* Vouchers. *)

(* The tasks of requests that redeem a voucher. *)
VoucherTask ==
  [at : {"valid"}, voucher : Vouchers, times : Nat]
    \cup [at : {"voucher"}, voucher : Vouchers, times : Nat, bill : Bills, total : 0 .. Price]

(* A redemption under way has not seen fewer uses, or a smaller bill, than the *)
(* redemption rows and the ledger account for.                                 *)
SeenIsCovered ==
  \A w \in Workers :
    /\ \A v \in Vouchers :
         work[w].at \in {"valid", "voucher"} /\ work[w].voucher = v => work[w].times <= Uses(v)
    /\ work[w].at = "voucher" => work[w].total + discounted[work[w].bill] >= Price

(* Without overlap it has seen the rows as they are. *)
SeenIsCurrent ==
  ~raced =>
    \A w \in Workers :
      /\ work[w].at \in {"valid", "voucher"} => work[w].times = voucher[work[w].voucher].times
      /\ work[w].at = "voucher" =>
           work[w].total = bill[work[w].bill] /\ redemption[work[w].voucher][work[w].bill] = 0

(* The inductive invariant of the vouchers. *)
VoucherInv ==
  /\ VouchersTypeOK /\ Typed(VoucherTask) /\ Alone
  /\ NeverUndercharged /\ UsesNotOvercounted /\ VouchersAddUp
  /\ SeenIsCovered /\ SeenIsCurrent

(* What a task about a voucher is. *)
LEMMA VoucherShapes ==
  ASSUME Typed(VoucherTask), NEW w \in Workers
  PROVE  /\ work[w].at \in {"valid", "voucher", "rest"}
         /\ work[w].at = "rest" <=> work[w] = Rest
         /\ work[w].at = "valid" => work[w] \in [at : {"valid"}, voucher : Vouchers, times : Nat]
         /\ work[w].at = "voucher" =>
              work[w] \in [at : {"voucher"}, voucher : Vouchers, times : Nat, bill : Bills, total : 0 .. Price]
<1>1. work[w] \in VoucherTask \cup {Rest}
  BY DEF Typed
<1>2. CASE work[w] = Rest
  BY <1>2 DEF Rest
<1>3. CASE work[w] \in [at : {"valid"}, voucher : Vouchers, times : Nat]
  <2>1. work[w].at = "valid" /\ work[w] # Rest
    BY <1>3 DEF Rest
  <2> QED
    BY <1>3, <2>1
<1>4. CASE work[w] \in [at : {"voucher"}, voucher : Vouchers, times : Nat, bill : Bills, total : 0 .. Price]
  <2>1. work[w].at = "voucher" /\ work[w] # Rest
    BY <1>4 DEF Rest
  <2> QED
    BY <1>4, <2>1
<1> QED
  BY <1>1, <1>2, <1>3, <1>4 DEF VoucherTask

(* A discount is never more than the bill. *)
LEMMA DiscountIsPart ==
  ASSUME NEW v \in Vouchers, NEW total \in Nat
  PROVE  Discount(v, total) \in 0 .. total
<1>1. FixedOff[v] \in Nat /\ Percent[v] \in Nat /\ MaxOff[v] \in Nat
  BY DiscountAssumption
<1>2. total * Percent[v] \in Nat
  BY <1>1
<1>3. (total * Percent[v]) \div 100 \in Nat
  <2> DEFINE k == total * Percent[v]
  <2>1. k \in Nat
    BY <1>2
  <2> HIDE DEF k
  <2>2. k \div 100 \in Nat
    BY <2>1
  <2> QED
    BY <2>2 DEF k
<1> DEFINE share == (total * Percent[v]) \div 100
<1>4. Discount(v, total) = Smaller(total, IF FixedOff[v] > 0 THEN FixedOff[v] ELSE Smaller(share, MaxOff[v]))
  BY DEF Discount
<1>5. share \in Nat
  BY <1>3
<1> HIDE DEF share
<1>6. Smaller(share, MaxOff[v]) \in Nat
  BY <1>1, <1>5 DEF Smaller
<1>7. PICK k \in Nat : Discount(v, total) = Smaller(total, k)
  BY <1>1, <1>4, <1>6
<1> QED
  BY <1>7 DEF Smaller

(* The uses of a voucher, as a sum over the bills. *)
LEMMA UsesAre ==
  ASSUME VouchersTypeOK, NEW v \in Vouchers
  PROVE  Uses(v) \in Nat
<1>1. redemption[v] \in [Bills -> Nat]
  BY DEF VouchersTypeOK
<1> QED
  BY <1>1, SumOfNaturals, BillsAssumption DEF Uses

(* VoucherInv holds at first. *)
LEMMA VoucherInitInductive == VouchersInit /\ WorkInit => VoucherInv
<1> SUFFICES ASSUME VouchersInit, WorkInit PROVE VoucherInv
  OBVIOUS
<1>1. WorkTypeOK /\ Alone /\ Typed(VoucherTask)
  BY WorkInitHolds
<1>2. \A w \in Workers : work[w].at = "rest"
  BY DEF WorkInit, Rest
<1>3. VouchersTypeOK
  <2>1. \A v \in Vouchers : voucher[v] \in [times : {0}, limit : Limits, active : {TRUE}, expired : {FALSE}]
    BY DEF VouchersInit
  <2>2. ASSUME NEW v \in Vouchers
        PROVE  voucher[v] \in Coupon
    <3>1. voucher[v] \in [times : {0}, limit : Limits, active : {TRUE}, expired : {FALSE}]
      BY <2>1
    <3>2. {0} \subseteq Nat /\ {TRUE} \subseteq BOOLEAN /\ {FALSE} \subseteq BOOLEAN
      OBVIOUS
    <3> QED
      BY <3>1, <3>2, Zenon DEF Coupon
  <2>3. voucher \in [Vouchers -> Coupon]
    BY <2>2 DEF VouchersInit
  <2>4. /\ bill \in [Bills -> 0 .. Price] /\ redemption \in [Vouchers -> [Bills -> Nat]]
        /\ discounted \in [Bills -> Nat]
    BY PriceAssumption DEF VouchersInit
  <2> QED
    BY <1>1, <2>3, <2>4 DEF VouchersTypeOK
<1>4. \A v \in Vouchers : Uses(v) = 0
  <2> SUFFICES ASSUME NEW v \in Vouchers PROVE Uses(v) = 0
    OBVIOUS
  <2>1. redemption[v] \in [Bills -> {0}]
    BY DEF VouchersInit
  <2> QED
    BY <2>1, SumOfZeros, BillsAssumption DEF Uses
<1>5. \A v \in Vouchers : voucher[v].times = 0 /\ \A o \in Bills : redemption[v][o] = 0
  BY DEF VouchersInit
<1>6. \A o \in Bills : bill[o] + discounted[o] = Price
  BY PriceAssumption DEF VouchersInit
<1>7. NeverUndercharged
  BY <1>6, PriceAssumption DEF NeverUndercharged
<1>8. UsesNotOvercounted
  BY <1>4, <1>5 DEF UsesNotOvercounted
<1>9. VouchersAddUp
  BY <1>4, <1>5, <1>6 DEF VouchersAddUp
<1> QED
  BY <1>1, <1>2, <1>3, <1>7, <1>8, <1>9 DEF VoucherInv, SeenIsCovered, SeenIsCurrent

(* A request takes up what the rows say, or ends.                             *)
LEMMA VoucherQuietStep ==
  ASSUME VoucherInv, UNCHANGED voucherRows, NEW w \in Workers, NEW t \in VoucherTask \cup {Rest},
         WorkTypeOK', Alone', Typed(VoucherTask)', raced' \in {raced, TRUE},
         work'[w] = t, \A v \in Workers \ {w} : work'[v] = work[v],
         t.at \in {"valid", "voucher"} =>
           (\A v \in Vouchers : t.voucher = v => t.times <= Uses(v)) /\ (~raced' => t.times = voucher[t.voucher].times),
         t.at = "voucher" =>
           t.bill \in Bills /\ t.total = bill[t.bill] /\ redemption[t.voucher][t.bill] = 0
  PROVE  VoucherInv'
<1>1. UNCHANGED <<voucher, bill, redemption, discounted>> /\ VouchersTypeOK
  BY DEF voucherRows, VoucherInv
<1>2. VouchersTypeOK' /\ \A v : Uses(v)' = Uses(v)
  BY <1>1 DEF VouchersTypeOK, Uses
<1>3. NeverUndercharged' /\ UsesNotOvercounted' /\ VouchersAddUp'
  BY <1>1, <1>2 DEF VoucherInv, NeverUndercharged, UsesNotOvercounted, VouchersAddUp
<1>4. SeenIsCovered'
  BY <1>1, <1>2 DEF VoucherInv, SeenIsCovered, NeverUndercharged
<1>5. SeenIsCurrent'
  BY <1>1 DEF VoucherInv, SeenIsCurrent
<1> QED
  BY <1>2, <1>3, <1>4, <1>5 DEF VoucherInv

(* VoucherInv is kept when a redemption commits. *)
LEMMA CommitVoucherInductive ==
  ASSUME VoucherInv, NEW w \in Workers, CommitVoucher(w)
  PROVE  VoucherInv'
<1> DEFINE t == work[w]
<1>1. WorkTypeOK /\ Alone /\ Typed(VoucherTask) /\ VouchersTypeOK
  BY DEF VoucherInv, VouchersTypeOK
<1>2. PICK x \in Vouchers, p \in Bills :
        /\ t.at = "voucher" /\ t # Rest /\ t.voucher = x /\ t.times \in Nat /\ t.bill = p
        /\ t.total \in 0 .. Price /\ t.total \in Nat
  BY <1>1, VoucherShapes, PriceAssumption DEF CommitVoucher
<1>3. PICK off \in 0 .. t.total :
        /\ bill' = [bill EXCEPT ![p] = t.total - off]
        /\ redemption' = [redemption EXCEPT ![x][p] = @ + 1]
        /\ discounted' = [discounted EXCEPT ![p] = @ + off]
        /\ voucher' = [voucher EXCEPT ![x].times = t.times + 1]
        /\ Finish(w)
  <2>1. Discount(x, t.total) \in 0 .. t.total
    BY <1>2, DiscountIsPart
  <2> DEFINE off == Discount(t.voucher, t.total)
  <2>2. /\ bill' = [bill EXCEPT ![t.bill] = t.total - off]
        /\ redemption' = [redemption EXCEPT ![t.voucher][t.bill] = @ + 1]
        /\ discounted' = [discounted EXCEPT ![t.bill] = @ + off]
        /\ voucher' = [voucher EXCEPT ![t.voucher].times = t.times + 1]
        /\ Finish(w)
    BY DEF CommitVoucher
  <2>3. off \in 0 .. t.total
    BY <1>2, <2>1
  <2> HIDE DEF off
  <2>4. /\ bill' = [bill EXCEPT ![p] = t.total - off]
        /\ redemption' = [redemption EXCEPT ![x][p] = @ + 1]
        /\ discounted' = [discounted EXCEPT ![p] = @ + off]
        /\ voucher' = [voucher EXCEPT ![x].times = t.times + 1]
    BY <1>2, <2>2
  <2> QED
    BY <2>2, <2>3, <2>4
<1>4. /\ WorkTypeOK' /\ Alone' /\ Typed(VoucherTask)'
      /\ work'[w] = Rest /\ \A v \in Workers \ {w} : work'[v] = work[v]
      /\ raced' = raced
      /\ ~raced => \A v \in Workers : work'[v] = Rest
  BY <1>1, <1>2, <1>3, TaskFinishes
<1>5. Rest.at = "rest"
  BY DEF Rest
<1>6. /\ voucher \in [Vouchers -> Coupon] /\ bill \in [Bills -> 0 .. Price]
      /\ redemption \in [Vouchers -> [Bills -> Nat]] /\ discounted \in [Bills -> Nat]
  BY <1>1 DEF VouchersTypeOK
<1>7. /\ bill' \in [Bills -> 0 .. Price] /\ bill'[p] = t.total - off
      /\ \A o \in Bills \ {p} : bill'[o] = bill[o]
  <2>1. t.total - off \in 0 .. Price
    BY <1>2, PriceAssumption
  <2> QED
    BY <1>2, <1>3, <1>6, <2>1
<1>8. /\ discounted' \in [Bills -> Nat] /\ discounted'[p] = discounted[p] + off
      /\ \A o \in Bills \ {p} : discounted'[o] = discounted[o]
      /\ \A o \in Bills : discounted[o] \in Nat /\ bill[o] \in Nat
  <2>1. discounted[p] + off \in Nat
    BY <1>2, <1>6
  <2> QED
    BY <1>2, <1>3, <1>6, <2>1, PriceAssumption
<1>9. /\ voucher' \in [Vouchers -> Coupon] /\ voucher'[x].times = t.times + 1
      /\ \A v \in Vouchers \ {x} : voucher'[v] = voucher[v]
      /\ \A v \in Vouchers : voucher[v].times \in Nat
  <2>1. /\ voucher'[x] = [voucher[x] EXCEPT !.times = t.times + 1]
        /\ voucher[x] \in Coupon /\ t.times + 1 \in Nat
    BY <1>2, <1>3, <1>6
  <2>2. voucher'[x] \in Coupon /\ voucher'[x].times = t.times + 1
    BY <2>1 DEF Coupon
  <2>3. voucher' \in [Vouchers -> Coupon] /\ \A v \in Vouchers \ {x} : voucher'[v] = voucher[v]
    BY <1>2, <1>3, <1>6, <2>2
  <2> QED
    BY <1>6, <2>2, <2>3 DEF Coupon
<1>10. /\ redemption' \in [Vouchers -> [Bills -> Nat]]
       /\ redemption'[x][p] = redemption[x][p] + 1 /\ redemption[x][p] \in Nat
       /\ \A o \in Bills \ {p} : redemption'[x][o] = redemption[x][o]
       /\ \A v \in Vouchers \ {x} : redemption'[v] = redemption[v]
  <2>1. redemption[x] \in [Bills -> Nat] /\ redemption[x][p] + 1 \in Nat
    BY <1>2, <1>6
  <2>2. redemption'[x] = [redemption[x] EXCEPT ![p] = redemption[x][p] + 1]
    BY <1>2, <1>3, <1>6
  <2>3. redemption'[x] \in [Bills -> Nat] /\ redemption'[x][p] = redemption[x][p] + 1
        /\ \A o \in Bills \ {p} : redemption'[x][o] = redemption[x][o]
    BY <1>2, <2>1, <2>2
  <2>4. redemption' \in [Vouchers -> [Bills -> Nat]] /\ \A v \in Vouchers \ {x} : redemption'[v] = redemption[v]
    BY <1>2, <1>3, <1>6, <2>3
  <2> QED
    BY <1>2, <2>1, <2>3, <2>4
<1>11. VouchersTypeOK'
  BY <1>4, <1>7, <1>8, <1>9, <1>10 DEF VouchersTypeOK
<1>12. /\ Uses(x)' = Uses(x) + 1 /\ \A v \in Vouchers \ {x} : Uses(v)' = Uses(v)
       /\ \A v \in Vouchers : Uses(v) \in Nat
  <2>1. SumOf(redemption'[x]) = (SumOf(redemption[x]) - redemption[x][p]) + redemption'[x][p]
    <3>1. redemption[x] \in [Bills -> Int] /\ redemption'[x] \in [Bills -> Int]
      BY <1>2, <1>6, <1>10
    <3> QED
      BY <1>2, <1>10, <3>1, SumUpdate, BillsAssumption
  <2>2. \A v \in Vouchers : Uses(v) \in Nat
    BY <1>1, UsesAre
  <2>3. SumOf(redemption[x]) \in Nat
    BY <1>2, <2>2 DEF Uses
  <2>4. SumOf(redemption'[x]) = SumOf(redemption[x]) + 1
    BY <1>10, <2>1, <2>3
  <2> QED
    BY <1>2, <1>10, <2>2, <2>4 DEF Uses
<1>13. t.times <= Uses(x) /\ t.total + discounted[p] >= Price
  BY <1>2 DEF VoucherInv, SeenIsCovered
<1>14. NeverUndercharged'
  <2> SUFFICES ASSUME NEW o \in Bills PROVE bill'[o] + discounted'[o] >= Price
    BY DEF NeverUndercharged
  <2>1. CASE o = p
    <3>1. bill'[o] + discounted'[o] = t.total + discounted[p]
      BY <1>2, <1>7, <1>8, <2>1
    <3> QED
      BY <1>13, <3>1
  <2>2. CASE o # p
    BY <1>7, <1>8, <2>2 DEF VoucherInv, NeverUndercharged
  <2> QED
    BY <2>1, <2>2
<1>15. UsesNotOvercounted'
  <2> SUFFICES ASSUME NEW v \in Vouchers PROVE voucher'[v].times <= Uses(v)'
    BY DEF UsesNotOvercounted
  <2>1. CASE v = x
    BY <1>2, <1>9, <1>12, <1>13, <2>1
  <2>2. CASE v # x
    BY <1>9, <1>12, <2>2 DEF VoucherInv, UsesNotOvercounted
  <2> QED
    BY <2>1, <2>2
<1>16. VouchersAddUp' /\ SeenIsCurrent'
  <2> SUFFICES ASSUME ~raced PROVE VouchersAddUp' /\ SeenIsCurrent'
    BY <1>4 DEF VouchersAddUp, SeenIsCurrent
  <2>1. t.times = voucher[x].times /\ t.total = bill[p] /\ redemption[x][p] = 0
    BY <1>2 DEF VoucherInv, SeenIsCurrent
  <2>2. /\ \A o \in Bills : bill[o] + discounted[o] = Price
        /\ \A v \in Vouchers : voucher[v].times = Uses(v) /\ \A o \in Bills : redemption[v][o] <= 1
    BY DEF VoucherInv, VouchersAddUp
  <2>3. \A o \in Bills : bill'[o] + discounted'[o] = Price
    <3> SUFFICES ASSUME NEW o \in Bills PROVE bill'[o] + discounted'[o] = Price
      OBVIOUS
    <3>1. CASE o = p
      BY <1>2, <1>7, <1>8, <2>1, <2>2, <3>1
    <3>2. CASE o # p
      BY <1>7, <1>8, <2>2, <3>2
    <3> QED
      BY <3>1, <3>2
  <2>4. \A v \in Vouchers : voucher'[v].times = Uses(v)'
    <3> SUFFICES ASSUME NEW v \in Vouchers PROVE voucher'[v].times = Uses(v)'
      OBVIOUS
    <3>1. CASE v = x
      BY <1>2, <1>9, <1>12, <2>1, <2>2, <3>1
    <3>2. CASE v # x
      BY <1>9, <1>12, <2>2, <3>2
    <3> QED
      BY <3>1, <3>2
  <2>5. \A v \in Vouchers : \A o \in Bills : redemption'[v][o] <= 1
    BY <1>10, <2>1, <2>2
  <2>6. VouchersAddUp'
    BY <2>3, <2>4, <2>5 DEF VouchersAddUp
  <2>7. SeenIsCurrent'
    BY <1>4, <1>5 DEF SeenIsCurrent
  <2> QED
    BY <2>6, <2>7
<1>17. SeenIsCovered'
  <2>1. ASSUME NEW v \in Workers, NEW y \in Vouchers, work'[v].at \in {"valid", "voucher"}, work'[v].voucher = y
        PROVE  work'[v].times <= Uses(y)'
    <3>1. v # w /\ work'[v] = work[v]
      BY <1>4, <1>5, <2>1
    <3>2. work[v].times <= Uses(y) /\ work[v].times \in Nat /\ Uses(y) \in Nat
      BY <1>1, <1>12, <2>1, <3>1, VoucherShapes DEF VoucherInv, SeenIsCovered
    <3>3. CASE y = x
      BY <1>12, <3>1, <3>2, <3>3
    <3>4. CASE y # x
      BY <1>12, <3>1, <3>2, <3>4
    <3> QED
      BY <3>3, <3>4
  <2>2. ASSUME NEW v \in Workers, work'[v].at = "voucher"
        PROVE  work'[v].total + discounted'[work'[v].bill] >= Price
    <3>1. v # w /\ work'[v] = work[v]
      BY <1>4, <1>5, <2>2
    <3>2. work[v].bill \in Bills /\ work[v].total \in Nat /\ work[v].total + discounted[work[v].bill] >= Price
      BY <1>1, <2>2, <3>1, VoucherShapes, PriceAssumption DEF VoucherInv, SeenIsCovered
    <3>3. discounted[work[v].bill] \in Nat /\ discounted'[work[v].bill] \in Nat
          /\ discounted'[work[v].bill] >= discounted[work[v].bill]
      BY <1>2, <1>8, <3>2
    <3> QED
      BY <3>1, <3>2, <3>3, PriceAssumption
  <2> QED
    BY <2>1, <2>2 DEF SeenIsCovered
<1> QED
  BY <1>4, <1>11, <1>14, <1>15, <1>16, <1>17 DEF VoucherInv

(* What an admin or the clock changes of a voucher no redemption has seen.    *)
LEMMA VoucherChangeInductive ==
  ASSUME VoucherInv, UNCHANGED <<bill, redemption, discounted, work>>,
         WorkTypeOK', Alone', Typed(VoucherTask)', raced' \in {raced, TRUE},
         voucher' \in [Vouchers -> Coupon], \A v \in Vouchers : voucher'[v].times = voucher[v].times
  PROVE  VoucherInv'
<1>1. \A v : Uses(v)' = Uses(v)
  BY DEF Uses
<1>2. VouchersTypeOK'
  BY DEF VoucherInv, VouchersTypeOK
<1>3. NeverUndercharged' /\ UsesNotOvercounted' /\ VouchersAddUp' /\ SeenIsCovered'
  BY <1>1 DEF VoucherInv, NeverUndercharged, UsesNotOvercounted, VouchersAddUp, SeenIsCovered
<1>4. SeenIsCurrent'
  <2>1. \A w \in Workers : work[w].at \in {"valid", "voucher"} => work[w].voucher \in Vouchers
    BY VoucherShapes DEF VoucherInv
  <2> QED
    BY <2>1 DEF VoucherInv, SeenIsCurrent
<1> QED
  BY <1>2, <1>3, <1>4 DEF VoucherInv

(* VoucherInv is inductive: every step keeps it. *)
LEMMA VoucherNextInductive ==
  ASSUME VoucherInv, [VouchersNext]_voucherVars
  PROVE  VoucherInv'
<1>1. WorkTypeOK /\ Alone /\ Typed(VoucherTask) /\ VouchersTypeOK /\ raced \in BOOLEAN
  BY DEF VoucherInv, VouchersTypeOK, WorkTypeOK
<1>2. Rest \in VoucherTask \cup {Rest} /\ Rest.at = "rest"
  BY DEF Rest
<1>3. /\ voucher \in [Vouchers -> Coupon] /\ bill \in [Bills -> 0 .. Price]
      /\ \A v \in Vouchers : voucher[v].times \in Nat
  BY <1>1 DEF VouchersTypeOK, Coupon
<1>4. ASSUME NEW w \in Workers, NEW v \in Vouchers, BeginVoucher(w, v)
      PROVE  VoucherInv'
  <2> DEFINE t == [at |-> "valid", voucher |-> v, times |-> voucher[v].times]
  <2>1. Begin(w, t) /\ UNCHANGED voucherRows
    BY <1>4 DEF BeginVoucher
  <2>2. t \in VoucherTask
    BY <1>3 DEF VoucherTask
  <2>3. t.at = "valid" /\ t.voucher = v /\ t.times = voucher[v].times /\ t.times <= Uses(v)
    BY DEF VoucherInv, UsesNotOvercounted
  <2> HIDE DEF t
  <2>4. /\ WorkTypeOK' /\ Alone' /\ Typed(VoucherTask)' /\ work'[w] = t
        /\ \A u \in Workers \ {w} : work'[u] = work[u]
    BY <1>1, <2>1, <2>2, TaskBegins
  <2>5. raced' \in {raced, TRUE}
    BY <1>1, <2>1 DEF Begin, Arrive
  <2> QED
    BY <2>1, <2>2, <2>3, <2>4, <2>5, VoucherQuietStep
<1>5. ASSUME NEW w \in Workers, ReadBill(w)
      PROVE  VoucherInv'
  <2>1. /\ work[w].at = "valid" /\ work[w] # Rest /\ work[w].voucher \in Vouchers /\ work[w].times \in Nat
        /\ UNCHANGED voucherRows
    BY <1>1, <1>2, <1>5, VoucherShapes DEF ReadBill
  <2>2. /\ \A v \in Vouchers : work[w].voucher = v => work[w].times <= Uses(v)
        /\ ~raced => work[w].times = voucher[work[w].voucher].times
    BY <2>1 DEF VoucherInv, SeenIsCovered, SeenIsCurrent
  <2>3. PICK t \in VoucherTask \cup {Rest} :
          /\ Continue(w, t)
          /\ \/ t = Rest
             \/ /\ t.at = "voucher" /\ t.voucher = work[w].voucher /\ t.times = work[w].times
                /\ t.bill \in Bills /\ t.total = bill[t.bill] /\ redemption[t.voucher][t.bill] = 0
    <3>1. CASE Finish(w)
      BY <1>2, <3>1 DEF Finish
    <3>2. CASE ~Finish(w)
      <4>1. PICK o \in Bills :
              /\ redemption[work[w].voucher][o] = 0
              /\ Continue(w, [at |-> "voucher", voucher |-> work[w].voucher, times |-> work[w].times,
                              bill |-> o, total |-> bill[o]])
        BY <1>5, <3>2 DEF ReadBill
      <4> DEFINE t == [at |-> "voucher", voucher |-> work[w].voucher, times |-> work[w].times,
                       bill |-> o, total |-> bill[o]]
      <4>2. t \in VoucherTask
        BY <1>3, <2>1 DEF VoucherTask
      <4>3. /\ t.at = "voucher" /\ t.voucher = work[w].voucher /\ t.times = work[w].times
            /\ t.bill \in Bills /\ t.total = bill[t.bill] /\ redemption[t.voucher][t.bill] = 0
        BY <4>1
      <4> QED
        BY <4>1, <4>2, <4>3
    <3> QED
      BY <3>1, <3>2
  <2>4. /\ WorkTypeOK' /\ Alone' /\ Typed(VoucherTask)' /\ work'[w] = t
        /\ \A u \in Workers \ {w} : work'[u] = work[u]
        /\ raced' = raced
    BY <1>1, <2>1, <2>3, TaskContinues
  <2>5. raced' \in {raced, TRUE} /\ (t.at \in {"valid", "voucher"} => t # Rest)
    BY <1>2, <2>4
  <2> QED
    BY <2>1, <2>2, <2>3, <2>4, <2>5, VoucherQuietStep
<1>6. ASSUME NEW w \in Workers, Die(w), UNCHANGED voucherRows
      PROVE  VoucherInv'
  <2>1. /\ WorkTypeOK' /\ Alone' /\ Typed(VoucherTask)' /\ work'[w] = Rest
        /\ \A v \in Workers \ {w} : work'[v] = work[v]
    BY <1>1, <1>6, TaskDies
  <2>2. raced' \in {raced, TRUE}
    BY <1>6 DEF Die
  <2> QED
    BY <1>2, <1>6, <2>1, <2>2, VoucherQuietStep
<1>7. ASSUME NEW v \in Vouchers, Administer(v)
      PROVE  VoucherInv'
  <2>1. AtOnce /\ UNCHANGED <<bill, redemption, discounted>>
    BY <1>7 DEF Administer
  <2>2. WorkTypeOK' /\ Alone' /\ Typed(VoucherTask)' /\ work' = work
    BY <1>1, <2>1, RequestAtOnce
  <2>3. raced' \in {raced, TRUE}
    BY <1>1, <2>1 DEF AtOnce, Arrive
  <2>4. voucher' \in [Vouchers -> Coupon] /\ \A u \in Vouchers : voucher'[u].times = voucher[u].times
    <3>1. CASE \E n \in Limits : voucher' = [voucher EXCEPT ![v].limit = n]
      BY <1>3, <3>1 DEF Coupon
    <3>2. CASE \E b \in BOOLEAN : voucher' = [voucher EXCEPT ![v].active = b]
      BY <1>3, <3>2 DEF Coupon
    <3> QED
      BY <1>7, <3>1, <3>2 DEF Administer
  <2> QED
    BY <2>1, <2>2, <2>3, <2>4, VoucherChangeInductive
<1>8. ASSUME NEW v \in Vouchers, Lapse(v)
      PROVE  VoucherInv'
  <2>1. UNCHANGED <<bill, redemption, discounted, work, raced>> /\ UNCHANGED workVars
    BY <1>8 DEF Lapse, workVars
  <2>2. WorkTypeOK' /\ Alone' /\ Typed(VoucherTask)'
    BY <1>1, <2>1, NoRequest
  <2>3. voucher' \in [Vouchers -> Coupon] /\ \A u \in Vouchers : voucher'[u].times = voucher[u].times
    BY <1>3, <1>8 DEF Lapse, Coupon
  <2> QED
    BY <2>1, <2>2, <2>3, VoucherChangeInductive
<1>9. ASSUME UNCHANGED voucherVars
      PROVE  VoucherInv'
  <2>1. UNCHANGED <<voucher, bill, redemption, discounted, work, raced>> /\ UNCHANGED workVars
    BY <1>9 DEF voucherVars, voucherRows, workVars
  <2>2. WorkTypeOK' /\ Alone' /\ Typed(VoucherTask)'
    BY <1>1, <2>1, NoRequest
  <2> QED
    BY <1>3, <2>1, <2>2, VoucherChangeInductive
<1> QED
  BY <1>4, <1>5, <1>6, <1>7, <1>8, <1>9, CommitVoucherInductive DEF VouchersNext, VouchersStep

(* For any vouchers, bills and requests: an order is never charged less than *)
(* its price minus the discounts of its ledger and times_redeemed never      *)
(* claims more uses than there are, whatever races; without overlap they     *)
(* agree (rewards/service.py:355-393).                                       *)
THEOREM VouchersAreSound == VouchersSpec => [](VouchersTypeOK /\ VoucherBooksAgree)
<1>1. VouchersInit /\ WorkInit => VoucherInv
  BY VoucherInitInductive
<1>2. VoucherInv /\ [VouchersNext]_voucherVars => VoucherInv'
  BY VoucherNextInductive
<1>3. VoucherInv => VouchersTypeOK /\ VoucherBooksAgree
  BY DEF VoucherInv, VoucherBooksAgree
<1> QED
  BY <1>1, <1>2, <1>3, PTL DEF VouchersSpec

-----------------------------------------------------------------------------
(* Print jobs. *)

(* The tasks of requests about a print job. *)
JobTask ==
  [at : {"status"}, status : JobStatus, seen : JobStatus]
    \cup [at : {"initiating"}]
    \cup [at : {"created", "verifying"}, order : RzpOrders]

(* The Razorpay orders without a row, and the requests that owe them one.     *)
Rowless == {o \in created : payment[o] = "none"}

(* The workers that created a Razorpay order and have not committed its row. *)
Owing == {w \in Workers : work[w].at = "created"}

(* Every row is of an order that Razorpay created. *)
RowsAreCreated == \A o \in RzpOrders : payment[o] # "none" => o \in created

(* No two requests hold the same Razorpay order. *)
OwersDiffer ==
  /\ \A w \in Owing : work[w].order \in Rowless
  /\ \A v, w \in Owing : work[v].order = work[w].order => v = w

(* The inductive invariant of the jobs. *)
JobInv ==
  /\ JobTypeOK /\ Typed(JobTask) /\ Alone
  /\ IsFiniteSet(created)
  /\ RowsAreCreated /\ OwersDiffer /\ RzpOrdersAreTraced

(* What a task about a job is. *)
LEMMA JobShapes ==
  ASSUME Typed(JobTask), NEW w \in Workers
  PROVE  /\ work[w].at = "status" => work[w].status \in JobStatus /\ work[w] # Rest
         /\ work[w].at = "created" => work[w].order \in RzpOrders /\ work[w] # Rest
         /\ work[w] = Rest => work[w].at = "rest"
<1>1. work[w] \in JobTask \cup {Rest}
  BY DEF Typed
<1>2. CASE work[w] = Rest
  BY <1>2 DEF Rest
<1>3. CASE work[w] \in [at : {"status"}, status : JobStatus, seen : JobStatus]
  BY <1>3 DEF Rest
<1>4. CASE work[w] \in [at : {"initiating"}]
  BY <1>4 DEF Rest
<1>5. CASE work[w] \in [at : {"created", "verifying"}, order : RzpOrders]
  BY <1>5 DEF Rest
<1> QED
  BY <1>1, <1>2, <1>3, <1>4, <1>5 DEF JobTask

(* JobInv holds at first. *)
LEMMA JobInitInductive == JobInit /\ WorkInit => JobInv
<1> SUFFICES ASSUME JobInit, WorkInit PROVE JobInv
  OBVIOUS
<1>1. WorkTypeOK /\ Alone /\ Typed(JobTask)
  BY WorkInitHolds
<1>2. \A w \in Workers : work[w].at = "rest"
  BY DEF WorkInit, Rest
<1>3. job \in [status : JobStatus, order : SUBSET RzpOrders, paid : BOOLEAN]
  BY DEF JobInit, JobStatus
<1>4. JobTypeOK
  BY <1>1, <1>3 DEF JobInit, JobTypeOK
<1>5. Rowless = {} /\ Owing = {} /\ created = {} /\ job.order = {}
  BY <1>2 DEF JobInit, Rowless, Owing
<1>6. Cardinality(Rowless) <= died + Cardinality(Owing)
  BY <1>5, FS_EmptySet DEF WorkInit
<1> QED
  BY <1>1, <1>4, <1>5, <1>6, FS_EmptySet
     DEF JobInv, RowsAreCreated, OwersDiffer, RzpOrdersAreTraced, Rowless, Owing, JobInit

(* The Razorpay orders without a row are finitely many. *)
LEMMA RowlessAreFinite ==
  ASSUME JobInv
  PROVE  /\ IsFiniteSet(Rowless) /\ IsFiniteSet(Owing)
         /\ Cardinality(Rowless) \in Nat /\ Cardinality(Owing) \in Nat /\ died \in Nat
         /\ Cardinality(Rowless) <= died + Cardinality(Owing)
<1>1. IsFiniteSet(Rowless) /\ IsFiniteSet(Owing)
  BY FS_Subset, WorkersAssumption DEF JobInv, Rowless, Owing
<1>2. died \in Nat
  BY WorkerBounds DEF JobInv, JobTypeOK, WorkTypeOK
<1> QED
  BY <1>1, <1>2, FS_CardinalityType DEF JobInv, RzpOrdersAreTraced, Rowless, Owing

(* A step that makes no Razorpay order and gives none a row.                  *)
LEMMA JobQuietStep ==
  ASSUME JobInv, UNCHANGED <<payment, created>>,
         JobTypeOK', Typed(JobTask)', Alone',
         NEW w \in Workers, \A v \in Workers \ {w} : work'[v] = work[v],
         work'[w].at # "created",
         \/ died' = died /\ work[w].at # "created"
         \/ died' = died + 1,
         job'.order = job.order
  PROVE  JobInv'
<1>1. Rowless' = Rowless /\ IsFiniteSet(created') /\ RowsAreCreated'
  BY DEF JobInv, Rowless, RowsAreCreated
<1>2. Owing' = Owing \ {w} /\ \A v \in Owing' : work'[v] = work[v]
  BY DEF Owing
<1>3. /\ IsFiniteSet(Owing) /\ Cardinality(Rowless) \in Nat /\ Cardinality(Owing) \in Nat /\ died \in Nat
      /\ Cardinality(Rowless) <= died + Cardinality(Owing)
  BY RowlessAreFinite
<1>4. OwersDiffer'
  BY <1>1, <1>2 DEF JobInv, OwersDiffer
<1>5. Cardinality(Rowless') <= died' + Cardinality(Owing')
  <2>1. CASE w \in Owing
    <3>1. Cardinality(Owing \ {w}) = Cardinality(Owing) - 1
      BY <1>3, <2>1, FS_RemoveElement
    <3>2. died' = died + 1
      BY <2>1 DEF Owing
    <3> QED
      BY <1>1, <1>2, <1>3, <3>1, <3>2
  <2>2. CASE w \notin Owing
    <3>1. Owing' = Owing
      BY <1>2, <2>2
    <3> QED
      BY <1>1, <1>3, <3>1
  <2> QED
    BY <2>1, <2>2
<1>6. RzpOrdersAreTraced'
  BY <1>5 DEF JobInv, RzpOrdersAreTraced, Rowless, Owing
<1> QED
  BY <1>1, <1>4, <1>6 DEF JobInv

(* JobInv is kept when Razorpay creates an order. *)
LEMMA CreateRzpOrderInductive == ASSUME JobInv, NEW w \in Workers, CreateRzpOrder(w) PROVE JobInv'
<1>1. WorkTypeOK /\ Alone /\ Typed(JobTask) /\ JobTypeOK
  BY DEF JobInv, JobTypeOK
<1>2. PICK o \in RzpOrders \ created :
        created' = created \cup {o} /\ Continue(w, [at |-> "created", order |-> o])
  BY DEF CreateRzpOrder
<1> DEFINE t == [at |-> "created", order |-> o]
<1>3. t \in JobTask /\ t.at = "created" /\ t.order = o
  BY DEF JobTask
<1>4. /\ work[w].at = "initiating" /\ work[w] # Rest /\ Continue(w, t)
      /\ UNCHANGED <<job, payment, settled, told>>
  BY <1>2 DEF CreateRzpOrder, Rest
<1> HIDE DEF t
<1>5. /\ WorkTypeOK' /\ Alone' /\ Typed(JobTask)'
      /\ work'[w] = t /\ \A v \in Workers \ {w} : work'[v] = work[v]
      /\ died' = died
  BY <1>1, <1>3, <1>4, TaskContinues
<1>6. JobTypeOK'
  BY <1>1, <1>2, <1>4, <1>5 DEF JobTypeOK
<1>7. IsFiniteSet(created')
  BY <1>2, FS_AddElement DEF JobInv
<1>8. Rowless' \in {Rowless, Rowless \cup {o}} /\ o \notin Rowless
  BY <1>2, <1>4 DEF Rowless
<1>9. Owing' = Owing \cup {w} /\ w \notin Owing /\ \A v \in Owing : v # w /\ work'[v] = work[v]
  BY <1>3, <1>4, <1>5 DEF Owing
<1>10. \A v \in Owing : work[v].order \in Rowless /\ work[v].order # o
  BY <1>8 DEF JobInv, OwersDiffer
<1>11. /\ IsFiniteSet(Rowless) /\ IsFiniteSet(Owing)
       /\ Cardinality(Rowless) \in Nat /\ Cardinality(Owing) \in Nat /\ died \in Nat
       /\ Cardinality(Rowless) <= died + Cardinality(Owing)
  BY RowlessAreFinite
<1>12. /\ Cardinality(Owing') = Cardinality(Owing) + 1
       /\ Cardinality(Rowless') \in {Cardinality(Rowless), Cardinality(Rowless) + 1}
  BY <1>8, <1>9, <1>11, FS_AddElement
<1>13. Cardinality(Rowless') <= died' + Cardinality(Owing')
  BY <1>5, <1>11, <1>12
<1>14. payment[o] = "none" /\ RowsAreCreated'
  BY <1>1, <1>2, <1>4 DEF JobInv, RowsAreCreated
<1>15. OwersDiffer'
  <2>1. \A v \in Owing' : work'[v].order \in Rowless'
    BY <1>2, <1>3, <1>4, <1>5, <1>8, <1>9, <1>10, <1>14 DEF Rowless
  <2>2. \A u, v \in Owing' : work'[u].order = work'[v].order => u = v
    BY <1>3, <1>5, <1>9, <1>10 DEF JobInv, OwersDiffer
  <2> QED
    BY <2>1, <2>2 DEF OwersDiffer
<1>16. RzpOrdersAreTraced'
  BY <1>4, <1>13 DEF JobInv, RzpOrdersAreTraced, Rowless, Owing
<1> QED
  BY <1>5, <1>6, <1>7, <1>14, <1>15, <1>16 DEF JobInv

(* JobInv is kept when its row commits. *)
LEMMA CommitJobPaymentInductive == ASSUME JobInv, NEW w \in Workers, CommitJobPayment(w) PROVE JobInv'
<1>1. WorkTypeOK /\ Alone /\ Typed(JobTask) /\ JobTypeOK
  BY DEF JobInv, JobTypeOK
<1>2. PICK o \in RzpOrders : work[w].at = "created" /\ work[w] # Rest /\ work[w].order = o
  BY <1>1, JobShapes DEF CommitJobPayment
<1>3. /\ job' = [status |-> job.status, order |-> {o}, paid |-> job.paid]
      /\ payment' = [payment EXCEPT ![o] = "INITIATED"]
      /\ Finish(w) /\ UNCHANGED <<created, settled, told>>
  BY <1>2 DEF CommitJobPayment
<1>4. /\ WorkTypeOK' /\ Alone' /\ Typed(JobTask)'
      /\ work'[w] = Rest /\ \A v \in Workers \ {w} : work'[v] = work[v]
      /\ died' = died
  BY <1>1, <1>2, <1>3, TaskFinishes
<1>5. job' \in [status : JobStatus, order : SUBSET RzpOrders, paid : BOOLEAN] /\ job'.order = {o}
  BY <1>1, <1>3 DEF JobTypeOK
<1>6. /\ payment' \in [RzpOrders -> {"none", "INITIATED", "SUCCESS"}] /\ payment'[o] = "INITIATED"
      /\ \A p \in RzpOrders \ {o} : payment'[p] = payment[p]
  BY <1>1, <1>3 DEF JobTypeOK
<1>7. JobTypeOK'
  BY <1>1, <1>3, <1>4, <1>5, <1>6 DEF JobTypeOK
<1>8. w \in Owing /\ o \in Rowless
  BY <1>2 DEF JobInv, OwersDiffer, Owing
<1>9. Rowless' = Rowless \ {o}
  BY <1>1, <1>3, <1>6 DEF Rowless, JobTypeOK
<1>10. Owing' = Owing \ {w} /\ \A v \in Owing' : work'[v] = work[v]
  BY <1>4 DEF Owing, Rest
<1>11. /\ IsFiniteSet(Rowless) /\ IsFiniteSet(Owing)
       /\ Cardinality(Rowless) \in Nat /\ Cardinality(Owing) \in Nat /\ died \in Nat
       /\ Cardinality(Rowless) <= died + Cardinality(Owing)
  BY RowlessAreFinite
<1>12. /\ Cardinality(Owing') = Cardinality(Owing) - 1
       /\ Cardinality(Rowless') = Cardinality(Rowless) - 1
  BY <1>8, <1>9, <1>10, <1>11, FS_RemoveElement
<1>13. Cardinality(Rowless') <= died' + Cardinality(Owing')
  BY <1>4, <1>11, <1>12
<1>14. OwersDiffer'
  BY <1>2, <1>8, <1>9, <1>10 DEF JobInv, OwersDiffer
<1>16. RowsAreCreated'
  BY <1>3, <1>6, <1>8 DEF JobInv, RowsAreCreated, Rowless
<1>15. RzpOrdersAreTraced'
  BY <1>5, <1>6, <1>13 DEF RzpOrdersAreTraced, Rowless, Owing
<1> QED
  BY <1>3, <1>4, <1>7, <1>14, <1>15, <1>16 DEF JobInv

(* JobInv is inductive: every step keeps it. *)
LEMMA JobNextInductive == ASSUME JobInv, [JobNext]_jobVars PROVE JobInv'
<1>1. WorkTypeOK /\ Alone /\ Typed(JobTask) /\ JobTypeOK
  BY DEF JobInv, JobTypeOK
<1>2. Rest.at = "rest"
  BY DEF Rest
<1>3. ASSUME NEW w \in Workers, NEW t \in JobTask, Begin(w, t), t.at # "created", UNCHANGED jobRows
      PROVE  JobInv'
  <2>1. /\ WorkTypeOK' /\ Alone' /\ Typed(JobTask)' /\ work[w] = Rest /\ work'[w] = t
        /\ \A v \in Workers \ {w} : work'[v] = work[v]
        /\ died' = died
    BY <1>1, <1>3, TaskBegins
  <2>2. UNCHANGED <<job, payment, created, settled, told>>
    BY <1>3 DEF jobRows
  <2>3. JobTypeOK'
    BY <1>1, <2>1, <2>2 DEF JobTypeOK
  <2> QED
    BY <1>2, <1>3, <2>1, <2>2, <2>3, JobQuietStep
<1>4. ASSUME NEW w \in Workers, BeginJobStatus(w)
      PROVE  JobInv'
  <2>1. PICK s \in JobStatus : Begin(w, [at |-> "status", status |-> s, seen |-> job.status])
    BY <1>4 DEF BeginJobStatus
  <2> DEFINE t == [at |-> "status", status |-> s, seen |-> job.status]
  <2>2. t \in JobTask /\ t.at # "created"
    BY <1>1 DEF JobTask, JobTypeOK
  <2>3. Begin(w, t) /\ UNCHANGED jobRows
    BY <1>4, <2>1 DEF BeginJobStatus
  <2> HIDE DEF t
  <2> QED
    BY <1>3, <2>2, <2>3
<1>5. ASSUME NEW w \in Workers, BeginJobPayment(w)
      PROVE  JobInv'
  <2>1. [at |-> "initiating"] \in JobTask /\ [at |-> "initiating"].at # "created"
    BY DEF JobTask
  <2> QED
    BY <1>3, <1>5, <2>1 DEF BeginJobPayment
<1>6. ASSUME NEW w \in Workers, NEW o \in RzpOrders, BeginJobVerify(w, o)
      PROVE  JobInv'
  <2>1. [at |-> "verifying", order |-> o] \in JobTask /\ [at |-> "verifying", order |-> o].at # "created"
    BY DEF JobTask
  <2> QED
    BY <1>3, <1>6, <2>1 DEF BeginJobVerify
<1>7. ASSUME NEW w \in Workers, work[w].at \in {"status", "verifying"}, Finish(w),
             UNCHANGED <<payment, created, settled>>, told' \in Nat,
             job' \in [status : JobStatus, order : SUBSET RzpOrders, paid : BOOLEAN],
             job'.order = job.order
      PROVE  JobInv'
  <2>1. work[w] # Rest
    BY <1>2, <1>7
  <2>2. /\ WorkTypeOK' /\ Alone' /\ Typed(JobTask)' /\ work'[w] = Rest
        /\ \A v \in Workers \ {w} : work'[v] = work[v]
        /\ died' = died
    BY <1>1, <1>7, <2>1, TaskFinishes
  <2>3. JobTypeOK'
    BY <1>1, <1>7, <2>2 DEF JobTypeOK
  <2> QED
    BY <1>2, <1>7, <2>2, <2>3, JobQuietStep
<1>8. ASSUME NEW w \in Workers, CommitJobStatus(w)
      PROVE  JobInv'
  <2>1. /\ work[w].at = "status" /\ Finish(w) /\ UNCHANGED <<payment, created, settled, told>>
        /\ job' \in {job, [status |-> work[w].status, order |-> job.order, paid |-> job.paid]}
    BY <1>8 DEF CommitJobStatus
  <2>2. job \in [status : JobStatus, order : SUBSET RzpOrders, paid : BOOLEAN] /\ told \in Nat
        /\ work[w].status \in JobStatus
    BY <1>1, <2>1, JobShapes DEF JobTypeOK
  <2>3. job' \in [status : JobStatus, order : SUBSET RzpOrders, paid : BOOLEAN] /\ job'.order = job.order
    BY <2>1, <2>2
  <2> QED
    BY <1>7, <2>1, <2>2, <2>3
<1>9. ASSUME NEW w \in Workers, FailJobVerify(w)
      PROVE  JobInv'
  <2>1. told' \in Nat /\ job \in [status : JobStatus, order : SUBSET RzpOrders, paid : BOOLEAN]
    BY <1>1, <1>9 DEF JobTypeOK, FailJobVerify
  <2> QED
    BY <1>7, <1>9, <2>1 DEF FailJobVerify
<1>10. ASSUME NEW w \in Workers, Die(w), UNCHANGED jobRows
       PROVE  JobInv'
  <2>1. /\ WorkTypeOK' /\ Alone' /\ Typed(JobTask)' /\ work'[w] = Rest
        /\ \A v \in Workers \ {w} : work'[v] = work[v]
        /\ died' = died + 1
    BY <1>1, <1>10, TaskDies
  <2>2. UNCHANGED <<job, payment, created, settled, told>>
    BY <1>10 DEF jobRows
  <2>3. JobTypeOK'
    BY <1>1, <2>1, <2>2 DEF JobTypeOK
  <2> QED
    BY <1>2, <2>1, <2>2, <2>3, JobQuietStep
<1>11. ASSUME UNCHANGED <<job, payment, created, told, workVars>>, settled' \subseteq created
       PROVE  JobInv'
  <2>1. UNCHANGED <<work, begun, raced, died>>
    BY <1>11 DEF workVars
  <2>2. JobTypeOK' /\ Typed(JobTask)' /\ Alone'
    BY <1>1, <1>11, <2>1 DEF JobTypeOK, WorkTypeOK, Typed, Alone
  <2>3. Rowless' = Rowless /\ Owing' = Owing
    BY <1>11, <2>1 DEF Rowless, Owing
  <2> QED
    BY <1>11, <2>1, <2>2, <2>3 DEF JobInv, RowsAreCreated, OwersDiffer, RzpOrdersAreTraced, Rowless, Owing
<1>12. ASSUME NEW o \in RzpOrders, SettleJob(o)
       PROVE  JobInv'
  <2>1. settled' \subseteq created
    BY <1>1, <1>12 DEF SettleJob, JobTypeOK, JobInv, RowsAreCreated
  <2> QED
    BY <1>11, <1>12, <2>1 DEF SettleJob
<1>13. ASSUME UNCHANGED jobVars
       PROVE  JobInv'
  <2>1. UNCHANGED <<job, payment, created, settled, told, workVars>>
    BY <1>13 DEF jobVars, jobRows
  <2>2. settled' \subseteq created
    BY <1>1, <2>1 DEF JobTypeOK
  <2> QED
    BY <1>11, <2>1, <2>2
<1> QED
  BY <1>4, <1>5, <1>6, <1>8, <1>9, <1>10, <1>12, <1>13, CreateRzpOrderInductive, CommitJobPaymentInductive
     DEF JobNext, JobStep

(* For any number of Razorpay orders and requests: a Razorpay order without  *)
(* a payments row is of a request in progress or of one that died, and the   *)
(* order a job names has a row (test_stationery_payment_audit.py:8).         *)
THEOREM JobsAreSound == JobSpec => [](JobTypeOK /\ RzpOrdersAreTraced)
<1>1. JobInit /\ WorkInit => JobInv
  BY JobInitInductive
<1>2. JobInv /\ [JobNext]_jobVars => JobInv'
  BY JobNextInductive
<1>3. JobInv => JobTypeOK /\ RzpOrdersAreTraced
  BY DEF JobInv
<1> QED
  BY <1>1, <1>2, <1>3, PTL DEF JobSpec

-----------------------------------------------------------------------------
(* Admin settings. *)

(* The task of a request that has assigned the setting and not stored it. *)
SettingTask == [at : {"assigned"}, value : Settings]

(* No request is in progress. *)
AllRest == \A w \in Workers : work[w] = Rest

(* What Redis holds is what was last answered, unless that missed it.         *)
RedisIsLatest ==
  /\ stored = {} \/ \E v \in Settings : stored = {v}
  /\ ~missed => stored = {latest} \/ (stored = {} /\ latest = Default)

(* A fresh process keeps the default until a request assigns something else.  *)
FreshIsDefault == restarted /\ AllRest => fallback = Default

(* Without overlap the variable is what the request in progress assigned, or  *)
(* what was last answered.                                                    *)
FallbackIsLatest ==
  ~raced =>
    /\ AllRest /\ ~restarted => fallback = latest
    /\ \A w \in Workers : work[w].at = "assigned" => fallback = work[w].value

(* The inductive invariant of the settings. *)
SettingsInv ==
  /\ SettingsTypeOK /\ Alone /\ Typed(SettingTask)
  /\ RedisIsLatest /\ FreshIsDefault /\ FallbackIsLatest

(* What a task of the settings is. *)
LEMMA SettingShapes ==
  ASSUME Typed(SettingTask), NEW w \in Workers
  PROVE  /\ work[w].at = "assigned" => work[w].value \in Settings
         /\ work[w].at = "assigned" <=> work[w] # Rest
<1>1. work[w] \in SettingTask \cup {Rest}
  BY DEF Typed
<1>2. CASE work[w] = Rest
  BY <1>2 DEF Rest
<1>3. CASE work[w] \in SettingTask
  BY <1>3 DEF Rest, SettingTask
<1> QED
  BY <1>1, <1>2, <1>3

(* SettingsInv holds at first. *)
LEMMA SettingsInitInductive == SettingsInit /\ WorkInit => SettingsInv
<1> SUFFICES ASSUME SettingsInit, WorkInit PROVE SettingsInv
  OBVIOUS
<1>1. WorkTypeOK /\ Alone /\ Typed(SettingTask)
  BY WorkInitHolds
<1>2. \A w \in Workers : work[w].at = "rest"
  BY DEF WorkInit, Rest
<1>3. reachable \in BOOLEAN /\ missed \in BOOLEAN /\ restarted \in BOOLEAN
  BY DEF SettingsInit
<1>4. SettingsTypeOK
  BY <1>1, <1>3, DefaultAssumption DEF SettingsInit, SettingsTypeOK
<1>5. RedisIsLatest /\ FreshIsDefault /\ FallbackIsLatest
  BY <1>2 DEF SettingsInit, RedisIsLatest, FreshIsDefault, FallbackIsLatest
<1> QED
  BY <1>1, <1>4, <1>5 DEF SettingsInv

(* SettingsInv is kept when a request assigns the attribute. *)
LEMMA AssignInductive ==
  ASSUME SettingsInv, NEW w \in Workers, NEW v \in Settings, AssignSetting(w, v)
  PROVE  SettingsInv'
<1> DEFINE t == [at |-> "assigned", value |-> v]
<1>1. WorkTypeOK /\ Alone /\ Typed(SettingTask)
  BY DEF SettingsInv, SettingsTypeOK
<1>2. Begin(w, t) /\ fallback' = v /\ UNCHANGED <<stored, reachable, latest, missed, restarted>>
  BY DEF AssignSetting
<1>3. t \in SettingTask /\ t # Rest /\ t.at = "assigned" /\ t.value = v
  BY DEF SettingTask, Rest
<1> HIDE DEF t
<1>4. /\ WorkTypeOK' /\ Alone' /\ Typed(SettingTask)'
      /\ work'[w] = t /\ \A u \in Workers \ {w} : work'[u] = work[u]
      /\ ~raced' => ~raced /\ \A u \in Workers : work[u] = Rest
  BY <1>1, <1>2, <1>3, TaskBegins
<1>5. SettingsTypeOK'
  BY <1>2, <1>4 DEF SettingsInv, SettingsTypeOK
<1>6. RedisIsLatest'
  BY <1>2 DEF SettingsInv, RedisIsLatest
<1>7. ~AllRest'
  BY <1>3, <1>4 DEF AllRest
<1>8. FreshIsDefault'
  BY <1>7 DEF FreshIsDefault
<1>9. FallbackIsLatest'
  <2> SUFFICES ASSUME ~raced', NEW u \in Workers, work'[u].at = "assigned" PROVE fallback' = work'[u].value
    BY <1>7 DEF FallbackIsLatest
  <2>1. u = w
    BY <1>4 DEF Rest
  <2> QED
    BY <1>2, <1>3, <1>4, <2>1
<1> QED
  BY <1>4, <1>5, <1>6, <1>8, <1>9 DEF SettingsInv

(* SettingsInv is kept when it stores the value or fails to. *)
LEMMA StoreInductive ==
  ASSUME SettingsInv, NEW w \in Workers, StoreSetting(w)
  PROVE  SettingsInv'
<1>1. WorkTypeOK /\ Alone /\ Typed(SettingTask) /\ SettingsTypeOK
  BY DEF SettingsInv, SettingsTypeOK
<1>2. PICK v \in Settings : work[w].at = "assigned" /\ work[w] # Rest /\ work[w].value = v
  BY <1>1, SettingShapes DEF StoreSetting
<1>3. /\ stored' = IF reachable THEN {v} ELSE stored
      /\ latest' = v /\ restarted' = FALSE /\ Finish(w) /\ UNCHANGED <<fallback, reachable>>
  BY <1>2 DEF StoreSetting
<1>4. missed' = ~reachable
  BY DEF StoreSetting
<1>5. /\ WorkTypeOK' /\ Alone' /\ Typed(SettingTask)'
      /\ ~raced => \A u \in Workers : work'[u] = Rest
      /\ raced' = raced
  BY <1>1, <1>2, <1>3, TaskFinishes
<1>6. missed' \in BOOLEAN /\ restarted' \in BOOLEAN /\ (~missed' => reachable)
  BY <1>1, <1>3, <1>4 DEF SettingsTypeOK
<1>7. SettingsTypeOK'
  BY <1>1, <1>3, <1>5, <1>6 DEF SettingsTypeOK
<1>8. RedisIsLatest'
  BY <1>3, <1>6 DEF SettingsInv, RedisIsLatest
<1>9. FreshIsDefault'
  BY <1>3 DEF FreshIsDefault
<1>10. FallbackIsLatest'
  BY <1>2, <1>3, <1>5 DEF SettingsInv, FallbackIsLatest, Rest
<1> QED
  BY <1>5, <1>7, <1>8, <1>9, <1>10 DEF SettingsInv

(* SettingsInv is kept when the process restarts. *)
LEMMA RestartInductive == ASSUME SettingsInv, Restart PROVE SettingsInv'
<1>1. /\ died < MaxAborts /\ died' = died + 1 /\ work' = [w \in Workers |-> Rest] /\ fallback' = Default
      /\ UNCHANGED <<stored, reachable, latest, missed, begun, raced>>
  BY DEF Restart
<1>2. restarted' = TRUE
  BY DEF Restart
<1>3. restarted' \in BOOLEAN
  BY <1>2
<1>4. \A w \in Workers : work'[w] = Rest
  BY <1>1
<1>5. WorkTypeOK' /\ Alone' /\ Typed(SettingTask)'
  BY <1>1, <1>4, WorkerBounds DEF SettingsInv, SettingsTypeOK, WorkTypeOK, Alone, Typed
<1>6. SettingsTypeOK'
  BY <1>1, <1>3, <1>5, DefaultAssumption DEF SettingsInv, SettingsTypeOK
<1>7. RedisIsLatest' /\ FreshIsDefault' /\ FallbackIsLatest'
  BY <1>1, <1>2, <1>4 DEF SettingsInv, RedisIsLatest, FreshIsDefault, FallbackIsLatest, Rest
<1> QED
  BY <1>5, <1>6, <1>7 DEF SettingsInv

(* SettingsInv is inductive: every step keeps it. *)
LEMMA SettingsNextInductive ==
  ASSUME SettingsInv, [SettingsNext]_settingVars
  PROVE  SettingsInv'
<1>1. ASSUME UNCHANGED <<stored, fallback, latest, missed, restarted, workVars>>, reachable' \in BOOLEAN
      PROVE  SettingsInv'
  <2>1. WorkTypeOK' /\ Alone' /\ Typed(SettingTask)' /\ work' = work /\ raced' = raced
    BY <1>1, NoRequest DEF SettingsInv, SettingsTypeOK
  <2>2. SettingsTypeOK'
    BY <1>1, <2>1 DEF SettingsInv, SettingsTypeOK
  <2>3. RedisIsLatest' /\ FreshIsDefault' /\ FallbackIsLatest'
    BY <1>1, <2>1 DEF SettingsInv, RedisIsLatest, FreshIsDefault, FallbackIsLatest, AllRest
  <2> QED
    BY <2>1, <2>2, <2>3 DEF SettingsInv
<1>2. ASSUME Outage PROVE SettingsInv'
  <2>1. reachable' = ~reachable /\ UNCHANGED <<stored, fallback, latest, missed, restarted, workVars>>
    BY <1>2 DEF Outage
  <2>2. reachable' \in BOOLEAN
    BY <2>1
  <2> QED
    BY <1>1, <2>1, <2>2
<1>3. ASSUME UNCHANGED settingVars PROVE SettingsInv'
  <2>1. UNCHANGED <<stored, fallback, latest, missed, restarted, workVars>> /\ reachable' = reachable
    BY <1>3 DEF settingVars, settingRows
  <2>2. reachable' \in BOOLEAN
    BY <2>1 DEF SettingsInv, SettingsTypeOK
  <2> QED
    BY <1>1, <2>1, <2>2
<1> QED
  BY <1>2, <1>3, AssignInductive, StoreInductive, RestartInductive DEF SettingsNext

(* It says what is claimed of the settings. *)
LEMMA SettingsInvIsEnough == ASSUME SettingsInv PROVE SettingsTypeOK /\ LatestIsInForce
<1>1. SUFFICES ASSUME ~raced, AllRest, IF reachable THEN ~missed ELSE ~restarted
               PROVE  InForce = latest
  BY DEF SettingsInv, LatestIsInForce, AllRest
<1>2. CASE ~reachable
  BY <1>1, <1>2 DEF SettingsInv, FallbackIsLatest, InForce
<1>3. CASE reachable
  <2>1. CASE stored = {latest}
    BY <1>3, <2>1 DEF InForce
  <2>2. CASE stored = {} /\ latest = Default
    BY <1>1, <2>2 DEF SettingsInv, FallbackIsLatest, FreshIsDefault, InForce
  <2> QED
    BY <1>1, <1>3, <2>1, <2>2 DEF SettingsInv, RedisIsLatest
<1> QED
  BY <1>2, <1>3

(* For any settings: as long as no two admins overlapped, the setting last   *)
(* answered is the one in force: with Redis, unless Redis missed it;         *)
(* without, unless the process was started since (core/emergency.py:7-27).   *)
THEOREM SettingsAreSound == SettingsSpec => [](SettingsTypeOK /\ LatestIsInForce)
<1>1. SettingsInit /\ WorkInit => SettingsInv
  BY SettingsInitInductive
<1>2. SettingsInv /\ [SettingsNext]_settingVars => SettingsInv'
  BY SettingsNextInductive
<1>3. SettingsInv => SettingsTypeOK /\ LatestIsInForce
  BY SettingsInvIsEnough
<1> QED
  BY <1>1, <1>2, <1>3, PTL DEF SettingsSpec

-----------------------------------------------------------------------------
(* Complaints. *)

(* The tasks of requests about complaints. *)
CaseTask ==
  [at : {"case"}, op : {"assign", "status", "escalate"}, case : Cases, loaded : Complaint, set : Complaint]

(* A request is about a complaint that was filed, and only an assignment      *)
(* changes who has it.                                                        *)
CasesAreFiled ==
  /\ \A c \in Cases : complaint[c] \in Complaint <=> granted[c] \in Complaint
  /\ \A w \in Workers : work[w].at = "case" =>
       /\ complaint[work[w].case] \in Complaint
       /\ work[w].op # "assign" => work[w].set.assignee = work[w].loaded.assignee
       /\ work[w].op = "escalate" => work[w].loaded.status \notin Closed

(* Without overlap it has loaded what is there.                               *)
CaseIsLoaded ==
  ~raced => \A w \in Workers : work[w].at = "case" => work[w].loaded = complaint[work[w].case]

(* The inductive invariant of the complaints. *)
CaseInv ==
  /\ CasesTypeOK /\ Typed(CaseTask) /\ Alone
  /\ ComplaintsAreHandled /\ CasesAreFiled /\ CaseIsLoaded

(* What a task about a complaint is. *)
LEMMA CaseShapes ==
  ASSUME Typed(CaseTask), NEW w \in Workers
  PROVE  work[w].at = "case" => work[w] \in CaseTask /\ work[w] # Rest
<1>1. work[w] \in CaseTask \cup {Rest}
  BY DEF Typed
<1>2. CASE work[w] = Rest
  BY <1>2 DEF Rest
<1>3. CASE work[w] \in CaseTask
  BY <1>3 DEF Rest, CaseTask
<1> QED
  BY <1>1, <1>2, <1>3

(* No complaint is filed is not a complaint. *)
LEMMA UnfiledIsNone == Unfiled \notin Complaint
BY DEF Unfiled, Complaint, ComplaintStatus

(* CaseInv holds at first. *)
LEMMA CasesInitInductive == CasesInit /\ WorkInit => CaseInv
<1> SUFFICES ASSUME CasesInit, WorkInit PROVE CaseInv
  OBVIOUS
<1>1. WorkTypeOK /\ Alone /\ Typed(CaseTask)
  BY WorkInitHolds
<1>2. \A w \in Workers : work[w].at = "rest"
  BY DEF WorkInit, Rest
<1>3. reopened \in BOOLEAN /\ ~reopened
  BY DEF CasesInit
<1>4. complaint \in [Cases -> Complaint \cup {Unfiled}] /\ granted = complaint
  BY DEF CasesInit
<1> QED
  BY <1>1, <1>2, <1>3, <1>4 DEF CaseInv, CasesTypeOK, ComplaintsAreHandled, CasesAreFiled, CaseIsLoaded

(* A request loads a complaint, or ends, and writes nothing.                  *)
LEMMA CaseQuietStep ==
  ASSUME CaseInv, UNCHANGED caseRows, NEW w \in Workers, NEW t,
         WorkTypeOK', Alone', Typed(CaseTask)', ~raced' => ~raced,
         work'[w] = t, \A v \in Workers \ {w} : work'[v] = work[v],
         t.at = "case" =>
           /\ complaint[t.case] \in Complaint /\ t.loaded = complaint[t.case]
           /\ t.op # "assign" => t.set.assignee = t.loaded.assignee
           /\ t.op = "escalate" => t.loaded.status \notin Closed
  PROVE  CaseInv'
<1>1. UNCHANGED <<complaint, granted, reopened>>
  BY DEF caseRows
<1>2. CasesTypeOK' /\ ComplaintsAreHandled'
  BY <1>1 DEF CaseInv, CasesTypeOK, ComplaintsAreHandled
<1>3. CasesAreFiled'
  BY <1>1 DEF CaseInv, CasesAreFiled
<1>4. CaseIsLoaded'
  <2> SUFFICES ASSUME ~raced', NEW v \in Workers, work'[v].at = "case"
               PROVE  work'[v].loaded = complaint[work'[v].case]
    BY <1>1 DEF CaseIsLoaded
  <2>1. ~raced
    OBVIOUS
  <2>2. CASE v = w
    BY <2>2
  <2>3. CASE v # w
    BY <2>1, <2>3 DEF CaseInv, CaseIsLoaded
  <2> QED
    BY <2>2, <2>3
<1> QED
  BY <1>2, <1>3, <1>4 DEF CaseInv

(* CaseInv is kept when a complaint is filed. *)
LEMMA FileInductive == ASSUME CaseInv, NEW c \in Cases, FileComplaint(c) PROVE CaseInv'
<1> DEFINE row == [assignee |-> Nobody, status |-> "OPEN"]
<1>1. WorkTypeOK /\ Alone /\ Typed(CaseTask) /\ CasesTypeOK
  BY DEF CaseInv, CasesTypeOK
<1>2. /\ complaint[c] = Unfiled /\ AtOnce
      /\ complaint' = [complaint EXCEPT ![c] = row] /\ granted' = [granted EXCEPT ![c] = row]
      /\ reopened' = reopened
  BY DEF FileComplaint, Filed
<1>3. row \in Complaint
  BY DEF Complaint, ComplaintStatus
<1>4. /\ WorkTypeOK' /\ Alone' /\ Typed(CaseTask)' /\ work' = work
      /\ ~raced' => ~raced /\ \A v \in Workers : work[v] = Rest
  BY <1>1, <1>2, RequestAtOnce
<1> HIDE DEF row
<1>5. /\ complaint' \in [Cases -> Complaint \cup {Unfiled}] /\ granted' \in [Cases -> Complaint \cup {Unfiled}]
      /\ complaint'[c] = row /\ granted'[c] = row
      /\ \A d \in Cases \ {c} : complaint'[d] = complaint[d] /\ granted'[d] = granted[d]
  BY <1>1, <1>2, <1>3 DEF CasesTypeOK
<1>6. CasesTypeOK'
  BY <1>1, <1>2, <1>4, <1>5 DEF CasesTypeOK
<1>7. ComplaintsAreHandled'
  BY <1>2, <1>4 DEF CaseInv, ComplaintsAreHandled
<1>8. CasesAreFiled'
  <2>1. \A w \in Workers : work[w].at = "case" => work[w].case \in Cases /\ work[w].case # c
    BY <1>1, <1>2, CaseShapes, UnfiledIsNone DEF CaseInv, CasesAreFiled, CaseTask
  <2>2. \A d \in Cases : complaint'[d] \in Complaint <=> granted'[d] \in Complaint
    BY <1>3, <1>5 DEF CaseInv, CasesAreFiled
  <2> QED
    BY <1>4, <1>5, <2>1, <2>2 DEF CaseInv, CasesAreFiled
<1>9. CaseIsLoaded'
  BY <1>4 DEF CaseIsLoaded, Rest
<1> QED
  BY <1>4, <1>6, <1>7, <1>8, <1>9 DEF CaseInv

(* CaseInv is kept when an assignment, a status or an escalation commits. *)
LEMMA CommitCaseInductive == ASSUME CaseInv, NEW w \in Workers, CommitCase(w) PROVE CaseInv'
<1> DEFINE t == work[w]
<1>1. WorkTypeOK /\ Alone /\ Typed(CaseTask) /\ CasesTypeOK
  BY DEF CaseInv, CasesTypeOK
<1>2. PICK c \in Cases, loaded \in Complaint, set \in Complaint :
        /\ t.at = "case" /\ t # Rest /\ t.case = c /\ t.loaded = loaded /\ t.set = set
        /\ complaint[c] \in Complaint /\ granted[c] \in Complaint
        /\ t.op # "assign" => set.assignee = loaded.assignee
        /\ t.op = "escalate" => loaded.status \notin Closed
        /\ ~raced => loaded = complaint[c]
  BY <1>1, CaseShapes DEF CommitCase, CaseTask, CaseInv, CasesAreFiled, CaseIsLoaded
<1> DEFINE row == [assignee |-> Flushed(set.assignee, loaded.assignee, complaint[c].assignee),
                   status   |-> Flushed(set.status, loaded.status, complaint[c].status)]
           grantedNow == [assignee |-> IF t.op = "assign" THEN set.assignee ELSE granted[c].assignee,
                    status   |-> set.status]
<1>3. /\ complaint' = [complaint EXCEPT ![c] = row] /\ granted' = [granted EXCEPT ![c] = grantedNow]
      /\ Finish(w)
  BY <1>2 DEF CommitCase
<1>4. reopened' = (reopened \/ (t.op = "escalate" /\ complaint[c].status \in Closed))
  BY <1>2 DEF CommitCase
<1>5. /\ WorkTypeOK' /\ Alone' /\ Typed(CaseTask)'
      /\ work'[w] = Rest /\ \A v \in Workers \ {w} : work'[v] = work[v]
      /\ ~raced => \A v \in Workers : work'[v] = Rest
      /\ raced' = raced
  BY <1>1, <1>2, <1>3, TaskFinishes
<1>6. row \in Complaint /\ grantedNow \in Complaint
  BY <1>2 DEF Complaint, Flushed
<1>7. ASSUME ~raced
      PROVE  row = grantedNow
  <2>1. loaded = complaint[c] /\ granted[c] = complaint[c]
    BY <1>2, <1>7 DEF CaseInv, ComplaintsAreHandled
  <2>2. row.assignee = grantedNow.assignee /\ row.status = grantedNow.status
    BY <1>2, <2>1 DEF Flushed
  <2> QED
    BY <2>2
<1> HIDE DEF row, grantedNow
<1>8. /\ complaint' \in [Cases -> Complaint \cup {Unfiled}] /\ granted' \in [Cases -> Complaint \cup {Unfiled}]
      /\ complaint'[c] = row /\ granted'[c] = grantedNow
      /\ \A d \in Cases \ {c} : complaint'[d] = complaint[d] /\ granted'[d] = granted[d]
  BY <1>1, <1>3, <1>6 DEF CasesTypeOK
<1>9. reopened' \in BOOLEAN
  BY <1>4
<1>10. CasesTypeOK'
  BY <1>1, <1>5, <1>8, <1>9 DEF CasesTypeOK
<1>11. ComplaintsAreHandled'
  <2> SUFFICES ASSUME ~raced PROVE complaint' = granted' /\ ~reopened'
    BY <1>5 DEF ComplaintsAreHandled
  <2>1. complaint = granted /\ ~reopened
    BY DEF CaseInv, ComplaintsAreHandled
  <2>2. complaint' = granted'
    BY <1>3, <1>7, <2>1
  <2>3. ~(t.op = "escalate" /\ complaint[c].status \in Closed)
    BY <1>2
  <2>4. ~reopened'
    BY <1>4, <2>1, <2>3
  <2> QED
    BY <2>2, <2>4
<1>12. CasesAreFiled'
  <2>1. \A d \in Cases : complaint'[d] \in Complaint <=> granted'[d] \in Complaint
    BY <1>6, <1>8 DEF CaseInv, CasesAreFiled
  <2>2. \A v \in Workers : work'[v].at = "case" => v # w /\ work'[v] = work[v] /\ work[v].case \in Cases
    BY <1>1, <1>5, CaseShapes DEF Rest, CaseTask
  <2> QED
    BY <1>6, <1>8, <2>1, <2>2 DEF CaseInv, CasesAreFiled
<1>13. CaseIsLoaded'
  BY <1>5 DEF CaseIsLoaded, Rest
<1> QED
  BY <1>5, <1>10, <1>11, <1>12, <1>13 DEF CaseInv

(* CaseInv is inductive: every step keeps it. *)
LEMMA CasesNextInductive == ASSUME CaseInv, [CasesNext]_caseVars PROVE CaseInv'
<1>1. WorkTypeOK /\ Alone /\ Typed(CaseTask) /\ complaint \in [Cases -> Complaint \cup {Unfiled}]
  BY DEF CaseInv, CasesTypeOK
<1>2. Rest.at = "rest"
  BY DEF Rest
<1>3. ASSUME NEW w \in Workers, NEW c \in Cases, c \in Filed, NEW op \in {"assign", "status", "escalate"},
             NEW set \in Complaint, Handle(w, op, c, set),
             op # "assign" => set.assignee = complaint[c].assignee,
             op = "escalate" => complaint[c].status \notin Closed
      PROVE  CaseInv'
  <2> DEFINE t == [at |-> "case", op |-> op, case |-> c, loaded |-> complaint[c], set |-> set]
  <2>1. complaint[c] \in Complaint
    BY <1>1, <1>3 DEF Filed
  <2>2. t \in CaseTask
    BY <2>1 DEF CaseTask
  <2>3. t.at = "case" /\ t.op = op /\ t.case = c /\ t.loaded = complaint[c] /\ t.set = set
    OBVIOUS
  <2>4. Begin(w, t) /\ UNCHANGED caseRows
    BY <1>3 DEF Handle
  <2> HIDE DEF t
  <2>5. /\ WorkTypeOK' /\ Alone' /\ Typed(CaseTask)' /\ work'[w] = t
        /\ \A v \in Workers \ {w} : work'[v] = work[v]
        /\ ~raced' => ~raced
    BY <1>1, <2>2, <2>4, TaskBegins
  <2> QED
    BY <1>3, <2>1, <2>3, <2>4, <2>5, CaseQuietStep
<1>4. ASSUME NEW w \in Workers, NEW c \in Cases, NEW v \in Assignees, BeginAssign(w, c, v)
      PROVE  CaseInv'
  <2>1. [assignee |-> v, status |-> "ASSIGNED"] \in Complaint
    BY DEF Complaint, ComplaintStatus
  <2> QED
    BY <1>3, <1>4, <2>1 DEF BeginAssign
<1>5. ASSUME NEW c \in Cases, c \in Filed, NEW s \in ComplaintStatus
      PROVE  [complaint[c] EXCEPT !.status = s] \in Complaint
             /\ [complaint[c] EXCEPT !.status = s].assignee = complaint[c].assignee
  <2>1. complaint[c] \in Complaint
    BY <1>1, <1>5 DEF Filed
  <2> QED
    BY <2>1 DEF Complaint
<1>6. ASSUME NEW w \in Workers, NEW c \in Cases, NEW s \in ComplaintStatus, BeginStatus(w, c, s)
      PROVE  CaseInv'
  BY <1>3, <1>5, <1>6 DEF BeginStatus
<1>7. ASSUME NEW w \in Workers, NEW c \in Cases, BeginEscalate(w, c)
      PROVE  CaseInv'
  <2>1. "ESCALATED" \in ComplaintStatus
    BY DEF ComplaintStatus
  <2> QED
    BY <1>3, <1>5, <1>7, <2>1 DEF BeginEscalate
<1>8. ASSUME NEW w \in Workers, Die(w), UNCHANGED caseRows
      PROVE  CaseInv'
  <2>1. /\ WorkTypeOK' /\ Alone' /\ Typed(CaseTask)' /\ work'[w] = Rest
        /\ \A v \in Workers \ {w} : work'[v] = work[v]
        /\ raced' = raced
    BY <1>1, <1>8, TaskDies
  <2>2. ~raced' => ~raced
    BY <2>1
  <2> QED
    BY <1>2, <1>8, <2>1, <2>2, CaseQuietStep
<1>9. ASSUME UNCHANGED caseVars
      PROVE  CaseInv'
  <2>1. UNCHANGED <<complaint, granted, reopened, work, begun, raced, died>>
    BY <1>9 DEF caseVars, caseRows, workVars
  <2> QED
    BY <2>1 DEF CaseInv, CasesTypeOK, WorkTypeOK, Typed, Alone, ComplaintsAreHandled, CasesAreFiled, CaseIsLoaded
<1> QED
  BY <1>4, <1>6, <1>7, <1>8, <1>9, FileInductive, CommitCaseInductive DEF CasesNext, CaseStep

(* For any complaints, vendors and requests: as long as no two overlapped a  *)
(* complaint is with the vendor and in the status that was last answered,    *)
(* and no closed one was escalated (complaints/router.py:144-198).           *)
THEOREM ComplaintsAreSound == CasesSpec => [](CasesTypeOK /\ ComplaintsAreHandled)
<1>1. CasesInit /\ WorkInit => CaseInv
  BY CasesInitInductive
<1>2. CaseInv /\ [CasesNext]_caseVars => CaseInv'
  BY CasesNextInductive
<1>3. CaseInv => CasesTypeOK /\ ComplaintsAreHandled
  BY DEF CaseInv
<1> QED
  BY <1>1, <1>2, <1>3, PTL DEF CasesSpec

-----------------------------------------------------------------------------
(* Past orders: feedback and reorder. *)

(* The tasks of requests about past orders. *)
PastTask ==
  [at : {"review"}, order : Past]
    \cup [at : {"reorder"}, order : Past, slot : Slotted, choice : SUBSET Slotted]

(* What a request has checked, and what of it still holds without overlap.    *)
ChecksHold ==
  \A w \in Workers :
    /\ work[w].at = "review" =>
         work[w].order \in completed /\ (~raced => reviews[work[w].order] = 0)
    /\ work[w].at = "reorder" =>
         /\ work[w].order \in completed
         /\ work[w].slot \in work[w].choice /\ \A s \in work[w].choice : work[w].slot <= s
         /\ ~raced => taken[work[w].slot] < Places

(* The inductive invariant of reorders and feedback. *)
PastInv ==
  /\ PastTypeOK /\ Typed(PastTask) /\ Alone
  /\ ReviewsAreSingle /\ ReordersFit /\ ChecksHold

(* What a task about a past order is. *)
LEMMA PastShapes ==
  ASSUME Typed(PastTask), NEW w \in Workers
  PROVE  /\ work[w].at = "review" => work[w].order \in Past /\ work[w] # Rest
         /\ work[w].at = "reorder" =>
              /\ work[w].order \in Past /\ work[w].slot \in Slotted /\ work[w].choice \in SUBSET Slotted
              /\ work[w] # Rest
<1>1. work[w] \in PastTask \cup {Rest}
  BY DEF Typed
<1>2. CASE work[w] = Rest
  BY <1>2 DEF Rest
<1>3. CASE work[w] \in [at : {"review"}, order : Past]
  BY <1>3 DEF Rest
<1>4. CASE work[w] \in [at : {"reorder"}, order : Past, slot : Slotted, choice : SUBSET Slotted]
  BY <1>4 DEF Rest
<1> QED
  BY <1>1, <1>2, <1>3, <1>4 DEF PastTask

(* PastInv holds at first. *)
LEMMA PastInitInductive == PastInit /\ WorkInit => PastInv
<1> SUFFICES ASSUME PastInit, WorkInit PROVE PastInv
  OBVIOUS
<1>1. WorkTypeOK /\ Alone /\ Typed(PastTask)
  BY WorkInitHolds
<1>2. \A w \in Workers : work[w].at = "rest"
  BY DEF WorkInit, Rest
<1>3. onMenu \in BOOLEAN
  BY DEF PastInit
<1>4. PastTypeOK
  BY <1>1, <1>3, PastAssumption DEF PastInit, PastTypeOK
<1>5. ReviewsAreSingle /\ ReordersFit /\ ChecksHold
  BY <1>2 DEF PastInit, ReviewsAreSingle, ReordersFit, ChecksHold
<1> QED
  BY <1>1, <1>4, <1>5 DEF PastInv

(* A request begins, or ends, and writes nothing.                             *)
LEMMA PastQuietStep ==
  ASSUME PastInv, UNCHANGED pastRows, NEW w \in Workers, NEW t,
         WorkTypeOK', Alone', Typed(PastTask)', ~raced' => ~raced,
         work'[w] = t, \A v \in Workers \ {w} : work'[v] = work[v],
         t.at = "review" => t.order \in completed /\ reviews[t.order] = 0,
         t.at = "reorder" =>
           /\ t.order \in completed
           /\ t.slot \in t.choice /\ \A s \in t.choice : t.slot <= s
           /\ taken[t.slot] < Places
  PROVE  PastInv'
<1>1. UNCHANGED <<completed, young, reviews, taken, clock, onMenu, again>>
  BY DEF pastRows
<1>2. PastTypeOK'
  BY <1>1 DEF PastInv, PastTypeOK
<1>3. ReviewsAreSingle' /\ ReordersFit'
  BY <1>1 DEF PastInv, ReviewsAreSingle, ReordersFit
<1>4. ChecksHold'
  <2> SUFFICES ASSUME NEW v \in Workers
               PROVE  /\ work'[v].at = "review" =>
                           work'[v].order \in completed /\ (~raced' => reviews[work'[v].order] = 0)
                      /\ work'[v].at = "reorder" =>
                           /\ work'[v].order \in completed
                           /\ work'[v].slot \in work'[v].choice
                           /\ \A s \in work'[v].choice : work'[v].slot <= s
                           /\ ~raced' => taken[work'[v].slot] < Places
    BY <1>1 DEF ChecksHold
  <2>1. CASE v = w
    BY <2>1
  <2>2. CASE v # w
    <3>1. work'[v] = work[v]
      BY <2>2
    <3>2. ~raced' => ~raced
      OBVIOUS
    <3> QED
      BY <3>1, <3>2 DEF PastInv, ChecksHold
  <2> QED
    BY <2>1, <2>2
<1> QED
  BY <1>2, <1>3, <1>4 DEF PastInv

(* PastInv is kept when a review commits. *)
LEMMA CommitReviewInductive == ASSUME PastInv, NEW w \in Workers, CommitReview(w) PROVE PastInv'
<1>1. WorkTypeOK /\ Alone /\ Typed(PastTask) /\ PastTypeOK
  BY DEF PastInv, PastTypeOK
<1>2. PICK o \in Past :
        /\ work[w].at = "review" /\ work[w] # Rest /\ work[w].order = o /\ o \in completed
        /\ ~raced => reviews[o] = 0
  BY <1>1, PastShapes DEF CommitReview, PastInv, ChecksHold
<1>3. /\ reviews' = [reviews EXCEPT ![o] = @ + 1] /\ Finish(w)
      /\ UNCHANGED <<completed, young, taken, clock, onMenu, again>>
  BY <1>2 DEF CommitReview
<1>4. /\ WorkTypeOK' /\ Alone' /\ Typed(PastTask)'
      /\ work'[w] = Rest /\ \A v \in Workers \ {w} : work'[v] = work[v]
      /\ ~raced => \A v \in Workers : work'[v] = Rest
      /\ raced' = raced
  BY <1>1, <1>2, <1>3, TaskFinishes
<1>5. /\ reviews' \in [Past -> Nat] /\ reviews'[o] = reviews[o] + 1 /\ reviews[o] \in Nat
      /\ \A p \in Past \ {o} : reviews'[p] = reviews[p]
  BY <1>1, <1>2, <1>3 DEF PastTypeOK
<1>6. PastTypeOK'
  BY <1>1, <1>3, <1>4, <1>5 DEF PastTypeOK
<1>7. ReviewsAreSingle'
  <2> SUFFICES ASSUME NEW p \in Past
               PROVE  /\ reviews'[p] > 0 => p \in completed
                      /\ ~raced => reviews'[p] <= 1
    BY <1>3, <1>4 DEF ReviewsAreSingle
  <2>1. CASE p = o
    BY <1>2, <1>5, <2>1
  <2>2. CASE p # o
    BY <1>5, <2>2 DEF PastInv, ReviewsAreSingle
  <2> QED
    BY <2>1, <2>2
<1>8. ReordersFit'
  BY <1>3, <1>4 DEF PastInv, ReordersFit
<1>9. ChecksHold'
  <2> SUFFICES ASSUME NEW v \in Workers, work'[v].at \in {"review", "reorder"}
               PROVE  /\ raced' /\ work'[v].order \in completed
                      /\ work'[v].at = "reorder" =>
                           work'[v].slot \in work'[v].choice /\ \A s \in work'[v].choice : work'[v].slot <= s
    BY <1>3 DEF ChecksHold
  <2>1. v # w /\ work'[v] = work[v] /\ work[v] # Rest
    BY <1>4 DEF Rest
  <2>2. raced'
    BY <1>4, <2>1
  <2> QED
    BY <2>1, <2>2 DEF PastInv, ChecksHold
<1> QED
  BY <1>4, <1>6, <1>7, <1>8, <1>9 DEF PastInv

(* PastInv is kept when a reorder commits. *)
LEMMA CommitReorderInductive == ASSUME PastInv, NEW w \in Workers, CommitReorder(w) PROVE PastInv'
<1> DEFINE t == work[w]
           new == [order |-> t.order, slot |-> t.slot, choice |-> t.choice,
                   left |-> Places - taken[t.slot], promised |-> Eta(0)]
<1>1. WorkTypeOK /\ Alone /\ Typed(PastTask) /\ PastTypeOK
  BY DEF PastInv, PastTypeOK
<1>2. /\ t.at = "reorder" /\ t # Rest /\ t.order \in completed
      /\ t.slot \in Slotted /\ t.choice \in SUBSET Slotted
      /\ t.slot \in t.choice /\ \A s \in t.choice : t.slot <= s
      /\ ~raced => taken[t.slot] < Places
  BY <1>1, PastShapes DEF CommitReorder, PastInv, ChecksHold
<1>3. /\ again' \in {again, again \cup {new}} /\ Finish(w)
      /\ UNCHANGED <<completed, young, reviews, taken, clock, onMenu>>
  BY DEF CommitReorder
<1>4. /\ WorkTypeOK' /\ Alone' /\ Typed(PastTask)'
      /\ work'[w] = Rest /\ \A v \in Workers \ {w} : work'[v] = work[v]
      /\ ~raced => \A v \in Workers : work'[v] = Rest
      /\ raced' = raced
  BY <1>1, <1>2, <1>3, TaskFinishes
<1>5. /\ Places - taken[t.slot] \in Nat /\ Eta(0) \in Nat
      /\ ~raced => Places - taken[t.slot] > 0
  <2>1. taken[t.slot] \in 0 .. Places /\ Places \in Nat
    BY <1>1, <1>2, PastAssumption DEF PastTypeOK
  <2> QED
    BY <1>2, <2>1 DEF Eta
<1>6. /\ new \in [order : completed, slot : Slotted, choice : SUBSET Slotted, left : Nat, promised : Nat]
      /\ new.slot = t.slot /\ new.choice = t.choice /\ new.left = Places - taken[t.slot]
  BY <1>2, <1>5
<1> HIDE DEF new
<1>7. PastTypeOK'
  BY <1>1, <1>3, <1>4, <1>6 DEF PastTypeOK
<1>8. ReviewsAreSingle'
  BY <1>3, <1>4 DEF PastInv, ReviewsAreSingle
<1>9. ReordersFit'
  <2> SUFFICES ASSUME NEW r \in again \cup {new}
               PROVE  r.slot \in r.choice /\ (\A s \in r.choice : r.slot <= s) /\ (~raced => r.left > 0)
    BY <1>3, <1>4 DEF ReordersFit
  <2>1. CASE r = new
    BY <1>2, <1>5, <1>6, <2>1
  <2>2. CASE r \in again
    BY <2>2 DEF PastInv, ReordersFit
  <2> QED
    BY <2>1, <2>2
<1>10. ChecksHold'
  <2> SUFFICES ASSUME NEW v \in Workers, work'[v].at \in {"review", "reorder"}
               PROVE  /\ raced' /\ work'[v].order \in completed
                      /\ work'[v].at = "reorder" =>
                           work'[v].slot \in work'[v].choice /\ \A s \in work'[v].choice : work'[v].slot <= s
    BY <1>3 DEF ChecksHold
  <2>1. v # w /\ work'[v] = work[v] /\ work[v] # Rest
    BY <1>4 DEF Rest
  <2>2. raced'
    BY <1>4, <2>1
  <2> QED
    BY <2>1, <2>2 DEF PastInv, ChecksHold
<1> QED
  BY <1>4, <1>7, <1>8, <1>9, <1>10 DEF PastInv

(* What others do to the slots and the menu.                                  *)
LEMMA PastChangeInductive ==
  ASSUME PastInv, UNCHANGED <<completed, reviews, again, work>>, young' \subseteq young,
         WorkTypeOK', Alone', Typed(PastTask)', ~raced' => ~raced,
         taken' \in [Slotted -> 0 .. Places], clock' \in 0 .. Openings, onMenu' \in BOOLEAN,
         taken' = taken \/ (~raced' => \A w \in Workers : work[w] = Rest)
  PROVE  PastInv'
<1>1. PastTypeOK'
  BY DEF PastInv, PastTypeOK
<1>2. ReviewsAreSingle' /\ ReordersFit'
  <2>1. ~raced' => ~raced
    OBVIOUS
  <2> QED
    BY <2>1 DEF PastInv, ReviewsAreSingle, ReordersFit
<1>3. ChecksHold'
  <2> SUFFICES ASSUME NEW v \in Workers
               PROVE  /\ work[v].at = "review" =>
                           work[v].order \in completed /\ (~raced' => reviews[work[v].order] = 0)
                      /\ work[v].at = "reorder" =>
                           /\ work[v].order \in completed
                           /\ work[v].slot \in work[v].choice
                           /\ \A s \in work[v].choice : work[v].slot <= s
                           /\ ~raced' => taken'[work[v].slot] < Places
    BY DEF ChecksHold
  <2>1. ~raced' => ~raced
    OBVIOUS
  <2>2. work[v].at = "reorder" => work[v] # Rest
    BY DEF Rest
  <2> QED
    BY <2>1, <2>2 DEF PastInv, ChecksHold
<1> QED
  BY <1>1, <1>2, <1>3 DEF PastInv

(* PastInv is inductive: every step keeps it. *)
LEMMA PastNextInductive == ASSUME PastInv, [PastNext]_pastVars PROVE PastInv'
<1>1. /\ WorkTypeOK /\ Alone /\ Typed(PastTask) /\ completed \subseteq Past
      /\ taken \in [Slotted -> 0 .. Places] /\ clock \in 0 .. Openings /\ onMenu \in BOOLEAN
  BY DEF PastInv, PastTypeOK
<1>2. Rest.at = "rest" /\ Places \in Nat /\ Openings \in Nat
  BY PastAssumption DEF Rest
<1>3. ASSUME NEW w \in Workers, NEW o \in Past, BeginReview(w, o)
      PROVE  PastInv'
  <2> DEFINE t == [at |-> "review", order |-> o]
  <2>1. t \in PastTask /\ t.at = "review" /\ t.order = o
    BY DEF PastTask
  <2>2. Begin(w, t) /\ UNCHANGED pastRows /\ o \in completed /\ reviews[o] = 0
    BY <1>3 DEF BeginReview
  <2> HIDE DEF t
  <2>3. /\ WorkTypeOK' /\ Alone' /\ Typed(PastTask)' /\ work'[w] = t
        /\ \A v \in Workers \ {w} : work'[v] = work[v]
        /\ ~raced' => ~raced
    BY <1>1, <2>1, <2>2, TaskBegins
  <2> QED
    BY <2>1, <2>2, <2>3, PastQuietStep
<1>4. ASSUME NEW w \in Workers, NEW o \in Past, BeginReorder(w, o)
      PROVE  PastInv'
  <2>0. young \subseteq completed
    BY DEF PastInv, PastTypeOK
  <2> DEFINE t == [at |-> "reorder", order |-> o, slot |-> Min(Available), choice |-> Available]
  <2>1. Min(Available) \in Available /\ \A s \in Available : Min(Available) <= s
    <3>1. Available \subseteq Slotted /\ Available # {}
      BY <1>4 DEF Available, BeginReorder
    <3>2. IsFiniteSet(Slotted) /\ Slotted \subseteq Int
      BY <1>2, FS_Interval DEF Slotted
    <3>3. IsFiniteSet(Available)
      BY <3>1, <3>2, FS_Subset
    <3> QED
      BY <3>1, <3>2, <3>3, MinIsLeast
  <2>2. /\ Available \in SUBSET Slotted /\ Min(Available) \in Slotted
        /\ taken[Min(Available)] < Places
    BY <2>1 DEF Available
  <2>3. /\ t \in PastTask /\ t.at = "reorder" /\ t.order = o /\ t.slot = Min(Available) /\ t.choice = Available
    BY <2>2 DEF PastTask
  <2>4. Begin(w, t) /\ UNCHANGED pastRows /\ o \in completed
    BY <1>4, <2>0 DEF BeginReorder
  <2> HIDE DEF t
  <2>5. /\ WorkTypeOK' /\ Alone' /\ Typed(PastTask)' /\ work'[w] = t
        /\ \A v \in Workers \ {w} : work'[v] = work[v]
        /\ ~raced' => ~raced
    BY <1>1, <2>3, <2>4, TaskBegins
  <2> QED
    BY <2>1, <2>2, <2>3, <2>4, <2>5, PastQuietStep
<1>5. ASSUME NEW w \in Workers, Die(w), UNCHANGED pastRows
      PROVE  PastInv'
  <2>1. /\ WorkTypeOK' /\ Alone' /\ Typed(PastTask)' /\ work'[w] = Rest
        /\ \A v \in Workers \ {w} : work'[v] = work[v]
        /\ raced' = raced
    BY <1>1, <1>5, TaskDies
  <2>2. ~raced' => ~raced
    BY <2>1
  <2> QED
    BY <1>2, <1>5, <2>1, <2>2, PastQuietStep
<1>6. ASSUME NEW s \in Slotted, TakeOpening(s)
      PROVE  PastInv'
  <2>1. /\ taken[s] < Places /\ AtOnce /\ taken' = [taken EXCEPT ![s] = @ + 1]
        /\ UNCHANGED <<completed, young, reviews, clock, onMenu, again>>
    BY <1>6 DEF TakeOpening
  <2>2. /\ WorkTypeOK' /\ Alone' /\ Typed(PastTask)' /\ work' = work
        /\ ~raced' => ~raced /\ \A v \in Workers : work[v] = Rest
    BY <1>1, <2>1, RequestAtOnce
  <2>3. taken' \in [Slotted -> 0 .. Places]
    BY <1>1, <1>2, <2>1
  <2>4. ~raced' => ~raced
    BY <2>2
  <2>5. clock' \in 0 .. Openings /\ onMenu' \in BOOLEAN
    BY <1>1, <2>1
  <2> QED
    BY <2>1, <2>2, <2>3, <2>4, <2>5, PastChangeInductive
<1>7. ASSUME ChangeMenu
      PROVE  PastInv'
  <2>1. /\ AtOnce /\ UNCHANGED <<completed, young, reviews, taken, clock, again>>
    BY <1>7 DEF ChangeMenu
  <2>2. onMenu' = ~onMenu
    BY <1>7 DEF ChangeMenu
  <2>3. /\ WorkTypeOK' /\ Alone' /\ Typed(PastTask)' /\ work' = work
        /\ ~raced' => ~raced
    BY <1>1, <2>1, RequestAtOnce
  <2>4. onMenu' \in BOOLEAN
    BY <2>2
  <2>5. taken' \in [Slotted -> 0 .. Places] /\ clock' \in 0 .. Openings
    BY <1>1, <2>1
  <2> QED
    BY <2>1, <2>3, <2>4, <2>5, PastChangeInductive
<1>8. ASSUME UNCHANGED <<completed, reviews, taken, onMenu, again, workVars>>, clock' \in 0 .. Openings,
             young' \subseteq young
      PROVE  PastInv'
  <2>1. /\ WorkTypeOK' /\ Alone' /\ Typed(PastTask)' /\ work' = work /\ raced' = raced
    BY <1>1, <1>8, NoRequest
  <2>2. ~raced' => ~raced
    BY <2>1
  <2>3. taken' \in [Slotted -> 0 .. Places] /\ onMenu' \in BOOLEAN
    BY <1>1, <1>8
  <2> QED
    BY <1>8, <2>1, <2>2, <2>3, PastChangeInductive
<1>9. ASSUME StartSlot
      PROVE  PastInv'
  <2>1. clock' \in 0 .. Openings
    BY <1>1, <1>2, <1>9 DEF StartSlot
  <2> QED
    BY <1>8, <1>9, <2>1 DEF StartSlot
<1>10. ASSUME UNCHANGED pastVars
       PROVE  PastInv'
  BY <1>1, <1>8, <1>10 DEF pastVars, pastRows
<1>11. ASSUME NEW o \in young, GrowOld(o)
       PROVE  PastInv'
  BY <1>1, <1>8, <1>11 DEF GrowOld
<1> QED
  BY <1>3, <1>4, <1>5, <1>6, <1>7, <1>9, <1>10, <1>11, CommitReviewInductive, CommitReorderInductive
     DEF PastNext, PastStep

(* For any past orders, slots and requests: only completed orders are        *)
(* reviewed, a reorder goes to the earliest slot that had room when it       *)
(* looked, and as long as no two requests overlapped an order is reviewed    *)
(* once and that slot still has room when the reorder commits                *)
(* (feedback/router.py:40-54, orders/reorder_service.py:79-112).             *)
THEOREM PastOrdersAreSound == PastSpec => [](PastTypeOK /\ PastOrdersAreHandled)
<1>1. PastInit /\ WorkInit => PastInv
  BY PastInitInductive
<1>2. PastInv /\ [PastNext]_pastVars => PastInv'
  BY PastNextInductive
<1>3. PastInv => PastTypeOK /\ PastOrdersAreHandled
  BY DEF PastInv, PastOrdersAreHandled
<1> QED
  BY <1>1, <1>2, <1>3, PTL DEF PastSpec

-----------------------------------------------------------------------------
(* The order rows the analytics read. *)

(* A day begins with the least of its hours. *)
LEMMA DayHoursHold == Min(DayHours) \in DayHours /\ DayHours \subseteq Nat
<1>1. DayHours \subseteq 0 .. 23 /\ DayHours # {}
  BY SalesAssumption
<1>2. IsFiniteSet(DayHours)
  <2>1. \A n \in Int : IsFiniteSet(0 .. n)
    BY FS_Interval
  <2>2. PICK n \in Int : n = 23
    OBVIOUS
  <2>3. IsFiniteSet(0 .. n) /\ DayHours \in SUBSET (0 .. n)
    BY <1>1, <2>1, <2>2
  <2> QED
    BY <2>3, FS_Subset
<1>3. DayHours \subseteq Int /\ DayHours \subseteq Nat
  BY <1>1
<1> QED
  BY <1>1, <1>2, <1>3, MinIsLeast

(* A quotient of naturals is one. *)
LEMMA MinutesRoundDown == \A n \in Nat : \A d \in Nat \ {0} : n \div d \in Nat
OBVIOUS

(* A checkout appends a row and takes a place there is. *)
LEMMA PlaceSaleTyped ==
  ASSUME SalesTypeOK, NEW u \in Customers, NEW s \in Offers, PlaceSale(u, s)
  PROVE  sales' \in Seq(Sale) /\ filled' \in [Offers -> Nat] /\ \A x \in Offers : filled'[x] <= Capacity[x]
<1>1. filled \in [Offers -> Nat] /\ Capacity \in [Offers -> Nat] /\ filled[s] < Capacity[s]
  BY SalesAssumption DEF SalesTypeOK, PlaceSale
<1>2. /\ filled' = [filled EXCEPT ![s] = @ + 1] /\ filled' \in [Offers -> Nat]
      /\ filled'[s] = filled[s] + 1 /\ \A x \in Offers \ {s} : filled'[x] = filled[x]
  BY <1>1 DEF PlaceSale
<1>3. \A x \in Offers : filled'[x] <= Capacity[x]
  BY <1>1, <1>2 DEF SalesTypeOK
<1>4. Capacity[s] \in Nat \ {0} /\ 10 * filled'[s] \in Nat
  BY <1>1, <1>2
<1>5. (10 * filled'[s]) \div Capacity[s] \in Nat
  BY <1>4, MinutesRoundDown
<1>6. CheckoutEta(s, filled'[s]) \in Nat
  BY <1>5 DEF CheckoutEta
<1>7. PICK eta \in Nat : eta = CheckoutEta(s, filled'[s])
  BY <1>6
<1>8. PICK row : row = [user |-> u, slot |-> s, status |-> "PLACED", day |-> today,
                        hour |-> hour, eta |-> eta, actual |-> NoMinutes]
  OBVIOUS
<1>9. row \in Sale
  BY <1>8 DEF Sale, SalesTypeOK, OrderStatus
<1>10. sales' = Append(sales, row)
  BY <1>7, <1>8 DEF PlaceSale
<1>11. sales' \in Seq(Sale)
  BY <1>9, <1>10 DEF SalesTypeOK
<1> QED
  BY <1>2, <1>3, <1>11

(* A status changes one row in place. *)
LEMMA MoveOnTyped ==
  ASSUME SalesTypeOK, NEW i \in DOMAIN sales, NEW status \in OrderStatus, MoveOn(i, status)
  PROVE  sales' \in Seq(Sale) /\ DOMAIN sales' = DOMAIN sales
<1>1. sales \in Seq(Sale) /\ sales' = [sales EXCEPT ![i].status = status]
  BY DEF SalesTypeOK, MoveOn
<1>2. sales[i] \in Sale
  BY <1>1
<1>3. [sales[i] EXCEPT !.status = status] \in Sale
  BY <1>2 DEF Sale
<1>4. PICK row \in Sale : row = [sales[i] EXCEPT !.status = status]
  BY <1>3
<1>5. sales' = [sales EXCEPT ![i] = row]
  BY <1>1, <1>4
<1> QED
  BY <1>1, <1>4, <1>5

(* The rows have their types at first. *)
LEMMA SalesInitTyped == SalesInit /\ WorkInit => SalesTypeOK
<1> SUFFICES ASSUME SalesInit, WorkInit PROVE SalesTypeOK
  OBVIOUS
<1>1. raced \in BOOLEAN
  BY DEF WorkInit
<1>2. WorkTypeOK
  BY <1>1, WorkerBounds DEF WorkInit, WorkTypeOK
<1>3. sales \in Seq(Sale)
  BY SalesAssumption DEF SalesInit
<1> QED
  BY <1>2, <1>3, DayHoursHold, SalesAssumption DEF SalesInit, SalesTypeOK

(* A step of the book leaves the requests their types. *)
LEMMA WorkStaysTyped ==
  ASSUME WorkTypeOK, AtOnce \/ UNCHANGED workVars PROVE WorkTypeOK'
<1>1. CASE AtOnce
  <2>1. begun < MaxRequests /\ begun' = begun + 1 /\ died' = died
    BY <1>1 DEF AtOnce, Arrive
  <2>2. raced' \in BOOLEAN
    BY <1>1 DEF AtOnce, Arrive
  <2> QED
    BY <2>1, <2>2, WorkerBounds DEF WorkTypeOK
<1>2. CASE UNCHANGED workVars
  BY <1>2 DEF workVars, WorkTypeOK
<1> QED
  BY <1>1, <1>2

(* Every step keeps the types of the rows. *)
LEMMA SalesNextTyped == ASSUME SalesTypeOK, [SalesNext]_salesVars PROVE SalesTypeOK'
<1>1. WorkTypeOK'
  BY WorkStaysTyped DEF SalesNext, PlaceSale, MoveOn, MarkFraud, LaterToday, Pause, salesVars, SalesTypeOK
<1>2. ASSUME NEW u \in Customers, NEW s \in Offers, PlaceSale(u, s) PROVE SalesTypeOK'
  <2>1. \A i \in DOMAIN sales : i \in DOMAIN sales'
    BY <1>2 DEF PlaceSale, SalesTypeOK
  <2> QED
    BY <1>1, <1>2, <2>1, PlaceSaleTyped DEF PlaceSale, SalesTypeOK, Rows
<1>3. ASSUME NEW i \in DOMAIN sales, NEW status \in OrderStatus, MoveOn(i, status) PROVE SalesTypeOK'
  BY <1>1, <1>3, MoveOnTyped DEF MoveOn, SalesTypeOK, Rows
<1>4. ASSUME NEW i \in DOMAIN sales, MarkFraud(i) PROVE SalesTypeOK'
  BY <1>1, <1>4 DEF MarkFraud, SalesTypeOK, Rows
<1>5. ASSUME NEW h \in DayHours, LaterToday(h) PROVE SalesTypeOK'
  BY <1>1, <1>5 DEF LaterToday, SalesTypeOK, Rows
<1>6. ASSUME NEW days \in Pauses, Pause(days) PROVE SalesTypeOK'
  BY <1>1, <1>6, DayHoursHold, SalesAssumption DEF Pause, SalesTypeOK, Rows
<1>7. CASE UNCHANGED salesVars
  BY <1>1, <1>7 DEF salesVars, salesRows, SalesTypeOK, Rows
<1> QED
  BY <1>2, <1>3, <1>4, <1>5, <1>6, <1>7 DEF SalesNext

(* The order rows the analytics read have their types, the slots are never   *)
(* booked beyond max_orders, and the clock and the days never go wrong       *)
(* (orders/checkout_service.py, slots/service.py:31-39).                     *)
THEOREM SalesAreTyped == SalesSpec => []SalesTypeOK
BY SalesInitTyped, SalesNextTyped, PTL DEF SalesSpec

-----------------------------------------------------------------------------
(* What students are told of the slots. *)

(* What the types of the rows say of slots and of orders. *)
LEMMA SlotFacts ==
  ASSUME SalesTypeOK
  PROVE  /\ IsFiniteSet(Rows)
         /\ \A i \in Rows : sales[i] \in Sale
         /\ \A s \in Offers : /\ filled[s] \in Nat /\ Capacity[s] \in Nat /\ filled[s] <= Capacity[s]
                              /\ SlotHour[s] \in 0 .. 23 /\ SlotVendor[s] \in Nat
<1>1. sales \in Seq(Sale)
  BY DEF SalesTypeOK
<1>2. Rows = 1 .. Len(sales) /\ Len(sales) \in Nat
  BY <1>1 DEF Rows
<1>3. IsFiniteSet(Rows)
  BY <1>2, FS_Interval
<1>4. \A i \in Rows : sales[i] \in Sale
  BY <1>1 DEF Rows
<1>5. \A s \in Offers : SlotVendor[s] \in Nat
  BY SalesAssumption DEF Offers
<1> QED
  BY <1>3, <1>4, <1>5, SalesAssumption DEF SalesTypeOK

(* The thresholds that five files write apart tell one story of a slot. *)
LEMMA ThresholdsFit == ASSUME SalesTypeOK PROVE ThresholdsAgree
<1> SUFFICES ASSUME NEW s \in Offers
             PROVE  LET label == SlotLabel(s)
                    IN /\ label = "LOW" <=> QueueFactor(s) = 10
                       /\ label = "HIGH" <=> QueueFactor(s) = 15
                       /\ label = "LOW" <=> Congestion(s) = "LOW"
                       /\ Congestion(s) = "CRITICAL" <=> s \in Overloaded
                       /\ s \in Overloaded => label = "HIGH" /\ s \in NearlyFull
                       /\ DelayRisk(s) = "HIGH" => s \in Overloaded
                       /\ ExpressEligible(filled[s], Capacity[s]) => DelayRisk(s) # "HIGH" /\ s \notin Overloaded
                       /\ Underutilised(s) => label = "LOW"
  BY DEF ThresholdsAgree
<1>1. filled[s] \in Nat /\ Capacity[s] \in Nat /\ filled[s] <= Capacity[s]
  BY SlotFacts
<1>2. PICK f \in Nat : f = filled[s]
  BY <1>1
<1>3. PICK c \in Nat : c = Capacity[s]
  BY <1>1
<1>4. SlotLabel(s) = IF c = 0 \/ 2 * f < c THEN "LOW" ELSE IF 10 * f < 8 * c THEN "MEDIUM" ELSE "HIGH"
  BY <1>2, <1>3 DEF SlotLabel, LoadLabel
<1>5. QueueFactor(s) = IF c = 0 \/ 2 * f < c THEN 10 ELSE IF 10 * f < 8 * c THEN 12 ELSE 15
  BY <1>2, <1>3 DEF QueueFactor
<1>6. Congestion(s) = IF c = 0 \/ 2 * f < c THEN "LOW" ELSE IF 10 * f >= 9 * c THEN "CRITICAL"
                      ELSE IF 4 * f >= 3 * c THEN "HIGH" ELSE "MEDIUM"
  BY <1>2, <1>3 DEF Congestion
<1>7. (s \in Overloaded <=> 10 * f >= 9 * c /\ c > 0) /\ Overloaded = NearlyFull
  BY <1>2, <1>3 DEF Overloaded, NearlyFull
<1>8. DelayRisk(s) = "HIGH" => c # 0 /\ 10 * f > 9 * c
  BY <1>2, <1>3 DEF DelayRisk
<1>9. ExpressEligible(filled[s], Capacity[s]) => SlotLabel(s) # "HIGH"
  BY DEF ExpressEligible, SlotLabel
<1>10. Underutilised(s) => 100 * f < 30 * (IF c >= 1 THEN c ELSE 1)
  <2>1. Max({c, 1}) = IF c >= 1 THEN c ELSE 1
    BY MaxOfTwo
  <2> QED
    BY <1>2, <1>3, <2>1 DEF Underutilised
<1>11. (s \in Overloaded => SlotLabel(s) = "HIGH") /\ (DelayRisk(s) = "HIGH" => s \in Overloaded)
  BY <1>4, <1>7, <1>8
<1> QED
  BY <1>4, <1>5, <1>6, <1>7, <1>9, <1>10, <1>11

(* The promised minutes of the rows of I. *)
Promised(I) == MapThenSumSet(LAMBDA i : sales[i].eta, I)

(* The promised minutes are a natural. *)
LEMMA PromisedIsSum ==
  ASSUME SalesTypeOK, NEW I \in SUBSET Rows
  PROVE  Promised(I) \in Nat
<1> DEFINE f == [i \in I |-> sales[i].eta]
<1>1. IsFiniteSet(I) /\ f \in [I -> Nat] /\ \A i \in I : sales[i].eta = f[i]
  BY SlotFacts, FS_Subset DEF Sale
<1> DEFINE Step(g) == g = [s \in SUBSET I |-> IF s = {} THEN 0 ELSE sales[Pick(s)].eta + g[s \ {Pick(s)}]]
           h == CHOOSE g : Step(g)
           k == CHOOSE g : Sums(g, f, I)
<1>2. Promised(I) = h[I]
  BY DEF Promised, MapThenSumSet, MapThenFoldSet, Pick
<1> HIDE DEF f
<1>3. \A g : Step(g) <=> Sums(g, f, I)
  <2> TAKE g
  <2>1. \A s \in SUBSET I : s # {} => sales[Pick(s)].eta = f[Pick(s)]
    BY <1>1, PickIn
  <2>2. [s \in SUBSET I |-> IF s = {} THEN 0 ELSE sales[Pick(s)].eta + g[s \ {Pick(s)}]]
         = [s \in SUBSET I |-> IF s = {} THEN 0 ELSE f[Pick(s)] + g[s \ {Pick(s)}]]
    BY <2>1
  <2> QED
    BY <2>2 DEF Sums
<1>4. \E g : Sums(g, f, I)
  BY <1>1, SumsExist
<1>5. Sums(h, f, I) /\ Sums(k, f, I)
  <2>1. Step(h)
    BY <1>3, <1>4
  <2> QED
    BY <2>1, <1>3, <1>4
<1>6. h[I] = k[I]
  <2> HIDE DEF h, k
  <2> QED
    BY <1>1, <1>5, SumsAgree
<1>7. SumOn(f, I) = k[I]
  BY DEF SumOn
<1>8. SumOf(f) \in Nat /\ SumOf(f) = SumOn(f, I)
  BY <1>1, SumOfNaturals, SumOfIsSumOn
<1> QED
  BY <1>2, <1>6, <1>7, <1>8

(* A share of rows is a pair of numbers of which the second is greater. *)
LEMMA ShareIsPart ==
  ASSUME NEW whole, IsFiniteSet(whole), NEW P \in SUBSET whole,
         NEW a \in Nat, NEW b \in Nat \ {0}, a <= b
  PROVE  \E p \in Nat, q \in Nat \ {0} : p <= q /\ Share(P, whole, <<a, b>>) = <<p, q>>
<1>1. CASE whole = {}
  BY <1>1 DEF Share
<1>2. CASE whole # {}
  <2>1. Cardinality(whole) \in Nat /\ Cardinality(whole) # 0
    BY <1>2, FS_CardinalityType, FS_EmptySet
  <2>2. Cardinality(P) \in Nat /\ Cardinality(P) <= Cardinality(whole)
    BY FS_Subset, FS_CardinalityType
  <2> QED
    BY <1>2, <2>1, <2>2 DEF Share
<1> QED
  BY <1>1, <1>2

(* A completion rate is a fraction of 1. *)
LEMMA RateIsPart ==
  ASSUME SalesTypeOK, NEW v, NEW days, NEW a \in Nat, NEW b \in Nat \ {0}, a <= b
  PROVE  \E p \in Nat, q \in Nat \ {0} : p <= q /\ CompletionRate(v, days, <<a, b>>) = <<p, q>>
<1> DEFINE whole == OfVendor(v) \cap Since(days)
           P == CompletedSince(v, days)
<1>1. P \in SUBSET whole /\ whole \in SUBSET Rows
  BY DEF CompletedSince, OfVendor, Since
<1>2. IsFiniteSet(whole)
  BY <1>1, SlotFacts, FS_Subset
<1>3. CompletionRate(v, days, <<a, b>>) = Share(P, whole, <<a, b>>)
  BY DEF CompletionRate
<1> HIDE DEF P, whole
<1> QED
  BY <1>1, <1>2, <1>3, ShareIsPart

(* Minutes are naturals. *)
LEMMA BasePrepTimeIs ==
  ASSUME SalesTypeOK, NEW v
  PROVE  \E m \in Nat, n \in Nat \ {0} : BasePrepTime(v) = <<m, n>>
<1> DEFINE rows == CompletedSince(v, 30)
<1>1. rows \in SUBSET Rows /\ IsFiniteSet(rows)
  BY SlotFacts, FS_Subset DEF CompletedSince, OfVendor
<1>2. Promised(rows) \in Nat
  <2> HIDE DEF rows
  <2> QED
    BY <1>1, PromisedIsSum
<1>3. BasePrepTime(v) = IF Promised(rows) = 0 THEN <<15, 1>> ELSE <<Promised(rows), Cardinality(rows)>>
  BY DEF BasePrepTime, Promised
<1>4. Cardinality(rows) \in Nat
  <2> HIDE DEF rows
  <2> QED
    BY <1>1, FS_CardinalityType
<1>5. CASE Promised(rows) = 0
  BY <1>3, <1>5
<1>6. CASE Promised(rows) # 0
  <2>1. rows # {}
    <3> SUFFICES ASSUME rows = {} PROVE FALSE
      OBVIOUS
    <3>1. Promised({}) = 0
      <4> DEFINE h == CHOOSE g : g = [s \in SUBSET {} |-> IF s = {} THEN 0 ELSE sales[Pick(s)].eta + g[s \ {Pick(s)}]]
      <4>1. Promised({}) = h[{}]
        BY DEF Promised, MapThenSumSet, MapThenFoldSet, Pick
      <4>2. \E g : g = [s \in SUBSET {} |-> IF s = {} THEN 0 ELSE sales[Pick(s)].eta + g[s \ {Pick(s)}]]
        <5>1. [s \in SUBSET {} |-> 0] = [s \in SUBSET {} |-> IF s = {} THEN 0 ELSE sales[Pick(s)].eta + [t \in SUBSET {} |-> 0][s \ {Pick(s)}]]
          OBVIOUS
        <5> QED
          BY <5>1
      <4>3. h = [s \in SUBSET {} |-> IF s = {} THEN 0 ELSE sales[Pick(s)].eta + h[s \ {Pick(s)}]]
        BY <4>2
      <4> HIDE DEF h
      <4>4. h[{}] = 0
        BY <4>3
      <4> QED
        BY <4>1, <4>4
    <3> QED
      BY <1>6, <3>1
  <2>2. Cardinality(rows) # 0
    <3> HIDE DEF rows
    <3> QED
      BY <1>1, <2>1, FS_EmptySet
  <2> QED
    BY <1>2, <1>3, <1>4, <1>6, <2>2
<1> QED
  BY <1>5, <1>6

(* A fuller slot is past every mark that an emptier one is past. *)
LEMMA MarksAreKept ==
  ASSUME NEW f \in Nat, NEW g \in Nat, NEW c \in Nat \ {0}, NEW d \in Nat \ {0},
         NEW j \in Nat, NEW k \in Nat, g * c <= f * d, k * d <= j * g
  PROVE  k * c <= j * f
<1>1. /\ k * d \in Nat /\ j * g \in Nat /\ g * c \in Nat /\ f * d \in Nat
      /\ k * c \in Nat /\ j * f \in Nat
  BY ProductsGrow
<1>2. (k * d) * c <= (j * g) * c
  BY <1>1, ProductsGrow
<1>3. (g * c) * j <= (f * d) * j
  BY <1>1, ProductsGrow
<1>4. /\ (k * d) * c = (k * c) * d
      /\ (j * g) * c = (g * c) * j
      /\ (f * d) * j = (j * f) * d
  BY SMTT(30)
<1>5. (k * c) * d <= (j * f) * d
  <2>1. (k * c) * d \in Nat /\ (g * c) * j \in Nat /\ (j * f) * d \in Nat
    BY <1>1, ProductsGrow
  <2>2. (k * c) * d <= (g * c) * j /\ (g * c) * j <= (j * f) * d
    BY <1>2, <1>3, <1>4
  <2> QED
    BY <2>1, <2>2
<1> QED
  BY <1>1, <1>5, ProductsGrow

(* The queue factor grows with the share of the places that is taken. *)
LEMMA QueuesGrow ==
  ASSUME SalesTypeOK, NEW s \in Offers, NEW t \in Offers, Capacity[s] > 0, Capacity[t] > 0,
         filled[s] * Capacity[t] >= filled[t] * Capacity[s]
  PROVE  QueueFactor(t) <= QueueFactor(s) /\ QueueFactor(s) \in {10, 12, 15} /\ QueueFactor(t) \in {10, 12, 15}
<1>1. PICK f \in Nat : f = filled[s]
  BY SlotFacts
<1>2. PICK g \in Nat : g = filled[t]
  BY SlotFacts
<1>3. PICK c \in Nat \ {0} : c = Capacity[s]
  BY SlotFacts
<1>4. PICK d \in Nat \ {0} : d = Capacity[t]
  BY SlotFacts
<1>5. g * c \in Nat /\ f * d \in Nat /\ f * d >= g * c
  BY <1>1, <1>2, <1>3, <1>4, ProductsGrow
<1>6. g * c <= f * d
  BY <1>5
<1>7. \A j, k \in Nat : k * d <= j * g => k * c <= j * f
  BY <1>6, MarksAreKept
<1>8. 1 * d <= 2 * g => 1 * c <= 2 * f
  BY <1>7
<1>9. 8 * d <= 10 * g => 8 * c <= 10 * f
  BY <1>7
<1>10. /\ QueueFactor(s) = IF 2 * f < c THEN 10 ELSE IF 10 * f < 8 * c THEN 12 ELSE 15
       /\ QueueFactor(t) = IF 2 * g < d THEN 10 ELSE IF 10 * g < 8 * d THEN 12 ELSE 15
  BY <1>1, <1>2, <1>3, <1>4 DEF QueueFactor
<1> HIDE <1>5, <1>6, <1>7
<1> QED
  BY <1>8, <1>9, <1>10

(* A fuller slot is not predicted to be quicker. *)
LEMMA EtasGrow ==
  ASSUME SalesTypeOK, NEW s \in Offers, NEW t \in Offers, SlotVendor[s] = SlotVendor[t],
         Capacity[s] > 0, Capacity[t] > 0,
         filled[s] * Capacity[t] >= filled[t] * Capacity[s]
  PROVE  PredictedEta(s) >= PredictedEta(t)
<1>1. PICK v : v = SlotVendor[s] /\ v = SlotVendor[t]
  OBVIOUS
<1>2. PICK m \in Nat, n \in Nat \ {0} : BasePrepTime(v) = <<m, n>>
  BY BasePrepTimeIs
<1>3. PICK p \in Nat, q \in Nat \ {0} : p <= q /\ CompletionRate(v, 7, <<1, 1>>) = <<p, q>>
  BY RateIsPart
<1>4. PICK e \in Nat : e = 2 * q - p
  <2>1. p <= q
    BY <1>3
  <2>2. \A a, b \in Nat : a <= b => 2 * b - a \in Nat
    OBVIOUS
  <2>3. 2 * q - p \in Nat
    BY <2>1, <2>2
  <2> QED
    BY <2>3
<1>5. Efficiency(v) = <<e, q>>
  BY <1>3, <1>4 DEF Efficiency
<1>6. PICK x \in {10, 12, 15} : x = QueueFactor(s)
  BY QueuesGrow
<1>7. PICK y \in {10, 12, 15} : y = QueueFactor(t)
  BY QueuesGrow
<1>8. y <= x
  BY <1>6, <1>7, QueuesGrow
<1> DEFINE a == (m * x * e) \div (n * 10 * q)
           b == (m * y * e) \div (n * 10 * q)
<1>9. /\ PredictedEta(s) = Max({5, Min({a, 60})})
      /\ PredictedEta(t) = Max({5, Min({b, 60})})
  BY <1>1, <1>2, <1>5, <1>6, <1>7 DEF PredictedEta
<1>10. /\ m * x * e \in Nat /\ m * y * e \in Nat /\ n * 10 * q \in Nat \ {0}
       /\ m * y * e <= m * x * e
  <2>1. m * e \in Nat /\ (m * e) * x \in Nat /\ (m * e) * y \in Nat /\ n * 10 \in Nat \ {0}
    BY ProductsGrow
  <2>2. m * x * e = (m * e) * x /\ m * y * e = (m * e) * y
    BY SMTT(30)
  <2>3. y * (m * e) <= x * (m * e) /\ (m * e) * x = x * (m * e) /\ (m * e) * y = y * (m * e)
    BY <1>8, <2>1, ProductsGrow
  <2>4. (n * 10) * q \in Nat \ {0}
    BY <2>1, ProductsGrow
  <2> QED
    BY <2>1, <2>2, <2>3, <2>4
<1>11. a \in Nat /\ b \in Nat /\ b <= a
  BY <1>10, QuotientsGrow
<1> HIDE DEF a, b
<1>12. \A z \in Nat : Min({z, 60}) = (IF z <= 60 THEN z ELSE 60) /\ Min({z, 60}) \in Nat
  BY MinOfTwo
<1>13. \A z \in Nat : Max({5, z}) = IF 5 >= z THEN 5 ELSE z
  BY MaxOfTwo
<1>14. /\ Min({a, 60}) = (IF a <= 60 THEN a ELSE 60) /\ Min({a, 60}) \in Nat
       /\ Min({b, 60}) = (IF b <= 60 THEN b ELSE 60) /\ Min({b, 60}) \in Nat
  BY <1>11, <1>12
<1>15. /\ Max({5, Min({a, 60})}) = (IF 5 >= Min({a, 60}) THEN 5 ELSE Min({a, 60}))
       /\ Max({5, Min({b, 60})}) = (IF 5 >= Min({b, 60}) THEN 5 ELSE Min({b, 60}))
  BY <1>13, <1>14
<1> QED
  BY <1>9, <1>11, <1>14, <1>15

(* The terms of a score: places, places left, speed and rush, and the rate. *)
Points(m, l, k, p, q) == (35 * l) * (100 * q) + (k * q + 20 * p) * m

(* Its denominator. *)
Scale(m, q) == m * (100 * q)

(* What speed and rush come to, in hundredths. *)
Weights == 744 .. 2250

(* No score is 0 and none reaches 60. *)
LEMMA ScoreRange ==
  \A m \in Nat \ {0} : \A l \in 0 .. m : \A k \in Weights : \A p \in Nat, q \in Nat \ {0} :
    p <= q => /\ Points(m, l, k, p, q) \in Nat /\ Points(m, l, k, p, q) > 0
              /\ Scale(m, q) \in Nat \ {0} /\ Points(m, l, k, p, q) < 60 * Scale(m, q)
<1> SUFFICES ASSUME NEW m \in Nat \ {0}, NEW l \in 0 .. m, NEW k \in Weights,
                    NEW p \in Nat, NEW q \in Nat \ {0}, p <= q
             PROVE  /\ Points(m, l, k, p, q) \in Nat /\ Points(m, l, k, p, q) > 0
                    /\ Scale(m, q) \in Nat \ {0} /\ Points(m, l, k, p, q) < 60 * Scale(m, q)
  OBVIOUS
<1>1. /\ Scale(m, q) = 100 * (m * q)
      /\ Points(m, l, k, p, q) = 3500 * (l * q) + k * (m * q) + 20 * (p * m)
  BY SMTT(30) DEF Points, Scale, Weights
<1>2. PICK n \in Nat \ {0} : n = m * q
  BY ProductsGrow
<1>3. PICK x \in Nat : x = l * q /\ x <= n
  <2>1. l \in Nat /\ l <= m
    OBVIOUS
  <2>2. l * q \in Nat /\ l * q <= m * q
    BY <2>1, ProductsGrow
  <2> QED
    BY <1>2, <2>2
<1>4. PICK y \in Nat : y = p * m /\ y <= n
  <2>1. p * m \in Nat /\ p * m <= q * m
    BY ProductsGrow
  <2>2. q * m = n
    BY <1>2
  <2> QED
    BY <2>1, <2>2
<1>5. PICK z \in Nat : z = k * n /\ 744 * n <= z /\ z <= 2250 * n
  <2>1. k \in Nat /\ 744 <= k /\ k <= 2250
    BY DEF Weights
  <2>2. k * n \in Nat /\ 744 * n <= k * n /\ k * n <= 2250 * n
    BY <2>1, ProductsGrow
  <2> QED
    BY <2>2
<1>6. Scale(m, q) = 100 * n /\ Points(m, l, k, p, q) = 3500 * x + z + 20 * y
  BY <1>1, <1>2, <1>3, <1>4, <1>5
<1>7. /\ 3500 * x + z + 20 * y > 0 /\ 3500 * x + z + 20 * y < 60 * (100 * n)
      /\ 3500 * x + z + 20 * y \in Nat /\ 100 * n \in Nat \ {0}
  BY <1>3, <1>4, <1>5
<1> QED
  BY <1>6, <1>7

(* More of the places left, more points. *)
LEMMA PointsGrow ==
  ASSUME NEW m \in Nat \ {0}, NEW l \in 0 .. m, NEW n \in Nat \ {0}, NEW j \in 0 .. n,
         NEW k \in Weights, NEW p \in Nat, NEW q \in Nat \ {0}, p <= q,
         j * m <= l * n
  PROVE  Points(n, j, k, p, q) * Scale(m, q) <= Points(m, l, k, p, q) * Scale(n, q)
<1> DEFINE w == 350000 * (q * q)
           c == (100 * k) * ((m * q) * (n * q)) + 2000 * ((p * m) * (n * q))
<1>1. /\ Points(n, j, k, p, q) * Scale(m, q) = (j * m) * w + c
      /\ Points(m, l, k, p, q) * Scale(n, q) = (l * n) * w + c
  BY SMTT(60) DEF Points, Scale, Weights
<1>2. w \in Nat /\ c \in Nat
  <2>0. k \in Nat
    BY DEF Weights
  <2>1. k \in Nat /\ q * q \in Nat /\ m * q \in Nat /\ n * q \in Nat /\ p * m \in Nat
    BY <2>0, ProductsGrow
  <2>2. 100 * k \in Nat /\ (m * q) * (n * q) \in Nat /\ (p * m) * (n * q) \in Nat
    BY <2>1, ProductsGrow
  <2>3. (100 * k) * ((m * q) * (n * q)) \in Nat
    BY <2>2, ProductsGrow
  <2>4. w \in Nat
    BY <2>1, ProductsGrow
  <2>5. 2000 * ((p * m) * (n * q)) \in Nat
    BY <2>2, ProductsGrow
  <2> QED
    BY <2>3, <2>4, <2>5
<1>3. j * m \in Nat /\ l * n \in Nat
  <2>1. j \in Nat /\ l \in Nat
    OBVIOUS
  <2> QED
    BY <2>1, ProductsGrow
<1> HIDE DEF w, c
<1>4. (j * m) * w <= (l * n) * w /\ (j * m) * w \in Nat /\ (l * n) * w \in Nat
  BY <1>2, <1>3, ProductsGrow
<1> QED
  BY <1>1, <1>2, <1>4

(* The speed score is one of five. *)
LEMMA SpeedScoreIs == \A v : SpeedScore(v) \in {30, 50, 60, 75, 90}
BY DEF SpeedScore

(* An hour is worth one of three. *)
LEMMA RushIs == \A h : Rush(h) \in {0, 1, 3}
BY DEF Rush

(* A score is never cut off at 0 or 100: it is the sum of its terms. *)
LEMMA ScoreIs ==
  ASSUME SalesTypeOK, NEW s \in Offers
  PROVE  \E m \in Nat \ {0}, l \in Nat, k \in Weights, p \in Nat, q \in Nat \ {0} :
           /\ m = (IF Capacity[s] = 0 THEN 1 ELSE Capacity[s])
           /\ l = Capacity[s] - filled[s] /\ l <= m
           /\ k = 25 * SpeedScore(SlotVendor[s]) - 2 * Rush(SlotHour[s])
           /\ CompletionRate(SlotVendor[s], 30, <<1, 2>>) = <<p, q>> /\ p <= q
           /\ SlotScore(s) = <<Points(m, l, k, p, q), Scale(m, q)>>
<1>1. PICK m \in Nat \ {0} : m = (IF Capacity[s] = 0 THEN 1 ELSE Capacity[s])
  BY SlotFacts
<1>2. PICK l \in Nat : l = Capacity[s] - filled[s] /\ l <= m
  <2>1. PICK f \in Nat : f = filled[s]
    BY SlotFacts
  <2>2. PICK c \in Nat : c = Capacity[s] /\ f <= c
    BY <2>1, SlotFacts
  <2>3. c - f \in Nat /\ c - f <= m
    BY <1>1, <2>2
  <2> QED
    BY <2>1, <2>2, <2>3
<1> DEFINE e == 25 * SpeedScore(SlotVendor[s]) - 2 * Rush(SlotHour[s])
<1>3. e \in Weights
  <2>1. PICK x \in {30, 50, 60, 75, 90} : x = SpeedScore(SlotVendor[s])
    BY SpeedScoreIs
  <2>2. PICK y \in {0, 1, 3} : y = Rush(SlotHour[s])
    BY RushIs
  <2>3. 25 * x - 2 * y \in Weights
    BY <2>1, <2>2 DEF Weights
  <2> QED
    BY <2>1, <2>2, <2>3
<1>4. PICK p \in Nat, q \in Nat \ {0} : p <= q /\ CompletionRate(SlotVendor[s], 30, <<1, 2>>) = <<p, q>>
  BY RateIsPart
<1> DEFINE total == <<Points(m, l, e, p, q), Scale(m, q)>>
<1>5. SlotScore(s) = IF total[1] < 0 THEN <<0, 1>> ELSE IF Below(<<100, 1>>, total) THEN <<100, 1>> ELSE total
  BY <1>1, <1>2, <1>3, <1>4 DEF SlotScore, Points, Scale, Plus
<1>6. /\ m \in Nat \ {0} /\ l \in 0 .. m /\ e \in Weights
      /\ p \in Nat /\ q \in Nat \ {0} /\ p <= q
  BY <1>1, <1>2, <1>3, <1>4
<1> HIDE DEF e
<1>0. /\ Points(m, l, e, p, q) \in Nat /\ Points(m, l, e, p, q) > 0
      /\ Scale(m, q) \in Nat \ {0} /\ Points(m, l, e, p, q) < 60 * Scale(m, q)
  BY <1>6, ScoreRange
<1>7. PICK a \in Nat : a = Points(m, l, e, p, q) /\ a > 0
  BY <1>0
<1>8. PICK d \in Nat \ {0} : d = Scale(m, q) /\ a < 60 * d
  BY <1>0, <1>7
<1>9. total = <<a, d>>
  BY <1>7, <1>8
<1>10. ~(a < 0) /\ ~Below(<<100, 1>>, <<a, d>>)
  BY <1>7, <1>8 DEF Below
<1>11. SlotScore(s) = total
  <2> HIDE DEF total
  <2> QED
    BY <1>5, <1>9, <1>10
<1>12. e = 25 * SpeedScore(SlotVendor[s]) - 2 * Rush(SlotHour[s])
  BY DEF e
<1> QED
  BY <1>1, <1>2, <1>3, <1>4, <1>11, <1>12

(* Where less of the places is taken, more of them is left. *)
LEMMA LeftShrinks ==
  ASSUME NEW n \in Nat \ {0}, NEW m \in Nat \ {0}, NEW f \in Nat, NEW g \in Nat, f <= n, g <= m,
         g * n <= f * m
  PROVE  (n - f) * m <= (m - g) * n
<1>1. (n - f) * m = n * m - f * m /\ (m - g) * n = n * m - g * n
  BY SMTT(30)
<1>2. f * m \in Nat /\ g * n \in Nat /\ n * m \in Nat
  BY ProductsGrow
<1> QED
  BY <1>1, <1>2

(* A fuller slot is not scored better. *)
LEMMA FullerScoresLess ==
  ASSUME SalesTypeOK, NEW s \in Offers, NEW t \in Offers, SlotVendor[s] = SlotVendor[t],
         Capacity[s] > 0, Capacity[t] > 0,
         filled[s] * Capacity[t] >= filled[t] * Capacity[s],
         Rush(SlotHour[s]) = Rush(SlotHour[t])
  PROVE  ~Below(SlotScore(t), SlotScore(s))
<1>1. PICK n \in Nat \ {0}, j \in Nat, k \in Weights, p \in Nat, q \in Nat \ {0} :
        /\ n = (IF Capacity[s] = 0 THEN 1 ELSE Capacity[s])
        /\ j = Capacity[s] - filled[s] /\ j <= n
        /\ k = 25 * SpeedScore(SlotVendor[s]) - 2 * Rush(SlotHour[s])
        /\ CompletionRate(SlotVendor[s], 30, <<1, 2>>) = <<p, q>> /\ p <= q
        /\ SlotScore(s) = <<Points(n, j, k, p, q), Scale(n, q)>>
  BY ScoreIs
<1>2. PICK m \in Nat \ {0}, l \in Nat, kt \in Weights, pt \in Nat, qt \in Nat \ {0} :
        /\ m = (IF Capacity[t] = 0 THEN 1 ELSE Capacity[t])
        /\ l = Capacity[t] - filled[t] /\ l <= m
        /\ kt = 25 * SpeedScore(SlotVendor[t]) - 2 * Rush(SlotHour[t])
        /\ CompletionRate(SlotVendor[t], 30, <<1, 2>>) = <<pt, qt>> /\ pt <= qt
        /\ SlotScore(t) = <<Points(m, l, kt, pt, qt), Scale(m, qt)>>
  BY ScoreIs
<1>3. kt = k /\ pt = p /\ qt = q
  BY <1>1, <1>2
<1>4. PICK f \in Nat : f = filled[s]
  BY SlotFacts
<1>5. PICK g \in Nat : g = filled[t]
  BY SlotFacts
<1>6. n = Capacity[s] /\ m = Capacity[t] /\ f <= n /\ g <= m /\ j = n - f /\ l = m - g
  BY <1>1, <1>2, <1>4, <1>5, SlotFacts
<1>7. g * n <= f * m
  <2>1. g * n \in Nat /\ f * m \in Nat /\ f * m >= g * n
    BY <1>4, <1>5, <1>6, ProductsGrow
  <2> QED
    BY <2>1
<1>8. (n - f) * m <= (m - g) * n
  BY <1>6, <1>7, LeftShrinks
<1>9. j * m <= l * n
  BY <1>6, <1>8
<1>10. j \in 0 .. n /\ l \in 0 .. m /\ p <= q
  BY <1>1, <1>2
<1>11. Points(n, j, k, p, q) * Scale(m, q) <= Points(m, l, k, p, q) * Scale(n, q)
  BY <1>9, <1>10, PointsGrow
<1>12. PICK a \in Nat : a = Points(n, j, k, p, q)
  BY <1>10, ScoreRange
<1>13. PICK b \in Nat : b = Points(m, l, k, p, q)
  BY <1>10, ScoreRange
<1>14. PICK c \in Nat : c = Scale(n, q)
  BY <1>10, ScoreRange
<1>15. PICK d \in Nat : d = Scale(m, q)
  BY <1>10, ScoreRange
<1>16. a * d <= b * c /\ a * d \in Nat /\ b * c \in Nat
  BY <1>11, <1>12, <1>13, <1>14, <1>15, ProductsGrow
<1>17. ~(b * c < a * d)
  BY <1>16
<1>18. SlotScore(s) = <<a, c>> /\ SlotScore(t) = <<b, d>>
  BY <1>1, <1>2, <1>3, <1>12, <1>13, <1>14, <1>15
<1> QED
  BY <1>17, <1>18 DEF Below

(* Nor predicted to be quicker. *)
LEMMA FullerFits == ASSUME SalesTypeOK PROVE FullerIsNeverBetter
BY EtasGrow, FullerScoresLess DEF FullerIsNeverBetter

(* Quotients that are not rounded. *)
Quotient == Int \X (Nat \ {0})

(* Quotients are ordered: what is not below is transitive, ... *)
LEMMA NotBelowIsTransitive ==
  ASSUME NEW p \in Quotient, NEW q \in Quotient, NEW r \in Quotient, ~Below(q, p), ~Below(r, q)
  PROVE  ~Below(r, p)
<1> DEFINE a == p[1] b == p[2] c == q[1] d == q[2] e == r[1] f == r[2]
<1>1. a \in Int /\ b \in Nat \ {0} /\ c \in Int /\ d \in Nat \ {0} /\ e \in Int /\ f \in Nat \ {0}
  BY DEF Quotient
<1>2. a * d <= c * b /\ c * f <= e * d
  BY <1>1 DEF Below
<1>3. Below(r, p) <=> e * b < a * f
  BY DEF Below
<1> HIDE DEF a, b, c, d, e, f
<1>4. (a * d) * f <= (c * b) * f
  <2>1. a * d \in Int /\ c * b \in Int
    BY <1>1
  <2> HIDE <1>3
  <2> QED
    BY <1>1, <1>2, <2>1, ProductsGrow
<1>5. (c * f) * b <= (e * d) * b
  <2>1. c * f \in Int /\ e * d \in Int
    BY <1>1
  <2> QED
    BY <1>1, <1>2, <2>1, ProductsGrow
<1>6. (a * f) * d <= (e * b) * d
  <2>1. /\ (a * d) * f = (a * f) * d /\ (c * b) * f = (c * f) * b /\ (e * d) * b = (e * b) * d
    BY <1>1
  <2>2. (a * f) * d \in Int /\ (c * f) * b \in Int /\ (e * b) * d \in Int
    BY <1>1
  <2>3. (a * f) * d <= (c * f) * b /\ (c * f) * b <= (e * b) * d
    BY <1>4, <1>5, <2>1
  <2> QED
    BY <2>2, <2>3
<1>7. a * f <= e * b
  <2>1. a * f \in Int /\ e * b \in Int
    BY <1>1
  <2> QED
    BY <1>1, <1>6, <2>1, ProductsGrow
<1> QED
  BY <1>1, <1>3, <1>7

(* ... and below is asymmetric. *)
LEMMA BelowIsAsymmetric == \A p, q \in Quotient : Below(p, q) => ~Below(q, p)
<1> SUFFICES ASSUME NEW p \in Quotient, NEW q \in Quotient, Below(p, q) PROVE ~Below(q, p)
  OBVIOUS
<1>1. p[1] * q[2] \in Int /\ q[1] * p[2] \in Int
  BY DEF Quotient
<1> QED
  BY <1>1 DEF Below

(* Every score is positive and less than 60. *)
LEMMA ScoresAreLow ==
  ASSUME SalesTypeOK, NEW s \in Offers
  PROVE  /\ SlotScore(s) \in Quotient
         /\ Below(<<0, 1>>, SlotScore(s)) /\ Below(SlotScore(s), <<60, 1>>)
<1>1. PICK m \in Nat \ {0}, l \in Nat, k \in Weights, p \in Nat, q \in Nat \ {0} :
        /\ m = (IF Capacity[s] = 0 THEN 1 ELSE Capacity[s])
        /\ l = Capacity[s] - filled[s] /\ l <= m
        /\ k = 25 * SpeedScore(SlotVendor[s]) - 2 * Rush(SlotHour[s])
        /\ CompletionRate(SlotVendor[s], 30, <<1, 2>>) = <<p, q>> /\ p <= q
        /\ SlotScore(s) = <<Points(m, l, k, p, q), Scale(m, q)>>
  BY ScoreIs
<1>2. l \in 0 .. m /\ p <= q
  BY <1>1
<1>3. PICK a \in Nat : a = Points(m, l, k, p, q) /\ a > 0
  BY <1>2, ScoreRange
<1>4. PICK d \in Nat \ {0} : d = Scale(m, q) /\ a < 60 * d
  BY <1>2, <1>3, ScoreRange
<1>5. SlotScore(s) = <<a, d>>
  BY <1>1, <1>3, <1>4
<1>6. <<a, d>> \in Quotient /\ Below(<<0, 1>>, <<a, d>>) /\ Below(<<a, d>>, <<60, 1>>)
  BY <1>3, <1>4 DEF Quotient, Below
<1> QED
  BY <1>5, <1>6

(* s comes before t in the list of recommendations. *)
Ahead(s, t) ==
  \/ Below(SlotScore(t), SlotScore(s))
  \/ ~Below(SlotScore(s), SlotScore(t)) /\ s < t

(* The order of the recommendations, as a set of pairs. *)
Preference == {p \in Offers \X Offers : Ahead(p[1], p[2])}

(* Slots are finitely many and numbered. *)
LEMMA OffersAre == IsFiniteSet(Offers) /\ Offers \subseteq Nat \ {0}
<1>1. Offers = 1 .. Len(SlotVendor) /\ Len(SlotVendor) \in Nat
  BY SalesAssumption DEF Offers
<1>2. PICK n \in Nat : n = Len(SlotVendor)
  BY <1>1
<1>3. IsFiniteSet(1 .. n) /\ 1 .. n \subseteq Nat \ {0}
  BY FS_Interval
<1> QED
  BY <1>1, <1>2, <1>3

(* The order of the recommendations is total and strict: ties are settled by *)
(* the number of the slot.                                                   *)
LEMMA PreferenceOrders == ASSUME SalesTypeOK PROVE TotallyOrders(Preference, Offers)
<1>1. \A x, y \in Offers : <<x, y>> \in Preference <=> Ahead(x, y)
  BY DEF Preference
<1>2. \A x \in Offers : SlotScore(x) \in Quotient
  BY ScoresAreLow
<1>3. ASSUME NEW x \in Offers PROVE ~Ahead(x, x)
  BY <1>2, BelowIsAsymmetric, OffersAre DEF Ahead
<1>4. ASSUME NEW x \in Offers, NEW y \in Offers, x # y PROVE Ahead(x, y) \/ Ahead(y, x)
  <2>1. x < y \/ y < x
    BY <1>4, OffersAre
  <2> QED
    BY <2>1 DEF Ahead
<1>5. ASSUME NEW x \in Offers, NEW y \in Offers, NEW z \in Offers, Ahead(x, y), Ahead(y, z)
      PROVE  Ahead(x, z)
  <2> DEFINE a == SlotScore(x) b == SlotScore(y) c == SlotScore(z)
  <2>1. a \in Quotient /\ b \in Quotient /\ c \in Quotient
    BY <1>2
  <2>2. (Below(b, a) \/ (~Below(a, b) /\ x < y)) /\ (Below(c, b) \/ (~Below(b, c) /\ y < z))
    BY <1>5 DEF Ahead
  <2>3. Ahead(x, z) <=> Below(c, a) \/ (~Below(a, c) /\ x < z)
    BY DEF Ahead
  <2>4. x < y /\ y < z => x < z
    BY OffersAre
  <2> HIDE DEF a, b, c
  <2>5. ~Below(a, b) /\ ~Below(b, c)
    BY <2>1, <2>2, BelowIsAsymmetric
  <2>6. ~Below(a, c)
    BY <2>1, <2>5, NotBelowIsTransitive
  <2>7. CASE ~Below(c, a)
    <3>1. ~Below(b, a)
      BY <2>1, <2>5, <2>7, NotBelowIsTransitive
    <3>2. ~Below(c, b)
      BY <2>1, <2>5, <2>7, NotBelowIsTransitive
    <3> QED
      BY <2>2, <2>3, <2>4, <2>6, <3>1, <3>2
  <2> QED
    BY <2>3, <2>7
<1> QED
  BY <1>1, <1>3, <1>4, <1>5 DEF TotallyOrders

(* The recommendations are a list in the order of preference. *)
LEMMA RecommendedLists == ASSUME SalesTypeOK PROVE Lists(Recommended, Offers, Preference)
<1> DEFINE n == Cardinality(Offers)
           Sorted(q) == \A i, j \in 1 .. n : i < j => Ahead(q[i], q[j])
<1>1. Recommended = CHOOSE q \in [1 .. n -> Offers] : Sorted(q)
  BY DEF Recommended, InOrder, Ahead
<1>2. \A q \in [1 .. n -> Offers] : Lists(q, Offers, Preference) <=> Sorted(q)
  BY DEF Lists, Preference
<1>3. PICK r : Lists(r, Offers, Preference)
  BY OffersAre, PreferenceOrders, ListsExist
<1>4. r \in [1 .. n -> Offers]
  BY <1>3 DEF Lists
<1>5. \E q \in [1 .. n -> Offers] : Sorted(q)
  BY <1>2, <1>3, <1>4
<1> HIDE DEF Sorted
<1>6. Recommended \in [1 .. n -> Offers] /\ Sorted(Recommended)
  BY <1>1, <1>5
<1> QED
  BY <1>2, <1>6

(* The first of the list is the slot that the loop keeps. *)
LEMMA FirstIsBest ==
  ASSUME SalesTypeOK, Offers # {}
  PROVE  /\ BestSlot = Head(Recommended) /\ BestSlot \in Offers
         /\ \A t \in Offers : ~Below(SlotScore(BestSlot), SlotScore(t))
<1> DEFINE b == Recommended[1]
<1>1. b \in Offers /\ \A t \in Offers \ {b} : <<b, t>> \in Preference
  BY OffersAre, PreferenceOrders, RecommendedLists, ListsAreComplete
<1>2. \A t \in Offers \ {b} : Ahead(b, t)
  BY <1>1 DEF Preference
<1>3. \A t \in Offers : SlotScore(t) \in Quotient
  BY ScoresAreLow
<1>4. b = Head(Recommended)
  <2>1. PICK n \in Nat : n = Cardinality(Offers)
    BY OffersAre, FS_CardinalityType
  <2>2. Recommended \in [1 .. n -> Offers]
    BY <2>1, RecommendedLists DEF Lists
  <2>3. Recommended \in Seq(Offers)
    BY <2>2
  <2> QED
    BY <2>3
<1> HIDE DEF b
<1>5. \A t \in Offers : ~Below(SlotScore(b), SlotScore(t))
  <2> SUFFICES ASSUME NEW t \in Offers PROVE ~Below(SlotScore(b), SlotScore(t))
    OBVIOUS
  <2>1. CASE t = b
    BY <1>3, <2>1, BelowIsAsymmetric
  <2>2. CASE t # b
    BY <1>1, <1>2, <1>3, <2>2, BelowIsAsymmetric DEF Ahead
  <2> QED
    BY <2>1, <2>2
<1> DEFINE improves(s) == /\ Below(<<0, 1>>, SlotScore(s))
                          /\ \A t \in Offers : t < s => Below(SlotScore(t), SlotScore(s))
           leading == {s \in Offers : improves(s)}
<1>6. b \in leading
  <2>1. Below(<<0, 1>>, SlotScore(b))
    BY <1>1, ScoresAreLow
  <2>2. ASSUME NEW t \in Offers, t < b PROVE Below(SlotScore(t), SlotScore(b))
    <3>1. t # b /\ ~(b < t)
      BY <1>1, <2>2, OffersAre
    <3> QED
      BY <1>2, <3>1 DEF Ahead
  <2> QED
    BY <1>1, <2>1, <2>2
<1>7. ASSUME NEW s \in leading PROVE b >= s
  <2>1. ~(b < s)
    BY <1>1, <1>5, <1>7
  <2>2. b \in Nat /\ s \in Nat
    BY <1>1, <1>7, OffersAre
  <2> QED
    BY <2>1, <2>2
<1>8. BestSlot = Max(leading)
  <2>1. BestSlot = IF leading = {} THEN 0 ELSE Max(leading)
    BY DEF BestSlot
  <2> QED
    BY <1>6, <2>1
<1>9. leading \subseteq Nat
  BY OffersAre
<1> HIDE DEF leading
<1>10. Max(leading) = b
  <2>1. Max(leading) \in leading /\ \A y \in leading : Max(leading) >= y
    BY <1>6, <1>7 DEF Max
  <2>2. Max(leading) >= b /\ b >= Max(leading)
    BY <1>6, <1>7, <2>1
  <2>3. b \in Nat /\ Max(leading) \in Nat
    BY <1>6, <1>9, <2>1
  <2> QED
    BY <2>2, <2>3
<1> QED
  BY <1>1, <1>4, <1>5, <1>8, <1>10

(* What a full slot can outweigh by its hour is six hundredths. *)
LEMMA HoursOutweighLittle ==
  ASSUME NEW m \in Nat \ {0}, NEW l \in Nat, NEW k \in Weights,
         NEW n \in Nat \ {0}, NEW j \in Weights, NEW p \in Nat, NEW q \in Nat \ {0},
         Points(m, l, k, p, q) * Scale(n, q) <= Points(n, 0, j, p, q) * Scale(m, q),
         j <= k + 6
  PROVE  3500 * l <= 6 * m
<1> DEFINE w == 100 * (n * (q * q))
           c == (20 * (p * m)) * (100 * (n * q))
<1>1. /\ Points(m, l, k, p, q) * Scale(n, q) = (3500 * l + k * m) * w + c
      /\ Points(n, 0, j, p, q) * Scale(m, q) = (j * m) * w + c
  BY SMTT(60) DEF Points, Scale, Weights
<1>2. k \in Nat /\ j \in Nat
  BY DEF Weights
<1>3. w \in Nat \ {0} /\ c \in Nat
  <2>1. q * q \in Nat \ {0} /\ n * q \in Nat \ {0} /\ p * m \in Nat
    BY ProductsGrow
  <2>2. n * (q * q) \in Nat \ {0} /\ 20 * (p * m) \in Nat /\ 100 * (n * q) \in Nat
    BY <2>1, ProductsGrow
  <2>3. c \in Nat
    BY <2>2, ProductsGrow
  <2>4. w \in Nat \ {0}
    BY <2>2
  <2> QED
    BY <2>3, <2>4
<1>4. k * m \in Nat /\ j * m \in Nat
  BY <1>2, ProductsGrow
<1> HIDE DEF w, c
<1>5. PICK x \in Nat : x = 3500 * l + k * m
  BY <1>4
<1>6. PICK y \in Nat : y = j * m
  BY <1>4
<1>7. x * w + c <= y * w + c
  BY <1>1, <1>5, <1>6
<1>8. x * w \in Nat /\ y * w \in Nat
  BY <1>3, ProductsGrow
<1>9. x * w <= y * w
  BY <1>3, <1>7, <1>8
<1>10. x <= y
  BY <1>3, <1>9, ProductsGrow
<1>11. j * m <= (k + 6) * m /\ (k + 6) * m = k * m + 6 * m
  BY <1>2, ProductsGrow
<1> QED
  BY <1>4, <1>5, <1>6, <1>10, <1>11

(* Where a full slot is scored best, the other slots of its vendor are all   *)
(* but full.                                                                 *)
LEMMA FullSlotsFollow ==
  ASSUME SalesTypeOK, NEW s \in Offers, NEW b \in Offers, SlotVendor[s] = SlotVendor[b],
         filled[b] = Capacity[b], ~Below(SlotScore(b), SlotScore(s))
  PROVE  3500 * (Capacity[s] - filled[s]) <= 6 * Capacity[s]
<1>1. PICK m \in Nat \ {0}, l \in Nat, k \in Weights, p \in Nat, q \in Nat \ {0} :
        /\ m = (IF Capacity[s] = 0 THEN 1 ELSE Capacity[s])
        /\ l = Capacity[s] - filled[s] /\ l <= m
        /\ k = 25 * SpeedScore(SlotVendor[s]) - 2 * Rush(SlotHour[s])
        /\ CompletionRate(SlotVendor[s], 30, <<1, 2>>) = <<p, q>> /\ p <= q
        /\ SlotScore(s) = <<Points(m, l, k, p, q), Scale(m, q)>>
  BY ScoreIs
<1>2. PICK n \in Nat \ {0}, h \in Nat, j \in Weights, pb \in Nat, qb \in Nat \ {0} :
        /\ n = (IF Capacity[b] = 0 THEN 1 ELSE Capacity[b])
        /\ h = Capacity[b] - filled[b] /\ h <= n
        /\ j = 25 * SpeedScore(SlotVendor[b]) - 2 * Rush(SlotHour[b])
        /\ CompletionRate(SlotVendor[b], 30, <<1, 2>>) = <<pb, qb>> /\ pb <= qb
        /\ SlotScore(b) = <<Points(n, h, j, pb, qb), Scale(n, qb)>>
  BY ScoreIs
<1>3. pb = p /\ qb = q
  BY <1>1, <1>2
<1>4. h = 0
  <2>1. PICK c \in Nat : c = Capacity[b] /\ c = filled[b]
    BY SlotFacts
  <2> QED
    BY <1>2, <2>1
<1>5. j <= k + 6
  <2>1. PICK x \in {30, 50, 60, 75, 90} : x = SpeedScore(SlotVendor[s])
    BY SpeedScoreIs
  <2>2. PICK y \in {0, 1, 3} : y = Rush(SlotHour[s])
    BY RushIs
  <2>3. PICK z \in {0, 1, 3} : z = Rush(SlotHour[b])
    BY RushIs
  <2>4. k = 25 * x - 2 * y /\ j = 25 * x - 2 * z
    BY <1>1, <1>2, <2>1, <2>2, <2>3
  <2> QED
    BY <2>2, <2>3, <2>4
<1>6. l \in 0 .. m /\ 0 \in 0 .. n /\ p <= q
  BY <1>1
<1>7. PICK a \in Nat : a = Points(m, l, k, p, q)
  BY <1>6, ScoreRange
<1>8. PICK d \in Nat : d = Points(n, 0, j, p, q)
  BY <1>6, ScoreRange
<1>9. PICK e \in Nat : e = Scale(m, q)
  BY <1>6, ScoreRange
<1>10. PICK f \in Nat : f = Scale(n, q)
  BY <1>6, <1>8, ScoreRange
<1>11. SlotScore(s) = <<a, e>> /\ SlotScore(b) = <<d, f>>
  BY <1>1, <1>2, <1>3, <1>4, <1>7, <1>8, <1>9, <1>10
<1>12. ~(d * e < a * f)
  BY <1>11 DEF Below
<1>13. a * f <= d * e
  <2>1. a * f \in Nat /\ d * e \in Nat
    BY ProductsGrow
  <2> QED
    BY <1>12, <2>1
<1>14. 3500 * l <= 6 * m
  <2>1. Points(m, l, k, p, q) * Scale(n, q) <= Points(n, 0, j, p, q) * Scale(m, q)
    BY <1>7, <1>8, <1>9, <1>10, <1>13
  <2> QED
    BY <1>5, <2>1, HoursOutweighLittle
<1>15. CASE Capacity[s] = 0
  <2>1. filled[s] = 0
    BY <1>15, SlotFacts
  <2> QED
    BY <1>15, <2>1
<1>16. CASE Capacity[s] # 0
  BY <1>1, <1>14, <1>16
<1> QED
  BY <1>15, <1>16

(* The slot that the loop keeps heads the list. *)
LEMMA BestSlotFits == ASSUME SalesTypeOK PROVE BestSlotLeads
<1>1. Offers # {} => BestSlot = Head(Recommended)
  BY FirstIsBest
<1>2. ASSUME NEW s \in Offers, SlotVendor[s] = SlotVendor[BestSlot], filled[BestSlot] = Capacity[BestSlot]
      PROVE  3500 * (Capacity[s] - filled[s]) <= 6 * Capacity[s]
  <2>1. PICK b \in Offers : b = BestSlot /\ ~Below(SlotScore(b), SlotScore(s))
    BY FirstIsBest
  <2> QED
    BY <1>2, <2>1, FullSlotsFollow
<1>3. ASSUME NEW s \in Offers PROVE "alternative" \in Reasons(s)
  <2>1. SlotScore(s) \in Quotient /\ Below(SlotScore(s), <<60, 1>>)
    BY ScoresAreLow
  <2>2. Below(SlotScore(s), <<80, 1>>)
    <3>1. PICK a \in Int, d \in Nat \ {0} : SlotScore(s) = <<a, d>>
      BY <2>1 DEF Quotient
    <3>2. a * 1 < 60 * d
      BY <2>1, <3>1 DEF Below
    <3>3. a * 1 < 80 * d
      BY <3>2
    <3> QED
      BY <3>1, <3>3 DEF Below
  <2> QED
    BY <2>1, <2>2 DEF Reasons
<1> QED
  BY <1>1, <1>2, <1>3 DEF BestSlotLeads

(* All that the parts say of a slot fits together. *)
LEMMA AdviceFits == ASSUME SalesTypeOK PROVE AdviceIsConsistent
BY ThresholdsFit, FullerFits, BestSlotFits DEF AdviceIsConsistent

-----------------------------------------------------------------------------
(* What vendors, admins, students and groups are told of the orders. *)

(* The columns by which the rows are counted. *)
HourKey == [i \in Rows |-> sales[i].hour]
DayKey == [i \in Rows |-> sales[i].day]
WeekdayKey == [i \in Rows |-> sales[i].day % 7]
UserKey == [i \in Rows |-> sales[i].user]
VendorKey == [i \in Rows |-> SlotVendor[sales[i].slot]]
StatusKey == [i \in Rows |-> sales[i].status]
KindKey == [i \in Rows |-> Kind[SlotVendor[sales[i].slot]]]
WeekHourKey == [i \in Rows |-> <<sales[i].hour, sales[i].day % 7>>]

(* GROUP BY counts the rows by one of them. *)
LEMMA TalliesAre ==
  ASSUME NEW I \in SUBSET Rows
  PROVE  /\ Tally(I, HourOf) = Tallied(I, HourKey)
         /\ Tally(I, DayOf) = Tallied(I, DayKey)
         /\ Tally(I, UserOf) = Tallied(I, UserKey)
         /\ Tally(I, VendorOf) = Tallied(I, VendorKey)
         /\ Tally(I, StatusOf) = Tallied(I, StatusKey)
         /\ Tally(I, LAMBDA i : sales[i].day % 7) = Tallied(I, WeekdayKey)
         /\ Tally(I, LAMBDA i : Kind[VendorOf(i)]) = Tallied(I, KindKey)
         /\ Tally(I, LAMBDA i : <<sales[i].hour, sales[i].day % 7>>) = Tallied(I, WeekHourKey)
<1>1. Tally(I, HourOf) = Tallied(I, HourKey)
  <2>1. \A i \in I : HourKey[i] = sales[i].hour
    BY DEF HourKey
  <2> QED
    BY <2>1 DEF Tally, Tallied, Counted, HourOf
<1>2. Tally(I, DayOf) = Tallied(I, DayKey)
  <2>1. \A i \in I : DayKey[i] = sales[i].day
    BY DEF DayKey
  <2> QED
    BY <2>1 DEF Tally, Tallied, Counted, DayOf
<1>3. Tally(I, UserOf) = Tallied(I, UserKey)
  <2>1. \A i \in I : UserKey[i] = sales[i].user
    BY DEF UserKey
  <2> QED
    BY <2>1 DEF Tally, Tallied, Counted, UserOf
<1>4. Tally(I, VendorOf) = Tallied(I, VendorKey)
  <2>1. \A i \in I : VendorKey[i] = SlotVendor[sales[i].slot]
    BY DEF VendorKey
  <2> QED
    BY <2>1 DEF Tally, Tallied, Counted, VendorOf
<1>5. Tally(I, StatusOf) = Tallied(I, StatusKey)
  <2>1. \A i \in I : StatusKey[i] = sales[i].status
    BY DEF StatusKey
  <2> QED
    BY <2>1 DEF Tally, Tallied, Counted, StatusOf
<1>6. Tally(I, LAMBDA i : sales[i].day % 7) = Tallied(I, WeekdayKey)
  <2>1. \A i \in I : WeekdayKey[i] = sales[i].day % 7
    BY DEF WeekdayKey
  <2> QED
    BY <2>1 DEF Tally, Tallied, Counted
<1>7. Tally(I, LAMBDA i : Kind[VendorOf(i)]) = Tallied(I, KindKey)
  <2>1. \A i \in I : KindKey[i] = Kind[SlotVendor[sales[i].slot]]
    BY DEF KindKey
  <2> QED
    BY <2>1 DEF Tally, Tallied, Counted, VendorOf
<1>8. Tally(I, LAMBDA i : <<sales[i].hour, sales[i].day % 7>>) = Tallied(I, WeekHourKey)
  <2>1. \A i \in I : WeekHourKey[i] = <<sales[i].hour, sales[i].day % 7>>
    BY DEF WeekHourKey
  <2> QED
    BY <2>1 DEF Tally, Tallied, Counted
<1> QED
  BY <1>1, <1>2, <1>3, <1>4, <1>5, <1>6, <1>7, <1>8

(* The total of a tally is the sum of its numbers. *)
LEMMA TotalIsSum == \A t : Total(t) = SumOf(t)
BY DEF Total, SumOf, MapThenSumSet

(* So a tally of rows adds up to their number. *)
LEMMA TotalsCount ==
  ASSUME SalesTypeOK, NEW I \in SUBSET Rows
  PROVE  /\ Total(Tally(I, HourOf)) = Cardinality(I) /\ Total(Tally(I, DayOf)) = Cardinality(I)
         /\ Total(Tally(I, VendorOf)) = Cardinality(I) /\ Total(Tally(I, StatusOf)) = Cardinality(I)
         /\ Total(Tally(I, LAMBDA i : Kind[VendorOf(i)])) = Cardinality(I)
         /\ IsFiniteSet(I) /\ Cardinality(I) \in Nat
<1>1. IsFiniteSet(I) /\ Cardinality(I) \in Nat
  BY SlotFacts, FS_Subset, FS_CardinalityType
<1>2. \A f : SumOf(Tallied(I, f)) = Cardinality(I)
  BY <1>1, TallyCounts
<1> QED
  BY <1>1, <1>2, TalliesAre, TotalIsSum

(* Rows since a later day are rows since an earlier one. *)
LEMMA SinceShrinks ==
  ASSUME SalesTypeOK
  PROVE  /\ Since(7) \subseteq Since(14) /\ Since(14) \subseteq Since(30) /\ Since(30) \subseteq Rows
         /\ Since(7) \subseteq Rows /\ Since(14) \subseteq Rows /\ Since(7) \subseteq Since(30)
<1>1. ASSUME NEW i \in Rows PROVE 24 * (today - sales[i].day) + hour - sales[i].hour \in Int
  <2>1. sales[i].day \in Int /\ sales[i].hour \in Int
    <3>1. PICK r \in Sale : r = sales[i]
      BY SlotFacts
    <3>2. r.day \in Int /\ r.hour \in DayHours
      BY DEF Sale
    <3>3. DayHours \subseteq Nat
      BY DayHoursHold
    <3>4. r.hour \in Nat
      BY <3>2, <3>3
    <3> QED
      BY <3>1, <3>2, <3>4
  <2>2. today \in Int /\ hour \in Int
    BY DayHoursHold DEF SalesTypeOK
  <2> QED
    BY <2>1, <2>2
<1> QED
  BY <1>1 DEF Since

(* There are finitely many vendors and slots. *)
LEMMA SellersAre ==
  /\ IsFiniteSet(Sellers) /\ Sellers \subseteq Nat
  /\ \A v : SlotsOf(v) \subseteq Offers /\ IsFiniteSet(SlotsOf(v))
<1>1. IsFiniteSet(Offers) /\ \A s \in Offers : SlotVendor[s] \in Nat
  BY OffersAre, SalesAssumption DEF Offers
<1>2. IsFiniteSet(Sellers)
  BY <1>1, ImageIsFinite DEF Sellers
<1> QED
  BY <1>1, <1>2, FS_Subset DEF Sellers, SlotsOf

(* The rows are numbered from 1. *)
LEMMA RowsAre ==
  ASSUME SalesTypeOK
  PROVE  Rows = 1 .. Len(sales) /\ Len(sales) \in Nat /\ Cardinality(Rows) = Len(sales) /\ IsFiniteSet(Rows)
<1>1. Rows = 1 .. Len(sales) /\ Len(sales) \in Nat
  BY DEF SalesTypeOK, Rows
<1>2. PICK n \in Nat : n = Len(sales)
  BY <1>1
<1>3. IsFiniteSet(1 .. n) /\ Cardinality(1 .. n) = IF 1 > n THEN 0 ELSE n - 1 + 1
  BY FS_Interval
<1> QED
  BY <1>1, <1>2, <1>3

(* Every row is in one field of a board. *)
LEMMA FieldsAddUp ==
  ASSUME SalesTypeOK, NEW A \in SUBSET Rows
  PROVE  Cardinality(A) =
           Cardinality(A \cap Having({"PLACED", "PENDING"})) + Cardinality(A \cap Having({"CONFIRMED"}))
           + Cardinality(A \cap Having({"READY", "READY_FOR_PICKUP"}))
           + Cardinality(A \cap Having({"PICKED", "COMPLETED"})) + Cardinality(A \cap Having({"CANCELLED"}))
<1>1. PICK p : p = A \cap Having({"PLACED", "PENDING"})
  OBVIOUS
<1>2. PICK c : c = A \cap Having({"CONFIRMED"})
  OBVIOUS
<1>3. PICK r : r = A \cap Having({"READY", "READY_FOR_PICKUP"})
  OBVIOUS
<1>4. PICK d : d = A \cap Having({"PICKED", "COMPLETED"})
  OBVIOUS
<1>5. PICK x : x = A \cap Having({"CANCELLED"})
  OBVIOUS
<1>6. \A i \in A : sales[i].status \in OrderStatus
  BY SlotFacts DEF Sale
<1>7. (((p \cup c) \cup r) \cup d) \cup x = A
  <2>1. \A i \in A : i \in p \/ i \in c \/ i \in r \/ i \in d \/ i \in x
    BY <1>1, <1>2, <1>3, <1>4, <1>5, <1>6 DEF Having, OrderStatus
  <2> QED
    BY <1>1, <1>2, <1>3, <1>4, <1>5, <2>1
<1>8. p \cap c = {} /\ (p \cup c) \cap r = {} /\ ((p \cup c) \cup r) \cap d = {}
  BY <1>1, <1>2, <1>3, <1>4 DEF Having
<1>9. (((p \cup c) \cup r) \cup d) \cap x = {}
  BY <1>1, <1>2, <1>3, <1>4, <1>5 DEF Having
<1>10. IsFiniteSet(p) /\ IsFiniteSet(c) /\ IsFiniteSet(r) /\ IsFiniteSet(d) /\ IsFiniteSet(x)
  <2>1. IsFiniteSet(A)
    BY RowsAre, FS_Subset
  <2> QED
    BY <1>1, <1>2, <1>3, <1>4, <1>5, <2>1, FS_Subset
<1>11. IsFiniteSet(p \cup c) /\ Cardinality(p \cup c) = Cardinality(p) + Cardinality(c)
  BY <1>8, <1>10, DisjointCounts
<1>12. /\ IsFiniteSet((p \cup c) \cup r)
       /\ Cardinality((p \cup c) \cup r) = Cardinality(p \cup c) + Cardinality(r)
  BY <1>8, <1>10, <1>11, DisjointCounts
<1>13. /\ IsFiniteSet(((p \cup c) \cup r) \cup d)
       /\ Cardinality(((p \cup c) \cup r) \cup d) = Cardinality((p \cup c) \cup r) + Cardinality(d)
  BY <1>8, <1>10, <1>12, DisjointCounts
<1>14. Cardinality(A) = Cardinality(((p \cup c) \cup r) \cup d) + Cardinality(x)
  BY <1>7, <1>9, <1>10, <1>13, DisjointCounts
<1> QED
  BY <1>1, <1>2, <1>3, <1>4, <1>5, <1>11, <1>12, <1>13, <1>14

(* The board of a vendor counts the rows under the vendor's key. *)
LEMMA BoardTotals ==
  ASSUME SalesTypeOK
  PROVE  /\ \A v : VendorBoard(v).total = Cardinality(OfVendor(v)) /\ OfVendor(v) \in SUBSET Rows
         /\ \A v : OfVendor(v) = {i \in Rows : VendorKey[i] = v}
         /\ Total([v \in Sellers |-> VendorBoard(v).total]) = Cardinality(Rows)
         /\ \A i \in Rows : VendorKey[i] \in Sellers
<1>1. \A v : VendorBoard(v).total = Cardinality(OfVendor(v))
  BY DEF VendorBoard
<1>2. \A v : OfVendor(v) = {i \in Rows : VendorKey[i] = v} /\ OfVendor(v) \in SUBSET Rows
  BY DEF OfVendor, VendorKey
<1>3. \A i \in Rows : VendorKey[i] \in Sellers
  <2>1. \A i \in Rows : sales[i].slot \in Offers
    BY SlotFacts DEF Sale
  <2> QED
    BY <2>1 DEF VendorKey, Sellers
<1>4. [v \in Sellers |-> VendorBoard(v).total] = Counted(Rows, VendorKey, Sellers)
  BY <1>1, <1>2 DEF Counted
<1>5. Keyed(Rows, VendorKey, Sellers) = Rows
  BY <1>3 DEF Keyed
<1>6. SumOf(Counted(Rows, VendorKey, Sellers)) = Cardinality(Keyed(Rows, VendorKey, Sellers))
  BY RowsAre, SellersAre, CountsAddUp
<1> QED
  BY <1>1, <1>2, <1>3, <1>4, <1>5, <1>6, TotalIsSum

(* A rounded quotient is 0 where the quotient is, and is not from a half on.  *)
LEMMA RoundedIs ==
  ASSUME NEW n \in Nat, NEW d \in Nat \ {0}
  PROVE  /\ Rounded(n, d) \in Nat
         /\ n = 0 => Rounded(n, d) = 0
         /\ 2 * n > d => Rounded(n, d) > 0
<1>1. PICK q \in Nat : q = n \div d
  BY MinutesRoundDown
<1>2. PICK r \in Int : r = n % d
  OBVIOUS
<1>3. (q = 0 => r = n) /\ (n = 0 => q = 0 /\ r = 0)
  BY <1>1, <1>2, SMTT(30)
<1>4. Rounded(n, d) = IF 2 * r > d \/ (2 * r = d /\ q % 2 = 1) THEN q + 1 ELSE q
  BY <1>1, <1>2 DEF Rounded
<1> QED
  BY <1>1, <1>2, <1>3, <1>4

(* A list of leaders that is not cut names every key. *)
LEMMA ShortListsAreWhole ==
  ASSUME NEW t, NEW D, D = DOMAIN t, IsFiniteSet(D), NEW n \in Nat, NEW K \in Leaders(t, n),
         Cardinality(K) < n
  PROVE  K = D
<1>1. PICK c \in Nat : c = Cardinality(D)
  BY FS_CardinalityType
<1>2. K \in SUBSET D /\ Cardinality(K) = Min({n, c})
  BY <1>1 DEF Leaders
<1>3. Cardinality(K) = c
  BY <1>2, MinOfTwo
<1> QED
  BY <1>1, <1>2, <1>3, SameSizeIsAll

(* One of the leaders has the greatest count. *)
LEMMA GreatestLeads ==
  ASSUME NEW D, IsFiniteSet(D), NEW t \in [D -> Nat], NEW n \in Nat \ {0}, NEW K \in Leaders(t, n),
         NEW x \in D, \A v \in D : t[v] <= t[x]
  PROVE  \E v \in K : t[v] = t[x]
<1>1. PICK c \in Nat \ {0} : c = Cardinality(D)
  BY FS_CardinalityType, FS_EmptySet
<1>2. DOMAIN t = D
  OBVIOUS
<1>3. K \in SUBSET D /\ Cardinality(K) = Min({n, c}) /\ \A k \in K, l \in D \ K : t[k] >= t[l]
  BY <1>1, <1>2 DEF Leaders
<1>4. K # {}
  BY <1>3, MinOfTwo, FS_EmptySet
<1>5. CASE x \in K
  BY <1>5
<1>6. CASE x \notin K
  <2>1. PICK k \in K : t[k] >= t[x]
    BY <1>3, <1>4, <1>6
  <2>2. t[k] \in Nat /\ t[x] \in Nat /\ t[k] <= t[x]
    BY <1>3
  <2>3. t[k] = t[x]
    BY <2>1, <2>2
  <2> QED
    BY <2>3
<1> QED
  BY <1>5, <1>6

(* Where there are no more keys than places, all of them lead. *)
LEMMA AllLead ==
  ASSUME NEW t, NEW D, D = DOMAIN t, IsFiniteSet(D), NEW n \in Nat, Cardinality(D) <= n
  PROVE  Leaders(t, n) = {D}
<1>1. PICK c \in Nat : c = Cardinality(D)
  BY FS_CardinalityType
<1>2. Min({n, c}) = c
  BY <1>1, MinOfTwo
<1>3. \A K \in SUBSET D : Cardinality(K) = c => K = D
  BY <1>1, SameSizeIsAll
<1> QED
  BY <1>1, <1>2, <1>3 DEF Leaders

(* So those who sold anything are the ten of the board. *)
LEMMA TopVendorsAre ==
  ASSUME SalesTypeOK, Cardinality(Sellers) <= 10
  PROVE  TopVendors = {{v \in Sellers : VendorBoard(v).total > 0}}
<1>1. PICK D : D = {VendorKey[i] : i \in Rows}
  OBVIOUS
<1>2. Tally(Rows, VendorOf) = Tallied(Rows, VendorKey) /\ DOMAIN Tallied(Rows, VendorKey) = D
  BY <1>1, RowsAre, TalliesAre, TallyCounts
<1>3. D \in SUBSET Sellers
  BY <1>1, BoardTotals
<1>4. IsFiniteSet(D) /\ Cardinality(D) <= 10
  <2>1. /\ IsFiniteSet(D) /\ Cardinality(D) <= Cardinality(Sellers)
        /\ Cardinality(D) \in Nat /\ Cardinality(Sellers) \in Nat
    BY <1>3, SellersAre, FS_Subset, FS_CardinalityType
  <2> QED
    BY <2>1
<1>5. Leaders(Tally(Rows, VendorOf), 10) = {D}
  BY <1>2, <1>4, AllLead
<1>6. ASSUME NEW v \in Sellers PROVE VendorBoard(v).total > 0 <=> v \in D
  <2>1. VendorBoard(v).total = Cardinality(OfVendor(v)) /\ IsFiniteSet(OfVendor(v))
    BY BoardTotals, RowsAre, FS_Subset
  <2>2. Cardinality(OfVendor(v)) > 0 <=> OfVendor(v) # {}
    BY <2>1, FS_EmptySet, FS_CardinalityType
  <2>3. OfVendor(v) # {} <=> v \in D
    BY <1>1, BoardTotals
  <2> QED
    BY <2>1, <2>2, <2>3
<1>7. D = {v \in Sellers : VendorBoard(v).total > 0}
  BY <1>3, <1>6
<1> QED
  BY <1>5, <1>7 DEF TopVendors

(* The boards of vendors and admin add up. *)
LEMMA BoardsFit == ASSUME SalesTypeOK PROVE BoardsAddUp
<1>1. ASSUME NEW v \in Sellers
      PROVE  LET b == VendorBoard(v)
             IN b.total = b.pending + b.confirmed + b.ready + b.completed + b.cancelled
  <2>1. OfVendor(v) \in SUBSET Rows
    BY BoardTotals
  <2> QED
    BY <2>1, FieldsAddUp DEF VendorBoard
<1>2. Total(OrderStatusBreakdown) = Total([v \in Sellers |-> VendorBoard(v).total])
  BY TotalsCount, BoardTotals DEF OrderStatusBreakdown
<1>3. Total(HoursOfAllTime) = Len(sales)
  BY TotalsCount, RowsAre DEF HoursOfAllTime
<1>4. Cardinality(Sellers) <= 10 => TopVendors = {{v \in Sellers : VendorBoard(v).total > 0}}
  BY TopVendorsAre
<1>5. WeekComparison.this + WeekComparison.last <= Len(sales) /\ WeekComparison.this <= Total(OrdersByDay)
  <2>1. PICK a : a = Since(7)
    OBVIOUS
  <2>2. PICK b : b = Since(14) \ Since(7)
    OBVIOUS
  <2>3. a \subseteq Rows /\ b \subseteq Rows /\ a \cup b \subseteq Rows /\ a \cap b = {} /\ a \subseteq Since(30)
    BY <2>1, <2>2, SinceShrinks
  <2>4. /\ IsFiniteSet(a) /\ IsFiniteSet(b) /\ IsFiniteSet(Since(30))
        /\ Cardinality(a) <= Cardinality(Since(30)) /\ Cardinality(a \cup b) <= Cardinality(Rows)
    BY <2>3, RowsAre, SinceShrinks, FS_Subset
  <2>5. Cardinality(a \cup b) = Cardinality(a) + Cardinality(b)
    BY <2>3, <2>4, DisjointCounts
  <2>6. Total(OrdersByDay) = Cardinality(Since(30))
    BY SinceShrinks, TotalsCount DEF OrdersByDay
  <2> QED
    BY <2>1, <2>2, <2>4, <2>5, <2>6, RowsAre DEF WeekComparison
<1>6. FraudRate <= 10000
  <2>1. PICK n \in Nat : n = Len(sales)
    BY RowsAre
  <2>2. PICK c \in Nat : c = Cardinality(flagged) /\ c <= n
    <3>1. flagged \subseteq Rows
      BY DEF SalesTypeOK
    <3> QED
      BY <2>1, <3>1, RowsAre, FS_Subset, FS_CardinalityType
  <2>3. CASE Rows = {}
    BY <2>3 DEF FraudRate
  <2>4. CASE Rows # {}
    <3>1. n \in Nat \ {0}
      BY <2>1, <2>4, RowsAre, FS_EmptySet
    <3>2. \A x \in Nat, y \in Nat \ {0} : x <= y => (10000 * x) \div y <= 10000
      BY SMTT(30)
    <3>3. (10000 * c) \div n <= 10000
      BY <2>2, <3>1, <3>2
    <3> QED
      BY <2>1, <2>2, <2>4, <3>3 DEF FraudRate
  <2> QED
    BY <2>3, <2>4
<1> QED
  BY <1>1, <1>2, <1>3, <1>4, <1>5, <1>6 DEF BoardsAddUp

(* The orders of thirty days, which the plan stands on. *)
Month(v) == OfVendor(v) \cap Since(30)

(* They are finitely many, and those of a week are among them. *)
LEMMA MonthsAre ==
  ASSUME SalesTypeOK, NEW v
  PROVE  /\ Month(v) \in SUBSET Rows /\ IsFiniteSet(Month(v)) /\ Cardinality(Month(v)) \in Nat
         /\ OfVendor(v) \cap Since(7) \in SUBSET Month(v)
<1>1. Month(v) \in SUBSET Rows /\ OfVendor(v) \cap Since(7) \in SUBSET Month(v)
  BY SinceShrinks DEF Month
<1> QED
  BY <1>1, RowsAre, FS_Subset, FS_CardinalityType

(* Seven days of the forecast are less than the month. *)
LEMMA ForecastFits ==
  ASSUME SalesTypeOK, NEW v
  PROVE  Total(ForecastOf(v)) <= Cardinality(Month(v))
<1>1. PICK n \in Nat : n = Cardinality(Month(v))
  BY MonthsAre
<1>2. PICK c \in Nat : c = (105 * n) \div 3000
  BY MinutesRoundDown
<1>3. 7 * c <= n
  BY <1>2, SMTT(30)
<1>4. PICK D : D = 1 .. 7
  OBVIOUS
<1>5. IsFiniteSet(D) /\ Cardinality(D) = 7
  <2>1. PICK m \in Nat : m = 7
    OBVIOUS
  <2>2. IsFiniteSet(1 .. m) /\ Cardinality(1 .. m) = IF 1 > m THEN 0 ELSE m - 1 + 1
    BY FS_Interval
  <2> QED
    BY <1>4, <2>1, <2>2
<1>6. PICK f : f = [day \in D |-> c]
  OBVIOUS
<1>7. ForecastOf(v) = f
  BY <1>1, <1>2, <1>4, <1>6 DEF ForecastOf, Month
<1>8. SumOf(f) <= c * Cardinality(D)
  <2>1. f \in [D -> Nat] /\ \A x \in D : f[x] <= c
    BY <1>6
  <2> QED
    BY <1>5, <2>1, SumAtMost
<1>9. SumOf(f) \in Nat
  BY <1>5, <1>6, SumOfNaturals
<1>10. c * 7 <= n
  BY <1>3
<1> QED
  BY <1>1, <1>5, <1>7, <1>8, <1>9, <1>10, TotalIsSum

(* Adding up the days of the week leaves a tally by hours. *)
LEMMA HourTotalsAre ==
  ASSUME SalesTypeOK, NEW v
  PROVE  /\ HourTotals(v) = Tallied(Month(v), HourKey)
         /\ DailyPattern(v) = Tallied(Month(v), WeekHourKey)
<1>1. DailyPattern(v) = Tallied(Month(v), WeekHourKey)
  BY MonthsAre, TalliesAre DEF DailyPattern, Month
<1>2. PICK A : A = Month(v)
  OBVIOUS
<1>3. A \in SUBSET Rows /\ IsFiniteSet(A)
  BY <1>2, MonthsAre
<1>4. \A i \in A : WeekHourKey[i] = <<sales[i].hour, sales[i].day % 7>> /\ HourKey[i] = sales[i].hour
  BY <1>3 DEF WeekHourKey, HourKey
<1>5. PICK W : W = {WeekHourKey[i] : i \in A}
  OBVIOUS
<1>6. DOMAIN DailyPattern(v) = W /\ \A k \in W : DailyPattern(v)[k] = Cardinality({i \in A : WeekHourKey[i] = k})
  BY <1>1, <1>2, <1>5 DEF Tallied, Counted
<1>7. IsFiniteSet(W)
  BY <1>3, <1>5, ImageIsFinite
<1> DEFINE Under(h) == {k \in W : k[1] = h}
<1>8. {k[1] : k \in W} = {HourKey[i] : i \in A}
  BY <1>4, <1>5
<1>9. ASSUME NEW h PROVE Total([k \in Under(h) |-> DailyPattern(v)[k]]) = Cardinality({i \in A : HourKey[i] = h})
  <2>1. PICK K : K = Under(h)
    OBVIOUS
  <2>2. K \in SUBSET W /\ IsFiniteSet(K)
    BY <1>7, <2>1, FS_Subset
  <2>3. [k \in K |-> DailyPattern(v)[k]] = Counted(A, WeekHourKey, K)
    BY <1>6, <2>2 DEF Counted
  <2>4. SumOf(Counted(A, WeekHourKey, K)) = Cardinality(Keyed(A, WeekHourKey, K))
    BY <1>3, <2>2, CountsAddUp
  <2>5. Keyed(A, WeekHourKey, K) = {i \in A : HourKey[i] = h}
    BY <1>4, <1>5, <2>1 DEF Keyed
  <2> HIDE DEF Under
  <2> QED
    BY <2>1, <2>3, <2>4, <2>5, TotalIsSum
<1>10. HourTotals(v) = [h \in {k[1] : k \in W} |-> Total([k \in Under(h) |-> DailyPattern(v)[k]])]
  BY <1>6 DEF HourTotals
<1>11. Tallied(A, HourKey) = [h \in {HourKey[i] : i \in A} |-> Cardinality({i \in A : HourKey[i] = h})]
  BY DEF Tallied, Counted
<1> HIDE DEF Under
<1>12. HourTotals(v) = Tallied(A, HourKey)
  BY <1>8, <1>9, <1>10, <1>11
<1> QED
  BY <1>1, <1>2, <1>12

(* A vendor whose capacity needs no change could have served the busiest hour. *)
LEMMA GapsFit ==
  ASSUME SalesTypeOK, NEW v, CapacityGap(v) <= 0
  PROVE  PeakDemand(v) <= TotalCapacity(v)
<1>1. PICK W : W = {WeekHourKey[i] : i \in Month(v)}
  OBVIOUS
<1>2. PICK t : t = Tallied(Month(v), WeekHourKey)
  OBVIOUS
<1>3. IsFiniteSet(W) /\ t \in [W -> Nat \ {0}] /\ t = DailyPattern(v)
  BY <1>1, <1>2, MonthsAre, HourTotalsAre, TallyCounts
<1>4. PICK C : C = {0} \cup {t[k] : k \in W}
  OBVIOUS
<1>5. PeakDemand(v) = Max(C)
  <2>1. DOMAIN t = W
    BY <1>3
  <2> QED
    BY <1>3, <1>4, <2>1 DEF PeakDemand
<1>6. IsFiniteSet(C) /\ C \subseteq Int /\ C # {} /\ C \subseteq Nat
  <2>1. IsFiniteSet({t[k] : k \in W})
    BY <1>3, ImageIsFinite
  <2>2. IsFiniteSet({t[k] : k \in W} \cup {0})
    BY <2>1, FS_AddElement
  <2>3. C = {t[k] : k \in W} \cup {0}
    BY <1>4
  <2>4. C \subseteq Nat /\ C # {}
    BY <1>3, <1>4
  <2> QED
    BY <2>2, <2>3, <2>4
<1>7. PICK p \in Nat : p = PeakDemand(v)
  BY <1>5, <1>6, MaxIsGreatest
<1>8. PICK c \in Nat : c = TotalCapacity(v)
  <2>1. PICK f : f = [s \in SlotsOf(v) |-> Capacity[s]]
    OBVIOUS
  <2>2. f \in [SlotsOf(v) -> Nat]
    BY <2>1, SellersAre, SlotFacts
  <2>3. SumOf(f) \in Nat
    BY <2>2, SellersAre, SumOfNaturals
  <2> QED
    BY <2>1, <2>3, TotalIsSum DEF TotalCapacity
<1>9. (12 * p) \div 10 - c <= 0
  BY <1>7, <1>8 DEF CapacityGap, OptimalCapacity
<1>10. p <= (12 * p) \div 10
  BY SMTT(30)
<1> QED
  BY <1>7, <1>8, <1>9, <1>10

(* The first of the rows whose key none exceeds is one of them. *)
LEMMA FirstOfLeaders ==
  ASSUME SalesTypeOK, NEW I \in SUBSET Rows, I # {}, NEW f
  PROVE  LET top == {i \in I : \A k \in DOMAIN Tallied(I, f) : Tallied(I, f)[f[i]] >= Tallied(I, f)[k]}
         IN  Min(top) \in I /\ \A k \in DOMAIN Tallied(I, f) : Tallied(I, f)[f[Min(top)]] >= Tallied(I, f)[k]
<1>1. PICK t : t = Tallied(I, f)
  OBVIOUS
<1>2. PICK D : D = {f[i] : i \in I}
  OBVIOUS
<1>3. IsFiniteSet(I) /\ IsFiniteSet(D) /\ t \in [D -> Nat \ {0}] /\ D # {}
  <2>1. IsFiniteSet(I)
    BY RowsAre, FS_Subset
  <2> QED
    BY <1>1, <1>2, <2>1, TallyCounts
<1>4. PICK x \in D : \A k \in D : t[x] >= t[k]
  BY <1>3, LeaderExists
<1> DEFINE top == {i \in I : \A k \in D : t[f[i]] >= t[k]}
<1>5. top # {} /\ top \subseteq I
  BY <1>2, <1>4
<1>6. top \subseteq Int /\ IsFiniteSet(top)
  BY <1>3, <1>5, RowsAre, FS_Subset
<1>7. Min(top) \in top
  <2> HIDE DEF top
  <2> QED
    BY <1>5, <1>6, MinIsLeast
<1>8. DOMAIN Tallied(I, f) = D
  BY <1>1, <1>3
<1> QED
  BY <1>1, <1>7, <1>8

(* The hour and the day of the week that the board calls the busiest. *)
LEMMA PeakHourIs ==
  ASSUME SalesTypeOK, NEW v, OfVendor(v) # {}
  PROVE  /\ PeakHour(v) \in {HourKey[i] : i \in OfVendor(v)}
         /\ \A k \in {HourKey[i] : i \in OfVendor(v)} :
              Tallied(OfVendor(v), HourKey)[PeakHour(v)] >= Tallied(OfVendor(v), HourKey)[k]
<1>1. PICK I \in SUBSET Rows : I = OfVendor(v)
  BY BoardTotals
<1>2. PICK t : t = Tallied(I, HourKey)
  OBVIOUS
<1>3. DOMAIN t = {HourKey[i] : i \in I} /\ Tally(I, HourOf) = t
  <2>1. IsFiniteSet(I)
    BY <1>1, RowsAre, FS_Subset
  <2>2. DOMAIN t = {HourKey[i] : i \in I}
    BY <1>2, <2>1, TallyCounts
  <2> QED
    BY <1>2, <2>2, TalliesAre
<1> DEFINE top == {i \in I : \A k \in DOMAIN t : t[HourKey[i]] >= t[k]}
<1>4. Min(top) \in I /\ \A k \in DOMAIN t : t[HourKey[Min(top)]] >= t[k]
  BY <1>1, <1>2, FirstOfLeaders
<1>5. PeakHour(v) = HourKey[Min(top)]
  <2>1. \A i \in I : HourKey[i] = sales[i].hour
    BY DEF HourKey
  <2>2. top = {i \in I : \A k \in DOMAIN t : t[sales[i].hour] >= t[k]}
    BY <2>1
  <2>3. PeakHour(v) = sales[Min({i \in I : \A k \in DOMAIN t : t[sales[i].hour] >= t[k]})].hour
    BY <1>1, <1>3 DEF PeakHour, FirstLeader, HourOf
  <2> HIDE DEF top
  <2> QED
    BY <1>4, <2>1, <2>2, <2>3
<1> HIDE DEF top
<1> QED
  BY <1>1, <1>2, <1>3, <1>4, <1>5

(* The busiest day is the weekday of an order. *)
LEMMA BusiestDayIs ==
  ASSUME SalesTypeOK, NEW v, OfVendor(v) # {}
  PROVE  BusiestDay(v) \in {sales[i].day % 7 : i \in OfVendor(v)}
<1>1. PICK I \in SUBSET Rows : I = OfVendor(v)
  BY BoardTotals
<1>2. PICK t : t = Tallied(I, WeekdayKey)
  OBVIOUS
<1>3. Tally(I, LAMBDA i : sales[i].day % 7) = t
  BY <1>1, <1>2, TalliesAre
<1> DEFINE top == {i \in I : \A k \in DOMAIN t : t[WeekdayKey[i]] >= t[k]}
<1>4. Min(top) \in I
  BY <1>1, <1>2, FirstOfLeaders
<1>5. BusiestDay(v) = sales[Min(top)].day % 7
  <2>1. \A i \in I : WeekdayKey[i] = sales[i].day % 7
    BY DEF WeekdayKey
  <2>2. top = {i \in I : \A k \in DOMAIN t : t[sales[i].day % 7] >= t[k]}
    BY <2>1
  <2>3. BusiestDay(v) = sales[Min({i \in I : \A k \in DOMAIN t : t[sales[i].day % 7] >= t[k]})].day % 7
    BY <1>1, <1>3 DEF BusiestDay, FirstLeader
  <2> HIDE DEF top
  <2> QED
    BY <2>2, <2>3
<1> HIDE DEF top
<1> QED
  BY <1>1, <1>4, <1>5

(* Of the busiest hours that the database may answer some include any hour   *)
(* that none exceeds.                                                        *)
LEMMA PeakLeads ==
  ASSUME SalesTypeOK, NEW v, OfVendor(v) # {}, OfVendor(v) \subseteq Since(30)
  PROVE  \E K \in PeakHours(v) : PeakHour(v) \in K
<1>1. PICK D : D = {HourKey[i] : i \in OfVendor(v)}
  OBVIOUS
<1>2. PICK t : t = Tallied(OfVendor(v), HourKey)
  OBVIOUS
<1>3. PICK x : x = PeakHour(v)
  OBVIOUS
<1>4. x \in D /\ \A k \in D : t[x] >= t[k]
  BY <1>1, <1>2, <1>3, PeakHourIs
<1>5. IsFiniteSet(OfVendor(v))
  BY BoardTotals, RowsAre, FS_Subset
<1>6. IsFiniteSet(D) /\ t \in [D -> Nat \ {0}]
  BY <1>1, <1>2, <1>5, TallyCounts
<1>7. HourTotals(v) = t /\ DOMAIN t = D
  <2>1. Month(v) = OfVendor(v)
    BY DEF Month
  <2> QED
    BY <1>2, <1>6, <2>1, HourTotalsAre
<1>8. PICK c \in Nat : c = Cardinality(D) /\ c # 0
  BY <1>4, <1>6, FS_CardinalityType, FS_EmptySet
<1>9. PICK n \in 1 .. c : n = Min({3, c})
  <2>1. Min({3, c}) = IF 3 <= c THEN 3 ELSE c
    BY MinOfTwo
  <2>2. (IF 3 <= c THEN 3 ELSE c) \in 1 .. c
    BY <1>8
  <2> QED
    BY <2>1, <2>2
<1>10. PICK K \in SUBSET D : x \in K /\ Cardinality(K) = n /\ \A k \in K, l \in D \ K : t[k] >= t[l]
  <2>1. \A k \in D : t[k] \in Nat
    BY <1>6
  <2> QED
    BY <1>4, <1>6, <1>8, <2>1, LeadingSetsExist
<1>11. K \in Leaders(t, 3)
  BY <1>7, <1>8, <1>9, <1>10 DEF Leaders
<1> QED
  BY <1>3, <1>7, <1>10, <1>11 DEF PeakHours

(* What the calendar of the month says of hours and days. *)
LEMMA PatternsFit ==
  ASSUME SalesTypeOK, NEW v
  PROVE  /\ OfVendor(v) # {} => PeakHour(v) \in DOMAIN HoursOfAllTime
         /\ OfVendor(v) # {} /\ OfVendor(v) \subseteq Since(30)
              => BusiestDay(v) \in {k[2] : k \in DOMAIN DailyPattern(v)}
         /\ Volatile(v) => "scheduling" \in PlanningAdvice(v)
<1>1. DOMAIN DailyPattern(v) = {WeekHourKey[i] : i \in Month(v)}
  BY MonthsAre, HourTotalsAre, TallyCounts
<1>2. OfVendor(v) \in SUBSET Rows
  BY BoardTotals
<1>3. ASSUME OfVendor(v) # {} PROVE PeakHour(v) \in DOMAIN HoursOfAllTime
  <2>1. DOMAIN HoursOfAllTime = {HourKey[i] : i \in Rows}
    <3>1. HoursOfAllTime = Tallied(Rows, HourKey)
      BY TalliesAre DEF HoursOfAllTime
    <3> QED
      BY <3>1, RowsAre, TallyCounts
  <2>2. PeakHour(v) \in {HourKey[i] : i \in OfVendor(v)}
    BY <1>3, PeakHourIs
  <2> QED
    BY <1>2, <2>1, <2>2
<1>4. ASSUME OfVendor(v) # {}, OfVendor(v) \subseteq Since(30)
      PROVE  BusiestDay(v) \in {k[2] : k \in DOMAIN DailyPattern(v)}
  <2>1. PICK i \in OfVendor(v) : BusiestDay(v) = sales[i].day % 7
    BY <1>4, BusiestDayIs
  <2>2. i \in Month(v) /\ WeekHourKey[i] = <<sales[i].hour, sales[i].day % 7>>
    BY <1>2, <1>4 DEF Month, WeekHourKey
  <2>3. WeekHourKey[i][2] = BusiestDay(v) /\ WeekHourKey[i] \in DOMAIN DailyPattern(v)
    BY <1>1, <2>1, <2>2
  <2> QED
    BY <2>3
<1>5. ASSUME Volatile(v) PROVE "scheduling" \in PlanningAdvice(v)
  <2>1. Tally(Month(v), DayOf) = Tallied(Month(v), DayKey)
    BY MonthsAre, TalliesAre
  <2>2. DOMAIN Tallied(Month(v), DayKey) = {DayKey[i] : i \in Month(v)}
    BY MonthsAre, TallyCounts
  <2>3. Cardinality(DOMAIN Tally(Month(v), DayOf)) >= 2
    BY <1>5 DEF Volatile, Month
  <2>4. {DayKey[i] : i \in Month(v)} # {}
    BY <2>1, <2>2, <2>3, FS_EmptySet
  <2>5. Month(v) # {}
    BY <2>4
  <2>6. DOMAIN DailyPattern(v) # {}
    BY <1>1, <2>5
  <2> QED
    BY <2>6 DEF PlanningAdvice
<1> QED
  BY <1>3, <1>4, <1>5

(* The busy hours of the week are hours of the month, and no other is named. *)
LEMMA BusyHoursFit ==
  ASSUME SalesTypeOK, NEW v, NEW K \in BusyHours(v)
  PROVE  /\ K \subseteq DOMAIN HourTotals(v)
         /\ AdjustmentSignals(v, K) \cap {<<"peak_hour_detected", h>> : h \in DayHours \ K} = {}
<1>1. PICK W : W = OfVendor(v) \cap Since(7)
  OBVIOUS
<1>2. W \in SUBSET Month(v) /\ W \in SUBSET Rows /\ IsFiniteSet(W)
  <2>1. W \in SUBSET Month(v) /\ W \in SUBSET Rows
    BY <1>1, MonthsAre
  <2> QED
    BY <2>1, MonthsAre, FS_Subset
<1>3. BusyHours(v) = Leaders(Tallied(W, HourKey), 3)
  BY <1>1, <1>2, TalliesAre DEF BusyHours
<1>4. K \subseteq {HourKey[i] : i \in W}
  <2>1. DOMAIN Tallied(W, HourKey) = {HourKey[i] : i \in W}
    BY <1>2, TallyCounts
  <2> QED
    BY <1>3, <2>1 DEF Leaders
<1>5. DOMAIN HourTotals(v) = {HourKey[i] : i \in Month(v)}
  BY MonthsAre, HourTotalsAre, TallyCounts
<1>6. ASSUME NEW h \in DayHours \ K PROVE <<"peak_hour_detected", h>> \notin AdjustmentSignals(v, K)
  BY DEF AdjustmentSignals
<1> QED
  BY <1>2, <1>4, <1>5, <1>6

(* No slot is advised to take more than the largest does. *)
LEMMA AdviceStaysWithin ==
  ASSUME SalesTypeOK, NEW v
  PROVE  RecommendedCapacity(v) <= Max({5} \cup {Capacity[s] : s \in SlotsOf(v)})
<1>1. PICK C : C = {Capacity[s] : s \in SlotsOf(v)} \cup {5}
  OBVIOUS
<1>2. IsFiniteSet(C) /\ C \subseteq Nat /\ C \subseteq Int /\ C # {}
  <2>1. IsFiniteSet({Capacity[s] : s \in SlotsOf(v)})
    BY SellersAre, ImageIsFinite
  <2>2. IsFiniteSet(C)
    BY <1>1, <2>1, FS_AddElement
  <2>3. C \subseteq Nat
    BY <1>1, SellersAre, SlotFacts
  <2> QED
    BY <1>1, <2>2, <2>3
<1>3. PICK m \in Nat : m = Max(C) /\ \A c \in C : m >= c
  BY <1>2, MaxIsGreatest
<1>4. PICK S : S = UsedSlots(v)
  OBVIOUS
<1>5. S \subseteq SlotsOf(v) /\ IsFiniteSet(S)
  BY <1>4, SellersAre, FS_Subset DEF UsedSlots
<1>6. PICK f : f = [s \in S |-> filled[s]]
  OBVIOUS
<1>7. f \in [S -> Nat] /\ \A s \in S : f[s] <= m
  <2>1. ASSUME NEW s \in S PROVE filled[s] \in Nat /\ filled[s] <= m
    <3>1. s \in Offers /\ Capacity[s] \in C
      BY <1>1, <1>5, SellersAre
    <3>2. PICK a \in Nat, b \in Nat : a = filled[s] /\ b = Capacity[s] /\ a <= b /\ m >= b
      BY <1>3, <3>1, SlotFacts
    <3> QED
      BY <3>2
  <2> QED
    BY <1>6, <2>1
<1>8. PICK o \in Nat : o = SumOf(f) /\ o <= m * Cardinality(S)
  BY <1>5, <1>7, SumOfNaturals, SumAtMost
<1>9. SpeedFactor(v) \in {80, 100}
  <2>1. OfVendor(v) \cap Since(7) \cap Having({"completed"}) = {}
    BY SlotFacts DEF Having, Sale, OrderStatus
  <2>2. ASSUME OfVendor(v) \cap Since(7) # {} PROVE SpeedFactor(v) = 80
    <3>1. PICK n \in Nat \ {0} : n = Cardinality(OfVendor(v) \cap Since(7))
      <4>1. IsFiniteSet(OfVendor(v) \cap Since(7))
        BY MonthsAre, FS_Subset
      <4> QED
        BY <2>2, <4>1, FS_CardinalityType, FS_EmptySet
    <3>2. Cardinality({}) = 0 /\ (40 * 0) \div n = 0
      BY FS_EmptySet
    <3>3. SpeedFactor(v) = 80 + (40 * Cardinality(OfVendor(v) \cap Since(7) \cap Having({"completed"})))
                                 \div Cardinality(OfVendor(v) \cap Since(7))
      BY <2>2 DEF SpeedFactor
    <3>4. SpeedFactor(v) = 80 + (40 * 0) \div n
      BY <2>1, <3>1, <3>2, <3>3
    <3> QED
      BY <3>2, <3>4
  <2>3. ASSUME OfVendor(v) \cap Since(7) = {} PROVE SpeedFactor(v) = 100
    BY <2>3 DEF SpeedFactor
  <2> QED
    BY <2>2, <2>3
<1>10. PICK g \in Nat : g = (IF S = {} THEN 0 ELSE (o * SpeedFactor(v)) \div (100 * Cardinality(S))) /\ g <= m
  <2>1. CASE S = {}
    BY <2>1
  <2>2. CASE S # {}
    <3>1. PICK n \in Nat \ {0} : n = Cardinality(S)
      BY <1>5, <2>2, FS_CardinalityType, FS_EmptySet
    <3>2. PICK p \in {80, 100} : p = SpeedFactor(v)
      BY <1>9
    <3>3. \A a, b \in Nat, c \in Nat \ {0} : a <= b * c => (a * 80) \div (100 * c) <= b /\ (a * 100) \div (100 * c) <= b
      <4> SUFFICES ASSUME NEW a \in Nat, NEW b \in Nat, NEW c \in Nat \ {0}, a <= b * c
                   PROVE  (a * 80) \div (100 * c) <= b /\ (a * 100) \div (100 * c) <= b
        OBVIOUS
      <4>1. PICK d \in Nat \ {0} : d = 100 * c
        OBVIOUS
      <4>2. PICK e \in Nat : e = b * d
        BY ProductsGrow
      <4>3. e = 100 * (b * c)
        BY <4>1, <4>2, SMTT(30)
      <4>4. b * c \in Nat
        BY ProductsGrow
      <4>5. a * 80 <= e /\ a * 100 <= e
        BY <4>3, <4>4
      <4>6. \A x, y \in Nat, z \in Nat \ {0} : x <= y * z => x \div z <= y
        BY SMTT(30)
      <4> QED
        BY <4>1, <4>2, <4>5, <4>6
    <3>4. (o * p) \div (100 * n) <= m
      BY <1>8, <3>1, <3>2, <3>3
    <3>5. (o * p) \div (100 * n) \in Nat
      BY <3>2, MinutesRoundDown
    <3> QED
      BY <2>2, <3>1, <3>2, <3>4, <3>5
  <2> QED
    BY <2>1, <2>2
<1>11. RecommendedCapacity(v) = Max({5, Min({g, 50})})
  <2>1. Total([s \in UsedSlots(v) |-> filled[s]]) = o
    BY <1>4, <1>6, <1>8, TotalIsSum
  <2> QED
    BY <1>4, <1>10, <2>1 DEF RecommendedCapacity
<1>12. Max({5, Min({g, 50})}) <= m
  <2>1. PICK h \in Nat : h = Min({g, 50}) /\ h <= m
    <3>1. Min({g, 50}) = IF g <= 50 THEN g ELSE 50
      BY MinOfTwo
    <3>2. (IF g <= 50 THEN g ELSE 50) \in Nat /\ (IF g <= 50 THEN g ELSE 50) <= m
      BY <1>10
    <3> QED
      BY <3>1, <3>2
  <2>2. 5 <= m
    BY <1>1, <1>3
  <2>3. Max({5, h}) = IF 5 >= h THEN 5 ELSE h
    BY MaxOfTwo
  <2> QED
    BY <2>1, <2>2, <2>3
<1>13. {5} \cup {Capacity[s] : s \in SlotsOf(v)} = C
  BY <1>1
<1> QED
  BY <1>3, <1>11, <1>12, <1>13

(* The plan stands on the orders. *)
LEMMA PlanFits == ASSUME SalesTypeOK PROVE PlanStandsOnOrders
<1> SUFFICES ASSUME NEW v \in Sellers
             PROVE  /\ Total(ForecastOf(v)) <= Cardinality(OfVendor(v) \cap Since(30))
                    /\ Total(HourTotals(v)) = Cardinality(OfVendor(v) \cap Since(30))
                    /\ CapacityGap(v) <= 0 => PeakDemand(v) <= TotalCapacity(v)
                    /\ OfVendor(v) # {} => PeakHour(v) \in DOMAIN HoursOfAllTime
                    /\ OfVendor(v) # {} /\ OfVendor(v) \subseteq Since(30)
                         => /\ \E K \in PeakHours(v) : PeakHour(v) \in K
                            /\ BusiestDay(v) \in {k[2] : k \in DOMAIN DailyPattern(v)}
                    /\ Volatile(v) => "scheduling" \in PlanningAdvice(v)
                    /\ \A K \in BusyHours(v) :
                         /\ K \subseteq DOMAIN HourTotals(v)
                         /\ AdjustmentSignals(v, K) \cap {<<"peak_hour_detected", h>> : h \in DayHours \ K} = {}
                    /\ RecommendedCapacity(v) <= Max({5} \cup {Capacity[s] : s \in SlotsOf(v)})
  BY DEF PlanStandsOnOrders
<1>1. Total(ForecastOf(v)) <= Cardinality(OfVendor(v) \cap Since(30))
  BY ForecastFits DEF Month
<1>2. Total(HourTotals(v)) = Cardinality(OfVendor(v) \cap Since(30))
  BY MonthsAre, HourTotalsAre, TallyCounts, TotalIsSum DEF Month
<1>3. CapacityGap(v) <= 0 => PeakDemand(v) <= TotalCapacity(v)
  BY GapsFit
<1>4. OfVendor(v) # {} /\ OfVendor(v) \subseteq Since(30) => \E K \in PeakHours(v) : PeakHour(v) \in K
  BY PeakLeads
<1>5. \A K \in BusyHours(v) :
        /\ K \subseteq DOMAIN HourTotals(v)
        /\ AdjustmentSignals(v, K) \cap {<<"peak_hour_detected", h>> : h \in DayHours \ K} = {}
  BY BusyHoursFit
<1>6. RecommendedCapacity(v) <= Max({5} \cup {Capacity[s] : s \in SlotsOf(v)})
  BY AdviceStaysWithin
<1> QED
  BY <1>1, <1>2, <1>3, <1>4, <1>5, <1>6, PatternsFit

(* The quotients between 0 and m. *)
Upto(m) == {q \in Nat \X (Nat \ {0}) : q[1] <= m * q[2]}

(* Their bounds add up. *)
LEMMA PlusAddsBounds ==
  ASSUME NEW m \in Nat, NEW n \in Nat, NEW q \in Upto(m), NEW r \in Upto(n)
  PROVE  Plus(q, r) \in Upto(m + n)
<1>1. PICK a \in Nat, b \in Nat \ {0}, c \in Nat, d \in Nat \ {0} :
        a = q[1] /\ b = q[2] /\ c = r[1] /\ d = r[2] /\ a <= m * b /\ c <= n * d
  BY DEF Upto
<1>2. Plus(q, r) = <<a * d + c * b, b * d>>
  BY <1>1 DEF Plus
<1>3. a * d \in Nat /\ c * b \in Nat /\ b * d \in Nat \ {0} /\ m * b \in Nat /\ n * d \in Nat
  BY ProductsGrow
<1>4. a * d <= (m * b) * d /\ c * b <= (n * d) * b
  BY <1>1, <1>3, ProductsGrow
<1>5. (m * b) * d = m * (b * d) /\ (n * d) * b = n * (b * d)
  BY SMTT(30)
<1>6. (m + n) * (b * d) = m * (b * d) + n * (b * d)
  BY SMTT(30)
<1>7. a * d + c * b <= (m + n) * (b * d)
  <2>1. PICK x \in Nat, y \in Nat, z \in Nat, w \in Nat :
          x = a * d /\ y = c * b /\ z = m * (b * d) /\ w = n * (b * d)
    BY <1>3, ProductsGrow
  <2>2. x <= z /\ y <= w
    BY <1>4, <1>5, <2>1
  <2> QED
    BY <1>6, <2>1, <2>2
<1>8. <<a * d + c * b, b * d>> \in Nat \X (Nat \ {0})
  BY <1>3
<1> QED
  BY <1>2, <1>7, <1>8 DEF Upto

(* A weight is the bound of what is weighed. *)
LEMMA WeightsBound ==
  ASSUME NEW w \in Nat, NEW q \in Upto(1)
  PROVE  <<w * q[1], q[2]>> \in Upto(w)
<1>1. PICK a \in Nat, b \in Nat \ {0} : a = q[1] /\ b = q[2] /\ a <= b
  BY DEF Upto
<1>2. w * a \in Nat /\ w * a <= w * b
  <2>1. a * w <= b * w /\ a * w \in Nat
    BY <1>1, ProductsGrow
  <2> QED
    BY <2>1
<1> QED
  BY <1>1, <1>2 DEF Upto

(* A share is a quotient between 0 and 1. *)
LEMMA SharesAreUpto ==
  ASSUME NEW whole, IsFiniteSet(whole), NEW P \in SUBSET whole
  PROVE  Share(P, whole, <<1, 2>>) \in Upto(1)
<1>1. PICK p \in Nat, q \in Nat \ {0} : p <= q /\ Share(P, whole, <<1, 2>>) = <<p, q>>
  BY ShareIsPart
<1> QED
  BY <1>1 DEF Upto

-----------------------------------------------------------------------------
(* A function that adds up the quotients f over every subset. *)
Adds(g, f, S) ==
  g = [s \in SUBSET S |-> IF s = {} THEN <<0, 1>> ELSE Plus(f[Pick(s)], g[s \ {Pick(s)}])]

(* What it is for one of them, ... *)
LEMMA AddsValue ==
  ASSUME NEW S, NEW f, NEW g, Adds(g, f, S), NEW U \in SUBSET S
  PROVE  g[U] = IF U = {} THEN <<0, 1>> ELSE Plus(f[Pick(U)], g[U \ {Pick(U)}])
BY DEF Adds

(* ... that two of them agree, ... *)
LEMMA AddsAgree ==
  ASSUME NEW A, IsFiniteSet(A), NEW B, NEW f, NEW g, NEW h, Adds(g, f, A), Adds(h, f, B)
  PROVE  \A U \in SUBSET A : U \in SUBSET B => g[U] = h[U]
<1> DEFINE T == {U \in SUBSET A : U \in SUBSET B => g[U] = h[U]}
<1>1. ASSUME NEW U \in SUBSET A, \A V \in SUBSET U : V # U => V \in T
      PROVE  U \in T
  <2> SUFFICES ASSUME U \in SUBSET B PROVE g[U] = h[U]
    OBVIOUS
  <2>1. CASE U = {}
    BY <2>1, AddsValue
  <2>2. CASE U # {}
    <3> DEFINE V == U \ {Pick(U)}
    <3>1. V \in SUBSET U /\ V # U
      BY <2>2, PickIn
    <3>2. g[V] = h[V]
      BY <1>1, <3>1
    <3>3. g[U] = Plus(f[Pick(U)], g[V]) /\ h[U] = Plus(f[Pick(U)], h[V])
      BY <2>2, AddsValue
    <3> QED
      BY <3>2, <3>3
  <2> QED
    BY <2>1, <2>2
<1>2. \A U \in SUBSET A : U \in T
  <2> HIDE DEF T
  <2> QED
    BY <1>1, SubsetInduction
<1> QED
  BY <1>2

(* ... and that there is one for every finite set. *)
LEMMA AddsExist ==
  ASSUME NEW S, IsFiniteSet(S), NEW f
  PROVE  \E g : Adds(g, f, S)
<1> DEFINE T == {U \in SUBSET S : \E g : Adds(g, f, U)}
<1>1. ASSUME NEW U \in SUBSET S, \A V \in SUBSET U : V # U => V \in T
      PROVE  U \in T
  <2> DEFINE sum[V \in SUBSET U] == CHOOSE g : Adds(g, f, V)
             value[V \in SUBSET U] ==
               IF V = {} THEN <<0, 1>>
               ELSE Plus(f[Pick(V)], sum[V \ {Pick(V)}][V \ {Pick(V)}])
  <2>1. \A V \in SUBSET U : V # U => Adds(sum[V], f, V)
    BY <1>1
  <2>2. ASSUME NEW V \in SUBSET U, V # U
        PROVE  value[V] = sum[V][V]
    <3>1. Adds(sum[V], f, V)
      BY <2>1, <2>2
    <3>2. CASE V = {}
      <4>1. value[V] = <<0, 1>>
        BY <3>2
      <4>2. sum[V][V] = <<0, 1>>
        <5> HIDE DEF sum, value
        <5> QED
          BY <3>1, <3>2, AddsValue
      <4> QED
        BY <4>1, <4>2
    <3>3. CASE V # {}
      <4> DEFINE X == V \ {Pick(V)}
      <4>1. X \in SUBSET V /\ X \in SUBSET U /\ X # U
        BY <3>3, PickIn
      <4>2. Adds(sum[X], f, X)
        BY <2>1, <4>1
      <4>3. IsFiniteSet(X)
        BY <4>1, FS_Subset
      <4>4. sum[X][X] = sum[V][X]
        <5> HIDE DEF sum, X
        <5> QED
          BY <3>1, <4>1, <4>2, <4>3, AddsAgree
      <4>5. sum[V][V] = Plus(f[Pick(V)], sum[V][X])
        <5> HIDE DEF sum
        <5> QED
          BY <3>1, <3>3, AddsValue
      <4> QED
        BY <3>3, <4>4, <4>5
    <3> QED
      BY <3>2, <3>3
  <2>3. Adds(value, f, U)
    <3>1. ASSUME NEW V \in SUBSET U, V # {}
          PROVE  value[V] = Plus(f[Pick(V)], value[V \ {Pick(V)}])
      <4>1. V \ {Pick(V)} \in SUBSET U /\ V \ {Pick(V)} # U
        BY <3>1, PickIn
      <4>2. value[V \ {Pick(V)}] = sum[V \ {Pick(V)}][V \ {Pick(V)}]
        <5> HIDE DEF sum, value
        <5> QED
          BY <2>2, <4>1
      <4>3. value[V] = Plus(f[Pick(V)], sum[V \ {Pick(V)}][V \ {Pick(V)}])
        BY <3>1
      <4> QED
        BY <4>2, <4>3
    <3>2. value[{}] = <<0, 1>>
      OBVIOUS
    <3>3. value = [V \in SUBSET U |-> value[V]]
      OBVIOUS
    <3> QED
      <4> HIDE DEF value
      <4> QED
        BY <3>1, <3>2, <3>3 DEF Adds
  <2> QED
    BY <2>3
<1>2. S \in T
  <2> HIDE DEF T
  <2> QED
    BY <1>1, SubsetInduction
<1> QED
  BY <1>2

(* A sum of quotients between 0 and 1 is at most their number. *)
LEMMA AddsBounded ==
  ASSUME NEW S, IsFiniteSet(S), NEW f \in [S -> Upto(1)], NEW g, Adds(g, f, S)
  PROVE  Cardinality(S) \in Nat /\ g[S] \in Upto(Cardinality(S))
<1> DEFINE T == {U \in SUBSET S : g[U] \in Upto(Cardinality(U))}
<1>1. ASSUME NEW U \in SUBSET S, \A V \in SUBSET U : V # U => V \in T
      PROVE  U \in T
  <2>1. CASE U = {}
    <3>1. g[U] = <<0, 1>> /\ Cardinality(U) = 0
      BY <2>1, AddsValue, FS_EmptySet
    <3>2. <<0, 1>> \in Upto(0)
      BY DEF Upto
    <3> QED
      BY <3>1, <3>2
  <2>2. CASE U # {}
    <3>1. PICK c, V : c = Pick(U) /\ V = U \ {c}
      OBVIOUS
    <3>2. c \in U /\ V \in SUBSET U /\ V # U /\ V \in SUBSET S
      BY <2>2, <3>1, PickIn
    <3>3. g[U] = Plus(f[c], g[V])
      <4>1. g[U] = Plus(f[Pick(U)], g[U \ {Pick(U)}])
        <5> HIDE DEF T
        <5> QED
          BY <2>2 DEF Adds
      <4> QED
        BY <3>1, <4>1
    <3>4. IsFiniteSet(U)
      BY FS_Subset
    <3>5. PICK n \in Nat : n = Cardinality(V)
      BY <3>2, FS_Subset, FS_CardinalityType
    <3>6. Cardinality(U) = 1 + n
      <4>1. Cardinality(U \ {c}) = Cardinality(U) - 1
        BY <3>2, <3>4, FS_RemoveElement
      <4>2. Cardinality(U) \in Nat
        BY <3>4, FS_CardinalityType
      <4> QED
        BY <3>1, <3>5, <4>1, <4>2
    <3>7. g[V] \in Upto(n) /\ f[c] \in Upto(1)
      BY <1>1, <3>2, <3>5
    <3>8. Plus(f[c], g[V]) \in Upto(1 + n)
      BY <3>7, PlusAddsBounds
    <3> QED
      BY <3>3, <3>6, <3>8
  <2> QED
    BY <2>1, <2>2
<1>2. S \in T
  <2> HIDE DEF T
  <2> QED
    BY <1>1, SubsetInduction
<1> QED
  BY <1>2, FS_CardinalityType

(* The average load of the slots of a vendor is between 0 and 1. *)
LEMMA UtilisationIsPart ==
  ASSUME SalesTypeOK, NEW v
  PROVE  Utilisation(v) \in Upto(1)
<1>1. PICK S : S = SlotsOf(v)
  OBVIOUS
<1>2. IsFiniteSet(S) /\ S \subseteq Offers
  BY <1>1, SellersAre
<1>3. CASE S = {}
  <2>1. Utilisation(v) = <<1, 2>>
    BY <1>1, <1>3 DEF Utilisation
  <2> QED
    BY <2>1 DEF Upto
<1>4. CASE S # {}
  <2> DEFINE f == [s \in S |-> <<filled[s], Max({Capacity[s], 1})>>]
             Step(g) == g = [s \in SUBSET S |->
                               IF s = {} THEN <<0, 1>>
                               ELSE Plus(<<filled[Pick(s)], Max({Capacity[Pick(s)], 1})>>, g[s \ {Pick(s)}])]
             h == CHOOSE g : Step(g)
  <2>1. Utilisation(v) = <<h[S][1], h[S][2] * Cardinality(S)>>
    BY <1>1, <1>4 DEF Utilisation, FoldSet, MapThenFoldSet, Pick
  <2>2. f \in [S -> Upto(1)]
    <3> SUFFICES ASSUME NEW s \in S PROVE <<filled[s], Max({Capacity[s], 1})>> \in Upto(1)
      OBVIOUS
    <3>1. PICK x \in Nat, c \in Nat : x = filled[s] /\ c = Capacity[s] /\ x <= c
      BY <1>2, SlotFacts
    <3>2. Max({c, 1}) = IF c >= 1 THEN c ELSE 1
      BY MaxOfTwo
    <3> QED
      BY <3>1, <3>2 DEF Upto
  <2>3. \A s \in S : <<filled[s], Max({Capacity[s], 1})>> = f[s]
    OBVIOUS
  <2> HIDE DEF f
  <2>4. \A g : Step(g) <=> Adds(g, f, S)
    <3> TAKE g
    <3>1. \A s \in SUBSET S : s # {} => <<filled[Pick(s)], Max({Capacity[Pick(s)], 1})>> = f[Pick(s)]
      BY <2>3, PickIn
    <3>2. [s \in SUBSET S |-> IF s = {} THEN <<0, 1>>
             ELSE Plus(<<filled[Pick(s)], Max({Capacity[Pick(s)], 1})>>, g[s \ {Pick(s)}])]
           = [s \in SUBSET S |-> IF s = {} THEN <<0, 1>> ELSE Plus(f[Pick(s)], g[s \ {Pick(s)}])]
      BY <3>1
    <3> QED
      BY <3>2 DEF Adds
  <2>5. Adds(h, f, S)
    <3>1. \E g : Adds(g, f, S)
      BY <1>2, AddsExist
    <3>2. \E g : Step(g)
      BY <2>4, <3>1
    <3>3. Step(h)
      BY <3>2
    <3> QED
      BY <2>4, <3>3
  <2>6. PICK n \in Nat : n = Cardinality(S) /\ n # 0
    BY <1>2, <1>4, FS_CardinalityType, FS_EmptySet
  <2> HIDE DEF h
  <2>7. h[S] \in Upto(n)
    BY <1>2, <2>2, <2>5, <2>6, AddsBounded
  <2>8. PICK a \in Nat, b \in Nat \ {0} : a = h[S][1] /\ b = h[S][2] /\ a <= n * b
    BY <2>7 DEF Upto
  <2>9. b * n \in Nat \ {0} /\ n * b = b * n
    BY <2>6, ProductsGrow
  <2>10. <<a, b * n>> \in Upto(1)
    BY <2>8, <2>9 DEF Upto
  <2> QED
    BY <2>1, <2>6, <2>8, <2>10
<1> QED
  BY <1>3, <1>4

(* Every rank is between 0 and 100. *)
LEMMA RankIsPart ==
  ASSUME SalesTypeOK, NEW v
  PROVE  RankScore(v) \in Nat /\ RankScore(v) <= 10000
<1>1. PICK a, b, c, d, e : /\ a = CompletionRate(v, 30, <<1, 2>>) /\ b = Success(v, 30)
                           /\ c = Satisfaction(v) /\ d = Utilisation(v) /\ e = Success(v, 7)
  OBVIOUS
<1>2. a \in Upto(1)
  <2>1. PICK p \in Nat, q \in Nat \ {0} : p <= q /\ a = <<p, q>>
    BY <1>1, RateIsPart
  <2> QED
    BY <2>1 DEF Upto
<1>3. ASSUME NEW days PROVE Success(v, days) \in Upto(1)
  <2>1. PICK whole : whole = OfVendor(v) \cap Since(days)
    OBVIOUS
  <2>2. PICK P : P = OfVendor(v) \cap Having({"COMPLETED", "CONFIRMED"}) \cap Since(days)
    OBVIOUS
  <2>3. P \in SUBSET whole /\ whole \in SUBSET Rows
    BY <2>1, <2>2 DEF OfVendor
  <2>4. IsFiniteSet(whole)
    BY <2>3, SlotFacts, FS_Subset
  <2>5. Success(v, days) = Share(P, whole, <<1, 2>>)
    BY <2>1, <2>2 DEF Success
  <2> QED
    BY <2>3, <2>4, <2>5, SharesAreUpto
<1>4. c \in Upto(1)
  <2>1. PICK I : I = OfVendor(v) \cap Since(30)
    OBVIOUS
  <2>2. I \in SUBSET Rows /\ IsFiniteSet(I)
    <3>1. I \in SUBSET Rows
      BY <2>1 DEF OfVendor
    <3> QED
      BY <3>1, SlotFacts, FS_Subset
  <2>3. PICK t : t = Tally(I, UserOf)
    OBVIOUS
  <2>4. PICK D : D = DOMAIN t
    OBVIOUS
  <2>5. IsFiniteSet(D)
    <3>1. t = Tallied(I, UserKey)
      BY <2>2, <2>3, TalliesAre
    <3>2. D = {UserKey[i] : i \in I}
      BY <2>2, <2>4, <3>1, TallyCounts
    <3> QED
      <4>1. IsFiniteSet({UserKey[i] : i \in I})
        BY <2>2, ImageIsFinite
      <4> QED
        BY <3>2, <4>1
  <2>6. PICK P \in SUBSET D : P = {u \in D : t[u] > 1}
    OBVIOUS
  <2>7. c = Share(P, D, <<1, 2>>)
    BY <1>1, <2>1, <2>3, <2>4, <2>6 DEF Satisfaction
  <2> QED
    BY <2>5, <2>6, <2>7, SharesAreUpto
<1>5. b \in Upto(1) /\ d \in Upto(1) /\ e \in Upto(1)
  BY <1>1, <1>3, UtilisationIsPart
<1>6. /\ <<30 * a[1], a[2]>> \in Upto(30) /\ <<25 * b[1], b[2]>> \in Upto(25)
      /\ <<20 * c[1], c[2]>> \in Upto(20) /\ <<15 * d[1], d[2]>> \in Upto(15)
      /\ <<10 * e[1], e[2]>> \in Upto(10)
  BY <1>2, <1>4, <1>5, WeightsBound
<1>7. PICK month, usage : /\ month = Plus(<<30 * a[1], a[2]>>, <<25 * b[1], b[2]>>)
                          /\ usage = Plus(<<20 * c[1], c[2]>>, <<15 * d[1], d[2]>>)
  OBVIOUS
<1>8. month \in Upto(55) /\ usage \in Upto(35)
  <2>1. month \in Upto(30 + 25)
    BY <1>6, <1>7, PlusAddsBounds
  <2>2. usage \in Upto(20 + 15)
    BY <1>6, <1>7, PlusAddsBounds
  <2> QED
    BY <2>1, <2>2
<1>9. PICK score : score = Plus(Plus(month, usage), <<10 * e[1], e[2]>>)
  OBVIOUS
<1>10. score \in Upto(100)
  <2>1. Plus(month, usage) \in Upto(55 + 35)
    BY <1>8, PlusAddsBounds
  <2>2. Plus(month, usage) \in Upto(90)
    BY <2>1
  <2>3. score \in Upto(90 + 10)
    BY <1>6, <1>9, <2>2, PlusAddsBounds
  <2> QED
    BY <2>3
<1>11. RankScore(v) = (200 * score[1] + score[2]) \div (2 * score[2])
  BY <1>1, <1>7, <1>9 DEF RankScore
<1>12. PICK x \in Nat, y \in Nat \ {0} : x = score[1] /\ y = score[2] /\ x <= 100 * y
  BY <1>10 DEF Upto
<1>13. PICK n \in Nat, k \in Nat \ {0} : n = 200 * x + y /\ k = 2 * y /\ n < 10001 * k
  BY <1>12
<1>14. PICK r : r = n \div k
  OBVIOUS
<1>15. RankScore(v) = r
  BY <1>11, <1>12, <1>13, <1>14
<1>16. r \in Nat /\ r <= 10000
  BY <1>13, <1>14, SMTT(30)
<1> QED
  BY <1>15, <1>16

(* The order of the ranking, ... *)
Outranks(v, w) ==
  \/ RankScore(v) > RankScore(w)
  \/ RankScore(v) = RankScore(w) /\ v < w

(* ... as a set of pairs. *)
RankOrder == {p \in Sellers \X Sellers : Outranks(p[1], p[2])}

(* It is total and strict. *)
LEMMA RankOrderIsTotal == ASSUME SalesTypeOK PROVE TotallyOrders(RankOrder, Sellers)
<1>1. \A v, w \in Sellers : <<v, w>> \in RankOrder <=> Outranks(v, w)
  BY DEF RankOrder
<1>2. \A v \in Sellers : RankScore(v) \in Nat /\ v \in Nat
  BY RankIsPart, SellersAre
<1>3. /\ \A v \in Sellers : ~Outranks(v, v)
      /\ \A v, w \in Sellers : v # w => Outranks(v, w) \/ Outranks(w, v)
      /\ \A u, v, w \in Sellers : Outranks(u, v) /\ Outranks(v, w) => Outranks(u, w)
  BY <1>2 DEF Outranks
<1> HIDE DEF Outranks
<1> QED
  BY <1>1, <1>3 DEF TotallyOrders

(* The ranking is a list of the vendors in that order. *)
LEMMA RankingLists == ASSUME SalesTypeOK PROVE Lists(Ranking, Sellers, RankOrder)
<1> DEFINE n == Cardinality(Sellers)
           Sorted(q) == \A i, j \in 1 .. n : i < j => Outranks(q[i], q[j])
<1>1. Ranking = CHOOSE q \in [1 .. n -> Sellers] : Sorted(q)
  BY DEF Ranking, InOrder, Outranks
<1>2. \A q \in [1 .. n -> Sellers] : Lists(q, Sellers, RankOrder) <=> Sorted(q)
  BY DEF Lists, RankOrder
<1>3. PICK r : Lists(r, Sellers, RankOrder)
  BY SellersAre, RankOrderIsTotal, ListsExist
<1>4. r \in [1 .. n -> Sellers]
  BY <1>3 DEF Lists
<1>5. \E q \in [1 .. n -> Sellers] : Sorted(q)
  BY <1>2, <1>3, <1>4
<1> HIDE DEF Sorted
<1>6. Ranking \in [1 .. n -> Sellers] /\ Sorted(Ranking)
  BY <1>1, <1>5
<1> QED
  BY <1>2, <1>6

(* Every vendor is in it once, and the last has no better score than another. *)
LEMMA RankingIsComplete ==
  ASSUME SalesTypeOK
  PROVE  /\ ToSet(Ranking) = Sellers /\ Len(Ranking) = Cardinality(Sellers)
         /\ \A v \in Sellers : /\ Ranking[Len(Ranking)] \in Sellers
                               /\ RankScore(Ranking[Len(Ranking)]) <= RankScore(v)
<1>1. PICK n \in Nat : n = Cardinality(Sellers)
  BY SellersAre, FS_CardinalityType
<1>2. PICK q : q = Ranking
  OBVIOUS
<1>3. /\ q \in [1 .. n -> Sellers]
      /\ \A i, j \in 1 .. n : i < j => <<q[i], q[j]>> \in RankOrder
  BY <1>1, <1>2, RankingLists DEF Lists
<1>4. Len(q) = n /\ DOMAIN q = 1 .. n
  BY <1>3
<1>5. \A v \in Sellers : \E i \in 1 .. n : q[i] = v
  BY <1>1, <1>2, SellersAre, RankOrderIsTotal, RankingLists, ListsAreComplete
<1>6. ToSet(q) = Sellers
  <2>1. ToSet(q) = {q[i] : i \in 1 .. n}
    BY <1>4 DEF ToSet
  <2> QED
    BY <1>3, <1>5, <2>1
<1>7. ASSUME NEW v \in Sellers PROVE q[n] \in Sellers /\ RankScore(q[n]) <= RankScore(v)
  <2>1. PICK i \in 1 .. n : q[i] = v
    BY <1>5
  <2>2. n \in 1 .. n /\ q[n] \in Sellers
    BY <1>3, <2>1
  <2>3. RankScore(q[n]) \in Nat /\ RankScore(v) \in Nat
    BY RankIsPart
  <2>4. CASE i = n
    BY <2>1, <2>2, <2>3, <2>4
  <2>5. CASE i # n
    <3>1. <<v, q[n]>> \in RankOrder
      BY <1>3, <2>1, <2>2, <2>5
    <3>2. Outranks(v, q[n])
      BY <3>1 DEF RankOrder
    <3> QED
      BY <2>2, <2>3, <3>2 DEF Outranks
  <2> QED
    BY <2>4, <2>5
<1> QED
  BY <1>1, <1>2, <1>4, <1>6, <1>7

-----------------------------------------------------------------------------
(* The load of all slots of a vendor as two sums. *)
LEMMA LoadsAre ==
  ASSUME SalesTypeOK, NEW v
  PROVE  \E f, c \in [SlotsOf(v) -> Nat] :
           /\ \A s \in SlotsOf(v) : f[s] = filled[s] /\ c[s] = Capacity[s] /\ f[s] <= c[s]
           /\ TotalFilled(v) = SumOf(f) /\ TotalCapacity(v) = SumOf(c)
           /\ SumOf(f) \in Nat /\ SumOf(c) \in Nat /\ \A s \in SlotsOf(v) : c[s] <= SumOf(c)
<1>1. PICK S : S = SlotsOf(v)
  OBVIOUS
<1>2. IsFiniteSet(S) /\ S \subseteq Offers
  BY <1>1, SellersAre
<1>3. PICK f, c : f = [s \in S |-> filled[s]] /\ c = [s \in S |-> Capacity[s]]
  OBVIOUS
<1>4. \A s \in S : filled[s] \in Nat /\ Capacity[s] \in Nat /\ filled[s] <= Capacity[s]
  BY <1>2, SlotFacts
<1>5. /\ f \in [S -> Nat] /\ c \in [S -> Nat]
      /\ \A s \in S : f[s] = filled[s] /\ c[s] = Capacity[s] /\ f[s] <= c[s]
  BY <1>3, <1>4
<1>6. TotalFilled(v) = SumOf(f) /\ TotalCapacity(v) = SumOf(c)
  BY <1>1, <1>3, TotalIsSum DEF TotalFilled, TotalCapacity
<1>7. SumOf(f) \in Nat /\ SumOf(c) \in Nat /\ \A s \in S : c[s] <= SumOf(c)
  BY <1>2, <1>5, SumOfNaturals
<1> QED
  BY <1>1, <1>5, <1>6, <1>7

(* Where every slot is less than half full or has no places, the sum is so. *)
LEMMA LowLoadsAddUp ==
  ASSUME NEW S, IsFiniteSet(S), NEW f \in [S -> Nat], NEW c \in [S -> Nat],
         \A s \in S : f[s] <= c[s] /\ (c[s] <= 0 \/ 2 * f[s] < c[s])
  PROVE  SumOf(c) <= 0 \/ 2 * SumOf(f) < SumOf(c)
<1>1. SumOf(f) \in Nat /\ SumOf(c) \in Nat /\ \A s \in S : c[s] <= SumOf(c)
  BY SumOfNaturals
<1> SUFFICES ASSUME SumOf(c) # 0 PROVE 2 * SumOf(f) < SumOf(c)
  BY <1>1
<1>2. PICK x \in S : c[x] # 0
  <2>1. SUFFICES ASSUME \A s \in S : c[s] = 0 PROVE FALSE
    OBVIOUS
  <2>2. c \in [S -> {0}]
    BY <2>1
  <2> QED
    BY <2>2, SumOfZeros
<1> DEFINE d == [c EXCEPT ![x] = @ - 1]
<1>3. d \in [S -> Nat] /\ d[x] = c[x] - 1 /\ \A s \in S \ {x} : d[s] = c[s]
  BY <1>2
<1>4. \A s \in S : 2 * f[s] <= 1 * d[s]
  <2> SUFFICES ASSUME NEW s \in S PROVE 2 * f[s] <= d[s]
    BY <1>3
  <2>1. PICK p \in Nat, q \in Nat : p = f[s] /\ q = c[s] /\ p <= q /\ (q <= 0 \/ 2 * p < q)
    OBVIOUS
  <2>2. 2 * p <= q
    BY <2>1
  <2> QED
    BY <1>2, <1>3, <2>1, <2>2
<1> HIDE DEF d
<1>5. SumOf(d) \in Nat
  BY <1>3, SumOfNaturals
<1>6. 2 * SumOf(f) <= 1 * SumOf(d)
  BY <1>3, <1>4, SumsCompare
<1>7. SumOf(d) = (SumOf(c) - c[x]) + d[x]
  <2>1. c \in [S -> Int] /\ d \in [S -> Int]
    BY <1>3
  <2> QED
    BY <1>3, <2>1, SumUpdate
<1>8. PICK a \in Nat, b \in Nat, e \in Nat, k \in Nat :
        a = SumOf(f) /\ b = SumOf(c) /\ e = SumOf(d) /\ k = c[x]
  BY <1>1, <1>5
<1>9. 2 * a <= e /\ e = (b - k) + (k - 1)
  BY <1>3, <1>6, <1>7, <1>8
<1> QED
  BY <1>8, <1>9

(* What the ranking says of the load of a vendor some slot says too. *)
LEMMA LoadsFit ==
  ASSUME SalesTypeOK, NEW v
  PROVE  /\ \A label \in {"LOW", "HIGH"} :
              SlotsOf(v) # {} /\ (\A s \in SlotsOf(v) : SlotLabel(s) = label)
                => LiveLoad(v) = label
         /\ LiveExpress(v) => \E s \in SlotsOf(v) : s \notin Overloaded
<1>1. PICK S : S = SlotsOf(v)
  OBVIOUS
<1>2. IsFiniteSet(S) /\ S \subseteq Offers
  BY <1>1, SellersAre
<1>3. PICK f \in [S -> Nat], c \in [S -> Nat] :
        /\ \A s \in S : f[s] = filled[s] /\ c[s] = Capacity[s] /\ f[s] <= c[s]
        /\ TotalFilled(v) = SumOf(f) /\ TotalCapacity(v) = SumOf(c)
        /\ SumOf(f) \in Nat /\ SumOf(c) \in Nat /\ \A s \in S : c[s] <= SumOf(c)
  BY <1>1, LoadsAre
<1>4. PICK F \in Nat, C \in Nat : F = SumOf(f) /\ C = SumOf(c)
  BY <1>3
<1>5. \A s \in S : SlotLabel(s) = LoadLabel(f[s], c[s])
  BY <1>3 DEF SlotLabel
<1>6. ASSUME S # {} PROVE LiveLoad(v) = LoadLabel(F, C)
  BY <1>1, <1>3, <1>4, <1>6 DEF LiveLoad
<1>7. ASSUME S # {}, \A s \in S : LoadLabel(f[s], c[s]) = "LOW"
      PROVE  LoadLabel(F, C) = "LOW"
  <2>1. \A s \in S : c[s] <= 0 \/ 2 * f[s] < c[s]
    BY <1>7 DEF LoadLabel
  <2>2. C <= 0 \/ 2 * F < C
    BY <1>2, <1>3, <1>4, <2>1, LowLoadsAddUp
  <2> QED
    BY <2>2 DEF LoadLabel
<1>8. ASSUME S # {}, \A s \in S : LoadLabel(f[s], c[s]) = "HIGH"
      PROVE  LoadLabel(F, C) = "HIGH"
  <2>1. \A s \in S : c[s] > 0 /\ 8 * c[s] <= 10 * f[s]
    BY <1>8 DEF LoadLabel
  <2>2. 8 * C <= 10 * F
    BY <1>2, <1>4, <2>1, SumsCompare
  <2>3. C > 0
    BY <1>3, <1>4, <1>8, <2>1
  <2> QED
    BY <2>2, <2>3 DEF LoadLabel
<1>9. ASSUME LiveExpress(v) PROVE \E s \in S : s \notin Overloaded
  <2>1. S # {} /\ C > 0 /\ LoadLabel(F, C) # "HIGH"
    BY <1>1, <1>3, <1>4, <1>9 DEF LiveExpress, ExpressEligible
  <2>2. 10 * F < 8 * C
    BY <2>1 DEF LoadLabel
  <2> SUFFICES ASSUME \A s \in S : s \in Overloaded PROVE FALSE
    OBVIOUS
  <2>3. \A s \in S : 9 * c[s] <= 10 * f[s]
    BY <1>2, <1>3 DEF Overloaded
  <2>4. 9 * C <= 10 * F
    BY <1>2, <1>4, <2>3, SumsCompare
  <2> QED
    BY <2>1, <2>2, <2>4
<1>10. ASSUME NEW label \in {"LOW", "HIGH"}, S # {}, \A s \in S : SlotLabel(s) = label
       PROVE  LiveLoad(v) = label
  BY <1>5, <1>6, <1>7, <1>8, <1>10
<1> QED
  BY <1>1, <1>9, <1>10

(* The ranking is sound. *)
LEMMA RankingFits == ASSUME SalesTypeOK PROVE RankingIsSound
<1>1. ASSUME NEW v \in Sellers, RankReason(v) = "poor"
      PROVE  RankReason(Ranking[Len(Ranking)]) = "poor"
  <2>1. PICK w : w = Ranking[Len(Ranking)]
    OBVIOUS
  <2>2. w \in Sellers /\ RankScore(w) <= RankScore(v)
    BY <2>1, RankingIsComplete
  <2>3. PICK a \in Nat, b \in Nat : a = RankScore(w) /\ b = RankScore(v)
    BY RankIsPart
  <2>4. b < 4000
    BY <1>1, <2>3 DEF RankReason
  <2>5. a < 4000
    BY <2>2, <2>3, <2>4
  <2> QED
    BY <2>1, <2>3, <2>5 DEF RankReason
<1>2. ASSUME NEW v \in Sellers PROVE RankScore(v) >= 0 /\ RankScore(v) <= 10000
  BY RankIsPart
<1>3. ToSet(Ranking) = Sellers /\ Len(Ranking) = Cardinality(Sellers)
  BY RankingIsComplete
<1>4. ASSUME NEW v \in Sellers
      PROVE  /\ \A label \in {"LOW", "HIGH"} :
                  SlotsOf(v) # {} /\ (\A s \in SlotsOf(v) : SlotLabel(s) = label)
                    => LiveLoad(v) = label
             /\ LiveExpress(v) => \E s \in SlotsOf(v) : s \notin Overloaded
  BY LoadsFit
<1> QED
  BY <1>1, <1>2, <1>3, <1>4 DEF RankingIsSound

(* No row has a status in small letters, so that no query for one finds any. *)
LEMMA NoSmallLetters ==
  ASSUME SalesTypeOK
  PROVE  /\ Having({"cancelled"}) = {} /\ Having({"completed"}) = {}
         /\ Having({"confirmed", "preparing"}) = {}
<1>1. ASSUME NEW i \in Rows PROVE sales[i].status \notin {"cancelled", "completed", "confirmed", "preparing"}
  <2>1. PICK r \in Sale : r = sales[i]
    BY SlotFacts
  <2>2. r.status \in OrderStatus
    BY DEF Sale
  <2> QED
    BY <2>1, <2>2 DEF OrderStatus
<1> QED
  BY <1>1 DEF Having

(* The orders of a student in thirty days. *)
Own(u) == OfUser(u) \cap Since(30)

(* They are finitely many, those of a week among them, and every count of them *)
(* counts them all.                                                            *)
LEMMA OwnAre ==
  ASSUME SalesTypeOK, NEW u
  PROVE  /\ Own(u) \in SUBSET Rows /\ IsFiniteSet(Own(u)) /\ Cardinality(Own(u)) \in Nat
         /\ OfUser(u) \cap Since(7) \subseteq Own(u)
         /\ Total(CategoryPreferences(u)) = Cardinality(Own(u))
         /\ Total(Loyalty(u)) = Cardinality(Own(u))
         /\ Loyalty(u) = Tallied(Own(u), VendorKey)
         /\ CategoryPreferences(u) = Tallied(Own(u), KindKey)
<1>1. PICK I \in SUBSET Rows : I = Own(u)
  BY SinceShrinks DEF Own
<1>2. OfUser(u) \cap Since(7) \subseteq I
  BY <1>1, SinceShrinks DEF Own
<1>3. I \ Having({"cancelled"}) = I
  BY NoSmallLetters
<1>4. CategoryPreferences(u) = Tally(I, LAMBDA i : Kind[VendorOf(i)])
  BY <1>1, <1>3 DEF CategoryPreferences, Categories, Own
<1>5. Loyalty(u) = Tally(I, VendorOf)
  BY <1>1 DEF Loyalty, Own
<1>6. /\ Tally(I, VendorOf) = Tallied(I, VendorKey)
      /\ Tally(I, LAMBDA i : Kind[VendorOf(i)]) = Tallied(I, KindKey)
  BY TalliesAre
<1>7. /\ Total(Tally(I, VendorOf)) = Cardinality(I)
      /\ Total(Tally(I, LAMBDA i : Kind[VendorOf(i)])) = Cardinality(I)
      /\ IsFiniteSet(I) /\ Cardinality(I) \in Nat
  BY TotalsCount
<1> QED
  BY <1>1, <1>2, <1>4, <1>5, <1>6, <1>7

(* Some category is preferred as soon as there is an order. *)
LEMMA DiversityFits ==
  ASSUME SalesTypeOK, NEW u
  PROVE  Diversity(u) > 0 <=> Own(u) # {}
<1>1. PICK D : D = DOMAIN CategoryPreferences(u)
  OBVIOUS
<1>2. D = {KindKey[i] : i \in Own(u)}
  BY <1>1, OwnAre, TallyCounts
<1>3. IsFiniteSet(D)
  <2>1. IsFiniteSet({KindKey[i] : i \in Own(u)})
    BY OwnAre, ImageIsFinite
  <2> QED
    BY <1>2, <2>1
<1>4. PICK n \in Nat : n = Cardinality(D)
  BY <1>3, FS_CardinalityType
<1>5. n = 0 <=> D = {}
  BY <1>3, <1>4, FS_EmptySet
<1>6. D = {} <=> Own(u) = {}
  BY <1>2
<1>7. PICK x \in Nat : x = Min({3, n}) /\ (x > 0 <=> n # 0)
  BY MinOfTwo
<1>8. Diversity(u) = Rounded(100 * x, 3)
  BY <1>1, <1>4, <1>7 DEF Diversity
<1>9. Diversity(u) > 0 <=> x > 0
  <2>1. PICK z \in Nat : z = 100 * x
    OBVIOUS
  <2>2. /\ Rounded(z, 3) \in Nat /\ (z = 0 => Rounded(z, 3) = 0)
        /\ (2 * z > 3 => Rounded(z, 3) > 0)
    BY RoundedIs
  <2> QED
    BY <1>8, <2>1, <2>2
<1> QED
  BY <1>5, <1>6, <1>7, <1>9

(* The vendor a student orders from most has at least the average share, and *)
(* such a vendor is among the favourites.                                    *)
LEMMA LoyaltyFits ==
  ASSUME SalesTypeOK, NEW u
  PROVE  /\ LoyaltyScore(u)[1] > 0
              => ~Below(LoyaltyScore(u), <<1, Cardinality(DOMAIN Loyalty(u))>>)
         /\ Own(u) # {} => \A K \in FavouriteVendors(u) :
                             \E v \in K : Loyalty(u)[v] = LoyaltyScore(u)[1]
<1>1. PICK t, D : t = Loyalty(u) /\ D = DOMAIN t
  OBVIOUS
<1>2. t = Tallied(Own(u), VendorKey) /\ Total(t) = Cardinality(Own(u)) /\ Cardinality(Own(u)) \in Nat
  BY <1>1, OwnAre
<1>3. D = {VendorKey[i] : i \in Own(u)} /\ t \in [D -> Nat \ {0}]
  BY <1>1, <1>2, OwnAre, TallyCounts
<1>4. IsFiniteSet(D)
  <2>1. IsFiniteSet({VendorKey[i] : i \in Own(u)})
    BY OwnAre, ImageIsFinite
  <2> QED
    BY <1>3, <2>1
<1>5. CASE D = {}
  <2>1. LoyaltyScore(u) = <<0, 1>>
    BY <1>1, <1>5 DEF LoyaltyScore
  <2>2. Own(u) = {}
    BY <1>3, <1>5
  <2> QED
    BY <2>1, <2>2
<1>6. CASE D # {}
  <2>1. PICK N : N = {t[v] : v \in D}
    OBVIOUS
  <2>2. IsFiniteSet(N) /\ N # {} /\ N \subseteq Int
    <3>1. IsFiniteSet({t[v] : v \in D})
      BY <1>4, ImageIsFinite
    <3> QED
      <4>1. IsFiniteSet(N)
        BY <2>1, <3>1
      <4>2. N # {}
        BY <1>6, <2>1
      <4>3. \A v \in D : t[v] \in Nat
        BY <1>3
      <4>4. N \subseteq Int
        BY <2>1, <4>3
      <4> QED
        BY <4>1, <4>2, <4>4
  <2>3. PICK m \in Nat : m = Max(N) /\ m \in N /\ \A v \in D : t[v] <= m
    <3>1. Max(N) \in N /\ \A y \in N : Max(N) >= y
      BY <2>2, MaxIsGreatest
    <3>2. Max(N) \in Nat
      BY <1>3, <2>1, <3>1
    <3>3. \A v \in D : t[v] <= Max(N)
      BY <1>3, <2>1, <3>1
    <3> QED
      BY <3>1, <3>2, <3>3
  <2>4. PICK n \in Nat : n = Total(t)
    BY <1>2
  <2>5. LoyaltyScore(u) = <<m, n>>
    BY <1>1, <1>6, <2>1, <2>3, <2>4 DEF LoyaltyScore
  <2>6. PICK c \in Nat : c = Cardinality(D)
    BY <1>4, FS_CardinalityType
  <2>7. n <= m * c
    <3>1. t \in [D -> Nat]
      BY <1>3
    <3>2. SumOf(t) <= m * Cardinality(D)
      BY <1>4, <2>3, <3>1, SumAtMost
    <3> QED
      BY <2>4, <2>6, <3>2, TotalIsSum
  <2>8. m * c \in Nat
    BY ProductsGrow
  <2>9. ~Below(<<m, n>>, <<1, c>>)
    BY <2>7, <2>8 DEF Below
  <2>10. ASSUME NEW K \in FavouriteVendors(u) PROVE \E v \in K : t[v] = m
    <3>1. FavouriteVendors(u) = Leaders(t, 5)
      BY <1>1 DEF FavouriteVendors, Loyalty
    <3>2. PICK x \in D : t[x] = m
      BY <2>1, <2>3
    <3>3. t \in [D -> Nat] /\ \A v \in D : t[v] <= t[x]
      BY <1>3, <2>3, <3>2
    <3> QED
      BY <1>4, <2>10, <3>1, <3>2, <3>3, GreatestLeads
  <2> QED
    BY <1>1, <2>5, <2>6, <2>9, <2>10
<1> QED
  BY <1>5, <1>6

(* What the parts say of a student's habits. *)
LEMMA HabitsFit == ASSUME SalesTypeOK PROVE HabitsAgree
<1>1. ASSUME NEW u
      PROVE  /\ Total(CategoryPreferences(u)) = Total(Loyalty(u))
             /\ Diversity(u) > 0 <=> Own(u) # {}
  BY OwnAre, DiversityFits
<1>2. ASSUME NEW u, NEW h
      PROVE  /\ "reorder" \in SmartSuggestions(u, h) <=> OfUser(u) \cap Since(7) = {}
             /\ "loyalty" \in SmartSuggestions(u, h) <=> Own(u) # {}
  BY DEF SmartSuggestions, Own
<1>3. ASSUME NEW u, NEW h \in TimingHours(u, NoHour), Own(u) = {}
      PROVE  OfUser(u) \cap Since(7) = {} /\ h = 12
  <2>1. OfUser(u) \cap Since(7) = {}
    BY <1>3, OwnAre
  <2>2. TimingHours(u, NoHour) = {12}
    BY <1>3 DEF TimingHours, Own
  <2> QED
    BY <2>1, <2>2
<1>4. ASSUME NEW u, Frequency(u) # "rare" PROVE Own(u) # {}
  <2>1. SUFFICES ASSUME Own(u) = {} PROVE FALSE
    OBVIOUS
  <2>2. Cardinality(OfUser(u) \cap Since(30)) = 0
    BY <2>1, FS_EmptySet DEF Own
  <2> QED
    BY <1>4, <2>2 DEF Frequency
<1> QED
  BY <1>1, <1>2, <1>3, <1>4, LoyaltyFits DEF HabitsAgree, Own

-----------------------------------------------------------------------------
(* What is said of the whole campus. *)
LEMMA CampusFits == ASSUME SalesTypeOK PROVE CampusAddsUp
<1>1. PICK I \in SUBSET Rows : I = Since(7)
  BY SinceShrinks
<1>2. Total(PopularCategories) = WeekComparison.this
  <2>1. PopularCategories = Tally(I, LAMBDA i : Kind[VendorOf(i)])
    <3>1. I \ Having({"cancelled"}) = I
      BY NoSmallLetters
    <3> QED
      BY <1>1, <3>1 DEF PopularCategories, Categories
  <2>2. Total(Tally(I, LAMBDA i : Kind[VendorOf(i)])) = Cardinality(I)
    BY TotalsCount
  <2> QED
    BY <1>1, <2>1, <2>2 DEF WeekComparison
<1>3. ASSUME NEW K \in SystemPeakHours, Cardinality(K) < 5
      PROVE  Total([h \in K |-> Tally(Since(7), HourOf)[h]]) = WeekComparison.this
  <2>1. PICK t : t = Tally(I, HourOf)
    OBVIOUS
  <2>2. PICK D : D = {HourKey[i] : i \in I}
    OBVIOUS
  <2>3. t = Tallied(I, HourKey) /\ Total(t) = Cardinality(I) /\ IsFiniteSet(I)
    BY <2>1, TalliesAre, TotalsCount
  <2>4. IsFiniteSet(D) /\ t \in [D -> Nat \ {0}]
    BY <2>2, <2>3, TallyCounts
  <2>5. K = D
    BY <1>1, <1>3, <2>1, <2>4, ShortListsAreWhole DEF SystemPeakHours
  <2>6. [h \in K |-> t[h]] = t
    BY <2>4, <2>5
  <2> QED
    BY <1>1, <2>1, <2>3, <2>6 DEF WeekComparison
<1>4. ASSUME NEW K \in TrendingVendors, Cardinality(K) < 5
      PROVE  {VendorOf(i) : i \in Since(7)} \subseteq K
  <2>1. PICK J \in SUBSET Rows : J = Since(14) \ Having({"cancelled"})
    BY SinceShrinks
  <2>2. I \subseteq J
    BY <1>1, <2>1, SinceShrinks, NoSmallLetters
  <2>3. PICK D : D = {VendorOf(i) : i \in J}
    OBVIOUS
  <2>4. IsFiniteSet(D)
    <3>1. IsFiniteSet(J)
      BY RowsAre, FS_Subset
    <3>2. IsFiniteSet({VendorKey[i] : i \in J})
      BY <3>1, ImageIsFinite
    <3>3. \A i \in J : VendorOf(i) = VendorKey[i]
      BY DEF VendorOf, VendorKey
    <3> QED
      BY <2>3, <3>2, <3>3
  <2>5. PICK t : t = [v \in D |-> Change(v)]
    OBVIOUS
  <2>6. TrendingVendors = Leaders(t, 5) /\ DOMAIN t = D
    BY <2>1, <2>3, <2>5 DEF TrendingVendors
  <2>7. K = D
    BY <1>4, <2>4, <2>6, ShortListsAreWhole
  <2> QED
    BY <1>1, <2>2, <2>3, <2>7
<1> QED
  BY <1>2, <1>3, <1>4 DEF CampusAddsUp

(* Of finitely many quotients there is one that none exceeds. *)
LEMMA GreatestExists ==
  ASSUME NEW S, IsFiniteSet(S), NEW w, \A x \in S : w[x] \in Quotient
  PROVE  S # {} => \E x \in S : \A y \in S : ~Below(w[x], w[y])
<1> DEFINE Greatest(U, x) == \A y \in U : ~Below(w[x], w[y])
           T == {U \in SUBSET S : U # {} => \E x \in U : Greatest(U, x)}
<1>1. ASSUME NEW U \in SUBSET S, \A V \in SUBSET U : V # U => V \in T
      PROVE  U \in T
  <2> SUFFICES ASSUME U # {} PROVE \E x \in U : Greatest(U, x)
    OBVIOUS
  <2>1. PICK c \in U : TRUE
    OBVIOUS
  <2>2. PICK V \in SUBSET U : V = U \ {c}
    OBVIOUS
  <2>3. ~Below(w[c], w[c])
    BY BelowIsAsymmetric
  <2>4. CASE V = {}
    BY <2>1, <2>2, <2>3, <2>4
  <2>5. CASE V # {}
    <3>1. PICK x \in V : Greatest(V, x)
      BY <1>1, <2>1, <2>2, <2>5
    <3>2. CASE Below(w[x], w[c])
      <4>1. ~Below(w[c], w[x])
        BY <3>2, BelowIsAsymmetric
      <4>2. \A y \in V : ~Below(w[c], w[y])
        BY <3>1, <4>1, NotBelowIsTransitive
      <4> QED
        BY <2>1, <2>2, <2>3, <4>2
    <3>3. CASE ~Below(w[x], w[c])
      BY <2>2, <3>1, <3>3
    <3> QED
      BY <3>2, <3>3
  <2> QED
    BY <2>4, <2>5
<1>2. S \in T
  <2> HIDE DEF T
  <2> QED
    BY <1>1, SubsetInduction
<1> QED
  BY <1>2

(* The hours of a group are those of orders, and two of its members order in *)
(* each.                                                                     *)
LEMMA WindowsAre ==
  ASSUME SalesTypeOK, NEW G, IsFiniteSet(G)
  PROVE  /\ IsFiniteSet(Windows(G)) /\ Windows(G) \subseteq Nat
         /\ Windows(G) \subseteq DOMAIN HoursOfAllTime
         /\ \A h : /\ Participants(G, h) \subseteq G /\ IsFiniteSet(Participants(G, h))
                   /\ Cardinality(Participants(G, h)) \in Nat
                   /\ Cardinality(Participants(G, h)) <= Cardinality(G)
         /\ Cardinality(G) \in Nat
<1>1. IsFiniteSet(Windows(G)) /\ Windows(G) \subseteq Nat
  <2>1. PICK a \in Int, b \in Int : a = 0 /\ b = 23
    OBVIOUS
  <2>2. IsFiniteSet(a .. b)
    BY FS_Interval
  <2>3. Windows(G) \subseteq a .. b /\ Windows(G) \subseteq Nat
    BY <2>1 DEF Windows
  <2> QED
    BY <2>2, <2>3, FS_Subset
<1>2. ASSUME NEW h
      PROVE  /\ Participants(G, h) \subseteq G /\ IsFiniteSet(Participants(G, h))
             /\ Cardinality(Participants(G, h)) \in Nat
             /\ Cardinality(Participants(G, h)) <= Cardinality(G)
  <2>1. PICK P \in SUBSET G : P = Participants(G, h)
    BY DEF Participants
  <2>2. IsFiniteSet(P) /\ Cardinality(P) <= Cardinality(G)
    BY FS_Subset
  <2> QED
    BY <2>1, <2>2, FS_CardinalityType
<1>3. ASSUME NEW h \in Windows(G) PROVE h \in DOMAIN HoursOfAllTime
  <2>1. Cardinality(Participants(G, h)) >= 2
    BY DEF Windows
  <2>2. Participants(G, h) # {}
    BY <2>1, FS_EmptySet
  <2>3. PICK i \in Rows : sales[i].hour = h
    BY <2>2 DEF Participants, OfUser
  <2>4. HoursOfAllTime = Tallied(Rows, HourKey)
    BY TalliesAre DEF HoursOfAllTime
  <2>5. DOMAIN HoursOfAllTime = {HourKey[j] : j \in Rows}
    BY <2>4, RowsAre, TallyCounts
  <2> QED
    BY <2>3, <2>5 DEF HourKey
<1> QED
  BY <1>1, <1>2, <1>3, FS_CardinalityType

(* The confidence in an hour is a number, and positive unless the group is so *)
(* large that the share of two is rounded to 0.                               *)
LEMMA ConfidenceIs ==
  ASSUME SalesTypeOK, NEW G, IsFiniteSet(G), NEW h \in Windows(G)
  PROVE  /\ Confidence(G, h) \in Nat
         /\ Cardinality(G) < 400 => Confidence(G, h) > 0
<1>1. PICK p \in Nat, g \in Nat : p = Cardinality(Participants(G, h)) /\ g = Cardinality(G) /\ p <= g
  BY WindowsAre
<1>2. p >= 2
  BY <1>1 DEF Windows
<1>3. PICK n \in Nat, k \in Nat \ {0} : n = 100 * p /\ k = g /\ (g < 400 => 2 * n > k)
  BY <1>1, <1>2
<1>4. Confidence(G, h) = Rounded(n, k)
  BY <1>1, <1>3 DEF Confidence
<1> QED
  BY <1>1, <1>3, <1>4, RoundedIs

(* The order of the hours of a group, ... *)
Surer(G, h, k) ==
  \/ Confidence(G, h) > Confidence(G, k)
  \/ /\ Confidence(G, h) = Confidence(G, k)
     /\ \/ Cardinality(Participants(G, h)) > Cardinality(Participants(G, k))
        \/ Cardinality(Participants(G, h)) = Cardinality(Participants(G, k)) /\ h < k

(* ... as a set of pairs. *)
WindowOrder(G) == {p \in Windows(G) \X Windows(G) : Surer(G, p[1], p[2])}

(* It is total and strict. *)
LEMMA WindowOrderIsTotal ==
  ASSUME SalesTypeOK, NEW G, IsFiniteSet(G)
  PROVE  TotallyOrders(WindowOrder(G), Windows(G))
<1>1. \A h, k \in Windows(G) : <<h, k>> \in WindowOrder(G) <=> Surer(G, h, k)
  BY DEF WindowOrder
<1>2. \A h \in Windows(G) :
        Confidence(G, h) \in Nat /\ Cardinality(Participants(G, h)) \in Nat /\ h \in Nat
  BY ConfidenceIs, WindowsAre
<1>3. /\ \A h \in Windows(G) : ~Surer(G, h, h)
      /\ \A h, k \in Windows(G) : h # k => Surer(G, h, k) \/ Surer(G, k, h)
      /\ \A h, k, l \in Windows(G) : Surer(G, h, k) /\ Surer(G, k, l) => Surer(G, h, l)
  BY <1>2 DEF Surer
<1> HIDE DEF Surer
<1> QED
  BY <1>1, <1>3 DEF TotallyOrders

(* The hours are a list in that order. *)
LEMMA WindowsAreListed ==
  ASSUME SalesTypeOK, NEW G, IsFiniteSet(G)
  PROVE  \E n \in Nat : /\ n = Cardinality(Windows(G)) /\ (n = 0 <=> Windows(G) = {})
                        /\ WindowsInOrder(G) \in [1 .. n -> Windows(G)]
<1> DEFINE n == Cardinality(Windows(G))
           Sorted(q) == \A i, j \in 1 .. n : i < j => Surer(G, q[i], q[j])
<1>1. WindowsInOrder(G) = CHOOSE q \in [1 .. n -> Windows(G)] : Sorted(q)
  BY DEF WindowsInOrder, InOrder, Surer
<1>2. \A q \in [1 .. n -> Windows(G)] : Lists(q, Windows(G), WindowOrder(G)) <=> Sorted(q)
  BY DEF Lists, WindowOrder
<1>3. PICK r : Lists(r, Windows(G), WindowOrder(G))
  BY WindowsAre, WindowOrderIsTotal, ListsExist
<1>4. r \in [1 .. n -> Windows(G)]
  BY <1>3 DEF Lists
<1>5. \E q \in [1 .. n -> Windows(G)] : Sorted(q)
  BY <1>2, <1>3, <1>4
<1> HIDE DEF Sorted
<1>6. WindowsInOrder(G) \in [1 .. n -> Windows(G)]
  BY <1>1, <1>5
<1>7. n \in Nat /\ (n = 0 <=> Windows(G) = {})
  BY WindowsAre, FS_CardinalityType, FS_EmptySet
<1> QED
  BY <1>6, <1>7

(* The candidates are hours of the group. *)
LEMMA CandidatesAreWindows ==
  ASSUME SalesTypeOK, NEW G, IsFiniteSet(G)
  PROVE  CandidateHours(G) \subseteq Windows(G)
<1>1. PICK n \in Nat : WindowsInOrder(G) \in [1 .. n -> Windows(G)]
  BY WindowsAreListed
<1>2. PICK q \in Seq(Windows(G)) : q = WindowsInOrder(G) /\ Len(q) = n
  BY <1>1
<1>3. PICK m \in Nat : m = Min({3, n}) /\ m <= n
  BY MinOfTwo
<1>4. SubSeq(q, 1, m) \in Seq(Windows(G))
  <2>1. SubSeq(q, 1, m) = [i \in 1 .. m |-> q[i]]
    BY <1>2, <1>3 DEF SubSeq
  <2>2. [i \in 1 .. m |-> q[i]] \in [1 .. m -> Windows(G)]
    BY <1>2, <1>3
  <2> QED
    BY <2>1, <2>2
<1>5. CandidateHours(G) = ToSet(SubSeq(q, 1, m))
  BY <1>2, <1>3 DEF CandidateHours
<1> QED
  BY <1>4, <1>5 DEF ToSet

(* A group is sent to a slot of its hours whenever there is one. *)
LEMMA UnifiedSlotIs ==
  ASSUME SalesTypeOK, NEW G, IsFiniteSet(G)
  PROVE  LET slot == UnifiedSlot(G)
         IN  /\ slot # 0 => Cardinality(Participants(G, SlotHour[slot])) >= 2
             /\ slot = 0 => \A s \in Offers : SlotHour[s] \notin CandidateHours(G)
<1> DEFINE candidates == {s \in Offers : SlotHour[s] \in CandidateHours(G)}
           worth(s) ==
             <<7 * Confidence(G, SlotHour[s]) * Max({Capacity[s], 1}) + 300 * (Capacity[s] - filled[s]),
               1000 * Max({Capacity[s], 1})>>
           best == {s \in candidates : \A t \in candidates : ~Below(worth(s), worth(t))}
<1>1. UnifiedSlot(G) = IF best = {} THEN 0 ELSE Min(best)
  BY DEF UnifiedSlot
<1>2. ASSUME NEW s \in candidates PROVE worth(s) \in Quotient
  <2>1. SlotHour[s] \in Windows(G) /\ s \in Offers
    BY CandidatesAreWindows
  <2>2. PICK c \in Nat : c = Confidence(G, SlotHour[s])
    BY <2>1, ConfidenceIs
  <2>3. PICK x \in Nat, k \in Nat : x = filled[s] /\ k = Capacity[s] /\ x <= k
    BY <2>1, SlotFacts
  <2>4. PICK m \in Nat \ {0} : m = Max({k, 1})
    BY MaxOfTwo
  <2>5. worth(s) = <<7 * c * m + 300 * (k - x), 1000 * m>>
    BY <2>2, <2>3, <2>4
  <2>6. 7 * c * m + 300 * (k - x) \in Int /\ 1000 * m \in Nat \ {0}
    OBVIOUS
  <2> QED
    BY <2>5, <2>6 DEF Quotient
<1>3. best \subseteq candidates /\ candidates \subseteq Offers
  OBVIOUS
<1>4. IsFiniteSet(candidates) /\ IsFiniteSet(best) /\ best \subseteq Int /\ candidates \subseteq Nat \ {0}
  <2>1. IsFiniteSet(candidates)
    BY <1>3, OffersAre, FS_Subset
  <2>2. IsFiniteSet(best)
    BY <1>3, <2>1, FS_Subset
  <2>3. candidates \subseteq Nat \ {0}
    BY <1>3, OffersAre
  <2>4. best \subseteq Int
    BY <1>3, <2>3
  <2> HIDE DEF best, candidates
  <2> QED
    BY <2>1, <2>2, <2>3, <2>4
<1>5. candidates # {} => best # {}
  <2> DEFINE w == [s \in candidates |-> worth(s)]
  <2>1. \A s \in candidates : w[s] = worth(s) /\ w[s] \in Quotient
    BY <1>2
  <2> HIDE DEF w, candidates, worth
  <2>2. candidates # {} => \E x \in candidates : \A y \in candidates : ~Below(w[x], w[y])
    BY <1>4, <2>1, GreatestExists
  <2> QED
    BY <2>1, <2>2
<1>6. best # {} => UnifiedSlot(G) \in candidates
  <2> HIDE DEF best, candidates
  <2>1. best # {} => Min(best) \in best
    BY <1>4, MinIsLeast
  <2> QED
    BY <1>1, <1>3, <2>1
<1>7. ASSUME UnifiedSlot(G) # 0 PROVE Cardinality(Participants(G, SlotHour[UnifiedSlot(G)])) >= 2
  <2>1. UnifiedSlot(G) \in candidates
    <3> HIDE DEF best, candidates
    <3> QED
      BY <1>1, <1>6, <1>7
  <2>2. SlotHour[UnifiedSlot(G)] \in Windows(G)
    BY <2>1, CandidatesAreWindows
  <2> QED
    BY <2>2 DEF Windows
<1>8. ASSUME UnifiedSlot(G) = 0 PROVE candidates = {}
  <2> HIDE DEF best, candidates
  <2> QED
    BY <1>4, <1>5, <1>6, <1>8
<1> QED
  BY <1>7, <1>8

(* What a group is told. *)
LEMMA SuggestionFits == ASSUME SalesTypeOK PROVE SuggestionIsShared
<1>1. PICK G : G = Customers
  OBVIOUS
<1>2. IsFiniteSet(G)
  BY <1>1, SalesAssumption
<1>3. ASSUME Windows(G) = {} PROVE CoordinationScore(G) = 0
  BY <1>3 DEF CoordinationScore
<1>4. ASSUME Windows(G) # {}, Cardinality(G) < 400 PROVE CoordinationScore(G) > 0
  <2>1. PICK n \in Nat : n # 0 /\ WindowsInOrder(G) \in [1 .. n -> Windows(G)]
    BY <1>2, <1>4, WindowsAreListed
  <2>2. PICK q : q = WindowsInOrder(G)
    OBVIOUS
  <2>3. Head(q) \in Windows(G)
    <3>1. q \in Seq(Windows(G)) /\ Len(q) = n
      BY <2>1, <2>2
    <3> QED
      BY <2>1, <3>1
  <2>4. PICK c \in Nat : c = Confidence(G, Head(q)) /\ c > 0
    BY <1>2, <1>4, <2>3, ConfidenceIs
  <2>5. PICK x \in Nat : x = Rounded(11 * c, 10) /\ x > 0
    <3>1. PICK z \in Nat : z = 11 * c /\ 2 * z > 10
      BY <2>4
    <3> QED
      BY <3>1, RoundedIs
  <2>6. CoordinationScore(G) = Min({100, x})
    BY <1>4, <2>2, <2>4, <2>5 DEF CoordinationScore
  <2> QED
    BY <2>5, <2>6, MinOfTwo
<1>5. Windows(G) \subseteq DOMAIN HoursOfAllTime
  BY <1>2, WindowsAre
<1>6. /\ UnifiedSlot(G) # 0 => Cardinality(Participants(G, SlotHour[UnifiedSlot(G)])) >= 2
      /\ UnifiedSlot(G) = 0 => \A s \in Offers : SlotHour[s] \notin CandidateHours(G)
  BY <1>2, UnifiedSlotIs
<1>7. CoordinationScore(G) > 0 => Windows(G) # {}
  BY <1>3
<1> QED
  BY <1>1, <1>4, <1>5, <1>6, <1>7 DEF SuggestionIsShared

(* All figures agree. *)
LEMMA FiguresFit == ASSUME SalesTypeOK PROVE FiguresAgree
BY BoardsFit, PlanFits, RankingFits, HabitsFit, CampusFits, SuggestionFits DEF FiguresAgree

-----------------------------------------------------------------------------
(* All services: the specification that is checked, for any instance. *)

(* The inductive invariant of the run: every row has its type, and the part  *)
(* that is explored has its own invariant.                                   *)
ServicesInv ==
  /\ ServicesTypeOK
  /\ part = "points" => PointsInv
  /\ part = "policy" => PolicyInv
  /\ part = "vouchers" => VoucherInv
  /\ part = "jobs" => JobInv
  /\ part = "otp" => OtpInv
  /\ part = "notices" => NoticeInv
  /\ part = "limit" => LimitInv
  /\ part = "settings" => SettingsInv
  /\ part = "profiles" => ProfileInv
  /\ part = "cases" => CaseInv
  /\ part = "past" => PastInv

(* Each of these invariants says what type the rows have.                    *)
LEMMA InvariantsAreTyped ==
  /\ (PointsInv => PointsTypeOK) /\ (PointsInv' => PointsTypeOK')
  /\ (PolicyInv => PolicyTypeOK) /\ (PolicyInv' => PolicyTypeOK')
  /\ (VoucherInv => VouchersTypeOK) /\ (VoucherInv' => VouchersTypeOK')
  /\ (JobInv => JobTypeOK) /\ (JobInv' => JobTypeOK')
  /\ (OtpInv => OtpTypeOK) /\ (OtpInv' => OtpTypeOK')
  /\ (NoticeInv => NoticesTypeOK) /\ (NoticeInv' => NoticesTypeOK')
  /\ (LimitInv => LimitTypeOK) /\ (LimitInv' => LimitTypeOK')
  /\ (SettingsInv => SettingsTypeOK) /\ (SettingsInv' => SettingsTypeOK')
  /\ (ProfileInv => ProfilesTypeOK) /\ (ProfileInv' => ProfilesTypeOK')
  /\ (CaseInv => CasesTypeOK) /\ (CaseInv' => CasesTypeOK')
  /\ (PastInv => PastTypeOK) /\ (PastInv' => PastTypeOK')
<1>1. (PointsInv => PointsTypeOK) /\ (PointsInv' => PointsTypeOK')
  BY DEF PointsInv
<1>2. (PolicyInv => PolicyTypeOK) /\ (PolicyInv' => PolicyTypeOK')
  <2>1. \A s \in Seq(Policy) : Range(s) \subseteq Policy
    BY DEF Range
  <2> QED
    BY <2>1 DEF PolicyInv, PolicyTypeOK
<1>3. (VoucherInv => VouchersTypeOK) /\ (VoucherInv' => VouchersTypeOK')
  BY DEF VoucherInv
<1>4. (JobInv => JobTypeOK) /\ (JobInv' => JobTypeOK')
  BY DEF JobInv
<1>5. (OtpInv => OtpTypeOK) /\ (OtpInv' => OtpTypeOK')
  BY DEF OtpInv
<1>6. (NoticeInv => NoticesTypeOK) /\ (NoticeInv' => NoticesTypeOK')
  BY DEF NoticeInv
<1>7. (LimitInv => LimitTypeOK) /\ (LimitInv' => LimitTypeOK')
  BY DEF LimitInv
<1>8. (SettingsInv => SettingsTypeOK) /\ (SettingsInv' => SettingsTypeOK')
  BY DEF SettingsInv
<1>9. (ProfileInv => ProfilesTypeOK) /\ (ProfileInv' => ProfilesTypeOK')
  BY DEF ProfileInv
<1>10. (CaseInv => CasesTypeOK) /\ (CaseInv' => CasesTypeOK')
  BY DEF CaseInv
<1>11. (PastInv => PastTypeOK) /\ (PastInv' => PastTypeOK')
  BY DEF PastInv
<1> QED
  BY <1>1, <1>2, <1>3, <1>4, <1>5, <1>6, <1>7, <1>8, <1>9, <1>10, <1>11

(* Rows that no request of the part touches keep their types with it.        *)
LEMMA OtherServicesKeepTypes ==
  ASSUME ServicesTypeOK, WorkTypeOK', SmsTypeOK'
  PROVE  /\ UNCHANGED pointsRows => PointsTypeOK'
         /\ UNCHANGED policyRows => PolicyTypeOK'
         /\ UNCHANGED voucherRows => VouchersTypeOK'
         /\ UNCHANGED jobRows => JobTypeOK'
         /\ UNCHANGED otpKeys => OtpTypeOK'
         /\ UNCHANGED noticeRows => NoticesTypeOK'
         /\ UNCHANGED limitKeys => LimitTypeOK'
         /\ UNCHANGED settingRows => SettingsTypeOK'
         /\ UNCHANGED profileRows => ProfilesTypeOK'
         /\ UNCHANGED caseRows => CasesTypeOK'
         /\ UNCHANGED pastRows => PastTypeOK'
<1>1. UNCHANGED pointsRows => PointsTypeOK'
  BY DEF ServicesTypeOK, PointsTypeOK, pointsRows
<1>2. UNCHANGED policyRows => PolicyTypeOK'
  BY DEF ServicesTypeOK, PolicyTypeOK, policyRows
<1>3. UNCHANGED voucherRows => VouchersTypeOK'
  BY DEF ServicesTypeOK, VouchersTypeOK, voucherRows
<1>4. UNCHANGED jobRows => JobTypeOK'
  BY DEF ServicesTypeOK, JobTypeOK, jobRows
<1>5. UNCHANGED otpKeys => OtpTypeOK'
  BY DEF ServicesTypeOK, OtpTypeOK, otpKeys
<1>6. UNCHANGED noticeRows => NoticesTypeOK'
  BY DEF ServicesTypeOK, NoticesTypeOK, noticeRows
<1>7. UNCHANGED limitKeys => LimitTypeOK'
  BY DEF ServicesTypeOK, LimitTypeOK, limitKeys
<1>8. UNCHANGED settingRows => SettingsTypeOK'
  BY DEF ServicesTypeOK, SettingsTypeOK, settingRows
<1>9. UNCHANGED profileRows => ProfilesTypeOK'
  BY DEF ServicesTypeOK, ProfilesTypeOK, profileRows
<1>10. UNCHANGED caseRows => CasesTypeOK'
  BY DEF ServicesTypeOK, CasesTypeOK, caseRows
<1>11. UNCHANGED pastRows => PastTypeOK'
  BY DEF ServicesTypeOK, PastTypeOK, pastRows
<1> QED
  BY <1>1, <1>2, <1>3, <1>4, <1>5, <1>6, <1>7, <1>8, <1>9, <1>10, <1>11

(* Whichever service the requests are for, in a step of it its own invariant *)
(* is kept and the types of messages and workers with it.                    *)
LEMMA PartKeepsTypes ==
  ASSUME ServicesInv, ServicesNext \/ UNCHANGED servicesVars
  PROVE  /\ part = "points" => PointsInv'
         /\ part = "policy" => PolicyInv'
         /\ part = "vouchers" => VoucherInv'
         /\ part = "jobs" => JobInv'
         /\ part = "otp" => OtpInv'
         /\ part = "notices" => NoticeInv'
         /\ part = "limit" => LimitInv'
         /\ part = "settings" => SettingsInv'
         /\ part = "profiles" => ProfileInv'
         /\ part = "cases" => CaseInv'
         /\ part = "past" => PastInv'
         /\ part = "insights" => SalesTypeOK'
         /\ WorkTypeOK' /\ SmsTypeOK' /\ part' = part
<1>1. ASSUME part = "points" PROVE PointsInv' /\ PointsTypeOK'
  <2>1. PointsInv /\ [PointsNext]_pointsVars
    BY <1>1 DEF ServicesInv, ServicesNext, servicesVars, pointsVars
  <2> QED
    BY <2>1, PointsNextInductive, InvariantsAreTyped
<1>2. ASSUME part = "policy" PROVE PolicyInv' /\ PolicyTypeOK'
  <2>1. PolicyInv /\ [PolicyNext]_policyVars
    BY <1>2 DEF ServicesInv, ServicesNext, servicesVars, policyVars
  <2> QED
    BY <2>1, PolicyNextInductive, InvariantsAreTyped
<1>3. ASSUME part = "vouchers" PROVE VoucherInv' /\ VouchersTypeOK'
  <2>1. VoucherInv /\ [VouchersNext]_voucherVars
    BY <1>3 DEF ServicesInv, ServicesNext, servicesVars, voucherVars
  <2> QED
    BY <2>1, VoucherNextInductive, InvariantsAreTyped
<1>4. ASSUME part = "jobs" PROVE JobInv' /\ JobTypeOK'
  <2>1. JobInv /\ [JobNext]_jobVars
    BY <1>4 DEF ServicesInv, ServicesNext, servicesVars, jobVars
  <2> QED
    BY <2>1, JobNextInductive, InvariantsAreTyped
<1>5. ASSUME part = "otp" PROVE OtpInv' /\ OtpTypeOK'
  <2>1. OtpInv /\ [OtpNext]_otpVars
    BY <1>5 DEF ServicesInv, ServicesNext, servicesVars, otpVars
  <2> QED
    BY <2>1, OtpNextInductive, InvariantsAreTyped
<1>6. ASSUME part = "notices" PROVE NoticeInv' /\ NoticesTypeOK'
  <2>1. NoticeInv /\ [NoticesNext]_noticeVars
    BY <1>6 DEF ServicesInv, ServicesNext, servicesVars, noticeVars
  <2> QED
    BY <2>1, NoticeNextInductive, InvariantsAreTyped
<1>7. ASSUME part = "limit" PROVE LimitInv' /\ LimitTypeOK'
  <2>1. LimitInv /\ [LimitNext]_limitVars
    BY <1>7 DEF ServicesInv, ServicesNext, servicesVars, limitVars
  <2> QED
    BY <2>1, LimitNextInductive, InvariantsAreTyped
<1>8. ASSUME part = "settings" PROVE SettingsInv' /\ SettingsTypeOK'
  <2>1. SettingsInv /\ [SettingsNext]_settingVars
    BY <1>8 DEF ServicesInv, ServicesNext, servicesVars, settingVars
  <2> QED
    BY <2>1, SettingsNextInductive, InvariantsAreTyped
<1>9. ASSUME part = "profiles" PROVE ProfileInv' /\ ProfilesTypeOK'
  <2>1. ProfileInv /\ [ProfilesNext]_profileVars
    BY <1>9 DEF ServicesInv, ServicesNext, servicesVars, profileVars
  <2> QED
    BY <2>1, ProfilesNextInductive, InvariantsAreTyped
<1>10. ASSUME part = "cases" PROVE CaseInv' /\ CasesTypeOK'
  <2>1. CaseInv /\ [CasesNext]_caseVars
    BY <1>10 DEF ServicesInv, ServicesNext, servicesVars, caseVars
  <2> QED
    BY <2>1, CasesNextInductive, InvariantsAreTyped
<1>11. ASSUME part = "past" PROVE PastInv' /\ PastTypeOK'
  <2>1. PastInv /\ [PastNext]_pastVars
    BY <1>11 DEF ServicesInv, ServicesNext, servicesVars, pastVars
  <2> QED
    BY <2>1, PastNextInductive, InvariantsAreTyped
<1>12. ASSUME part = "insights" PROVE SalesTypeOK'
  <2>1. SalesTypeOK /\ [SalesNext]_salesVars
    BY <1>12 DEF ServicesInv, ServicesTypeOK, ServicesNext, servicesVars, salesVars
  <2> QED
    BY <2>1, SalesNextTyped
<1>13. part' = part
  BY DEF ServicesNext, servicesVars
<1>14. WorkTypeOK'
  <2>1. CASE ServicesNext
    BY <2>1, <1>1, <1>2, <1>3, <1>4, <1>5, <1>6, <1>7, <1>8, <1>9, <1>10, <1>11, <1>12
       DEF ServicesNext, PointsTypeOK, PolicyTypeOK, VouchersTypeOK, JobTypeOK, OtpTypeOK, NoticesTypeOK, LimitTypeOK, SettingsTypeOK, ProfilesTypeOK, CasesTypeOK, PastTypeOK, SalesTypeOK
  <2>2. CASE UNCHANGED servicesVars
    BY <2>2 DEF servicesVars, workVars, ServicesInv, ServicesTypeOK, PointsTypeOK, WorkTypeOK
  <2> QED
    BY <2>1, <2>2
<1>15. SmsTypeOK'
  <2>1. CASE part \in {"otp", "notices"}
    BY <2>1, <1>5, <1>6 DEF OtpTypeOK, NoticesTypeOK
  <2>2. CASE part \notin {"otp", "notices"}
    <3>1. UNCHANGED smsVars
      BY <2>2 DEF ServicesNext, Untouched, servicesVars
    <3> QED
      BY <3>1 DEF ServicesInv, ServicesTypeOK, OtpTypeOK, SmsTypeOK, smsVars
  <2> QED
    BY <2>1, <2>2
<1> QED
  BY <1>1, <1>2, <1>3, <1>4, <1>5, <1>6, <1>7, <1>8, <1>9, <1>10, <1>11, <1>12, <1>13, <1>14, <1>15

(* Rows, keys and requests of every service have their types, whichever of   *)
(* them the requests are for.                                                *)
THEOREM ServicesTypeCorrect == ServicesSpec => []ServicesTypeOK
<1>1. ServicesInit => ServicesInv
  <2> SUFFICES ASSUME ServicesInit PROVE ServicesInv
    OBVIOUS
  <2>1. PointsInv
    BY PointsInitInductive DEF ServicesInit
  <2>2. PolicyInv
    BY PolicyInitInductive DEF ServicesInit
  <2>3. VoucherInv
    BY VoucherInitInductive DEF ServicesInit
  <2>4. JobInv
    BY JobInitInductive DEF ServicesInit
  <2>5. OtpInv
    BY OtpInitInductive DEF ServicesInit
  <2>6. NoticeInv
    BY NoticeInitInductive DEF ServicesInit
  <2>7. LimitInv
    BY LimitInitInductive DEF ServicesInit
  <2>8. SettingsInv
    BY SettingsInitInductive DEF ServicesInit
  <2>9. ProfileInv
    BY ProfilesInitInductive DEF ServicesInit
  <2>10. CaseInv
    BY CasesInitInductive DEF ServicesInit
  <2>11. PastInv
    BY PastInitInductive DEF ServicesInit
  <2>12. SalesTypeOK
    BY SalesInitTyped DEF ServicesInit
  <2> QED
    BY <2>1, <2>2, <2>3, <2>4, <2>5, <2>6, <2>7, <2>8, <2>9, <2>10, <2>11, <2>12, InvariantsAreTyped
       DEF ServicesInv, ServicesTypeOK
<1>2. ServicesInv /\ [ServicesNext]_servicesVars => ServicesInv'
  <2> SUFFICES ASSUME ServicesInv, [ServicesNext]_servicesVars PROVE ServicesInv'
    OBVIOUS
  <2>1. WorkTypeOK' /\ SmsTypeOK' /\ part' = part /\ ServicesTypeOK
    BY PartKeepsTypes DEF ServicesInv
  <2>2. (part = "points" => PointsInv') /\ PointsTypeOK'
    <3>1. CASE part = "points"
      BY <3>1, PartKeepsTypes, InvariantsAreTyped
    <3>2. CASE part # "points"
      <4>1. UNCHANGED pointsRows
        BY <3>2 DEF ServicesNext, Untouched, servicesVars
      <4> QED
        BY <2>1, <3>2, <4>1, OtherServicesKeepTypes
    <3> QED
      BY <3>1, <3>2
  <2>3. (part = "policy" => PolicyInv') /\ PolicyTypeOK'
    <3>1. CASE part = "policy"
      BY <3>1, PartKeepsTypes, InvariantsAreTyped
    <3>2. CASE part # "policy"
      <4>1. UNCHANGED policyRows
        BY <3>2 DEF ServicesNext, Untouched, servicesVars
      <4> QED
        BY <2>1, <3>2, <4>1, OtherServicesKeepTypes
    <3> QED
      BY <3>1, <3>2
  <2>4. (part = "vouchers" => VoucherInv') /\ VouchersTypeOK'
    <3>1. CASE part = "vouchers"
      BY <3>1, PartKeepsTypes, InvariantsAreTyped
    <3>2. CASE part # "vouchers"
      <4>1. UNCHANGED voucherRows
        BY <3>2 DEF ServicesNext, Untouched, servicesVars
      <4> QED
        BY <2>1, <3>2, <4>1, OtherServicesKeepTypes
    <3> QED
      BY <3>1, <3>2
  <2>5. (part = "jobs" => JobInv') /\ JobTypeOK'
    <3>1. CASE part = "jobs"
      BY <3>1, PartKeepsTypes, InvariantsAreTyped
    <3>2. CASE part # "jobs"
      <4>1. UNCHANGED jobRows
        BY <3>2 DEF ServicesNext, Untouched, servicesVars
      <4> QED
        BY <2>1, <3>2, <4>1, OtherServicesKeepTypes
    <3> QED
      BY <3>1, <3>2
  <2>6. (part = "otp" => OtpInv') /\ OtpTypeOK'
    <3>1. CASE part = "otp"
      BY <3>1, PartKeepsTypes, InvariantsAreTyped
    <3>2. CASE part # "otp"
      <4>1. UNCHANGED otpKeys
        BY <3>2 DEF ServicesNext, Untouched, servicesVars
      <4> QED
        BY <2>1, <3>2, <4>1, OtherServicesKeepTypes
    <3> QED
      BY <3>1, <3>2
  <2>7. (part = "notices" => NoticeInv') /\ NoticesTypeOK'
    <3>1. CASE part = "notices"
      BY <3>1, PartKeepsTypes, InvariantsAreTyped
    <3>2. CASE part # "notices"
      <4>1. UNCHANGED noticeRows
        BY <3>2 DEF ServicesNext, Untouched, servicesVars
      <4> QED
        BY <2>1, <3>2, <4>1, OtherServicesKeepTypes
    <3> QED
      BY <3>1, <3>2
  <2>8. (part = "limit" => LimitInv') /\ LimitTypeOK'
    <3>1. CASE part = "limit"
      BY <3>1, PartKeepsTypes, InvariantsAreTyped
    <3>2. CASE part # "limit"
      <4>1. UNCHANGED limitKeys
        BY <3>2 DEF ServicesNext, Untouched, servicesVars
      <4> QED
        BY <2>1, <3>2, <4>1, OtherServicesKeepTypes
    <3> QED
      BY <3>1, <3>2
  <2>9. (part = "settings" => SettingsInv') /\ SettingsTypeOK'
    <3>1. CASE part = "settings"
      BY <3>1, PartKeepsTypes, InvariantsAreTyped
    <3>2. CASE part # "settings"
      <4>1. UNCHANGED settingRows
        BY <3>2 DEF ServicesNext, Untouched, servicesVars
      <4> QED
        BY <2>1, <3>2, <4>1, OtherServicesKeepTypes
    <3> QED
      BY <3>1, <3>2
  <2>10. (part = "profiles" => ProfileInv') /\ ProfilesTypeOK'
    <3>1. CASE part = "profiles"
      BY <3>1, PartKeepsTypes, InvariantsAreTyped
    <3>2. CASE part # "profiles"
      <4>1. UNCHANGED profileRows
        BY <3>2 DEF ServicesNext, Untouched, servicesVars
      <4> QED
        BY <2>1, <3>2, <4>1, OtherServicesKeepTypes
    <3> QED
      BY <3>1, <3>2
  <2>11. (part = "cases" => CaseInv') /\ CasesTypeOK'
    <3>1. CASE part = "cases"
      BY <3>1, PartKeepsTypes, InvariantsAreTyped
    <3>2. CASE part # "cases"
      <4>1. UNCHANGED caseRows
        BY <3>2 DEF ServicesNext, Untouched, servicesVars
      <4> QED
        BY <2>1, <3>2, <4>1, OtherServicesKeepTypes
    <3> QED
      BY <3>1, <3>2
  <2>12. (part = "past" => PastInv') /\ PastTypeOK'
    <3>1. CASE part = "past"
      BY <3>1, PartKeepsTypes, InvariantsAreTyped
    <3>2. CASE part # "past"
      <4>1. UNCHANGED pastRows
        BY <3>2 DEF ServicesNext, Untouched, servicesVars
      <4> QED
        BY <2>1, <3>2, <4>1, OtherServicesKeepTypes
    <3> QED
      BY <3>1, <3>2
  <2>13. part = "insights" => SalesTypeOK'
    BY PartKeepsTypes
  <2> QED
    BY <2>1, <2>2, <2>3, <2>4, <2>5, <2>6, <2>7, <2>8, <2>9, <2>10, <2>11, <2>12, <2>13 DEF ServicesInv, ServicesTypeOK
<1>3. ServicesInv => ServicesTypeOK
  BY DEF ServicesInv
<1> QED
  BY <1>1, <1>2, <1>3, PTL DEF ServicesSpec

(* For any slots, capacities, orders and days: the thresholds and hours that *)
(* five files write apart agree, a fuller slot is neither scored better nor  *)
(* predicted to be quicker, and the slot that the loop keeps heads the list  *)
(* that is sorted by score (core/load_insights.py:6-32,                      *)
(* utils/scoring.py:11-140, planners/eta_engine.py:18-134,                   *)
(* ai_intelligence/service.py:43-82).                                        *)
THEOREM AdviceIsSound == ServicesSpec => []AdviceHolds
<1>1. ServicesTypeOK => AdviceHolds
  <2> SUFFICES ASSUME ServicesTypeOK, part = "insights" PROVE AdviceIsConsistent
    BY DEF AdviceHolds
  <2>1. SalesTypeOK
    BY DEF ServicesTypeOK
  <2> QED
    BY <2>1, AdviceFits
<1> QED
  BY <1>1, ServicesTypeCorrect, PTL

(* For any slots, students, orders and days: every order is counted once in   *)
(* the board of its vendor and in the admin's breakdown, the plan and the      *)
(* ranking stand on the same orders, and what is said of a student or a group  *)
(* in one place is not denied in another (orders/order_service.py:297-408,     *)
(* admin/router.py:166-315, planners/demand_planner.py,                        *)
(* planners/vendor_ranker.py, learning/usage_patterns.py,                      *)
(* ai_intelligence/service.py:123-204).                                        *)
THEOREM FiguresAreSound == ServicesSpec => []FiguresHold
<1>1. ServicesTypeOK => FiguresHold
  <2> SUFFICES ASSUME ServicesTypeOK, part = "insights" PROVE FiguresAgree
    BY DEF FiguresHold
  <2>1. SalesTypeOK
    BY DEF ServicesTypeOK
  <2> QED
    BY <2>1, FiguresFit
<1> QED
  BY <1>1, ServicesTypeCorrect, PTL
=============================================================================

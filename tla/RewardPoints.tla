---------------------------- MODULE RewardPoints ----------------------------
(***************************************************************************)
(* Reward points (rewards/service.py): the reward_points rows of a student *)
(* and the transactions and redemptions recorded for her.  A request reads *)
(* a row into its session, computes on it and writes it back; no row is    *)
(* locked, so what it computes from may be stale when it commits.          *)
(* Students share no points, so one of them is enough.                     *)
(***************************************************************************)
EXTENDS Sums, Worker

CONSTANTS
  Accounts,  \* reward_points rows that may be inserted for the student
  Amounts,   \* points an order earns, or a redemption asks for
  MinPoints  \* redemption_rules.min_points

ASSUME MinPointsAssumption == MinPoints \in Nat \ {0}
ASSUME AmountsAssumption == Amounts \subseteq Nat \ {0}
ASSUME AccountsAssumption == IsFiniteSet(Accounts)

VARIABLES
  account,   \* the reward_points rows
  recorded,  \* points of the reward_transactions rows
  spent      \* points_used of the reward_redemptions rows

pointsRows == <<account, recorded, spent>>
pointsVars == <<pointsRows, workVars>>

Balance == [points : Int, earned : Nat, redeemed : Nat]
NoAccount == [points |-> "none"]
Empty == [points |-> 0, earned |-> 0, redeemed |-> 0]

\* The rows that have been inserted.
Wallets == {a \in Accounts : account[a] # NoAccount}

PointsInit ==
  /\ account = [a \in Accounts |-> NoAccount]
  /\ recorded = 0
  /\ spent = 0

-----------------------------------------------------------------------------
\* get_or_create_reward_points: one row of the student, whichever comes first,
\* and what it says; or none.  logged: the reward_transactions row is committed.
Lookup(op, n) ==
  IF Wallets = {}
  THEN {[at |-> "missing", op |-> op, n |-> n]}
  ELSE {[at |-> "loaded", op |-> op, n |-> n, row |-> a, seen |-> account[a], logged |-> FALSE] :
          a \in Wallets}

\* award_points, redeem_points or GET /rewards/points up to the row.  A
\* redemption passes its checks, the balance and the minimum of an active rule;
\* reading the points of a student who has a row changes nothing.
BeginPoints(w) ==
  /\ \E n \in Amounts, op \in {"award", "redeem", "view"} : \E t \in Lookup(op, n) :
       /\ op = "redeem" => n >= MinPoints /\ (t.at = "loaded" => t.seen.points >= n)
       /\ op = "view" => t.at = "missing"
       /\ Begin(w, t)
  /\ UNCHANGED pointsRows

\* The row is inserted and committed, and with it the reward_transactions row
\* award_points has added; a redemption ends here, at a balance of 0.
CreateAccount(w) ==
  LET t == work[w]
  IN /\ t.at = "missing"
     /\ \E a \in Accounts \ Wallets :
          /\ account' = [account EXCEPT ![a] = Empty]
          /\ IF t.op = "award"
             THEN /\ Continue(w, [at |-> "created", n |-> t.n, row |-> a])
                  /\ recorded' = recorded + t.n
             ELSE Finish(w) /\ UNCHANGED recorded
     /\ UNCHANGED spent

\* db.refresh reads the row back.
Refresh(w) ==
  LET t == work[w]
  IN /\ t.at = "created"
     /\ Continue(w, [at |-> "loaded", op |-> "award", n |-> t.n, row |-> t.row,
                     seen |-> account[t.row], logged |-> TRUE])
     /\ UNCHANGED pointsRows

\* points and total_earned are written; an off-peak order goes on to its bonus.
CommitAward(w) ==
  LET t == work[w]
  IN /\ t.at = "loaded" /\ t.op \in {"award", "bonus"}
     /\ account' = [account EXCEPT ![t.row] =
                      [points |-> t.seen.points + t.n, earned |-> t.seen.earned + t.n,
                       redeemed |-> account[t.row].redeemed]]
     /\ recorded' = IF t.logged THEN recorded ELSE recorded + t.n
     /\ Finish(w) \/ (t.op = "award" /\ Continue(w, [at |-> "bonus"]))
     /\ UNCHANGED spent

\* The off-peak bonus is an award of its own, from a row read again.
BeginBonus(w) ==
  /\ work[w].at = "bonus"
  /\ \E n \in Amounts : \E t \in Lookup("bonus", n) : Continue(w, t)
  /\ UNCHANGED pointsRows

\* Mutant: total_redeemed is moved the wrong way.
CommitRedeemNegative(w) ==
  LET t == work[w]
  IN /\ t.at = "loaded" /\ t.op = "redeem"
     /\ account' = [account EXCEPT ![t.row] =
                      [points |-> t.seen.points - t.n, earned |-> account[t.row].earned,
                       redeemed |-> t.seen.redeemed - t.n]]
     /\ spent' = spent + t.n
     /\ Finish(w)
     /\ UNCHANGED recorded

\* Mutant: only the balance is written.
CommitRedeemHalf(w) ==
  LET t == work[w]
  IN /\ t.at = "loaded" /\ t.op = "redeem"
     /\ account' = [account EXCEPT ![t.row] =
                      [points |-> t.seen.points - t.n, earned |-> account[t.row].earned,
                       redeemed |-> account[t.row].redeemed]]
     /\ spent' = spent + t.n
     /\ Finish(w)
     /\ UNCHANGED recorded

\* points and total_redeemed are written with the reward_redemptions row.
CommitRedeem(w) ==
  LET t == work[w]
  IN /\ t.at = "loaded" /\ t.op = "redeem"
     /\ account' = [account EXCEPT ![t.row] =
                      [points |-> t.seen.points - t.n, earned |-> account[t.row].earned,
                       redeemed |-> t.seen.redeemed + t.n]]
     /\ spent' = spent + t.n
     /\ Finish(w)
     /\ UNCHANGED recorded

-----------------------------------------------------------------------------
PointsStep(w) ==
  \/ BeginPoints(w)
  \/ CreateAccount(w)
  \/ Refresh(w)
  \/ CommitAward(w)
  \/ BeginBonus(w)
  \/ CommitRedeem(w)
  \/ Die(w) /\ UNCHANGED pointsRows

PointsNext == \E w \in Workers : PointsStep(w)

PointsSpec == PointsInit /\ WorkInit /\ [][PointsNext]_pointsVars

-----------------------------------------------------------------------------
PointsTypeOK ==
  /\ WorkTypeOK
  /\ account \in [Accounts -> Balance \cup {NoAccount}]
  /\ recorded \in Nat
  /\ spent \in Nat

(* A student never owes points, however many redemptions race: a redemption  *)
(* writes what it loaded minus what it checked against it                    *)
(* (rewards/service.py:70, 106).                                             *)
NobodyOwesPoints == \A a \in Wallets : account[a].points >= 0

(* No point is earned without a reward_transactions row, whatever races and  *)
(* dies: a lost update, or a crash after the first of the two commits of     *)
(* award_points, only ever loses points (rewards/service.py:27-59).          *)
EarnedIsRecorded == SumOf([a \in Wallets |-> account[a].earned]) <= recorded

(* As long as no two requests overlapped a student has one row and it adds   *)
(* up, workers that died included: the balance is what was earned and not    *)
(* redeemed, and every redeemed point has its reward_redemptions row.        *)
AccountAddsUp ==
  ~raced =>
    /\ \A a, b \in Wallets : a = b
    /\ \A a \in Wallets :
         /\ account[a].points = account[a].earned - account[a].redeemed
         /\ account[a].redeemed = spent

(* The accounts can be answered for: no debt and no point from nowhere, and  *)
(* the books balance where nothing overlapped.                               *)
PointsAddUp == NobodyOwesPoints /\ EarnedIsRecorded /\ AccountAddsUp

(* "Check if user has enough points" (rewards/service.py:68): what was       *)
(* redeemed had been earned.  Not so: two redemptions that race check        *)
(* themselves against the same balance.                                      *)
NothingIsSpentTwice == spent <= recorded
=============================================================================

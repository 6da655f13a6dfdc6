---------------------------- MODULE PaymentLedger ----------------------------
(***************************************************************************)
(* What the ledger promises about each payment: an entry is written only   *)
(* for money that moved, a payment called SUCCESS has been booked, one     *)
(* called REFUNDED has gone back, and it is paid back once and never more  *)
(* often than it was booked.  It knows nothing of requests, webhooks,      *)
(* sessions or Redis; OrderPayments is the code that should keep it.       *)
(***************************************************************************)
EXTENDS Naturals

CONSTANT Payments

VARIABLES
  money,   \* of each payment: "owed", "taken" by Razorpay or "returned"
  label,   \* what its payments row says
  credit,  \* CREDIT entries
  debit    \* DEBIT entries

ledger == <<money, label, credit, debit>>

Labels == {"none", "INITIATED", "SUCCESS", "FAILED", "REFUNDED"}

Init ==
  /\ money = [p \in Payments |-> "owed"]
  /\ label = [p \in Payments |-> "none"]
  /\ credit = [p \in Payments |-> 0]
  /\ debit = [p \in Payments |-> 0]

\* The row may say s once the money and the books bear it out.
Earned(p, s) ==
  /\ s = "SUCCESS" => credit'[p] > 0
  /\ s = "REFUNDED" => money[p] = "returned"

Label(p, s) == Earned(p, s) /\ label' = [label EXCEPT ![p] = s]

Take(p) ==
  /\ money[p] = "owed"
  /\ money' = [money EXCEPT ![p] = "taken"]
  /\ UNCHANGED <<label, credit, debit>>

Return(p) ==
  /\ money[p] = "taken"
  /\ money' = [money EXCEPT ![p] = "returned"]
  /\ UNCHANGED <<label, credit, debit>>

Book(p, s) ==
  /\ money[p] # "owed"
  /\ credit' = [credit EXCEPT ![p] = @ + 1]
  /\ Label(p, s)
  /\ UNCHANGED <<money, debit>>

BookBack(p, s) ==
  /\ money[p] = "returned"
  /\ credit[p] > 0 /\ debit[p] = 0
  /\ debit' = [debit EXCEPT ![p] = 1]
  /\ UNCHANGED <<money, credit>>
  /\ Label(p, s)

Relabel(p, s) ==
  /\ UNCHANGED <<money, credit, debit>>
  /\ Label(p, s)

Next ==
  \E p \in Payments :
    \/ Take(p)
    \/ Return(p)
    \/ \E s \in Labels : Book(p, s) \/ BookBack(p, s) \/ Relabel(p, s)

Spec == Init /\ [][Next]_ledger
=============================================================================

----------------------- MODULE OrderPayments_proofs -------------------------
(***************************************************************************)
(* Theorems about OrderPayments for any number of orders, payments, keys   *)
(* and workers: types, the ledger and the idempotency keys, however the    *)
(* client's requests, Razorpay's webhooks and the vendor interleave.       *)
(***************************************************************************)
EXTENDS OrderPayments, OrderLifecycle_proofs

(* A row that has a payment id or a status has an order. *)
RowsAreWhole ==
  \A p \in Payments :
    pay[p].rzp \/ pay[p].status # "none" => pay[p].status # "none" /\ pay[p].order \in Orders

(* Everything but initiate works on a row that is there. *)
RequestsHavePayments ==
  \A r \in PayRequests :
    preq[r].op \notin {"idle", "initiate"} => pay[preq[r].pay].status # "none"

(* Razorpay emits an event only when it is true, and it stays true. *)
EventsAreTrue ==
  \A p \in Payments :
    /\ "captured" \in events[p] => Paid(p)
    /\ "refunded" \in events[p] => provider[p] = "refunded"

(* A request that is about to write money down acts on money that moved. *)
RequestsAreBacked ==
  \A r \in PayRequests :
    /\ preq[r].op \in {"verify", "captured"} => Paid(preq[r].pay)
    /\ preq[r].op \in {"refund", "refundCalled"} => credit[preq[r].pay] > 0
    /\ preq[r].op = "refunded" => provider[preq[r].pay] = "refunded"

(* Razorpay refunds a payment once, so at most one request holds its answer, *)
(* and that payment has no DEBIT yet.                                        *)
RefundAnswersAreUnique ==
  \A r \in PayRequests : preq[r].op = "refundCalled" =>
    /\ provider[preq[r].pay] = "refunded"
    /\ debit[preq[r].pay] = 0
    /\ \A x \in PayRequests \ {r} :
         preq[x].op = "refundCalled" => preq[x].pay # preq[r].pay

PayInv ==
  /\ IInv
  /\ PayTypeOK
  /\ RowsAreWhole
  /\ RequestsHavePayments
  /\ EventsAreTrue
  /\ RequestsAreBacked
  /\ RefundAnswersAreUnique
  /\ CreditIsBacked
  /\ SuccessIsCredited
  /\ RefundIsCovered
  /\ RefundIsBacked
  /\ OneRowPerKey

-----------------------------------------------------------------------------
(* The record a worker holds, and what StartPay puts there.                  *)
LEMMA RequestRecord ==
  ASSUME PayTypeOK, NEW r \in PayRequests, preq[r].op # "idle"
  PROVE  /\ preq[r] \in PayRequest
         /\ preq[r].pay \in Payments
         /\ preq[r].order \in Orders
         /\ preq[r].key \in Keys \cup {NoKey}
         /\ preq[r].seenPay \in PayStatus
         /\ preq[r].seenOrder \in OrderStatus
BY DEF PayTypeOK, PayRequest, IdlePay

(* A flush writes the new value or leaves the old one.                       *)
LEMMA FlushedIsEither ==
  \A new, seen, current : Flushed(new, seen, current) \in {new, current}
BY DEF Flushed

LEMMA PayInitInductive == PayInit => PayInv
<1> SUFFICES ASSUME PayInit PROVE PayInv
  OBVIOUS
<1>1. IInv /\ TypeOK
  BY InitInductive DEF PayInit, IInv
<1>2. PayTypeOK
  BY <1>1, MaxCallsAssumption
     DEF PayInit, PayTypeOK, NoRow, Row, IdlePay
<1>3. RowsAreWhole /\ RequestsHavePayments /\ EventsAreTrue
  BY DEF PayInit, RowsAreWhole, RequestsHavePayments, EventsAreTrue, NoRow, IdlePay
<1>4. RequestsAreBacked /\ RefundAnswersAreUnique
  BY DEF PayInit, RequestsAreBacked, RefundAnswersAreUnique, IdlePay
<1>5. CreditIsBacked /\ SuccessIsCredited /\ RefundIsCovered /\ RefundIsBacked
  BY DEF PayInit, CreditIsBacked, SuccessIsCredited, RefundIsCovered, RefundIsBacked, NoRow
<1>6. OneRowPerKey
  BY DEF PayInit, OneRowPerKey, NoRow
<1> QED
  BY <1>1, <1>2, <1>3, <1>4, <1>5, <1>6 DEF PayInv

-----------------------------------------------------------------------------
(* Steps that leave the payments, the ledger and the requests alone: the     *)
(* order handlers, the webhook answers, the expiry of a Redis key.           *)
LEMMA OutsideStep ==
  ASSUME PayInv, IInv', UNCHANGED <<payRows, external, preq>>,
         acked' \in [Payments -> SUBSET Events], dedup' \in [Payments -> SUBSET Events],
         calls' \in 0 .. MaxCalls
  PROVE  PayInv'
<1> USE DEF PayInv
<1>0. UNCHANGED <<pay, credit, debit, provider, events, preq>>
  BY DEF payRows, external
<1>1. PayTypeOK'
  BY <1>0 DEF PayTypeOK, IInv
<1>2. RowsAreWhole' /\ RequestsHavePayments' /\ EventsAreTrue' /\ OneRowPerKey'
  BY <1>0 DEF RowsAreWhole, RequestsHavePayments, EventsAreTrue, OneRowPerKey, Paid
<1>3. RequestsAreBacked' /\ RefundAnswersAreUnique'
  BY <1>0 DEF RequestsAreBacked, RefundAnswersAreUnique, Paid
<1>4. CreditIsBacked' /\ SuccessIsCredited' /\ RefundIsCovered' /\ RefundIsBacked'
  BY <1>0 DEF CreditIsBacked, SuccessIsCredited, RefundIsCovered, RefundIsBacked, Paid
<1> QED
  BY <1>1, <1>2, <1>3, <1>4

(* The order rows and their requests, when no step touches them.             *)
LEMMA RowsUnchanged ==
  ASSUME IInv, UNCHANGED vars
  PROVE  IInv'
BY NextInductive

(* Razorpay moves a payment forward: captured once, refunded once captured.  *)
LEMMA ProviderStep ==
  ASSUME PayInv, NEW p \in Payments,
         NEW s \in {"failed", "captured", "refunded"}, NEW e \in Events,
         ProviderPay(p, s, e),
         \/ provider[p] = "captured" /\ s = "refunded" /\ e = "refunded"
         \/ ~Paid(p) /\ s = "captured" /\ e = "captured"
         \/ ~Paid(p) /\ s = "failed" /\ e = "failed"
  PROVE  PayInv'
<1> USE DEF PayInv
<1>0. /\ provider' = [provider EXCEPT ![p] = s]
      /\ events' = [events EXCEPT ![p] = @ \cup {e}]
      /\ UNCHANGED <<vars, pay, credit, debit, acked, dedup, preq, calls>>
  BY DEF ProviderPay, payRows, hooks
<1>a. /\ \A x \in Payments : Paid(x) => Paid(x)'
      /\ \A x \in Payments : provider[x] = "refunded" => provider'[x] = "refunded"
  BY <1>0 DEF PayTypeOK, Paid
<1>1. IInv'
  BY <1>0, RowsUnchanged
<1>2. PayTypeOK'
  BY <1>0, <1>1 DEF PayTypeOK, IInv
<1>3. EventsAreTrue'
  BY <1>0, <1>a DEF EventsAreTrue, PayTypeOK, Paid
<1>4. RowsAreWhole' /\ RequestsHavePayments' /\ OneRowPerKey' /\ SuccessIsCredited'
      /\ RefundIsCovered'
  BY <1>0 DEF RowsAreWhole, RequestsHavePayments, OneRowPerKey, SuccessIsCredited,
              RefundIsCovered
<1>5. CreditIsBacked' /\ RefundIsBacked'
  BY <1>0, <1>a DEF CreditIsBacked, RefundIsBacked
<1>6. RequestsAreBacked'
  <2> SUFFICES ASSUME NEW r \in PayRequests
               PROVE  /\ preq[r].op \in {"verify", "captured"} => Paid(preq[r].pay)'
                      /\ preq[r].op \in {"refund", "refundCalled"} => credit[preq[r].pay] > 0
                      /\ preq[r].op = "refunded" => provider'[preq[r].pay] = "refunded"
    BY <1>0 DEF RequestsAreBacked, Paid
  <2>1. preq[r].op # "idle" => preq[r].pay \in Payments
    BY RequestRecord
  <2>2. /\ preq[r].op \in {"verify", "captured"} => Paid(preq[r].pay)
        /\ preq[r].op \in {"refund", "refundCalled"} => credit[preq[r].pay] > 0
        /\ preq[r].op = "refunded" => provider[preq[r].pay] = "refunded"
    BY DEF RequestsAreBacked
  <2>3. preq[r].op \in {"verify", "captured"} => Paid(preq[r].pay)'
    BY <1>0, <1>a, <2>1, <2>2 DEF Paid
  <2>4. preq[r].op = "refunded" => provider'[preq[r].pay] = "refunded"
    BY <1>a, <2>1, <2>2
  <2> QED
    BY <2>2, <2>3, <2>4
<1>7. RefundAnswersAreUnique'
  <2>1. \A r \in PayRequests : preq[r].op = "refundCalled" => preq[r].pay \in Payments
    BY RequestRecord
  <2> QED
    BY <1>0, <1>a, <2>1 DEF RefundAnswersAreUnique
<1> QED
  BY <1>1, <1>2, <1>3, <1>4, <1>5, <1>6, <1>7

(* The read step of a request on payment p: it may be any of the requests    *)
(* that what it read permits.                                                *)
LEMMA RequestStep ==
  ASSUME PayInv, NEW r \in PayRequests, NEW op \in PayOps \ {"initiate", "refundCalled"},
         NEW p \in Payments,
         StartPay(r, op, p, pay[p].order, NoKey), pay[p].status # "none",
         op \in {"verify", "captured"} => Paid(p),
         op = "refund" => credit[p] > 0,
         op = "refunded" => provider[p] = "refunded",
         UNCHANGED external,
         acked' \in [Payments -> SUBSET Events], dedup' \in [Payments -> SUBSET Events],
         calls' \in 0 .. MaxCalls
  PROVE  PayInv'
<1> USE DEF PayInv
<1> DEFINE q == [op |-> op, pay |-> p, order |-> pay[p].order, key |-> NoKey,
                 seenPay |-> pay[p].status, seenOrder |-> status[pay[p].order]]
<1>0. /\ preq' = [preq EXCEPT ![r] = q]
      /\ UNCHANGED <<vars, pay, credit, debit, provider, events>>
  BY DEF StartPay, payRows, external
<1>1. IInv'
  BY <1>0, RowsUnchanged
<1>a. q \in PayRequest
  <2>1. pay[p].order \in Orders
    BY DEF RowsAreWhole
  <2>2. pay[p].status \in PayStatus /\ status[pay[p].order] \in OrderStatus
    BY <2>1 DEF PayTypeOK, Row, IInv, TypeOK
  <2> QED
    BY <2>1, <2>2 DEF PayRequest
<1>2. PayTypeOK'
  BY <1>0, <1>1, <1>a DEF PayTypeOK, IInv
<1>3. \A x \in PayRequests : preq'[x] = IF x = r THEN q ELSE preq[x]
  BY <1>0 DEF PayTypeOK
<1>4. q.op = op /\ q.pay = p
  OBVIOUS
<1> HIDE DEF q
<1>5. RequestsHavePayments'
  BY <1>0, <1>3, <1>4 DEF RequestsHavePayments
<1>6. RequestsAreBacked'
  BY <1>0, <1>3, <1>4 DEF RequestsAreBacked, Paid
<1>7. RefundAnswersAreUnique'
  BY <1>0, <1>3, <1>4 DEF RefundAnswersAreUnique
<1>8. RowsAreWhole' /\ EventsAreTrue' /\ OneRowPerKey' /\ SuccessIsCredited'
      /\ RefundIsCovered' /\ CreditIsBacked' /\ RefundIsBacked'
  BY <1>0 DEF RowsAreWhole, EventsAreTrue, OneRowPerKey, SuccessIsCredited,
              RefundIsCovered, CreditIsBacked, RefundIsBacked, Paid
<1> QED
  BY <1>1, <1>2, <1>5, <1>6, <1>7, <1>8

(* initiate_payment: a Razorpay order is created, and no row yet.            *)
LEMMA InitiateStep ==
  ASSUME PayInv, NEW r \in PayRequests, NEW o \in Orders, NEW k \in Keys \cup {NoKey},
         BeginInitiate(r, o, k)
  PROVE  PayInv'
<1> USE DEF PayInv
<1> PICK p \in Payments : /\ provider[p] = "none"
                           /\ StartPay(r, "initiate", p, o, k)
                           /\ provider' = [provider EXCEPT ![p] = "created"]
  BY DEF BeginInitiate
<1> DEFINE q == [op |-> "initiate", pay |-> p, order |-> o, key |-> k,
                 seenPay |-> "INITIATED", seenOrder |-> status[o]]
<1>0. /\ preq' = [preq EXCEPT ![r] = q]
      /\ UNCHANGED <<vars, pay, credit, debit, events, acked, dedup>>
      /\ calls' = calls
  BY DEF BeginInitiate, StartPay, payRows, hooks
<1>1. IInv'
  BY <1>0, RowsUnchanged
<1>a. q \in PayRequest
  BY DEF PayRequest, PayOps, PayStatus, IInv, TypeOK
<1>b. \A x \in Payments : /\ Paid(x) => Paid(x)'
                          /\ provider[x] = "refunded" => provider'[x] = "refunded"
  BY DEF Paid, PayTypeOK
<1>2. PayTypeOK'
  <2>1. calls' \in 0 .. MaxCalls
    BY <1>0, MaxCallsAssumption DEF PayTypeOK
  <2> QED
    BY <1>0, <1>1, <1>a, <2>1 DEF PayTypeOK, IInv
<1>3. \A x \in PayRequests : preq'[x] = IF x = r THEN q ELSE preq[x]
  BY <1>0 DEF PayTypeOK
<1>4. q.op = "initiate"
  OBVIOUS
<1> HIDE DEF q
<1>c. \A x \in PayRequests : preq[x].op # "idle" => preq[x].pay \in Payments
  BY RequestRecord
<1>5. RequestsHavePayments'
  BY <1>0, <1>3, <1>4 DEF RequestsHavePayments
<1>6. RequestsAreBacked'
  <2> SUFFICES ASSUME NEW x \in PayRequests, x # r
               PROVE  /\ preq[x].op \in {"verify", "captured"} => Paid(preq[x].pay)'
                      /\ preq[x].op \in {"refund", "refundCalled"} => credit[preq[x].pay] > 0
                      /\ preq[x].op = "refunded" => provider'[preq[x].pay] = "refunded"
    BY <1>0, <1>3, <1>4 DEF RequestsAreBacked, Paid
  <2>1. /\ preq[x].op \in {"verify", "captured"} => Paid(preq[x].pay)
        /\ preq[x].op \in {"refund", "refundCalled"} => credit[preq[x].pay] > 0
        /\ preq[x].op = "refunded" => provider[preq[x].pay] = "refunded"
    BY DEF RequestsAreBacked
  <2>2. preq[x].op \in {"verify", "captured"} => Paid(preq[x].pay)'
    BY <1>0, <1>3, <1>b, <1>c, <2>1 DEF Paid
  <2>3. preq[x].op = "refunded" => provider'[preq[x].pay] = "refunded"
    BY <1>b, <1>c, <2>1
  <2> QED
    BY <2>1, <2>2, <2>3
<1>7. RefundAnswersAreUnique'
  <2> SUFFICES ASSUME NEW x \in PayRequests, x # r, preq[x].op = "refundCalled"
               PROVE  /\ provider'[preq[x].pay] = "refunded"
                      /\ debit[preq[x].pay] = 0
                      /\ \A y \in PayRequests \ {x} :
                           y # r /\ preq[y].op = "refundCalled" => preq[y].pay # preq[x].pay
    BY <1>0, <1>3, <1>4 DEF RefundAnswersAreUnique
  <2>1. provider[preq[x].pay] = "refunded" /\ preq[x].pay \in Payments
    BY <1>c DEF RefundAnswersAreUnique
  <2> QED
    BY <1>b, <2>1 DEF RefundAnswersAreUnique
<1>8. CreditIsBacked' /\ RefundIsBacked' /\ EventsAreTrue'
  <2>1. CreditIsBacked'
    BY <1>0, <1>b DEF CreditIsBacked, Paid
  <2>2. RefundIsBacked'
    BY <1>0, <1>b DEF RefundIsBacked
  <2>3. EventsAreTrue'
    BY <1>0, <1>b DEF EventsAreTrue, Paid
  <2> QED
    BY <2>1, <2>2, <2>3
<1>9. RowsAreWhole' /\ OneRowPerKey' /\ SuccessIsCredited' /\ RefundIsCovered'
  BY <1>0 DEF RowsAreWhole, OneRowPerKey, SuccessIsCredited, RefundIsCovered
<1> QED
  BY <1>1, <1>2, <1>5, <1>6, <1>7, <1>8, <1>9

-----------------------------------------------------------------------------
(* The other requests are not concerned by the end of one.                   *)
LEMMA RequestDone ==
  ASSUME PayInv, NEW r \in PayRequests, preq' = [preq EXCEPT ![r] = IdlePay]
  PROVE  /\ preq' \in [PayRequests -> PayRequest \cup {IdlePay}]
         /\ \A x \in PayRequests :
              preq'[x].op # "idle" => x # r /\ preq'[x] = preq[x] /\ preq[x].pay \in Payments
<1>1. preq' \in [PayRequests -> PayRequest \cup {IdlePay}]
  BY DEF PayInv, PayTypeOK
<1>2. \A x \in PayRequests : preq[x].op # "idle" => preq[x].pay \in Payments
  BY RequestRecord DEF PayInv
<1>3. \A x \in PayRequests : preq'[x] = IF x = r THEN IdlePay ELSE preq[x]
  BY DEF PayInv, PayTypeOK
<1>4. IdlePay.op = "idle"
  BY DEF IdlePay
<1> QED
  BY <1>1, <1>2, <1>3, <1>4

(* A request that dies leaves every row as it was.                           *)
LEMMA AbortStep ==
  ASSUME PayInv, NEW r \in PayRequests, preq' = [preq EXCEPT ![r] = IdlePay],
         IInv', UNCHANGED <<payRows, hooks, calls>>,
         \/ UNCHANGED external
         \/ /\ preq[r].op = "refund"
            /\ provider' = [provider EXCEPT ![preq[r].pay] = "refunded"]
            /\ events' = [events EXCEPT ![preq[r].pay] = @ \cup {"refunded"}]
  PROVE  PayInv'
<1> USE DEF PayInv
<1>0. UNCHANGED <<pay, credit, debit, acked, dedup, calls>>
  BY DEF payRows, hooks
<1>1. /\ preq' \in [PayRequests -> PayRequest \cup {IdlePay}]
      /\ \A x \in PayRequests :
           preq'[x].op # "idle" => x # r /\ preq'[x] = preq[x] /\ preq[x].pay \in Payments
  BY RequestDone
<1>2. /\ provider' \in [Payments -> {"none", "created", "failed", "captured", "refunded"}]
      /\ events' \in [Payments -> SUBSET Events]
      /\ \A p \in Payments : /\ Paid(p) => Paid(p)'
                             /\ provider[p] = "refunded" => provider'[p] = "refunded"
                             /\ "refunded" \in events'[p] => \/ "refunded" \in events[p]
                                                             \/ provider'[p] = "refunded"
                             /\ "captured" \in events'[p] => "captured" \in events[p]
  <2>1. CASE UNCHANGED external
    BY <2>1 DEF external, PayTypeOK, Paid
  <2>2. CASE /\ preq[r].op = "refund"
             /\ provider' = [provider EXCEPT ![preq[r].pay] = "refunded"]
             /\ events' = [events EXCEPT ![preq[r].pay] = @ \cup {"refunded"}]
    BY <2>2 DEF PayTypeOK, Paid, Events
  <2> QED
    BY <2>1, <2>2
<1>3. PayTypeOK'
  BY <1>0, <1>1, <1>2 DEF PayTypeOK, IInv
<1>4. RowsAreWhole' /\ OneRowPerKey' /\ SuccessIsCredited' /\ RefundIsCovered'
  BY <1>0 DEF RowsAreWhole, OneRowPerKey, SuccessIsCredited, RefundIsCovered
<1>5. CreditIsBacked' /\ RefundIsBacked' /\ EventsAreTrue'
  BY <1>0, <1>2 DEF CreditIsBacked, RefundIsBacked, EventsAreTrue
<1>6. RequestsHavePayments'
  BY <1>0, <1>1 DEF RequestsHavePayments
<1>7. RequestsAreBacked'
  <2> SUFFICES ASSUME NEW x \in PayRequests, preq'[x].op # "idle"
               PROVE  /\ preq'[x].op \in {"verify", "captured"} => Paid(preq[x].pay)'
                      /\ preq'[x].op \in {"refund", "refundCalled"} => credit[preq[x].pay] > 0
                      /\ preq'[x].op = "refunded" => provider'[preq[x].pay] = "refunded"
    BY <1>0, <1>1 DEF RequestsAreBacked, Paid
  <2>1. /\ preq[x].op \in {"verify", "captured"} => Paid(preq[x].pay)
        /\ preq[x].op \in {"refund", "refundCalled"} => credit[preq[x].pay] > 0
        /\ preq[x].op = "refunded" => provider[preq[x].pay] = "refunded"
    BY DEF RequestsAreBacked
  <2>2. preq[x].op \in {"verify", "captured"} => Paid(preq[x].pay)'
    BY <1>1, <1>2, <2>1 DEF Paid
  <2> QED
    BY <1>1, <1>2, <2>1, <2>2
<1>8. RefundAnswersAreUnique'
  <2> SUFFICES ASSUME NEW x \in PayRequests, preq'[x].op = "refundCalled"
               PROVE  /\ provider'[preq'[x].pay] = "refunded"
                      /\ debit'[preq'[x].pay] = 0
                      /\ \A y \in PayRequests \ {x} :
                           preq'[y].op = "refundCalled" => preq'[y].pay # preq'[x].pay
    BY DEF RefundAnswersAreUnique
  <2>1. preq'[x] = preq[x] /\ preq[x].pay \in Payments
    BY <1>1
  <2>2. /\ provider[preq[x].pay] = "refunded"
        /\ debit[preq[x].pay] = 0
        /\ \A y \in PayRequests \ {x} :
             preq[y].op = "refundCalled" => preq[y].pay # preq[x].pay
    BY <2>1 DEF RefundAnswersAreUnique
  <2> QED
    BY <1>0, <1>1, <1>2, <2>1, <2>2
<1> QED
  BY <1>3, <1>4, <1>5, <1>6, <1>7, <1>8

(* A payment request writes the status of the order row, and no other        *)
(* column: an order it did not put in a pickup status is not handed over.    *)
LEMMA OrderWrite ==
  ASSUME IInv, NEW o \in Orders, NEW z \in {status[o], "CONFIRMED", "CANCELLED"},
         NEW told \in SUBSET Notices,
         status' = [status EXCEPT ![o] = z],
         notices' = [notices EXCEPT ![o] = @ \cup told],
         UNCHANGED <<history, qr, pickup, rewards, handed, req, aborts>>
  PROVE  IInv'
<1> USE DEF IInv
<1>1. TypeOK'
  BY DEF TypeOK, OrderStatus
<1>2. \A x \in Orders : status'[x] \in PickupStatuses \cup {"PICKED"} => status'[x] = status[x]
  BY DEF TypeOK, PickupStatuses
<1>3. \A x \in Orders : OrderHadBeenReady(x) => OrderHadBeenReady(x)'
  BY DEF OrderHadBeenReady, Recorded
<1>4. RequestsHoldRows'
  BY DEF RequestsHoldRows
<1>5. PickupStatusIsEarned' /\ PendingPickupIsEarned'
  BY <1>2, <1>3 DEF PickupStatusIsEarned, PendingPickupIsEarned, RequestsHoldRows
<1>6. HandedOverOnlyWhenReady'
  BY <1>2 DEF HandedOverOnlyWhenReady, Recorded
<1> QED
  BY <1>1, <1>4, <1>5, <1>6

(* The commit of verify, of a webhook or of a refund: what the payment       *)
(* becomes, what the ledger books and what Razorpay knows stay in step.      *)
LEMMA CommitStep ==
  ASSUME PayInv, NEW r \in PayRequests, preq[r].op \notin {"idle", "initiate"},
         NEW ps \in {"SUCCESS", "FAILED", "REFUNDED"},
         NEW os \in {"CONFIRMED", "CANCELLED", preq[r].seenOrder},
         NEW rzp \in BOOLEAN, NEW told \in SUBSET Notices,
         Write(preq[r], ps, os, rzp, told), FinishPay(r), UNCHANGED external,
         \/ /\ ps = "SUCCESS" /\ Paid(preq[r].pay)
            /\ credit' = [credit EXCEPT ![preq[r].pay] = @ + 1]
            /\ UNCHANGED debit
         \/ /\ ps = "FAILED" \/ (ps = "REFUNDED" /\ provider[preq[r].pay] = "refunded")
            /\ UNCHANGED <<credit, debit>>
         \/ /\ ps = "REFUNDED" /\ preq[r].op = "refundCalled"
            /\ debit' = [debit EXCEPT ![preq[r].pay] = @ + 1]
            /\ UNCHANGED credit
  PROVE  PayInv'
<1> USE DEF PayInv
<1> DEFINE q == preq[r]
           p == q.pay
           o == q.order
<1> DEFINE new == [status |-> Flushed(ps, q.seenPay, pay[p].status),
                   order  |-> pay[p].order,
                   key    |-> pay[p].key,
                   rzp    |-> pay[p].rzp \/ rzp]
<1>0. /\ pay' = [pay EXCEPT ![p] = new]
      /\ status' = [status EXCEPT ![o] = Flushed(os, q.seenOrder, @)]
      /\ notices' = [notices EXCEPT ![o] = @ \cup told]
      /\ acked' = IF q.op \in Events THEN [acked EXCEPT ![p] = @ \cup {q.op}] ELSE acked
      /\ preq' = [preq EXCEPT ![r] = IdlePay]
      /\ UNCHANGED <<provider, events, calls, dedup, history, qr, pickup, rewards, handed,
                     req, aborts>>
  BY DEF Write, FinishPay, external
<1>1. p \in Payments /\ o \in Orders
  BY RequestRecord
<1>2. \E z \in {status[o], "CONFIRMED", "CANCELLED"} : status' = [status EXCEPT ![o] = z]
  BY <1>0 DEF Flushed
<1>3. IInv'
  BY <1>0, <1>1, <1>2, OrderWrite
<1>4. /\ preq' \in [PayRequests -> PayRequest \cup {IdlePay}]
      /\ \A x \in PayRequests :
           preq'[x].op # "idle" => x # r /\ preq'[x] = preq[x] /\ preq[x].pay \in Payments
  BY <1>0, RequestDone
<1>a. PICK s \in {pay[p].status, ps} : s = Flushed(ps, q.seenPay, pay[p].status)
  BY DEF Flushed
<1>c. pay[p].status \in PayStatus
  BY <1>1 DEF RequestsHavePayments, PayTypeOK, Row
<1>d. s \in PayStatus
  BY <1>a, <1>c DEF PayStatus
<1>f. /\ acked' \in [Payments -> SUBSET Events]
      /\ credit' \in [Payments -> Nat]
      /\ debit' \in [Payments -> Nat]
  BY <1>0, <1>1 DEF PayTypeOK
<1> HIDE DEF q, p, o
<1>e. /\ pay' \in [Payments -> Row]
      /\ pay'[p].status = s
      /\ \A x \in Payments : /\ pay'[x].order = pay[x].order
                             /\ pay'[x].key = pay[x].key
                             /\ x # p => pay'[x] = pay[x]
                             /\ pay[x].status # "none" => pay'[x].status # "none"
  <2>1. pay \in [Payments -> Row] /\ pay[p] \in Row /\ (pay[p].rzp \/ rzp) \in BOOLEAN
    BY <1>1 DEF PayTypeOK
  <2>2. new.status = s /\ new.order = pay[p].order /\ new.key = pay[p].key
    BY <1>a
  <2>3. new \in Row
    BY <1>a, <1>d, <2>1 DEF Row
  <2> HIDE DEF new
  <2> QED
    BY <1>0, <1>1, <1>d, <2>1, <2>2, <2>3 DEF PayStatus
<1>5. PayTypeOK'
  BY <1>0, <1>3, <1>4, <1>e, <1>f DEF PayTypeOK, IInv
<1>6. RowsAreWhole' /\ OneRowPerKey'
  <2>1. RowsAreWhole'
    BY <1>1, <1>c, <1>d, <1>e DEF RowsAreWhole, PayStatus
  <2>2. OneRowPerKey'
    BY <1>e DEF OneRowPerKey
  <2> QED
    BY <2>1, <2>2
<1>7. RequestsHavePayments'
  BY <1>4, <1>e DEF RequestsHavePayments
<1>8. EventsAreTrue'
  BY <1>0 DEF EventsAreTrue, Paid
<1>9. /\ \A x \in Payments : credit[x] > 0 => credit'[x] > 0
      /\ \A x \in Payments : credit'[x] > 0 => Paid(x)
      /\ \A x \in Payments : credit[x] <= credit'[x]
      /\ ps = "SUCCESS" => credit'[p] > 0
  BY <1>1 DEF PayTypeOK, CreditIsBacked, p, q
<1>10. RequestsAreBacked'
  <2> SUFFICES ASSUME NEW x \in PayRequests, preq'[x].op # "idle"
               PROVE  /\ preq[x].op \in {"verify", "captured"} => Paid(preq[x].pay)
                      /\ preq[x].op \in {"refund", "refundCalled"} => credit'[preq[x].pay] > 0
                      /\ preq[x].op = "refunded" => provider[preq[x].pay] = "refunded"
    BY <1>0, <1>4 DEF RequestsAreBacked, Paid
  <2> QED
    BY <1>4, <1>9 DEF RequestsAreBacked
<1>11. CreditIsBacked' /\ SuccessIsCredited'
  <2>1. CreditIsBacked'
    BY <1>0, <1>9 DEF CreditIsBacked, Paid
  <2>2. SuccessIsCredited'
    BY <1>a, <1>9, <1>e DEF SuccessIsCredited
  <2> QED
    BY <2>1, <2>2
<1>12. RefundAnswersAreUnique' /\ RefundIsCovered' /\ RefundIsBacked'
  <2>1. CASE UNCHANGED debit
    <3>1. RefundAnswersAreUnique'
      BY <1>0, <1>4, <2>1 DEF RefundAnswersAreUnique
    <3>2. RefundIsCovered'
      <4> SUFFICES ASSUME NEW x \in Payments
                   PROVE  debit[x] <= credit'[x] /\ debit[x] <= 1
        BY <2>1 DEF RefundIsCovered
      <4>1. debit[x] \in Nat /\ credit[x] \in Nat /\ credit'[x] \in Nat
        BY <1>f DEF PayTypeOK
      <4> QED
        BY <1>9, <4>1 DEF RefundIsCovered
    <3>3. RefundIsBacked'
      <4>1. ps = "REFUNDED" => provider[p] = "refunded"
        BY DEF RefundAnswersAreUnique, p, q
      <4> QED
        BY <1>0, <1>a, <1>e, <2>1, <4>1 DEF RefundIsBacked
    <3> QED
      BY <3>1, <3>2, <3>3
  <2>2. CASE /\ q.op = "refundCalled"
             /\ debit' = [debit EXCEPT ![p] = @ + 1]
             /\ UNCHANGED credit
    <3>1. provider[p] = "refunded" /\ debit[p] = 0 /\ credit[p] > 0
      BY <2>2 DEF RefundAnswersAreUnique, RequestsAreBacked, p, q
    <3>2. \A x \in PayRequests \ {r} : preq[x].op = "refundCalled" => preq[x].pay # p
      BY <2>2 DEF RefundAnswersAreUnique, p, q
    <3>3. RefundAnswersAreUnique'
      BY <1>0, <1>4, <2>2, <3>2 DEF RefundAnswersAreUnique, PayTypeOK
    <3>4. RefundIsCovered'
      BY <1>1, <2>2, <3>1 DEF RefundIsCovered, PayTypeOK
    <3>5. RefundIsBacked'
      BY <1>0, <1>1, <1>e, <2>2, <3>1 DEF RefundIsBacked, PayTypeOK
    <3> QED
      BY <3>3, <3>4, <3>5
  <2> QED
    BY <2>1, <2>2 DEF p, q
<1> QED
  BY <1>3, <1>5, <1>6, <1>7, <1>8, <1>10, <1>11, <1>12

(* The INSERT of initiate_payment; the loser of a race writes nothing.       *)
LEMMA InsertStep ==
  ASSUME PayInv, NEW r \in PayRequests, CommitInitiate(r)
  PROVE  PayInv'
<1> USE DEF PayInv
<1> DEFINE p == preq[r].pay
           row == [status |-> "INITIATED", order |-> preq[r].order, key |-> preq[r].key,
                   rzp |-> FALSE]
<1>0. /\ pay' = IF KeyTaken(preq[r].order, preq[r].key) THEN pay ELSE [pay EXCEPT ![p] = row]
      /\ preq[r].op = "initiate"
      /\ preq' = [preq EXCEPT ![r] = IdlePay]
      /\ UNCHANGED <<status, notices, credit, debit, provider, events, acked, calls, dedup,
                     history, qr, pickup, rewards, handed, req, aborts>>
  BY DEF CommitInitiate, FinishPay, external, Events
<1>1. IInv'
  BY <1>0, RowsUnchanged DEF vars, rows
<1>2. CASE KeyTaken(preq[r].order, preq[r].key)
  BY <1>0, <1>1, <1>2, AbortStep DEF payRows, hooks, external
<1>3. CASE ~KeyTaken(preq[r].order, preq[r].key)
  <2>1. p \in Payments /\ preq[r].order \in Orders /\ preq[r].key \in Keys \cup {NoKey}
    BY <1>0, RequestRecord
  <2>2. row \in Row /\ row.status = "INITIATED" /\ row.order = preq[r].order
        /\ row.key = preq[r].key /\ row.rzp = FALSE
    BY <2>1 DEF Row, PayStatus
  <2>3. pay' = [pay EXCEPT ![p] = row]
    BY <1>0, <1>3
  <2>4. /\ preq' \in [PayRequests -> PayRequest \cup {IdlePay}]
        /\ \A x \in PayRequests :
             preq'[x].op # "idle" => x # r /\ preq'[x] = preq[x] /\ preq[x].pay \in Payments
    BY <1>0, RequestDone
  <2> HIDE DEF row, p
  <2>5. PayTypeOK'
    BY <1>0, <1>1, <2>1, <2>2, <2>3, <2>4 DEF PayTypeOK, IInv
  <2>6. RowsAreWhole'
    BY <2>1, <2>2, <2>3 DEF RowsAreWhole, PayTypeOK
  <2>7. RequestsHavePayments'
    BY <2>2, <2>3, <2>4 DEF RequestsHavePayments, PayTypeOK
  <2>8. EventsAreTrue' /\ CreditIsBacked' /\ RefundIsCovered'
    BY <1>0 DEF EventsAreTrue, CreditIsBacked, RefundIsCovered, Paid
  <2>9. RequestsAreBacked' /\ RefundAnswersAreUnique'
    <3>1. RequestsAreBacked'
      BY <1>0, <2>4 DEF RequestsAreBacked, Paid
    <3>2. RefundAnswersAreUnique'
      BY <1>0, <2>4 DEF RefundAnswersAreUnique
    <3> QED
      BY <3>1, <3>2
  <2>10. SuccessIsCredited' /\ RefundIsBacked'
    BY <1>0, <2>1, <2>2, <2>3 DEF SuccessIsCredited, RefundIsBacked, PayTypeOK
  <2>11. OneRowPerKey'
    BY <1>3, <2>1, <2>2, <2>3 DEF OneRowPerKey, KeyTaken, PayTypeOK
  <2> QED
    BY <1>1, <2>5, <2>6, <2>7, <2>8, <2>9, <2>10, <2>11
<1> QED
  BY <1>2, <1>3

(* refund_payment gets Razorpay's acceptance: the only one for this payment. *)
LEMMA RefundAccepted ==
  ASSUME PayInv, NEW r \in PayRequests, preq[r].op = "refund",
         provider[preq[r].pay] = "captured",
         provider' = [provider EXCEPT ![preq[r].pay] = "refunded"],
         events' = [events EXCEPT ![preq[r].pay] = @ \cup {"refunded"}],
         preq' = [preq EXCEPT ![r] = Accepted(preq[r])],
         UNCHANGED <<vars, payRows, hooks, calls>>
  PROVE  PayInv'
<1> USE DEF PayInv
<1> DEFINE p == preq[r].pay
<1>0. UNCHANGED <<pay, credit, debit, acked, dedup, calls>>
  BY DEF payRows, hooks
<1>1. IInv'
  BY RowsUnchanged
<1>2. p \in Payments /\ preq[r] \in PayRequest
  BY RequestRecord
<1>3. /\ preq' \in [PayRequests -> PayRequest \cup {IdlePay}]
      /\ preq'[r].op = "refundCalled" /\ preq'[r].pay = p
      /\ \A x \in PayRequests \ {r} : preq'[x] = preq[x]
  <2>1. /\ Accepted(preq[r]) \in PayRequest
        /\ Accepted(preq[r]).op = "refundCalled" /\ Accepted(preq[r]).pay = p
    BY <1>2 DEF Accepted, PayRequest, PayOps, IInv, TypeOK
  <2> QED
    BY <2>1 DEF PayTypeOK
<1>4. \A x \in PayRequests : preq[x].op # "idle" => preq[x].pay \in Payments
  BY RequestRecord
<1> HIDE DEF p
<1>5. /\ provider' = [provider EXCEPT ![p] = "refunded"]
      /\ events' = [events EXCEPT ![p] = @ \cup {"refunded"}]
      /\ provider[p] = "captured" /\ provider'[p] = "refunded"
      /\ \A x \in Payments : /\ Paid(x) => Paid(x)'
                             /\ provider[x] = "refunded" => provider'[x] = "refunded"
  BY <1>2 DEF p, PayTypeOK, Paid
<1>6. PayTypeOK'
  BY <1>0, <1>1, <1>3, <1>5 DEF PayTypeOK, IInv, Events
<1>7. EventsAreTrue'
  BY <1>5 DEF EventsAreTrue, Paid, PayTypeOK
<1>8. RowsAreWhole' /\ OneRowPerKey' /\ SuccessIsCredited' /\ RefundIsCovered'
  BY <1>0 DEF RowsAreWhole, OneRowPerKey, SuccessIsCredited, RefundIsCovered
<1>9. CreditIsBacked' /\ RefundIsBacked'
  BY <1>0, <1>5 DEF CreditIsBacked, RefundIsBacked, Paid
<1>10. RequestsHavePayments'
  <2>1. pay[p].status # "none"
    BY DEF RequestsHavePayments, p
  <2> QED
    BY <1>0, <1>3, <2>1 DEF RequestsHavePayments
<1>11. RequestsAreBacked'
  <2> SUFFICES ASSUME NEW x \in PayRequests
               PROVE  /\ preq'[x].op \in {"verify", "captured"}
                           => provider'[preq'[x].pay] \in {"captured", "refunded"}
                      /\ preq'[x].op \in {"refund", "refundCalled"} => credit[preq'[x].pay] > 0
                      /\ preq'[x].op = "refunded" => provider'[preq'[x].pay] = "refunded"
    BY <1>0 DEF RequestsAreBacked, Paid
  <2>1. CASE x = r
    <3>1. credit[p] > 0
      BY DEF RequestsAreBacked, p
    <3> QED
      BY <1>3, <2>1, <3>1
  <2>2. CASE x # r
    <3>1. preq'[x] = preq[x]
      BY <1>3, <2>2
    <3>2. /\ preq[x].op \in {"verify", "captured"} => Paid(preq[x].pay)
          /\ preq[x].op \in {"refund", "refundCalled"} => credit[preq[x].pay] > 0
          /\ preq[x].op = "refunded" => provider[preq[x].pay] = "refunded"
      BY DEF RequestsAreBacked
    <3> QED
      BY <1>4, <1>5, <3>1, <3>2 DEF Paid
  <2> QED
    BY <2>1, <2>2
<1>12. RefundAnswersAreUnique'
  <2>1. debit[p] = 0
    BY <1>2, <1>5 DEF RefundIsBacked, PayTypeOK
  <2>2. \A x \in PayRequests \ {r} : preq[x].op = "refundCalled" => preq[x].pay # p
    BY <1>5 DEF RefundAnswersAreUnique
  <2> SUFFICES ASSUME NEW x \in PayRequests, preq'[x].op = "refundCalled"
               PROVE  /\ provider'[preq'[x].pay] = "refunded"
                      /\ debit'[preq'[x].pay] = 0
                      /\ \A y \in PayRequests \ {x} :
                           preq'[y].op = "refundCalled" => preq'[y].pay # preq'[x].pay
    BY DEF RefundAnswersAreUnique
  <2>3. CASE x = r
    BY <1>0, <1>3, <1>5, <2>1, <2>2, <2>3
  <2>4. CASE x # r
    <3>1. preq'[x] = preq[x] /\ preq[x].pay \in Payments
      BY <1>3, <1>4, <2>4
    <3> QED
      BY <1>0, <1>3, <1>5, <2>2, <2>4, <3>1 DEF RefundAnswersAreUnique
  <2> QED
    BY <2>3, <2>4
<1> QED
  BY <1>1, <1>6, <1>7, <1>8, <1>9, <1>10, <1>11, <1>12

-----------------------------------------------------------------------------
LEMMA WebhookCalls ==
  ASSUME PayTypeOK, Charge \/ UNCHANGED calls
  PROVE  calls' \in 0 .. MaxCalls
BY MaxCallsAssumption DEF PayTypeOK, Charge

(* Every step of the composition preserves the invariant.                    *)
LEMMA PayNextInductive == PayInv /\ [PayNext]_allVars => PayInv'
<1> SUFFICES ASSUME PayInv, [PayNext]_allVars PROVE PayInv'
  OBVIOUS
<1> PayTypeOK /\ IInv
  BY DEF PayInv
<1>0. /\ acked \in [Payments -> SUBSET Events] /\ dedup \in [Payments -> SUBSET Events]
      /\ calls \in 0 .. MaxCalls
  BY DEF PayTypeOK
<1>1. CASE Next /\ UNCHANGED payVars
  BY <1>0, <1>1, NextInductive, OutsideStep DEF payVars, hooks
<1>2. ASSUME NEW p \in Payments, Capture(p) \/ Decline(p) \/ RefundAtProvider(p)
      PROVE  PayInv'
  BY <1>2, ProviderStep DEF Capture, Decline, RefundAtProvider, Paid, Events
<1>3. ASSUME NEW p \in Payments, NEW e \in Events, Webhook(p, e)
      PROVE  PayInv'
  <2>1. /\ UNCHANGED <<vars, payRows, external, preq>>
        /\ acked' \in [Payments -> SUBSET Events] /\ dedup' \in [Payments -> SUBSET Events]
        /\ Charge \/ UNCHANGED calls
    BY <1>0, <1>3 DEF Webhook, IgnoreWebhook, DuplicateWebhook, DedupExpires, Deliverable
  <2>2. IInv' /\ calls' \in 0 .. MaxCalls
    BY <2>1, RowsUnchanged, WebhookCalls
  <2> QED
    BY <2>1, <2>2, OutsideStep
<1>4. ASSUME NEW r \in PayRequests, NEW o \in Orders, NEW k \in Keys \cup {NoKey},
             BeginInitiate(r, o, k)
      PROVE  PayInv'
  BY <1>4, InitiateStep
<1>5. ASSUME NEW r \in PayRequests, NEW p \in Payments, BeginVerify(r, p)
      PROVE  PayInv'
  <2>1. /\ pay[p].status # "none"
        /\ \E op \in {"verify", "reject"} :
             StartPay(r, op, p, pay[p].order, NoKey) /\ (op = "verify" => Paid(p))
        /\ UNCHANGED <<external, acked, dedup>>
        /\ calls' \in 0 .. MaxCalls
    BY <1>5, WebhookCalls DEF BeginVerify, Paid, hooks
  <2> QED
    BY <1>0, <2>1, RequestStep DEF PayOps
<1>6. ASSUME NEW r \in PayRequests, NEW p \in Payments, BeginRefund(r, p)
      PROVE  PayInv'
  <2>1. /\ pay[p].status # "none" /\ credit[p] > 0
        /\ StartPay(r, "refund", p, pay[p].order, NoKey)
        /\ UNCHANGED <<external, acked, dedup>>
        /\ calls' \in 0 .. MaxCalls
    BY <1>6, WebhookCalls DEF BeginRefund, hooks, PayInv, SuccessIsCredited
  <2> QED
    BY <1>0, <2>1, RequestStep DEF PayOps
<1>7. ASSUME NEW r \in PayRequests, NEW p \in Payments, NEW e \in Events, BeginWebhook(r, p, e)
      PROVE  PayInv'
  <2>1. /\ pay[p].status # "none"
        /\ e = "captured" => Paid(p)
        /\ e = "refunded" => provider[p] = "refunded"
    BY <1>7 DEF BeginWebhook, Deliverable, PayInv, RowsAreWhole, EventsAreTrue
  <2>2. /\ StartPay(r, e, p, pay[p].order, NoKey)
        /\ dedup' \in [Payments -> SUBSET Events]
        /\ UNCHANGED <<external, acked>>
        /\ calls' \in 0 .. MaxCalls
    BY <1>0, <1>7, WebhookCalls DEF BeginWebhook, Deliverable
  <2> QED
    BY <1>0, <2>1, <2>2, RequestStep DEF PayOps, Events
<1>8. ASSUME NEW r \in PayRequests, CommitInitiate(r)
      PROVE  PayInv'
  BY <1>8, InsertStep
<1>9. ASSUME NEW r \in PayRequests, CommitFinalize(r)
      PROVE  PayInv'
  <2>1. Paid(preq[r].pay) /\ preq[r].op \notin {"idle", "initiate"}
    BY <1>9 DEF CommitFinalize, PayInv, RequestsAreBacked
  <2>2. (preq[r].op = "verify") \in BOOLEAN /\ {"PAID"} \in SUBSET Notices
    BY DEF Notices
  <2> QED
    BY <1>9, <2>1, <2>2, CommitStep DEF CommitFinalize
<1>10. ASSUME NEW r \in PayRequests, CommitReject(r)
       PROVE  PayInv'
  <2>1. preq[r].op \notin {"idle", "initiate"} /\ {} \in SUBSET Notices /\ FALSE \in BOOLEAN
    BY <1>10 DEF CommitReject
  <2> QED
    BY <1>10, <2>1, CommitStep DEF CommitReject
<1>11. ASSUME NEW r \in PayRequests, CommitWebhook(r)
       PROVE  PayInv'
  <2> DEFINE s == IF preq[r].op = "failed" THEN "FAILED" ELSE "REFUNDED"
  <2>1. preq[r].op \notin {"idle", "initiate"} /\ {} \in SUBSET Notices /\ FALSE \in BOOLEAN
    BY <1>11 DEF CommitWebhook
  <2>2. s \in {"SUCCESS", "FAILED", "REFUNDED"}
    OBVIOUS
  <2>3. s = "FAILED" \/ (s = "REFUNDED" /\ provider[preq[r].pay] = "refunded")
    BY <1>11 DEF CommitWebhook, PayInv, RequestsAreBacked
  <2>4. Write(preq[r], s, "CANCELLED", FALSE, {}) /\ FinishPay(r)
        /\ UNCHANGED <<credit, debit, external>>
    BY <1>11 DEF CommitWebhook
  <2> HIDE DEF s
  <2> QED
    BY <2>1, <2>2, <2>3, <2>4, CommitStep
<1>12. ASSUME NEW r \in PayRequests, CallRefund(r)
       PROVE  PayInv'
  <2>0. /\ preq[r].op = "refund"
        /\ UNCHANGED <<vars, payRows, hooks, calls>>
        /\ IInv'
    BY <1>12, RowsUnchanged DEF CallRefund
  <2>1. CASE /\ provider[preq[r].pay] = "captured"
             /\ provider' = [provider EXCEPT ![preq[r].pay] = "refunded"]
             /\ events' = [events EXCEPT ![preq[r].pay] = @ \cup {"refunded"}]
             /\ preq' = [preq EXCEPT ![r] = Accepted(preq[r])]
    BY <2>0, <2>1, RefundAccepted
  <2>2. CASE /\ provider' = [provider EXCEPT ![preq[r].pay] = "refunded"]
             /\ events' = [events EXCEPT ![preq[r].pay] = @ \cup {"refunded"}]
             /\ preq' = [preq EXCEPT ![r] = IdlePay]
    BY <2>0, <2>2, AbortStep
  <2>3. CASE preq' = [preq EXCEPT ![r] = IdlePay] /\ UNCHANGED external
    BY <2>0, <2>3, AbortStep
  <2> QED
    BY <1>12, <2>1, <2>2, <2>3 DEF CallRefund
<1>13. ASSUME NEW r \in PayRequests, CommitRefund(r)
       PROVE  PayInv'
  <2>1. preq[r].op \notin {"idle", "initiate"} /\ {"REFUNDED"} \in SUBSET Notices
        /\ FALSE \in BOOLEAN
    BY <1>13 DEF CommitRefund, Notices
  <2> QED
    BY <1>13, <2>1, CommitStep DEF CommitRefund
<1>14. ASSUME NEW r \in PayRequests, AbortPay(r)
       PROVE  PayInv'
  <2>1. /\ preq' = [preq EXCEPT ![r] = IdlePay]
        /\ UNCHANGED <<payRows, external, hooks, calls>>
        /\ UNCHANGED <<rows, req>>
        /\ aborts' = aborts + 1 /\ aborts < MaxAborts
    BY <1>14 DEF AbortPay
  <2>2. IInv'
    BY <2>1, MaxAbortsAssumption
       DEF rows, IInv, TypeOK, RequestsHoldRows, PickupStatusIsEarned, PendingPickupIsEarned,
           OrderHadBeenReady, HandedOverOnlyWhenReady, Recorded
  <2> QED
    BY <2>1, <2>2, AbortStep
<1>15. CASE UNCHANGED allVars
  BY <1>0, <1>15, RowsUnchanged, OutsideStep DEF allVars, payVars, hooks
<1> QED
  BY <1>1, <1>2, <1>3, <1>4, <1>5, <1>6, <1>7, <1>8, <1>9, <1>10, <1>11, <1>12, <1>13, <1>14,
     <1>15 DEF PayNext, Razorpay, BeginPay, CommitPay

(* PayInv holds in every reachable state of handlers, payments and Razorpay. *)
THEOREM PayInvariance == PaySpec => []PayInv
BY PayInitInductive, PayNextInductive, PTL DEF PaySpec

(* Rows, requests and ledger counts keep their types under any interleaving  *)
(* of requests and webhooks (payments/service.py, payments/webhook.py).      *)
THEOREM PayTypeCorrect == PaySpec => []PayTypeOK
BY PayInvariance, PTL DEF PayInv

(* The ledger books only money Razorpay took, a SUCCESS payment is booked,   *)
(* and what was refunded was booked before and left Razorpay, once: for any  *)
(* number of payments and of racing verify, refund and webhook requests.     *)
THEOREM LedgerIsSound == PaySpec => []BooksAreSound
<1>1. PayInv => BooksAreSound
  BY DEF PayInv, BooksAreSound
<1> QED
  BY <1>1, PayInvariance, PTL

(* One idempotency key leaves one payments row per order, however many       *)
(* initiate requests with that key race past the lookup.                     *)
THEOREM KeysAreUnique == PaySpec => []OneRowPerKey
BY PayInvariance, PTL DEF PayInv

(* The payments module confirms and cancels orders behind the state          *)
(* machine's back, and still no order is handed over that was not ready.     *)
THEOREM PaidHandOverIsEarned == PaySpec => []HandedOverOnlyWhenReady
BY PayInvariance, PTL DEF PayInv, IInv

-----------------------------------------------------------------------------
(* The refinement.  A step that moves neither money nor label nor entries is *)
(* one the ledger does not see.                                              *)
LEMMA LedgerStill ==
  ASSUME UNCHANGED <<credit, debit>>,
         \A p \in Payments : Money(provider'[p]) = Money(provider[p])
                             /\ pay'[p].status = pay[p].status
  PROVE  UNCHANGED Ledger!ledger
BY DEF Ledger!ledger

(* Razorpay moves the money of one payment.                                  *)
LEMMA LedgerMoves ==
  ASSUME PayTypeOK, NEW p \in Payments, NEW s \in {"created", "failed", "captured", "refunded"},
         provider' = [provider EXCEPT ![p] = s],
         UNCHANGED <<pay, credit, debit>>,
         IF s = "refunded" THEN provider[p] = "captured" ELSE ~Paid(p)
  PROVE  [Ledger!Next]_(Ledger!ledger)
<1> USE DEF PayTypeOK
<1>1. CASE s \in {"created", "failed"}
  BY <1>1, LedgerStill DEF Money, Paid
<1>2. CASE s = "captured"
  <2>1. Ledger!Take(p)
    BY <1>2 DEF Ledger!Take, Money, Paid
  <2> QED
    BY <2>1 DEF Ledger!Next
<1>3. CASE s = "refunded"
  <2>1. Ledger!Return(p)
    BY <1>3 DEF Ledger!Return, Money
  <2> QED
    BY <2>1 DEF Ledger!Next
<1> QED
  BY <1>1, <1>2, <1>3

(* A commit writes the row of one payment, and at most one entry.            *)
LEMMA LedgerCommit ==
  ASSUME PayInv, PayInv', NEW p \in Payments, NEW row,
         pay' = [pay EXCEPT ![p] = row], UNCHANGED provider,
         \/ UNCHANGED <<credit, debit>>
         \/ Paid(p) /\ credit' = [credit EXCEPT ![p] = @ + 1] /\ UNCHANGED debit
         \/ /\ provider[p] = "refunded" /\ credit[p] > 0 /\ debit[p] = 0
            /\ debit' = [debit EXCEPT ![p] = @ + 1] /\ UNCHANGED credit
  PROVE  Ledger!Next
<1>0. /\ pay \in [Payments -> Row] /\ pay'[p] = row /\ row \in Row
      /\ credit \in [Payments -> Nat] /\ debit \in [Payments -> Nat]
  BY DEF PayInv, PayTypeOK
<1>1. row.status \in Ledger!Labels
  BY <1>0 DEF Ledger!Labels, Row, PayStatus
<1>2. Ledger!Label(p, row.status)
  <2>1. row.status = "SUCCESS" => credit'[p] > 0
    BY <1>0 DEF PayInv, SuccessIsCredited
  <2>2. row.status = "REFUNDED" => Money(provider[p]) = "returned"
    BY <1>0 DEF PayInv, RefundIsBacked, Money
  <2> QED
    BY <1>0, <2>1, <2>2 DEF Ledger!Label, Ledger!Earned
<1>3. CASE UNCHANGED <<credit, debit>>
  <2>1. Ledger!Relabel(p, row.status)
    BY <1>2, <1>3 DEF Ledger!Relabel
  <2> QED
    BY <1>1, <2>1 DEF Ledger!Next
<1>4. CASE Paid(p) /\ credit' = [credit EXCEPT ![p] = @ + 1] /\ UNCHANGED debit
  <2>1. Ledger!Book(p, row.status)
    BY <1>2, <1>4 DEF Ledger!Book, Money, Paid
  <2> QED
    BY <1>1, <2>1 DEF Ledger!Next
<1>5. CASE /\ provider[p] = "refunded" /\ credit[p] > 0 /\ debit[p] = 0
           /\ debit' = [debit EXCEPT ![p] = @ + 1] /\ UNCHANGED credit
  <2>1. Ledger!BookBack(p, row.status)
    BY <1>0, <1>2, <1>5 DEF Ledger!BookBack, Money
  <2> QED
    BY <1>1, <2>1 DEF Ledger!Next
<1> QED
  BY <1>3, <1>4, <1>5

LEMMA LedgerInit == PayInit => Ledger!Init
BY DEF PayInit, Ledger!Init, NoRow, Money

LEMMA LedgerStep == PayInv /\ PayInv' /\ [PayNext]_allVars => [Ledger!Next]_(Ledger!ledger)
<1> SUFFICES ASSUME PayInv, PayInv', [PayNext]_allVars
             PROVE  [Ledger!Next]_(Ledger!ledger)
  OBVIOUS
<1>0. PayTypeOK /\ \A r \in PayRequests : preq[r].op # "idle" => preq[r].pay \in Payments
  BY RequestRecord DEF PayInv
<1>1. CASE UNCHANGED <<payRows, provider>>
  BY <1>1, LedgerStill DEF payRows
<1>2. ASSUME NEW p \in Payments, Capture(p) \/ Decline(p) \/ RefundAtProvider(p)
      PROVE  [Ledger!Next]_(Ledger!ledger)
  BY <1>0, <1>2, LedgerMoves DEF Capture, Decline, RefundAtProvider, ProviderPay, payRows, Paid
<1>3. ASSUME NEW r \in PayRequests, NEW o \in Orders, NEW k \in Keys \cup {NoKey},
             BeginInitiate(r, o, k)
      PROVE  [Ledger!Next]_(Ledger!ledger)
  BY <1>0, <1>3, LedgerMoves DEF BeginInitiate, StartPay, payRows, Paid
<1>4. ASSUME NEW r \in PayRequests, CommitInitiate(r)
      PROVE  [Ledger!Next]_(Ledger!ledger)
  <2>1. preq[r].pay \in Payments /\ UNCHANGED <<credit, debit, provider>>
    BY <1>0, <1>4 DEF CommitInitiate, external
  <2>2. CASE UNCHANGED pay
    BY <2>1, <2>2, LedgerStill
  <2>3. CASE \E row : pay' = [pay EXCEPT ![preq[r].pay] = row]
    BY <2>1, <2>3, LedgerCommit
  <2> QED
    BY <1>4, <2>2, <2>3 DEF CommitInitiate
<1>5. ASSUME NEW r \in PayRequests,
             CommitFinalize(r) \/ CommitReject(r) \/ CommitWebhook(r) \/ CommitRefund(r)
      PROVE  [Ledger!Next]_(Ledger!ledger)
  <2> DEFINE p == preq[r].pay
  <2>1. p \in Payments /\ UNCHANGED provider
    BY <1>0, <1>5 DEF CommitFinalize, CommitReject, CommitWebhook, CommitRefund, external
  <2>2. \E row : pay' = [pay EXCEPT ![p] = row]
    BY <1>5 DEF CommitFinalize, CommitReject, CommitWebhook, CommitRefund, Write
  <2>3. CASE CommitFinalize(r)
    BY <2>1, <2>2, <2>3, LedgerCommit DEF CommitFinalize, PayInv, RequestsAreBacked
  <2>4. CASE CommitReject(r) \/ CommitWebhook(r)
    BY <2>1, <2>2, <2>4, LedgerCommit DEF CommitReject, CommitWebhook
  <2>5. CASE CommitRefund(r)
    BY <2>1, <2>2, <2>5, LedgerCommit
       DEF CommitRefund, PayInv, RequestsAreBacked, RefundAnswersAreUnique
  <2> QED
    BY <1>5, <2>3, <2>4, <2>5
<1>6. ASSUME NEW r \in PayRequests, CallRefund(r)
      PROVE  [Ledger!Next]_(Ledger!ledger)
  <2>1. preq[r].pay \in Payments /\ UNCHANGED <<pay, credit, debit>>
    BY <1>0, <1>6 DEF CallRefund, payRows
  <2>2. \/ UNCHANGED provider
        \/ /\ provider[preq[r].pay] = "captured"
           /\ provider' = [provider EXCEPT ![preq[r].pay] = "refunded"]
    BY <1>6 DEF CallRefund, external
  <2>3. CASE UNCHANGED provider
    BY <2>1, <2>3, LedgerStill
  <2> QED
    BY <1>0, <2>1, <2>2, <2>3, LedgerMoves
<1>7. ASSUME NEW r \in PayRequests,
             \/ AbortPay(r)
             \/ \E p \in Payments : BeginVerify(r, p) \/ BeginRefund(r, p)
             \/ \E p \in Payments, e \in Events : BeginWebhook(r, p, e)
      PROVE  [Ledger!Next]_(Ledger!ledger)
  BY <1>1, <1>7 DEF AbortPay, BeginVerify, BeginRefund, BeginWebhook, StartPay, external
<1>8. ASSUME NEW p \in Payments, NEW e \in Events, Webhook(p, e)
      PROVE  [Ledger!Next]_(Ledger!ledger)
  BY <1>1, <1>8 DEF Webhook, IgnoreWebhook, DuplicateWebhook, DedupExpires, external
<1>9. CASE (Next /\ UNCHANGED payVars) \/ UNCHANGED allVars
  BY <1>1, <1>9 DEF payVars, allVars, external
<1> QED
  BY <1>2, <1>3, <1>4, <1>5, <1>6, <1>7, <1>8, <1>9 DEF PayNext, Razorpay, BeginPay, CommitPay

(* Whatever races, dies or comes twice, the payments module never does to    *)
(* row and ledger anything the abstract ledger does not allow.               *)
THEOREM PaymentsImplementLedger == PaySpec => ImplementsLedger
<1>1. PaySpec => Ledger!Init /\ [][Ledger!Next]_(Ledger!ledger)
  BY LedgerInit, LedgerStep, PayInvariance, PTL DEF PaySpec
<1> QED
  BY <1>1 DEF ImplementsLedger, Ledger!Spec
=============================================================================

---------------------------- MODULE OrderPayments ----------------------------
(***************************************************************************)
(* Payments of orders and their ledger (payments/service.py,               *)
(* payments/webhook.py), composed with the handlers of OrderLifecycle that *)
(* write the same order rows.  Three parties act on one payment: the       *)
(* client (initiate, verify, refund), Razorpay (it takes the money, pays   *)
(* it back and sends webhooks, each any number of times and in any order)  *)
(* and the vendor who works on the order.                                  *)
(*                                                                         *)
(* A Razorpay order and the payments row made for it share one identifier  *)
(* p: the Razorpay order exists from order.create on, the row from the     *)
(* commit of initiate_payment on.  Amounts are left out: a payment is      *)
(* charged, credited and refunded in full, so entries are counted.         *)
(***************************************************************************)
EXTENDS OrderLifecycle, Session

CONSTANTS
  Payments,     \* Razorpay orders, each with the payments row made for it
  PayRequests,  \* worker threads executing payment requests
  Keys,         \* X-Idempotency-Key values
  NoKey,        \* no X-Idempotency-Key header
  MaxCalls      \* bound: verify and refund requests, and repeated acknowledged webhooks

ASSUME NoKeyAssumption == NoKey \notin Keys
ASSUME MaxCallsAssumption == MaxCalls \in Nat

VARIABLES
  pay,       \* payments rows
  provider,  \* what Razorpay knows of each order it created
  events,    \* webhook events Razorpay has emitted; it may deliver them for ever
  acked,     \* webhook events answered 200: Razorpay stops retrying these
  dedup,     \* webhook:razorpay:{event}:{id} keys present in Redis
  credit,    \* CREDIT / PAYMENT ledger entries of each payment
  debit,     \* DEBIT / REFUND ledger entries of each payment
  preq,      \* the payment request each worker is executing
  calls

payRows == <<pay, credit, debit>>
external == <<provider, events>>
hooks == <<acked, dedup>>
payVars == <<payRows, external, hooks, preq, calls>>
allVars == <<vars, payVars>>

Events == {"captured", "failed", "refunded"}
PayStatus == {"INITIATED", "SUCCESS", "FAILED", "REFUNDED"}

\* A payments row; "none" until initiate_payment commits it.  rzp: verify has
\* stored a razorpay_payment_id on it, which is what webhooks look it up by.
Row == [status : PayStatus \cup {"none"}, order : Orders \cup {NoOrder},
        key : Keys \cup {NoKey}, rzp : BOOLEAN]

NoRow == [status |-> "none", order |-> NoOrder, key |-> NoKey, rzp |-> FALSE]

PayOps == {"initiate", "verify", "reject", "captured", "failed", "refunded",
           "refund", "refundCalled"}

\* seenPay, seenOrder: the two statuses the session loaded.
PayRequest == [op : PayOps, pay : Payments, order : Orders, key : Keys \cup {NoKey},
               seenPay : PayStatus, seenOrder : OrderStatus]

IdlePay == [op |-> "idle"]

PayInit ==
  /\ Init
  /\ pay = [p \in Payments |-> NoRow]
  /\ provider = [p \in Payments |-> "none"]
  /\ events = [p \in Payments |-> {}]
  /\ acked = [p \in Payments |-> {}]
  /\ dedup = [p \in Payments |-> {}]
  /\ credit = [p \in Payments |-> 0]
  /\ debit = [p \in Payments |-> 0]
  /\ preq = [r \in PayRequests |-> IdlePay]
  /\ calls = 0

-----------------------------------------------------------------------------
\* Razorpay (external).

ProviderPay(p, s, e) ==
  /\ provider' = [provider EXCEPT ![p] = s]
  /\ events' = [events EXCEPT ![p] = @ \cup {e}]
  /\ UNCHANGED <<vars, payRows, hooks, preq, calls>>

\* The student pays; she has the Razorpay order id once the row is committed.
Capture(p) ==
  /\ pay[p].status # "none"
  /\ provider[p] \in {"created", "failed"}
  /\ ProviderPay(p, "captured", "captured")

\* The bank declines; a late authorisation may still capture the payment.
Decline(p) ==
  /\ pay[p].status # "none"
  /\ provider[p] = "created"
  /\ ProviderPay(p, "failed", "failed")

\* A refund issued from Razorpay's dashboard.
RefundAtProvider(p) ==
  /\ provider[p] = "captured"
  /\ ProviderPay(p, "refunded", "refunded")

-----------------------------------------------------------------------------
\* Requests: the read step of each.

StartPay(r, op, p, o, k) ==
  /\ preq[r] = IdlePay
  /\ preq' = [preq EXCEPT ![r] =
       [op |-> op, pay |-> p, order |-> o, key |-> k,
        seenPay |-> IF op = "initiate" THEN "INITIATED" ELSE pay[p].status,
        seenOrder |-> status[o]]]
  /\ UNCHANGED <<vars, payRows>>

\* Counts the calls that MaxCalls bounds.
Charge == calls < MaxCalls /\ calls' = calls + 1

\* A first delivery, or a retry of a delivery that got no answer, is not counted.
Deliverable(p, e) ==
  /\ e \in events[p]
  /\ IF e \in acked[p] THEN Charge ELSE UNCHANGED calls

KeyTaken(o, k) == \E p \in Payments : pay[p].order = o /\ pay[p].key = k /\ k # NoKey

\* initiate_payment finds no row for (order, key) and creates a Razorpay order.
\* When it finds one it returns it and changes nothing.
BeginInitiate(r, o, k) ==
  /\ ~KeyTaken(o, k)
  /\ \E p \in Payments :
       /\ provider[p] = "none"
       /\ StartPay(r, "initiate", p, o, k)
       /\ provider' = [provider EXCEPT ![p] = "created"]
  /\ UNCHANGED <<events, hooks, calls>>

\* verify_payment: Razorpay signs a payment only if the student paid it, and any
\* other signature is rejected.
BeginVerify(r, p) ==
  /\ pay[p].status # "none"
  /\ \/ provider[p] \in {"captured", "refunded"} /\ StartPay(r, "verify", p, pay[p].order, NoKey)
     \/ StartPay(r, "reject", p, pay[p].order, NoKey)
  /\ Charge
  /\ UNCHANGED <<external, hooks>>

\* refund_payment up to its status check.
BeginRefund(r, p) ==
  /\ pay[p].status = "SUCCESS"
  /\ StartPay(r, "refund", p, pay[p].order, NoKey)
  /\ Charge
  /\ UNCHANGED <<external, hooks>>

\* razorpay_webhook is a coroutine that calls blocking code: the event loop runs
\* one delivery at a time, beside the worker threads of the other requests.
LoopIsFree == \A r \in PayRequests : preq[r].op \notin Events

\* SET NX first, then the lookup by razorpay_payment_id.
BeginWebhook(r, p, e) ==
  /\ LoopIsFree
  /\ Deliverable(p, e)
  /\ e \notin dedup[p]
  /\ pay[p].rzp
  /\ StartPay(r, e, p, pay[p].order, NoKey)
  /\ dedup' = [dedup EXCEPT ![p] = @ \cup {e}]
  /\ UNCHANGED <<external, acked>>

\* No row carries the id yet: "ignored", with the key left behind in Redis.
IgnoreWebhook(p, e) ==
  /\ LoopIsFree
  /\ Deliverable(p, e)
  /\ e \notin dedup[p]
  /\ ~pay[p].rzp
  /\ dedup' = [dedup EXCEPT ![p] = @ \cup {e}]
  /\ acked' = [acked EXCEPT ![p] = @ \cup {e}]
  /\ UNCHANGED <<vars, payRows, external, preq>>

\* The key is there: "duplicate_ignored", even if the delivery that set the key
\* died before it committed.
DuplicateWebhook(p, e) ==
  /\ LoopIsFree
  /\ e \in events[p] \ acked[p]
  /\ e \in dedup[p]
  /\ acked' = [acked EXCEPT ![p] = @ \cup {e}]
  /\ UNCHANGED <<vars, payRows, external, dedup, preq, calls>>

\* The key's hour is over.
DedupExpires(p, e) ==
  /\ e \in dedup[p]
  /\ dedup' = [dedup EXCEPT ![p] = @ \ {e}]
  /\ UNCHANGED <<vars, payRows, external, acked, preq, calls>>

-----------------------------------------------------------------------------
\* Requests: the rest of each.

\* A webhook request answers 200, any other request leaves acked alone.
FinishPay(r) ==
  LET q == preq[r]
  IN /\ acked' = IF q.op \in Events THEN [acked EXCEPT ![q.pay] = @ \cup {q.op}] ELSE acked
     /\ preq' = [preq EXCEPT ![r] = IdlePay]
     /\ UNCHANGED <<calls, dedup, history, qr, pickup, rewards, handed, req, aborts>>

\* The INSERT; uq_payment_order_idempotency turns the loser of a race into an
\* IntegrityError, and its Razorpay order is left behind.
CommitInitiate(r) ==
  LET q == preq[r]
      row == [status |-> "INITIATED", order |-> q.order, key |-> q.key, rzp |-> FALSE]
  IN /\ q.op = "initiate"
     /\ pay' = IF KeyTaken(q.order, q.key) THEN pay ELSE [pay EXCEPT ![q.pay] = row]
     /\ FinishPay(r)
     /\ UNCHANGED <<status, notices, credit, debit, external>>

\* Both rows of a payment and its order, with the notification of the student.
Write(q, ps, os, rzp, told) ==
  /\ pay' = [pay EXCEPT ![q.pay] =
                [status |-> Flushed(ps, q.seenPay, pay[q.pay].status),
                 order  |-> pay[q.pay].order,
                 key    |-> pay[q.pay].key,
                 rzp    |-> pay[q.pay].rzp \/ rzp]]
  /\ status' = [status EXCEPT ![q.order] = Flushed(os, q.seenOrder, @)]
  /\ notices' = [notices EXCEPT ![q.order] = @ \cup told]

\* Mutant: SUCCESS without the ledger entry.
CommitFinalizeUnbooked(r) ==
  LET q == preq[r]
  IN /\ q.op \in {"verify", "captured"}
     /\ Write(q, "SUCCESS", "CONFIRMED", q.op = "verify", {"PAID"})
     /\ FinishPay(r)
     /\ UNCHANGED <<credit, debit, external>>

\* finalize_payment, from verify and from the captured webhook.
CommitFinalize(r) ==
  LET q == preq[r]
  IN /\ q.op \in {"verify", "captured"}
     /\ Write(q, "SUCCESS", "CONFIRMED", q.op = "verify", {"PAID"})
     /\ credit' = [credit EXCEPT ![q.pay] = @ + 1]
     /\ FinishPay(r)
     /\ UNCHANGED <<debit, external>>

\* Mutant: a status the column has no member for.
CommitRejectUnknown(r) ==
  LET q == preq[r]
  IN /\ q.op = "reject"
     /\ Write(q, "REJECTED", q.seenOrder, FALSE, {})
     /\ FinishPay(r)
     /\ UNCHANGED <<credit, debit, external>>

\* verify_payment with a bad signature: FAILED, committed by @transactional
\* although the request answers 400.
CommitReject(r) ==
  LET q == preq[r]
  IN /\ q.op = "reject"
     /\ Write(q, "FAILED", q.seenOrder, FALSE, {})
     /\ FinishPay(r)
     /\ UNCHANGED <<credit, debit, external>>

\* Mutant: refund.processed cancels the order and forgets the payment.
CommitWebhookHalf(r) ==
  LET q == preq[r]
  IN /\ q.op \in {"failed", "refunded"}
     /\ Write(q, IF q.op = "failed" THEN "FAILED" ELSE q.seenPay, "CANCELLED", FALSE, {})
     /\ FinishPay(r)
     /\ UNCHANGED <<credit, debit, external>>

\* The payment.failed and refund.processed webhooks: no ledger entry.
CommitWebhook(r) ==
  LET q == preq[r]
  IN /\ q.op \in {"failed", "refunded"}
     /\ Write(q, IF q.op = "failed" THEN "FAILED" ELSE "REFUNDED", "CANCELLED", FALSE, {})
     /\ FinishPay(r)
     /\ UNCHANGED <<credit, debit, external>>

\* Razorpay accepted: only now is the order loaded.
Accepted(q) ==
  [op |-> "refundCalled", pay |-> q.pay, order |-> q.order, key |-> q.key,
   seenPay |-> q.seenPay, seenOrder |-> status[q.order]]

\* Mutant: the refund is booked without Razorpay's consent.
CallRefundUnasked(r) ==
  /\ preq[r] # IdlePay
  /\ preq[r].op = "refund"
  /\ preq' = [preq EXCEPT ![r].op = "refundCalled"]
  /\ UNCHANGED <<vars, payRows, external, hooks, calls>>

\* refund_payment calls Razorpay before it has written anything: accepted, or
\* an exception (not refundable, or the answer lost) that rolls back.
CallRefund(r) ==
  LET q == preq[r]
  IN /\ q.op = "refund"
     /\ \/ /\ provider[q.pay] = "captured"
           /\ provider' = [provider EXCEPT ![q.pay] = "refunded"]
           /\ events' = [events EXCEPT ![q.pay] = @ \cup {"refunded"}]
           /\ \/ preq' = [preq EXCEPT ![r] = Accepted(q)]
              \/ preq' = [preq EXCEPT ![r] = IdlePay]
        \/ /\ preq' = [preq EXCEPT ![r] = IdlePay]
           /\ UNCHANGED external
     /\ UNCHANGED <<vars, payRows, hooks, calls>>

CommitRefund(r) ==
  LET q == preq[r]
  IN /\ q.op = "refundCalled"
     /\ Write(q, "REFUNDED", "CANCELLED", FALSE, {"REFUNDED"})
     /\ debit' = [debit EXCEPT ![q.pay] = @ + 1]
     /\ FinishPay(r)
     /\ UNCHANGED <<credit, external>>

\* A payment request dies before its commit; Redis and Razorpay keep what it did.
AbortPay(r) ==
  /\ preq[r] # IdlePay
  /\ aborts < MaxAborts
  /\ aborts' = aborts + 1
  /\ preq' = [preq EXCEPT ![r] = IdlePay]
  /\ UNCHANGED <<rows, req, payRows, external, hooks, calls>>

-----------------------------------------------------------------------------
Razorpay == \E p \in Payments : Capture(p) \/ Decline(p) \/ RefundAtProvider(p)

BeginPay(r) ==
  \/ \E o \in Orders, k \in Keys \cup {NoKey} : BeginInitiate(r, o, k)
  \/ \E p \in Payments : BeginVerify(r, p) \/ BeginRefund(r, p)
  \/ \E p \in Payments, e \in Events : BeginWebhook(r, p, e)

CommitPay(r) ==
  \/ CommitInitiate(r)
  \/ CommitFinalize(r)
  \/ CommitReject(r)
  \/ CommitWebhook(r)
  \/ CallRefund(r)
  \/ CommitRefund(r)

Webhook(p, e) == IgnoreWebhook(p, e) \/ DuplicateWebhook(p, e) \/ DedupExpires(p, e)

PayNext ==
  \/ Next /\ UNCHANGED payVars
  \/ Razorpay
  \/ \E p \in Payments, e \in Events : Webhook(p, e)
  \/ \E r \in PayRequests : BeginPay(r) \/ CommitPay(r) \/ AbortPay(r)

PaySpec == PayInit /\ [][PayNext]_allVars

\* Razorpay retries a webhook until it is answered 200, and the workers finish
\* what they started; no client has to pay, verify or ask for a refund.
Deliver(p, e) ==
  /\ e \notin acked[p]
  /\ \/ IgnoreWebhook(p, e)
     \/ DuplicateWebhook(p, e)
     \/ \E r \in PayRequests : BeginWebhook(r, p, e)

FairPaySpec ==
  /\ PaySpec
  /\ \A r \in PayRequests : WF_allVars(CommitPay(r))
  /\ \A p \in Payments, e \in Events : WF_allVars(Deliver(p, e))

-----------------------------------------------------------------------------
PayTypeOK ==
  /\ TypeOK
  /\ pay \in [Payments -> Row]
  /\ provider \in [Payments -> {"none", "created", "failed", "captured", "refunded"}]
  /\ events \in [Payments -> SUBSET Events]
  /\ acked \in [Payments -> SUBSET Events]
  /\ dedup \in [Payments -> SUBSET Events]
  /\ credit \in [Payments -> Nat]
  /\ debit \in [Payments -> Nat]
  /\ preq \in [PayRequests -> PayRequest \cup {IdlePay}]
  /\ calls \in 0 .. MaxCalls

Paid(p) == provider[p] \in {"captured", "refunded"}

\* What happened to the money, seen from the ledger.
Money(s) == IF s = "captured" THEN "taken" ELSE IF s = "refunded" THEN "returned" ELSE "owed"

Ledger == INSTANCE PaymentLedger WITH
            Payments <- Payments,
            money <- [p \in Payments |-> Money(provider[p])],
            label <- [p \in Payments |-> pay[p].status],
            credit <- credit,
            debit <- debit

(* Requests and webhooks that race on one payment, die between two calls, or *)
(* act on a status they read long before, do to row and ledger only what the *)
(* ledger promises: entries follow the money, SUCCESS follows its entry.     *)
ImplementsLedger == Ledger!Spec

\* The ledger books no money Razorpay did not take.
CreditIsBacked == \A p \in Payments : credit[p] > 0 => Paid(p)

\* Status SUCCESS and the CREDIT entry commit together.
SuccessIsCredited == \A p \in Payments : pay[p].status = "SUCCESS" => credit[p] > 0

\* Several refund requests may pass the SUCCESS check, but Razorpay refuses the
\* second.
RefundIsCovered == \A p \in Payments : debit[p] <= credit[p] /\ debit[p] <= 1

\* Only what Razorpay has paid back is REFUNDED or debited.
RefundIsBacked ==
  \A p \in Payments :
    pay[p].status = "REFUNDED" \/ debit[p] > 0 => provider[p] = "refunded"

(* Row, ledger and Razorpay agree about every payment, whatever interleaves: *)
(* entries in either direction are backed by money that moved, SUCCESS is    *)
(* never shown without its entry (finalize_payment), and what was refunded   *)
(* was booked before, once, though refund_payment checks SUCCESS long before *)
(* it commits.                                                               *)
BooksAreSound == CreditIsBacked /\ SuccessIsCredited /\ RefundIsCovered /\ RefundIsBacked

(* Two initiate requests with one idempotency key never leave two payments   *)
(* rows for one order, even when both found none.                            *)
OneRowPerKey ==
  \A p1, p2 \in Payments :
    pay[p1].key = pay[p2].key /\ pay[p1].order = pay[p2].order /\ pay[p1].key # NoKey
      => p1 = p2

(* A refund whose answer was lost (or that was issued in the dashboard) is   *)
(* still recorded, by the refund.processed webhook, as long as the row knows *)
(* its razorpay_payment_id and no handler dies.                              *)
RefundIsRecorded ==
  \A p \in Payments :
    "refunded" \in events[p] \ acked[p] /\ "refunded" \notin dedup[p] /\ pay[p].rzp
      ~> pay[p].status = "REFUNDED"

(* A payment is credited once: "Race condition in payment verification (no   *)
(* idempotency) ... Fixed" (PROJECT_REPORT.md:329).                          *)
CreditedAtMostOnce == \A p \in Payments : credit[p] <= 1

\* Razorpay order p was created by a request for (o, k).
CreatedFor(p, o, k) ==
  \/ pay[p].order = o /\ pay[p].key = k
  \/ \E r \in PayRequests :
       preq[r] # IdlePay /\ preq[r].op = "initiate" /\ preq[r].pay = p
         /\ preq[r].order = o /\ preq[r].key = k

(* A second request with the same key "returns the already-created payment   *)
(* without hitting Razorpay again" (payments/model.py:33-35).                *)
OneRazorpayOrderPerKey ==
  \A p1, p2 \in Payments, o \in Orders, k \in Keys :
    CreatedFor(p1, o, k) /\ CreatedFor(p2, o, k) => p1 = p2

(* "payment.captured -> payment SUCCESS, order CONFIRMED, status:ok"         *)
(* (test_webhook_simulation.py:8): money Razorpay took is eventually         *)
(* credited, whether or not the client comes back to verify.                 *)
CapturedIsCredited == \A p \in Payments : provider[p] = "captured" ~> credit[p] > 0
=============================================================================

--------------------------- MODULE StationeryJobs ---------------------------
(***************************************************************************)
(* One stationery job (stationery/router.py, stationery/payment_router.py) *)
(* and its payment.  Razorpay orders are the environment: a student pays   *)
(* one, and the signature she then sends is valid for that order only.     *)
(* The column ledger.order_id is NOT NULL and the ledger entry of a job    *)
(* has none, so the commit of a verification always fails.                 *)
(***************************************************************************)
EXTENDS Naturals, FiniteSets, Worker

CONSTANT RzpOrders  \* orders Razorpay may create

VARIABLES
  job,      \* status and razorpay_order_id of the stationery_jobs row
  payment,  \* status of the payments row with each Razorpay order
  created,  \* Razorpay orders that exist
  settled,  \* those the student has paid
  told      \* "Payment Successful" messages sent

jobRows == <<job, payment, created, settled, told>>
jobVars == <<jobRows, workVars>>

JobStatus == {"submitted", "in_progress", "ready", "collected"}

\* razorpay_order_id: the set of it.
JobInit ==
  /\ job = [status |-> "submitted", order |-> {}, paid |-> FALSE]
  /\ payment = [o \in RzpOrders |-> "none"]
  /\ created = {} /\ settled = {}
  /\ told = 0

-----------------------------------------------------------------------------
\* update_job_status: the vendor sets any status.  The READY notification is
\* flushed after the commit and lost with the session.
BeginJobStatus(w) ==
  /\ \E s \in JobStatus : Begin(w, [at |-> "status", status |-> s, seen |-> job.status])
  /\ UNCHANGED jobRows

CommitJobStatus(w) ==
  LET t == work[w]
  IN /\ t.at = "status"
     /\ job' = IF t.status = t.seen THEN job
               ELSE [status |-> t.status, order |-> job.order, paid |-> job.paid]
     /\ Finish(w)
     /\ UNCHANGED <<payment, created, settled, told>>

BeginJobPayment(w) ==
  /\ job.status = "ready" /\ ~job.paid
  /\ Begin(w, [at |-> "initiating"])
  /\ UNCHANGED jobRows

\* client.order.create
CreateRzpOrder(w) ==
  /\ work[w].at = "initiating"
  /\ \E o \in RzpOrders \ created :
       created' = created \cup {o} /\ Continue(w, [at |-> "created", order |-> o])
  /\ UNCHANGED <<job, payment, settled, told>>

\* Mutant: the Payment row is not added.
CommitJobPaymentNoRow(w) ==
  LET t == work[w]
  IN /\ t.at = "created"
     /\ job' = [status |-> job.status, order |-> {t.order}, paid |-> job.paid]
     /\ Finish(w)
     /\ UNCHANGED <<payment, created, settled, told>>

\* The job takes the new Razorpay order, whatever it had, and gets a row for it.
CommitJobPayment(w) ==
  LET t == work[w]
  IN /\ t.at = "created"
     /\ job' = [status |-> job.status, order |-> {t.order}, paid |-> job.paid]
     /\ payment' = [payment EXCEPT ![t.order] = "INITIATED"]
     /\ Finish(w)
     /\ UNCHANGED <<created, settled, told>>

\* The student pays an order that has been returned to her.
SettleJob(o) ==
  /\ payment[o] # "none" /\ o \notin settled
  /\ settled' = settled \cup {o}
  /\ UNCHANGED <<job, payment, created, told, workVars>>

\* verify_job_payment up to the signature; another order is a mismatch (400).
BeginJobVerify(w, o) ==
  /\ ~job.paid
  /\ job.order \subseteq {o}
  /\ o \in settled
  /\ Begin(w, [at |-> "verifying", order |-> o])
  /\ UNCHANGED jobRows

\* The message goes out, then the ledger entry without an order_id makes the
\* commit fail: everything is rolled back.
FailJobVerify(w) ==
  /\ work[w].at = "verifying"
  /\ told' = told + 1
  /\ Finish(w)
  /\ UNCHANGED <<job, payment, created, settled>>

-----------------------------------------------------------------------------
JobStep(w) ==
  \/ BeginJobStatus(w)
  \/ CommitJobStatus(w)
  \/ BeginJobPayment(w)
  \/ CreateRzpOrder(w)
  \/ CommitJobPayment(w)
  \/ \E o \in RzpOrders : BeginJobVerify(w, o)
  \/ FailJobVerify(w)
  \/ Die(w) /\ UNCHANGED jobRows

JobNext == (\E w \in Workers : JobStep(w)) \/ (\E o \in RzpOrders : SettleJob(o))

JobSpec == JobInit /\ WorkInit /\ [][JobNext]_jobVars

-----------------------------------------------------------------------------
JobTypeOK ==
  /\ WorkTypeOK
  /\ job \in [status : JobStatus, order : SUBSET RzpOrders, paid : BOOLEAN]
  /\ payment \in [RzpOrders -> {"none", "INITIATED", "SUCCESS"}]
  /\ created \subseteq RzpOrders /\ settled \subseteq created
  /\ told \in Nat

(* "Every stationery job payment creates a traceable Payment record"         *)
(* (test_stationery_payment_audit.py:8): a Razorpay order without a row      *)
(* belongs to a request in progress or to one that died, and the order a job *)
(* names has a row.                                                          *)
RzpOrdersAreTraced ==
  /\ Cardinality({o \in created : payment[o] = "none"})
       <= died + Cardinality({w \in Workers : work[w].at = "created"})
  /\ \A o \in job.order : payment[o] # "none"

(* "Payment moves INITIATED -> SUCCESS on verify"                            *)
(* (test_stationery_payment_audit.py:10): a verification that ran to its end *)
(* leaves its payment a SUCCESS.                                             *)
VerifyMarksSuccess ==
  [][\A w \in Workers :
       work[w].at = "verifying" /\ work'[w] = Rest /\ died' = died
         => payment'[work[w].order] = "SUCCESS"
    ]_jobVars
=============================================================================

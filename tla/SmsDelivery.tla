----------------------------- MODULE SmsDelivery -----------------------------
(***************************************************************************)
(* Sending a text message (core/sms.py): the provider of SMS_PROVIDER      *)
(* first, the other one if the first fails.  A task that wants message n   *)
(* sent goes to "dialing" with n in its field "text" and what it does next *)
(* in "then"; how send_sms ended is outcome[n].                               *)
(***************************************************************************)
EXTENDS Naturals, FiniteSets, Worker

CONSTANT Texts  \* messages

VARIABLES
  gateway,  \* the settings: is anything sent at all, whose credentials are there
  inbox,    \* copies of each message that reach the phone
  outcome   \* how send_sms ended: "none" yet, "ok" or "failed"

smsVars == <<gateway, inbox, outcome>>

Providers == {"primary", "fallback"}

\* live: SMS_ENABLED, and not a test phone (...1111), for which nothing is sent.
Gateways == [live : BOOLEAN, configured : SUBSET Providers]

SmsInit ==
  /\ gateway \in Gateways
  /\ inbox = [n \in Texts |-> 0]
  /\ outcome = [n \in Texts |-> "none"]

\* How one attempt ends: did the message leave, and which exception was raised.
\* A timeout, a 429, a 4xx or a 5xx has a class that send_sms catches; another
\* error of httpx (a connection cut while it reads) has none.  After a timeout
\* or a cut the message may have left all the same.
Attempts(p) ==
  IF p \notin gateway.configured THEN {[left |-> FALSE, error |-> "config"]}
  ELSE {[left |-> TRUE, error |-> "none"]}
         \cup [left : BOOLEAN, error : {"caught", "uncaught"}]

Deliver(n, left) == inbox' = IF left THEN [inbox EXCEPT ![n] = @ + 1] ELSE inbox

\* send_sms returns or raises, and its caller goes on.
Tell(w, ok) ==
  /\ outcome' = [outcome EXCEPT ![work[w].text] = IF ok THEN "ok" ELSE "failed"]
  /\ Continue(w, work[w].then)

Skip(w) ==
  /\ work[w].at = "dialing" /\ ~gateway.live
  /\ Tell(w, TRUE)
  /\ UNCHANGED <<gateway, inbox>>

\* Without credentials send_sms gives up; any other error it has a class for
\* leads to the fallback.
Dial(w) ==
  /\ work[w].at = "dialing" /\ gateway.live
  /\ \E a \in Attempts("primary") :
       /\ Deliver(work[w].text, a.left)
       /\ IF a.error = "caught"
          THEN Continue(w, [work[w] EXCEPT !.at = "redialing"]) /\ UNCHANGED outcome
          ELSE Tell(w, a.error = "none")
  /\ UNCHANGED gateway

\* Mutant: the failure of the fallback is logged and forgotten.
RedialSwallowing(w) ==
  /\ work[w].at = "redialing"
  /\ \E a \in Attempts("fallback") : Deliver(work[w].text, a.left)
  /\ Tell(w, TRUE)
  /\ UNCHANGED gateway

Redial(w) ==
  /\ work[w].at = "redialing"
  /\ \E a \in Attempts("fallback") :
       Deliver(work[w].text, a.left) /\ Tell(w, a.error = "none")
  /\ UNCHANGED gateway

SmsStep(w) == Skip(w) \/ Dial(w) \/ Redial(w)

-----------------------------------------------------------------------------
SmsTypeOK ==
  /\ gateway \in Gateways
  /\ inbox \in [Texts -> Nat]
  /\ outcome \in [Texts -> {"none", "ok", "failed"}]

(* Who is answered that the message went out gets it, from one provider or   *)
(* from the other; nobody gets it twice from the same one, and nobody gets   *)
(* it while nothing is to be sent or the first provider has no credentials   *)
(* (core/sms.py:139-222).  A failure promises less: a message that timed out *)
(* may arrive although its request failed.                                   *)
SmsIsHonest ==
  \A n \in Texts :
    /\ outcome[n] = "ok" /\ gateway.live => inbox[n] > 0
    /\ inbox[n] > 0 => gateway.live /\ "primary" \in gateway.configured
    /\ inbox[n] <= Cardinality(gateway.configured)
=============================================================================

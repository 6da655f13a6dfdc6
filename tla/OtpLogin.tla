------------------------------ MODULE OtpLogin ------------------------------
(***************************************************************************)
(* The one-time password of a phone (auth/otp_service.py) and the login    *)
(* that verifies it (auth/router.py).  send_otp is a coroutine that calls  *)
(* blocking code, so the event loop runs one at a time; verify_otp_login   *)
(* runs in worker threads and interleaves with it and with itself at every *)
(* Redis command.  A password is named by the number of its generation,     *)
(* and so is the message that carries it.                                  *)
(***************************************************************************)
EXTENDS Naturals, SmsDelivery

CONSTANTS
  SendLimit,    \* SEND_LIMIT
  MaxAttempts,  \* MAX_ATTEMPTS
  MaxOtps       \* bound: passwords generated

ASSUME OtpAssumption ==
  /\ SendLimit \in Nat \ {0} /\ MaxAttempts \in Nat \ {0} /\ MaxOtps \in Nat
  /\ 1 .. MaxOtps \subseteq Texts

VARIABLES
  otp,        \* otp:{phone}, 0 without a key
  sends,      \* otp:send_count:{phone}, 0 without a key
  attempts,   \* otp:attempts:{phone}, 0 without a key
  lapsing,    \* which of these two keys have a TTL
  older,      \* the TTL of attempts was set before the password was stored
  generated,  \* passwords generated so far
  recent,     \* passwords stored since send_count last expired (history)
  wrong,      \* wrong tries against the last password (history)
  forgotten,  \* those that are not in attempts any more (history)
  logins,     \* logins with each password (history)
  known       \* the users row of the phone exists

otpKeys == <<otp, sends, attempts, lapsing, older, generated, recent, wrong, forgotten, logins, known>>
otpVars == <<otpKeys, smsVars, workVars>>

OtpInit ==
  /\ otp = 0 /\ sends = 0 /\ attempts = 0 /\ lapsing = {} /\ older = FALSE
  /\ generated = 0 /\ recent = 0 /\ wrong = 0 /\ forgotten = 0
  /\ logins = [n \in 1 .. MaxOtps |-> 0]
  /\ known \in BOOLEAN

-----------------------------------------------------------------------------
\* The handler does not leave the event loop before it answers.
Sending == {"generated", "stored", "metered", "dialing", "redialing"}

\* generate_otp reads the count; at the limit it answers 429.
BeginSend(w) ==
  /\ generated < MaxOtps
  /\ \A v \in Workers : work[v].at \notin Sending
  /\ sends < SendLimit
  /\ Begin(w, [at |-> "generated"])
  /\ UNCHANGED otpKeys

StoreOtp(w) ==
  /\ work[w].at = "generated"
  /\ generated' = generated + 1
  /\ otp' = generated + 1
  /\ recent' = recent + 1
  /\ wrong' = 0 /\ forgotten' = 0
  /\ older' = ("attempts" \in lapsing)
  /\ Continue(w, [at |-> "stored"])
  /\ UNCHANGED <<sends, attempts, lapsing, logins, known>>

CountSend(w) ==
  /\ work[w].at = "stored"
  /\ sends' = sends + 1
  /\ Continue(w, [at |-> "metered"])
  /\ UNCHANGED <<otp, attempts, lapsing, older, generated, recent, wrong, forgotten, logins, known>>

\* EXPIRE; then the message goes out or fails.  The password stays stored and
\* counted whichever it is.
LapseSends(w) ==
  /\ work[w].at = "metered"
  /\ lapsing' = IF sends > 0 THEN lapsing \cup {"sends"} ELSE lapsing
  /\ Continue(w, [at |-> "dialing", text |-> generated, then |-> Rest])
  /\ UNCHANGED <<otp, sends, attempts, older, generated, recent, wrong, forgotten, logins, known>>

\* verify_otp reads the stored password; n is what the student typed, 0 for
\* something that was never sent.
BeginVerifyOtp(w, n) ==
  /\ otp # 0
  /\ Begin(w, [at |-> "read", typed |-> n, seen |-> otp])
  /\ UNCHANGED otpKeys

\* The attempts are read.
CheckAttempts(w) ==
  LET t == work[w]
  IN /\ t.at = "read"
     /\ Continue(w, [at   |-> IF attempts >= MaxAttempts THEN "barred"
                              ELSE IF t.typed = t.seen THEN "right" ELSE "wrong",
                     seen |-> t.seen])
     /\ UNCHANGED otpKeys

\* Too many: the password is deleted.
BarOtp(w) ==
  /\ work[w].at = "barred"
  /\ otp' = 0
  /\ Finish(w)
  /\ UNCHANGED <<sends, attempts, lapsing, older, generated, recent, wrong, forgotten, logins, known>>

CountWrong(w) ==
  /\ work[w].at = "wrong"
  /\ attempts' = attempts + 1
  /\ wrong' = IF otp = work[w].seen THEN wrong + 1 ELSE wrong
  /\ Continue(w, [at |-> "tried"])
  /\ UNCHANGED <<otp, sends, lapsing, older, generated, recent, forgotten, logins, known>>

\* Mutant: only the first wrong try gives the count a TTL.
LapseAttemptsOnce(w) ==
  /\ work[w].at = "tried"
  /\ lapsing' = IF attempts > 0 THEN lapsing \cup {"attempts"} ELSE lapsing
  /\ Finish(w)
  /\ UNCHANGED <<otp, sends, attempts, older, generated, recent, wrong, forgotten, logins, known>>

LapseAttempts(w) ==
  /\ work[w].at = "tried"
  /\ lapsing' = IF attempts > 0 THEN lapsing \cup {"attempts"} ELSE lapsing
  /\ older' = FALSE
  /\ Finish(w)
  /\ UNCHANGED <<otp, sends, attempts, generated, recent, wrong, forgotten, logins, known>>

\* Whatever password the key holds by now.
ClearOtp(w) ==
  /\ work[w].at = "right"
  /\ otp' = 0
  /\ Continue(w, [at |-> "cleared", seen |-> work[w].seen])
  /\ UNCHANGED <<sends, attempts, lapsing, older, generated, recent, wrong, forgotten, logins, known>>

ClearAttempts(w) ==
  /\ work[w].at = "cleared"
  /\ attempts' = 0 /\ lapsing' = lapsing \ {"attempts"} /\ older' = FALSE
  /\ Continue(w, [at |-> "verified", seen |-> work[w].seen])
  /\ UNCHANGED <<otp, sends, generated, recent, wrong, forgotten, logins, known>>

\* The user is looked up: found, she is logged in.
FindUser(w) ==
  LET n == work[w].seen
  IN /\ work[w].at = "verified"
     /\ IF known
        THEN logins' = [logins EXCEPT ![n] = @ + 1] /\ Finish(w)
        ELSE Continue(w, [at |-> "new", seen |-> n]) /\ UNCHANGED logins
     /\ UNCHANGED <<otp, sends, attempts, lapsing, older, generated, recent, wrong, forgotten, known>>

\* Otherwise registered; users.phone is unique, and a second row is an error.
RegisterUser(w) ==
  LET n == work[w].seen
  IN /\ work[w].at = "new"
     /\ known' = TRUE
     /\ logins' = IF known THEN logins ELSE [logins EXCEPT ![n] = @ + 1]
     /\ Finish(w)
     /\ UNCHANGED <<otp, sends, attempts, lapsing, older, generated, recent, wrong, forgotten>>

\* The password and the attempts live five minutes (OTP_TTL) from when each was
\* last set: the older of the two ends first.
ExpireOtp ==
  /\ otp # 0 /\ ~older
  /\ otp' = 0
  /\ UNCHANGED <<sends, attempts, lapsing, older, generated, recent, wrong, forgotten, logins, known, workVars>>

\* SEND_WINDOW: ten minutes.
ExpireSends ==
  /\ "sends" \in lapsing
  /\ sends' = 0 /\ recent' = 0
  /\ lapsing' = lapsing \ {"sends"}
  /\ UNCHANGED <<otp, attempts, older, generated, wrong, forgotten, logins, known, workVars>>

ExpireAttempts ==
  /\ "attempts" \in lapsing /\ (otp = 0 \/ older)
  /\ attempts' = 0
  /\ lapsing' = lapsing \ {"attempts"} /\ older' = FALSE
  /\ forgotten' = IF otp # 0 THEN wrong ELSE forgotten
  /\ UNCHANGED <<otp, sends, generated, recent, wrong, logins, known, workVars>>

-----------------------------------------------------------------------------
OtpStep(w) ==
  \/ BeginSend(w)
  \/ StoreOtp(w)
  \/ CountSend(w)
  \/ LapseSends(w)
  \/ \E n \in 0 .. MaxOtps : n <= generated /\ BeginVerifyOtp(w, n)
  \/ CheckAttempts(w)
  \/ BarOtp(w)
  \/ CountWrong(w)
  \/ LapseAttempts(w)
  \/ ClearOtp(w)
  \/ ClearAttempts(w)
  \/ FindUser(w)
  \/ RegisterUser(w)
  \/ Die(w) /\ UNCHANGED otpKeys

OtpNext ==
  \/ UNCHANGED smsVars
     /\ ((\E w \in Workers : OtpStep(w)) \/ ExpireOtp \/ ExpireSends \/ ExpireAttempts)
  \/ UNCHANGED otpKeys /\ \E w \in Workers : SmsStep(w)

OtpSpec == OtpInit /\ SmsInit /\ WorkInit /\ [][OtpNext]_otpVars

-----------------------------------------------------------------------------
OtpTypeOK ==
  /\ WorkTypeOK /\ SmsTypeOK
  /\ otp \in 0 .. MaxOtps /\ generated \in 0 .. MaxOtps
  /\ sends \in 0 .. MaxOtps /\ lapsing \subseteq {"sends", "attempts"}
  /\ attempts \in Nat /\ recent \in Nat /\ wrong \in Nat /\ forgotten \in Nat
  /\ older \in BOOLEAN /\ (older => "attempts" \in lapsing)
  /\ logins \in [1 .. MaxOtps -> Nat]
  /\ known \in BOOLEAN

(* However sends and verifications interleave, no more than SEND_LIMIT       *)
(* passwords are stored in a window, but for those whose request died before *)
(* it was counted (auth/otp_service.py:36-57): the check and the count are   *)
(* apart and only the event loop keeps two sends from passing it together.   *)
SendsAreLimited ==
  recent <= SendLimit + died + (IF \E w \in Workers : work[w].at = "stored" THEN 1 ELSE 0)

(* As long as no two requests overlapped a password is tried wrongly         *)
(* MAX_ATTEMPTS times at most, although the count of wrong tries outlives    *)
(* the password it counts for (auth/otp_service.py:104-120), but for tries   *)
(* that were forgotten with an older count.  Those are few: each EXPIRE      *)
(* makes the count outlive the password, so only requests that died before   *)
(* it, and one that the end of the count overtook, are not in it any more.   *)
WrongTriesAreLimited ==
  ~raced => wrong <= MaxAttempts + forgotten /\ forgotten <= died + 1

(* "MAX_ATTEMPTS = 5 # max wrong tries" (auth/otp_service.py:15).            *)
TriesWithinMax == wrong <= MaxAttempts

(* As long as no two requests overlapped a password logs in once.            *)
PasswordIsUsedOnce == ~raced => \A n \in 1 .. MaxOtps : logins[n] <= 1

(* Nobody is locked out for good: the counts that bar a phone run out,       *)
(* unless a request died between INCR and EXPIRE                             *)
(* (auth/otp_service.py:56-57, 114-115); nothing repairs them then.          *)
LockoutsEnd ==
  /\ sends > 0 => "sends" \in lapsing \/ died > 0 \/ \E w \in Workers : work[w].at = "metered"
  /\ attempts > 0 => "attempts" \in lapsing \/ died > 0 \/ \E w \in Workers : work[w].at = "tried"

(* A password can be guessed and used no more often than the constants of    *)
(* auth/otp_service.py:12-20 say, and nobody is barred for longer either.    *)
LoginIsGuarded ==
  SendsAreLimited /\ WrongTriesAreLimited /\ PasswordIsUsedOnce /\ LockoutsEnd
=============================================================================

----------------------------- MODULE RateLimit -----------------------------
(***************************************************************************)
(* check_rate_limit (core/rate_limit.py) on one key: a pipeline increments *)
(* the counter and reads its TTL, a second command sets the TTL when there *)
(* is none, then the request is let through or refused.  An error of       *)
(* either command lets the request through, counted or not.                *)
(***************************************************************************)
EXTENDS Naturals, Worker

CONSTANT Limit  \* requests in a window

ASSUME LimitAssumption == Limit \in Nat \ {0}

VARIABLES
  hits,     \* the counter, 0 without a key
  timed,    \* the key has a TTL
  windows,  \* keys that have run out
  admitted, \* requests let through since the last key ran out (history)
  lapses    \* those that an error of Redis let through (history)

limitKeys == <<hits, timed, windows, admitted, lapses>>
limitVars == <<limitKeys, workVars>>

LimitInit == hits = 0 /\ timed = FALSE /\ windows = 0 /\ admitted = 0 /\ lapses = 0

-----------------------------------------------------------------------------
\* Mutant: the TTL is set on the first hit only.
CountHitFirst(w) ==
  /\ Begin(w, [at |-> IF hits = 0 THEN "untimed" ELSE "counted", n |-> hits + 1, key |-> windows])
  /\ hits' = hits + 1
  /\ UNCHANGED <<timed, windows, admitted, lapses>>

\* INCR and TTL in one transaction.
CountHit(w) ==
  /\ Begin(w, [at |-> IF timed THEN "counted" ELSE "untimed", n |-> hits + 1, key |-> windows])
  /\ hits' = hits + 1
  /\ UNCHANGED <<timed, windows, admitted, lapses>>

\* EXPIRE, which does nothing to a key that is gone.
SetWindow(w) ==
  /\ work[w].at = "untimed"
  /\ timed' = (hits > 0)
  /\ Continue(w, [at |-> "counted", n |-> work[w].n, key |-> work[w].key])
  /\ UNCHANGED <<hits, windows, admitted, lapses>>

\* Let through, or 429.
Answer(w) ==
  /\ work[w].at = "counted"
  /\ admitted' = IF work[w].n <= Limit /\ work[w].key = windows THEN admitted + 1 ELSE admitted
  /\ Finish(w)
  /\ UNCHANGED <<hits, timed, windows, lapses>>

LapseOpen == admitted' = admitted + 1 /\ lapses' = lapses + 1

\* The transaction fails: the request is let through, whether or not the server
\* had counted it.
FailOpen ==
  /\ AtOnce
  /\ hits' \in {hits, hits + 1}
  /\ LapseOpen
  /\ UNCHANGED <<timed, windows>>

\* EXPIRE fails, whether or not the server had set the TTL: the request is let
\* through, however many were counted before it.
LoseWindow(w) ==
  /\ work[w].at = "untimed"
  /\ timed' \in {timed, hits > 0}
  /\ LapseOpen
  /\ Finish(w)
  /\ UNCHANGED <<hits, windows>>

\* The key runs out.
EndWindow ==
  /\ timed
  /\ hits' = 0 /\ timed' = FALSE /\ admitted' = 0 /\ lapses' = 0
  /\ windows' = windows + 1
  /\ UNCHANGED workVars

-----------------------------------------------------------------------------
LimitStep(w) ==
  \/ CountHit(w)
  \/ SetWindow(w)
  \/ LoseWindow(w)
  \/ Answer(w)
  \/ Die(w) /\ UNCHANGED limitKeys

LimitNext == (\E w \in Workers : LimitStep(w)) \/ FailOpen \/ EndWindow

LimitSpec == LimitInit /\ WorkInit /\ [][LimitNext]_limitVars

-----------------------------------------------------------------------------
LimitTypeOK ==
  /\ WorkTypeOK
  /\ hits \in 0 .. MaxRequests /\ windows \in 0 .. MaxRequests
  /\ lapses \in Nat /\ admitted \in lapses .. lapses + hits
  /\ timed \in BOOLEAN

(* However requests interleave, whichever of them die between INCR and       *)
(* EXPIRE and whichever command Redis fails, no more than Limit are let      *)
(* through in a window but for one with each failure                         *)
(* (core/rate_limit.py:82-115).  A request that a failed EXPIRE let through  *)
(* keeps its number, and no later one is admitted in its place.              *)
AdmittedWithinLimit == admitted <= Limit + lapses

(* A key without a TTL is repaired by the next request that Redis serves:    *)
(* whoever comes to its answer under the key it counted in has found a TTL   *)
(* or set one ("OR if a key somehow lost its TTL", core/rate_limit.py:88).   *)
KeysRunOut ==
  \A w \in Workers : work[w].at = "counted" /\ work[w].key = windows => timed

(* The window of an identity holds its limit and comes to an end.            *)
WindowIsSound == AdmittedWithinLimit /\ KeysRunOut
=============================================================================

-------------------------- MODULE Accounts_proofs ---------------------------
(***************************************************************************)
(* Theorems about what a user meets before and around an order: the rate   *)
(* limiter, the login by one-time password, messages, notifications and    *)
(* the user row.  They hold for any constants that the ASSUMEs allow and   *)
(* however the requests interleave and die, unless a property itself says  *)
(* that no two overlapped (~raced) or none died.                           *)
(***************************************************************************)
EXTENDS RateLimit, OtpLogin, Notices, UserProfiles, ServiceLemmas

-----------------------------------------------------------------------------
(* The rate limiter. *)

LimitTask == [at : {"untimed", "counted"}, n : Nat \ {0}, key : Nat]

(* A request holds a number of the current key. *)
Counting(w) == work[w].at \in {"untimed", "counted"} /\ work[w].key = windows

(* Numbers up to the limit that were given out under the current key and are *)
(* not held by a request in progress.                                        *)
Held == {n \in 1 .. hits : \E w \in Workers : Counting(w) /\ work[w].n = n}

(* Numbers up to the limit that the current key has given out. *)
Given == {n \in 1 .. hits : n <= Limit}

(* The inductive invariant of the limiter: the requests that were let        *)
(* through without an error held numbers of the key that no request holds    *)
(* any more.                                                                 *)
LimitInv ==
  /\ LimitTypeOK
  /\ work \in [Workers -> LimitTask \cup {Rest}]
  /\ hits + windows <= begun
  /\ timed => hits > 0
  /\ \A w \in Workers : work[w] # Rest => work[w].key <= windows
  /\ \A w \in Workers : Counting(w) => work[w].n <= hits
  /\ \A v, w \in Workers : Counting(v) /\ Counting(w) /\ work[v].n = work[w].n => v = w
  /\ admitted <= lapses + Cardinality(Given \ Held)
  /\ KeysRunOut

(* Numbers up to the limit are finitely many, and at most Limit. *)
LEMMA NumbersAreFew ==
  ASSUME NEW k \in Nat, NEW S \in SUBSET (1 .. k), \A n \in S : n <= Limit
  PROVE  /\ IsFiniteSet(S)
         /\ Cardinality(S) \in 0 .. k /\ Cardinality(S) <= Limit
<1> USE LimitAssumption
<1>1. \A i \in Nat : IsFiniteSet(1 .. i) /\ Cardinality(1 .. i) = i
  BY FS_Interval
<1>2. IsFiniteSet(S) /\ Cardinality(S) <= k
  <2>1. IsFiniteSet(1 .. k) /\ Cardinality(1 .. k) = k
    BY <1>1
  <2> QED
    BY <2>1, FS_Subset
<1>3. S \in SUBSET (1 .. Limit)
  OBVIOUS
<1>4. Cardinality(S) <= Limit
  <2>1. IsFiniteSet(1 .. Limit) /\ Cardinality(1 .. Limit) = Limit
    BY <1>1
  <2> QED
    BY <1>3, <2>1, FS_Subset
<1>5. Cardinality(S) \in Nat
  BY <1>2, FS_CardinalityType
<1> QED
  BY <1>2, <1>4, <1>5

(* Fewer of them count less. *)
LEMMA MoreNumbers ==
  ASSUME NEW k \in Nat, NEW T \in SUBSET (1 .. k), \A n \in T : n <= Limit, NEW S \in SUBSET T
  PROVE  Cardinality(S) \in Nat /\ Cardinality(T) \in Nat /\ Cardinality(S) <= Cardinality(T)
<1>1. IsFiniteSet(T) /\ Cardinality(T) \in Nat
  BY NumbersAreFew
<1> QED
  BY <1>1, FS_Subset, FS_CardinalityType

(* A number given back by a request adds at most one. *)
LEMMA Returned ==
  ASSUME NEW k \in Nat, NEW G, NEW H, NEW I, I \subseteq H,
         G \ I \in SUBSET (1 .. k), \A n \in G \ I : n <= Limit,
         NEW a \in Nat, NEW b \in Nat, a <= b + Cardinality(G \ H)
  PROVE  a <= b + Cardinality(G \ I)
<1> DEFINE g == Cardinality(G \ H)  h == Cardinality(G \ I)
<1>1. G \ H \in SUBSET (G \ I)
  OBVIOUS
<1>2. g \in Nat /\ h \in Nat /\ g <= h
  BY <1>1, MoreNumbers
<1> HIDE DEF g, h
<1>3. a <= b + g => a <= b + h
  BY <1>2
<1> QED
  BY <1>3 DEF g, h

(* A task that ends or moves on keeps its number or gives it back.           *)
LEMMA LimitTaskMoves ==
  ASSUME LimitInv, NEW w \in Workers, work[w] # Rest, UNCHANGED <<hits, windows>>,
         NEW t \in LimitTask \cup {Rest}, work' = [work EXCEPT ![w] = t],
         t # Rest => t.n = work[w].n /\ t.key = work[w].key
  PROVE  /\ work' \in [Workers -> LimitTask \cup {Rest}]
         /\ \A v \in Workers : work'[v] # Rest => work'[v].key <= windows'
         /\ \A v \in Workers : Counting(v)' => Counting(v) /\ work'[v].n = work[v].n
         /\ \A v \in Workers : Counting(v)' => work'[v].n <= hits'
         /\ \A u, v \in Workers : Counting(u)' /\ Counting(v)' /\ work'[u].n = work'[v].n => u = v
         /\ Held' \subseteq Held
<1>0. work \in [Workers -> LimitTask \cup {Rest}] /\ work[w] \in LimitTask
  BY DEF LimitInv
<1>1. /\ work' \in [Workers -> LimitTask \cup {Rest}]
      /\ work'[w] = t /\ \A v \in Workers \ {w} : work'[v] = work[v]
  BY <1>0
<1>2. \A v \in Workers : work'[v] # Rest => work[v] # Rest /\ work'[v].key = work[v].key /\ work'[v].n = work[v].n
  BY <1>1
<1>3. \A v \in Workers : Counting(v)' => Counting(v) /\ work'[v].n = work[v].n
  <2> SUFFICES ASSUME NEW v \in Workers, Counting(v)'
               PROVE  Counting(v) /\ work'[v].n = work[v].n
    OBVIOUS
  <2>1. work'[v] # Rest
    BY DEF Counting, Rest
  <2>2. work[v].at \in {"untimed", "counted"}
    BY <1>0, <1>2, <2>1 DEF LimitTask
  <2> QED
    BY <1>2, <2>1, <2>2 DEF Counting
<1>4. Held' \subseteq Held
  BY <1>3 DEF Held
<1> QED
  BY <1>1, <1>2, <1>3, <1>4 DEF LimitInv

(* LimitInv holds at first. *)
LEMMA LimitInitInductive == LimitInit /\ WorkInit => LimitInv
<1> SUFFICES ASSUME LimitInit, WorkInit PROVE LimitInv
  OBVIOUS
<1>1. LimitTypeOK
  <2>1. timed \in BOOLEAN /\ raced \in BOOLEAN
    BY DEF LimitInit, WorkInit
  <2> QED
    BY WorkerBounds, <2>1 DEF LimitInit, WorkInit, LimitTypeOK, WorkTypeOK
<1>2. admitted <= lapses + Cardinality(Given \ Held)
  <2>1. Given \ Held \in SUBSET (1 .. 0) /\ \A n \in Given \ Held : n <= Limit
    BY DEF LimitInit, Given
  <2>2. Cardinality(Given \ Held) \in 0 .. 0
    BY <2>1, NumbersAreFew
  <2> QED
    BY <2>2 DEF LimitInit
<1> QED
  BY <1>1, <1>2 DEF LimitInit, WorkInit, LimitInv, Counting, KeysRunOut, Rest

(* A task that ends gives its number back. *)
LEMMA LimitNextInductive == LimitInv /\ [LimitNext]_limitVars => LimitInv'
<1> SUFFICES ASSUME LimitInv, [LimitNext]_limitVars PROVE LimitInv'
  OBVIOUS
<1> USE WorkerBounds, LimitAssumption
<1>0. /\ begun \in Nat /\ hits \in Nat /\ windows \in Nat /\ admitted \in Nat /\ lapses \in Nat /\ died \in Nat
      /\ MaxRequests \in Nat /\ MaxAborts \in Nat /\ Limit \in Nat \ {0}
      /\ work \in [Workers -> LimitTask \cup {Rest}]
  BY DEF LimitInv, LimitTypeOK, WorkTypeOK
<1>a. Given \ Held \in SUBSET (1 .. hits) /\ \A n \in Given \ Held : n <= Limit
  BY DEF Given
<1>b. (Given \ Held)' \in SUBSET (1 .. hits') /\ \A n \in (Given \ Held)' : n <= Limit
  BY DEF Given
<1>c. hits' = hits => Given' = Given
  BY DEF Given
<1>1. ASSUME NEW w \in Workers, CountHit(w) PROVE LimitInv'
  <2> DEFINE t == [at |-> IF timed THEN "counted" ELSE "untimed", n |-> hits + 1, key |-> windows]
  <2>1. /\ work[w] = Rest /\ work' = [work EXCEPT ![w] = t] /\ hits' = hits + 1
        /\ begun < MaxRequests /\ begun' = begun + 1 /\ raced' \in BOOLEAN
        /\ UNCHANGED <<timed, windows, admitted, lapses, died>>
    BY <1>1 DEF CountHit, Begin, Arrive
  <2>2. t \in LimitTask /\ t # Rest
    BY <1>0 DEF LimitTask, Rest
  <2>3. /\ work' \in [Workers -> LimitTask \cup {Rest}] /\ work'[w] = t
        /\ \A v \in Workers \ {w} : work'[v] = work[v]
    BY <1>0, <2>1, <2>2
  <2>4. LimitTypeOK'
    BY <1>0, <2>1 DEF LimitInv, LimitTypeOK, WorkTypeOK
  <2>5. Counting(w)' /\ work'[w].n = hits + 1 /\ ~Counting(w)
    BY <2>1, <2>3 DEF Counting, Rest
  <2>6. \A v \in Workers \ {w} : Counting(v)' <=> Counting(v)
    BY <2>1, <2>3 DEF Counting
  <2>7. \A v \in Workers : Counting(v) => work[v].n \in 1 .. hits
    <3> SUFFICES ASSUME NEW v \in Workers, Counting(v) PROVE work[v].n \in 1 .. hits
      OBVIOUS
    <3>1. work[v] \in LimitTask
      BY <1>0 DEF Counting, Rest
    <3> QED
      BY <1>0, <3>1 DEF LimitInv, LimitTask
  <2>8. Held' = Held \cup {hits + 1}
    BY <1>0, <2>1, <2>3, <2>5, <2>6, <2>7 DEF Held
  <2>9. Given \ Held \subseteq (Given \ Held)'
    BY <1>0, <2>1, <2>8 DEF Given
  <2>10. admitted' <= lapses' + Cardinality(Given \ Held)'
    <3>1. /\ Cardinality(Given \ Held) \in Nat /\ Cardinality((Given \ Held)') \in Nat
          /\ Cardinality(Given \ Held) <= Cardinality((Given \ Held)')
      <4>1. hits' \in Nat /\ (Given \ Held) \in SUBSET ((Given \ Held)')
        BY <1>0, <2>1, <2>9
      <4> QED
        BY <1>b, <4>1, MoreNumbers
    <3> QED
      BY <1>0, <2>1, <3>1 DEF LimitInv
  <2>11. KeysRunOut'
    BY <2>1, <2>3 DEF LimitInv, KeysRunOut
  <2> QED
    BY <1>0, <2>1, <2>3, <2>4, <2>5, <2>6, <2>7, <2>10, <2>11 DEF LimitInv
<1>2. ASSUME NEW w \in Workers, SetWindow(w) PROVE LimitInv'
  <2> DEFINE t == [at |-> "counted", n |-> work[w].n, key |-> work[w].key]
  <2>1. /\ work[w].at = "untimed" /\ timed' = (hits > 0) /\ work' = [work EXCEPT ![w] = t]
        /\ UNCHANGED <<hits, windows, admitted, lapses, begun, raced, died>>
    BY <1>2 DEF SetWindow, Continue
  <2>2. work[w] # Rest /\ work[w] \in LimitTask /\ t \in LimitTask
    BY <1>0, <2>1 DEF LimitTask, Rest
  <2>3. /\ work' \in [Workers -> LimitTask \cup {Rest}]
        /\ \A v \in Workers : work'[v] # Rest => work'[v].key <= windows'
        /\ \A v \in Workers : Counting(v)' => Counting(v) /\ work'[v].n = work[v].n
        /\ \A v \in Workers : Counting(v)' => work'[v].n <= hits'
        /\ \A u, v \in Workers : Counting(u)' /\ Counting(v)' /\ work'[u].n = work'[v].n => u = v
        /\ Held' \subseteq Held
    BY <2>1, <2>2, LimitTaskMoves
  <2>4. LimitTypeOK'
    <3>1. timed' \in BOOLEAN
      BY <2>1
    <3> QED
      BY <2>1, <3>1 DEF LimitInv, LimitTypeOK, WorkTypeOK
  <2>5. admitted' <= lapses' + Cardinality(Given \ Held)'
    BY <1>0, <1>b, <2>1, <2>3, <1>c, Returned DEF LimitInv
  <2>6. KeysRunOut'
    <3> SUFFICES ASSUME NEW v \in Workers, work'[v].at = "counted", work'[v].key = windows'
                 PROVE  timed'
      BY DEF KeysRunOut
    <3>1. work'[v].n <= hits /\ work'[v] \in LimitTask
      BY <2>1, <2>3 DEF Counting, Rest
    <3>2. work'[v].n \in Nat \ {0}
      BY <3>1 DEF LimitTask
    <3>3. hits > 0
      BY <1>0, <3>1, <3>2
    <3> QED
      BY <2>1, <3>3
  <2> QED
    BY <1>0, <2>1, <2>3, <2>4, <2>5, <2>6 DEF LimitInv
<1>3. ASSUME NEW w \in Workers, Answer(w) PROVE LimitInv'
  <2>1. /\ work[w].at = "counted" /\ work' = [work EXCEPT ![w] = Rest]
        /\ admitted' = IF work[w].n <= Limit /\ work[w].key = windows THEN admitted + 1 ELSE admitted
        /\ UNCHANGED <<hits, timed, windows, lapses, begun, raced, died>>
    BY <1>3 DEF Answer, Finish, Continue
  <2>2. work[w] # Rest /\ work[w] \in LimitTask
    BY <1>0, <2>1 DEF Rest
  <2>3. /\ work' \in [Workers -> LimitTask \cup {Rest}]
        /\ \A v \in Workers : work'[v] # Rest => work'[v].key <= windows'
        /\ \A v \in Workers : Counting(v)' => Counting(v) /\ work'[v].n = work[v].n
        /\ \A v \in Workers : Counting(v)' => work'[v].n <= hits'
        /\ \A u, v \in Workers : Counting(u)' /\ Counting(v)' /\ work'[u].n = work'[v].n => u = v
        /\ Held' \subseteq Held
    BY <2>1, <2>2, LimitTaskMoves
  <2>4. admitted' <= lapses' + Cardinality(Given \ Held)'
    <3>1. CASE ~(work[w].n <= Limit /\ work[w].key = windows)
      <4>1. admitted' = admitted
        BY <2>1, <3>1
      <4>2. admitted' \in Nat /\ admitted' <= lapses + Cardinality(Given \ Held)
        BY <1>0, <4>1 DEF LimitInv
      <4> QED
        BY <1>0, <1>b, <1>c, <2>1, <2>3, <4>2, Returned
    <3>2. CASE work[w].n <= Limit /\ work[w].key = windows
      <4> DEFINE n == work[w].n
      <4>1. Counting(w) /\ n \in 1 .. hits /\ n \in Given /\ n \in Held
        BY <1>0, <2>1, <2>2, <3>2 DEF LimitInv, Counting, LimitTask, Given, Held
      <4>2. n \notin Held'
        <5> SUFFICES ASSUME NEW v \in Workers, Counting(v)', work'[v].n = n PROVE FALSE
          BY DEF Held
        <5>1. v = w
          BY <2>3, <4>1 DEF LimitInv
        <5>2. work'[w] = Rest
          BY <1>0, <2>1
        <5> QED
          BY <5>1, <5>2 DEF Counting, Rest
      <4>3. (Given \ Held) \cup {n} \subseteq (Given \ Held)' /\ n \notin Given \ Held
        BY <2>1, <2>3, <4>1, <4>2 DEF Given
      <4>4. IsFiniteSet(Given \ Held) /\ Cardinality(Given \ Held) \in Nat
        BY <1>0, <1>a, NumbersAreFew
      <4>5. Cardinality((Given \ Held) \cup {n}) = Cardinality(Given \ Held) + 1
        BY <4>3, <4>4, FS_AddElement
      <4>6. /\ Cardinality((Given \ Held) \cup {n}) <= Cardinality((Given \ Held)')
            /\ Cardinality((Given \ Held)') \in Nat
        BY <1>0, <1>b, <2>1, <4>3, MoreNumbers
      <4> QED
        BY <1>0, <2>1, <3>2, <4>4, <4>5, <4>6 DEF LimitInv
    <3> QED
      BY <3>1, <3>2
  <2>5. Cardinality((Given \ Held)') \in 0 .. hits
    BY <1>0, <1>b, <2>1, NumbersAreFew
  <2>6. LimitTypeOK'
    BY <1>0, <2>1, <2>4, <2>5 DEF LimitInv, LimitTypeOK, WorkTypeOK
  <2>7. KeysRunOut'
    BY <1>0, <2>1 DEF LimitInv, KeysRunOut, Rest
  <2> QED
    BY <1>0, <2>1, <2>3, <2>4, <2>6, <2>7 DEF LimitInv
<1>4. ASSUME NEW w \in Workers, Die(w), UNCHANGED limitKeys PROVE LimitInv'
  <2>1. /\ work[w] # Rest /\ work' = [work EXCEPT ![w] = Rest] /\ died < MaxAborts /\ died' = died + 1
        /\ UNCHANGED <<hits, timed, windows, admitted, lapses, begun, raced>>
    BY <1>4 DEF Die, limitKeys
  <2>3. /\ work' \in [Workers -> LimitTask \cup {Rest}]
        /\ \A v \in Workers : work'[v] # Rest => work'[v].key <= windows'
        /\ \A v \in Workers : Counting(v)' => Counting(v) /\ work'[v].n = work[v].n
        /\ \A v \in Workers : Counting(v)' => work'[v].n <= hits'
        /\ \A u, v \in Workers : Counting(u)' /\ Counting(v)' /\ work'[u].n = work'[v].n => u = v
        /\ Held' \subseteq Held
    BY <2>1, LimitTaskMoves
  <2>4. LimitTypeOK'
    BY <1>0, <2>1 DEF LimitInv, LimitTypeOK, WorkTypeOK
  <2>5. admitted' <= lapses' + Cardinality(Given \ Held)'
    BY <1>0, <1>b, <2>1, <2>3, <1>c, Returned DEF LimitInv
  <2>6. KeysRunOut'
    BY <1>0, <2>1 DEF LimitInv, KeysRunOut, Rest
  <2> QED
    BY <1>0, <2>1, <2>3, <2>4, <2>5, <2>6 DEF LimitInv
<1>5. ASSUME UNCHANGED <<limitKeys, work>>, begun' \in begun .. MaxRequests, raced' \in BOOLEAN,
             died' = died
      PROVE  LimitInv'
  <2>1. UNCHANGED <<hits, timed, windows, admitted, lapses, work, died>>
    BY <1>5 DEF limitKeys
  <2>2. LimitTypeOK' /\ hits' + windows' <= begun'
    BY <1>0, <1>5, <2>1 DEF LimitInv, LimitTypeOK, WorkTypeOK
  <2>3. admitted' <= lapses' + Cardinality(Given \ Held)' /\ KeysRunOut'
    BY <2>1 DEF LimitInv, Given, Held, Counting, KeysRunOut
  <2> QED
    BY <2>1, <2>2, <2>3 DEF LimitInv, Counting
<1>6. CASE FailOpen
  <2>1. /\ hits' \in {hits, hits + 1} /\ begun < MaxRequests /\ begun' = begun + 1 /\ raced' \in BOOLEAN
        /\ admitted' = admitted + 1 /\ lapses' = lapses + 1
        /\ UNCHANGED <<timed, windows, work, died>>
    BY <1>6 DEF FailOpen, AtOnce, Arrive, LapseOpen
  <2>2. LimitTypeOK' /\ hits' + windows' <= begun' /\ hits' >= hits
    <3>1. hits' \in Nat /\ hits' >= hits /\ hits' <= hits + 1
      BY <1>0, <2>1
    <3>2. hits + windows <= begun /\ lapses <= admitted /\ admitted <= lapses + hits
      BY <1>0 DEF LimitInv, LimitTypeOK
    <3>3. timed' \in BOOLEAN /\ raced' \in BOOLEAN
      BY <2>1 DEF LimitInv, LimitTypeOK
    <3>4. /\ hits' + windows' <= begun' /\ begun' \in 0 .. MaxRequests
          /\ hits' \in 0 .. MaxRequests /\ windows' \in 0 .. MaxRequests
          /\ lapses' \in Nat /\ admitted' \in lapses' .. lapses' + hits'
      <4>1. CASE hits' = hits
        BY <1>0, <2>1, <3>2, <4>1
      <4>2. CASE hits' = hits + 1
        BY <1>0, <2>1, <3>2, <4>2
      <4> QED
        BY <2>1, <4>1, <4>2
    <3>5. died' \in 0 .. MaxAborts
      BY <2>1 DEF LimitInv, LimitTypeOK, WorkTypeOK
    <3> QED
      BY <3>1, <3>3, <3>4, <3>5 DEF LimitTypeOK, WorkTypeOK
  <2>3. \A v \in Workers : Counting(v)' <=> Counting(v)
    BY <2>1 DEF Counting
  <2>4. \A v \in Workers : Counting(v) => work[v].n <= hits /\ work[v].n \in Nat
    BY <1>0 DEF LimitInv, Counting, LimitTask, Rest
  <2>5. Held' = Held
    BY <1>0, <2>1, <2>3, <2>4 DEF Held
  <2>6. Given \ Held \in SUBSET ((Given \ Held)')
    BY <1>0, <2>1, <2>5 DEF Given
  <2>7. admitted' <= lapses' + Cardinality(Given \ Held)'
    <3>1. /\ Cardinality(Given \ Held) \in Nat /\ Cardinality((Given \ Held)') \in Nat
          /\ Cardinality(Given \ Held) <= Cardinality((Given \ Held)')
      <4>1. hits' \in Nat
        BY <1>0, <2>1
      <4> QED
        BY <1>b, <2>6, <4>1, MoreNumbers
    <3> QED
      BY <1>0, <2>1, <3>1 DEF LimitInv
  <2>8. KeysRunOut'
    BY <2>1 DEF LimitInv, KeysRunOut
  <2>9. timed' => hits' > 0
    BY <1>0, <2>1, <2>2 DEF LimitInv
  <2>10. \A v \in Workers : Counting(v)' => work'[v].n <= hits'
    <3>1. hits' \in Nat /\ hits <= hits'
      BY <1>0, <2>1
    <3> QED
      BY <1>0, <2>1, <2>3, <2>4, <3>1
  <2>11. /\ work' \in [Workers -> LimitTask \cup {Rest}]
         /\ \A v \in Workers : work'[v] # Rest => work'[v].key <= windows'
         /\ \A u, v \in Workers : Counting(u)' /\ Counting(v)' /\ work'[u].n = work'[v].n => u = v
    BY <2>1, <2>3 DEF LimitInv
  <2> QED
    BY <2>2, <2>7, <2>8, <2>9, <2>10, <2>11 DEF LimitInv
<1>9. ASSUME NEW w \in Workers, LoseWindow(w) PROVE LimitInv'
  <2>1. /\ work[w].at = "untimed" /\ timed' \in {timed, hits > 0} /\ work' = [work EXCEPT ![w] = Rest]
        /\ admitted' = admitted + 1 /\ lapses' = lapses + 1
        /\ UNCHANGED <<hits, windows, begun, raced, died>>
    BY <1>9 DEF LoseWindow, LapseOpen, Finish, Continue
  <2>2. work[w] # Rest
    BY <2>1 DEF Rest
  <2>3. /\ work' \in [Workers -> LimitTask \cup {Rest}]
        /\ \A v \in Workers : work'[v] # Rest => work'[v].key <= windows'
        /\ \A v \in Workers : Counting(v)' => Counting(v) /\ work'[v].n = work[v].n
        /\ \A v \in Workers : Counting(v)' => work'[v].n <= hits'
        /\ \A u, v \in Workers : Counting(u)' /\ Counting(v)' /\ work'[u].n = work'[v].n => u = v
        /\ Held' \subseteq Held
    BY <2>1, <2>2, LimitTaskMoves
  <2>4. timed' \in BOOLEAN /\ (timed => timed') /\ (timed' => hits > 0)
    <3>1. timed \in BOOLEAN /\ (hits > 0) \in BOOLEAN /\ (timed => hits > 0)
      BY <1>0 DEF LimitInv, LimitTypeOK
    <3>2. CASE timed' = timed
      BY <3>1, <3>2
    <3>3. CASE timed' = (hits > 0)
      BY <3>1, <3>3
    <3> QED
      BY <2>1, <3>2, <3>3
  <2>5. LimitTypeOK'
    BY <1>0, <2>1, <2>4 DEF LimitInv, LimitTypeOK, WorkTypeOK
  <2>6. admitted' <= lapses' + Cardinality(Given \ Held)'
    <3>1. admitted <= lapses + Cardinality(Given \ Held')
      BY <1>0, <1>b, <1>c, <2>1, <2>3, Returned DEF LimitInv
    <3>2. Cardinality(Given \ Held') \in Nat
      BY <1>0, <1>b, <1>c, <2>1, NumbersAreFew
    <3> QED
      BY <1>0, <1>c, <2>1, <3>1, <3>2
  <2>7. KeysRunOut'
    BY <1>0, <2>1, <2>4 DEF LimitInv, KeysRunOut, Rest
  <2> QED
    BY <1>0, <2>1, <2>3, <2>4, <2>5, <2>6, <2>7 DEF LimitInv
<1>7. CASE EndWindow
  <2>1. /\ timed /\ hits' = 0 /\ timed' = FALSE /\ admitted' = 0 /\ lapses' = 0 /\ windows' = windows + 1
        /\ UNCHANGED <<work, begun, raced, died>>
    BY <1>7 DEF EndWindow, workVars
  <2>2. hits > 0
    BY <2>1 DEF LimitInv
  <2>3. timed' \in BOOLEAN /\ ~timed'
    BY <2>1
  <2>4. LimitTypeOK' /\ hits' + windows' <= begun'
    BY <1>0, <2>1, <2>2, <2>3 DEF LimitInv, LimitTypeOK, WorkTypeOK
  <2>5. \A v \in Workers : work'[v] # Rest => work'[v].key \in Nat /\ work'[v].key < windows'
    <3> SUFFICES ASSUME NEW v \in Workers, work[v] # Rest
                 PROVE  work[v].key \in Nat /\ work[v].key < windows + 1
      BY <2>1
    <3>1. work[v] \in LimitTask
      BY <1>0
    <3> QED
      BY <1>0, <3>1 DEF LimitInv, LimitTask
  <2>6. \A v \in Workers : ~Counting(v)'
    BY <1>0, <2>1, <2>5 DEF Counting, Rest
  <2>7. KeysRunOut'
    BY <2>6 DEF KeysRunOut, Counting
  <2>8. admitted' <= lapses' + Cardinality(Given \ Held)'
    BY <1>b, <2>1, NumbersAreFew
  <2> QED
    BY <1>0, <2>1, <2>3, <2>4, <2>5, <2>6, <2>7, <2>8 DEF LimitInv
<1>8. CASE UNCHANGED limitVars
  BY <1>0, <1>5, <1>8 DEF limitVars, workVars, LimitInv, LimitTypeOK, WorkTypeOK
<1> QED
  BY <1>1, <1>2, <1>3, <1>4, <1>6, <1>7, <1>8, <1>9 DEF LimitNext, LimitStep

(* However requests interleave and die and whichever commands Redis fails,   *)
(* no window lets more than Limit through but for one with each failure, and *)
(* an answer is given under a key that ends (core/rate_limit.py:82-115).     *)
THEOREM WindowsAreSound == LimitSpec => [](LimitTypeOK /\ WindowIsSound)
<1>1. LimitInv => LimitTypeOK /\ WindowIsSound
  <2> SUFFICES ASSUME LimitInv PROVE admitted <= Limit + lapses
    BY DEF LimitInv, WindowIsSound, AdmittedWithinLimit
  <2>1. Given \ Held \in SUBSET (1 .. hits) /\ \A n \in Given \ Held : n <= Limit
    BY DEF Given
  <2>2. hits \in Nat /\ admitted \in Nat /\ lapses \in Nat /\ Limit \in Nat
    BY WorkerBounds, LimitAssumption DEF LimitInv, LimitTypeOK
  <2>3. Cardinality(Given \ Held) \in Nat /\ Cardinality(Given \ Held) <= Limit
    BY <2>1, <2>2, NumbersAreFew
  <2> QED
    BY <2>2, <2>3 DEF LimitInv
<1> QED
  BY <1>1, LimitInitInductive, LimitNextInductive, PTL DEF LimitSpec

-----------------------------------------------------------------------------
(* What every service that texts keeps of the log of messages. *)

(* A worker talks to the gateway. *)
Calling(w) == work[w].at \in {"dialing", "redialing"}

(* A message is sent once: whoever is about to send one has it alone, and it  *)
(* did not reach the phone yet, or only from the first provider.              *)
CallsDiffer == \A v, w \in Workers : Calling(v) /\ Calling(w) /\ work[v].text = work[w].text => v = w

(* The call in progress is the latest row of the log of its message. *)
CallsAreFirst ==
  \A w \in Workers :
    /\ work[w].at = "dialing" => inbox[work[w].text] = 0
    /\ work[w].at = "redialing" =>
         gateway.live /\ "primary" \in gateway.configured /\ inbox[work[w].text] <= 1

(* What every service that sends messages keeps of the log. *)
CallsAreHonest == SmsTypeOK /\ SmsIsHonest /\ CallsDiffer /\ CallsAreFirst

(* Nothing is sent at first. *)
LEMMA SmsInitHolds ==
  ASSUME SmsInit, WorkInit
  PROVE  CallsAreHonest
<1>1. \A w \in Workers : work[w].at = "rest"
  BY DEF WorkInit, Rest
<1>2. SmsTypeOK
  BY DEF SmsInit, SmsTypeOK
<1>3. IsFiniteSet(gateway.configured)
  <2>1. gateway.configured \subseteq {"primary"} \cup {"fallback"}
    BY DEF SmsInit, Gateways, Providers
  <2>2. IsFiniteSet({"primary"})
    BY FS_Singleton
  <2>3. IsFiniteSet({"primary"} \cup {"fallback"})
    BY <2>2, FS_AddElement
  <2> QED
    BY <2>1, <2>3, FS_Subset
<1>4. SmsIsHonest
  BY <1>3, FS_CardinalityType DEF SmsInit, SmsIsHonest
<1> QED
  BY <1>1, <1>2, <1>4 DEF CallsAreHonest, CallsDiffer, CallsAreFirst, Calling

(* There are at most two gateways to try. *)
LEMMA GatewaySize ==
  ASSUME SmsTypeOK
  PROVE  /\ Cardinality(gateway.configured) \in Nat
         /\ "primary" \in gateway.configured => Cardinality(gateway.configured) >= 1
         /\ "primary" \in gateway.configured /\ "fallback" \in gateway.configured
              => Cardinality(gateway.configured) >= 2
<1> DEFINE c == gateway.configured
<1>1. c \subseteq {"primary", "fallback"}
  BY DEF SmsTypeOK, Gateways, Providers
<1>2. IsFiniteSet({"primary"}) /\ Cardinality({"primary"}) = 1
  BY FS_Singleton
<1>3. IsFiniteSet({"primary"} \cup {"fallback"}) /\ Cardinality({"primary"} \cup {"fallback"}) = 2
  BY <1>2, FS_AddElement
<1>4. IsFiniteSet(c)
  BY <1>1, <1>3, FS_Subset
<1>5. Cardinality(c) \in Nat
  BY <1>4, FS_CardinalityType
<1>6. ASSUME "primary" \in c PROVE Cardinality(c) >= 1
  <2>1. {"primary"} \in SUBSET c
    BY <1>6
  <2>2. Cardinality({"primary"}) <= Cardinality(c)
    BY <1>4, <2>1, FS_Subset
  <2> QED
    BY <1>2, <2>2
<1>7. ASSUME "primary" \in c, "fallback" \in c PROVE Cardinality(c) >= 2
  <2>1. c = {"primary"} \cup {"fallback"}
    BY <1>1, <1>7
  <2> QED
    BY <1>3, <2>1
<1> QED
  BY <1>5, <1>6, <1>7

(* What can come of one attempt. *)
LEMMA AttemptEnds ==
  ASSUME NEW p, NEW a \in Attempts(p)
  PROVE  /\ a.left \in BOOLEAN
         /\ a.left => p \in gateway.configured
         /\ a.error = "caught" => p \in gateway.configured
         /\ a.error = "none" => a.left
<1>1. CASE p \notin gateway.configured
  <2>1. a = [left |-> FALSE, error |-> "config"]
    BY <1>1 DEF Attempts
  <2>2. a.left = FALSE /\ a.error = "config"
    BY <2>1
  <2> QED
    BY <2>2
<1>2. CASE p \in gateway.configured
  <2>1. \/ a = [left |-> TRUE, error |-> "none"]
        \/ a \in [left : BOOLEAN, error : {"caught", "uncaught"}]
    BY <1>2 DEF Attempts
  <2>2. CASE a = [left |-> TRUE, error |-> "none"]
    <3>1. a.left = TRUE
      BY <2>2
    <3> QED
      BY <1>2, <3>1
  <2>3. CASE a \in [left : BOOLEAN, error : {"caught", "uncaught"}]
    <3>1. a.left \in BOOLEAN
      BY <2>3, Zenon
    <3>2. a.error \in {"caught", "uncaught"}
      BY <2>3, Zenon
    <3>3. a.error # "none"
      BY <3>2
    <3> QED
      BY <1>2, <3>1, <3>3
  <2> QED
    BY <2>1, <2>2, <2>3
<1> QED
  BY <1>1, <1>2

(* One step of send_sms for message n: its caller goes on, or tries again.    *)
LEMMA SmsStepHolds ==
  ASSUME CallsAreHonest, WorkTypeOK, Alone, NEW T, Typed(T), NEW w \in Workers, SmsStep(w),
         NEW S, work[w] \in [at : {"dialing", "redialing"}, text : Texts, then : S],
         NEW n \in Texts, work[w].text = n, NEW next \in T \cup {Rest}, work[w].then = next,
         next.at \notin {"dialing", "redialing"},
         NEW again \in T, again = [at |-> "redialing", text |-> n, then |-> next]
  PROVE  /\ CallsAreHonest' /\ WorkTypeOK' /\ Alone' /\ Typed(T)'
         /\ work'[w] \in {next, again} /\ \A v \in Workers \ {w} : work'[v] = work[v]
         /\ \A k \in Texts \ {n} : inbox'[k] = inbox[k] /\ outcome'[k] = outcome[k]
         /\ UNCHANGED <<gateway, begun, raced, died>>
<1> DEFINE c == gateway.configured
<1>1. /\ gateway \in Gateways /\ inbox \in [Texts -> Nat] /\ outcome \in [Texts -> {"none", "ok", "failed"}]
      /\ SmsTypeOK
  BY DEF CallsAreHonest, SmsTypeOK
<1>2. [work[w] EXCEPT !.at = "redialing"] = again /\ work[w] # Rest
  <2>1. work[w] = [at |-> work[w].at, text |-> n, then |-> next]
    OBVIOUS
  <2>2. work[w].at \in {"dialing", "redialing"} /\ Rest.at = "rest"
    BY DEF Rest
  <2> QED
    BY <2>1, <2>2
<1>3. PICK left \in BOOLEAN, ok \in BOOLEAN, goes \in {next, again} :
        /\ inbox' = IF left THEN [inbox EXCEPT ![n] = @ + 1] ELSE inbox
        /\ goes = next => outcome' = [outcome EXCEPT ![n] = IF ok THEN "ok" ELSE "failed"]
        /\ goes = again => outcome' = outcome
        /\ Continue(w, goes) /\ UNCHANGED gateway
        /\ ok /\ gateway.live => left
        /\ left => gateway.live /\ "primary" \in c
        /\ left /\ work[w].at = "redialing" => "fallback" \in c
        /\ goes = again => gateway.live /\ "primary" \in c /\ work[w].at = "dialing"
  <2>0. next # again
    BY DEF Rest
  <2>1. CASE Skip(w)
    <3>1. /\ inbox' = inbox /\ outcome' = [outcome EXCEPT ![n] = "ok"]
          /\ Continue(w, next) /\ UNCHANGED gateway /\ ~gateway.live
      BY <2>1 DEF Skip, Tell
    <3> QED
      BY <2>0, <3>1
  <2>2. CASE Dial(w)
    <3>1. PICK a \in Attempts("primary") :
            /\ Deliver(n, a.left)
            /\ IF a.error = "caught" THEN Continue(w, again) /\ UNCHANGED outcome
                                     ELSE Tell(w, a.error = "none")
      BY <1>2, <2>2 DEF Dial
    <3>2. /\ a.left \in BOOLEAN /\ (a.left => "primary" \in c)
          /\ (a.error = "caught" => "primary" \in c) /\ (a.error = "none" => a.left)
      BY <3>1, AttemptEnds
    <3>3. work[w].at = "dialing" /\ gateway.live /\ UNCHANGED gateway
      BY <2>2 DEF Dial
    <3>4. inbox' = IF a.left THEN [inbox EXCEPT ![n] = @ + 1] ELSE inbox
      BY <3>1 DEF Deliver
    <3>5. CASE a.error = "caught"
      <4>1. Continue(w, again) /\ outcome' = outcome
        BY <3>1, <3>5
      <4> QED
        BY <2>0, <3>2, <3>3, <3>4, <3>5, <4>1
    <3>6. CASE a.error = "none"
      <4>1. Continue(w, next) /\ outcome' = [outcome EXCEPT ![n] = "ok"]
        BY <3>1, <3>6 DEF Tell
      <4> QED
        BY <2>0, <3>2, <3>3, <3>4, <3>6, <4>1
    <3>7. CASE a.error \notin {"caught", "none"}
      <4>1. Continue(w, next) /\ outcome' = [outcome EXCEPT ![n] = "failed"]
        BY <3>1, <3>7 DEF Tell
      <4> QED
        BY <2>0, <3>2, <3>3, <3>4, <4>1
    <3> QED
      BY <3>5, <3>6, <3>7
  <2>3. CASE Redial(w)
    <3>1. PICK a \in Attempts("fallback") : Deliver(n, a.left) /\ Tell(w, a.error = "none")
      BY <2>3 DEF Redial
    <3>2. /\ a.left \in BOOLEAN /\ (a.left => "fallback" \in c) /\ (a.error = "none" => a.left)
      BY <3>1, AttemptEnds
    <3>3. work[w].at = "redialing" /\ UNCHANGED gateway
      BY <2>3 DEF Redial
    <3>4. inbox' = IF a.left THEN [inbox EXCEPT ![n] = @ + 1] ELSE inbox
      BY <3>1 DEF Deliver
    <3>5. gateway.live /\ "primary" \in c
      BY <3>3 DEF CallsAreHonest, CallsAreFirst
    <3>6. CASE a.error = "none"
      <4>1. Continue(w, next) /\ outcome' = [outcome EXCEPT ![n] = "ok"]
        BY <3>1, <3>6 DEF Tell
      <4> QED
        BY <2>0, <3>2, <3>3, <3>4, <3>5, <3>6, <4>1
    <3>7. CASE a.error # "none"
      <4>1. Continue(w, next) /\ outcome' = [outcome EXCEPT ![n] = "failed"]
        BY <3>1, <3>7 DEF Tell
      <4> QED
        BY <2>0, <3>2, <3>3, <3>4, <3>5, <4>1
    <3> QED
      BY <3>6, <3>7
  <2> QED
    BY <2>1, <2>2, <2>3 DEF SmsStep
<1>4. /\ WorkTypeOK' /\ Alone' /\ Typed(T)'
      /\ work'[w] = goes /\ \A v \in Workers \ {w} : work'[v] = work[v]
      /\ UNCHANGED <<raced, begun, died>>
  BY <1>2, <1>3, TaskContinues
<1>5. /\ inbox' \in [Texts -> Nat] /\ inbox[n] \in Nat
      /\ inbox'[n] = IF left THEN inbox[n] + 1 ELSE inbox[n]
      /\ \A k \in Texts \ {n} : inbox'[k] = inbox[k]
  BY <1>1, <1>3
<1>6. /\ outcome' \in [Texts -> {"none", "ok", "failed"}]
      /\ \A k \in Texts \ {n} : outcome'[k] = outcome[k]
      /\ goes = next => (outcome'[n] = "ok" => ok)
      /\ goes = again => outcome'[n] = outcome[n]
  <2>1. CASE goes = next
    <3>1. next # again
      BY DEF Rest
    <3> QED
      BY <1>1, <1>3, <2>1, <3>1
  <2>2. CASE goes = again
    <3>1. next # again
      BY DEF Rest
    <3> QED
      BY <1>1, <1>3, <2>2, <3>1
  <2> QED
    BY <1>3, <2>1, <2>2
<1>7. SmsTypeOK'
  BY <1>1, <1>3, <1>5, <1>6 DEF SmsTypeOK
<1>8. /\ Cardinality(c) \in Nat /\ ("primary" \in c => Cardinality(c) >= 1)
      /\ ("primary" \in c /\ "fallback" \in c => Cardinality(c) >= 2)
  BY <1>1, GatewaySize
<1>9. /\ outcome[n] = "ok" /\ gateway.live => inbox[n] > 0
      /\ inbox[n] > 0 => gateway.live /\ "primary" \in c
      /\ inbox[n] <= Cardinality(c)
      /\ work[w].at = "dialing" => inbox[n] = 0
      /\ work[w].at = "redialing" => inbox[n] <= 1
      /\ work[w].at \in {"dialing", "redialing"}
  BY DEF CallsAreHonest, SmsIsHonest, CallsAreFirst
<1>10. /\ outcome'[n] = "ok" /\ gateway.live => inbox'[n] > 0
       /\ inbox'[n] > 0 => gateway.live /\ "primary" \in c
       /\ inbox'[n] <= Cardinality(c)
       /\ goes = again => inbox'[n] <= 1
  <2>1. CASE left
    <3>1. inbox'[n] = inbox[n] + 1 /\ gateway.live /\ "primary" \in c
      BY <1>3, <1>5, <2>1
    <3>2. CASE work[w].at = "dialing"
      BY <1>5, <1>8, <1>9, <3>1, <3>2
    <3>3. CASE work[w].at = "redialing"
      <4>1. "fallback" \in c /\ goes # again
        BY <1>3, <2>1, <3>3
      <4> QED
        BY <1>5, <1>8, <1>9, <3>1, <3>3, <4>1
    <3> QED
      BY <1>9, <3>2, <3>3
  <2>2. CASE ~left
    <3>1. inbox'[n] = inbox[n]
      BY <1>5, <2>2
    <3>2. outcome'[n] = "ok" /\ gateway.live => inbox[n] > 0
      <4>1. CASE goes = next
        BY <1>3, <1>6, <2>2, <4>1
      <4>2. CASE goes = again
        BY <1>6, <1>9, <4>2
      <4> QED
        BY <1>3, <4>1, <4>2
    <3>3. goes = again => inbox[n] <= 1
      BY <1>3, <1>9
    <3> QED
      BY <1>9, <3>1, <3>2, <3>3
  <2> QED
    BY <2>1, <2>2
<1>11. SmsIsHonest'
  <2> SUFFICES ASSUME NEW k \in Texts
               PROVE  /\ outcome'[k] = "ok" /\ gateway.live => inbox'[k] > 0
                      /\ inbox'[k] > 0 => gateway.live /\ "primary" \in c
                      /\ inbox'[k] <= Cardinality(c)
    BY <1>3 DEF SmsIsHonest
  <2>1. CASE k = n
    BY <1>10, <2>1
  <2>2. CASE k # n
    BY <1>5, <1>6, <2>2 DEF CallsAreHonest, SmsIsHonest
  <2> QED
    BY <2>1, <2>2
<1>12. \A v \in Workers \ {w} : Calling(v) => work[v].text # n
  BY DEF CallsAreHonest, CallsDiffer, Calling
<1>13. goes.at \in {"dialing", "redialing"} => goes = again /\ goes.at = "redialing" /\ goes.text = n
  BY <1>3
<1>14. CallsDiffer'
  BY <1>4, <1>12, <1>13 DEF CallsAreHonest, CallsDiffer, Calling
<1>15. \A k \in Texts : inbox'[k] \in Nat
  BY <1>5
<1>16. CallsAreFirst'
  <2> SUFFICES ASSUME NEW v \in Workers
               PROVE  /\ work'[v].at = "dialing" => inbox'[work'[v].text] = 0
                      /\ work'[v].at = "redialing" =>
                           gateway.live /\ "primary" \in c /\ inbox'[work'[v].text] <= 1
    BY <1>3 DEF CallsAreFirst
  <2>1. CASE v = w
    BY <1>3, <1>4, <1>10, <1>13, <2>1
  <2>2. CASE v # w
    <3>1. work'[v] = work[v]
      BY <1>4, <2>2
    <3>2. CASE Calling(v)
      <4>1. work[v].text # n
        BY <1>12, <2>2, <3>2
      <4>2. inbox'[work[v].text] = inbox[work[v].text]
        BY <1>1, <1>3, <4>1
      <4> QED
        BY <3>1, <4>2 DEF CallsAreHonest, CallsAreFirst
    <3>3. CASE ~Calling(v)
      BY <3>1, <3>3 DEF Calling
    <3> QED
      BY <3>2, <3>3
  <2> QED
    BY <2>1, <2>2
<1> QED
  BY <1>3, <1>4, <1>5, <1>6, <1>7, <1>11, <1>14, <1>16 DEF CallsAreHonest

(* A step that sends nothing: whoever goes on to send a message has one that  *)
(* nobody sent.                                                               *)
LEMMA SmsQuietStep ==
  ASSUME CallsAreHonest, UNCHANGED smsVars, NEW w \in Workers, NEW t,
         work'[w] = t, \A v \in Workers \ {w} : work'[v] = work[v],
         t.at # "redialing",
         t.at = "dialing" => inbox[t.text] = 0 /\ \A v \in Workers \ {w} : Calling(v) => work[v].text # t.text
  PROVE  CallsAreHonest'
<1>1. UNCHANGED <<gateway, inbox, outcome>>
  BY DEF smsVars
<1>2. SmsTypeOK' /\ SmsIsHonest'
  BY <1>1 DEF CallsAreHonest, SmsTypeOK, SmsIsHonest
<1>3. CallsDiffer'
  BY DEF CallsAreHonest, CallsDiffer, Calling
<1>4. CallsAreFirst'
  BY <1>1 DEF CallsAreHonest, CallsAreFirst
<1> QED
  BY <1>2, <1>3, <1>4 DEF CallsAreHonest

(* A step that neither sends nor changes a task keeps the log honest. *)
LEMMA SmsUntouched ==
  ASSUME CallsAreHonest, UNCHANGED smsVars, UNCHANGED work
  PROVE  CallsAreHonest'
BY DEF smsVars, CallsAreHonest, SmsTypeOK, SmsIsHonest, CallsDiffer, CallsAreFirst, Calling

-----------------------------------------------------------------------------
(* The login. *)

(* The tasks of requests that send or verify a password. *)
OtpTask ==
  [at : {"generated", "stored", "metered", "tried"}]
    \cup [at : {"dialing", "redialing"}, text : Texts, then : {Rest}]
    \cup [at : {"read"}, typed : 0 .. MaxOtps, seen : 1 .. MaxOtps]
    \cup [at : {"barred", "right", "wrong", "cleared", "verified", "new"}, seen : 1 .. MaxOtps]

(* The statements of verify_otp. *)
Verifying == {"read", "barred", "right", "wrong", "cleared", "verified", "new"}

(* One request at a time is past the check of the send limit and has not     *)
(* counted: the key is incremented and read at once.                         *)
SendersDiffer ==
  \A v, w \in Workers : work[v].at \in Sending /\ work[w].at \in Sending => v = w

(* A password past the last one was never sent and never used.                *)
PasswordsAreNumbered ==
  /\ otp <= generated
  /\ \A n \in 1 .. MaxOtps : n > generated => inbox[n] = 0 /\ logins[n] = 0
  /\ \A w \in Workers :
       /\ work[w].at = "generated" => generated < MaxOtps
       /\ work[w].at \in {"stored", "metered"} => generated > 0 /\ inbox[generated] = 0
       /\ work[w].at \in {"dialing", "redialing"} => generated > 0 /\ work[w].text = generated
       /\ work[w].at \in Verifying => work[w].seen <= generated

(* No more is sent than is counted, but for the one that is about to be. *)
SendsAreCounted ==
  /\ sends <= SendLimit /\ sends <= generated
  /\ \A w \in Workers :
       /\ work[w].at \in {"generated", "stored"} => sends < SendLimit
       /\ work[w].at = "stored" => sends < generated
  /\ SendsAreLimited
  /\ recent <= sends + died + (IF \E w \in Workers : work[w].at = "stored" THEN 1 ELSE 0)

(* A count of sends has a time to live, or its request died before it set    *)
(* one.                                                                      *)
SendsLapse ==
  sends > 0 => "sends" \in lapsing \/ died > 0 \/ \E w \in Workers : work[w].at = "metered"

(* A count of attempts has a time to live, or its request died before it set *)
(* one.                                                                      *)
AttemptsLapse ==
  attempts > 0 => "attempts" \in lapsing \/ died > 0 \/ \E w \in Workers : work[w].at = "tried"

(* Without overlap every wrong try is counted or was forgotten with an older *)
(* count, and every login has used the password up.                          *)
TriesAreCounted ==
  ~raced =>
    /\ otp # 0 => wrong <= attempts + forgotten /\ logins[otp] = 0
    /\ wrong <= MaxAttempts + forgotten
    /\ \A n \in 1 .. MaxOtps : logins[n] <= 1
    /\ \A w \in Workers :
         /\ work[w].at = "wrong" => attempts < MaxAttempts
         /\ work[w].at \in {"cleared", "verified", "new"} => otp = 0
         /\ work[w].at \in {"read", "right", "cleared", "verified", "new"} => logins[work[w].seen] = 0

(* In a count that is older than the password only tries without an EXPIRE    *)
(* can be: that of a request that died, or is about to set one.              *)
ForgottenAreFew ==
  ~raced =>
    /\ otp # 0 /\ older =>
         \/ wrong <= died
         \/ wrong <= died + 1 /\ \E w \in Workers : work[w].at = "tried"
    /\ forgotten <= died + 1

(* The inductive invariant of the login. *)
OtpInv ==
  /\ OtpTypeOK /\ Alone /\ Typed(OtpTask) /\ CallsAreHonest
  /\ SendersDiffer /\ PasswordsAreNumbered /\ SendsAreCounted
  /\ SendsLapse /\ AttemptsLapse /\ TriesAreCounted /\ ForgottenAreFew

(* What a task of a login is. *)
LEMMA OtpShapes ==
  ASSUME Typed(OtpTask), NEW w \in Workers
  PROVE  /\ work[w].at = "read" => work[w].seen \in 1 .. MaxOtps /\ work[w].typed \in 0 .. MaxOtps
         /\ work[w].at \in Verifying => work[w].seen \in 1 .. MaxOtps
         /\ work[w].at \in {"dialing", "redialing"} =>
              work[w] \in [at : {"dialing", "redialing"}, text : Texts, then : {Rest}]
         /\ work[w] = Rest <=> work[w].at = "rest"
<1>1. Rest.at = "rest"
  BY DEF Rest
<1>2. work[w] \in OtpTask \cup {Rest}
  BY DEF Typed
<1> QED
  BY <1>1, <1>2 DEF OtpTask, Verifying

(* What the type invariant says of the keys. *)
LEMMA OtpFacts ==
  ASSUME OtpInv
  PROVE  /\ WorkTypeOK /\ Alone /\ Typed(OtpTask) /\ CallsAreHonest /\ SmsTypeOK
         /\ otp \in Nat /\ otp <= MaxOtps /\ generated \in Nat /\ generated <= MaxOtps
         /\ sends \in Nat /\ sends <= MaxOtps /\ lapsing \subseteq {"sends", "attempts"}
         /\ attempts \in Nat /\ recent \in Nat /\ wrong \in Nat /\ forgotten \in Nat
         /\ older \in BOOLEAN /\ (older => "attempts" \in lapsing)
         /\ logins \in [1 .. MaxOtps -> Nat] /\ known \in BOOLEAN
         /\ died \in Nat /\ raced \in BOOLEAN
         /\ SendLimit \in Nat \ {0} /\ MaxAttempts \in Nat \ {0} /\ MaxOtps \in Nat
         /\ \A n \in 1 .. MaxOtps : n \in Texts
         /\ inbox \in [Texts -> Nat]
BY OtpAssumption, WorkerBounds DEF OtpInv, OtpTypeOK, WorkTypeOK, SmsTypeOK

(* A step that neither stores nor tries a password forgets no more.           *)
LEMMA ForgottenKept ==
  ASSUME OtpInv, NEW w \in Workers, \A v \in Workers \ {w} : work'[v] = work[v],
         ~raced' => ~raced, UNCHANGED <<wrong, forgotten>>,
         otp' \in {0, otp}, older' \in {FALSE, older},
         \/ died' = died /\ (work[w].at = "tried" => older' = FALSE)
         \/ died' = died + 1
  PROVE  ForgottenAreFew'
<1> SUFFICES ASSUME ~raced' PROVE ForgottenAreFew'
  BY DEF ForgottenAreFew
<1>1. ForgottenAreFew /\ ~raced
  BY DEF OtpInv
<1>2. died \in Nat /\ wrong \in Nat /\ forgotten \in Nat
  BY OtpFacts
<1>3. forgotten' <= died' + 1
  BY <1>1, <1>2 DEF ForgottenAreFew
<1>4. ASSUME otp' # 0, older'
      PROVE  wrong' <= died' \/ (wrong' <= died' + 1 /\ \E v \in Workers : work'[v].at = "tried")
  <2>1. wrong <= died \/ (wrong <= died + 1 /\ \E v \in Workers : work[v].at = "tried")
    BY <1>1, <1>4 DEF ForgottenAreFew
  <2>2. CASE died' = died + 1
    BY <1>2, <2>1, <2>2
  <2>3. CASE died' = died /\ work[w].at # "tried"
    BY <2>1, <2>3
  <2> QED
    BY <1>4, <2>2, <2>3
<1> QED
  BY <1>3, <1>4 DEF ForgottenAreFew

(* OtpInv holds at first. *)
LEMMA OtpInitInductive == OtpInit /\ SmsInit /\ WorkInit => OtpInv
<1> SUFFICES ASSUME OtpInit, SmsInit, WorkInit PROVE OtpInv
  OBVIOUS
<1>1. WorkTypeOK /\ Alone /\ Typed(OtpTask) /\ CallsAreHonest
  BY WorkInitHolds, SmsInitHolds
<1>2. \A w \in Workers : work[w].at = "rest"
  BY DEF WorkInit, Rest
<1>3. SmsTypeOK
  BY <1>1 DEF CallsAreHonest
<1>4. OtpTypeOK
  <2>1. older \in BOOLEAN /\ (older => "attempts" \in lapsing) /\ lapsing \subseteq {"sends", "attempts"}
    BY DEF OtpInit
  <2>2. logins \in [1 .. MaxOtps -> Nat] /\ known \in BOOLEAN
    BY DEF OtpInit
  <2> QED
    BY <1>1, <1>3, <2>1, <2>2, OtpAssumption DEF OtpInit, OtpTypeOK
<1>5. SendersDiffer
  BY <1>2 DEF SendersDiffer, Sending
<1>6. PasswordsAreNumbered
  BY <1>2, OtpAssumption DEF PasswordsAreNumbered, OtpInit, SmsInit, Verifying
<1>7. SendsAreCounted
  BY <1>2, OtpAssumption DEF SendsAreCounted, SendsAreLimited, OtpInit, WorkInit
<1>8. SendsLapse /\ AttemptsLapse
  BY DEF SendsLapse, AttemptsLapse, OtpInit
<1>9. TriesAreCounted
  BY <1>2, OtpAssumption DEF TriesAreCounted, OtpInit
<1>10. ForgottenAreFew
  BY DEF ForgottenAreFew, OtpInit, WorkInit
<1> QED
  BY <1>1, <1>4, <1>5, <1>6, <1>7, <1>8, <1>9, <1>10 DEF OtpInv

(* A step of a request that sends nothing keeps the books of the sends.       *)
LEMMA NoSendHolds ==
  ASSUME OtpInv, UNCHANGED <<sends, generated, recent, smsVars>>, NEW w \in Workers, NEW t,
         work'[w] = t, \A v \in Workers \ {w} : work'[v] = work[v],
         t.at \notin Sending, t.at \in Verifying => t.seen <= generated,
         otp' \in {0, otp}, "sends" \in lapsing => "sends" \in lapsing',
         \/ work[w].at \notin {"stored", "metered"} /\ died' = died
         \/ died' = died + 1,
         \A n \in 1 .. MaxOtps : logins'[n] # logins[n] => n <= generated
  PROVE  CallsAreHonest' /\ SendersDiffer' /\ PasswordsAreNumbered' /\ SendsAreCounted' /\ SendsLapse'
<1>1. /\ CallsAreHonest /\ otp \in Nat /\ sends \in Nat /\ recent \in Nat /\ died \in Nat
      /\ SendLimit \in Nat /\ generated \in Nat
  BY OtpFacts
<1>2. CallsAreHonest'
  BY <1>1, SmsQuietStep DEF Sending
<1>3. SendersDiffer'
  BY DEF OtpInv, SendersDiffer
<1>4. inbox' = inbox
  BY DEF smsVars
<1>5. PasswordsAreNumbered'
  <2>1. otp' <= generated
    BY <1>1 DEF OtpInv, PasswordsAreNumbered
  <2>2. \A n \in 1 .. MaxOtps : n > generated => inbox[n] = 0 /\ logins'[n] = 0
    BY <1>1 DEF OtpInv, PasswordsAreNumbered
  <2>3. ASSUME NEW v \in Workers
        PROVE  /\ work'[v].at = "generated" => generated < MaxOtps
               /\ work'[v].at \in {"stored", "metered"} => generated > 0 /\ inbox[generated] = 0
               /\ work'[v].at \in {"dialing", "redialing"} => generated > 0 /\ work'[v].text = generated
               /\ work'[v].at \in Verifying => work'[v].seen <= generated
    <3>1. CASE v = w
      BY <3>1 DEF Sending
    <3>2. CASE v # w
      BY <3>2 DEF OtpInv, PasswordsAreNumbered
    <3> QED
      BY <3>1, <3>2
  <2> QED
    BY <1>4, <2>1, <2>2, <2>3 DEF PasswordsAreNumbered
<1>6. /\ \A v \in Workers : work'[v].at \in Sending => work'[v] = work[v]
      /\ died' \in Nat /\ died <= died'
  BY <1>1
<1>7. recent <= sends + died' + (IF \E v \in Workers : work'[v].at = "stored" THEN 1 ELSE 0)
  <2>1. CASE \E v \in Workers : work[v].at = "stored"
    <3>1. recent <= sends + died + 1
      BY <2>1 DEF OtpInv, SendsAreCounted
    <3>2. CASE died' = died + 1
      BY <1>1, <3>1, <3>2
    <3>3. CASE work[w].at # "stored" /\ died' = died
      <4>1. \E v \in Workers : work'[v].at = "stored"
        BY <2>1, <3>3
      <4> QED
        BY <3>1, <3>3, <4>1
    <3> QED
      BY <3>2, <3>3
  <2>2. CASE ~\E v \in Workers : work[v].at = "stored"
    <3>1. recent <= sends + died
      BY <1>1, <2>2 DEF OtpInv, SendsAreCounted
    <3>2. died' \in Nat /\ died <= died'
      BY <1>6
    <3>3. \A a, b, c, d \in Nat : a <= b + c /\ c <= d => a <= b + d + 0 /\ a <= b + d + 1
      OBVIOUS
    <3>4. recent <= sends + died' + 0 /\ recent <= sends + died' + 1
      <4>1. recent \in Nat /\ sends \in Nat /\ died \in Nat
        BY <1>1
      <4> QED
        BY <3>1, <3>2, <3>3, <4>1, Zenon
    <3> QED
      BY <3>4
  <2> QED
    BY <2>1, <2>2
<1>8. SendsAreCounted'
  <2>1. sends <= SendLimit /\ sends <= generated
    BY DEF OtpInv, SendsAreCounted
  <2>2. \A v \in Workers :
          /\ work'[v].at \in {"generated", "stored"} => sends < SendLimit
          /\ work'[v].at = "stored" => sends < generated
    BY <1>6 DEF OtpInv, SendsAreCounted, Sending
  <2>3. recent <= SendLimit + died' + (IF \E v \in Workers : work'[v].at = "stored" THEN 1 ELSE 0)
    BY <1>1, <1>6, <1>7, <2>1
  <2> QED
    BY <1>7, <2>1, <2>2, <2>3 DEF SendsAreCounted, SendsAreLimited
<1>9. SendsLapse'
  <2>1. CASE \E v \in Workers : work[v].at = "metered"
    <3>1. died' > 0 \/ \E v \in Workers : work'[v].at = "metered"
      BY <1>1, <2>1
    <3> QED
      BY <3>1 DEF SendsLapse
  <2>2. CASE ~\E v \in Workers : work[v].at = "metered"
    BY <1>1, <1>6, <2>2 DEF OtpInv, SendsLapse
  <2> QED
    BY <2>1, <2>2
<1> QED
  BY <1>2, <1>3, <1>5, <1>8, <1>9

(* OtpInv is kept when send_otp has passed the send limit. *)
LEMMA BeginSendInductive ==
  ASSUME OtpInv, NEW w \in Workers, BeginSend(w), UNCHANGED smsVars PROVE OtpInv'
<1>0. OtpInv /\ inbox' = inbox
  BY DEF smsVars
<1> DEFINE t == [at |-> "generated"]
<1>1. t \in OtpTask /\ t.at = "generated"
  BY DEF OtpTask
<1>2. /\ generated < MaxOtps /\ sends < SendLimit /\ Begin(w, t)
      /\ \A v \in Workers : work[v].at \notin Sending
      /\ UNCHANGED <<otp, sends, attempts, lapsing, older, generated, recent, wrong, forgotten, logins, known>>
  BY DEF BeginSend, otpKeys
<1> HIDE DEF t
<1>3. /\ WorkTypeOK' /\ Alone' /\ Typed(OtpTask)'
      /\ work[w] = Rest /\ work'[w] = t /\ \A v \in Workers \ {w} : work'[v] = work[v]
      /\ ~raced' => ~raced /\ \A v \in Workers : work[v] = Rest
      /\ died' = died
  BY <1>1, <1>2, OtpFacts, TaskBegins
<1>4. CallsAreHonest'
  BY <1>1, <1>3, OtpFacts, SmsQuietStep
<1>5. OtpTypeOK'
  BY <1>2, <1>3, <1>4 DEF OtpInv, OtpTypeOK, CallsAreHonest
<1>6. SendersDiffer'
  BY <1>2, <1>3 DEF SendersDiffer
<1>7. PasswordsAreNumbered'
  BY <1>0, <1>1, <1>2, <1>3 DEF OtpInv, PasswordsAreNumbered, Verifying
<1>8. (\E v \in Workers : work'[v].at = "stored") <=> \E v \in Workers : work[v].at = "stored"
  BY <1>1, <1>3 DEF Rest
<1>9. SendsAreCounted'
  BY <1>1, <1>2, <1>3, <1>8 DEF OtpInv, SendsAreCounted, SendsAreLimited
<1>10. SendsLapse' /\ AttemptsLapse'
  BY <1>2, <1>3 DEF OtpInv, SendsLapse, AttemptsLapse, Rest
<1>11. TriesAreCounted'
  BY <1>1, <1>2, <1>3 DEF OtpInv, TriesAreCounted
<1>12. ForgottenAreFew'
  <2>1. work[w].at # "tried" /\ otp' \in {0, otp} /\ older' \in {FALSE, older}
    BY <1>2, <1>3 DEF Rest
  <2> QED
    BY <1>2, <1>3, <2>1, ForgottenKept
<1> QED
  BY <1>3, <1>4, <1>5, <1>6, <1>7, <1>9, <1>10, <1>11, <1>12 DEF OtpInv

(* OtpInv is kept when it stores the password. *)
LEMMA StoreOtpInductive ==
  ASSUME OtpInv, NEW w \in Workers, StoreOtp(w), UNCHANGED smsVars PROVE OtpInv'
<1>0. inbox' = inbox
  BY DEF smsVars
<1> DEFINE t == [at |-> "stored"]
<1>1. t \in OtpTask /\ t.at = "stored"
  BY DEF OtpTask
<1>2. /\ work[w].at = "generated" /\ work[w] # Rest /\ Continue(w, t)
      /\ generated' = generated + 1 /\ otp' = generated + 1 /\ recent' = recent + 1 /\ wrong' = 0
      /\ forgotten' = 0 /\ older' = ("attempts" \in lapsing)
      /\ UNCHANGED <<sends, attempts, lapsing, logins, known>>
  BY DEF StoreOtp, Rest
<1> HIDE DEF t
<1>3. /\ WorkTypeOK' /\ Alone' /\ Typed(OtpTask)'
      /\ work'[w] = t /\ \A v \in Workers \ {w} : work'[v] = work[v]
      /\ ~raced => \A v \in Workers \ {w} : work[v] = Rest
      /\ raced' = raced /\ died' = died
  BY <1>1, <1>2, OtpFacts, TaskContinues
<1>4. /\ \A v \in Workers \ {w} : work[v].at \notin Sending
      /\ generated < MaxOtps /\ sends < SendLimit /\ sends <= generated
      /\ generated \in Nat /\ sends \in Nat /\ recent \in Nat /\ died \in Nat /\ MaxOtps \in Nat
      /\ SendLimit \in Nat /\ attempts \in Nat /\ MaxAttempts \in Nat
  BY <1>2, OtpFacts DEF OtpInv, SendersDiffer, PasswordsAreNumbered, SendsAreCounted, Sending
<1>5. generated + 1 \in 1 .. MaxOtps /\ generated + 1 > generated
  BY <1>4
<1>6. inbox[generated + 1] = 0 /\ logins[generated + 1] = 0
  BY <1>5 DEF OtpInv, PasswordsAreNumbered
<1>7. CallsAreHonest'
  BY <1>1, <1>3, OtpFacts, SmsQuietStep
<1>8. OtpTypeOK'
  BY <1>2, <1>3, <1>4, <1>5, <1>7 DEF OtpInv, OtpTypeOK, CallsAreHonest
<1>9. SendersDiffer'
  BY <1>1, <1>3, <1>4 DEF SendersDiffer
<1>10. PasswordsAreNumbered'
  <2>1. \A n \in 1 .. MaxOtps : n > generated + 1 => inbox[n] = 0 /\ logins[n] = 0
    BY <1>4 DEF OtpInv, PasswordsAreNumbered
  <2>2. ASSUME NEW v \in Workers, v # w
        PROVE  /\ work'[v].at \notin Sending
               /\ work'[v].at \in Verifying => work'[v].seen <= generated + 1
    <3>1. work'[v] = work[v] /\ work[v].at \notin Sending
      BY <1>3, <1>4, <2>2
    <3>2. work[v].at \in Verifying => work[v].seen <= generated /\ work[v].seen \in Nat
      BY OtpFacts, OtpShapes DEF OtpInv, PasswordsAreNumbered
    <3> QED
      BY <1>4, <3>1, <3>2
  <2> QED
    BY <1>0, <1>1, <1>2, <1>3, <1>4, <1>5, <1>6, <2>1, <2>2 DEF PasswordsAreNumbered, Sending, Verifying
<1>11. recent <= sends + died
  <2>1. ~\E v \in Workers : work[v].at = "stored"
    BY <1>2, <1>4 DEF Sending
  <2> QED
    BY <1>4, <2>1 DEF OtpInv, SendsAreCounted
<1>12. SendsAreCounted'
  <2>1. \E v \in Workers : work'[v].at = "stored"
    BY <1>1, <1>3
  <2>2. recent + 1 <= sends + died + 1 /\ recent + 1 <= SendLimit + died + 1
    BY <1>4, <1>11
  <2> QED
    BY <1>1, <1>2, <1>3, <1>4, <2>1, <2>2 DEF SendsAreCounted, SendsAreLimited, Sending
<1>13. SendsLapse' /\ AttemptsLapse'
  BY <1>2, <1>3 DEF OtpInv, SendsLapse, AttemptsLapse
<1>14. TriesAreCounted'
  <2> SUFFICES ASSUME ~raced' PROVE TriesAreCounted'
    BY DEF TriesAreCounted
  <2>1. \A v \in Workers : work'[v] = t \/ work'[v] = Rest
    BY <1>3
  <2>2. \A n \in 1 .. MaxOtps : logins[n] <= 1
    BY <1>3 DEF OtpInv, TriesAreCounted
  <2> QED
    BY <1>1, <1>2, <1>3, <1>4, <1>6, <2>1, <2>2 DEF TriesAreCounted, Rest
<1>15. ForgottenAreFew'
  <2>1. wrong' <= died' /\ forgotten' <= died' + 1
    BY <1>2, <1>3, <1>4
  <2> QED
    BY <2>1 DEF ForgottenAreFew
<1> QED
  BY <1>3, <1>7, <1>8, <1>9, <1>10, <1>12, <1>13, <1>14, <1>15 DEF OtpInv

(* OtpInv is kept when it counts the send. *)
LEMMA CountSendInductive ==
  ASSUME OtpInv, NEW w \in Workers, CountSend(w), UNCHANGED smsVars PROVE OtpInv'
<1>0. inbox' = inbox
  BY DEF smsVars
<1> DEFINE t == [at |-> "metered"]
<1>1. t \in OtpTask /\ t.at = "metered"
  BY DEF OtpTask
<1>2. /\ work[w].at = "stored" /\ work[w] # Rest /\ Continue(w, t) /\ sends' = sends + 1
      /\ UNCHANGED <<otp, attempts, lapsing, older, generated, recent, wrong, forgotten, logins, known>>
  BY DEF CountSend, Rest
<1> HIDE DEF t
<1>3. /\ WorkTypeOK' /\ Alone' /\ Typed(OtpTask)'
      /\ work'[w] = t /\ \A v \in Workers \ {w} : work'[v] = work[v]
      /\ raced' = raced /\ died' = died
  BY <1>1, <1>2, OtpFacts, TaskContinues
<1>4. /\ \A v \in Workers \ {w} : work[v].at \notin Sending
      /\ sends < SendLimit /\ sends < generated /\ generated <= MaxOtps
      /\ generated \in Nat /\ sends \in Nat /\ recent \in Nat /\ died \in Nat /\ MaxOtps \in Nat
      /\ SendLimit \in Nat
  BY <1>2, OtpFacts DEF OtpInv, SendersDiffer, SendsAreCounted, Sending
<1>5. sends + 1 \in 0 .. MaxOtps /\ sends + 1 <= SendLimit /\ sends + 1 <= generated
  BY <1>4
<1>6. CallsAreHonest'
  BY <1>1, <1>3, OtpFacts, SmsQuietStep
<1>7. OtpTypeOK'
  BY <1>2, <1>3, <1>5, <1>6 DEF OtpInv, OtpTypeOK, CallsAreHonest
<1>8. SendersDiffer'
  BY <1>1, <1>3, <1>4 DEF SendersDiffer
<1>9. PasswordsAreNumbered'
  BY <1>0, <1>1, <1>2, <1>3 DEF OtpInv, PasswordsAreNumbered, Verifying
<1>10. SendsAreCounted'
  <2>1. recent <= sends + died + 1
    BY <1>2 DEF OtpInv, SendsAreCounted
  <2>2. recent <= sends + 1 + died /\ recent <= SendLimit + died
    BY <1>4, <1>5, <2>1
  <2>3. \A v \in Workers : work'[v].at \notin {"generated", "stored"}
    BY <1>1, <1>3, <1>4 DEF Sending
  <2> QED
    BY <1>2, <1>3, <1>4, <1>5, <2>2, <2>3 DEF SendsAreCounted, SendsAreLimited
<1>11. SendsLapse' /\ AttemptsLapse'
  BY <1>1, <1>2, <1>3 DEF OtpInv, SendsLapse, AttemptsLapse
<1>12. TriesAreCounted'
  BY <1>1, <1>2, <1>3 DEF OtpInv, TriesAreCounted
<1>13. ForgottenAreFew'
  BY <1>2, <1>3, ForgottenKept
<1> QED
  BY <1>3, <1>6, <1>7, <1>8, <1>9, <1>10, <1>11, <1>12, <1>13 DEF OtpInv

(* OtpInv is kept when it gives the count a time to live. *)
LEMMA LapseSendsInductive ==
  ASSUME OtpInv, NEW w \in Workers, LapseSends(w), UNCHANGED smsVars PROVE OtpInv'
<1>0. inbox' = inbox
  BY DEF smsVars
<1>1. /\ work[w].at = "metered" /\ work[w] # Rest
      /\ generated > 0 /\ inbox[generated] = 0 /\ generated \in 1 .. MaxOtps
      /\ \A v \in Workers \ {w} : work[v].at \notin Sending
      /\ sends \in Nat /\ died \in Nat
  BY OtpFacts DEF LapseSends, Rest, OtpInv, PasswordsAreNumbered, SendersDiffer, Sending
<1>2. PICK g \in 1 .. MaxOtps : g = generated
  BY <1>1
<1> DEFINE t == [at |-> "dialing", text |-> g, then |-> Rest]
<1>3. t \in OtpTask /\ t.at = "dialing" /\ t.text = g
  BY OtpFacts DEF OtpTask
<1>4. /\ Continue(w, t) /\ lapsing' = IF sends > 0 THEN lapsing \cup {"sends"} ELSE lapsing
      /\ UNCHANGED <<otp, sends, attempts, older, generated, recent, wrong, forgotten, logins, known>>
  BY <1>2 DEF LapseSends
<1> HIDE DEF t
<1>5. /\ WorkTypeOK' /\ Alone' /\ Typed(OtpTask)'
      /\ work'[w] = t /\ \A v \in Workers \ {w} : work'[v] = work[v]
      /\ raced' = raced /\ died' = died
  BY <1>1, <1>3, <1>4, OtpFacts, TaskContinues
<1>6. CallsAreHonest'
  BY <1>1, <1>2, <1>3, <1>5, OtpFacts, SmsQuietStep DEF Calling, Sending
<1>7. OtpTypeOK'
  <2>1. lapsing' \subseteq {"sends", "attempts"}
    BY <1>4, OtpFacts
  <2> QED
    BY <1>4, <1>5, <1>6, <2>1 DEF OtpInv, OtpTypeOK, CallsAreHonest
<1>8. SendersDiffer'
  BY <1>1, <1>5 DEF SendersDiffer
<1>9. PasswordsAreNumbered'
  BY <1>0, <1>1, <1>2, <1>3, <1>4, <1>5 DEF OtpInv, PasswordsAreNumbered, Verifying
<1>10. (\E v \in Workers : work'[v].at = "stored") <=> \E v \in Workers : work[v].at = "stored"
  BY <1>1, <1>3, <1>5
<1>11. SendsAreCounted'
  BY <1>3, <1>4, <1>5, <1>10 DEF OtpInv, SendsAreCounted, SendsAreLimited
<1>12. SendsLapse' /\ AttemptsLapse'
  BY <1>1, <1>4, <1>5 DEF OtpInv, SendsLapse, AttemptsLapse
<1>13. TriesAreCounted'
  BY <1>3, <1>4, <1>5 DEF OtpInv, TriesAreCounted
<1>14. ForgottenAreFew'
  BY <1>1, <1>4, <1>5, ForgottenKept
<1> QED
  BY <1>5, <1>6, <1>7, <1>8, <1>9, <1>11, <1>12, <1>13, <1>14 DEF OtpInv

(* OtpInv is kept when verify_otp has read the password. *)
LEMMA BeginVerifyOtpInductive ==
  ASSUME OtpInv, NEW w \in Workers, NEW n \in 0 .. MaxOtps, BeginVerifyOtp(w, n), UNCHANGED smsVars
  PROVE  OtpInv'
<1>1. /\ otp \in 1 .. MaxOtps /\ otp <= generated
      /\ UNCHANGED <<otp, sends, attempts, lapsing, older, generated, recent, wrong, forgotten, logins, known>>
  BY OtpFacts DEF BeginVerifyOtp, otpKeys, OtpInv, PasswordsAreNumbered
<1>2. PICK s \in 1 .. MaxOtps : s = otp
  BY <1>1
<1> DEFINE t == [at |-> "read", typed |-> n, seen |-> s]
<1>3. t \in OtpTask /\ t.at = "read" /\ t.seen = s
  BY DEF OtpTask
<1>4. Begin(w, t)
  BY <1>2 DEF BeginVerifyOtp
<1> HIDE DEF t
<1>5. /\ WorkTypeOK' /\ Alone' /\ Typed(OtpTask)'
      /\ work[w] = Rest /\ work'[w] = t /\ \A v \in Workers \ {w} : work'[v] = work[v]
      /\ ~raced' => ~raced /\ \A v \in Workers : work[v] = Rest
      /\ died' = died
  BY <1>3, <1>4, OtpFacts, TaskBegins
<1>6. work[w].at = "rest"
  BY <1>5, OtpFacts, OtpShapes
<1>7. CallsAreHonest' /\ SendersDiffer' /\ PasswordsAreNumbered' /\ SendsAreCounted' /\ SendsLapse'
  BY <1>1, <1>2, <1>3, <1>5, <1>6, NoSendHolds DEF Sending
<1>8. OtpTypeOK'
  BY <1>1, <1>5, <1>7 DEF OtpInv, OtpTypeOK, CallsAreHonest
<1>9. AttemptsLapse'
  BY <1>1, <1>5, <1>6 DEF OtpInv, AttemptsLapse
<1>10. TriesAreCounted'
  BY <1>1, <1>2, <1>3, <1>5 DEF OtpInv, TriesAreCounted
<1>11. ForgottenAreFew'
  BY <1>1, <1>5, <1>6, ForgottenKept
<1> QED
  BY <1>5, <1>7, <1>8, <1>9, <1>10, <1>11 DEF OtpInv

(* OtpInv is kept when it has read the attempts. *)
LEMMA CheckAttemptsInductive ==
  ASSUME OtpInv, NEW w \in Workers, CheckAttempts(w), UNCHANGED smsVars PROVE OtpInv'
<1>1. /\ work[w].at = "read" /\ work[w] # Rest /\ work[w].seen \in 1 .. MaxOtps
      /\ UNCHANGED <<otp, sends, attempts, lapsing, older, generated, recent, wrong, forgotten, logins, known>>
  BY OtpFacts, OtpShapes DEF CheckAttempts, otpKeys, Rest
<1>2. PICK s \in 1 .. MaxOtps : s = work[w].seen
  BY <1>1
<1>3. PICK a \in {"barred", "right", "wrong"} :
        /\ Continue(w, [at |-> a, seen |-> s])
        /\ a = "wrong" => ~(attempts >= MaxAttempts)
  <2>1. Continue(w, [at |-> IF attempts >= MaxAttempts THEN "barred"
                            ELSE IF work[w].typed = work[w].seen THEN "right" ELSE "wrong",
                     seen |-> s])
    BY <1>2 DEF CheckAttempts
  <2>2. CASE attempts >= MaxAttempts
    BY <2>1, <2>2
  <2>3. CASE ~(attempts >= MaxAttempts)
    BY <2>1, <2>3
  <2> QED
    BY <2>2, <2>3
<1> DEFINE t == [at |-> a, seen |-> s]
<1>4. t \in OtpTask /\ t.at = a /\ t.seen = s
  BY <1>3 DEF OtpTask
<1> HIDE DEF t
<1>5. /\ WorkTypeOK' /\ Alone' /\ Typed(OtpTask)'
      /\ work'[w] = t /\ \A v \in Workers \ {w} : work'[v] = work[v]
      /\ ~raced => \A v \in Workers \ {w} : work[v] = Rest
      /\ raced' = raced /\ died' = died
  BY <1>1, <1>3, <1>4, OtpFacts, TaskContinues DEF t
<1>6. s <= generated
  BY <1>1, <1>2 DEF OtpInv, PasswordsAreNumbered, Verifying
<1>7. CallsAreHonest' /\ SendersDiffer' /\ PasswordsAreNumbered' /\ SendsAreCounted' /\ SendsLapse'
  BY <1>1, <1>3, <1>4, <1>5, <1>6, NoSendHolds DEF Sending
<1>8. OtpTypeOK'
  BY <1>1, <1>5, <1>7 DEF OtpInv, OtpTypeOK, CallsAreHonest
<1>9. AttemptsLapse'
  BY <1>1, <1>5 DEF OtpInv, AttemptsLapse
<1>10. TriesAreCounted'
  <2>1. a = "wrong" => attempts < MaxAttempts
    BY <1>3, OtpFacts
  <2> QED
    BY <1>1, <1>2, <1>3, <1>4, <1>5, <2>1 DEF OtpInv, TriesAreCounted
<1>11. ForgottenAreFew'
  BY <1>1, <1>5, ForgottenKept
<1> QED
  BY <1>5, <1>7, <1>8, <1>9, <1>10, <1>11 DEF OtpInv

(* OtpInv is kept when it bars. *)
LEMMA BarOtpInductive ==
  ASSUME OtpInv, NEW w \in Workers, BarOtp(w), UNCHANGED smsVars PROVE OtpInv'
<1>1. /\ work[w].at = "barred" /\ work[w] # Rest /\ otp' = 0 /\ Finish(w)
      /\ UNCHANGED <<sends, attempts, lapsing, older, generated, recent, wrong, forgotten, logins, known>>
  BY DEF BarOtp, Rest
<1>2. /\ WorkTypeOK' /\ Alone' /\ Typed(OtpTask)'
      /\ work'[w] = Rest /\ \A v \in Workers \ {w} : work'[v] = work[v]
      /\ ~raced => \A v \in Workers : work'[v] = Rest
      /\ raced' = raced /\ died' = died
  BY <1>1, OtpFacts, TaskFinishes
<1>3. Rest.at = "rest"
  BY DEF Rest
<1>4. CallsAreHonest' /\ SendersDiffer' /\ PasswordsAreNumbered' /\ SendsAreCounted' /\ SendsLapse'
  BY <1>1, <1>2, <1>3, NoSendHolds DEF Sending, Verifying
<1>5. OtpTypeOK'
  BY <1>1, <1>2, <1>4, OtpFacts DEF OtpInv, OtpTypeOK, CallsAreHonest
<1>6. AttemptsLapse'
  BY <1>1, <1>2 DEF OtpInv, AttemptsLapse
<1>7. TriesAreCounted'
  BY <1>1, <1>2, <1>3 DEF OtpInv, TriesAreCounted
<1>8. ForgottenAreFew'
  BY <1>1, <1>2, ForgottenKept
<1> QED
  BY <1>2, <1>4, <1>5, <1>6, <1>7, <1>8 DEF OtpInv

(* OtpInv is kept when it counts a wrong try. *)
LEMMA CountWrongInductive ==
  ASSUME OtpInv, NEW w \in Workers, CountWrong(w), UNCHANGED smsVars PROVE OtpInv'
<1> DEFINE t == [at |-> "tried"]
<1>1. t \in OtpTask /\ t.at = "tried"
  BY DEF OtpTask
<1>2. /\ work[w].at = "wrong" /\ work[w] # Rest /\ Continue(w, t) /\ attempts' = attempts + 1
      /\ work[w].seen \in 1 .. MaxOtps
      /\ wrong' = IF otp = work[w].seen THEN wrong + 1 ELSE wrong
      /\ UNCHANGED <<otp, sends, lapsing, older, generated, recent, forgotten, logins, known>>
  BY OtpFacts, OtpShapes DEF CountWrong, Rest, Verifying
<1> HIDE DEF t
<1>3. /\ WorkTypeOK' /\ Alone' /\ Typed(OtpTask)'
      /\ work'[w] = t /\ \A v \in Workers \ {w} : work'[v] = work[v]
      /\ ~raced => \A v \in Workers \ {w} : work[v] = Rest
      /\ raced' = raced /\ died' = died
  BY <1>1, <1>2, OtpFacts, TaskContinues
<1>4. CallsAreHonest' /\ SendersDiffer' /\ PasswordsAreNumbered' /\ SendsAreCounted' /\ SendsLapse'
  BY <1>1, <1>2, <1>3, NoSendHolds DEF Sending, Verifying
<1>5. OtpTypeOK'
  <2>1. attempts' \in Nat /\ wrong' \in Nat
    BY <1>2, OtpFacts
  <2> QED
    BY <1>2, <1>3, <1>4, <2>1 DEF OtpInv, OtpTypeOK, CallsAreHonest
<1>6. AttemptsLapse'
  BY <1>1, <1>3 DEF AttemptsLapse
<1>7. TriesAreCounted'
  <2> SUFFICES ASSUME ~raced' PROVE TriesAreCounted'
    BY DEF TriesAreCounted
  <2>1. \A v \in Workers : work'[v] = t \/ work'[v] = Rest
    BY <1>3
  <2>2. attempts < MaxAttempts /\ wrong <= MaxAttempts + forgotten /\ (otp # 0 => wrong <= attempts + forgotten)
    BY <1>2, <1>3 DEF OtpInv, TriesAreCounted
  <2>3. wrong' <= MaxAttempts + forgotten /\ (otp # 0 => wrong' <= attempts + 1 + forgotten)
    <3>1. /\ attempts \in Nat /\ wrong \in Nat /\ forgotten \in Nat /\ MaxAttempts \in Nat
          /\ otp = work[w].seen => otp # 0
      BY <1>2, OtpFacts
    <3> QED
      BY <1>2, <2>2, <3>1
  <2>4. (otp # 0 => logins[otp] = 0) /\ \A n \in 1 .. MaxOtps : logins[n] <= 1
    BY <1>3 DEF OtpInv, TriesAreCounted
  <2> QED
    BY <1>1, <1>2, <2>1, <2>3, <2>4 DEF TriesAreCounted, Rest
<1>8. ForgottenAreFew'
  <2> SUFFICES ASSUME ~raced' PROVE ForgottenAreFew'
    BY DEF ForgottenAreFew
  <2>1. \A v \in Workers : work[v].at # "tried"
    BY <1>2, <1>3 DEF Rest
  <2>2. forgotten <= died + 1 /\ (otp # 0 /\ older => wrong <= died)
    BY <1>3, <2>1 DEF OtpInv, ForgottenAreFew
  <2>3. \E v \in Workers : work'[v].at = "tried"
    BY <1>1, <1>3
  <2>4. wrong \in Nat /\ died \in Nat
    BY OtpFacts
  <2>5. otp # 0 /\ older => wrong' <= died + 1
    BY <1>2, <2>2, <2>4
  <2> QED
    BY <1>2, <1>3, <2>2, <2>3, <2>5 DEF ForgottenAreFew
<1> QED
  BY <1>3, <1>4, <1>5, <1>6, <1>7, <1>8 DEF OtpInv

(* OtpInv is kept when it gives that count a time to live. *)
LEMMA LapseAttemptsInductive ==
  ASSUME OtpInv, NEW w \in Workers, LapseAttempts(w), UNCHANGED smsVars PROVE OtpInv'
<1>1. /\ work[w].at = "tried" /\ work[w] # Rest /\ Finish(w)
      /\ lapsing' = IF attempts > 0 THEN lapsing \cup {"attempts"} ELSE lapsing
      /\ older' = FALSE
      /\ UNCHANGED <<otp, sends, attempts, generated, recent, wrong, forgotten, logins, known>>
  BY DEF LapseAttempts, Rest
<1>2. /\ WorkTypeOK' /\ Alone' /\ Typed(OtpTask)'
      /\ work'[w] = Rest /\ \A v \in Workers \ {w} : work'[v] = work[v]
      /\ ~raced => \A v \in Workers : work'[v] = Rest
      /\ raced' = raced /\ died' = died
  BY <1>1, OtpFacts, TaskFinishes
<1>3. Rest.at = "rest"
  BY DEF Rest
<1>4. CallsAreHonest' /\ SendersDiffer' /\ PasswordsAreNumbered' /\ SendsAreCounted' /\ SendsLapse'
  BY <1>1, <1>2, <1>3, NoSendHolds DEF Sending, Verifying
<1>5. OtpTypeOK'
  <2>1. lapsing' \subseteq {"sends", "attempts"}
    BY <1>1, OtpFacts
  <2> QED
    BY <1>1, <1>2, <1>4, <2>1 DEF OtpInv, OtpTypeOK, CallsAreHonest
<1>6. AttemptsLapse'
  BY <1>1, <1>2 DEF OtpInv, AttemptsLapse
<1>7. TriesAreCounted'
  BY <1>1, <1>2, <1>3 DEF OtpInv, TriesAreCounted
<1>8. ForgottenAreFew'
  BY <1>1, <1>2, ForgottenKept
<1> QED
  BY <1>2, <1>4, <1>5, <1>6, <1>7, <1>8 DEF OtpInv

(* OtpInv is kept when it deletes the password. *)
LEMMA ClearOtpInductive ==
  ASSUME OtpInv, NEW w \in Workers, ClearOtp(w), UNCHANGED smsVars PROVE OtpInv'
<1>1. /\ work[w].at = "right" /\ work[w] # Rest /\ work[w].seen \in 1 .. MaxOtps
      /\ otp' = 0
      /\ UNCHANGED <<sends, attempts, lapsing, older, generated, recent, wrong, forgotten, logins, known>>
  BY OtpFacts, OtpShapes DEF ClearOtp, Rest, Verifying
<1>2. PICK s \in 1 .. MaxOtps : s = work[w].seen
  BY <1>1
<1> DEFINE t == [at |-> "cleared", seen |-> s]
<1>3. t \in OtpTask /\ t.at = "cleared" /\ t.seen = s
  BY DEF OtpTask
<1>4. Continue(w, t)
  BY <1>2 DEF ClearOtp
<1> HIDE DEF t
<1>5. /\ WorkTypeOK' /\ Alone' /\ Typed(OtpTask)'
      /\ work'[w] = t /\ \A v \in Workers \ {w} : work'[v] = work[v]
      /\ ~raced => \A v \in Workers \ {w} : work[v] = Rest
      /\ raced' = raced /\ died' = died
  BY <1>1, <1>3, <1>4, OtpFacts, TaskContinues
<1>6. s <= generated
  BY <1>1, <1>2 DEF OtpInv, PasswordsAreNumbered, Verifying
<1>7. CallsAreHonest' /\ SendersDiffer' /\ PasswordsAreNumbered' /\ SendsAreCounted' /\ SendsLapse'
  BY <1>1, <1>3, <1>5, <1>6, NoSendHolds DEF Sending
<1>8. OtpTypeOK'
  BY <1>1, <1>5, <1>7, OtpFacts DEF OtpInv, OtpTypeOK, CallsAreHonest
<1>9. AttemptsLapse'
  BY <1>1, <1>5 DEF OtpInv, AttemptsLapse
<1>10. TriesAreCounted'
  BY <1>1, <1>2, <1>3, <1>5 DEF OtpInv, TriesAreCounted, Rest
<1>11. ForgottenAreFew'
  BY <1>1, <1>5, ForgottenKept
<1> QED
  BY <1>5, <1>7, <1>8, <1>9, <1>10, <1>11 DEF OtpInv

(* OtpInv is kept when it deletes the attempts. *)
LEMMA ClearAttemptsInductive ==
  ASSUME OtpInv, NEW w \in Workers, ClearAttempts(w), UNCHANGED smsVars PROVE OtpInv'
<1>1. /\ work[w].at = "cleared" /\ work[w] # Rest /\ work[w].seen \in 1 .. MaxOtps
      /\ attempts' = 0 /\ lapsing' = lapsing \ {"attempts"} /\ older' = FALSE
      /\ UNCHANGED <<otp, sends, generated, recent, wrong, forgotten, logins, known>>
  BY OtpFacts, OtpShapes DEF ClearAttempts, Rest, Verifying
<1>2. PICK s \in 1 .. MaxOtps : s = work[w].seen
  BY <1>1
<1> DEFINE t == [at |-> "verified", seen |-> s]
<1>3. t \in OtpTask /\ t.at = "verified" /\ t.seen = s
  BY DEF OtpTask
<1>4. Continue(w, t)
  BY <1>2 DEF ClearAttempts
<1> HIDE DEF t
<1>5. /\ WorkTypeOK' /\ Alone' /\ Typed(OtpTask)'
      /\ work'[w] = t /\ \A v \in Workers \ {w} : work'[v] = work[v]
      /\ ~raced => \A v \in Workers \ {w} : work[v] = Rest
      /\ raced' = raced /\ died' = died
  BY <1>1, <1>3, <1>4, OtpFacts, TaskContinues
<1>6. s <= generated
  BY <1>1, <1>2 DEF OtpInv, PasswordsAreNumbered, Verifying
<1>7. CallsAreHonest' /\ SendersDiffer' /\ PasswordsAreNumbered' /\ SendsAreCounted' /\ SendsLapse'
  BY <1>1, <1>3, <1>5, <1>6, NoSendHolds DEF Sending
<1>8. OtpTypeOK'
  BY <1>1, <1>5, <1>7, OtpFacts DEF OtpInv, OtpTypeOK, CallsAreHonest
<1>9. AttemptsLapse'
  BY <1>1 DEF AttemptsLapse
<1>10. TriesAreCounted'
  BY <1>1, <1>2, <1>3, <1>5 DEF OtpInv, TriesAreCounted, Rest
<1>11. ForgottenAreFew'
  BY <1>1, <1>5, ForgottenKept
<1> QED
  BY <1>5, <1>7, <1>8, <1>9, <1>10, <1>11 DEF OtpInv

(* The login is counted for a password that is gone by then.                  *)
LEMMA LogInHolds ==
  ASSUME OtpInv, NEW w \in Workers, work[w].at \in {"verified", "new"}, NEW s \in 1 .. MaxOtps,
         s = work[w].seen, Finish(w),
         logins' \in {logins, [logins EXCEPT ![s] = @ + 1]}, known' \in BOOLEAN,
         UNCHANGED <<otp, sends, attempts, lapsing, older, generated, recent, wrong, forgotten, smsVars>>
  PROVE  OtpInv'
<1>1. work[w] # Rest
  BY DEF Rest
<1>2. /\ WorkTypeOK' /\ Alone' /\ Typed(OtpTask)'
      /\ work'[w] = Rest /\ \A v \in Workers \ {w} : work'[v] = work[v]
      /\ ~raced => \A v \in Workers : work'[v] = Rest
      /\ raced' = raced /\ died' = died
  BY <1>1, OtpFacts, TaskFinishes
<1>3. Rest.at = "rest"
  BY DEF Rest
<1>4. s <= generated
  BY DEF OtpInv, PasswordsAreNumbered, Verifying
<1>5. /\ logins \in [1 .. MaxOtps -> Nat] /\ logins' \in [1 .. MaxOtps -> Nat]
      /\ \A n \in 1 .. MaxOtps \ {s} : logins'[n] = logins[n]
      /\ logins'[s] \in {logins[s], logins[s] + 1}
  <2>1. logins \in [1 .. MaxOtps -> Nat]
    BY OtpFacts
  <2>2. CASE logins' = logins
    BY <2>1, <2>2
  <2>3. CASE logins' = [logins EXCEPT ![s] = @ + 1]
    BY <2>1, <2>3
  <2> QED
    BY <2>2, <2>3
<1>6. \A n \in 1 .. MaxOtps : logins'[n] # logins[n] => n <= generated
  BY <1>4, <1>5
<1>7. CallsAreHonest' /\ SendersDiffer' /\ PasswordsAreNumbered' /\ SendsAreCounted' /\ SendsLapse'
  BY <1>2, <1>3, <1>6, NoSendHolds DEF Sending, Verifying
<1>8. OtpTypeOK'
  BY <1>2, <1>5, <1>7, OtpFacts DEF OtpInv, OtpTypeOK, CallsAreHonest
<1>9. AttemptsLapse'
  BY <1>2 DEF OtpInv, AttemptsLapse
<1>10. TriesAreCounted'
  <2> SUFFICES ASSUME ~raced' PROVE TriesAreCounted'
    BY DEF TriesAreCounted
  <2>1. \A v \in Workers : work'[v].at = "rest"
    BY <1>2, <1>3
  <2>2. otp = 0 /\ logins[s] = 0 /\ wrong <= MaxAttempts + forgotten /\ \A n \in 1 .. MaxOtps : logins[n] <= 1
    BY <1>2 DEF OtpInv, TriesAreCounted
  <2>3. \A n \in 1 .. MaxOtps : logins'[n] <= 1
    BY <1>5, <2>2
  <2> QED
    BY <2>1, <2>2, <2>3 DEF TriesAreCounted
<1>11. ForgottenAreFew'
  BY <1>2, ForgottenKept
<1> QED
  BY <1>2, <1>7, <1>8, <1>9, <1>10, <1>11 DEF OtpInv

(* OtpInv is kept when the login has looked for the user. *)
LEMMA FindUserInductive ==
  ASSUME OtpInv, NEW w \in Workers, FindUser(w), UNCHANGED smsVars PROVE OtpInv'
<1>1. /\ work[w].at = "verified" /\ work[w] # Rest /\ work[w].seen \in 1 .. MaxOtps
      /\ UNCHANGED <<otp, sends, attempts, lapsing, older, generated, recent, wrong, forgotten, known>>
  BY OtpFacts, OtpShapes DEF FindUser, Rest, Verifying
<1>2. PICK s \in 1 .. MaxOtps : s = work[w].seen
  BY <1>1
<1>3. CASE known
  <2>1. logins' = [logins EXCEPT ![s] = @ + 1] /\ Finish(w)
    BY <1>2, <1>3 DEF FindUser
  <2>2. known' \in BOOLEAN
    BY <1>1, OtpFacts
  <2> QED
    BY <1>1, <1>2, <2>1, <2>2, LogInHolds
<1>4. CASE ~known
  <2> DEFINE t == [at |-> "new", seen |-> s]
  <2>1. t \in OtpTask /\ t.at = "new" /\ t.seen = s
    BY DEF OtpTask
  <2>2. Continue(w, t) /\ logins' = logins
    BY <1>2, <1>4 DEF FindUser
  <2> HIDE DEF t
  <2>3. /\ WorkTypeOK' /\ Alone' /\ Typed(OtpTask)'
        /\ work'[w] = t /\ \A v \in Workers \ {w} : work'[v] = work[v]
        /\ ~raced => \A v \in Workers \ {w} : work[v] = Rest
        /\ raced' = raced /\ died' = died
    BY <1>1, <2>1, <2>2, OtpFacts, TaskContinues
  <2>4. s <= generated
    BY <1>1, <1>2 DEF OtpInv, PasswordsAreNumbered, Verifying
  <2>5. CallsAreHonest' /\ SendersDiffer' /\ PasswordsAreNumbered' /\ SendsAreCounted' /\ SendsLapse'
    BY <1>1, <2>1, <2>2, <2>3, <2>4, NoSendHolds DEF Sending
  <2>6. OtpTypeOK'
    BY <1>1, <2>2, <2>3, <2>5 DEF OtpInv, OtpTypeOK, CallsAreHonest
  <2>7. AttemptsLapse'
    BY <1>1, <2>3 DEF OtpInv, AttemptsLapse
  <2>8. TriesAreCounted'
    BY <1>1, <1>2, <2>1, <2>2, <2>3 DEF OtpInv, TriesAreCounted
  <2>9. ForgottenAreFew'
    BY <1>1, <2>3, ForgottenKept
  <2> QED
    BY <2>3, <2>5, <2>6, <2>7, <2>8, <2>9 DEF OtpInv
<1> QED
  BY <1>3, <1>4

(* OtpInv is kept when the login registers a user. *)
LEMMA RegisterUserInductive ==
  ASSUME OtpInv, NEW w \in Workers, RegisterUser(w), UNCHANGED smsVars PROVE OtpInv'
<1>1. /\ work[w].at = "new" /\ work[w].seen \in 1 .. MaxOtps /\ Finish(w)
      /\ UNCHANGED <<otp, sends, attempts, lapsing, older, generated, recent, wrong, forgotten>>
  BY OtpFacts, OtpShapes DEF RegisterUser, Verifying
<1>2. PICK s \in 1 .. MaxOtps : s = work[w].seen
  BY <1>1
<1>3. known' \in BOOLEAN
  BY DEF RegisterUser
<1>4. logins' \in {logins, [logins EXCEPT ![s] = @ + 1]}
  BY <1>2 DEF RegisterUser
<1> QED
  BY <1>1, <1>2, <1>3, <1>4, LogInHolds

(* OtpInv is kept when a request dies. *)
LEMMA OtpDieInductive ==
  ASSUME OtpInv, NEW w \in Workers, Die(w), UNCHANGED otpKeys, UNCHANGED smsVars PROVE OtpInv'
<1>1. UNCHANGED <<otp, sends, attempts, lapsing, older, generated, recent, wrong, forgotten, logins, known>>
  BY DEF otpKeys
<1>2. /\ WorkTypeOK' /\ Alone' /\ Typed(OtpTask)'
      /\ work'[w] = Rest /\ \A v \in Workers \ {w} : work'[v] = work[v]
      /\ ~raced => \A v \in Workers : work'[v] = Rest
      /\ raced' = raced /\ died' = died + 1
  BY OtpFacts, TaskDies
<1>3. Rest.at = "rest"
  BY DEF Rest
<1>4. CallsAreHonest' /\ SendersDiffer' /\ PasswordsAreNumbered' /\ SendsAreCounted' /\ SendsLapse'
  BY <1>1, <1>2, <1>3, NoSendHolds DEF Sending, Verifying
<1>5. OtpTypeOK'
  BY <1>1, <1>2, <1>4 DEF OtpInv, OtpTypeOK, CallsAreHonest
<1>6. AttemptsLapse'
  BY <1>2, OtpFacts DEF AttemptsLapse
<1>7. TriesAreCounted'
  BY <1>1, <1>2, <1>3 DEF OtpInv, TriesAreCounted
<1>8. ForgottenAreFew'
  BY <1>1, <1>2, ForgottenKept
<1> QED
  BY <1>2, <1>4, <1>5, <1>6, <1>7, <1>8 DEF OtpInv

(* A key that runs out.                                                       *)
LEMMA ExpiryHolds ==
  ASSUME OtpInv, UNCHANGED smsVars, ExpireOtp \/ ExpireSends \/ ExpireAttempts PROVE OtpInv'
<1>1. UNCHANGED <<generated, logins, known, workVars>> /\ inbox' = inbox
  BY DEF ExpireOtp, ExpireSends, ExpireAttempts, smsVars
<1>2. WorkTypeOK' /\ Alone' /\ Typed(OtpTask)' /\ UNCHANGED <<work, begun, raced, died>>
  BY <1>1, OtpFacts, NoRequest
<1>3. CallsAreHonest'
  BY <1>2, OtpFacts, SmsUntouched
<1>4. SendersDiffer'
  BY <1>2 DEF OtpInv, SendersDiffer
<1>5. /\ otp' \in {0, otp} /\ sends' \in {0, sends} /\ attempts' \in {0, attempts}
      /\ recent' \in {0, recent} /\ wrong' = wrong /\ lapsing' \subseteq lapsing
      /\ forgotten' \in {forgotten, wrong} /\ older' \in {older, FALSE}
      /\ older' => "attempts" \in lapsing'
  <2>1. older \in BOOLEAN /\ (older => "attempts" \in lapsing)
    BY OtpFacts
  <2>2. CASE ExpireOtp
    BY <2>1, <2>2 DEF ExpireOtp
  <2>3. CASE ExpireSends
    BY <2>1, <2>3 DEF ExpireSends
  <2>4. CASE ExpireAttempts
    BY <2>1, <2>4 DEF ExpireAttempts
  <2> QED
    BY <2>2, <2>3, <2>4
<1>6. OtpTypeOK'
  <2>1. older' \in BOOLEAN /\ forgotten' \in Nat /\ wrong' \in Nat
    BY <1>5, OtpFacts
  <2> QED
    BY <1>1, <1>2, <1>3, <1>5, <2>1, OtpFacts DEF OtpInv, OtpTypeOK, CallsAreHonest
<1>7. PasswordsAreNumbered'
  <2>1. otp' <= generated
    BY <1>5, OtpFacts DEF OtpInv, PasswordsAreNumbered
  <2> QED
    BY <1>1, <1>2, <2>1 DEF OtpInv, PasswordsAreNumbered
<1>8. SendsAreCounted'
  <2>1. CASE sends' = sends /\ recent' = recent
    BY <1>1, <1>2, <2>1 DEF OtpInv, SendsAreCounted, SendsAreLimited
  <2>2. CASE sends' = 0 /\ recent' = 0
    BY <1>1, <1>2, <2>2, OtpFacts DEF OtpInv, SendsAreCounted, SendsAreLimited
  <2> QED
    BY <2>1, <2>2 DEF ExpireOtp, ExpireSends, ExpireAttempts
<1>9. SendsLapse' /\ AttemptsLapse'
  <2>1. sends' = 0 \/ (sends' = sends /\ ("sends" \in lapsing => "sends" \in lapsing'))
    BY DEF ExpireOtp, ExpireSends, ExpireAttempts
  <2>2. attempts' = 0 \/ (attempts' = attempts /\ ("attempts" \in lapsing => "attempts" \in lapsing'))
    BY DEF ExpireOtp, ExpireSends, ExpireAttempts
  <2> QED
    BY <1>2, <2>1, <2>2 DEF OtpInv, SendsLapse, AttemptsLapse
<1>10. TriesAreCounted'
  <2> SUFFICES ASSUME ~raced' PROVE TriesAreCounted'
    BY DEF TriesAreCounted
  <2>1. ~raced /\ raced' = raced
    BY <1>2
  <2>2. \/ attempts' = attempts /\ forgotten' = forgotten
        \/ attempts' = 0 /\ otp' = otp /\ forgotten' = IF otp # 0 THEN wrong ELSE forgotten
    BY DEF ExpireOtp, ExpireSends, ExpireAttempts
  <2>3. attempts \in Nat /\ MaxAttempts \in Nat /\ wrong \in Nat /\ forgotten \in Nat /\ MaxAttempts > 0
    BY OtpFacts
  <2>4. /\ otp # 0 => wrong <= attempts + forgotten /\ logins[otp] = 0
        /\ wrong <= MaxAttempts + forgotten
        /\ \A n \in 1 .. MaxOtps : logins[n] <= 1
    BY <2>1 DEF OtpInv, TriesAreCounted
  <2>5. /\ otp' # 0 => wrong' <= attempts' + forgotten' /\ logins'[otp'] = 0
        /\ wrong' <= MaxAttempts + forgotten'
    <3>1. CASE attempts' = attempts /\ forgotten' = forgotten
      BY <1>1, <1>5, <2>3, <2>4, <3>1
    <3>2. CASE attempts' = 0 /\ otp' = otp /\ otp # 0 /\ forgotten' = wrong
      <4>1. wrong <= 0 + wrong /\ wrong <= MaxAttempts + wrong
        BY <2>3
      <4> QED
        BY <1>1, <1>5, <2>4, <3>2, <4>1
    <3>3. CASE attempts' = 0 /\ otp' = otp /\ otp = 0 /\ forgotten' = forgotten
      BY <1>5, <2>4, <3>3
    <3> QED
      BY <2>2, <3>1, <3>2, <3>3
  <2>6. ASSUME NEW v \in Workers
        PROVE  /\ work[v].at = "wrong" => attempts' < MaxAttempts
               /\ work[v].at \in {"cleared", "verified", "new"} => otp' = 0
               /\ work[v].at \in {"read", "right", "cleared", "verified", "new"}
                    => logins[work[v].seen] = 0
    BY <1>5, <2>1, <2>3 DEF OtpInv, TriesAreCounted
  <2> QED
    BY <1>1, <1>2, <1>5, <2>4, <2>5, <2>6 DEF TriesAreCounted
<1>11. ForgottenAreFew'
  <2> SUFFICES ASSUME ~raced' PROVE ForgottenAreFew'
    BY DEF ForgottenAreFew
  <2>1. ForgottenAreFew /\ ~raced
    BY <1>2 DEF OtpInv
  <2>2. CASE forgotten' = forgotten
    <3>1. otp' # 0 /\ older' => otp # 0 /\ older
      BY <1>5
    <3> QED
      BY <1>2, <1>5, <2>1, <2>2, <3>1 DEF ForgottenAreFew
  <2>3. CASE ExpireAttempts /\ otp # 0
    <3>1. older /\ older' = FALSE /\ forgotten' = wrong
      BY <2>3 DEF ExpireAttempts
    <3>2. wrong <= died + 1
      BY <2>1, <2>3, <3>1, OtpFacts DEF ForgottenAreFew
    <3> QED
      BY <1>2, <3>1, <3>2 DEF ForgottenAreFew
  <2> QED
    BY <2>2, <2>3 DEF ExpireOtp, ExpireSends, ExpireAttempts
<1> QED
  BY <1>2, <1>3, <1>4, <1>6, <1>7, <1>8, <1>9, <1>10, <1>11 DEF OtpInv

(* OtpInv is kept when the gateway takes or fails to take the message. *)
LEMMA OtpSmsInductive ==
  ASSUME OtpInv, NEW w \in Workers, SmsStep(w), UNCHANGED otpKeys PROVE OtpInv'
<1>1. /\ work[w].at \in {"dialing", "redialing"}
      /\ UNCHANGED <<otp, sends, attempts, lapsing, older, generated, recent, wrong, forgotten, logins, known>>
  BY DEF SmsStep, Skip, Dial, Redial, otpKeys
<1>2. work[w] \in [at : {"dialing", "redialing"}, text : Texts, then : {Rest}]
  BY <1>1, OtpFacts, OtpShapes
<1>3. PICK n \in Texts : work[w].text = n
  BY <1>2
<1>4. work[w].then = Rest
  BY <1>2
<1>5. PICK again : again = [at |-> "redialing", text |-> n, then |-> Rest]
  OBVIOUS
<1>6. again \in OtpTask /\ Rest.at = "rest" /\ again.at = "redialing" /\ again.text = n
  <2>1. Rest.at = "rest"
    BY DEF Rest
  <2>2. again \in [at : {"dialing", "redialing"}, text : Texts, then : {Rest}]
    BY <1>5
  <2> QED
    BY <1>5, <2>1, <2>2 DEF OtpTask
<1>7. /\ CallsAreHonest' /\ WorkTypeOK' /\ Alone' /\ Typed(OtpTask)'
      /\ work'[w] \in {Rest, again} /\ \A v \in Workers \ {w} : work'[v] = work[v]
      /\ \A k \in Texts \ {n} : inbox'[k] = inbox[k]
      /\ UNCHANGED <<raced, died>>
  <2>1. CallsAreHonest /\ WorkTypeOK /\ Alone /\ Typed(OtpTask)
    BY OtpFacts
  <2>2. Rest \in OtpTask \cup {Rest} /\ Rest.at \notin {"dialing", "redialing"}
    BY <1>6
  <2>3. PICK next : next = Rest
    OBVIOUS
  <2>4. PICK S : S = {next}
    OBVIOUS
  <2>5. /\ next \in OtpTask \cup {Rest} /\ work[w].then = next /\ next.at \notin {"dialing", "redialing"}
        /\ again = [at |-> "redialing", text |-> n, then |-> next]
        /\ work[w] \in [at : {"dialing", "redialing"}, text : Texts, then : S]
    BY <1>2, <1>4, <1>5, <2>2, <2>3, <2>4
  <2>6. /\ CallsAreHonest' /\ WorkTypeOK' /\ Alone' /\ Typed(OtpTask)'
        /\ work'[w] \in {next, again} /\ \A v \in Workers \ {w} : work'[v] = work[v]
        /\ \A k \in Texts \ {n} : inbox'[k] = inbox[k]
        /\ UNCHANGED <<raced, died>>
    BY <1>3, <1>5, <1>6, <2>1, <2>5, SmsStepHolds
  <2> QED
    BY <2>3, <2>6
<1>8. /\ generated > 0 /\ n = generated
      /\ \A v \in Workers \ {w} : work[v].at \notin Sending
  BY <1>1, <1>3 DEF OtpInv, PasswordsAreNumbered, SendersDiffer, Sending
<1>9. OtpTypeOK'
  BY <1>1, <1>7 DEF OtpInv, OtpTypeOK, CallsAreHonest
<1>10. SendersDiffer'
  BY <1>7, <1>8 DEF SendersDiffer
<1>11. \A v \in Workers : work'[v].at \in Sending =>
         v = w /\ work'[v] = again /\ work'[v].at \notin {"generated", "stored", "metered"}
  BY <1>6, <1>7, <1>8 DEF Sending
<1>12. PasswordsAreNumbered'
  <2>1. \A k \in 1 .. MaxOtps : k > generated => inbox'[k] = 0 /\ logins[k] = 0
    <3> SUFFICES ASSUME NEW k \in 1 .. MaxOtps, k > generated PROVE inbox'[k] = 0 /\ logins[k] = 0
      OBVIOUS
    <3>1. k \in Texts /\ k # n
      BY <1>8, OtpFacts
    <3>2. inbox[k] = 0 /\ logins[k] = 0
      BY DEF OtpInv, PasswordsAreNumbered
    <3> QED
      BY <1>7, <3>1, <3>2
  <2>2. ASSUME NEW v \in Workers, work'[v].at \in Verifying
        PROVE  work'[v].seen <= generated
    BY <1>6, <1>7, <2>2 DEF OtpInv, PasswordsAreNumbered, Verifying
  <2> QED
    BY <1>1, <1>6, <1>7, <1>8, <1>11, <2>1, <2>2 DEF OtpInv, PasswordsAreNumbered, Sending
<1>13. ~\E v \in Workers : work'[v].at \in {"stored", "metered"}
  BY <1>11 DEF Sending
<1>14. ~\E v \in Workers : work[v].at \in {"stored", "metered"}
  BY <1>1, <1>8 DEF Sending
<1>15. SendsAreCounted'
  <2>1. \A v \in Workers : work'[v].at \notin {"generated", "stored"}
    BY <1>11 DEF Sending
  <2> QED
    BY <1>1, <1>7, <1>13, <1>14, <2>1 DEF OtpInv, SendsAreCounted, SendsAreLimited
<1>16. SendsLapse' /\ AttemptsLapse'
  <2>1. \A v \in Workers : work[v].at = "tried" => work'[v].at = "tried"
    BY <1>1, <1>7
  <2> QED
    BY <1>1, <1>7, <1>14, <2>1 DEF OtpInv, SendsLapse, AttemptsLapse
<1>17. TriesAreCounted'
  BY <1>1, <1>6, <1>7 DEF OtpInv, TriesAreCounted
<1>18. ForgottenAreFew'
  BY <1>1, <1>7, ForgottenKept
<1> QED
  BY <1>7, <1>9, <1>10, <1>12, <1>15, <1>16, <1>17, <1>18 DEF OtpInv

(* OtpInv is inductive: every step keeps it. *)
LEMMA OtpNextInductive == ASSUME OtpInv, [OtpNext]_otpVars PROVE OtpInv'
<1>1. ASSUME UNCHANGED otpVars PROVE OtpInv'
  <2>1. /\ UNCHANGED smsVars /\ UNCHANGED workVars /\ inbox' = inbox
        /\ UNCHANGED <<otp, sends, attempts, lapsing, older, generated, recent, wrong, forgotten, logins, known>>
    BY <1>1 DEF otpVars, otpKeys, smsVars
  <2>2. WorkTypeOK' /\ Alone' /\ Typed(OtpTask)' /\ UNCHANGED <<work, begun, raced, died>>
    BY <2>1, OtpFacts, NoRequest
  <2>3. CallsAreHonest'
    BY <2>1, <2>2, OtpFacts, SmsUntouched
  <2>4. OtpTypeOK'
    BY <2>1, <2>2, <2>3 DEF OtpInv, OtpTypeOK, CallsAreHonest
  <2>5. SendersDiffer' /\ PasswordsAreNumbered' /\ SendsLapse' /\ AttemptsLapse' /\ TriesAreCounted'
    BY <2>1, <2>2 DEF OtpInv, SendersDiffer, PasswordsAreNumbered, SendsLapse, AttemptsLapse,
                      TriesAreCounted
  <2>6. SendsAreCounted' /\ ForgottenAreFew'
    BY <2>1, <2>2 DEF OtpInv, SendsAreCounted, SendsAreLimited, ForgottenAreFew
  <2> QED
    BY <2>2, <2>3, <2>4, <2>5, <2>6 DEF OtpInv
<1>2. ASSUME NEW w \in Workers, OtpStep(w), UNCHANGED smsVars PROVE OtpInv'
  BY <1>2, BeginSendInductive, StoreOtpInductive, CountSendInductive, LapseSendsInductive,
     BeginVerifyOtpInductive, CheckAttemptsInductive, BarOtpInductive, CountWrongInductive,
     LapseAttemptsInductive, ClearOtpInductive, ClearAttemptsInductive, FindUserInductive,
     RegisterUserInductive, OtpDieInductive DEF OtpStep
<1> QED
  BY <1>1, <1>2, ExpiryHolds, OtpSmsInductive DEF OtpNext

(* The invariant says what is claimed of the login. *)
LEMMA OtpInvSuffices == OtpInv => OtpTypeOK /\ LoginIsGuarded /\ SmsIsHonest
<1> SUFFICES ASSUME OtpInv PROVE LoginIsGuarded
  BY DEF OtpInv, CallsAreHonest
<1>1. SendsAreLimited
  BY DEF OtpInv, SendsAreCounted
<1>2. WrongTriesAreLimited /\ PasswordIsUsedOnce
  BY DEF OtpInv, TriesAreCounted, ForgottenAreFew, WrongTriesAreLimited, PasswordIsUsedOnce
<1>3. LockoutsEnd
  BY DEF OtpInv, SendsLapse, AttemptsLapse, LockoutsEnd
<1> QED
  BY <1>1, <1>2, <1>3 DEF LoginIsGuarded

(* For any limits and passwords, however requests interleave and die: a      *)
(* phone is sent SEND_LIMIT passwords a window at most, but for those whose  *)
(* request died uncounted; without overlap a password is tried wrongly       *)
(* MAX_ATTEMPTS times at most, but for one try and one with each request     *)
(* that died, and logs in once; a count that bars a phone runs out unless a  *)
(* request died (auth/otp_service.py:36-57, 104-120).                        *)
THEOREM LoginsAreSound == OtpSpec => [](OtpTypeOK /\ LoginIsGuarded /\ SmsIsHonest)
<1>1. OtpInit /\ SmsInit /\ WorkInit => OtpInv
  BY OtpInitInductive
<1>2. OtpInv /\ [OtpNext]_otpVars => OtpInv'
  BY OtpNextInductive
<1> QED
  BY <1>1, <1>2, OtpInvSuffices, PTL DEF OtpSpec

-----------------------------------------------------------------------------
(* Notifications. *)

(* The tasks of a notification that texted its user. *)
Told == [at : {"notified"}, user : Readers]

(* The tasks of an announcement with readers left to tell. *)
Spoken == [at : {"announcing"}, rest : SUBSET Readers]

(* The tasks of requests that notify. *)
NoticeTask ==
  [at : {"changed"}, user : Readers] \cup Told \cup Spoken
    \cup [at : {"dialing", "redialing"}, text : Texts, then : Told \cup Spoken]

(* A request that texted u and has neither committed her row nor given it up. *)
Owes(t, u) ==
  LET s == IF t.at \in {"dialing", "redialing"} THEN t.then ELSE t
  IN \/ s.at = "notified" /\ s.user = u
     \/ s.at = "announcing" /\ u \notin s.rest

(* The workers that texted u and have not finished with her row. *)
Pending(u) == {w \in Workers : Owes(work[w], u)}

(* Rows that u has, has had, or that were given up. *)
Shown(u) == notices[u] + read[u] + lost

(* Texts are rows, or will be. *)
TextsAreTallied ==
  \A u \in Readers :
    /\ Cardinality(Pending(u)) + Shown(u) <= reached[u]
    /\ died = 0 => Cardinality(Pending(u)) + Shown(u) = reached[u]

(* The inductive invariant of the notifications. *)
NoticeInv ==
  NoticesTypeOK /\ Alone /\ Typed(NoticeTask) /\ CallsAreHonest /\ TextsAreTallied

(* What a task of a notification is. *)
LEMMA NoticeShapes ==
  ASSUME Typed(NoticeTask), NEW w \in Workers
  PROVE  /\ work[w].at = "changed" => work[w].user \in Readers /\ work[w] # Rest
         /\ work[w].at = "notified" => work[w] \in Told /\ work[w].user \in Readers /\ work[w] # Rest
         /\ work[w].at = "announcing" =>
              work[w] \in Spoken /\ work[w].rest \in SUBSET Readers /\ work[w] # Rest
         /\ work[w].at \in {"dialing", "redialing"} =>
              work[w] \in [at : {"dialing", "redialing"}, text : Texts, then : Told \cup Spoken]
         /\ work[w] = Rest => work[w].at = "rest"
<1>1. Rest.at = "rest"
  BY DEF Rest
<1>2. work[w] \in NoticeTask \cup {Rest}
  BY DEF Typed
<1> QED
  BY <1>1, <1>2 DEF NoticeTask, Told, Spoken

(* NoticeInv holds at first. *)
LEMMA NoticeInitInductive == NoticesInit /\ SmsInit /\ WorkInit => NoticeInv
<1> SUFFICES ASSUME NoticesInit, SmsInit, WorkInit PROVE NoticeInv
  OBVIOUS
<1>1. WorkTypeOK /\ Alone /\ Typed(NoticeTask) /\ CallsAreHonest
  BY WorkInitHolds, SmsInitHolds
<1>2. SmsTypeOK
  BY <1>1 DEF CallsAreHonest
<1>3. notices \in [Readers -> Nat] /\ read = notices /\ reached = notices /\ lost = 0
      /\ \A u \in Readers : notices[u] = 0
  BY DEF NoticesInit
<1>4. NoticesTypeOK
  BY <1>1, <1>2, <1>3 DEF NoticesTypeOK
<1>5. TextsAreTallied
  <2> SUFFICES ASSUME NEW u \in Readers PROVE Cardinality(Pending(u)) + Shown(u) = reached[u]
    BY <1>3, FS_CardinalityType, FS_EmptySet DEF TextsAreTallied
  <2>1. Pending(u) = {}
    BY DEF Pending, Owes, WorkInit, Rest
  <2>2. Cardinality(Pending(u)) = 0
    BY <2>1, FS_EmptySet
  <2> QED
    BY <1>3, <2>2 DEF Shown
<1> QED
  BY <1>1, <1>4, <1>5 DEF NoticeInv

(* What a step of one request does to the tally of each user.                *)
LEMMA TallyChanges ==
  ASSUME NoticeInv, NoticesTypeOK', NEW w \in Workers, NEW t, work'[w] = t,
         \A v \in Workers \ {w} : work'[v] = work[v],
         \A u \in Readers :
           \/ died' = died /\ (Owes(t, u) <=> Owes(work[w], u))
                /\ Shown(u)' = Shown(u) /\ reached'[u] = reached[u]
           \/ died' = died /\ Owes(t, u) /\ ~Owes(work[w], u)
                /\ Shown(u)' = Shown(u) /\ reached'[u] = reached[u] + 1
           \/ died' = died /\ ~Owes(t, u) /\ Owes(work[w], u)
                /\ Shown(u)' = Shown(u) + 1 /\ reached'[u] = reached[u]
           \/ died' = died + 1 /\ ~Owes(t, u)
                /\ Shown(u)' = Shown(u) /\ reached'[u] = reached[u]
  PROVE  TextsAreTallied'
<1> SUFFICES ASSUME NEW u \in Readers
             PROVE  /\ Cardinality(Pending(u)') + Shown(u)' <= reached'[u]
                    /\ died' = 0 => Cardinality(Pending(u)') + Shown(u)' = reached'[u]
  BY DEF TextsAreTallied
<1> DEFINE P == Pending(u)
           Q == Pending(u)'
<1>1. P \in SUBSET Workers /\ Q \in SUBSET Workers
  BY DEF Pending
<1>2. \A v \in Workers \ {w} : v \in P <=> v \in Q
  BY DEF Pending
<1>3. (w \in P <=> Owes(work[w], u)) /\ (w \in Q <=> Owes(t, u))
  BY DEF Pending
<1>4. /\ Cardinality(P) \in Nat /\ Cardinality(Q) \in Nat
      /\ (w \in P <=> w \in Q) => Cardinality(Q) = Cardinality(P)
      /\ w \in P /\ w \notin Q => Cardinality(Q) = Cardinality(P) - 1
      /\ w \notin P /\ w \in Q => Cardinality(Q) = Cardinality(P) + 1
  <2> HIDE DEF P, Q
  <2> QED
    BY <1>1, <1>2, CountChanges, WorkersAssumption
<1>5. /\ Cardinality(P) + Shown(u) <= reached[u]
      /\ died = 0 => Cardinality(P) + Shown(u) = reached[u]
  BY DEF NoticeInv, TextsAreTallied
<1>6. Shown(u) \in Nat /\ reached[u] \in Nat /\ died \in Nat
  BY WorkerBounds DEF NoticeInv, NoticesTypeOK, WorkTypeOK, Shown
<1> HIDE DEF P, Q
<1>7. /\ Cardinality(Q) + Shown(u)' <= reached'[u]
      /\ died' = 0 => Cardinality(Q) + Shown(u)' = reached'[u]
  <2>1. CASE died' = died /\ (Owes(t, u) <=> Owes(work[w], u))
               /\ Shown(u)' = Shown(u) /\ reached'[u] = reached[u]
    BY <1>3, <1>4, <1>5, <1>6, <2>1
  <2>2. CASE died' = died /\ Owes(t, u) /\ ~Owes(work[w], u)
               /\ Shown(u)' = Shown(u) /\ reached'[u] = reached[u] + 1
    BY <1>3, <1>4, <1>5, <1>6, <2>2
  <2>3. CASE died' = died /\ ~Owes(t, u) /\ Owes(work[w], u)
               /\ Shown(u)' = Shown(u) + 1 /\ reached'[u] = reached[u]
    BY <1>3, <1>4, <1>5, <1>6, <2>3
  <2>4. CASE died' = died + 1 /\ ~Owes(t, u)
               /\ Shown(u)' = Shown(u) /\ reached'[u] = reached[u]
    BY <1>3, <1>4, <1>5, <1>6, <2>4
  <2> QED
    BY <2>1, <2>2, <2>3, <2>4
<1> QED
  BY <1>7 DEF Q

(* notify_user, with a text that nobody sent yet.                             *)
LEMMA NotifyHolds ==
  ASSUME NoticeInv, UNCHANGED smsVars, NEW w \in Workers, work[w] # Rest, NEW u \in Readers,
         NEW next \in Told \cup Spoken, Notify(w, u, next),
         \A x \in Readers : Owes(next, x) <=> Owes(work[w], x) \/ x = u,
         ~Owes(work[w], u)
  PROVE  NoticeInv'
<1>1. NoticesTypeOK /\ WorkTypeOK /\ Alone /\ Typed(NoticeTask) /\ CallsAreHonest
  BY DEF NoticeInv, NoticesTypeOK
<1>2. PICK n \in FreshTexts :
        Continue(w, [at |-> "dialing", text |-> n, then |-> next])
  BY DEF Notify
<1>3. /\ n \in Texts /\ inbox[n] = 0
      /\ \A v \in Workers : work[v].at \in {"dialing", "redialing"} => work[v].text # n
  BY <1>2 DEF FreshTexts, Waiting
<1> DEFINE t == [at |-> "dialing", text |-> n, then |-> next]
<1>4. t \in NoticeTask /\ t.at = "dialing" /\ t.text = n /\ t.then = next
  BY <1>3 DEF NoticeTask
<1> HIDE DEF t
<1>5. /\ WorkTypeOK' /\ Alone' /\ Typed(NoticeTask)'
      /\ work'[w] = t /\ \A v \in Workers \ {w} : work'[v] = work[v]
      /\ died' = died
  BY <1>1, <1>2, <1>4, TaskContinues DEF t
<1>6. CallsAreHonest'
  BY <1>1, <1>3, <1>4, <1>5, SmsQuietStep DEF Calling
<1>7. /\ reached' = [reached EXCEPT ![u] = @ + 1] /\ UNCHANGED <<notices, read, lost>>
  BY DEF Notify
<1>8. /\ reached \in [Readers -> Nat] /\ notices \in [Readers -> Nat] /\ read \in [Readers -> Nat]
      /\ lost \in Nat
  BY <1>1 DEF NoticesTypeOK
<1>9. /\ reached' \in [Readers -> Nat] /\ reached'[u] = reached[u] + 1
      /\ \A x \in Readers \ {u} : reached'[x] = reached[x]
  BY <1>7, <1>8
<1>10. NoticesTypeOK'
  BY <1>5, <1>6, <1>7, <1>8, <1>9 DEF NoticesTypeOK, CallsAreHonest
<1>11. \A x \in Readers : Owes(t, x) <=> Owes(next, x)
  <2>1. next.at \notin {"dialing", "redialing"}
    BY DEF Told, Spoken
  <2> QED
    BY <1>4, <2>1 DEF Owes
<1>12. \A x \in Readers : Shown(x)' = Shown(x)
  BY <1>7 DEF Shown
<1>13. ASSUME NEW x \in Readers
       PROVE  \/ died' = died /\ (Owes(t, x) <=> Owes(work[w], x))
                   /\ Shown(x)' = Shown(x) /\ reached'[x] = reached[x]
              \/ died' = died /\ Owes(t, x) /\ ~Owes(work[w], x)
                   /\ Shown(x)' = Shown(x) /\ reached'[x] = reached[x] + 1
  BY <1>5, <1>9, <1>11, <1>12
<1>14. TextsAreTallied'
  BY <1>5, <1>10, <1>13, TallyChanges
<1> QED
  BY <1>5, <1>6, <1>10, <1>14 DEF NoticeInv

(* A step that sends nothing.                                                *)
LEMMA NoticeQuietStep ==
  ASSUME NoticeInv, UNCHANGED smsVars, NEW w \in Workers, NEW t, work'[w] = t,
         WorkTypeOK', Alone', Typed(NoticeTask)',
         \A v \in Workers \ {w} : work'[v] = work[v],
         t.at \notin {"dialing", "redialing"},
         notices' \in [Readers -> Nat], read' = read, reached' = reached, lost' \in Nat,
         \A u \in Readers :
           \/ died' = died /\ (Owes(t, u) <=> Owes(work[w], u)) /\ Shown(u)' = Shown(u)
           \/ died' = died /\ ~Owes(t, u) /\ Owes(work[w], u) /\ Shown(u)' = Shown(u) + 1
           \/ died' = died + 1 /\ ~Owes(t, u) /\ Shown(u)' = Shown(u)
  PROVE  NoticeInv'
<1>1. NoticesTypeOK /\ CallsAreHonest
  BY DEF NoticeInv
<1>2. CallsAreHonest'
  BY <1>1, SmsQuietStep
<1>3. NoticesTypeOK'
  BY <1>1, <1>2 DEF NoticesTypeOK, CallsAreHonest
<1>4. TextsAreTallied'
  BY <1>3, TallyChanges
<1> QED
  BY <1>2, <1>3, <1>4 DEF NoticeInv

(* NoticeInv is kept when a message goes out or fails. *)
LEMMA NoticeSmsInductive ==
  ASSUME NoticeInv, NEW w \in Workers, SmsStep(w), UNCHANGED noticeRows
  PROVE  NoticeInv'
<1>1. NoticesTypeOK /\ WorkTypeOK /\ Alone /\ Typed(NoticeTask) /\ CallsAreHonest
  BY DEF NoticeInv, NoticesTypeOK
<1>2. work[w].at \in {"dialing", "redialing"}
  BY DEF SmsStep, Skip, Dial, Redial
<1>3. work[w] \in [at : {"dialing", "redialing"}, text : Texts, then : Told \cup Spoken]
  BY <1>1, <1>2, NoticeShapes
<1>4. PICK n \in Texts : work[w].text = n
  BY <1>3
<1>5. PICK next \in Told \cup Spoken : work[w].then = next
  BY <1>3
<1>6. PICK again : again = [at |-> "redialing", text |-> n, then |-> next]
  OBVIOUS
<1>7. /\ again \in NoticeTask /\ next \in NoticeTask \cup {Rest}
      /\ next.at \notin {"dialing", "redialing"} /\ again.at = "redialing" /\ again.then = next
  BY <1>6 DEF NoticeTask, Told, Spoken
<1>8. /\ CallsAreHonest' /\ WorkTypeOK' /\ Alone' /\ Typed(NoticeTask)'
      /\ work'[w] \in {next, again} /\ \A v \in Workers \ {w} : work'[v] = work[v]
      /\ died' = died
  BY <1>1, <1>3, <1>4, <1>5, <1>6, <1>7, SmsStepHolds
<1>9. \A u \in Readers :
        /\ Owes(work[w], u) <=> Owes(next, u)
        /\ Owes(again, u) <=> Owes(next, u)
  BY <1>2, <1>5, <1>7 DEF Owes
<1>10. \A u \in Readers : Shown(u)' = Shown(u) /\ reached'[u] = reached[u]
  BY DEF Shown, noticeRows
<1>11. NoticesTypeOK'
  BY <1>1, <1>8 DEF NoticesTypeOK, CallsAreHonest, noticeRows
<1>12. PICK t \in {next, again} : work'[w] = t
  BY <1>8
<1>13. \A u \in Readers : Owes(t, u) <=> Owes(work[w], u)
  BY <1>9, <1>12
<1>14. TextsAreTallied'
  BY <1>8, <1>10, <1>11, <1>12, <1>13, TallyChanges
<1> QED
  BY <1>8, <1>11, <1>14 DEF NoticeInv

(* NoticeInv is inductive: every step keeps it. *)
LEMMA NoticeNextInductive == ASSUME NoticeInv, [NoticesNext]_noticeVars PROVE NoticeInv'
<1>1. NoticesTypeOK /\ WorkTypeOK /\ Alone /\ Typed(NoticeTask) /\ CallsAreHonest
  BY DEF NoticeInv, NoticesTypeOK
<1>2. /\ notices \in [Readers -> Nat] /\ read \in [Readers -> Nat] /\ reached \in [Readers -> Nat]
      /\ lost \in Nat
  BY <1>1 DEF NoticesTypeOK
<1>3. Rest.at = "rest" /\ \A u : ~Owes(Rest, u)
  BY DEF Rest, Owes
<1>4. ASSUME NEW w \in Workers, NEW u \in Readers, BeginNotice(w, u), UNCHANGED smsVars
      PROVE  NoticeInv'
  <2> DEFINE t == [at |-> "changed", user |-> u]
  <2>1. t \in NoticeTask /\ t.at = "changed"
    BY DEF NoticeTask
  <2>2. Begin(w, t) /\ UNCHANGED noticeRows
    BY <1>4 DEF BeginNotice
  <2>3. \A x \in Readers : ~Owes(t, x)
    BY <2>1 DEF Owes
  <2> HIDE DEF t
  <2>4. /\ WorkTypeOK' /\ Alone' /\ Typed(NoticeTask)'
        /\ work[w] = Rest /\ work'[w] = t /\ \A v \in Workers \ {w} : work'[v] = work[v]
        /\ died' = died
    BY <1>1, <2>1, <2>2, TaskBegins
  <2>5. \A x \in Readers : died' = died /\ (Owes(t, x) <=> Owes(work[w], x)) /\ Shown(x)' = Shown(x)
    BY <1>3, <2>2, <2>3, <2>4 DEF noticeRows, Shown
  <2> QED
    BY <1>2, <1>4, <2>1, <2>2, <2>4, <2>5, NoticeQuietStep DEF noticeRows
<1>5. ASSUME NEW w \in Workers, SendNotice(w), UNCHANGED smsVars PROVE NoticeInv'
  <2>1. PICK u \in Readers : work[w].user = u
    BY <1>1, <1>5, NoticeShapes DEF SendNotice
  <2>2. work[w].at = "changed" /\ work[w] # Rest
    BY <1>1, <1>5, NoticeShapes DEF SendNotice
  <2> DEFINE next == [at |-> "notified", user |-> u]
  <2>3. next \in Told \cup Spoken /\ next.at = "notified" /\ next.user = u
    BY DEF Told
  <2>4. Notify(w, u, next)
    BY <1>5, <2>1 DEF SendNotice
  <2> HIDE DEF next
  <2>5. \A x \in Readers : ~Owes(work[w], x) /\ (Owes(next, x) <=> x = u)
    BY <2>2, <2>3 DEF Owes
  <2> QED
    BY <1>5, <2>2, <2>3, <2>4, <2>5, NotifyHolds
<1>6. ASSUME NEW w \in Workers, CommitNotice(w), UNCHANGED smsVars PROVE NoticeInv'
  <2>1. work[w].at = "notified" /\ work[w] # Rest /\ work[w].user \in Readers
    BY <1>1, <1>6, NoticeShapes DEF CommitNotice
  <2>2. PICK u \in Readers : work[w].user = u
    BY <2>1
  <2>3. /\ notices' = [notices EXCEPT ![u] = @ + 1] /\ Finish(w)
        /\ UNCHANGED <<read, reached, lost>>
    BY <1>6, <2>2 DEF CommitNotice
  <2>4. /\ WorkTypeOK' /\ Alone' /\ Typed(NoticeTask)'
        /\ work'[w] = Rest /\ \A v \in Workers \ {w} : work'[v] = work[v]
        /\ died' = died
    BY <1>1, <2>1, <2>3, TaskFinishes
  <2>5. /\ notices' \in [Readers -> Nat] /\ notices'[u] = notices[u] + 1
        /\ \A x \in Readers \ {u} : notices'[x] = notices[x]
    BY <1>2, <2>3
  <2>6. \A x \in Readers : Owes(work[w], x) <=> x = u
    BY <2>1, <2>2 DEF Owes
  <2>7. Shown(u)' = Shown(u) + 1 /\ \A x \in Readers \ {u} : Shown(x)' = Shown(x)
    BY <1>2, <2>3, <2>5 DEF Shown
  <2>8. \A x \in Readers :
           \/ died' = died /\ (Owes(Rest, x) <=> Owes(work[w], x)) /\ Shown(x)' = Shown(x)
           \/ died' = died /\ ~Owes(Rest, x) /\ Owes(work[w], x) /\ Shown(x)' = Shown(x) + 1
    BY <1>3, <2>4, <2>6, <2>7
  <2> QED
    BY <1>2, <1>3, <1>6, <2>3, <2>4, <2>5, <2>8, NoticeQuietStep
<1>7. ASSUME NEW w \in Workers, BeginAnnounce(w), UNCHANGED smsVars PROVE NoticeInv'
  <2> DEFINE t == [at |-> "announcing", rest |-> Readers]
  <2>1. t \in NoticeTask /\ t.at = "announcing" /\ t.rest = Readers
    BY DEF NoticeTask, Spoken
  <2>2. Begin(w, t) /\ UNCHANGED noticeRows
    BY <1>7 DEF BeginAnnounce
  <2>3. \A x \in Readers : ~Owes(t, x)
    BY <2>1 DEF Owes
  <2> HIDE DEF t
  <2>4. /\ WorkTypeOK' /\ Alone' /\ Typed(NoticeTask)'
        /\ work[w] = Rest /\ work'[w] = t /\ \A v \in Workers \ {w} : work'[v] = work[v]
        /\ died' = died
    BY <1>1, <2>1, <2>2, TaskBegins
  <2>5. \A x \in Readers : died' = died /\ (Owes(t, x) <=> Owes(work[w], x)) /\ Shown(x)' = Shown(x)
    BY <1>3, <2>2, <2>3, <2>4 DEF noticeRows, Shown
  <2> QED
    BY <1>2, <1>7, <2>1, <2>2, <2>4, <2>5, NoticeQuietStep DEF noticeRows
<1>8. ASSUME NEW w \in Workers, Announce(w), UNCHANGED smsVars PROVE NoticeInv'
  <2>1. work[w].at = "announcing" /\ work[w] # Rest /\ work[w].rest \in SUBSET Readers
    BY <1>1, <1>8, NoticeShapes DEF Announce
  <2>2. PICK rest \in SUBSET Readers : work[w].rest = rest
    BY <2>1
  <2>3. PICK u \in rest : Notify(w, u, [at |-> "announcing", rest |-> rest \ {u}])
    BY <1>8, <2>2 DEF Announce
  <2> DEFINE next == [at |-> "announcing", rest |-> rest \ {u}]
  <2>4. next \in Told \cup Spoken /\ next.at = "announcing" /\ next.rest = rest \ {u}
    BY DEF Spoken
  <2>5. Notify(w, u, next) /\ u \in Readers
    BY <2>3
  <2> HIDE DEF next
  <2>6. \A x \in Readers : (Owes(work[w], x) <=> x \notin rest)
                           /\ (Owes(next, x) <=> x \notin rest \/ x = u)
    BY <2>1, <2>2, <2>4 DEF Owes
  <2>7. ~Owes(work[w], u) /\ \A x \in Readers : Owes(next, x) <=> Owes(work[w], x) \/ x = u
    BY <2>3, <2>5, <2>6
  <2> QED
    BY <1>8, <2>1, <2>4, <2>5, <2>7, NotifyHolds
<1>9. ASSUME NEW w \in Workers, EndAnnounce(w), UNCHANGED smsVars PROVE NoticeInv'
  <2>1. work[w].at = "announcing" /\ work[w] # Rest /\ work[w].rest = {}
    BY <1>1, <1>9, NoticeShapes DEF EndAnnounce
  <2>2. lost' = lost + 1 /\ Finish(w) /\ UNCHANGED <<notices, read, reached>>
    BY <1>9 DEF EndAnnounce
  <2>3. /\ WorkTypeOK' /\ Alone' /\ Typed(NoticeTask)'
        /\ work'[w] = Rest /\ \A v \in Workers \ {w} : work'[v] = work[v]
        /\ died' = died
    BY <1>1, <2>1, <2>2, TaskFinishes
  <2>4. \A x \in Readers : Owes(work[w], x)
    BY <2>1 DEF Owes
  <2>5. \A x \in Readers : Shown(x)' = Shown(x) + 1
    BY <1>2, <2>2 DEF Shown
  <2>6. \A x \in Readers :
          died' = died /\ ~Owes(Rest, x) /\ Owes(work[w], x) /\ Shown(x)' = Shown(x) + 1
    BY <1>3, <2>3, <2>4, <2>5
  <2> QED
    BY <1>2, <1>3, <1>9, <2>2, <2>3, <2>6, NoticeQuietStep
<1>10. ASSUME NEW w \in Workers, Die(w), UNCHANGED noticeRows, UNCHANGED smsVars PROVE NoticeInv'
  <2>1. /\ WorkTypeOK' /\ Alone' /\ Typed(NoticeTask)'
        /\ work'[w] = Rest /\ \A v \in Workers \ {w} : work'[v] = work[v]
        /\ died' = died + 1
    BY <1>1, <1>10, TaskDies
  <2>2. \A x \in Readers : died' = died + 1 /\ ~Owes(Rest, x) /\ Shown(x)' = Shown(x)
    BY <1>3, <1>10, <2>1 DEF noticeRows, Shown
  <2> QED
    BY <1>2, <1>3, <1>10, <2>1, <2>2, NoticeQuietStep DEF noticeRows
<1>11. ASSUME NEW u \in Readers, MarkAsRead(u), UNCHANGED smsVars PROVE NoticeInv'
  <2>1. /\ WorkTypeOK' /\ Alone' /\ Typed(NoticeTask)' /\ work' = work /\ died' = died
    BY <1>1, <1>11, RequestAtOnce DEF MarkAsRead
  <2>2. /\ notices' = [notices EXCEPT ![u] = @ - 1] /\ read' = [read EXCEPT ![u] = @ + 1]
        /\ UNCHANGED <<reached, lost>> /\ notices[u] > 0
    BY <1>11 DEF MarkAsRead
  <2>3. notices' \in [Readers -> Nat] /\ read' \in [Readers -> Nat]
    BY <1>2, <2>2
  <2>4. CallsAreHonest'
    BY <1>1, <1>11, <2>1, SmsUntouched
  <2>5. NoticesTypeOK'
    BY <1>2, <2>1, <2>2, <2>3, <2>4 DEF NoticesTypeOK, CallsAreHonest
  <2>6. \A x \in Readers : notices'[x] + read'[x] = notices[x] + read[x]
    BY <1>2, <2>2
  <2>7. \A x \in Readers : Shown(x)' = Shown(x)
    BY <1>2, <2>2, <2>3, <2>6 DEF Shown
  <2>8. \A x \in Readers : Pending(x)' = Pending(x)
    BY <2>1 DEF Pending
  <2>9. TextsAreTallied'
    BY <2>1, <2>2, <2>7, <2>8 DEF NoticeInv, TextsAreTallied
  <2> QED
    BY <2>1, <2>4, <2>5, <2>9 DEF NoticeInv
<1>12. ASSUME UNCHANGED noticeVars PROVE NoticeInv'
  <2>1. UNCHANGED noticeRows /\ UNCHANGED smsVars /\ UNCHANGED workVars
    BY <1>12 DEF noticeVars
  <2>2. WorkTypeOK' /\ Alone' /\ Typed(NoticeTask)' /\ UNCHANGED <<work, died>>
    BY <1>1, <2>1, NoRequest
  <2>3. CallsAreHonest'
    BY <1>1, <2>1, <2>2, SmsUntouched
  <2>4. NoticesTypeOK'
    BY <1>1, <2>1, <2>2, <2>3 DEF NoticesTypeOK, CallsAreHonest, noticeRows
  <2>5. TextsAreTallied'
    BY <2>1, <2>2 DEF NoticeInv, TextsAreTallied, Pending, Shown, noticeRows
  <2> QED
    BY <2>2, <2>3, <2>4, <2>5 DEF NoticeInv
<1> QED
  BY <1>4, <1>5, <1>6, <1>7, <1>8, <1>9, <1>10, <1>11, <1>12, NoticeSmsInductive
     DEF NoticesNext, NoticeStep

(* It says what is claimed of the notifications. *)
LEMMA NoticeInvSuffices ==
  NoticeInv => NoticesTypeOK /\ NoticesAreTexted /\ SmsIsHonest
<1> SUFFICES ASSUME NoticeInv PROVE NoticesAreTexted
  BY DEF NoticeInv, CallsAreHonest
<1> SUFFICES ASSUME NEW u \in Readers
             PROVE  /\ notices[u] + read[u] <= reached[u]
                    /\ Quiet /\ died = 0 => notices[u] + read[u] + lost = reached[u]
  BY DEF NoticesAreTexted
<1>1. /\ notices[u] \in Nat /\ read[u] \in Nat /\ reached[u] \in Nat /\ lost \in Nat
  BY DEF NoticeInv, NoticesTypeOK
<1>2. Cardinality(Pending(u)) \in Nat
  BY WorkersAssumption, FS_Subset, FS_CardinalityType DEF Pending
<1>3. /\ Cardinality(Pending(u)) + (notices[u] + read[u] + lost) <= reached[u]
      /\ died = 0 => Cardinality(Pending(u)) + (notices[u] + read[u] + lost) = reached[u]
  BY DEF NoticeInv, TextsAreTallied, Shown
<1>4. Quiet => Cardinality(Pending(u)) = 0
  <2>1. Quiet => Pending(u) = {}
    BY DEF Quiet, Pending, Owes, Rest
  <2> QED
    BY <2>1, FS_EmptySet
<1> QED
  BY <1>1, <1>2, <1>3, <1>4

(* For any number of readers and requests: nobody has a row she was not      *)
(* texted about, texts are rows or announcements unless a request died, and  *)
(* who is answered that a text went out gets it                              *)
(* (notifications/service.py:25-32, admin/router.py:382-390,                 *)
(* core/sms.py:139-222).                                                     *)
THEOREM NoticesAreSound == NoticesSpec => [](NoticesTypeOK /\ NoticesAreTexted /\ SmsIsHonest)
<1>1. NoticesInit /\ SmsInit /\ WorkInit => NoticeInv
  BY NoticeInitInductive
<1>2. NoticeInv /\ [NoticesNext]_noticeVars => NoticeInv'
  BY NoticeNextInductive
<1> QED
  BY <1>1, <1>2, NoticeInvSuffices, PTL DEF NoticesSpec

-----------------------------------------------------------------------------
(* User rows. *)

(* The tasks of requests about a user row. *)
ProfileTask ==
  [at : {"standing", "toggle"}, loaded : Standing, set : Standing]
    \cup [at : {"prefs"}, loaded : Prefs, set : Prefs, keys : SUBSET PrefKeys]

(* Without overlap a request changes the row as it loaded it.                 *)
RowIsLoaded ==
  ~raced =>
    \A w \in Workers :
      /\ work[w].at \in {"standing", "toggle"} => work[w].loaded = standing
      /\ work[w].at = "prefs" =>
           work[w].loaded = prefs /\ work[w].set = Supplied(work[w].keys \cup Defaulted, work[w].set, prefs)

(* A decision of the admin sets both columns alike. *)
DecisionsSetBoth == \A w \in Workers : work[w].at = "standing" => work[w].set.approved = work[w].set.active

(* The inductive invariant of the user rows. *)
ProfileInv ==
  /\ ProfilesTypeOK /\ Typed(ProfileTask) /\ Alone
  /\ ApprovedIsActive /\ PrefsAreKept
  /\ RowIsLoaded /\ DecisionsSetBoth

(* What a task about a user row is. *)
LEMMA ProfileShapes ==
  ASSUME Typed(ProfileTask), NEW w \in Workers
  PROVE  /\ work[w].at \in {"standing", "toggle"} =>
              work[w] \in [at : {"standing", "toggle"}, loaded : Standing, set : Standing] /\ work[w] # Rest
         /\ work[w].at = "prefs" =>
              work[w] \in [at : {"prefs"}, loaded : Prefs, set : Prefs, keys : SUBSET PrefKeys] /\ work[w] # Rest
<1>1. work[w] \in ProfileTask \cup {Rest}
  BY DEF Typed
<1>2. CASE work[w] = Rest
  BY <1>2 DEF Rest
<1>3. CASE work[w] \in [at : {"standing", "toggle"}, loaded : Standing, set : Standing]
  <2>1. work[w].at \in {"standing", "toggle"} /\ work[w] # Rest
    BY <1>3 DEF Rest
  <2> QED
    BY <1>3, <2>1
<1>4. CASE work[w] \in [at : {"prefs"}, loaded : Prefs, set : Prefs, keys : SUBSET PrefKeys]
  <2>1. work[w].at = "prefs" /\ work[w] # Rest
    BY <1>4 DEF Rest
  <2> QED
    BY <1>4, <2>1
<1> QED
  BY <1>1, <1>2, <1>3, <1>4 DEF ProfileTask

(* ProfileInv holds at first. *)
LEMMA ProfilesInitInductive == ProfilesInit /\ WorkInit => ProfileInv
<1> SUFFICES ASSUME ProfilesInit, WorkInit PROVE ProfileInv
  OBVIOUS
<1>1. WorkTypeOK /\ Alone /\ Typed(ProfileTask)
  BY WorkInitHolds
<1>2. \A w \in Workers : work[w].at = "rest"
  BY DEF WorkInit, Rest
<1>3. standing \in Standing /\ standing.active
  BY DEF ProfilesInit, Standing
<1>4. toggled \in BOOLEAN
  BY DEF ProfilesInit
<1>5. prefs \in Prefs /\ accepted = prefs
  BY PrefsAssumption DEF ProfilesInit, Prefs
<1>6. RowIsLoaded /\ DecisionsSetBoth
  BY <1>2 DEF RowIsLoaded, DecisionsSetBoth
<1> QED
  BY <1>1, <1>3, <1>4, <1>5, <1>6 DEF ProfileInv, ProfilesTypeOK, ApprovedIsActive, PrefsAreKept

(* A request loads the row, or ends, and writes nothing.                      *)
LEMMA ProfileQuietStep ==
  ASSUME ProfileInv, UNCHANGED profileRows, NEW w \in Workers, NEW t,
         WorkTypeOK', Alone', Typed(ProfileTask)', ~raced' => ~raced,
         work'[w] = t, \A v \in Workers \ {w} : work'[v] = work[v],
         t.at \in {"standing", "toggle"} => t.loaded = standing,
         t.at = "standing" => t.set.approved = t.set.active,
         t.at = "prefs" => t.loaded = prefs /\ t.set = Supplied(t.keys \cup Defaulted, t.set, prefs)
  PROVE  ProfileInv'
<1>1. UNCHANGED <<standing, prefs, toggled, accepted>>
  BY DEF profileRows
<1>2. ProfilesTypeOK'
  BY <1>1 DEF ProfileInv, ProfilesTypeOK
<1>3. ApprovedIsActive' /\ PrefsAreKept'
  BY <1>1 DEF ProfileInv, ApprovedIsActive, PrefsAreKept
<1>4. DecisionsSetBoth'
  BY DEF ProfileInv, DecisionsSetBoth
<1>5. RowIsLoaded'
  <2> SUFFICES ASSUME ~raced', NEW v \in Workers
               PROVE  /\ work'[v].at \in {"standing", "toggle"} => work'[v].loaded = standing
                      /\ work'[v].at = "prefs" =>
                           /\ work'[v].loaded = prefs
                           /\ work'[v].set = Supplied(work'[v].keys \cup Defaulted, work'[v].set, prefs)
    BY <1>1 DEF RowIsLoaded
  <2>1. ~raced
    OBVIOUS
  <2>2. CASE v = w
    BY <2>2
  <2>3. CASE v # w
    BY <2>1, <2>3 DEF ProfileInv, RowIsLoaded
  <2> QED
    BY <2>2, <2>3
<1> QED
  BY <1>2, <1>3, <1>4, <1>5 DEF ProfileInv

(* ProfileInv is kept when a decision commits. *)
LEMMA CommitStandingInductive ==
  ASSUME ProfileInv, NEW w \in Workers, CommitStanding(w)
  PROVE  ProfileInv'
<1> DEFINE t == work[w]
<1>1. WorkTypeOK /\ Alone /\ Typed(ProfileTask) /\ ProfilesTypeOK
  BY DEF ProfileInv, ProfilesTypeOK
<1>2. PICK loaded \in Standing, set \in Standing :
        t.at \in {"standing", "toggle"} /\ t # Rest /\ t.loaded = loaded /\ t.set = set
  BY <1>1, ProfileShapes DEF CommitStanding
<1>3. /\ standing' = Written(standing, loaded, set)
      /\ Finish(w) /\ UNCHANGED <<prefs, accepted>>
  BY <1>2 DEF CommitStanding
<1>4. toggled' = (toggled \/ t.at = "toggle")
  BY DEF CommitStanding
<1>5. /\ WorkTypeOK' /\ Alone' /\ Typed(ProfileTask)'
      /\ work'[w] = Rest /\ \A v \in Workers \ {w} : work'[v] = work[v]
      /\ ~raced => \A v \in Workers : work'[v] = Rest
      /\ raced' = raced
  BY <1>1, <1>2, <1>3, TaskFinishes
<1>6. toggled' \in BOOLEAN /\ (~toggled' => ~toggled /\ t.at # "toggle")
  BY <1>4
<1>7. /\ standing'.approved \in {set.approved, standing.approved} /\ standing'.active \in {set.active, standing.active}
      /\ standing' = [approved |-> standing'.approved, active |-> standing'.active]
  BY <1>3 DEF Written, Flushed
<1>8. standing' \in Standing
  <2>1. standing \in Standing
    BY <1>1 DEF ProfilesTypeOK
  <2>2. standing'.approved \in BOOLEAN /\ standing'.active \in BOOLEAN
    BY <1>7, <2>1 DEF Standing
  <2> QED
    BY <1>7, <2>2, Zenon DEF Standing
<1>9. ProfilesTypeOK'
  BY <1>1, <1>3, <1>5, <1>6, <1>8 DEF ProfilesTypeOK
<1>10. ApprovedIsActive'
  <2> SUFFICES ASSUME ~raced, ~toggled', standing'.approved PROVE standing'.active
    BY <1>5 DEF ApprovedIsActive
  <2>1. t.at = "standing" /\ set.approved = set.active /\ loaded = standing
    BY <1>2, <1>6 DEF ProfileInv, DecisionsSetBoth, RowIsLoaded
  <2>2. standing'.approved = set.approved /\ standing'.active = set.active
    BY <1>3, <2>1 DEF Written, Flushed
  <2> QED
    BY <2>1, <2>2
<1>11. PrefsAreKept'
  BY <1>3, <1>5 DEF ProfileInv, PrefsAreKept
<1>12. RowIsLoaded'
  BY <1>5 DEF RowIsLoaded, Rest
<1>13. DecisionsSetBoth'
  BY <1>5 DEF ProfileInv, DecisionsSetBoth, Rest
<1> QED
  BY <1>5, <1>9, <1>10, <1>11, <1>12, <1>13 DEF ProfileInv

(* ProfileInv is kept when preferences commit. *)
LEMMA CommitPrefsInductive ==
  ASSUME ProfileInv, NEW w \in Workers, CommitPrefs(w)
  PROVE  ProfileInv'
<1> DEFINE t == work[w]
<1>1. WorkTypeOK /\ Alone /\ Typed(ProfileTask) /\ ProfilesTypeOK
  BY DEF ProfileInv, ProfilesTypeOK
<1>2. PICK loaded \in Prefs, set \in Prefs, K \in SUBSET PrefKeys :
        t.at = "prefs" /\ t # Rest /\ t.loaded = loaded /\ t.set = set /\ t.keys = K
  BY <1>1, ProfileShapes DEF CommitPrefs
<1>3. /\ prefs' = Flushed(set, loaded, prefs)
      /\ accepted' = Supplied(K, set, accepted)
      /\ Finish(w) /\ UNCHANGED <<standing, toggled>>
  BY <1>2 DEF CommitPrefs
<1>4. /\ WorkTypeOK' /\ Alone' /\ Typed(ProfileTask)'
      /\ work'[w] = Rest /\ \A v \in Workers \ {w} : work'[v] = work[v]
      /\ ~raced => \A v \in Workers : work'[v] = Rest
      /\ raced' = raced
  BY <1>1, <1>2, <1>3, TaskFinishes
<1>5. prefs' \in Prefs /\ accepted' \in Prefs
  <2>1. prefs' \in Prefs
    BY <1>1, <1>2, <1>3 DEF ProfilesTypeOK, Flushed
  <2>2. accepted' \in Prefs
    BY <1>1, <1>2, <1>3, PrefsAssumption DEF ProfilesTypeOK, Prefs, Supplied
  <2> QED
    BY <2>1, <2>2
<1>6. ProfilesTypeOK'
  BY <1>1, <1>3, <1>4, <1>5 DEF ProfilesTypeOK
<1>7. ApprovedIsActive'
  BY <1>3, <1>4 DEF ProfileInv, ApprovedIsActive
<1>8. PrefsAreKept'
  <2> SUFFICES ASSUME ~raced, NEW k \in PrefKeys \ Defaulted PROVE prefs'[k] = accepted'[k]
    BY <1>4 DEF PrefsAreKept
  <2>1. loaded = prefs /\ set = Supplied(K \cup Defaulted, set, prefs) /\ accepted[k] = prefs[k]
    BY <1>2 DEF ProfileInv, RowIsLoaded, PrefsAreKept
  <2>2. prefs' = set
    BY <1>3, <2>1 DEF Flushed
  <2>3. Supplied(K \cup Defaulted, set, prefs)[k] = (IF k \in K THEN set[k] ELSE prefs[k])
    BY DEF Supplied
  <2>4. accepted'[k] = (IF k \in K THEN set[k] ELSE accepted[k])
    BY <1>3 DEF Supplied
  <2> QED
    BY <2>1, <2>2, <2>3, <2>4
<1>9. RowIsLoaded'
  BY <1>4 DEF RowIsLoaded, Rest
<1>10. DecisionsSetBoth'
  BY <1>4 DEF ProfileInv, DecisionsSetBoth, Rest
<1> QED
  BY <1>4, <1>6, <1>7, <1>8, <1>9, <1>10 DEF ProfileInv

(* ProfileInv is inductive: every step keeps it. *)
LEMMA ProfilesNextInductive ==
  ASSUME ProfileInv, [ProfilesNext]_profileVars
  PROVE  ProfileInv'
<1>1. /\ WorkTypeOK /\ Alone /\ Typed(ProfileTask) /\ standing \in Standing /\ prefs \in Prefs
      /\ standing.approved \in BOOLEAN /\ standing.active \in BOOLEAN
  BY DEF ProfileInv, ProfilesTypeOK, Standing
<1>2. Rest.at = "rest"
  BY DEF Rest
<1>3. ASSUME NEW w \in Workers, NEW t \in ProfileTask, Begin(w, t), UNCHANGED profileRows,
             t.at \in {"standing", "toggle"} => t.loaded = standing,
             t.at = "standing" => t.set.approved = t.set.active,
             t.at = "prefs" => t.loaded = prefs /\ t.set = Supplied(t.keys \cup Defaulted, t.set, prefs)
      PROVE  ProfileInv'
  <2>1. /\ WorkTypeOK' /\ Alone' /\ Typed(ProfileTask)' /\ work'[w] = t
        /\ \A v \in Workers \ {w} : work'[v] = work[v]
        /\ ~raced' => ~raced
    BY <1>1, <1>3, TaskBegins
  <2> QED
    BY <1>3, <2>1, ProfileQuietStep
<1>4. ASSUME NEW w \in Workers, BeginDecision(w)
      PROVE  ProfileInv'
  <2>1. PICK b \in BOOLEAN :
          Begin(w, [at |-> "standing", loaded |-> standing, set |-> [approved |-> b, active |-> b]])
    BY <1>4 DEF BeginDecision
  <2> DEFINE t == [at |-> "standing", loaded |-> standing, set |-> [approved |-> b, active |-> b]]
  <2>2. [approved |-> b, active |-> b] \in Standing
    BY DEF Standing
  <2>3. t \in ProfileTask
    BY <1>1, <2>2 DEF ProfileTask
  <2>4. t.at = "standing" /\ t.loaded = standing /\ t.set.approved = t.set.active
    OBVIOUS
  <2>5. Begin(w, t) /\ UNCHANGED profileRows
    BY <1>4, <2>1 DEF BeginDecision
  <2> HIDE DEF t
  <2> QED
    BY <1>3, <2>3, <2>4, <2>5
<1>5. ASSUME NEW w \in Workers, BeginToggle(w)
      PROVE  ProfileInv'
  <2> DEFINE t == [at |-> "toggle", loaded |-> standing,
                   set |-> [approved |-> standing.approved, active |-> ~standing.active]]
  <2>1. (~standing.active) \in BOOLEAN
    OBVIOUS
  <2>2. [approved |-> standing.approved, active |-> ~standing.active] \in Standing
    BY <1>1, <2>1, Zenon DEF Standing
  <2>3. t \in ProfileTask
    BY <1>1, <2>2 DEF ProfileTask
  <2>4. t.at = "toggle" /\ t.loaded = standing
    OBVIOUS
  <2>5. Begin(w, t) /\ UNCHANGED profileRows
    BY <1>5 DEF BeginToggle
  <2> HIDE DEF t
  <2> QED
    BY <1>3, <2>3, <2>4, <2>5
<1>6. ASSUME NEW w \in Workers, BeginPrefs(w)
      PROVE  ProfileInv'
  <2>1. PICK K \in SUBSET PrefKeys, p \in [PrefKeys -> 1 .. MaxPrefs] :
          Begin(w, [at |-> "prefs", loaded |-> prefs, keys |-> K,
                    set |-> Supplied(K \cup Defaulted, p, prefs)])
    BY <1>6 DEF BeginPrefs
  <2> DEFINE t == [at |-> "prefs", loaded |-> prefs, keys |-> K,
                   set |-> Supplied(K \cup Defaulted, p, prefs)]
  <2>2. /\ Supplied(K \cup Defaulted, p, prefs) \in Prefs
        /\ Supplied(K \cup Defaulted, p, prefs)
             = Supplied(K \cup Defaulted, Supplied(K \cup Defaulted, p, prefs), prefs)
    BY <1>1, PrefsAssumption DEF Prefs, Supplied
  <2>3. t \in ProfileTask
    BY <1>1, <2>2 DEF ProfileTask
  <2>4. t.at = "prefs" /\ t.loaded = prefs /\ t.set = Supplied(t.keys \cup Defaulted, t.set, prefs)
    BY <2>2
  <2>5. Begin(w, t) /\ UNCHANGED profileRows
    BY <1>6, <2>1 DEF BeginPrefs
  <2> HIDE DEF t
  <2> QED
    BY <1>3, <2>3, <2>4, <2>5
<1>9. ASSUME NEW w \in Workers, BeginProfile(w)
      PROVE  ProfileInv'
  <2>1. PICK p \in Prefs : Begin(w, [at |-> "prefs", loaded |-> prefs, set |-> p, keys |-> PrefKeys])
    BY <1>9 DEF BeginProfile
  <2> DEFINE t == [at |-> "prefs", loaded |-> prefs, set |-> p, keys |-> PrefKeys]
  <2>2. p = Supplied(PrefKeys \cup Defaulted, p, prefs)
    BY <2>1, PrefsAssumption DEF Prefs, Supplied
  <2>3. t \in ProfileTask
    BY <1>1, <2>1 DEF ProfileTask
  <2>4. t.at = "prefs" /\ t.loaded = prefs /\ t.set = Supplied(t.keys \cup Defaulted, t.set, prefs)
    BY <2>2
  <2>5. Begin(w, t) /\ UNCHANGED profileRows
    BY <1>9, <2>1 DEF BeginProfile
  <2> HIDE DEF t
  <2> QED
    BY <1>3, <2>3, <2>4, <2>5
<1>7. ASSUME NEW w \in Workers, Die(w), UNCHANGED profileRows
      PROVE  ProfileInv'
  <2>1. /\ WorkTypeOK' /\ Alone' /\ Typed(ProfileTask)' /\ work'[w] = Rest
        /\ \A v \in Workers \ {w} : work'[v] = work[v]
        /\ raced' = raced
    BY <1>1, <1>7, TaskDies
  <2>2. ~raced' => ~raced
    BY <2>1
  <2> QED
    BY <1>2, <1>7, <2>1, <2>2, ProfileQuietStep
<1>8. ASSUME UNCHANGED profileVars
      PROVE  ProfileInv'
  <2>1. UNCHANGED <<standing, prefs, toggled, accepted, work, begun, raced, died>>
    BY <1>8 DEF profileVars, profileRows, workVars
  <2> QED
    BY <2>1 DEF ProfileInv, ProfilesTypeOK, WorkTypeOK, Typed, Alone, ApprovedIsActive, PrefsAreKept,
                RowIsLoaded, DecisionsSetBoth
<1> QED
  BY <1>4, <1>5, <1>6, <1>7, <1>8, <1>9, CommitStandingInductive, CommitPrefsInductive DEF ProfilesNext, ProfileStep

(* For any preference fields and requests: as long as no two overlapped, an  *)
(* approved vendor whom no admin toggled is active, and every field without  *)
(* a default holds what it was last sent as (admin/router.py:43-67,          *)
(* users/router.py:43-108).                                                  *)
THEOREM ProfilesAreSound == ProfilesSpec => [](ProfilesTypeOK /\ ProfileIsWhole)
<1>1. ProfilesInit /\ WorkInit => ProfileInv
  BY ProfilesInitInductive
<1>2. ProfileInv /\ [ProfilesNext]_profileVars => ProfileInv'
  BY ProfilesNextInductive
<1>3. ProfileInv => ProfilesTypeOK /\ ProfileIsWhole
  BY DEF ProfileInv, ProfileIsWhole
<1> QED
  BY <1>1, <1>2, <1>3, PTL DEF ProfilesSpec
=============================================================================

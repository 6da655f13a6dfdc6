--------------------------- MODULE ServiceLemmas ----------------------------
(***************************************************************************)
(* What the proofs about the services share: how a request in progress     *)
(* moves on (Worker), how a sum over rows changes with them (Sums), and    *)
(* that a finite set can be listed in an order. No library theorem about   *)
(* sums can be instantiated here, so the sum is unfolded to the function   *)
(* that MapThenSumSet chooses, and the induction over subsets is the well- *)
(* foundedness of the strict subset relation.                              *)
(***************************************************************************)
EXTENDS Worker, Sums, FiniteSetTheorems, TLAPS

(* Where no two requests overlapped, at most one is in progress. *)
Alone == ~raced => \A v, w \in Workers : work[v] # Rest /\ work[w] # Rest => v = w

(* Every worker is at rest or has a task of the service. *)
Typed(T) == work \in [Workers -> T \cup {Rest}]

(* Nothing is in progress at first. *)
LEMMA WorkInitHolds ==
  ASSUME WorkInit
  PROVE  WorkTypeOK /\ Alone /\ \A T : Typed(T)
<1>1. raced \in BOOLEAN
  BY DEF WorkInit
<1> QED
  BY <1>1, WorkerBounds DEF WorkInit, WorkTypeOK, Alone, Typed

(* What a step that takes up a request does to the workers (Begin). *)
LEMMA TaskBegins ==
  ASSUME WorkTypeOK, Alone, NEW T, Typed(T), NEW w \in Workers, NEW t \in T \cup {Rest}, Begin(w, t)
  PROVE  /\ WorkTypeOK' /\ Alone' /\ Typed(T)'
         /\ work[w] = Rest /\ work'[w] = t /\ \A v \in Workers \ {w} : work'[v] = work[v]
         /\ ~raced' => ~raced /\ \A v \in Workers : work[v] = Rest
         /\ begun' = begun + 1 /\ begun < MaxRequests /\ died' = died
<1>1. /\ work[w] = Rest /\ work' = [work EXCEPT ![w] = t] /\ begun < MaxRequests
      /\ begun' = begun + 1 /\ died' = died
      /\ raced' = (raced \/ \E v \in Workers : work[v] # Rest)
  BY DEF Begin, Arrive
<1>2. /\ Typed(T)' /\ work'[w] = t /\ \A v \in Workers \ {w} : work'[v] = work[v]
  BY <1>1 DEF Typed
<1>3. raced' \in BOOLEAN
  BY <1>1
<1>4. ~raced' => ~raced /\ \A v \in Workers : work[v] = Rest
  BY <1>1
<1>5. Alone'
  BY <1>2, <1>4 DEF Alone
<1>6. WorkTypeOK'
  BY <1>1, <1>3, WorkerBounds DEF WorkTypeOK
<1> QED
  BY <1>1, <1>2, <1>4, <1>5, <1>6

(* What a step that goes on with a request does to them (Continue). *)
LEMMA TaskContinues ==
  ASSUME WorkTypeOK, Alone, NEW T, Typed(T), NEW w \in Workers, work[w] # Rest,
         NEW t \in T \cup {Rest}, Continue(w, t)
  PROVE  /\ WorkTypeOK' /\ Alone' /\ Typed(T)'
         /\ work'[w] = t /\ \A v \in Workers \ {w} : work'[v] = work[v]
         /\ ~raced => \A v \in Workers \ {w} : work[v] = Rest
         /\ raced' = raced /\ begun' = begun /\ died' = died
<1>1. work' = [work EXCEPT ![w] = t] /\ UNCHANGED <<begun, raced, died>>
  BY DEF Continue
<1>2. Typed(T)' /\ work'[w] = t /\ \A v \in Workers \ {w} : work'[v] = work[v]
  BY <1>1 DEF Typed
<1>3. WorkTypeOK'
  BY <1>1 DEF WorkTypeOK
<1>4. ~raced => \A v \in Workers \ {w} : work[v] = Rest
  BY DEF Alone
<1>5. Alone'
  BY <1>1, <1>2, <1>4 DEF Alone
<1> QED
  BY <1>1, <1>2, <1>3, <1>4, <1>5

(* What a step that ends a request does to them (Finish). *)
LEMMA TaskFinishes ==
  ASSUME WorkTypeOK, Alone, NEW T, Typed(T), NEW w \in Workers, work[w] # Rest, Finish(w)
  PROVE  /\ WorkTypeOK' /\ Alone' /\ Typed(T)'
         /\ work'[w] = Rest /\ \A v \in Workers \ {w} : work'[v] = work[v]
         /\ ~raced => \A v \in Workers : work'[v] = Rest
         /\ raced' = raced /\ begun' = begun /\ died' = died
<1>1. Continue(w, Rest)
  BY DEF Finish
<1> QED
  BY <1>1, TaskContinues

(* What a step in which a request dies does to them (Die). *)
LEMMA TaskDies ==
  ASSUME WorkTypeOK, Alone, NEW T, Typed(T), NEW w \in Workers, Die(w)
  PROVE  /\ WorkTypeOK' /\ Alone' /\ Typed(T)'
         /\ work[w] # Rest /\ work'[w] = Rest /\ \A v \in Workers \ {w} : work'[v] = work[v]
         /\ ~raced => \A v \in Workers : work'[v] = Rest
         /\ raced' = raced /\ begun' = begun /\ died' = died + 1 /\ died < MaxAborts
<1>1. /\ work[w] # Rest /\ work' = [work EXCEPT ![w] = Rest] /\ UNCHANGED <<begun, raced>>
      /\ died < MaxAborts /\ died' = died + 1
  BY DEF Die
<1>2. Typed(T)' /\ work'[w] = Rest /\ \A v \in Workers \ {w} : work'[v] = work[v]
  BY <1>1 DEF Typed
<1>3. WorkTypeOK'
  BY <1>1, WorkerBounds DEF WorkTypeOK
<1>4. ~raced => \A v \in Workers : work'[v] = Rest
  BY <1>1, <1>2 DEF Alone
<1>5. Alone'
  BY <1>1, <1>4 DEF Alone
<1> QED
  BY <1>1, <1>2, <1>3, <1>4, <1>5

(* What a request of a single statement does to them (AtOnce). *)
LEMMA RequestAtOnce ==
  ASSUME WorkTypeOK, Alone, NEW T, Typed(T), AtOnce
  PROVE  /\ WorkTypeOK' /\ Alone' /\ Typed(T)'
         /\ work' = work /\ begun' = begun + 1 /\ begun < MaxRequests /\ died' = died
         /\ ~raced' => ~raced /\ \A v \in Workers : work[v] = Rest
<1>1. /\ work' = work /\ begun < MaxRequests /\ begun' = begun + 1 /\ died' = died
      /\ raced' = (raced \/ \E v \in Workers : work[v] # Rest)
  BY DEF AtOnce, Arrive
<1>2. raced' \in BOOLEAN
  BY <1>1
<1>3. ~raced' => ~raced /\ \A v \in Workers : work[v] = Rest
  BY <1>1
<1>4. Alone'
  BY <1>1, <1>3 DEF Alone
<1>5. WorkTypeOK'
  BY <1>1, <1>2, WorkerBounds DEF WorkTypeOK
<1> QED
  BY <1>1, <1>3, <1>4, <1>5 DEF Typed

(* A step of no request leaves the workers alone. *)
LEMMA NoRequest ==
  ASSUME WorkTypeOK, Alone, NEW T, Typed(T), UNCHANGED workVars
  PROVE  WorkTypeOK' /\ Alone' /\ Typed(T)' /\ UNCHANGED <<work, begun, raced, died>>
BY DEF workVars, WorkTypeOK, Alone, Typed

(* A subset that gains or loses one element counts one more or one less. *)
LEMMA CountChanges ==
  ASSUME NEW S, IsFiniteSet(S), NEW P \in SUBSET S, NEW Q \in SUBSET S, NEW x \in S,
         \A y \in S \ {x} : y \in P <=> y \in Q
  PROVE  /\ Cardinality(P) \in Nat /\ Cardinality(Q) \in Nat
         /\ (x \in P <=> x \in Q) => Cardinality(Q) = Cardinality(P)
         /\ x \in P /\ x \notin Q => Cardinality(Q) = Cardinality(P) - 1
         /\ x \notin P /\ x \in Q => Cardinality(Q) = Cardinality(P) + 1
<1>1. IsFiniteSet(P) /\ IsFiniteSet(Q)
  BY FS_Subset
<1>2. Cardinality(P) \in Nat /\ Cardinality(Q) \in Nat
  BY <1>1, FS_CardinalityType
<1>3. ASSUME x \in P <=> x \in Q PROVE Cardinality(Q) = Cardinality(P)
  <2>1. P = Q
    BY <1>3
  <2> QED
    BY <2>1
<1>4. ASSUME x \in P, x \notin Q PROVE Cardinality(Q) = Cardinality(P) - 1
  <2>1. Q = P \ {x}
    BY <1>4
  <2> QED
    BY <1>1, <1>4, <2>1, FS_RemoveElement
<1>5. ASSUME x \notin P, x \in Q PROVE Cardinality(Q) = Cardinality(P) + 1
  <2>1. Q = P \cup {x}
    BY <1>5
  <2> QED
    BY <1>1, <1>5, <2>1, FS_AddElement
<1> QED
  BY <1>2, <1>3, <1>4, <1>5

(* Of a set whose elements are all equal there is at most one. *)
LEMMA AtMostOne ==
  ASSUME NEW S, \A x, y \in S : x = y
  PROVE  IsFiniteSet(S) /\ Cardinality(S) \in {0, 1} /\ (S = {} => Cardinality(S) = 0)
<1>1. CASE S = {}
  BY <1>1, FS_EmptySet
<1>2. CASE S # {}
  <2>1. PICK x \in S : S = {x}
    BY <1>2
  <2> QED
    BY <1>2, <2>1, FS_Singleton
<1> QED
  BY <1>1, <1>2

-----------------------------------------------------------------------------
(* Sums. *)

(* The element that MapThenSumSet takes first. *)
Pick(s) == CHOOSE x \in s : TRUE

(* g sums f over every subset of S *)
Sums(g, f, S) ==
  g = [s \in SUBSET S |-> IF s = {} THEN 0 ELSE f[Pick(s)] + g[s \ {Pick(s)}]]

(* SumOf, with the definitions of the community modules expanded. *)
LEMMA SumOfIsChosen ==
  ASSUME NEW f
  PROVE  SumOf(f) = (CHOOSE g : Sums(g, f, DOMAIN f))[DOMAIN f]
BY DEF SumOf, MapThenSumSet, MapThenFoldSet, Sums, Pick

(* Induction over the subsets of a finite set, stated with a set T in place  *)
(* of a predicate: the least counterexample is the contradiction.            *)
LEMMA SubsetInduction ==
  ASSUME NEW S, IsFiniteSet(S), NEW T,
         \A U \in SUBSET S : (\A V \in SUBSET U : V # U => V \in T) => U \in T
  PROVE  \A U \in SUBSET S : U \in T
<1> DEFINE C == {U \in SUBSET S : U \notin T}
<1> SUFFICES ASSUME C # {} PROVE FALSE
  OBVIOUS
<1>1. IsWellFoundedOn(StrictSubsetOrdering(S), SUBSET S)
  <2>1. IsWellFoundedOn(StrictSubsetOrdering(S), FiniteSubsetsOf(S))
    BY FS_StrictSubsetOrderingWellFounded
  <2>2. FiniteSubsetsOf(S) = SUBSET S
    BY FS_FiniteSubsetsOfFinite
  <2> QED
    BY <2>1, <2>2
<1>2. \E U \in C : \A V \in C : <<V, U>> \notin StrictSubsetOrdering(S)
  <2> HIDE DEF C
  <2> C \subseteq SUBSET S
    BY DEF C
  <2> QED
    BY <1>1, WFMin
<1>3. PICK U \in C : \A V \in C : <<V, U>> \notin StrictSubsetOrdering(S)
  BY <1>2
<1>4. \A V \in SUBSET U : V # U => V \in T
  BY <1>3 DEF StrictSubsetOrdering
<1> QED
  BY <1>3, <1>4

(* The element that is taken is one of the set. *)
LEMMA PickIn == \A s : s # {} => Pick(s) \in s
BY DEF Pick

(* What a function that sums over every subset is for one of them. *)
LEMMA SumsValue ==
  ASSUME NEW S, NEW f, NEW g, Sums(g, f, S), NEW U \in SUBSET S
  PROVE  g[U] = IF U = {} THEN 0 ELSE f[Pick(U)] + g[U \ {Pick(U)}]
BY DEF Sums

(* Two such functions agree where both are defined. *)
LEMMA SumsAgree ==
  ASSUME NEW A, IsFiniteSet(A), NEW B, NEW f, NEW g, NEW h, Sums(g, f, A), Sums(h, f, B)
  PROVE  \A U \in SUBSET A : U \in SUBSET B => g[U] = h[U]
<1> DEFINE T == {U \in SUBSET A : U \in SUBSET B => g[U] = h[U]}
<1>1. ASSUME NEW U \in SUBSET A, \A V \in SUBSET U : V # U => V \in T
      PROVE  U \in T
  <2> SUFFICES ASSUME U \in SUBSET B PROVE g[U] = h[U]
    OBVIOUS
  <2>1. CASE U = {}
    BY <2>1, SumsValue
  <2>2. CASE U # {}
    <3> DEFINE V == U \ {Pick(U)}
    <3>1. V \in SUBSET U /\ V # U
      BY <2>2, PickIn
    <3>2. g[V] = h[V]
      BY <1>1, <3>1
    <3>3. g[U] = f[Pick(U)] + g[V] /\ h[U] = f[Pick(U)] + h[V]
      BY <2>2, SumsValue
    <3> QED
      BY <3>2, <3>3
  <2> QED
    BY <2>1, <2>2
<1>2. \A U \in SUBSET A : U \in T
  <2> HIDE DEF T
  <2> QED
    BY <1>1, SubsetInduction
<1> QED
  BY <1>2

(* There is such a function for every finite set. *)
LEMMA SumsExist ==
  ASSUME NEW S, IsFiniteSet(S), NEW f
  PROVE  \E g : Sums(g, f, S)
<1> DEFINE T == {U \in SUBSET S : \E g : Sums(g, f, U)}
<1>1. ASSUME NEW U \in SUBSET S, \A V \in SUBSET U : V # U => V \in T
      PROVE  U \in T
  <2> DEFINE part[V \in SUBSET U] == CHOOSE g : Sums(g, f, V)
             value[V \in SUBSET U] ==
               IF V = {} THEN 0
               ELSE f[Pick(V)] + part[V \ {Pick(V)}][V \ {Pick(V)}]
  <2>1. \A V \in SUBSET U : V # U => Sums(part[V], f, V)
    BY <1>1
  <2>2. ASSUME NEW V \in SUBSET U, V # U
        PROVE  value[V] = part[V][V]
    <3>1. Sums(part[V], f, V)
      BY <2>1, <2>2
    <3>2. CASE V = {}
      BY <3>1, <3>2, SumsValue
    <3>3. CASE V # {}
      <4> DEFINE X == V \ {Pick(V)}
      <4>1. X \in SUBSET V /\ X \in SUBSET U /\ X # U
        BY <3>3, PickIn
      <4>2. Sums(part[X], f, X)
        BY <2>1, <4>1
      <4>3. IsFiniteSet(X)
        BY <4>1, FS_Subset
      <4>4. part[X][X] = part[V][X]
        <5> HIDE DEF part, X
        <5> QED
          BY <3>1, <4>1, <4>2, <4>3, SumsAgree
      <4>5. part[V][V] = f[Pick(V)] + part[V][X]
        <5> HIDE DEF part
        <5> QED
          BY <3>1, <3>3, SumsValue
      <4> QED
        BY <3>3, <4>4, <4>5
    <3> QED
      BY <3>2, <3>3
  <2>3. Sums(value, f, U)
    <3>1. ASSUME NEW V \in SUBSET U, V # {}
          PROVE  value[V] = f[Pick(V)] + value[V \ {Pick(V)}]
      <4>1. V \ {Pick(V)} \in SUBSET U /\ V \ {Pick(V)} # U
        BY <3>1, PickIn
      <4>2. value[V \ {Pick(V)}] = part[V \ {Pick(V)}][V \ {Pick(V)}]
        <5> HIDE DEF part, value
        <5> QED
          BY <2>2, <4>1
      <4>3. value[V] = f[Pick(V)] + part[V \ {Pick(V)}][V \ {Pick(V)}]
        BY <3>1
      <4> QED
        BY <4>2, <4>3
    <3>2. value[{}] = 0
      OBVIOUS
    <3>3. value = [V \in SUBSET U |-> value[V]]
      OBVIOUS
    <3> QED
      <4> HIDE DEF value
      <4> QED
        BY <3>1, <3>2, <3>3 DEF Sums
  <2> QED
    BY <2>3
<1>2. S \in T
  <2> HIDE DEF T
  <2> QED
    BY <1>1, SubsetInduction
<1> QED
  BY <1>2

(* The sum of f over S. *)
SumOn(f, S) == (CHOOSE g : Sums(g, f, S))[S]

(* The empty sum. *)
LEMMA SumOnEmpty == \A f : SumOn(f, {}) = 0
<1> SUFFICES ASSUME NEW f PROVE SumOn(f, {}) = 0
  OBVIOUS
<1> DEFINE g == CHOOSE g : Sums(g, f, {})
<1>1. Sums(g, f, {})
  BY SumsExist, FS_EmptySet
<1>2. g[{}] = 0
  <2> HIDE DEF g
  <2> QED
    BY <1>1, SumsValue
<1> QED
  BY <1>2 DEF SumOn

(* The sum, one element taken off. *)
LEMMA SumOnPick ==
  ASSUME NEW S, IsFiniteSet(S), NEW f, S # {}
  PROVE  SumOn(f, S) = f[Pick(S)] + SumOn(f, S \ {Pick(S)})
<1> DEFINE R == S \ {Pick(S)}
           g == CHOOSE g : Sums(g, f, S)
           h == CHOOSE h : Sums(h, f, R)
<1>1. R \in SUBSET S /\ IsFiniteSet(R)
  BY FS_Subset
<1>2. Sums(g, f, S)
  BY SumsExist
<1>3. Sums(h, f, R)
  <2> HIDE DEF R
  <2> QED
    BY <1>1, SumsExist
<1>4. h[R] = g[R]
  <2> HIDE DEF g, h, R
  <2> QED
    BY <1>1, <1>2, <1>3, SumsAgree
<1>5. g[S] = f[Pick(S)] + g[R]
  <2> HIDE DEF g
  <2> QED
    BY <1>2, SumsValue
<1> QED
  BY <1>4, <1>5 DEF SumOn

(* A sum of integers is one. *)
LEMMA SumOnType ==
  ASSUME NEW S, IsFiniteSet(S), NEW f, \A x \in S : f[x] \in Int
  PROVE  SumOn(f, S) \in Int
<1> DEFINE T == {U \in SUBSET S : SumOn(f, U) \in Int}
<1>1. ASSUME NEW U \in SUBSET S, \A V \in SUBSET U : V # U => V \in T
      PROVE  U \in T
  <2>1. CASE U = {}
    BY <2>1, SumOnEmpty
  <2>2. CASE U # {}
    <3>1. Pick(U) \in U /\ U \ {Pick(U)} \in SUBSET U /\ U \ {Pick(U)} # U
      BY <2>2, PickIn
    <3>2. SumOn(f, U) = f[Pick(U)] + SumOn(f, U \ {Pick(U)})
      BY <2>2, SumOnPick, FS_Subset
    <3>3. SumOn(f, U \ {Pick(U)}) \in Int /\ f[Pick(U)] \in Int
      BY <1>1, <3>1
    <3> QED
      BY <3>2, <3>3
  <2> QED
    BY <2>1, <2>2
<1>2. S \in T
  <2> HIDE DEF T
  <2> QED
    BY <1>1, SubsetInduction
<1> QED
  BY <1>2

(* The order does not matter: any element may be taken first. *)
LEMMA SumOnSplit ==
  ASSUME NEW S, IsFiniteSet(S), NEW f, \A x \in S : f[x] \in Int
  PROVE  \A x \in S : SumOn(f, S) = f[x] + SumOn(f, S \ {x})
<1> DEFINE T == {U \in SUBSET S : \A x \in U : SumOn(f, U) = f[x] + SumOn(f, U \ {x})}
<1>0. \A U \in SUBSET S : IsFiniteSet(U) /\ SumOn(f, U) \in Int
  BY SumOnType, FS_Subset
<1>1. ASSUME NEW U \in SUBSET S, \A V \in SUBSET U : V # U => V \in T
      PROVE  U \in T
  <2> SUFFICES ASSUME NEW x \in U PROVE SumOn(f, U) = f[x] + SumOn(f, U \ {x})
    OBVIOUS
  <2> DEFINE c == Pick(U)
  <2>1. c \in U
    BY PickIn
  <2>2. SumOn(f, U) = f[c] + SumOn(f, U \ {c})
    BY <1>0, SumOnPick
  <2>3. CASE x = c
    BY <2>2, <2>3
  <2>4. CASE x # c
    <3> HIDE DEF c
    <3>1. SumOn(f, U \ {c}) = f[x] + SumOn(f, (U \ {c}) \ {x})
      BY <1>1, <2>1, <2>4
    <3>2. SumOn(f, U \ {x}) = f[c] + SumOn(f, (U \ {x}) \ {c})
      BY <1>1, <2>1, <2>4
    <3> DEFINE rest == SumOn(f, (U \ {x}) \ {c})
    <3>3. SumOn(f, (U \ {c}) \ {x}) = rest
      <4>1. (U \ {c}) \ {x} = (U \ {x}) \ {c}
        OBVIOUS
      <4> QED
        BY <4>1
    <3>4. f[x] \in Int /\ f[c] \in Int /\ rest \in Int
      BY <1>0, <2>1
    <3>5. SumOn(f, U) = f[c] + (f[x] + rest) /\ SumOn(f, U \ {x}) = f[c] + rest
      BY <2>2, <3>1, <3>2, <3>3
    <3> HIDE DEF rest
    <3> QED
      BY <3>4, <3>5
  <2> QED
    BY <2>3, <2>4
<1>2. S \in T
  <2> HIDE DEF T
  <2> QED
    BY <1>1, SubsetInduction
<1> QED
  BY <1>2

(* A sum is bounded by another one row by row. *)
LEMMA SumOnBounded ==
  ASSUME NEW S, IsFiniteSet(S), NEW f, NEW g,
         \A x \in S : f[x] \in Int /\ g[x] \in Int /\ f[x] <= g[x]
  PROVE  SumOn(f, S) <= SumOn(g, S)
<1> DEFINE T == {U \in SUBSET S : SumOn(f, U) <= SumOn(g, U)}
<1>0. \A U \in SUBSET S : IsFiniteSet(U) /\ SumOn(f, U) \in Int /\ SumOn(g, U) \in Int
  BY SumOnType, FS_Subset
<1>1. ASSUME NEW U \in SUBSET S, \A V \in SUBSET U : V # U => V \in T
      PROVE  U \in T
  <2>1. CASE U = {}
    BY <2>1, SumOnEmpty
  <2>2. CASE U # {}
    <3> DEFINE V == U \ {Pick(U)}
    <3>1. Pick(U) \in U /\ V \in SUBSET U /\ V # U
      BY <2>2, PickIn
    <3>2. SumOn(f, U) = f[Pick(U)] + SumOn(f, V) /\ SumOn(g, U) = g[Pick(U)] + SumOn(g, V)
      BY <1>0, <2>2, SumOnPick
    <3>3. SumOn(f, V) <= SumOn(g, V)
      BY <1>1, <3>1
    <3>4. /\ f[Pick(U)] \in Int /\ g[Pick(U)] \in Int /\ f[Pick(U)] <= g[Pick(U)]
          /\ SumOn(f, V) \in Int /\ SumOn(g, V) \in Int
      BY <1>0, <3>1
    <3> HIDE DEF V
    <3> QED
      BY <3>2, <3>3, <3>4
  <2> QED
    BY <2>1, <2>2
<1>2. S \in T
  <2> HIDE DEF T
  <2> QED
    BY <1>1, SubsetInduction
<1> QED
  BY <1>2

(* Equal rows have equal sums. *)
LEMMA SumOnEqual ==
  ASSUME NEW S, IsFiniteSet(S), NEW f, NEW g,
         \A x \in S : f[x] \in Int /\ g[x] = f[x]
  PROVE  SumOn(f, S) = SumOn(g, S)
<1>1. \A x \in S : f[x] \in Int /\ g[x] \in Int /\ f[x] <= g[x] /\ g[x] <= f[x]
  OBVIOUS
<1>2. SumOn(f, S) <= SumOn(g, S) /\ SumOn(g, S) <= SumOn(f, S)
  BY <1>1, SumOnBounded
<1>3. SumOn(f, S) \in Int /\ SumOn(g, S) \in Int
  BY <1>1, SumOnType
<1> QED
  BY <1>2, <1>3

(* SumOf is the sum over the domain. *)
LEMMA SumOfIsSumOn == \A f : SumOf(f) = SumOn(f, DOMAIN f)
BY SumOfIsChosen DEF SumOn

-----------------------------------------------------------------------------

(* A sum of integers is an integer. *)
LEMMA SumType ==
  ASSUME NEW S, IsFiniteSet(S), NEW f \in [S -> Int]
  PROVE  SumOf(f) \in Int
BY SumOfIsSumOn, SumOnType

(* A sum of naturals is a natural that none of them exceeds. *)
LEMMA SumOfNaturals ==
  ASSUME NEW S, IsFiniteSet(S), NEW f \in [S -> Nat]
  PROVE  SumOf(f) \in Nat /\ \A x \in S : f[x] <= SumOf(f)
<1> DEFINE T == {U \in SUBSET S : SumOn(f, U) >= 0}
<1>0. \A U \in SUBSET S : IsFiniteSet(U) /\ SumOn(f, U) \in Int
  BY SumOnType, FS_Subset
<1>1. ASSUME NEW U \in SUBSET S, \A V \in SUBSET U : V # U => V \in T
      PROVE  U \in T
  <2>1. CASE U = {}
    BY <2>1, SumOnEmpty
  <2>2. CASE U # {}
    <3> DEFINE V == U \ {Pick(U)}
    <3>1. Pick(U) \in U /\ V \in SUBSET U /\ V # U
      BY <2>2, PickIn
    <3>2. SumOn(f, U) = f[Pick(U)] + SumOn(f, V)
      BY <1>0, <2>2, SumOnPick
    <3>3. SumOn(f, V) >= 0
      BY <1>1, <3>1
    <3>4. f[Pick(U)] \in Nat /\ SumOn(f, V) \in Int
      BY <1>0, <3>1
    <3> HIDE DEF V
    <3> QED
      BY <3>2, <3>3, <3>4
  <2> QED
    BY <2>1, <2>2
<1>2. \A U \in SUBSET S : U \in T
  <2> HIDE DEF T
  <2> QED
    BY <1>1, SubsetInduction
<1>3. \A x \in S : SumOn(f, S) = f[x] + SumOn(f, S \ {x})
  BY SumOnSplit
<1>4. SumOf(f) = SumOn(f, S)
  BY SumOfIsSumOn
<1>5. SumOn(f, S) \in Nat
  BY <1>0, <1>2
<1>6. ASSUME NEW x \in S PROVE f[x] <= SumOn(f, S)
  <2>1. SumOn(f, S \ {x}) \in Int /\ SumOn(f, S \ {x}) >= 0 /\ f[x] \in Nat
    BY <1>0, <1>2
  <2> QED
    BY <1>3, <2>1
<1> QED
  BY <1>4, <1>5, <1>6

(* One row changes. *)
LEMMA SumUpdate ==
  ASSUME NEW S, IsFiniteSet(S), NEW f \in [S -> Int], NEW g \in [S -> Int],
         NEW x \in S, \A y \in S \ {x} : g[y] = f[y]
  PROVE  SumOf(g) = (SumOf(f) - f[x]) + g[x]
<1> DEFINE R == S \ {x}
<1>1. IsFiniteSet(R)
  BY FS_Subset
<1>2. SumOn(f, R) \in Int /\ SumOn(g, R) = SumOn(f, R)
  <2>1. \A y \in R : f[y] \in Int /\ g[y] = f[y]
    OBVIOUS
  <2> HIDE DEF R
  <2> QED
    BY <1>1, <2>1, SumOnType, SumOnEqual
<1>3. SumOn(f, S) = f[x] + SumOn(f, R) /\ SumOn(g, S) = g[x] + SumOn(g, R)
  BY SumOnSplit
<1>4. SumOf(f) = SumOn(f, S) /\ SumOf(g) = SumOn(g, S)
  BY SumOfIsSumOn
<1>5. f[x] \in Int /\ g[x] \in Int
  OBVIOUS
<1> QED
  BY <1>2, <1>3, <1>4, <1>5

(* A row is added. *)
LEMMA SumInsert ==
  ASSUME NEW S, IsFiniteSet(S), NEW f \in [S -> Int], NEW x, x \notin S,
         NEW g \in [S \cup {x} -> Int], \A y \in S : g[y] = f[y]
  PROVE  SumOf(g) = SumOf(f) + g[x]
<1>1. SumOn(g, S) = SumOn(f, S) /\ SumOn(f, S) \in Int
  BY SumOnEqual, SumOnType
<1>2. IsFiniteSet(S \cup {x})
  BY FS_AddElement
<1>3. (S \cup {x}) \ {x} = S /\ x \in S \cup {x}
  OBVIOUS
<1>4. SumOn(g, S \cup {x}) = g[x] + SumOn(g, S)
  BY <1>2, <1>3, SumOnSplit
<1>5. SumOf(f) = SumOn(f, S) /\ SumOf(g) = SumOn(g, S \cup {x})
  BY SumOfIsSumOn
<1>6. g[x] \in Int
  OBVIOUS
<1> QED
  BY <1>1, <1>4, <1>5, <1>6

(* The sum of no rows is 0. *)
LEMMA SumOfNone == \A f : DOMAIN f = {} => SumOf(f) = 0
BY SumOfIsSumOn, SumOnEmpty

(* The sum of zeros is 0. *)
LEMMA SumOfZeros ==
  ASSUME NEW S, IsFiniteSet(S), NEW f \in [S -> {0}]
  PROVE  SumOf(f) = 0
<1> DEFINE T == {U \in SUBSET S : SumOn(f, U) = 0}
<1>1. ASSUME NEW U \in SUBSET S, \A V \in SUBSET U : V # U => V \in T
      PROVE  U \in T
  <2>1. CASE U = {}
    BY <2>1, SumOnEmpty
  <2>2. CASE U # {}
    <3>1. Pick(U) \in U /\ U \ {Pick(U)} \in SUBSET U /\ U \ {Pick(U)} # U
      BY <2>2, PickIn
    <3>2. SumOn(f, U) = f[Pick(U)] + SumOn(f, U \ {Pick(U)})
      BY <2>2, SumOnPick, FS_Subset
    <3>3. SumOn(f, U \ {Pick(U)}) = 0 /\ f[Pick(U)] = 0
      BY <1>1, <3>1
    <3> QED
      BY <3>2, <3>3
  <2> QED
    BY <2>1, <2>2
<1>2. S \in T
  <2> HIDE DEF T
  <2> QED
    BY <1>1, SubsetInduction
<1> QED
  BY <1>2, SumOfIsSumOn

(* Naturals sum to no more over a part of the set than greater ones over all. *)
LEMMA SumOfPart ==
  ASSUME NEW S, IsFiniteSet(S), NEW W \in SUBSET S, NEW f \in [W -> Nat], NEW b \in [S -> Nat],
         \A x \in W : f[x] <= b[x]
  PROVE  SumOf(f) <= SumOf(b)
<1> DEFINE T == {U \in SUBSET S : W \subseteq U => SumOn(f, W) <= SumOn(b, U)}
<1>0. IsFiniteSet(W) /\ SumOn(f, W) \in Int /\ SumOn(f, W) <= SumOn(b, W)
  <2>1. IsFiniteSet(W) /\ \A x \in W : f[x] \in Int /\ b[x] \in Int /\ f[x] <= b[x]
    BY FS_Subset
  <2> QED
    BY <2>1, SumOnType, SumOnBounded
<1>1. ASSUME NEW U \in SUBSET S, \A V \in SUBSET U : V # U => V \in T
      PROVE  U \in T
  <2> SUFFICES ASSUME W \subseteq U PROVE SumOn(f, W) <= SumOn(b, U)
    OBVIOUS
  <2>1. CASE U = W
    BY <1>0, <2>1
  <2>2. CASE U # W
    <3>1. PICK x \in U : x \notin W
      BY <2>2
    <3>2. SumOn(f, W) <= SumOn(b, U \ {x})
      BY <1>1, <3>1
    <3>3. IsFiniteSet(U) /\ IsFiniteSet(U \ {x}) /\ \A y \in U : b[y] \in Int
      BY FS_Subset
    <3>4. SumOn(b, U) = b[x] + SumOn(b, U \ {x}) /\ SumOn(b, U \ {x}) \in Int
      BY <3>3, SumOnSplit, SumOnType
    <3>5. b[x] \in Nat
      OBVIOUS
    <3> QED
      BY <1>0, <3>2, <3>4, <3>5
  <2> QED
    BY <2>1, <2>2
<1>2. \A U \in SUBSET S : U \in T
  <2> HIDE DEF T
  <2> QED
    BY <1>1, SubsetInduction
<1>3. SumOn(f, W) <= SumOn(b, S)
  BY <1>2
<1> QED
  BY <1>3, SumOfIsSumOn

(* Min of a finite set of integers is its least element. *)
LEMMA MinIsLeast ==
  ASSUME NEW S, IsFiniteSet(S), S \subseteq Int, S # {}
  PROVE  Min(S) \in S /\ \A y \in S : Min(S) <= y
<1> DEFINE T == {U \in SUBSET S : U # {} => \E x \in U : \A y \in U : x <= y}
<1>1. ASSUME NEW U \in SUBSET S, \A V \in SUBSET U : V # U => V \in T
      PROVE  U \in T
  <2> SUFFICES ASSUME U # {} PROVE \E x \in U : \A y \in U : x <= y
    OBVIOUS
  <2>1. PICK a \in U : TRUE
    OBVIOUS
  <2>2. U \ {a} \in T
    BY <1>1
  <2>3. CASE U \ {a} = {}
    BY <2>3
  <2>4. CASE U \ {a} # {}
    <3>1. PICK m \in U \ {a} : \A y \in U \ {a} : m <= y
      BY <2>2, <2>4
    <3>2. a \in Int /\ m \in Int /\ U \subseteq Int
      OBVIOUS
    <3>3. CASE a <= m
      BY <3>1, <3>2, <3>3
    <3>4. CASE ~(a <= m)
      BY <3>1, <3>2, <3>4
    <3> QED
      BY <3>3, <3>4
  <2> QED
    BY <2>3, <2>4
<1>2. \A U \in SUBSET S : U \in T
  <2> HIDE DEF T
  <2> QED
    BY <1>1, SubsetInduction
<1>3. \E x \in S : \A y \in S : x <= y
  BY <1>2
<1> QED
  BY <1>3 DEF Min

-----------------------------------------------------------------------------
(* Products, quotients and lists in an order. *)

(* Products of integers and an order that they keep. *)
LEMMA ProductsGrow ==
  /\ \A a, b \in Int, c \in Nat : a <= b => a * c <= b * c
  /\ \A a, b \in Int, c \in Nat \ {0} : a * c <= b * c => a <= b
  /\ \A a \in Nat, b \in Nat : a * b \in Nat
  /\ \A a, b \in Nat \ {0} : a * b \in Nat \ {0}
<1>1. \A a, b \in Int, c \in Nat : a <= b => a * c <= b * c
  BY SMTT(30)
<1>2. \A a, b \in Int, c \in Nat \ {0} : a * c <= b * c => a <= b
  BY SMTT(30)
<1>3. \A a \in Nat, b \in Nat : a * b \in Nat
  BY SMTT(30)
<1>4. \A a, b \in Nat \ {0} : a * b \in Nat \ {0}
  BY SMTT(30)
<1> QED
  BY <1>1, <1>2, <1>3, <1>4

(* So do quotients that are rounded down. *)
LEMMA QuotientsGrow == \A a, b \in Nat : \A d \in Nat \ {0} : a <= b => a \div d <= b \div d /\ a \div d \in Nat
BY SMTT(30)

(* The greater of two integers. *)
LEMMA MaxOfTwo == \A a, b \in Int : Max({a, b}) = IF a >= b THEN a ELSE b
<1> SUFFICES ASSUME NEW a \in Int, NEW b \in Int PROVE Max({a, b}) = IF a >= b THEN a ELSE b
  OBVIOUS
<1>1. Max({a, b}) = CHOOSE x \in {a, b} : \A y \in {a, b} : x >= y
  BY DEF Max
<1>2. \E x \in {a, b} : \A y \in {a, b} : x >= y
  OBVIOUS
<1>3. Max({a, b}) \in {a, b} /\ \A y \in {a, b} : Max({a, b}) >= y
  BY <1>1, <1>2
<1> QED
  BY <1>3

(* The lesser of two integers. *)
LEMMA MinOfTwo == \A a, b \in Int : Min({a, b}) = IF a <= b THEN a ELSE b
<1> SUFFICES ASSUME NEW a \in Int, NEW b \in Int PROVE Min({a, b}) = IF a <= b THEN a ELSE b
  OBVIOUS
<1>1. Min({a, b}) = CHOOSE x \in {a, b} : \A y \in {a, b} : x <= y
  BY DEF Min
<1>2. \E x \in {a, b} : \A y \in {a, b} : x <= y
  OBVIOUS
<1>3. Min({a, b}) \in {a, b} /\ \A y \in {a, b} : Min({a, b}) <= y
  BY <1>1, <1>2
<1> QED
  BY <1>3

(* R orders the elements of S totally and strictly. *)
TotallyOrders(R, S) ==
  /\ \A x \in S : <<x, x>> \notin R
  /\ \A x, y \in S : x # y => <<x, y>> \in R \/ <<y, x>> \in R
  /\ \A x, y, z \in S : <<x, y>> \in R /\ <<y, z>> \in R => <<x, z>> \in R

(* q lists the elements of U in the order R. *)
Lists(q, U, R) ==
  /\ q \in [1 .. Cardinality(U) -> U]
  /\ \A i, j \in 1 .. Cardinality(U) : i < j => <<q[i], q[j]>> \in R

(* A finite set that is ordered has a last element. *)
LEMMA LastExists ==
  ASSUME NEW S, IsFiniteSet(S), NEW R, TotallyOrders(R, S), S # {}
  PROVE  \E x \in S : \A y \in S \ {x} : <<y, x>> \in R
<1> DEFINE T == {U \in SUBSET S : U # {} => \E x \in U : \A y \in U \ {x} : <<y, x>> \in R}
<1>1. ASSUME NEW U \in SUBSET S, \A V \in SUBSET U : V # U => V \in T
      PROVE  U \in T
  <2> SUFFICES ASSUME U # {} PROVE \E x \in U : \A y \in U \ {x} : <<y, x>> \in R
    OBVIOUS
  <2>1. PICK a \in U : TRUE
    OBVIOUS
  <2>2. U \ {a} \in T
    BY <1>1
  <2>3. CASE U \ {a} = {}
    BY <2>3
  <2>4. CASE U \ {a} # {}
    <3>1. PICK m \in U \ {a} : \A y \in (U \ {a}) \ {m} : <<y, m>> \in R
      BY <2>2, <2>4
    <3>2. CASE <<m, a>> \in R
      <4>1. \A y \in U \ {a} : <<y, a>> \in R
        BY <3>1, <3>2 DEF TotallyOrders
      <4> QED
        BY <4>1
    <3>3. CASE <<a, m>> \in R
      <4>1. \A y \in U \ {m} : <<y, m>> \in R
        BY <3>1, <3>3
      <4> QED
        BY <4>1
    <3> QED
      BY <3>1, <3>2, <3>3 DEF TotallyOrders
  <2> QED
    BY <2>3, <2>4
<1>2. S \in T
  <2> HIDE DEF T
  <2> QED
    BY <1>1, SubsetInduction
<1> QED
  BY <1>2

(* A finite set that is ordered can be listed. *)
LEMMA ListsExist ==
  ASSUME NEW S, IsFiniteSet(S), NEW R, TotallyOrders(R, S)
  PROVE  \E q : Lists(q, S, R)
<1> DEFINE T == {U \in SUBSET S : \E q : Lists(q, U, R)}
<1>1. ASSUME NEW U \in SUBSET S, \A V \in SUBSET U : V # U => V \in T
      PROVE  U \in T
  <2>1. CASE U = {}
    <3>1. Cardinality(U) = 0 /\ 1 .. 0 = {}
      BY <2>1, FS_EmptySet
    <3>2. Lists([i \in 1 .. 0 |-> i], U, R)
      BY <2>1, <3>1 DEF Lists
    <3> QED
      BY <3>2
  <2>2. CASE U # {}
    <3>1. IsFiniteSet(U) /\ TotallyOrders(R, U)
      BY FS_Subset DEF TotallyOrders
    <3>2. PICK x \in U : \A y \in U \ {x} : <<y, x>> \in R
      BY <2>2, <3>1, LastExists
    <3>3. PICK V : V = U \ {x}
      OBVIOUS
    <3>4. V \in SUBSET U /\ V # U /\ x \notin V /\ V \cup {x} = U
      BY <3>2, <3>3
    <3>5. PICK q : Lists(q, V, R)
      BY <1>1, <3>4
    <3>6. PICK n \in Nat : n = Cardinality(V)
      BY <3>1, <3>4, FS_Subset, FS_CardinalityType
    <3>7. Cardinality(U) = n + 1
      <4>1. IsFiniteSet(V)
        BY <3>1, <3>4, FS_Subset
      <4> QED
        BY <3>4, <3>6, <4>1, FS_AddElement
    <3> DEFINE r == [i \in 1 .. (n + 1) |-> IF i = n + 1 THEN x ELSE q[i]]
    <3>8. \A i \in 1 .. (n + 1) : i # n + 1 => i \in 1 .. n
      OBVIOUS
    <3>9. \A i \in 1 .. n : q[i] \in V
      BY <3>5, <3>6 DEF Lists
    <3>10. \A i, j \in 1 .. n : i < j => <<q[i], q[j]>> \in R
      BY <3>5, <3>6 DEF Lists
    <3>11. r \in [1 .. (n + 1) -> U]
      BY <3>2, <3>4, <3>8, <3>9
    <3>12. ASSUME NEW i \in 1 .. (n + 1), NEW j \in 1 .. (n + 1), i < j
           PROVE  <<r[i], r[j]>> \in R
      <4>1. i \in 1 .. n /\ r[i] = q[i] /\ q[i] \in V
        BY <3>9, <3>12
      <4>2. CASE j = n + 1
        BY <3>2, <3>3, <4>1, <4>2
      <4>3. CASE j # n + 1
        <5>1. j \in 1 .. n /\ r[j] = q[j]
          BY <4>3
        <5> QED
          BY <3>10, <3>12, <4>1, <5>1
      <4> QED
        BY <4>2, <4>3
    <3>13. Lists(r, U, R)
      <4> HIDE DEF r
      <4> QED
        BY <3>7, <3>11, <3>12 DEF Lists
    <3> QED
      BY <3>13
  <2> QED
    BY <2>1, <2>2
<1>2. S \in T
  <2> HIDE DEF T
  <2> QED
    BY <1>1, SubsetInduction
<1> QED
  BY <1>2

(* A list in a strict order has every element, and before all others its first. *)
LEMMA ListsAreComplete ==
  ASSUME NEW S, IsFiniteSet(S), NEW R, TotallyOrders(R, S), NEW q, Lists(q, S, R)
  PROVE  /\ \A x \in S : \E i \in 1 .. Cardinality(S) : q[i] = x
         /\ S # {} => q[1] \in S /\ \A x \in S \ {q[1]} : <<q[1], x>> \in R
<1>1. PICK n \in Nat : n = Cardinality(S)
  BY FS_CardinalityType
<1>2. q \in [1 .. n -> S] /\ \A i, j \in 1 .. n : i < j => <<q[i], q[j]>> \in R
  BY <1>1 DEF Lists
<1>3. \A i, j \in 1 .. n : i < j => q[i] # q[j]
  BY <1>2 DEF TotallyOrders
<1>4. \A i, j \in 1 .. n : i # j => q[i] # q[j]
  <2> SUFFICES ASSUME NEW i \in 1 .. n, NEW j \in 1 .. n, i # j PROVE q[i] # q[j]
    OBVIOUS
  <2>1. i < j \/ j < i
    OBVIOUS
  <2> QED
    BY <1>3, <2>1
<1>5. ASSUME NEW x \in S PROVE \E i \in 1 .. n : q[i] = x
  <2> SUFFICES ASSUME \A i \in 1 .. n : q[i] # x PROVE FALSE
    OBVIOUS
  <2>1. q \in [1 .. n -> S \ {x}]
    BY <1>2
  <2>2. IsFiniteSet(S \ {x}) /\ Cardinality(S \ {x}) = n - 1
    BY <1>1, FS_RemoveElement
  <2>3. IsFiniteSet(1 .. n) /\ Cardinality(1 .. n) = n
    <3>1. IsFiniteSet(1 .. n) /\ Cardinality(1 .. n) = IF 1 > n THEN 0 ELSE n - 1 + 1
      BY FS_Interval
    <3> QED
      BY <3>1
  <2>4. Cardinality(S \ {x}) < Cardinality(1 .. n)
    BY <2>2, <2>3
  <2>5. \E i, j \in 1 .. n : i # j /\ q[i] = q[j]
    BY <2>1, <2>2, <2>3, <2>4, FS_PigeonHole
  <2> QED
    BY <1>4, <2>5
<1>6. ASSUME S # {} PROVE q[1] \in S /\ \A x \in S \ {q[1]} : <<q[1], x>> \in R
  <2>1. n # 0
    BY <1>1, <1>6, FS_EmptySet
  <2>2. 1 \in 1 .. n /\ \A i \in 1 .. n : i # 1 => 1 < i
    BY <2>1
  <2>3. q[1] \in S
    BY <1>2, <2>2
  <2>4. ASSUME NEW x \in S \ {q[1]} PROVE <<q[1], x>> \in R
    <3>1. PICK i \in 1 .. n : q[i] = x
      BY <1>5
    <3>2. i # 1
      BY <2>4, <3>1
    <3> QED
      BY <1>2, <2>2, <3>1, <3>2
  <2> QED
    BY <2>3, <2>4
<1> QED
  BY <1>1, <1>5, <1>6

-----------------------------------------------------------------------------
(* Rows counted by a column, and leaders. *)

(* Of disjoint sets the numbers of elements add up. *)
LEMMA DisjointCounts ==
  ASSUME NEW A, IsFiniteSet(A), NEW B, IsFiniteSet(B), A \cap B = {}
  PROVE  IsFiniteSet(A \cup B) /\ Cardinality(A \cup B) = Cardinality(A) + Cardinality(B)
<1>1. Cardinality(A \cup B) = Cardinality(A) + Cardinality(B) - Cardinality({})
  BY FS_Union
<1>2. Cardinality(A) \in Nat /\ Cardinality(B) \in Nat /\ Cardinality({}) = 0
  BY FS_CardinalityType, FS_EmptySet
<1> QED
  BY <1>1, <1>2, FS_Union

(* The values of a function on a finite set are finitely many. *)
LEMMA ImageIsFinite ==
  ASSUME NEW S, IsFiniteSet(S), NEW f
  PROVE  IsFiniteSet({f[x] : x \in S})
<1> DEFINE g == [x \in S |-> f[x]]
           V == {f[x] : x \in S}
<1>1. g \in Surjection(S, V)
  BY DEF Surjection
<1> HIDE DEF g, V
<1>2. IsFiniteSet(V)
  BY <1>1, FS_Surjection
<1> QED
  BY <1>2 DEF V

(* How many elements of I have each of the keys K under f. *)
Counted(I, f, K) == [k \in K |-> Cardinality({i \in I : f[i] = k})]

(* The elements of I with a key in K. *)
Keyed(I, f, K) == {i \in I : f[i] \in K}

(* The elements counted under the keys of K add up to those that have one. *)
LEMMA CountsAddUp ==
  ASSUME NEW I, IsFiniteSet(I), NEW f, NEW K, IsFiniteSet(K)
  PROVE  /\ Counted(I, f, K) \in [K -> Nat]
         /\ SumOf(Counted(I, f, K)) = Cardinality(Keyed(I, f, K))
<1> DEFINE With(U) == {i \in I : f[i] \in U}
           T == {U \in SUBSET K : SumOf(Counted(I, f, U)) = Cardinality(With(U))}
<1>1. \A U : IsFiniteSet(With(U)) /\ Cardinality(With(U)) \in Nat
  BY FS_Subset, FS_CardinalityType
<1>2. ASSUME NEW U PROVE Counted(I, f, U) \in [U -> Nat]
  <2>1. \A k : Cardinality({i \in I : f[i] = k}) \in Nat
    BY FS_Subset, FS_CardinalityType
  <2> QED
    BY <2>1 DEF Counted
<1>3. ASSUME NEW U \in SUBSET K, \A V \in SUBSET U : V # U => V \in T
      PROVE  U \in T
  <2>1. CASE U = {}
    <3>1. DOMAIN Counted(I, f, U) = {} /\ With(U) = {}
      BY <2>1 DEF Counted
    <3> QED
      BY <3>1, SumOfNone, FS_EmptySet
  <2>2. CASE U # {}
    <3>1. PICK x \in U : TRUE
      BY <2>2
    <3>2. PICK V : V = U \ {x}
      OBVIOUS
    <3>3. V \in SUBSET U /\ V # U /\ x \notin V /\ V \cup {x} = U /\ IsFiniteSet(V)
      BY <3>1, <3>2, FS_Subset
    <3>4. SumOf(Counted(I, f, V)) = Cardinality(With(V))
      BY <1>3, <3>3
    <3> DEFINE Own == {i \in I : f[i] = x}
    <3>5. Counted(I, f, U)[x] = Cardinality(Own) /\ \A y \in V : Counted(I, f, U)[y] = Counted(I, f, V)[y]
      BY <3>1, <3>3 DEF Counted
    <3>6. Counted(I, f, U) \in [V \cup {x} -> Int] /\ Counted(I, f, V) \in [V -> Int]
      <4>1. Counted(I, f, U) \in [U -> Nat] /\ Counted(I, f, V) \in [V -> Nat]
        BY <1>2
      <4> QED
        BY <3>3, <4>1
    <3>7. SumOf(Counted(I, f, U)) = SumOf(Counted(I, f, V)) + Counted(I, f, U)[x]
      <4> HIDE DEF Own
      <4> QED
        BY <3>3, <3>5, <3>6, SumInsert
    <3>8. With(U) = With(V) \cup Own /\ With(V) \cap Own = {}
      BY <3>3
    <3>9. IsFiniteSet(With(V)) /\ IsFiniteSet(Own)
      BY FS_Subset
    <3>10. Cardinality(With(U)) = Cardinality(With(V)) + Cardinality(Own)
      <4> HIDE DEF With, Own
      <4> QED
        BY <3>8, <3>9, DisjointCounts
    <3> QED
      BY <3>4, <3>5, <3>7, <3>10
  <2> QED
    BY <2>1, <2>2
<1>4. K \in T
  <2> HIDE DEF T
  <2> QED
    BY <1>3, SubsetInduction
<1> QED
  BY <1>2, <1>4 DEF Keyed

(* How many elements of I have each key there is. *)
Tallied(I, f) == Counted(I, f, {f[i] : i \in I})

(* A tally counts everything, and under each of its keys something. *)
LEMMA TallyCounts ==
  ASSUME NEW I, IsFiniteSet(I), NEW f
  PROVE  /\ DOMAIN Tallied(I, f) = {f[i] : i \in I} /\ IsFiniteSet({f[i] : i \in I})
         /\ Tallied(I, f) \in [{f[i] : i \in I} -> Nat \ {0}]
         /\ SumOf(Tallied(I, f)) = Cardinality(I)
<1>1. PICK K : K = {f[i] : i \in I}
  OBVIOUS
<1>2. IsFiniteSet(K)
  BY <1>1, ImageIsFinite
<1>3. Counted(I, f, K) \in [K -> Nat] /\ SumOf(Counted(I, f, K)) = Cardinality(Keyed(I, f, K))
  BY <1>2, CountsAddUp
<1>4. Keyed(I, f, K) = I
  BY <1>1 DEF Keyed
<1>5. ASSUME NEW k \in K PROVE Counted(I, f, K)[k] # 0
  <2>1. {i \in I : f[i] = k} # {} /\ IsFiniteSet({i \in I : f[i] = k})
    BY <1>1, FS_Subset
  <2>2. Cardinality({i \in I : f[i] = k}) # 0
    BY <2>1, FS_EmptySet
  <2> QED
    BY <2>2 DEF Counted
<1>6. Counted(I, f, K) \in [K -> Nat \ {0}]
  BY <1>3, <1>5
<1>7. Tallied(I, f) = Counted(I, f, K)
  BY <1>1 DEF Tallied
<1>8. DOMAIN Tallied(I, f) = K
  BY <1>6, <1>7
<1> QED
  BY <1>1, <1>2, <1>3, <1>4, <1>6, <1>7, <1>8

(* The greatest element of a finite set of integers. *)
LEMMA MaxIsGreatest ==
  ASSUME NEW S, IsFiniteSet(S), S \subseteq Int, S # {}
  PROVE  Max(S) \in S /\ \A y \in S : Max(S) >= y
<1> DEFINE g == [x \in S |-> -x]
           N == {g[x] : x \in S}
<1>1. IsFiniteSet(N) /\ N \subseteq Int /\ N # {}
  <2>1. N \subseteq Int /\ N # {}
    <3>1. \A x \in S : g[x] \in Int
      OBVIOUS
    <3> QED
      BY <3>1
  <2>2. IsFiniteSet(N)
    BY ImageIsFinite
  <2> QED
    BY <2>1, <2>2
<1>2. Min(N) \in N /\ \A y \in N : Min(N) <= y
  <2> HIDE DEF N
  <2> QED
    BY <1>1, MinIsLeast
<1>3. PICK x \in S : Min(N) = -x
  BY <1>2
<1>4. \A y \in S : x >= y
  <2> SUFFICES ASSUME NEW y \in S PROVE x >= y
    OBVIOUS
  <2>1. -x <= -y
    BY <1>2, <1>3
  <2>2. x \in Int /\ y \in Int
    OBVIOUS
  <2> QED
    BY <2>1, <2>2
<1>5. \E z \in S : \A y \in S : z >= y
  BY <1>4
<1> QED
  BY <1>5 DEF Max

(* Of finitely many elements one has the greatest value. *)
LEMMA LeaderExists ==
  ASSUME NEW S, IsFiniteSet(S), S # {}, NEW f, \A x \in S : f[x] \in Nat
  PROVE  \E x \in S : \A y \in S : f[x] >= f[y]
<1> DEFINE V == {f[x] : x \in S}
<1>1. IsFiniteSet(V) /\ V # {} /\ V \subseteq Int
  BY ImageIsFinite
<1>2. Max(V) \in V /\ \A v \in V : Max(V) >= v
  <2> HIDE DEF V
  <2> QED
    BY <1>1, MaxIsGreatest
<1> QED
  BY <1>2

(* There are sets of leaders of every size, with any one that none exceeds. *)
LEMMA LeadingSetsExist ==
  ASSUME NEW D, IsFiniteSet(D), NEW t, \A k \in D : t[k] \in Nat,
         NEW x \in D, \A k \in D : t[x] >= t[k]
  PROVE  \A n \in 1 .. Cardinality(D) : \E K \in SUBSET D :
           x \in K /\ Cardinality(K) = n /\ \A k \in K, l \in D \ K : t[k] >= t[l]
<1> DEFINE Leading(K, n) == /\ x \in K /\ Cardinality(K) = n
                            /\ \A k \in K, l \in D \ K : t[k] >= t[l]
           Missing == {n \in 1 .. Cardinality(D) : \A K \in SUBSET D : ~Leading(K, n)}
<1> SUFFICES ASSUME Missing # {} PROVE FALSE
  OBVIOUS
<1>1. PICK c \in Nat : c = Cardinality(D)
  BY FS_CardinalityType
<1>2. IsFiniteSet(Missing) /\ Missing \subseteq Int
  <2>1. IsFiniteSet(1 .. c)
    BY FS_Interval
  <2> QED
    BY <1>1, <2>1, FS_Subset
<1>3. PICK n \in Missing : \A m \in Missing : n <= m
  <2> HIDE DEF Missing
  <2> QED
    BY <1>2, MinIsLeast
<1>4. n \in 1 .. c
  BY <1>1
<1>5. CASE n = 1
  <2>1. Cardinality({x}) = 1
    BY FS_Singleton
  <2>2. Leading({x}, 1)
    BY <2>1
  <2> QED
    BY <1>5, <2>2
<1>6. CASE n # 1
  <2>1. n - 1 \in 1 .. c /\ ~(n <= n - 1)
    BY <1>4, <1>6
  <2>2. PICK K \in SUBSET D : Leading(K, n - 1)
    BY <1>1, <1>3, <2>1
  <2>3. IsFiniteSet(K) /\ IsFiniteSet(D \ K)
    BY FS_Subset
  <2>4. D \ K # {}
    <3>1. n - 1 # c
      BY <1>4
    <3>2. K # D
      BY <1>1, <2>2, <3>1
    <3> QED
      BY <3>2
  <2>5. PICK y \in D \ K : \A l \in D \ K : t[y] >= t[l]
    BY <2>3, <2>4, LeaderExists
  <2>6. Cardinality(K \cup {y}) = n
    <3>1. Cardinality(K \cup {y}) = Cardinality(K) + 1
      BY <2>3, FS_AddElement
    <3> QED
      BY <1>4, <2>2, <3>1
  <2>7. \A k \in K \cup {y}, l \in D \ (K \cup {y}) : t[k] >= t[l]
    BY <2>2, <2>5
  <2>8. Leading(K \cup {y}, n)
    BY <2>2, <2>6, <2>7
  <2> QED
    BY <2>8
<1> QED
  BY <1>5, <1>6

(* A subset that is as large as the whole is the whole. *)
LEMMA SameSizeIsAll ==
  ASSUME NEW D, IsFiniteSet(D), NEW K \in SUBSET D, Cardinality(K) = Cardinality(D)
  PROVE  K = D
BY FS_Subset

(* A comparison of multiples that holds row by row holds of the sums. *)
LEMMA SumsCompare ==
  ASSUME NEW S, IsFiniteSet(S), NEW f \in [S -> Nat], NEW g \in [S -> Nat],
         NEW a \in Nat, NEW b \in Nat, \A x \in S : a * f[x] <= b * g[x]
  PROVE  a * SumOf(f) <= b * SumOf(g)
<1> DEFINE T == {U \in SUBSET S : a * SumOn(f, U) <= b * SumOn(g, U)}
<1>1. ASSUME NEW U \in SUBSET S
      PROVE  IsFiniteSet(U) /\ SumOn(f, U) \in Int /\ SumOn(g, U) \in Int
  <2>1. IsFiniteSet(U) /\ (\A x \in U : f[x] \in Int) /\ \A x \in U : g[x] \in Int
    BY FS_Subset
  <2> QED
    BY <2>1, SumOnType
<1>2. ASSUME NEW U \in SUBSET S, \A V \in SUBSET U : V # U => V \in T
      PROVE  U \in T
  <2>1. CASE U = {}
    BY <2>1, SumOnEmpty
  <2>2. CASE U # {}
    <3>1. Pick(U) \in U /\ U \ {Pick(U)} \in SUBSET U /\ U \ {Pick(U)} # U
      BY <2>2, PickIn
    <3>2. PICK p \in Int, q \in Int : p = SumOn(f, U \ {Pick(U)}) /\ q = SumOn(g, U \ {Pick(U)})
      BY <1>1, <3>1
    <3>3. a * p <= b * q
      BY <1>2, <3>1, <3>2
    <3>4. PICK u \in Nat, v \in Nat : u = f[Pick(U)] /\ v = g[Pick(U)] /\ a * u <= b * v
      BY <3>1
    <3>5. SumOn(f, U) = u + p /\ SumOn(g, U) = v + q
      BY <1>1, <2>2, <3>2, <3>4, SumOnPick
    <3>6. a * (u + p) <= b * (v + q)
      <4>1. a * (u + p) = a * u + a * p /\ b * (v + q) = b * v + b * q
        OBVIOUS
      <4>2. a * u \in Int /\ a * p \in Int /\ b * v \in Int /\ b * q \in Int
        OBVIOUS
      <4> QED
        BY <3>3, <3>4, <4>1, <4>2
    <3> QED
      BY <3>5, <3>6
  <2> QED
    BY <2>1, <2>2
<1>3. S \in T
  <2> HIDE DEF T
  <2> QED
    BY <1>2, SubsetInduction
<1>4. SumOf(f) = SumOn(f, S) /\ SumOf(g) = SumOn(g, S)
  BY SumOfIsSumOn
<1> QED
  BY <1>3, <1>4

(* The sum of ones is the number of elements. *)
LEMMA OnesAddUp ==
  ASSUME NEW S, IsFiniteSet(S)
  PROVE  SumOf([x \in S |-> 1]) = Cardinality(S)
<1> DEFINE T == {U \in SUBSET S : SumOf([x \in U |-> 1]) = Cardinality(U)}
<1>1. ASSUME NEW U \in SUBSET S, \A V \in SUBSET U : V # U => V \in T
      PROVE  U \in T
  <2>1. CASE U = {}
    BY <2>1, SumOfNone, FS_EmptySet
  <2>2. CASE U # {}
    <3>1. PICK x \in U : TRUE
      BY <2>2
    <3>2. PICK V : V = U \ {x}
      OBVIOUS
    <3>3. V \in SUBSET U /\ V # U /\ x \notin V /\ V \cup {x} = U /\ IsFiniteSet(V)
      BY <3>1, <3>2, FS_Subset
    <3>4. PICK f : f = [y \in V |-> 1]
      OBVIOUS
    <3>5. PICK g : g = [y \in U |-> 1]
      OBVIOUS
    <3>6. SumOf(g) = SumOf(f) + g[x]
      <4>1. f \in [V -> Int] /\ g \in [V \cup {x} -> Int] /\ \A y \in V : g[y] = f[y]
        BY <3>3, <3>4, <3>5
      <4> QED
        BY <3>3, <4>1, SumInsert
    <3>7. SumOf(f) = Cardinality(V)
      BY <1>1, <3>3, <3>4
    <3>8. Cardinality(U) = Cardinality(V) + 1
      BY <3>3, FS_AddElement
    <3> QED
      BY <3>1, <3>5, <3>6, <3>7, <3>8
  <2> QED
    BY <2>1, <2>2
<1>2. S \in T
  <2> HIDE DEF T
  <2> QED
    BY <1>1, SubsetInduction
<1> QED
  BY <1>2

(* A sum is at most as many times the greatest of its terms. *)
LEMMA SumAtMost ==
  ASSUME NEW S, IsFiniteSet(S), NEW f \in [S -> Nat], NEW c \in Nat, \A x \in S : f[x] <= c
  PROVE  SumOf(f) <= c * Cardinality(S)
<1>1. PICK g : g = [x \in S |-> 1]
  OBVIOUS
<1>2. g \in [S -> Nat] /\ \A x \in S : 1 * f[x] <= c * g[x]
  BY <1>1
<1>3. 1 * SumOf(f) <= c * SumOf(g)
  BY <1>2, SumsCompare
<1>4. SumOf(g) = Cardinality(S) /\ SumOf(f) \in Nat
  BY <1>1, OnesAddUp, SumOfNaturals
<1> QED
  BY <1>3, <1>4
=============================================================================

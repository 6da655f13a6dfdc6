----------------------- MODULE OrderTracking_proofs ------------------------
(***************************************************************************)
(* Theorems about OrderTracking for any number of orders, QR codes and     *)
(* connections: watching changes nothing, and where the handlers run one   *)
(* after another a viewer only ever sees an order move ahead.              *)
(***************************************************************************)
EXTENDS OrderTracking, OrderLifecycle_proofs

(* Onward, written out: ALLOWED_TRANSITIONS closed under composition.        *)
Ahead ==
  [PLACED           |-> {"PLACED", "CONFIRMED", "READY", "PICKED", "CANCELLED"},
   CONFIRMED        |-> {"CONFIRMED", "READY", "PICKED", "CANCELLED"},
   READY            |-> {"READY", "PICKED", "CANCELLED"},
   PICKED           |-> {"PICKED"},
   CANCELLED        |-> {"CANCELLED"},
   PENDING          |-> {"PENDING", "CONFIRMED", "READY", "PICKED", "CANCELLED"},
   READY_FOR_PICKUP |-> {"READY_FOR_PICKUP", "PICKED", "COMPLETED", "CANCELLED"},
   COMPLETED        |-> {"COMPLETED"}]

(* One move further than the statuses of S. *)
Further(S) == S \cup UNION {AllowedTransitions[t] : t \in S}

LEMMA FurtherFrom ==
  /\ \A s \in OrderStatus : Further({s}) = {s} \cup AllowedTransitions[s]
  /\ \A s \in OrderStatus : Further(Ahead[s]) = Ahead[s]
<1>1. \A s \in OrderStatus : Further({s}) = {s} \cup AllowedTransitions[s]
  BY DEF Further
<1>2. ASSUME NEW s \in OrderStatus PROVE Further(Ahead[s]) = Ahead[s]
  <2>1. \A t \in Ahead[s] : AllowedTransitions[t] \subseteq Ahead[s]
    BY DEF Ahead, AllowedTransitions, OrderStatus
  <2> QED
    BY <2>1 DEF Further
<1> QED
  BY <1>1, <1>2

(* Three moves reach all that can be reached. *)
LEMMA OnwardIsAhead == \A s \in OrderStatus : Onward(s) = Ahead[s]
<1> SUFFICES ASSUME NEW s \in OrderStatus PROVE Onward(s) = Ahead[s]
  OBVIOUS
<1>1. Onward(s) = Further(Further(Further(Further({s}))))
  BY DEF Onward, Further
<1>2. Further(Further(Further({s}))) = Ahead[s]
  <2>1. Further({s}) = {s} \cup AllowedTransitions[s]
    BY FurtherFrom
  <2>2. \A S, T : Further(S \cup T) = Further(S) \cup Further(T)
    BY DEF Further
  <2> QED
    BY <2>1, <2>2 DEF Further, Ahead, AllowedTransitions, OrderStatus
<1> QED
  BY <1>1, <1>2, FurtherFrom

(* To be ahead is reflexive, and a move keeps it. *)
LEMMA MovesLeadOnward ==
  \A s, old, new \in OrderStatus :
    /\ s \in Onward(s)
    /\ old \in Onward(s) /\ CanTransition(old, new) => new \in Onward(s)
<1>1. \A s, old, new \in OrderStatus :
        /\ s \in Ahead[s]
        /\ old \in Ahead[s] /\ CanTransition(old, new) => new \in Ahead[s]
  BY DEF Ahead, AllowedTransitions, CanTransition, OrderStatus
<1> QED
  BY <1>1, OnwardIsAhead

-----------------------------------------------------------------------------
TrackTypeOK ==
  /\ last \in SUBSET OrderStatus
  /\ shown \in Seq(OrderStatus)
  /\ connected \in BOOLEAN

(* A viewer who is there has seen what the connection remembers as sent.     *)
LastIsShown ==
  /\ phase = "auth" => shown = <<>>
  /\ connected /\ shown # <<>> => last = {shown[Len(shown)]}

TrackInv ==
  /\ SerialInv
  /\ TrackTypeOK
  /\ LastIsShown
  /\ ViewIsAheadOnly

LEMMA TrackInitInductive == Init /\ TrackInit => TrackInv
<1> SUFFICES ASSUME Init, TrackInit PROVE TrackInv
  OBVIOUS
<1>1. last = {} /\ shown = <<>> /\ connected = FALSE
  BY DEF TrackInit
<1>2. Len(shown) = 0 /\ shown \in Seq(OrderStatus)
  BY <1>1
<1>3. TrackTypeOK /\ LastIsShown
  BY <1>1, <1>2 DEF TrackTypeOK, LastIsShown
<1>4. ViewIsAheadOnly
  BY <1>1, <1>2 DEF ViewIsAheadOnly
<1> QED
  BY <1>3, <1>4, SerialInit DEF TrackInv

LEMMA AheadWasSeen ==
  ASSUME TrackInv
  PROVE  /\ SerialInv /\ status \in [Orders -> OrderStatus] /\ Watched \in Orders
         /\ status[Watched] \in OrderStatus /\ shown \in Seq(OrderStatus)
         /\ last \in SUBSET OrderStatus
BY WatchedAssumption DEF TrackInv, SerialInv, IInv, TypeOK, TrackTypeOK

(* A handler moves the order ahead of what has been sent.                    *)
LEMMA HandlerKeepsView ==
  ASSUME OneWorker, TrackInv, [Next]_vars, UNCHANGED trackVars
  PROVE  TrackInv'
<1>1. SerialInv' /\ [Machine!Next]_status
  BY SerialNext, AheadWasSeen
<1>2. last' = last /\ shown' = shown /\ connected' = connected /\ phase' = phase
  BY DEF trackVars
<1>3. status'[Watched] = status[Watched] \/ CanTransition(status[Watched], status'[Watched])
  <2>1. CASE status' = status
    BY <2>1
  <2>2. ASSUME NEW o \in Orders, NEW s \in Machine!OrderStatus, Machine!Move(o, s)
        PROVE  status'[Watched] = status[Watched] \/ CanTransition(status[Watched], status'[Watched])
    BY <2>2, AheadWasSeen, SameTable DEF Machine!Move
  <2> QED
    BY <1>1, <2>1, <2>2 DEF Machine!Next
<1>4. status'[Watched] \in OrderStatus
  BY <1>1, WatchedAssumption DEF SerialInv, IInv, TypeOK
<1>5. ASSUME NEW s \in last PROVE status'[Watched] \in Onward(s)
  <2>1. s \in OrderStatus /\ status[Watched] \in OrderStatus /\ status[Watched] \in Onward(s)
    BY AheadWasSeen DEF TrackInv, ViewIsAheadOnly
  <2> QED
    BY <1>3, <1>4, <2>1, MovesLeadOnward
<1>6. ViewIsAheadOnly'
  BY <1>2, <1>5 DEF TrackInv, ViewIsAheadOnly
<1> QED
  BY <1>1, <1>2, <1>6 DEF TrackInv, TrackTypeOK, LastIsShown

(* What is sent now lies ahead of what was sent last.                        *)
LEMMA ShowKeepsView ==
  ASSUME TrackInv, Show(status[Watched]),
         phase \in {"auth", "polling"}, phase = "polling" => status[Watched] \notin last
  PROVE  TrackInv'
<1>1. PICK s \in OrderStatus : s = status[Watched]
  BY AheadWasSeen
<1>2. /\ last' = {s} /\ shown' = IF connected THEN Append(shown, s) ELSE shown
      /\ connected' = connected /\ phase' \in {"polling", "closed"} /\ UNCHANGED vars
  BY <1>1 DEF Show, Close
<1>3. SerialInv'
  <2>1. UNCHANGED <<status, history, qr, pickup, rewards, notices, handed, req, aborts>>
    BY <1>2 DEF vars, rows
  <2> QED
    BY <2>1, AheadWasSeen DEF SerialInv, IInv, TypeOK, RequestsHoldRows, PickupStatusIsEarned,
       OrderHadBeenReady, Recorded, PendingPickupIsEarned, HandedOverOnlyWhenReady, ChecksAreFresh,
       RewardIsBehind, RewardedAtMostOnce, HandedCodesResolve
<1>4. status'[Watched] = s /\ s \in Onward(s)
  BY <1>1, <1>2, MovesLeadOnward DEF vars, rows
<1>5. \A x \in last' : status'[Watched] \in Onward(x)
  BY <1>2, <1>4
<1>6. CASE connected
  <2>1. /\ shown' = Append(shown, s) /\ shown \in Seq(OrderStatus) /\ shown' \in Seq(OrderStatus)
        /\ Len(shown') = Len(shown) + 1 /\ shown'[Len(shown')] = s
        /\ \A i \in 1 .. Len(shown) : shown'[i] = shown[i]
    BY <1>2, <1>6, AheadWasSeen
  <2>2. ASSUME shown # <<>>
        PROVE  s # shown[Len(shown)] /\ s \in Onward(shown[Len(shown)])
    <3>1. phase = "polling" /\ last = {shown[Len(shown)]}
      BY <1>6, <2>2 DEF TrackInv, LastIsShown
    <3> QED
      BY <1>1, <3>1 DEF TrackInv, ViewIsAheadOnly
  <2>3. ASSUME NEW i \in 1 .. Len(shown') - 1
        PROVE  shown'[i + 1] # shown'[i] /\ shown'[i + 1] \in Onward(shown'[i])
    <3>1. CASE i = Len(shown)
      <4>1. shown # <<>> /\ shown'[i + 1] = s /\ shown'[i] = shown[Len(shown)]
        BY <2>1, <2>3, <3>1
      <4> QED
        BY <2>2, <4>1
    <3>2. CASE i # Len(shown)
      <4>1. Len(shown) \in Nat /\ i \in 1 .. Len(shown) - 1 /\ i + 1 \in 1 .. Len(shown) /\ i \in 1 .. Len(shown)
        BY <2>1, <2>3, <3>2
      <4>2. shown'[i + 1] = shown[i + 1] /\ shown'[i] = shown[i]
        BY <2>1, <4>1
      <4>3. shown[i + 1] # shown[i] /\ shown[i + 1] \in Onward(shown[i])
        BY <4>1 DEF TrackInv, ViewIsAheadOnly
      <4> QED
        BY <4>2, <4>3
    <3> QED
      BY <3>1, <3>2
  <2>4. ViewIsAheadOnly'
    BY <1>5, <2>3 DEF ViewIsAheadOnly, Onward
  <2>5. TrackTypeOK' /\ LastIsShown'
    BY <1>2, <2>1 DEF TrackInv, TrackTypeOK, LastIsShown
  <2> QED
    BY <1>3, <2>4, <2>5 DEF TrackInv
<1>7. CASE ~connected
  <2>1. shown' = shown
    BY <1>2, <1>7
  <2>2. ViewIsAheadOnly'
    BY <1>5, <2>1 DEF TrackInv, ViewIsAheadOnly, Onward
  <2>3. TrackTypeOK' /\ LastIsShown'
    BY <1>2, <1>7, <2>1 DEF TrackInv, TrackTypeOK, LastIsShown
  <2> QED
    BY <1>3, <2>2, <2>3 DEF TrackInv
<1> QED
  BY <1>6, <1>7

(* A connection begins, is refused or loses its viewer.                      *)
LEMMA ConnectionKeepsView ==
  ASSUME TrackInv, Connect \/ Refuse \/ Leave
  PROVE  TrackInv'
<1>1. UNCHANGED <<status, history, qr, pickup, rewards, notices, handed, req, aborts>>
  BY DEF Connect, Refuse, Leave, vars, rows
<1>2. SerialInv'
  BY <1>1, AheadWasSeen DEF SerialInv, IInv, TypeOK, RequestsHoldRows, PickupStatusIsEarned,
     OrderHadBeenReady, Recorded, PendingPickupIsEarned, HandedOverOnlyWhenReady, ChecksAreFresh,
     RewardIsBehind, RewardedAtMostOnce, HandedCodesResolve
<1>3. CASE Connect
  <2>1. last' = {} /\ shown' = <<>> /\ connected' = TRUE
    BY <1>3 DEF Connect
  <2> QED
    BY <1>2, <2>1 DEF TrackInv, TrackTypeOK, LastIsShown, ViewIsAheadOnly
<1>4. CASE Refuse \/ Leave
  <2>1. last' = last /\ shown' = shown /\ connected' \in {connected, FALSE} /\ phase' \in {phase, "closed"}
    BY <1>4 DEF Refuse, Leave, Close
  <2>2. ViewIsAheadOnly'
    BY <1>1, <2>1 DEF TrackInv, ViewIsAheadOnly
  <2>3. connected' \in BOOLEAN
    BY <2>1 DEF TrackInv, TrackTypeOK
  <2>4. TrackTypeOK'
    BY <2>1, <2>3 DEF TrackInv, TrackTypeOK
  <2>5. phase' = "auth" => phase = "auth"
    BY <2>1
  <2>6. connected' => connected
    BY <2>1, Zenon
  <2>7. LastIsShown'
    BY <2>1, <2>5, <2>6, Zenon DEF TrackInv, LastIsShown
  <2> QED
    BY <1>2, <2>2, <2>4, <2>7 DEF TrackInv
<1> QED
  BY <1>3, <1>4

LEMMA TrackNextInductive ==
  ASSUME OneWorker, TrackInv, [TrackNext]_allVars PROVE TrackInv'
<1>1. CASE [Next]_vars /\ UNCHANGED trackVars
  BY <1>1, HandlerKeepsView
<1>2. CASE Authenticate \/ Poll
  BY <1>2, ShowKeepsView DEF Authenticate, Poll
<1>3. CASE Connect \/ Refuse \/ Leave
  BY <1>3, ConnectionKeepsView
<1> QED
  BY <1>1, <1>2, <1>3 DEF TrackNext, TrackStep, allVars

(* Watching an order changes none of its rows: whatever Spec guarantees holds *)
(* while it is watched (orders/ws_router.py:144-240 only reads).             *)
THEOREM WatchingIsHarmless == TrackSpec => Spec
<1>1. [TrackNext]_allVars => [Next]_vars
  BY DEF TrackNext, TrackStep, allVars, Connect, Refuse, Authenticate, Poll, Leave, Show
<1> QED
  BY <1>1, PTL DEF TrackSpec, Spec

(* Where handlers run one after another, every status a viewer is sent lies  *)
(* ahead of the one before in ALLOWED_TRANSITIONS, whatever the polls miss   *)
(* (orders/ws_router.py:205-231).                                            *)
THEOREM ViewsGoAhead == OneWorker /\ TrackSpec => []ViewIsAheadOnly
<1> SUFFICES ASSUME OneWorker PROVE TrackSpec => []ViewIsAheadOnly
  OBVIOUS
<1>1. TrackInv /\ [TrackNext]_allVars => TrackInv'
  BY TrackNextInductive
<1>2. TrackInv => ViewIsAheadOnly
  BY DEF TrackInv
<1> QED
  BY <1>1, <1>2, TrackInitInductive, PTL DEF TrackSpec
=============================================================================

---------------------------- MODULE OrderTracking ----------------------------
(***************************************************************************)
(* The order-tracking WebSocket (orders/ws_router.py) beside the handlers  *)
(* of OrderLifecycle.  The endpoint authenticates, sends one snapshot and  *)
(* then polls the row; between two polls the order may move several times  *)
(* and the viewer may go away.  manager.send swallows every exception and  *)
(* the loop never receives, so nothing tells it that the viewer is gone.   *)
(***************************************************************************)
EXTENDS OrderLifecycle

CONSTANTS
  Watched,     \* the order that is watched
  MaxViewings  \* bound: connections

ASSUME WatchedAssumption == Watched \in Orders
ASSUME MaxViewingsAssumption == MaxViewings \in Nat

VARIABLES
  phase,      \* of the connection: "none", "auth", "polling" or "closed"
  last,       \* last_status, {} before the first snapshot
  shown,      \* statuses sent to the viewer, oldest first
  connected,  \* the viewer is at the other end
  viewings    \* connections so far

trackVars == <<phase, last, shown, connected, viewings>>
allVars == <<vars, trackVars>>

\* Mutant: a list that misses a status.
TerminalShownWithoutPicked == {"COMPLETED", "CANCELLED"}

\* _TERMINAL_STATES: a list of its own, beside the transition table.
TerminalShown == {"PICKED", "COMPLETED", "CANCELLED"}

TrackInit ==
  /\ phase = "none" /\ last = {} /\ shown = <<>>
  /\ connected = FALSE /\ viewings = 0

-----------------------------------------------------------------------------
\* manager.connect.
Connect ==
  /\ phase \in {"none", "closed"} /\ viewings < MaxViewings
  /\ phase' = "auth" /\ last' = {} /\ shown' = <<>>
  /\ connected' = TRUE /\ viewings' = viewings + 1
  /\ UNCHANGED vars

Close ==
  /\ phase' = "closed"
  /\ UNCHANGED <<connected, viewings>>

\* No token in ten seconds, an invalid one, or the viewer left.
Refuse ==
  /\ phase = "auth"
  /\ Close
  /\ UNCHANGED <<last, shown, vars>>

\* The snapshot of the row goes out; a terminal one ends the stream.
Show(s) ==
  /\ last' = {s}
  /\ shown' = IF connected THEN Append(shown, s) ELSE shown
  /\ IF s \in TerminalShown THEN Close
     ELSE /\ phase' = "polling"
          /\ UNCHANGED <<connected, viewings>>
  /\ UNCHANGED vars

Authenticate ==
  /\ phase = "auth" /\ connected
  /\ Show(status[Watched])

\* Mutant: every poll is sent.
PollAlways ==
  /\ phase = "polling"
  /\ Show(status[Watched])

\* One turn of the loop: a status that changed is sent.
Poll ==
  /\ phase = "polling"
  /\ status[Watched] \notin last
  /\ Show(status[Watched])

\* The viewer closes the app or loses the network.
Leave ==
  /\ phase \in {"auth", "polling"} /\ connected
  /\ connected' = FALSE
  /\ UNCHANGED <<phase, last, shown, viewings, vars>>

-----------------------------------------------------------------------------
TrackStep == Connect \/ Refuse \/ Authenticate \/ Poll \/ Leave

TrackNext == (Next /\ UNCHANGED trackVars) \/ TrackStep

\* The event loop keeps turning the loop of every connection, and the ten
\* seconds of an unauthenticated one run out.  No client is obliged to act.
TrackSpec ==
  /\ Init /\ TrackInit /\ [][TrackNext]_allVars
  /\ WF_allVars(Poll)
  /\ WF_allVars(Refuse)

-----------------------------------------------------------------------------
\* Statuses reachable from s in the transition table.
Onward(s) ==
  LET Next1(S) == S \cup UNION {AllowedTransitions[t] : t \in S}
  IN Next1(Next1(Next1(Next1({s}))))

(* While one handler runs at a time, a viewer never sees an order go back:   *)
(* each status she is sent lies ahead of the one before, though the polls    *)
(* miss those in between, and the row is at or ahead of what she saw last.   *)
ViewIsAheadOnly ==
  /\ \A i \in 1 .. Len(shown) - 1 :
       shown[i + 1] # shown[i] /\ shown[i + 1] \in Onward(shown[i])
  /\ \A s \in last : status[Watched] \in Onward(s)

(* "When order reaches a terminal state, server sends final snapshot then    *)
(* closes the connection" (ws_router.py:166): a viewer who stays is sent the *)
(* end of the order and released, whatever the handlers did in between.      *)
ViewersHearTheEnd ==
  phase = "polling" /\ status[Watched] \in Terminal
    ~> phase = "closed" /\ (connected => \E i \in 1 .. Len(shown) : shown[i] \in Terminal)

(* "If the client disconnects at any point, the server cleans up silently"   *)
(* (ws_router.py:168): the connection of a viewer who left ends.             *)
LostViewersAreDropped == phase = "polling" /\ ~connected ~> phase = "closed"
=============================================================================

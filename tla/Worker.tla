------------------------------- MODULE Worker -------------------------------
(***************************************************************************)
(* How requests run.  A handler is a plain function that FastAPI executes  *)
(* in a worker thread with a database session of its own (get_db), so the  *)
(* handlers of two requests interleave at every statement that reads or    *)
(* commits.  A request in progress is a task: a record whose field "at"    *)
(* says which statement comes next and whose other fields are what the     *)
(* handler has in its local variables and its session.  The modules of the *)
(* services that EXTEND this one say what the statements do.               *)
(***************************************************************************)
EXTENDS Naturals, FiniteSets

CONSTANTS
  Workers,      \* worker threads
  MaxRequests,  \* bound: requests
  MaxAborts     \* bound: requests that die

ASSUME WorkerBounds == MaxRequests \in Nat /\ MaxAborts \in Nat
ASSUME WorkersAssumption == IsFiniteSet(Workers)

VARIABLES
  work,   \* the task of each worker
  begun,  \* requests so far
  raced,  \* some request began while another was in progress (history)
  died    \* requests that died so far

workVars == <<work, begun, raced, died>>

Rest == [at |-> "rest"]

WorkInit ==
  /\ work = [w \in Workers |-> Rest]
  /\ begun = 0
  /\ raced = FALSE
  /\ died = 0

\* A request arrives, and overlaps whatever is in progress.
Arrive ==
  /\ begun < MaxRequests
  /\ begun' = begun + 1
  /\ raced' = (raced \/ \E w \in Workers : work[w] # Rest)

\* A worker takes a request up.
Begin(w, task) ==
  /\ work[w] = Rest
  /\ Arrive
  /\ work' = [work EXCEPT ![w] = task]
  /\ UNCHANGED died

\* A request whose handler is a single statement.
AtOnce == Arrive /\ UNCHANGED <<work, died>>

Continue(w, task) ==
  /\ work' = [work EXCEPT ![w] = task]
  /\ UNCHANGED <<begun, raced, died>>

Finish(w) == Continue(w, Rest)

\* The process or its connection is gone; the session is rolled back.
Die(w) ==
  /\ work[w] # Rest
  /\ died < MaxAborts
  /\ died' = died + 1
  /\ work' = [work EXCEPT ![w] = Rest]
  /\ UNCHANGED <<begun, raced>>

WorkTypeOK ==
  /\ begun \in 0 .. MaxRequests
  /\ raced \in BOOLEAN
  /\ died \in 0 .. MaxAborts
=============================================================================

----------------------------- MODULE Complaints ------------------------------
(***************************************************************************)
(* Complaints (complaints/router.py): a student files one, admins assign   *)
(* it to a vendor, set its status and escalate it.  A handler loads the    *)
(* row, checks it, assigns attributes and commits; what was assigned the   *)
(* value that was loaded is not written.                                   *)
(***************************************************************************)
EXTENDS Session, Worker

CONSTANTS
  Cases,     \* complaints that may be filed
  Assignees  \* vendors

VARIABLES
  complaint,  \* the rows
  granted,    \* what the last request answered with success asked for (history)
  reopened    \* a closed complaint was escalated (history)

caseRows == <<complaint, granted, reopened>>
caseVars == <<caseRows, workVars>>

ComplaintStatus == {"OPEN", "ASSIGNED", "IN_PROGRESS", "RESOLVED", "REJECTED", "ESCALATED"}
Closed == {"RESOLVED", "REJECTED"}

Nobody == "nobody"
Complaint == [assignee : Assignees \cup {Nobody}, status : ComplaintStatus]
Unfiled == [status |-> "none"]
Filed == {c \in Cases : complaint[c] # Unfiled}

CasesInit ==
  /\ complaint = [c \in Cases |-> Unfiled]
  /\ granted = complaint
  /\ reopened = FALSE

-----------------------------------------------------------------------------
\* create_complaint: the vendor it is about is that of the order, if any.
FileComplaint(c) ==
  LET row == [assignee |-> Nobody, status |-> "OPEN"]
  IN /\ c \notin Filed
     /\ AtOnce
     /\ complaint' = [complaint EXCEPT ![c] = row]
     /\ granted' = [granted EXCEPT ![c] = row]
     /\ UNCHANGED reopened

Handle(w, op, c, set) ==
  /\ Begin(w, [at |-> "case", op |-> op, case |-> c, loaded |-> complaint[c], set |-> set])
  /\ UNCHANGED caseRows

\* Whatever the status is: a closed complaint is open again.
BeginAssign(w, c, v) ==
  c \in Filed /\ Handle(w, "assign", c, [assignee |-> v, status |-> "ASSIGNED"])

BeginStatus(w, c, s) ==
  c \in Filed /\ Handle(w, "status", c, [complaint[c] EXCEPT !.status = s])

\* Mutant: closed complaints are escalated too.
BeginEscalateAny(w, c) ==
  c \in Filed /\ Handle(w, "escalate", c, [complaint[c] EXCEPT !.status = "ESCALATED"])

BeginEscalate(w, c) ==
  /\ c \in Filed /\ complaint[c].status \notin Closed
  /\ Handle(w, "escalate", c, [complaint[c] EXCEPT !.status = "ESCALATED"])

CommitCase(w) ==
  LET t == work[w]
      row == complaint[t.case]
  IN /\ t.at = "case"
     /\ complaint' = [complaint EXCEPT ![t.case] =
          [assignee |-> Flushed(t.set.assignee, t.loaded.assignee, row.assignee),
           status   |-> Flushed(t.set.status, t.loaded.status, row.status)]]
     /\ granted' = [granted EXCEPT ![t.case] =
          [assignee |-> IF t.op = "assign" THEN t.set.assignee ELSE granted[t.case].assignee,
           status   |-> t.set.status]]
     /\ reopened' = (reopened \/ (t.op = "escalate" /\ row.status \in Closed))
     /\ Finish(w)

-----------------------------------------------------------------------------
CaseStep(w) ==
  \/ \E c \in Cases : \/ \E v \in Assignees : BeginAssign(w, c, v)
                      \/ \E s \in ComplaintStatus : BeginStatus(w, c, s)
                      \/ BeginEscalate(w, c)
  \/ CommitCase(w)
  \/ Die(w) /\ UNCHANGED caseRows

CasesNext == (\E c \in Cases : FileComplaint(c)) \/ \E w \in Workers : CaseStep(w)

CasesSpec == CasesInit /\ WorkInit /\ [][CasesNext]_caseVars

-----------------------------------------------------------------------------
CasesTypeOK ==
  /\ WorkTypeOK
  /\ complaint \in [Cases -> Complaint \cup {Unfiled}]
  /\ granted \in [Cases -> Complaint \cup {Unfiled}]
  /\ reopened \in BOOLEAN

(* As long as no two requests overlapped a complaint is with the vendor and  *)
(* in the status that was last answered, and a closed one was never          *)
(* escalated (complaints/router.py:144-148, 194-198).  Two assignments that  *)
(* overlap may leave it with the vendor nobody was told: who assigns the     *)
(* vendor she loaded writes no column.                                       *)
ComplaintsAreHandled == ~raced => complaint = granted /\ ~reopened
=============================================================================

------------------------------- MODULE Notices -------------------------------
(***************************************************************************)
(* Notifications (notifications/service.py, notifications/router.py) and   *)
(* the announcement of an admin (admin/router.py).  notify_user flushes a  *)
(* row into the transaction of its caller and sends the text before that   *)
(* transaction commits; whatever the text comes to, the caller never       *)
(* learns.                                                                 *)
(***************************************************************************)
EXTENDS SmsDelivery

CONSTANT Readers  \* users

VARIABLES
  notices,  \* rows of each user that are not read
  read,     \* rows of each user that are
  reached,  \* texts send_sms was asked for, by user (history)
  lost      \* announcements made (history)

noticeRows == <<notices, read, reached, lost>>
noticeVars == <<noticeRows, smsVars, workVars>>

NoticesInit ==
  /\ notices = [u \in Readers |-> 0]
  /\ read = notices /\ reached = notices
  /\ lost = 0

Waiting == {w \in Workers : work[w].at \in {"dialing", "redialing"}}

\* A text not used yet: each is sent once.
FreshTexts ==
  {n \in Texts : outcome[n] = "none" /\ inbox[n] = 0 /\ \A w \in Waiting : work[w].text # n}

\* notify_user: the row is in the session, the text is on its way.
Notify(w, u, then) ==
  /\ FreshTexts # {}
  /\ reached' = [reached EXCEPT ![u] = @ + 1]
  /\ Continue(w, [at |-> "dialing", text |-> CHOOSE n \in FreshTexts : TRUE, then |-> then])
  /\ UNCHANGED <<notices, read, lost>>

-----------------------------------------------------------------------------
\* Any handler that changes something and tells a user of it.
BeginNotice(w, u) ==
  /\ Begin(w, [at |-> "changed", user |-> u])
  /\ UNCHANGED noticeRows

SendNotice(w) ==
  /\ work[w].at = "changed"
  /\ Notify(w, work[w].user, [at |-> "notified", user |-> work[w].user])

CommitNotice(w) ==
  /\ work[w].at = "notified"
  /\ notices' = [notices EXCEPT ![work[w].user] = @ + 1]
  /\ Finish(w)
  /\ UNCHANGED <<read, reached, lost>>

\* Mutant: the read copy is added and the unread row stays.
MarkAsReadKeeping(u) ==
  /\ notices[u] > 0
  /\ AtOnce
  /\ read' = [read EXCEPT ![u] = @ + 1]
  /\ UNCHANGED <<notices, reached, lost>>

MarkAsRead(u) ==
  /\ notices[u] > 0
  /\ AtOnce
  /\ notices' = [notices EXCEPT ![u] = @ - 1]
  /\ read' = [read EXCEPT ![u] = @ + 1]
  /\ UNCHANGED <<reached, lost>>

\* send_global_announcement: one user after the other.
BeginAnnounce(w) ==
  /\ Begin(w, [at |-> "announcing", rest |-> Readers])
  /\ UNCHANGED noticeRows

Announce(w) ==
  /\ work[w].at = "announcing"
  /\ \E u \in work[w].rest :
       Notify(w, u, [at |-> "announcing", rest |-> work[w].rest \ {u}])

\* It answers "sent to all users" and never commits: get_db closes the session.
EndAnnounce(w) ==
  /\ work[w].at = "announcing" /\ work[w].rest = {}
  /\ lost' = lost + 1
  /\ Finish(w)
  /\ UNCHANGED <<notices, read, reached>>

-----------------------------------------------------------------------------
NoticeStep(w) ==
  \/ \E u \in Readers : BeginNotice(w, u)
  \/ SendNotice(w)
  \/ CommitNotice(w)
  \/ BeginAnnounce(w)
  \/ Announce(w)
  \/ EndAnnounce(w)
  \/ Die(w) /\ UNCHANGED noticeRows

NoticesNext ==
  \/ UNCHANGED smsVars
     /\ ((\E w \in Workers : NoticeStep(w)) \/ \E u \in Readers : MarkAsRead(u))
  \/ UNCHANGED noticeRows /\ \E w \in Workers : SmsStep(w)

NoticesSpec == NoticesInit /\ SmsInit /\ WorkInit /\ [][NoticesNext]_noticeVars

-----------------------------------------------------------------------------
NoticesTypeOK ==
  /\ WorkTypeOK /\ SmsTypeOK
  /\ {notices, read, reached} \subseteq [Readers -> Nat]
  /\ lost \in Nat

Quiet == \A w \in Workers : work[w] = Rest

(* Nobody has a row in the app she was not also texted about, and unless a   *)
(* request died between the text and the commit the texts are the rows and   *)
(* the announcements, whether or not they arrived                            *)
(* (notifications/service.py:25-32, admin/router.py:382-390).                *)
NoticesAreTexted ==
  \A u \in Readers :
    /\ notices[u] + read[u] <= reached[u]
    /\ Quiet /\ died = 0 => notices[u] + read[u] + lost = reached[u]

(* "creates notification for all active users"                               *)
(* (FEATURE_ANALYSIS_REPORT.md:269): after an announcement every user has a  *)
(* row.  Not so: the rows are flushed and rolled back.                       *)
AnnouncementsAreKept ==
  Quiet /\ died = 0 /\ lost > 0 => \A u \in Readers : notices[u] + read[u] > 0
=============================================================================

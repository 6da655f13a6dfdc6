---------------------------- MODULE UserProfiles ----------------------------
(***************************************************************************)
(* One vendor's users row: approve, reject and toggle (admin/router.py)    *)
(* and the two writers of preferences (users/router.py).  A handler loads  *)
(* the row, sets attributes and commits; the session writes the columns    *)
(* whose value differs from what was loaded, and those only.               *)
(***************************************************************************)
EXTENDS Naturals, Session, Worker

CONSTANTS
  PrefKeys,  \* fields of UserPreferencesUpdate
  Defaulted, \* the two enable_... fields: True, not None, when left out
  MaxPrefs   \* bound: values a field takes, 1 being the default

ASSUME PrefsAssumption == MaxPrefs \in Nat \ {0} /\ Defaulted \subseteq PrefKeys

VARIABLES
  standing,  \* is_approved and is_active
  prefs,     \* the JSON column preferences: field -> value, 0 for none
  toggled,   \* some toggle was committed (history)
  accepted   \* the value of each field last answered (history)

profileRows == <<standing, prefs, toggled, accepted>>
profileVars == <<profileRows, workVars>>

Standing == [approved : BOOLEAN, active : BOOLEAN]
Prefs == [PrefKeys -> 0 .. MaxPrefs]

ProfilesInit ==
  /\ standing = [approved |-> FALSE, active |-> TRUE]
  /\ prefs = [k \in PrefKeys |-> 0]
  /\ toggled = FALSE
  /\ accepted = prefs

\* The UPDATE of a flush: columns that were set to what they held are left out.
Written(row, loaded, set) ==
  [approved |-> Flushed(set.approved, loaded.approved, row.approved),
   active   |-> Flushed(set.active, loaded.active, row.active)]

-----------------------------------------------------------------------------
\* approve_vendor, reject_vendor up to the commit.
BeginDecision(w) ==
  /\ \E b \in BOOLEAN :
       Begin(w, [at |-> "standing", loaded |-> standing, set |-> [approved |-> b, active |-> b]])
  /\ UNCHANGED profileRows

\* toggle_user.
BeginToggle(w) ==
  /\ Begin(w, [at |-> "toggle", loaded |-> standing,
               set |-> [approved |-> standing.approved, active |-> ~standing.active]])
  /\ UNCHANGED profileRows

CommitStanding(w) ==
  LET t == work[w]
  IN /\ t.at \in {"standing", "toggle"}
     /\ standing' = Written(standing, t.loaded, t.set)
     /\ toggled' = (toggled \/ t.at = "toggle")
     /\ Finish(w)
     /\ UNCHANGED <<prefs, accepted>>

\* What p says of the fields in K, and row of the others.
Supplied(K, p, row) == [k \in PrefKeys |-> IF k \in K THEN p[k] ELSE row[k]]

\* update_preferences: the fields in K, and those that have a default, are merged
\* into the ones loaded.
BeginPrefs(w) ==
  /\ \E K \in SUBSET PrefKeys, p \in [PrefKeys -> 1 .. MaxPrefs] :
       /\ \A k \in Defaulted \ K : p[k] = 1
       /\ Begin(w, [at |-> "prefs", loaded |-> prefs, keys |-> K,
                    set |-> Supplied(K \cup Defaulted, p, prefs)])
  /\ UNCHANGED profileRows

\* update_profile: the column is replaced, and the fields left out are gone.
BeginProfile(w) ==
  /\ \E p \in Prefs : Begin(w, [at |-> "prefs", loaded |-> prefs, set |-> p, keys |-> PrefKeys])
  /\ UNCHANGED profileRows

\* Mutant: the supplied fields replace the column.
CommitPrefsAlone(w) ==
  LET t == work[w]
  IN /\ t.at = "prefs"
     /\ prefs' = [k \in PrefKeys |-> IF k \in t.keys THEN t.set[k] ELSE 0]
     /\ accepted' = Supplied(t.keys, t.set, accepted)
     /\ Finish(w)
     /\ UNCHANGED <<standing, toggled>>

\* The whole column is written, or nothing when it is what was loaded.
CommitPrefs(w) ==
  LET t == work[w]
  IN /\ t.at = "prefs"
     /\ prefs' = Flushed(t.set, t.loaded, prefs)
     /\ accepted' = Supplied(t.keys, t.set, accepted)
     /\ Finish(w)
     /\ UNCHANGED <<standing, toggled>>

-----------------------------------------------------------------------------
ProfileStep(w) ==
  \/ BeginDecision(w)
  \/ BeginToggle(w)
  \/ CommitStanding(w)
  \/ BeginPrefs(w)
  \/ BeginProfile(w)
  \/ CommitPrefs(w)
  \/ Die(w) /\ UNCHANGED profileRows

ProfilesNext == \E w \in Workers : ProfileStep(w)

ProfilesSpec == ProfilesInit /\ WorkInit /\ [][ProfilesNext]_profileVars

-----------------------------------------------------------------------------
ProfilesTypeOK ==
  /\ WorkTypeOK
  /\ standing \in Standing
  /\ prefs \in Prefs /\ accepted \in Prefs
  /\ toggled \in BOOLEAN

(* As long as no two requests overlapped and no admin toggled the row, an    *)
(* approved vendor may log in and work: approval and rejection set both      *)
(* columns (admin/router.py:43-44, 66-67), but each writes only those that   *)
(* differ from what it loaded, and two that overlap leave a mixture.         *)
ApprovedIsActive == ~raced /\ ~toggled => (standing.approved => standing.active)

(* As long as no two requests overlapped every field without a default holds *)
(* what it was last sent as (users/router.py:43-108).                        *)
PrefsAreKept == ~raced => \A k \in PrefKeys \ Defaulted : prefs[k] = accepted[k]

(* "Any field left as null is ignored ... partial updates are safe to call   *)
(* without overwriting unrelated preference fields" (users/router.py:87-89). *)
(* Not so: a field that is left out and has a default is set to it.          *)
UnsentFieldsAreKept == ~raced => prefs = accepted

(* Without overlapping requests a row of users is what its writers meant.    *)
ProfileIsWhole == ApprovedIsActive /\ PrefsAreKept
=============================================================================

---------------------------- MODULE AdminSettings ----------------------------
(***************************************************************************)
(* A setting an admin makes: the emergency shutdown (core/emergency.py)    *)
(* and the two policies (core/university_policy.py,                        *)
(* core/faculty_policy.py) are kept the same way.  The setter writes a     *)
(* variable of the process, then Redis, and ignores a Redis that is out of *)
(* reach; the getter prefers Redis and falls back to the variable.         *)
(***************************************************************************)
EXTENDS Naturals, Worker

CONSTANTS
  Settings,  \* values of the setting
  Default    \* the one a fresh process starts with

ASSUME DefaultAssumption == Default \in Settings

VARIABLES
  stored,    \* the Redis key: {} or {value}
  fallback,  \* _fallback_shutdown_enabled / _fallback_policy
  reachable, \* Redis answers
  latest,    \* the setting last answered to an admin (history)
  missed,    \* ... and Redis did not get it (history)
  restarted  \* the process started after that (history)

settingRows == <<stored, fallback, reachable, latest, missed, restarted>>
settingVars == <<settingRows, workVars>>

SettingsInit ==
  /\ stored = {} /\ fallback = Default /\ reachable = TRUE
  /\ latest = Default /\ missed = FALSE /\ restarted = FALSE

\* is_emergency_shutdown_enabled, get_university_policy, get_faculty_priority_policy.
InForce == IF reachable /\ stored # {} THEN CHOOSE v \in stored : TRUE ELSE fallback

-----------------------------------------------------------------------------
\* Mutant: the assignment is to a local variable (no "global").
AssignSettingLocally(w, v) ==
  /\ Begin(w, [at |-> "assigned", value |-> v])
  /\ UNCHANGED settingRows

AssignSetting(w, v) ==
  /\ Begin(w, [at |-> "assigned", value |-> v])
  /\ fallback' = v
  /\ UNCHANGED <<stored, reachable, latest, missed, restarted>>

\* Redis is written, or cannot be, and the admin is answered either way.
StoreSetting(w) ==
  LET v == work[w].value
  IN /\ work[w].at = "assigned"
     /\ stored' = IF reachable THEN {v} ELSE stored
     /\ missed' = ~reachable
     /\ latest' = v
     /\ restarted' = FALSE
     /\ Finish(w)
     /\ UNCHANGED <<fallback, reachable>>

\* The process is started again: its requests and its variables are gone.
Restart ==
  /\ died < MaxAborts
  /\ died' = died + 1
  /\ work' = [w \in Workers |-> Rest]
  /\ fallback' = Default
  /\ restarted' = TRUE
  /\ UNCHANGED <<stored, reachable, latest, missed, begun, raced>>

\* Redis goes out of reach, or comes back with what it held.
Outage ==
  /\ reachable' = ~reachable
  /\ UNCHANGED <<stored, fallback, latest, missed, restarted, workVars>>

-----------------------------------------------------------------------------
SettingsNext ==
  \/ \E w \in Workers : (\E v \in Settings : AssignSetting(w, v)) \/ StoreSetting(w)
  \/ Restart
  \/ Outage

SettingsSpec == SettingsInit /\ WorkInit /\ [][SettingsNext]_settingVars

-----------------------------------------------------------------------------
SettingsTypeOK ==
  /\ WorkTypeOK
  /\ stored \subseteq Settings /\ fallback \in Settings /\ latest \in Settings
  /\ reachable \in BOOLEAN /\ missed \in BOOLEAN /\ restarted \in BOOLEAN

(* As long as no two admins overlapped, the setting last answered is the one *)
(* in force: with Redis, unless Redis missed it; without, unless the process *)
(* was started since (core/emergency.py:7-27).  A setting made during an     *)
(* outage is overruled by the older one when Redis comes back.               *)
LatestIsInForce ==
  ~raced /\ (\A w \in Workers : work[w] = Rest)
    /\ (IF reachable THEN ~missed ELSE ~restarted)
    => InForce = latest
=============================================================================

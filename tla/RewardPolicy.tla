---------------------------- MODULE RewardPolicy -----------------------------
(***************************************************************************)
(* The off-peak bonus policy, its audit and the default rules              *)
(* (rewards/service.py:404-522).  A request loads the newest policy row,   *)
(* assigns every column and commits it with an audit row; the flush leaves *)
(* out the columns that hold what was loaded.                              *)
(***************************************************************************)
EXTENDS SequencesExt, Session, Worker

CONSTANTS
  Hours,    \* hours an admin may enter
  Bonuses   \* bonus_points_per_order an admin may enter

ASSUME PolicyAssumption == {15, 17} \subseteq Hours /\ Hours \subseteq 0 .. 24 /\ 10 \in Bonuses

VARIABLES
  policies,  \* offpeak_reward_policies, by id
  audit,     \* offpeak_reward_policy_audit, by id
  rules      \* the rows of reward_rules and redemption_rules are there

policyRows == <<policies, audit, rules>>
policyVars == <<policyRows, workVars>>

Policy == [enabled : BOOLEAN, start : Hours, end : Hours, bonus : Bonuses]

\* The ValueErrors of set_offpeak_policy.
Legal(p) == p.start <= 23 /\ p.start < p.end /\ p.bonus >= 0

DefaultPolicy == [enabled |-> FALSE, start |-> 15, end |-> 17, bonus |-> 10]

PolicyInit ==
  /\ policies = <<>> /\ audit = <<>>
  /\ rules = FALSE

\* get_offpeak_policy.
PolicyInForce == IF policies = <<>> THEN DefaultPolicy ELSE Last(policies)

-----------------------------------------------------------------------------
\* The newest row is loaded, row 0 for none.
Load(p) == [at |-> "policy", set |-> p, row |-> Len(policies), loaded |-> PolicyInForce]

BeginPolicy(w) ==
  /\ \E p \in Policy : Legal(p) /\ Begin(w, Load(p))
  /\ UNCHANGED policyRows

\* The UPDATE of a flush.
Merged(row, t) ==
  [enabled |-> Flushed(t.set.enabled, t.loaded.enabled, row.enabled),
   start   |-> Flushed(t.set.start, t.loaded.start, row.start),
   end     |-> Flushed(t.set.end, t.loaded.end, row.end),
   bonus   |-> Flushed(t.set.bonus, t.loaded.bonus, row.bonus)]

\* Mutant: the audit row is written for a new policy only.
CommitPolicyUnaudited(w) ==
  LET t == work[w]
  IN /\ t.at = "policy"
     /\ policies' = IF t.row = 0 THEN Append(policies, t.set)
                    ELSE [policies EXCEPT ![t.row] = Merged(policies[t.row], t)]
     /\ audit' = IF t.row = 0 THEN Append(audit, t.set) ELSE audit
     /\ Finish(w)
     /\ UNCHANGED rules

CommitPolicy(w) ==
  LET t == work[w]
  IN /\ t.at = "policy"
     /\ policies' = IF t.row = 0 THEN Append(policies, t.set)
                    ELSE [policies EXCEPT ![t.row] = Merged(policies[t.row], t)]
     /\ audit' = Append(audit, t.set)
     /\ Finish(w)
     /\ UNCHANGED rules

\* initialize_default_rules looks which rules are missing: all or none.
BeginRules(w) ==
  /\ Begin(w, [at |-> "rules", missing |-> ~rules])
  /\ UNCHANGED policyRows

\* reward_type and redemption_type are unique: a second set of rows is an error.
CommitRules(w) ==
  LET t == work[w]
  IN /\ t.at = "rules"
     /\ IF t.missing /\ rules THEN Finish(w) ELSE Continue(w, [at |-> "seeding"])
     /\ rules' = TRUE
     /\ UNCHANGED <<policies, audit>>

\* The default policy goes the way of any other, if there is none.
SeedPolicy(w) ==
  /\ work[w].at = "seeding"
  /\ IF policies = <<>> THEN Continue(w, Load(DefaultPolicy)) ELSE Finish(w)
  /\ UNCHANGED policyRows

-----------------------------------------------------------------------------
PolicyStep(w) ==
  \/ BeginPolicy(w)
  \/ CommitPolicy(w)
  \/ BeginRules(w)
  \/ CommitRules(w)
  \/ SeedPolicy(w)
  \/ Die(w) /\ UNCHANGED policyRows

PolicyNext == \E w \in Workers : PolicyStep(w)

PolicySpec == PolicyInit /\ WorkInit /\ [][PolicyNext]_policyVars

-----------------------------------------------------------------------------
PolicyTypeOK ==
  /\ WorkTypeOK
  /\ Range(policies) \subseteq Policy /\ Range(audit) \subseteq Policy
  /\ rules \in BOOLEAN

(* The audit explains the policy in force: every column of it was set by an  *)
(* audited change, and as long as no two requests overlapped it is the last  *)
(* audited one, and so a window that passed the checks.  Two changes that    *)
(* overlap, each legal, leave a mixture whose window may end before it       *)
(* starts, and no order ever gets the bonus (rewards/service.py:436-463).    *)
PolicyIsAudited ==
  policies # <<>> =>
    /\ \A k \in DOMAIN PolicyInForce :
         \E i \in DOMAIN audit : audit[i][k] = PolicyInForce[k]
    /\ ~raced => Len(policies) = 1 /\ PolicyInForce = Last(audit) /\ Legal(PolicyInForce)
=============================================================================

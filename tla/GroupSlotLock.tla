--------------------------- MODULE GroupSlotLock ---------------------------
(***************************************************************************)
(* lock_slot of the group cart (group_cart/service.py): a member locks a   *)
(* pickup slot for her group until expires_at.  The request looks for a    *)
(* lock of another group on the slot, then for the lock row of its own     *)
(* group, then inserts or updates a row; nothing keeps the row or the slot *)
(* from changing in between.                                               *)
(***************************************************************************)
EXTENDS Integers, FiniteSets, Worker

CONSTANTS
  Groups,
  Slots,
  LockRows, \* group_slot_locks rows that may be inserted
  Minutes   \* values of duration_minutes, which nothing checks

ASSUME MinutesAssumption == Minutes \subseteq Int

VARIABLE lock  \* the group_slot_locks rows

lockVars == <<lock, workVars>>

NoLock == [group |-> "none"]

\* fresh: expires_at is still to come.
Lock == [group : Groups, slot : Slots, fresh : BOOLEAN]

LockInit == lock = [r \in LockRows |-> NoLock]

-----------------------------------------------------------------------------
LocksOf(g) == {r \in LockRows : lock[r] # NoLock /\ lock[r].group = g}

FreshLocks(s) == {r \in LockRows : lock[r] # NoLock /\ lock[r].slot = s /\ lock[r].fresh}

\* Mutant: the conflict is not looked for.
BeginLockUnchecked(w, g, s, m) ==
  /\ Begin(w, [at |-> "free", group |-> g, slot |-> s, minutes |-> m, loaded |-> {}])
  /\ UNCHANGED lock

\* The first unexpired lock of the slot, whichever that is, is the group's own
\* and stays loaded, or there is none; otherwise 409.
BeginLock(w, g, s, m) ==
  /\ \/ FreshLocks(s) = {}
        /\ Begin(w, [at |-> "free", group |-> g, slot |-> s, minutes |-> m, loaded |-> {}])
     \/ \E r \in FreshLocks(s) :
          /\ lock[r].group = g
          /\ Begin(w, [at |-> "free", group |-> g, slot |-> s, minutes |-> m, loaded |-> {r}])
  /\ UNCHANGED lock

\* The lock row of the group, if it has one.  A row that is loaded already keeps
\* the slot it was loaded with, which is the one asked for.
FindLock(w) ==
  LET t == work[w]
  IN /\ t.at = "free"
     /\ IF LocksOf(t.group) = {}
        THEN Continue(w, [at |-> "insert", group |-> t.group, slot |-> t.slot, minutes |-> t.minutes])
        ELSE \E r \in LocksOf(t.group) :
               Continue(w, [at |-> "update", group |-> t.group, slot |-> t.slot, minutes |-> t.minutes,
                            row |-> r, seen |-> IF r \in t.loaded THEN t.slot ELSE lock[r].slot])
     /\ UNCHANGED lock

\* Mutant: expires_at is left out.
InsertLockEndless(w) ==
  LET t == work[w]
  IN /\ t.at = "insert"
     /\ \E r \in LockRows : lock[r] = NoLock
     /\ lock' = [lock EXCEPT ![CHOOSE r \in LockRows : lock[r] = NoLock] =
                   [group |-> t.group, slot |-> t.slot]]
     /\ Finish(w)

\* duration_minutes from now is in the past unless it is positive.
InsertLock(w) ==
  LET t == work[w]
  IN /\ t.at = "insert"
     /\ \E r \in LockRows : lock[r] = NoLock
     /\ lock' = [lock EXCEPT ![CHOOSE r \in LockRows : lock[r] = NoLock] =
                   [group |-> t.group, slot |-> t.slot, fresh |-> t.minutes > 0]]
     /\ Finish(w)

\* expires_at is written; slot_id only when it differs from the one loaded.
UpdateLock(w) ==
  LET t == work[w]
  IN /\ t.at = "update"
     /\ lock' = [lock EXCEPT ![t.row] =
                   [group |-> lock[t.row].group,
                    slot |-> IF t.seen = t.slot THEN lock[t.row].slot ELSE t.slot,
                    fresh |-> t.minutes > 0]]
     /\ Finish(w)

\* expires_at passes.
ExpireLock(r) ==
  /\ lock[r] # NoLock /\ lock[r].fresh
  /\ lock' = [lock EXCEPT ![r] = [group |-> lock[r].group, slot |-> lock[r].slot, fresh |-> FALSE]]
  /\ UNCHANGED workVars

-----------------------------------------------------------------------------
LockStep(w) ==
  \/ \E g \in Groups, s \in Slots, m \in Minutes : BeginLock(w, g, s, m)
  \/ FindLock(w)
  \/ InsertLock(w)
  \/ UpdateLock(w)
  \/ Die(w) /\ UNCHANGED lock

LockNext == (\E w \in Workers : LockStep(w)) \/ (\E r \in LockRows : ExpireLock(r))

LockSpec == LockInit /\ WorkInit /\ [][LockNext]_lockVars

-----------------------------------------------------------------------------
LockTypeOK == WorkTypeOK /\ lock \in [LockRows -> Lock \cup {NoLock}]

\* A slot has one unexpired lock at most and a group one lock row.
SlotsAreExclusive ==
  /\ \A s \in Slots : Cardinality(FreshLocks(s)) <= 1
  /\ \A g \in Groups : Cardinality(LocksOf(g)) <= 1

\* A request that was about to write has left its group with a lock on the slot it
\* was asked for, unexpired just when a positive duration was asked for.
LockedWhatWasAsked ==
  \A w \in Workers :
    work[w].at \in {"insert", "update"} /\ died' = died /\ work'[w] = Rest
      => \E r \in LockRows :
           /\ lock'[r] # NoLock
           /\ lock'[r].group = work[w].group /\ lock'[r].slot = work[w].slot
           /\ lock'[r].fresh <=> work[w].minutes > 0

(* As long as no two requests overlapped, locks are exclusive and every      *)
(* request that wrote one has locked what it was asked for, moving the lock  *)
(* its group had elsewhere (group_cart/service.py:232-262).                  *)
SlotLocksHold ==
  [](~raced => SlotsAreExclusive) /\ [][~raced => LockedWhatWasAsked]_lockVars

(* "Slot is locked by another group" (group_cart/service.py:241): a slot is  *)
(* not locked for two groups at once.                                        *)
SlotHasOneHolder == \A s \in Slots : \A q, r \in FreshLocks(s) : lock[q].group = lock[r].group
=============================================================================

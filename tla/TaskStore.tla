----------------------------- MODULE TaskStore -----------------------------
(***************************************************************************)
(* dtq/store: the Postgres tables and the repository's writes.  A table is *)
(* the set of its committed rows.  A transaction that only reads and then  *)
(* writes rows nobody else can touch is one step; commit_effect's SELECT   *)
(* and INSERT are steps of their own, because under READ COMMITTED another *)
(* transaction may commit between them.                                    *)
(***************************************************************************)
EXTENDS Core

VARIABLES
  tasks,     \* tasks.state by id ("absent": no row)
  attempts,  \* rows of attempts
  effects,   \* rows of effects
  locked     \* tasks whose row an open transaction has updated

storeVars == <<tasks, attempts, effects, locked>>

EffectKeys == Keys \cup Tasks
AttemptRow == [task : Tasks, attempt_no : Nat, outcome : AttemptOutcome]
EffectRow == [key : EffectKeys, task : Tasks, fence : Nat]

StoreTypeOK ==
  /\ tasks \in [Tasks -> TaskState]
  /\ attempts \subseteq AttemptRow
  /\ effects \subseteq EffectRow
  /\ locked \subseteq Tasks

StoreInit ==
  /\ tasks = [t \in Tasks |-> "absent"]
  /\ attempts = {}
  /\ effects = {}
  /\ locked = {}

Exists(t) == tasks[t] # "absent"

\* executor.py: dedup_key = envelope.dedup_key or task_id
EffectKey(e) == IF dedup_key(e) = NoKey THEN e.task ELSE dedup_key(e)

HasAttempt(t, n) == \E r \in attempts : r.task = t /\ r.attempt_no = n
EffectsOf(key) == {r \in effects : r.key = key}

\* Faulty variant: the fences are not compared.
HigherFence_never(key, fence) == FALSE

\* commit_effect's comparison: the row of the key has a higher fence.
HigherFence(key, fence) == \E r \in EffectsOf(key) : r.fence > fence

\* Another row already has this dedup_key (index tasks_dedup).
Duplicate(t) ==
  DedupKey[t] # NoKey /\ \E u \in Tasks : Exists(u) /\ DedupKey[u] = DedupKey[t]

\* The UPDATE waits while another transaction holds the row, and matches no row
\* of an absent task.
update_task_state(t, state) ==
  /\ t \notin locked
  /\ tasks' = IF Exists(t) THEN [tasks EXCEPT ![t] = state] ELSE tasks

cancel_task(t) ==
  /\ tasks[t] \in {"pending", "scheduled"}
  /\ update_task_state(t, "cancelled")

\* Faulty variant: no UNIQUE (task_id, attempt_no).
create_attempt_unguarded(t, n) ==
  /\ Exists(t)
  /\ attempts' = attempts \cup {[task |-> t, attempt_no |-> n, outcome |-> "open"]}

\* The INSERT succeeds: the task exists and the attempt number is new.
create_attempt(t, n) ==
  /\ Exists(t)
  /\ ~HasAttempt(t, n)
  /\ attempts' = attempts \cup {[task |-> t, attempt_no |-> n, outcome |-> "open"]}

\* The UPDATE has no condition on the current outcome.
close_attempt(t, n, outcome) ==
  attempts' = {IF r.task = t /\ r.attempt_no = n THEN [r EXCEPT !.outcome = outcome] ELSE r :
                 r \in attempts}

\* Faulty variant: no primary key on effects.dedup_key.
insert_effect_unguarded(key, t, fence) ==
  effects' = effects \cup {[key |-> key, task |-> t, fence |-> fence]}

\* commit_effect's INSERT: the primary key admits one row per key.
insert_effect(key, t, fence) ==
  /\ EffectsOf(key) = {}
  /\ effects' = effects \cup {[key |-> key, task |-> t, fence |-> fence]}

=============================================================================

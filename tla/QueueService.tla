---------------------------- MODULE QueueService ----------------------------
(***************************************************************************)
(* What the engine promises the rest of the system about a task, without   *)
(* streams, leases, fences or workers.  Module Service shows that the      *)
(* engine implements this; module Workflow is built on it.                 *)
(***************************************************************************)
CONSTANTS
  Tasks,       \* task ids
  EffectKeys   \* keys under which an effect is committed

VARIABLES
  state,      \* the state shown by the task's row ("absent": no row)
  queued,     \* tasks the broker has ever been given
  committed,  \* effects, as pairs of key and task
  dead        \* tasks that were dead-lettered

serviceVars == <<state, queued, committed, dead>>

ServiceInit ==
  /\ state = [t \in Tasks |-> "absent"]
  /\ queued = {}
  /\ committed = {}
  /\ dead = {}

HasRow(t) == state[t] # "absent"
Show(t, s) == state' = [state EXCEPT ![t] = s]
Committed(t) == \E c \in committed : c.task = t

Create(t) ==
  /\ ~HasRow(t)
  /\ \E s \in {"pending", "scheduled"} : Show(t, s)
  /\ UNCHANGED <<queued, committed, dead>>

Enqueue(t) ==
  /\ queued' = queued \cup {t}
  /\ UNCHANGED <<state, committed, dead>>

\* An attempt starts: it needs the row, and shows the task as leased whatever
\* the row said before, a committed effect included.
Start(t) ==
  /\ t \in queued /\ HasRow(t)
  /\ Show(t, "leased")
  /\ UNCHANGED <<queued, committed, dead>>

\* The effect lands, at most once for a key, together with the row's state.
Commit(t, key) ==
  /\ t \in queued /\ HasRow(t)
  /\ ~\E c \in committed : c.key = key
  /\ committed' = committed \cup {[key |-> key, task |-> t]}
  /\ Show(t, "succeeded")
  /\ UNCHANGED <<queued, dead>>

DeadLetter(t) ==
  /\ t \in queued
  /\ dead' = dead \cup {t}
  /\ UNCHANGED <<state, queued, committed>>

\* Only a dead-lettered task is shown as dead.
MarkDead(t) ==
  /\ t \in dead /\ HasRow(t)
  /\ Show(t, "dead")
  /\ UNCHANGED <<queued, committed, dead>>

Cancel(t) ==
  /\ state[t] \in {"pending", "scheduled"}
  /\ Show(t, "cancelled")
  /\ UNCHANGED <<queued, committed, dead>>

Requeue(t) ==
  /\ HasRow(t)
  /\ Show(t, "pending")
  /\ UNCHANGED <<queued, committed, dead>>

ServiceNext ==
  \E t \in Tasks :
    \/ Create(t) \/ Enqueue(t) \/ Cancel(t) \/ Requeue(t)
    \/ Start(t) \/ DeadLetter(t) \/ MarkDead(t)
    \/ \E key \in EffectKeys : Commit(t, key)

ServiceSpec == ServiceInit /\ [][ServiceNext]_serviceVars

=============================================================================

---------------------------- MODULE ControlPlane ----------------------------
(***************************************************************************)
(* dtq/control/app.py: the requests that change the state of tasks.        *)
(* Each id of Tasks is the uuid4 of one POST /v1/tasks (or one injected    *)
(* task); the request's progress is request[t].  A request that dies, or   *)
(* whose broker call raises, leaves behind what it had committed.          *)
(***************************************************************************)
EXTENDS RedisBroker, TaskStore

CONSTANTS
  ChaosTasks,   \* ids used by POST /v1/chaos/inject-failure
  MaxRequeues   \* bound on the DLQ requeues of one task

ASSUME ControlAssumption ==
  /\ Keys \cap Tasks = {}
  /\ NoKey \notin Tasks
  /\ ChaosTasks \subseteq Tasks
  /\ \A t \in ChaosTasks : MaxAttempts[t] = 1 /\ DedupKey[t] = NoKey
  /\ MaxRequeues \in Nat

VARIABLES
  request,   \* progress and answer of the enqueue request, per task
  requeues   \* DLQ requeues published so far, per task

controlVars == <<request, requeues>>

Request == {"none", "checked", "ready", "delayed",            \* in progress
            "accepted", "deduplicated", "injected", "error", "crashed"}

ControlTypeOK ==
  /\ request \in [Tasks -> Request]
  /\ requeues \in [Tasks -> Nat]

ControlInit ==
  /\ request = [t \in Tasks |-> "none"]
  /\ requeues = [t \in Tasks |-> 0]

Envelope(t, n) == [task |-> t, attempt |-> 0, gen |-> n]

Answer(t, answer) == request' = [request EXCEPT ![t] = answer]

\* create_task, the SELECT of the repository.
CreateSelect(t) ==
  /\ request[t] = "none" /\ t \notin ChaosTasks
  /\ Answer(t, IF Duplicate(t) THEN "deduplicated" ELSE "checked")
  /\ UNCHANGED <<brokerVars, storeVars, requeues, faults>>

\* Faulty variant: no unique index tasks_dedup.
CreateInsert_unguarded(t) ==
  /\ request[t] = "checked"
  /\ tasks' = [tasks EXCEPT ![t] = "pending"]
  /\ Answer(t, "ready")
  /\ UNCHANGED <<brokerVars, attempts, effects, locked, requeues, faults>>

\* create_task, INSERT and commit.  With a run_at the row starts as scheduled;
\* a row inserted meanwhile with the same key makes the INSERT fail.
CreateInsert(t) ==
  /\ request[t] = "checked"
  /\ \/ /\ Duplicate(t)
        /\ Answer(t, "error")
        /\ UNCHANGED tasks
     \/ /\ ~Duplicate(t)
        /\ \E delayed \in BOOLEAN :
             /\ tasks' = [tasks EXCEPT ![t] = IF delayed THEN "scheduled" ELSE "pending"]
             /\ Answer(t, IF delayed THEN "delayed" ELSE "ready")
  /\ UNCHANGED <<brokerVars, attempts, effects, locked, requeues, faults>>

\* create_task, the broker call; a run_at that has passed is published at once.
CreatePublish(t) ==
  /\ \/ /\ request[t] \in {"ready", "delayed"}
        /\ publish(Envelope(t, 0))
        /\ UNCHANGED sched
     \/ /\ request[t] = "delayed"
        /\ schedule(Envelope(t, 0))
        /\ UNCHANGED streamVars
  /\ Answer(t, "accepted")
  /\ UNCHANGED <<dlq, leaseVars, storeVars, requeues, faults>>

CreateCrash(t) ==
  /\ request[t] \in {"checked", "ready", "delayed"}
  /\ Fault
  /\ Answer(t, "crashed")
  /\ UNCHANGED <<brokerVars, storeVars, requeues>>

\* inject-failure publishes an envelope and writes no row.
InjectFailure(t) ==
  /\ request[t] = "none" /\ t \in ChaosTasks
  /\ publish(Envelope(t, 0))
  /\ Answer(t, "injected")
  /\ UNCHANGED <<sched, dlq, leaseVars, storeVars, requeues, faults>>

CancelTask(t) ==
  /\ cancel_task(t)
  /\ UNCHANGED <<brokerVars, attempts, effects, locked, controlVars, faults>>

\* requeue_dlq, up to broker.publish: the row is updated, not yet committed,
\* and the envelope is out.
RequeuePublish(t) ==
  /\ Exists(t) /\ t \notin locked /\ requeues[t] < MaxRequeues
  /\ locked' = locked \cup {t}
  /\ publish(Envelope(t, requeues[t] + 1))
  /\ requeues' = [requeues EXCEPT ![t] = @ + 1]
  /\ UNCHANGED <<sched, dlq, leaseVars, tasks, attempts, effects, request, faults>>

RequeueCommit(t) ==
  /\ t \in locked
  /\ locked' = locked \ {t}
  /\ tasks' = [tasks EXCEPT ![t] = "pending"]
  /\ UNCHANGED <<brokerVars, attempts, effects, controlVars, faults>>

\* The process dies or the commit fails: the update is rolled back.
RequeueCrash(t) ==
  /\ t \in locked
  /\ Fault
  /\ locked' = locked \ {t}
  /\ UNCHANGED <<brokerVars, tasks, attempts, effects, controlVars>>

\* broker.publish raises: the exception is swallowed and the update committed.
RequeuePublishError(t) ==
  /\ Exists(t)
  /\ Fault
  /\ update_task_state(t, "pending")
  /\ UNCHANGED <<brokerVars, attempts, effects, locked, controlVars>>

ControlNext ==
  \E t \in Tasks :
    \/ CreateSelect(t) \/ CreateInsert(t) \/ CreatePublish(t) \/ CreateCrash(t)
    \/ InjectFailure(t) \/ CancelTask(t)
    \/ RequeuePublish(t) \/ RequeueCommit(t) \/ RequeueCrash(t) \/ RequeuePublishError(t)

=============================================================================

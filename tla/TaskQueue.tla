----------------------------- MODULE TaskQueue -----------------------------
(***************************************************************************)
(* The engine as a whole: the control plane, the Redis broker, the store   *)
(* and the workers.                                                        *)
(***************************************************************************)
EXTENDS TaskWorker, ControlPlane

vars == <<brokerVars, storeVars, workerVars, controlVars, faults>>

Init ==
  /\ BrokerInit
  /\ StoreInit
  /\ WorkerInit
  /\ ControlInit
  /\ faults = 0

Next ==
  \/ WorkerNext /\ UNCHANGED controlVars
  \/ ControlNext /\ UNCHANGED workerVars

Spec == Init /\ [][Next]_vars

\* The steps of the system itself, not of its environment.
Normally(A) == A /\ UNCHANGED controlVars /\ faults' = faults

SlotStep(w, n) ==
  \E j \in jobs : j.worker = w /\ j.slot = n /\ JobStep(j) /\ UNCHANGED handVars

(***************************************************************************)
(* Fairness.  A worker's coroutines all get their turn on its event loop,  *)
(* calls succeed once the faults are spent, and wait_for bounds a handler; *)
(* every retry delay and idle time runs out; a requeue transaction ends.   *)
(* Nothing is assumed of clients: no request has to be made, and one that  *)
(* was made need not finish.                                               *)
(***************************************************************************)
Fairness ==
  /\ \A w \in Workers :
       /\ \A n \in 1..Concurrency : WF_vars(Normally(SlotStep(w, n)))
       /\ WF_vars(Normally(Poll(w)))
       /\ WF_vars(Normally(StartPolled(w)))
       /\ WF_vars(Normally(Reclaim(w)))
       /\ WF_vars(Normally(Adopt(w)))
       /\ WF_vars(Normally(StartAdopted(w)))
  /\ WF_vars(Normally(Promote))
  /\ \A t \in Tasks : WF_vars(RequeueCommit(t) /\ UNCHANGED workerVars)

FairSpec == Spec /\ Fairness

-----------------------------------------------------------------------------
(* Invariants *)

\* The variables have their types: an acknowledged or a claimed id is the id of
\* a delivered entry, and every job and row is well formed.
TypeOK ==
  /\ BrokerTypeOK
  /\ StoreTypeOK
  /\ WorkerTypeOK
  /\ ControlTypeOK
  /\ faults \in Nat

\* Entries that are not acknowledged: still to be delivered, or pending.
Unacked == pel \cup (delivered + 1)..Len(log)

\* Task t is queued beyond entry i, waits in the ZSET, is dead-lettered, or its
\* effect is committed.
SafeBeyond(t, i) ==
  \/ \E k \in Unacked : k > i /\ log[k].task = t
  \/ \E e \in sched \cup dlq : e.task = t
  \/ \E r \in effects : r.task = t

Published(t) == request[t] \in {"accepted", "injected"}

\* At-least-once delivery: whatever crashes, stalls or fails, a task that was
\* accepted is queued, scheduled, dead-lettered or has its effect.  It is the
\* order of _process_message: commit, schedule and dead_letter all precede ack.
NoTaskLost == \A t \in Tasks : Published(t) => SafeBeyond(t, 0)

\* The effect of a key lands once, although commit_effect's SELECT and INSERT are
\* not atomic and the same task may run on several workers.
OneEffectPerKey == \A r, s \in effects : r.key = s.key => r = s

\* An attempt number of a task runs on one worker only, although XAUTOCLAIM hands
\* an entry out again, twice with the same number, while a job still works on it.
AttemptRunsOnce ==
  \A j, k \in jobs :
    /\ j.pc \in Executing /\ k.pc \in Executing
    /\ j.env.task = k.env.task /\ j.env.attempt = k.env.attempt
    => j = k

\* No two executions hold the same fencing token, whatever happened to the lease
\* each was given (INCR in acquire_lease.lua, undone only when the lease is not).
FencesUnique ==
  \A j, k \in jobs :
    j.pc \in Holding /\ k.pc \in Holding /\ j.fence = k.fence => j = k

\* The lease excludes: until something stalls, crashes or fails, two jobs of one
\* task are never both between acquire_lease and release_lease.
ExclusiveUntilFault ==
  faults = 0 =>
    \A j, k \in jobs :
      j.pc \in Holding /\ k.pc \in Holding /\ j.env.task = k.env.task => j = k

\* A job that reports success to _process_message is backed by an effect whose
\* fence is not above its own: the zombie side of the fence comparison.
SuccessIsFenced ==
  \A j \in jobs :
    j.pc = "release" /\ j.err = NoError =>
      \E r \in effects : r.key = EffectKey(j.env) /\ r.fence <= j.fence

\* Reclaiming, retrying and requeueing never push a task past one attempt more
\* than its limit: an envelope is scheduled below the limit and adopted once.
AttemptBudget ==
  \A j \in jobs : j.env.attempt <= 1 \/ j.env.attempt <= MaxAttempts[j.env.task]

\* A task shown as succeeded has its effect; a task shown as dead is in the DLQ,
\* where it can be requeued.
StateIsBacked ==
  \A t \in Tasks :
    /\ tasks[t] = "succeeded" => \E r \in effects : r.task = t
    /\ tasks[t] = "dead" => \E e \in dlq : e.task = t

\* Two enqueue requests with one dedup_key never both put a task in the queue,
\* although create_task looks the key up before it inserts.
EnqueueIsIdempotent ==
  \A t, u \in Tasks :
    Published(t) /\ Published(u) /\ DedupKey[t] = DedupKey[u] /\ DedupKey[t] # NoKey => t = u

-----------------------------------------------------------------------------
(* Action and liveness properties *)

\* A lease key that disappears in a step of a job belonged to that job: a worker
\* never deletes a lease it no longer owns.
LeaseDeletedByOwner ==
  [][\A l \in leases \ leases' : \A j \in jobs \ jobs' :
       j.env.task = l.task /\ j.worker = l.worker /\ j.fence = l.fence]_vars

\* Every accepted task settles: its effect is committed or it is dead-lettered.
\* Orphans are reclaimed, retries promoted, attempts run out.
Settles ==
  \A t \in Tasks :
    Published(t) ~> \/ \E r \in effects : r.task = t
                   \/ \E e \in dlq : e.task = t

=============================================================================

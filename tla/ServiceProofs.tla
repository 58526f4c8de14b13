--------------------------- MODULE ServiceProofs ---------------------------
(***************************************************************************)
(* The engine implements QueueService, for any number of tasks, workers,   *)
(* faults and requeues.                                                    *)
(***************************************************************************)
EXTENDS Service, DeliveryProofs

-----------------------------------------------------------------------------
(* ServiceInv is inductive, relative to DeliveryInv. *)

\* What may become of job j in a step of its own: it is in front of the update to
\* "dead" only when the dead letter is written, and reports success only when the
\* effect is there with a fence that is not above its own.
Reports(j, k) ==
  /\ k.env = j.env
  /\ jobs' \subseteq (jobs \ {j}) \cup {k}
  /\ k.pc = "markDead" => j.env.task \in DeadLettered'
  /\ k.pc = "release" /\ k.err = NoError =>
       \E r \in effects' : r.key = EffectKey(j.env) /\ r.fence <= k.fence

\* Every step of execute() and _process_message reports what is so.
LEMMA JobStepReports ==
  ASSUME DeliveryInv, NEW j \in jobs, JobStep(j)
  PROVE  \E k : Reports(j, k)
  <1>0. j \in Job /\ JobInv(j) /\ effects \subseteq EffectRow /\ j.fence \in Nat
    BY DEF DeliveryInv, TypeOK, WorkerTypeOK, StoreTypeOK, Job
  <1>1. ASSUME NEW pc \in Pc, pc \notin {"markDead", "release"}, NEW fence, NEW err,
               jobs' \subseteq (jobs \ {j}) \cup {[j EXCEPT !.pc = pc, !.fence = fence, !.err = err]}
        PROVE  \E k : Reports(j, k)
    <2>1. PICK k : k = [j EXCEPT !.pc = pc, !.fence = fence, !.err = err]
      OBVIOUS
    <2>2. k.env = j.env /\ k.pc = pc
      BY <1>0, <2>1 DEF Job
    <2> QED
      BY <1>1, <2>1, <2>2 DEF Reports
  <1>2. ASSUME NEW pc \in Pc, pc \notin {"markDead", "release"}, Become(j, [j EXCEPT !.pc = pc])
        PROVE  \E k : Reports(j, k)
    <2>1. [j EXCEPT !.pc = pc] = [j EXCEPT !.pc = pc, !.fence = j.fence, !.err = j.err]
      BY <1>0 DEF Job
    <2>2. jobs' = (jobs \ {j}) \cup {[j EXCEPT !.pc = pc, !.fence = j.fence, !.err = j.err]}
      BY <1>2, <2>1, Zenon DEF Become
    <2> QED
      BY <1>1, <1>2, <2>2
  <1>3. ASSUME NEW error, Return(j, error)
        PROVE  \E k : Reports(j, k)
    <2>1. jobs \subseteq Job
      BY DEF DeliveryInv, TypeOK, WorkerTypeOK
    <2>2. PICK pc \in {"ack", "schedule", "deadLetter"} :
            jobs' = (jobs \ {j}) \cup {[j EXCEPT !.pc = pc, !.fence = 0, !.err = NoError]}
      BY <1>3, <2>1, ReturnType, Zenon
    <2>3. pc \in Pc /\ pc \notin {"markDead", "release"}
      BY DEF Pc
    <2> QED
      BY <1>1, <2>2, <2>3
  <1>4. CASE AcquireLease(j)
    <2>1. CASE Become(j, [j EXCEPT !.pc = "record", !.fence = fenceSeq + 1])
      <3>1. [j EXCEPT !.pc = "record", !.fence = fenceSeq + 1]
              = [j EXCEPT !.pc = "record", !.fence = fenceSeq + 1, !.err = j.err]
        BY <1>0 DEF Job
      <3>2. "record" \in Pc
        BY DEF Pc, Holding
      <3>3. jobs' = (jobs \ {j})
              \cup {[j EXCEPT !.pc = "record", !.fence = fenceSeq + 1, !.err = j.err]}
        BY <2>1, <3>1, Zenon DEF Become
      <3> QED
        BY <1>1, <3>2, <3>3
    <2> QED
      BY <1>3, <1>4, <2>1 DEF AcquireLease
  <1>5. CASE RecordAttempt(j)
    BY <1>2, <1>5 DEF RecordAttempt, Pc, Holding, Executing
  <1>6. CASE GiveBack(j) \/ ReleaseLease(j)
    BY <1>3, <1>6 DEF GiveBack, ReleaseLease
  <1>7. CASE RunHandler(j)
    <2>1. CASE Become(j, [j EXCEPT !.pc = "select"])
      BY <1>2, <2>1 DEF Pc, Holding, Executing
    <2>2. ASSUME NEW error \in HandlerErrors, Become(j, [j EXCEPT !.pc = "close", !.err = error])
          PROVE  \E k : Reports(j, k)
      <3>1. [j EXCEPT !.pc = "close", !.err = error]
              = [j EXCEPT !.pc = "close", !.fence = j.fence, !.err = error]
        BY <1>0 DEF Job
      <3>2. "close" \in Pc
        BY DEF Pc, Holding, Executing
      <3> QED
        BY <1>1, <2>2, <3>1, <3>2 DEF Become
    <2> QED
      BY <1>7, <2>1, <2>2 DEF RunHandler
  <1>8. ASSUME NEW err, err # NoError, Become(j, [j EXCEPT !.pc = "release", !.err = err])
        PROVE  \E k : Reports(j, k)
    <2>1. PICK k : k = [j EXCEPT !.pc = "release", !.err = err]
      OBVIOUS
    <2>2. k.env = j.env /\ k.pc = "release" /\ k.err = err
      BY <1>0, <2>1 DEF Job
    <2> QED
      BY <1>8, <2>1, <2>2 DEF Reports, Become
  <1>9. ASSUME Become(j, [j EXCEPT !.pc = "release"]),
               \/ j.err # NoError
               \/ \E r \in effects' : r.key = EffectKey(j.env) /\ r.fence <= j.fence
        PROVE  \E k : Reports(j, k)
    <2>1. PICK k : k = [j EXCEPT !.pc = "release"]
      OBVIOUS
    <2>2. k.env = j.env /\ k.pc = "release" /\ k.err = j.err /\ k.fence = j.fence
      BY <1>0, <2>1 DEF Job
    <2> QED
      BY <1>9, <2>1, <2>2 DEF Reports, Become
  <1>10. CASE CommitSelect(j)
    <2>1. CASE Become(j, [j EXCEPT !.pc = "insert"])
      BY <1>2, <2>1 DEF Pc, Holding, Executing
    <2>2. CASE Become(j, [j EXCEPT !.pc = "release", !.err = "Effect already committed"])
      BY <1>8, <2>2 DEF NoError
    <2>3. CASE /\ EffectsOf(EffectKey(j.env)) # {} /\ ~HigherFence(EffectKey(j.env), j.fence)
               /\ Become(j, [j EXCEPT !.pc = "release"])
      <3>1. PICK r \in effects : r.key = EffectKey(j.env) /\ ~(r.fence > j.fence)
        BY <2>3 DEF EffectsOf, HigherFence
      <3>2. r.fence <= j.fence /\ r \in effects'
        BY <1>0, <1>10, <3>1 DEF EffectRow, CommitSelect
      <3> QED
        BY <1>9, <2>3, <3>1, <3>2
    <2> QED
      BY <1>10, <2>1, <2>2, <2>3 DEF CommitSelect
  <1>11. CASE CommitInsert(j)
    <2>1. CASE /\ insert_effect(EffectKey(j.env), j.env.task, j.fence)
               /\ Become(j, [j EXCEPT !.pc = "release"])
      <3>1. PICK r \in effects' : r = [key |-> EffectKey(j.env), task |-> j.env.task,
                                      fence |-> j.fence]
        BY <2>1 DEF insert_effect
      <3>2. r.key = EffectKey(j.env) /\ r.fence <= j.fence
        BY <1>0, <3>1
      <3> QED
        BY <1>9, <2>1, <3>2
    <2>2. CASE Become(j, [j EXCEPT !.pc = "release", !.err = "CommitError"])
      BY <1>8, <2>2 DEF NoError
    <2> QED
      BY <1>11, <2>1, <2>2 DEF CommitInsert
  <1>12. CASE RecordFailure(j)
    BY <1>0, <1>9, <1>12 DEF RecordFailure, JobInv
  <1>13. CASE CommitError(j)
    BY <1>8, <1>13 DEF CommitError, NoError
  <1>14. CASE ScheduleRetry(j) \/ MarkDead(j)
    BY <1>2, <1>14 DEF ScheduleRetry, MarkDead, Pc
  <1>15. CASE DeadLetter(j)
    <2>1. PICK k : k = [j EXCEPT !.pc = "markDead"]
      OBVIOUS
    <2>2. k.env = j.env /\ k.pc = "markDead"
      BY <1>0, <2>1 DEF Job
    <2>3. j.env.task \in DeadLettered'
      BY <1>15 DEF DeadLetter, dead_letter, DeadLettered
    <2> QED
      BY <1>15, <2>1, <2>2, <2>3 DEF Reports, DeadLetter, Become
  <1>16. CASE HeartbeatError(j) \/ ProcessError(j) \/ Ack(j)
    <2>1. jobs' = jobs \ {j}
      BY <1>16 DEF HeartbeatError, ProcessError, Ack, Ends
    <2>2. PICK k : k = [j EXCEPT !.pc = "ack"]
      OBVIOUS
    <2>3. k.env = j.env /\ k.pc = "ack"
      BY <1>0, <2>2 DEF Job
    <2> QED
      BY <2>1, <2>3 DEF Reports
  <1> QED
    BY <1>4, <1>5, <1>6, <1>7, <1>10, <1>11, <1>12, <1>13, <1>14, <1>15, <1>16 DEF JobStep

\* Effects and dead letters are never deleted.
LEMMA NothingForgotten ==
  ASSUME TypeOK, Next
  PROVE  effects \subseteq effects' /\ dlq \subseteq dlq'
  <1>1. ASSUME NEW j \in jobs, JobStep(j)
        PROVE  effects \subseteq effects' /\ dlq \subseteq dlq'
    <2>1. CASE Ack(j)
      BY <2>1 DEF Ack, storeVars
    <2>2. CASE ~Ack(j)
      BY <1>1, <2>2, JobStepStable DEF Stable
    <2> QED
      BY <2>1, <2>2
  <1>2. ASSUME NEW w \in Workers, Poll(w)
        PROVE  effects \subseteq effects' /\ dlq \subseteq dlq'
    BY <1>2, PollStable DEF Stable
  <1>3. ASSUME NEW w \in Workers,
               \/ StartPolled(w) \/ Reclaim(w) \/ Adopt(w) \/ StartAdopted(w) \/ ReclaimError(w)
               \/ Crash(w)
        PROVE  effects \subseteq effects' /\ dlq \subseteq dlq'
    BY <1>3, HandStepStable DEF Stable
  <1>4. CASE Promote
    BY <1>4, PromoteStable DEF Stable
  <1>5. ASSUME NEW l \in leases, LeaseExpires(l)
        PROVE  effects \subseteq effects' /\ dlq \subseteq dlq'
    BY <1>5, ExpiryStable DEF Stable
  <1>6. CASE ControlNext
    BY <1>6, ControlStepStable DEF ControlNext, Stable
  <1> QED
    BY <1>1, <1>2, <1>3, <1>4, <1>5, <1>6 DEF Next, WorkerNext

\* What the jobs claim about themselves outlives every step that does not touch
\* them.
LEMMA ClaimsKept ==
  ASSUME ServiceInv, effects \subseteq effects', dlq \subseteq dlq', NEW j \in jobs
  PROVE  /\ j.pc = "markDead" => j.env.task \in DeadLettered'
         /\ j.pc = "release" /\ j.err = NoError =>
              \E r \in effects' : r.key = EffectKey(j.env) /\ r.fence <= j.fence
  BY DEF ServiceInv, SuccessIsFenced, DeadLettered

\* A step that changes no row, and starts or ends jobs.
LEMMA QuietService ==
  ASSUME ServiceInv, effects \subseteq effects', dlq \subseteq dlq',
         UNCHANGED <<tasks, request>>,
         \A j \in jobs' : j \in jobs \/ j.pc = "acquire"
  PROVE  ServiceInv'
  <1>1. RequestsInv'
    BY DEF ServiceInv, RequestsInv, Exists
  <1>2. StateIsBacked'
    BY DEF ServiceInv, StateIsBacked
  <1>3. \A j \in jobs' : j.pc = "markDead" => j.env.task \in DeadLettered'
    BY ClaimsKept
  <1>4. SuccessIsFenced'
    BY ClaimsKept DEF SuccessIsFenced, EffectKey, dedup_key
  <1> QED
    BY <1>1, <1>2, <1>3, <1>4 DEF ServiceInv

\* The rows a job writes are backed: by the effect of the same transaction, or by
\* the dead letter written before.
LEMMA JobStepBacked ==
  ASSUME DeliveryInv, ServiceInv, NEW j \in jobs, JobStep(j),
         effects \subseteq effects', dlq \subseteq dlq'
  PROVE  StateIsBacked'
  <1>0. /\ tasks \in [Tasks -> TaskState] /\ j.env.task \in Tasks /\ StateIsBacked
    BY DEF DeliveryInv, TypeOK, StoreTypeOK, WorkerTypeOK, Job, TaskEnvelope, ServiceInv
  <1>1. CASE UNCHANGED tasks
    BY <1>0, <1>1 DEF StateIsBacked
  <1>2. ASSUME NEW s \in {"leased", "succeeded", "dead"}, update_task_state(j.env.task, s),
               s = "succeeded" => \E r \in effects' : r.task = j.env.task,
               s = "dead" => \E e \in dlq' : e.task = j.env.task
        PROVE  StateIsBacked'
    <2> SUFFICES ASSUME NEW t \in Tasks
                 PROVE  /\ tasks'[t] = "succeeded" => \E r \in effects' : r.task = t
                        /\ tasks'[t] = "dead" => \E e \in dlq' : e.task = t
      BY DEF StateIsBacked
    <2>1. tasks'[t] = tasks[t] \/ (t = j.env.task /\ tasks'[t] = s)
      BY <1>0, <1>2 DEF update_task_state
    <2> QED
      BY <1>0, <1>2, <2>1 DEF StateIsBacked
  <1>3. CASE RecordAttempt(j)
    BY <1>1, <1>2, <1>3 DEF RecordAttempt
  <1>4. CASE CommitInsert(j)
    <2>1. CASE /\ insert_effect(EffectKey(j.env), j.env.task, j.fence)
               /\ update_task_state(j.env.task, "succeeded")
      <3>1. PICK r \in effects' : r = [key |-> EffectKey(j.env), task |-> j.env.task,
                                      fence |-> j.fence]
        BY <2>1 DEF insert_effect
      <3> QED
        BY <1>2, <2>1, <3>1
    <2> QED
      BY <1>1, <1>4, <2>1 DEF CommitInsert
  <1>5. CASE MarkDead(j)
    <2>1. \E e \in dlq : e.task = j.env.task
      BY <1>5 DEF MarkDead, ServiceInv, DeadLettered
    <2> QED
      BY <1>2, <1>5, <2>1 DEF MarkDead
  <1> QED
    BY <1>1, <1>3, <1>4, <1>5
    DEF JobStep, AcquireLease, GiveBack, RunHandler, HeartbeatError, CommitSelect,
        RecordFailure, CommitError, ReleaseLease, ScheduleRetry, DeadLetter, Ack, ProcessError,
        storeVars

\* Every step of a job preserves ServiceInv.
LEMMA JobStepService ==
  ASSUME DeliveryInv, ServiceInv, NEW j \in jobs, JobStep(j), UNCHANGED request,
         effects \subseteq effects', dlq \subseteq dlq'
  PROVE  ServiceInv'
  <1>1. RequestsInv'
    BY JobStepRows DEF DeliveryInv, ServiceInv, RequestsInv
  <1>2. PICK k : Reports(j, k)
    BY JobStepReports
  <1>3. \A i \in jobs' : i \in jobs \/ i = k
    BY <1>2 DEF Reports
  <1>4. \A i \in jobs' : i.pc = "markDead" => i.env.task \in DeadLettered'
    BY <1>2, <1>3, ClaimsKept DEF Reports
  <1>5. \A i \in jobs' : i.pc = "release" /\ i.err = NoError =>
          \E r \in effects' : r.key = EffectKey(i.env) /\ r.fence <= i.fence
    BY <1>2, <1>3, ClaimsKept DEF Reports
  <1>6. SuccessIsFenced'
    BY <1>5 DEF SuccessIsFenced, EffectKey, dedup_key
  <1> QED
    BY <1>1, <1>4, <1>6, JobStepBacked DEF ServiceInv

\* Every step of the control plane preserves ServiceInv.
LEMMA ControlStepService ==
  ASSUME DeliveryInv, ServiceInv, ControlNext, UNCHANGED workerVars,
         effects \subseteq effects', dlq \subseteq dlq'
  PROVE  ServiceInv'
  <1>0. /\ tasks \in [Tasks -> TaskState] /\ request \in [Tasks -> Request]
        /\ RequestsInv /\ StateIsBacked /\ jobs' = jobs
    BY DEF DeliveryInv, TypeOK, StoreTypeOK, ControlTypeOK, ServiceInv, workerVars
  <1>1. PICK t \in Tasks :
          \/ CreateSelect(t) \/ CreateInsert(t) \/ CreatePublish(t) \/ CreateCrash(t)
          \/ InjectFailure(t) \/ CancelTask(t)
          \/ RequeuePublish(t) \/ RequeueCommit(t) \/ RequeueCrash(t) \/ RequeuePublishError(t)
    BY DEF ControlNext
  <1>2. RequestsInv'
    <2>1. CASE CreateSelect(t) \/ CreatePublish(t) \/ CreateCrash(t) \/ InjectFailure(t)
      <3>1. UNCHANGED tasks /\ \A u \in Tasks \ {t} : request'[u] = request[u]
        BY <1>0, <2>1
        DEF CreateSelect, CreatePublish, CreateCrash, InjectFailure, Answer, storeVars
      <3>2. \/ request[t] = "none" /\ request'[t] \in {"checked", "deduplicated"}
            \/ request[t] \in {"ready", "delayed"} /\ request'[t] = "accepted"
            \/ request'[t] = "crashed"
            \/ t \in ChaosTasks /\ request'[t] = "injected"
        BY <1>0, <2>1 DEF CreateSelect, CreatePublish, CreateCrash, InjectFailure, Answer
      <3> QED
        BY <1>0, <3>1, <3>2 DEF RequestsInv, Exists
    <2>2. CASE CreateInsert(t)
      BY <1>0, <2>2 DEF CreateInsert, RequestsInv, Exists, Answer
    <2>3. CASE CancelTask(t) \/ RequeuePublish(t) \/ RequeueCommit(t) \/ RequeueCrash(t)
               \/ RequeuePublishError(t)
      <3>1. UNCHANGED request
        BY <2>3 DEF CancelTask, RequeuePublish, RequeueCommit, RequeueCrash,
                    RequeuePublishError, controlVars
      <3>2. \A u \in Tasks : Exists(u) <=> Exists(u)'
        BY <1>0, <2>3
        DEF CancelTask, cancel_task, RequeuePublish, RequeueCommit, RequeueCrash,
            RequeuePublishError, update_task_state, Exists, DeliveryInv, RowsInv
      <3> QED
        BY <1>0, <3>1, <3>2 DEF RequestsInv
    <2> QED
      BY <1>1, <2>1, <2>2, <2>3
  <1>3. StateIsBacked'
    <2>1. \A u \in Tasks : tasks'[u] = tasks[u] \/ tasks'[u] \notin {"succeeded", "dead"}
      BY <1>0, <1>1
      DEF CreateSelect, CreateInsert, CreatePublish, CreateCrash, InjectFailure, CancelTask,
          cancel_task, RequeuePublish, RequeueCommit, RequeueCrash, RequeuePublishError,
          update_task_state, storeVars
    <2> QED
      BY <1>0, <2>1 DEF StateIsBacked
  <1>4. \A j \in jobs' : j.pc = "markDead" => j.env.task \in DeadLettered'
    BY <1>0, ClaimsKept
  <1>5. SuccessIsFenced'
    BY <1>0, ClaimsKept DEF SuccessIsFenced, EffectKey, dedup_key
  <1> QED
    BY <1>2, <1>3, <1>4, <1>5 DEF ServiceInv

\* ServiceInv is inductive relative to DeliveryInv.
LEMMA ServiceInductive ==
  ASSUME DeliveryInv, ServiceInv, [Next]_vars
  PROVE  ServiceInv'
  <1>1. CASE UNCHANGED vars
    <2>1. UNCHANGED <<jobs, tasks, request, effects, dlq>>
      BY <1>1 DEF vars, workerVars, storeVars, controlVars, brokerVars
    <2> QED
      BY <2>1, QuietService
  <1>2. CASE Next
    <2>0. effects \subseteq effects' /\ dlq \subseteq dlq'
      BY <1>2, NothingForgotten DEF DeliveryInv
    <2>1. CASE ControlNext /\ UNCHANGED workerVars
      BY <2>0, <2>1, ControlStepService
    <2>2. ASSUME NEW j \in jobs, JobStep(j), UNCHANGED controlVars
          PROVE  ServiceInv'
      BY <2>0, <2>2, JobStepService DEF controlVars
    <2>3. ASSUME NEW w \in Workers, NEW m, NewJob(w, m)
          PROVE  \A j \in jobs' : j \in jobs \/ j.pc = "acquire"
      BY <2>3 DEF NewJob
    <2>4. ASSUME NEW w \in Workers, UNCHANGED controlVars,
                 \/ Poll(w) \/ StartPolled(w) \/ Reclaim(w) \/ Adopt(w) \/ StartAdopted(w)
                 \/ ReclaimError(w) \/ Crash(w)
          PROVE  ServiceInv'
      <3>1. \A j \in jobs' : j \in jobs \/ j.pc = "acquire"
        BY <2>3, <2>4 DEF Poll, StartPolled, Reclaim, Adopt, StartAdopted, ReclaimError, Crash
      <3>2. UNCHANGED <<tasks, request>>
        BY <2>4 DEF Poll, StartPolled, Reclaim, Adopt, StartAdopted, ReclaimError, Crash,
                    storeVars, controlVars
      <3> QED
        BY <2>0, <3>1, <3>2, QuietService
    <2>5. ASSUME Promote \/ \E l \in leases : LeaseExpires(l), UNCHANGED controlVars
          PROVE  ServiceInv'
      <3>1. UNCHANGED <<jobs, tasks, request>>
        BY <2>5 DEF Promote, LeaseExpires, storeVars, workerVars, controlVars
      <3> QED
        BY <2>0, <3>1, QuietService
    <2> QED
      BY <1>2, <2>1, <2>2, <2>4, <2>5 DEF Next, WorkerNext
  <1> QED
    BY <1>1, <1>2

\* ServiceInv holds in every reachable state: rows, dead letters, effects and
\* requests agree, whatever crashed between writing two of them.
THEOREM ServiceInvariant == Spec => []ServiceInv
  <1>1. Init => ServiceInv
    BY DEF Init, StoreInit, WorkerInit, ControlInit, ServiceInv, RequestsInv, Exists,
           StateIsBacked, SuccessIsFenced
  <1>2. DeliveryInv /\ ServiceInv /\ [Next]_vars => ServiceInv'
    BY ServiceInductive
  <1> QED
    BY <1>1, <1>2, DeliveryInvariant, PTL DEF Spec

\* A task is shown as succeeded only with its effect, and as dead only with its
\* dead letter (_commit_success; dead_letter before update_task_state).
THEOREM RowsAreBacked == Spec => []StateIsBacked
  <1>1. ServiceInv => StateIsBacked
    BY DEF ServiceInv
  <1> QED
    BY <1>1, ServiceInvariant, PTL

\* execute() reports success only behind the fence comparison of commit_effect.
THEOREM FencedSuccess == Spec => []SuccessIsFenced
  <1>1. ServiceInv => SuccessIsFenced
    BY DEF ServiceInv
  <1> QED
    BY <1>1, ServiceInvariant, PTL

\* However many clients race with one dedup_key, create_task publishes one task.
THEOREM IdempotentEnqueue == Spec => []EnqueueIsIdempotent
  <1>1. DeliveryInv /\ ServiceInv => EnqueueIsIdempotent
    <2> SUFFICES ASSUME DeliveryInv, ServiceInv, NEW t \in Tasks, NEW u \in Tasks,
                        Published(t), Published(u), DedupKey[t] = DedupKey[u], DedupKey[t] # NoKey
                 PROVE  t = u
      BY DEF EnqueueIsIdempotent
    <2>1. Exists(t) /\ Exists(u)
      BY ControlAssumption DEF ServiceInv, RequestsInv, Published
    <2> QED
      BY <2>1 DEF DeliveryInv, RowsInv
  <1> QED
    BY <1>1, DeliveryInvariant, ServiceInvariant, PTL

-----------------------------------------------------------------------------
(* The refinement: every step is a step of QueueService or stutters. *)

\* What the steps of the broker do to the set of tasks it was given.
LEMMA QueuedSteps ==
  ASSUME TypeOK
  PROVE  /\ UNCHANGED <<log, sched>> => Queued' = Queued
         /\ \A e \in TaskEnvelope :
              \/ publish(e) /\ UNCHANGED sched
              \/ schedule(e) /\ UNCHANGED log
              => Queued' = Queued \cup {e.task}
  <1>0. log \in Seq(TaskEnvelope) /\ Len(log) \in Nat /\ DOMAIN log = 1..Len(log)
    BY DEF TypeOK, BrokerTypeOK
  <1>1. UNCHANGED <<log, sched>> => Queued' = Queued
    BY DEF Queued
  <1>2. ASSUME NEW e \in TaskEnvelope, publish(e), UNCHANGED sched
        PROVE  Queued' = Queued \cup {e.task}
    <2>1. /\ DOMAIN log' = 1..(Len(log) + 1) /\ log'[Len(log) + 1] = e
          /\ \A i \in 1..Len(log) : log'[i] = log[i]
      BY <1>0, <1>2 DEF publish
    <2>2. {log'[i].task : i \in DOMAIN log'} = {log[i].task : i \in DOMAIN log} \cup {e.task}
      <3>1. \A i \in DOMAIN log' : i \in DOMAIN log \/ i = Len(log) + 1
        BY <1>0, <2>1
      <3>2. Len(log) + 1 \in DOMAIN log' /\ DOMAIN log \subseteq DOMAIN log'
        BY <1>0, <2>1
      <3> QED
        BY <1>0, <2>1, <3>1, <3>2
    <2> QED
      BY <1>2, <2>2 DEF Queued
  <1>3. ASSUME NEW e \in TaskEnvelope, schedule(e), UNCHANGED log
        PROVE  Queued' = Queued \cup {e.task}
    BY <1>3 DEF schedule, Queued
  <1> QED
    BY <1>1, <1>2, <1>3

\* Promotion moves envelopes and loses none.
LEMMA PromoteQueued ==
  ASSUME TypeOK, Promote
  PROVE  Queued' = Queued
  <1>0. BrokerTypeOK
    BY DEF TypeOK
  <1>1. PICK n \in 1..PromoteBatch : \E due \in [1..n -> sched] :
          log' = log \o due /\ sched' = sched \ {due[i] : i \in 1..n}
    BY DEF Promote, promote_scheduled
  <1>2. PICK due \in [1..n -> sched] :
          log' = log \o due /\ sched' = sched \ {due[i] : i \in 1..n}
    BY <1>1
  <1>3. n \in Nat /\ due \in [1..n -> TaskEnvelope]
    BY <1>0, BrokerAssumption DEF BrokerTypeOK
  <1>4. due \in Seq(TaskEnvelope) /\ Len(due) = n /\ log \in Seq(TaskEnvelope)
    BY <1>0, <1>3, FunctionIsSeq DEF BrokerTypeOK
  <1>5. Len(log) \in Nat /\ DOMAIN log = 1..Len(log)
    BY <1>4
  <1>6. /\ DOMAIN log' = 1..(Len(log) + n)
        /\ \A k \in 1..(Len(log) + n) :
             log'[k] = IF k <= Len(log) THEN log[k] ELSE due[k - Len(log)]
    BY <1>2, <1>4, ConcatProperties, LenProperties
  <1>7. \A k \in DOMAIN log' : log'[k].task \in Queued
    <2> SUFFICES ASSUME NEW k \in 1..(Len(log) + n)
                 PROVE  log'[k].task \in Queued
      BY <1>6
    <2>1. CASE k <= Len(log)
      BY <1>3, <1>5, <1>6, <2>1 DEF Queued
    <2>2. CASE ~(k <= Len(log))
      <3>1. k - Len(log) \in 1..n
        BY <1>3, <1>5, <2>2
      <3>2. due[k - Len(log)] \in sched
        BY <3>1
      <3> QED
        BY <1>6, <2>2, <3>2 DEF Queued
    <2> QED
      BY <2>1, <2>2
  <1>8. \A k \in DOMAIN log : k \in DOMAIN log' /\ log'[k] = log[k]
    BY <1>3, <1>5, <1>6
  <1>9. \A e \in sched : e \in sched' \/ \E k \in DOMAIN log' : log'[k] = e
    <2> SUFFICES ASSUME NEW e \in sched, e \notin sched'
                 PROVE  \E k \in DOMAIN log' : log'[k] = e
      OBVIOUS
    <2>1. sched' = sched \ {due[i] : i \in 1..n}
      BY <1>2
    <2>2. PICK i \in 1..n : due[i] = e
      BY <2>1
    <2>3. Len(log) + i \in DOMAIN log' /\ log'[Len(log) + i] = due[i]
      BY <1>3, <1>5, <1>6
    <2> QED
      BY <2>2, <2>3
  <1>10. sched' \subseteq sched
    BY <1>2
  <1> QED
    BY <1>7, <1>8, <1>9, <1>10 DEF Queued

\* A job works on a task the broker was given.
LEMMA JobQueued ==
  ASSUME DeliveryInv, NEW j \in jobs
  PROVE  j.env.task \in Queued /\ j.env.task \in Tasks /\ j.env \in TaskEnvelope
  <1>1. DeliveredFor(j.id, j.env) /\ BrokerTypeOK /\ j \in Job
    BY DEF DeliveryInv, JobInv, TypeOK, WorkerTypeOK
  <1>2. j.id \in DOMAIN log /\ log[j.id].task = j.env.task
    BY <1>1 DEF DeliveredFor, BrokerTypeOK
  <1> QED
    BY <1>1, <1>2 DEF Queued, Job, TaskEnvelope

\* A step that leaves the rows, effects and dead letters alone, and the broker
\* with the same tasks, is invisible.
LEMMA Stutters ==
  ASSUME UNCHANGED <<tasks, effects, dlq>>, Queued' = Queued
  PROVE  UNCHANGED Contract!serviceVars
  BY DEF Contract!serviceVars, Commits, DeadLettered

\* create_attempt starts an attempt of a queued task that has a row.
LEMMA RecordSimulates ==
  ASSUME DeliveryInv, NEW j \in jobs, RecordAttempt(j)
  PROVE  Contract!ServiceNext \/ UNCHANGED Contract!serviceVars
  <1>0. j.env.task \in Queued /\ j.env.task \in Tasks /\ TypeOK
    BY JobQueued DEF DeliveryInv
  <1>1. UNCHANGED <<log, sched, dlq, effects>>
    BY DEF RecordAttempt, brokerVars
  <1>2. Queued' = Queued /\ Commits' = Commits /\ DeadLettered' = DeadLettered
    BY <1>0, <1>1, QueuedSteps DEF Commits, DeadLettered
  <1>3. CASE Exists(j.env.task) /\ update_task_state(j.env.task, "leased")
    <2>1. Contract!Start(j.env.task)
      BY <1>0, <1>2, <1>3
      DEF Contract!Start, Contract!HasRow, Contract!Show, Exists, update_task_state
    <2> QED
      BY <1>0, <2>1 DEF Contract!ServiceNext
  <1>4. CASE UNCHANGED tasks
    BY <1>1, <1>2, <1>4, Stutters
  <1> QED
    BY <1>3, <1>4 DEF RecordAttempt, create_attempt

\* The commit transaction inserts an effect under a free key.
LEMMA InsertSimulates ==
  ASSUME DeliveryInv, NEW j \in jobs, CommitInsert(j)
  PROVE  Contract!ServiceNext \/ UNCHANGED Contract!serviceVars
  <1>0. /\ j.env.task \in Queued /\ j.env.task \in Tasks /\ j.env \in TaskEnvelope /\ TypeOK
        /\ Exists(j.env.task)
    BY JobQueued DEF DeliveryInv, JobInv, CommitInsert, Executing
  <1>1. UNCHANGED <<log, sched, dlq>>
    BY DEF CommitInsert, brokerVars
  <1>2. Queued' = Queued /\ DeadLettered' = DeadLettered
    BY <1>0, <1>1, QueuedSteps DEF DeadLettered
  <1>3. CASE /\ insert_effect(EffectKey(j.env), j.env.task, j.fence)
             /\ update_task_state(j.env.task, "succeeded")
    <2>1. PICK key \in EffectKeys : key = EffectKey(j.env)
      BY <1>0, EffectKeyType
    <2>2. ~\E c \in Commits : c.key = key
      BY <1>3, <2>1 DEF insert_effect, EffectsOf, Commits
    <2>3. PICK row : row = [key |-> key, task |-> j.env.task, fence |-> j.fence]
      OBVIOUS
    <2>4. effects' = effects \cup {row} /\ row.key = key /\ row.task = j.env.task
      BY <1>3, <2>1, <2>3 DEF insert_effect
    <2>5. Commits' = Commits \cup {[key |-> key, task |-> j.env.task]}
      BY <2>4 DEF Commits
    <2>6. tasks' = [tasks EXCEPT ![j.env.task] = "succeeded"]
      BY <1>0, <1>3 DEF update_task_state
    <2>7. Contract!Commit(j.env.task, key)
      BY <1>0, <1>2, <2>2, <2>5, <2>6
      DEF Contract!Commit, Contract!HasRow, Contract!Show, Exists
    <2> QED
      BY <1>0, <2>1, <2>7 DEF Contract!ServiceNext
  <1>4. CASE UNCHANGED <<tasks, effects>>
    BY <1>1, <1>2, <1>4, Stutters
  <1> QED
    BY <1>3, <1>4 DEF CommitInsert

\* dead_letter and the update of the row that follows it.
LEMMA DeadSimulates ==
  ASSUME DeliveryInv, ServiceInv, NEW j \in jobs, DeadLetter(j) \/ MarkDead(j)
  PROVE  Contract!ServiceNext \/ UNCHANGED Contract!serviceVars
  <1>0. j.env.task \in Queued /\ j.env.task \in Tasks /\ TypeOK
    BY JobQueued DEF DeliveryInv
  <1>1. UNCHANGED <<log, sched, effects>>
    BY DEF DeadLetter, MarkDead, brokerVars, streamVars, storeVars
  <1>2. Queued' = Queued /\ Commits' = Commits
    BY <1>0, <1>1, QueuedSteps DEF Commits
  <1>3. CASE DeadLetter(j)
    <2>1. DeadLettered' = DeadLettered \cup {j.env.task} /\ tasks' = tasks
      BY <1>3 DEF DeadLetter, dead_letter, DeadLettered, storeVars
    <2>2. Contract!DeadLetter(j.env.task)
      BY <1>0, <1>2, <2>1 DEF Contract!DeadLetter
    <2> QED
      BY <1>0, <2>2 DEF Contract!ServiceNext
  <1>4. CASE MarkDead(j)
    <2>1. dlq' = dlq /\ j.env.task \in DeadLettered /\ DeadLettered' = DeadLettered
      BY <1>4 DEF MarkDead, ServiceInv, brokerVars, DeadLettered
    <2>2. CASE Exists(j.env.task)
      <3>1. tasks' = [tasks EXCEPT ![j.env.task] = "dead"]
        BY <1>4, <2>2 DEF MarkDead, update_task_state
      <3>2. Contract!MarkDead(j.env.task)
        BY <1>2, <2>1, <2>2, <3>1 DEF Contract!MarkDead, Contract!HasRow, Contract!Show, Exists
      <3> QED
        BY <1>0, <3>2 DEF Contract!ServiceNext
    <2>3. CASE ~Exists(j.env.task)
      <3>1. tasks' = tasks
        BY <1>4, <2>3 DEF MarkDead, update_task_state
      <3> QED
        BY <1>1, <1>2, <2>1, <3>1, Stutters
    <2> QED
      BY <2>2, <2>3
  <1> QED
    BY <1>3, <1>4

\* The other steps of a job are invisible: a retry is of a task the broker has.
LEMMA JobSimulates ==
  ASSUME DeliveryInv, ServiceInv, NEW j \in jobs, JobStep(j)
  PROVE  Contract!ServiceNext \/ UNCHANGED Contract!serviceVars
  <1>0. TypeOK
    BY DEF DeliveryInv
  <1>1. CASE RecordAttempt(j) \/ CommitInsert(j) \/ DeadLetter(j) \/ MarkDead(j)
    BY <1>1, RecordSimulates, InsertSimulates, DeadSimulates
  <1>2. CASE ScheduleRetry(j)
    <2>1. PICK e \in TaskEnvelope : e = NextAttempt(j.env) /\ e.task = j.env.task
      BY JobQueued, NextAttemptType
    <2>2. schedule(e) /\ UNCHANGED <<log, tasks, effects, dlq>>
      BY <1>2, <2>1 DEF ScheduleRetry, streamVars, storeVars
    <2>3. Queued' = Queued
      BY <1>0, <2>1, <2>2, JobQueued, QueuedSteps
    <2> QED
      BY <2>2, <2>3, Stutters
  <1>3. CASE ~(RecordAttempt(j) \/ CommitInsert(j) \/ DeadLetter(j) \/ MarkDead(j)
               \/ ScheduleRetry(j))
    <2>1. UNCHANGED <<log, sched, tasks, effects, dlq>>
      BY <1>3
      DEF JobStep, AcquireLease, GiveBack, RunHandler, HeartbeatError, CommitSelect,
          RecordFailure, CommitError, ReleaseLease, Ack, ack, ProcessError, brokerVars,
          streamVars, storeVars
    <2> QED
      BY <1>0, <2>1, QueuedSteps, Stutters
  <1> QED
    BY <1>1, <1>2, <1>3

\* Every request of the control plane does to a task what the service allows.
LEMMA ControlSimulates ==
  ASSUME DeliveryInv, ServiceInv, ControlNext
  PROVE  Contract!ServiceNext \/ UNCHANGED Contract!serviceVars
  <1>0. /\ TypeOK /\ tasks \in [Tasks -> TaskState] /\ RequestsInv
        /\ \A u \in locked : Exists(u)
    BY DEF DeliveryInv, TypeOK, StoreTypeOK, RowsInv, ServiceInv
  <1>1. PICK t \in Tasks :
          \/ CreateSelect(t) \/ CreateInsert(t) \/ CreatePublish(t) \/ CreateCrash(t)
          \/ InjectFailure(t) \/ CancelTask(t)
          \/ RequeuePublish(t) \/ RequeueCommit(t) \/ RequeueCrash(t) \/ RequeuePublishError(t)
    BY DEF ControlNext
  <1>2. UNCHANGED <<effects, dlq>> /\ Commits' = Commits /\ DeadLettered' = DeadLettered
    BY <1>1
    DEF CreateSelect, CreateInsert, CreatePublish, CreateCrash, InjectFailure, CancelTask,
        RequeuePublish, RequeueCommit, RequeueCrash, RequeuePublishError, storeVars, brokerVars,
        Commits, DeadLettered
  <1>3. CASE CreatePublish(t) \/ InjectFailure(t) \/ RequeuePublish(t)
    <2>1. PICK n \in Nat : \/ publish(Envelope(t, n)) /\ UNCHANGED sched
                           \/ schedule(Envelope(t, n)) /\ UNCHANGED log
      BY <1>0, <1>3
      DEF CreatePublish, InjectFailure, RequeuePublish, TypeOK, ControlTypeOK, streamVars
    <2>2. Envelope(t, n) \in TaskEnvelope /\ Envelope(t, n).task = t
      BY DEF Envelope, TaskEnvelope
    <2>3. Queued' = Queued \cup {t}
      BY <1>0, <2>1, <2>2, QueuedSteps
    <2>4. tasks' = tasks
      BY <1>3 DEF CreatePublish, InjectFailure, RequeuePublish, storeVars
    <2>5. Contract!Enqueue(t)
      BY <1>2, <2>3, <2>4 DEF Contract!Enqueue
    <2> QED
      BY <2>5 DEF Contract!ServiceNext
  <1>4. CASE ~(CreatePublish(t) \/ InjectFailure(t) \/ RequeuePublish(t))
    <2>0. UNCHANGED <<log, sched>> /\ Queued' = Queued
      <3>1. UNCHANGED <<log, sched>>
        BY <1>1, <1>4
        DEF CreateSelect, CreateInsert, CreateCrash, CancelTask, RequeueCommit, RequeueCrash,
            RequeuePublishError, brokerVars
      <3> QED
        BY <1>0, <3>1, QueuedSteps
    <2>1. CASE UNCHANGED tasks
      BY <1>2, <2>0, <2>1, Stutters
    <2>2. CASE CreateInsert(t) /\ ~UNCHANGED tasks
      <3>1. request[t] = "checked"
        BY <2>2 DEF CreateInsert
      <3>2. tasks[t] = "absent"
        BY <1>0, <3>1 DEF RequestsInv, Exists
      <3>3. \E s \in {"pending", "scheduled"} : tasks' = [tasks EXCEPT ![t] = s]
        BY <2>2 DEF CreateInsert
      <3>4. Contract!Create(t)
        BY <1>2, <2>0, <3>2, <3>3 DEF Contract!Create, Contract!HasRow, Contract!Show
      <3> QED
        BY <3>4 DEF Contract!ServiceNext
    <2>3. CASE CancelTask(t)
      <3>1. /\ tasks[t] \in {"pending", "scheduled"}
            /\ tasks' = [tasks EXCEPT ![t] = "cancelled"]
        BY <2>3 DEF CancelTask, cancel_task, update_task_state, Exists
      <3>2. Contract!Cancel(t)
        BY <1>2, <2>0, <3>1 DEF Contract!Cancel, Contract!Show
      <3> QED
        BY <3>2 DEF Contract!ServiceNext
    <2>4. CASE RequeueCommit(t) \/ RequeuePublishError(t)
      <3>1. Exists(t) /\ tasks' = [tasks EXCEPT ![t] = "pending"]
        BY <1>0, <2>4 DEF RequeueCommit, RequeuePublishError, update_task_state
      <3>2. Contract!Requeue(t)
        BY <1>2, <2>0, <3>1 DEF Contract!Requeue, Contract!HasRow, Contract!Show, Exists
      <3> QED
        BY <3>2 DEF Contract!ServiceNext
    <2> QED
      BY <1>1, <1>4, <2>1, <2>2, <2>3, <2>4 DEF CreateSelect, CreateCrash, RequeueCrash, storeVars
  <1> QED
    BY <1>3, <1>4

\* Every step of the engine is a step of the service or invisible to it.
LEMMA StepSimulates ==
  ASSUME DeliveryInv, ServiceInv, [Next]_vars
  PROVE  [Contract!ServiceNext]_(Contract!serviceVars)
  <1>0. TypeOK
    BY DEF DeliveryInv
  <1>1. CASE UNCHANGED vars
    <2>1. UNCHANGED <<log, sched, tasks, effects, dlq>>
      BY <1>1 DEF vars, storeVars, brokerVars
    <2> QED
      BY <1>0, <2>1, QueuedSteps, Stutters
  <1>2. CASE ControlNext
    BY <1>2, ControlSimulates
  <1>3. ASSUME NEW j \in jobs, JobStep(j)
        PROVE  Contract!ServiceNext \/ UNCHANGED Contract!serviceVars
    BY <1>3, JobSimulates
  <1>4. ASSUME NEW w \in Workers,
               \/ Poll(w) \/ StartPolled(w) \/ Reclaim(w) \/ Adopt(w) \/ StartAdopted(w)
               \/ ReclaimError(w) \/ Crash(w)
        PROVE  UNCHANGED Contract!serviceVars
    <2>1. UNCHANGED <<log, sched, tasks, effects, dlq>>
      BY <1>4 DEF Poll, lease, StartPolled, Reclaim, Adopt, StartAdopted, ReclaimError, Crash,
                  storeVars, brokerVars
    <2> QED
      BY <1>0, <2>1, QueuedSteps, Stutters
  <1>5. CASE Promote
    BY <1>0, <1>5, PromoteQueued, Stutters DEF Promote, storeVars
  <1>6. ASSUME NEW l \in leases, LeaseExpires(l)
        PROVE  UNCHANGED Contract!serviceVars
    <2>1. UNCHANGED <<log, sched, tasks, effects, dlq>>
      BY <1>6 DEF LeaseExpires, streamVars, storeVars
    <2> QED
      BY <1>0, <2>1, QueuedSteps, Stutters
  <1> QED
    BY <1>1, <1>2, <1>3, <1>4, <1>5, <1>6 DEF Next, WorkerNext

\* The engine implements QueueService: seen from outside, streams, leases, crashes
\* and redeliveries disappear, and what is left follows the service's rules.
THEOREM EngineImplementsService == Spec => ImplementsQueueService
  <1>1. Init => Contract!ServiceInit
    BY DEF Init, StoreInit, BrokerInit, Contract!ServiceInit, Queued, Commits, DeadLettered
  <1>2. DeliveryInv /\ ServiceInv /\ [Next]_vars => [Contract!ServiceNext]_(Contract!serviceVars)
    BY StepSimulates
  <1> QED
    BY <1>1, <1>2, DeliveryInvariant, ServiceInvariant, PTL
    DEF Spec, ImplementsQueueService, Contract!ServiceSpec

=============================================================================

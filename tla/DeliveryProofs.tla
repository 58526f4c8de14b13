--------------------------- MODULE DeliveryProofs ---------------------------
(***************************************************************************)
(* DeliveryInv is inductive, hence no accepted task is ever lost.  Every   *)
(* step but an acknowledgement is Stable: it drops nothing a task relies   *)
(* on.                                                                     *)
(***************************************************************************)
EXTENDS Delivery, TaskQueueProofs

\* The streams and the tables only grow, and what leaves the ZSET enters the
\* stream at a new position.
Stable ==
  /\ Len(log) <= Len(log') /\ delivered <= delivered'
  /\ \A k \in 1..Len(log) : log'[k] = log[k]
  /\ Unacked \subseteq Unacked'
  /\ \A e \in sched :
       e \in sched' \/ \E k \in Unacked' : k > Len(log) /\ log'[k].task = e.task
  /\ dlq \subseteq dlq'
  /\ effects \subseteq effects'
  /\ \A t \in Tasks : Exists(t) => Exists(t)'

\* Unacked entries are entries of the stream.
LEMMA UnackedType ==
  ASSUME BrokerTypeOK
  PROVE  /\ Unacked \subseteq 1..Len(log)
         /\ Len(log) \in Nat /\ delivered \in Nat
  <1>1. Len(log) \in Nat /\ delivered \in Nat /\ delivered <= Len(log)
    BY DEF BrokerTypeOK
  <1>2. \A k \in Unacked : k \in 1..Len(log)
    BY <1>1, PendingType DEF Unacked
  <1> QED
    BY <1>1, <1>2

\* A stable step keeps a task safe beyond an entry of the stream.
LEMMA SafeStable ==
  ASSUME BrokerTypeOK, BrokerTypeOK', Stable,
         NEW t \in Tasks, NEW i \in 0..Len(log), SafeBeyond(t, i)
  PROVE  SafeBeyond(t, i)'
  <1>0. Len(log) \in Nat
    BY DEF BrokerTypeOK
  <1>1. CASE \E k \in Unacked : k > i /\ log[k].task = t
    BY <1>1, UnackedType DEF Stable, SafeBeyond
  <1>2. CASE \E e \in sched : e.task = t
    <2>1. PICK e \in sched : e.task = t
      BY <1>2
    <2>2. CASE e \in sched'
      BY <2>1, <2>2 DEF SafeBeyond
    <2>3. CASE \E k \in Unacked' : k > Len(log) /\ log'[k].task = e.task
      <3>1. PICK k \in Unacked' : k > Len(log) /\ log'[k].task = e.task
        BY <2>3
      <3>2. k \in Int
        BY <3>1 DEF Unacked, BrokerTypeOK
      <3> QED
        BY <1>0, <2>1, <3>1, <3>2 DEF SafeBeyond
    <2> QED
      BY <2>1, <2>2, <2>3 DEF Stable
  <1>3. CASE \E e \in dlq : e.task = t
    BY <1>3 DEF Stable, SafeBeyond
  <1>4. CASE \E r \in effects : r.task = t
    BY <1>4 DEF Stable, SafeBeyond
  <1> QED
    BY <1>1, <1>2, <1>3, <1>4 DEF SafeBeyond

\* An entry stays where it is and delivered.
LEMMA EntryStable ==
  ASSUME BrokerTypeOK, delivered \in Nat, delivered' \in Nat, delivered <= delivered',
         \A k \in 1..Len(log) : log'[k] = log[k],
         NEW id, NEW e, DeliveredFor(id, e)
  PROVE  DeliveredFor(id, e)'
  BY DEF BrokerTypeOK, DeliveredFor

\* A stable step leaves the invariant of a job as it is.
LEMMA JobStable ==
  ASSUME TypeOK, TypeOK', Stable, NEW j \in Job, JobInv(j)
  PROVE  JobInv(j)'
  <1>1. /\ BrokerTypeOK /\ BrokerTypeOK'
        /\ j.env.task \in Tasks /\ delivered \in Nat /\ delivered' \in Nat
    <2>1. BrokerTypeOK /\ BrokerTypeOK'
      BY DEF TypeOK
    <2>2. delivered \in Nat /\ delivered' \in Nat
      BY <2>1 DEF BrokerTypeOK
    <2> QED
      BY <2>1, <2>2 DEF Job, TaskEnvelope
  <1>2. DeliveredFor(j.id, j.env)'
    BY <1>1, EntryStable DEF JobInv, Stable
  <1>3. j.pc \in Executing => Exists(j.env.task)'
    BY <1>1 DEF JobInv, Stable
  <1>4. j.pc = "release" /\ j.err = NoError => Committed(j.env.task)'
    BY DEF JobInv, Stable, Committed
  <1>5. j.pc \in {"ack", "markDead"} => SafeBeyond(j.env.task, j.id)'
    <2>1. j.id \in 0..Len(log)
      BY <1>1 DEF JobInv, DeliveredFor, BrokerTypeOK
    <2> QED
      BY <1>1, <2>1, SafeStable DEF JobInv
  <1> QED
    BY <1>2, <1>3, <1>4, <1>5 DEF JobInv

-----------------------------------------------------------------------------
(* Every step but an acknowledgement is stable. *)

\* A step that leaves the stream alone and only adds to the other places.
LEMMA QuietStable ==
  ASSUME BrokerTypeOK, UNCHANGED streamVars,
         sched \subseteq sched', dlq \subseteq dlq', effects \subseteq effects',
         \A t \in Tasks : Exists(t) => Exists(t)'
  PROVE  Stable
  BY UnackedType DEF Stable, streamVars, Unacked

\* A step that appends to the stream.
LEMMA PublishStable ==
  ASSUME BrokerTypeOK, NEW e \in TaskEnvelope, publish(e),
         UNCHANGED <<sched, dlq, effects, tasks>>
  PROVE  Stable /\ Len(log') = Len(log) + 1 /\ log'[Len(log')] = e /\ Len(log') \in Unacked'
  <1>1. /\ Len(log) \in Nat /\ delivered \in Nat /\ delivered <= Len(log)
        /\ log \in Seq(TaskEnvelope)
    BY DEF BrokerTypeOK
  <1>2. /\ log' = Append(log, e) /\ delivered' = delivered /\ pel' = pel
    BY DEF publish
  <1>3. /\ Len(log') = Len(log) + 1
        /\ \A k \in 1..Len(log) : log'[k] = log[k]
        /\ log'[Len(log')] = e
    BY <1>1, <1>2
  <1>4. Unacked \subseteq Unacked' /\ Len(log') \in Unacked'
    BY <1>1, <1>2, <1>3 DEF Unacked
  <1>5. \A t \in Tasks : Exists(t) => Exists(t)'
    BY DEF Exists
  <1> QED
    BY <1>1, <1>2, <1>3, <1>4, <1>5 DEF Stable

\* An UPDATE of the state leaves existing rows in place.
LEMMA UpdateKeepsRows ==
  ASSUME StoreTypeOK, NEW t \in Tasks, NEW state \in TaskState \ {"absent"},
         update_task_state(t, state)
  PROVE  \A u \in Tasks : Exists(u) <=> Exists(u)'
  BY DEF StoreTypeOK, update_task_state, Exists

\* A job neither creates nor deletes task rows.
LEMMA JobStepRows ==
  ASSUME TypeOK, NEW j \in jobs, JobStep(j)
  PROVE  \A u \in Tasks : Exists(u) <=> Exists(u)'
  <1>1. j.env.task \in Tasks /\ StoreTypeOK
    BY DEF TypeOK, WorkerTypeOK, Job, TaskEnvelope
  <1>2. CASE UNCHANGED tasks
    BY <1>2 DEF Exists
  <1>3. CASE \E state \in {"leased", "succeeded", "dead"} : update_task_state(j.env.task, state)
    BY <1>1, <1>3, UpdateKeepsRows DEF TaskState
  <1> QED
    BY <1>2, <1>3
    DEF JobStep, AcquireLease, RecordAttempt, GiveBack, RunHandler, HeartbeatError,
        CommitSelect, CommitInsert, RecordFailure, CommitError, ReleaseLease, ScheduleRetry,
        DeadLetter, MarkDead, Ack, ProcessError, storeVars

\* Every step of a job but its acknowledgement is stable.
LEMMA JobStepStable ==
  ASSUME TypeOK, NEW j \in jobs, JobStep(j), ~Ack(j)
  PROVE  Stable
  <1>1. UNCHANGED streamVars
    BY DEF JobStep, AcquireLease, RecordAttempt, GiveBack, RunHandler, HeartbeatError,
        CommitSelect, CommitInsert, RecordFailure, CommitError, ReleaseLease, ScheduleRetry,
        DeadLetter, MarkDead, ProcessError, brokerVars, streamVars
  <1>2. sched \subseteq sched'
    BY DEF JobStep, AcquireLease, RecordAttempt, GiveBack, RunHandler, HeartbeatError,
        CommitSelect, CommitInsert, RecordFailure, CommitError, ReleaseLease, ScheduleRetry,
        DeadLetter, MarkDead, ProcessError, brokerVars, schedule
  <1>3. dlq \subseteq dlq'
    BY DEF JobStep, AcquireLease, RecordAttempt, GiveBack, RunHandler, HeartbeatError,
        CommitSelect, CommitInsert, RecordFailure, CommitError, ReleaseLease, ScheduleRetry,
        DeadLetter, MarkDead, ProcessError, brokerVars, dead_letter
  <1>4. effects \subseteq effects'
    BY DEF JobStep, AcquireLease, RecordAttempt, GiveBack, RunHandler, HeartbeatError,
        CommitSelect, CommitInsert, RecordFailure, CommitError, ReleaseLease, ScheduleRetry,
        DeadLetter, MarkDead, ProcessError, storeVars, insert_effect
  <1> QED
    BY <1>1, <1>2, <1>3, <1>4, JobStepRows, QuietStable DEF TypeOK

\* XREADGROUP moves entries from undelivered to pending.
LEMMA PollStable ==
  ASSUME TypeOK, NEW w \in Workers, Poll(w)
  PROVE  Stable
  <1>1. PICK n \in 1..BatchSize : PollSize(w, n) /\ lease(n)
    BY DEF Poll
  <1>2. /\ n \in Nat /\ delivered \in Nat /\ Len(log) \in Nat /\ delivered + n <= Len(log)
        /\ delivered' = delivered + n /\ log' = log
        /\ pel' = pel \cup (delivered + 1)..(delivered + n)
    <2>1. BrokerTypeOK
      BY DEF TypeOK
    <2> QED
      BY <1>1, <2>1, PolledType, BatchAssumption, UnackedType DEF lease
  <1>3. Unacked \subseteq Unacked'
    BY <1>2 DEF Unacked
  <1>4. UNCHANGED <<sched, dlq, effects, tasks>>
    BY DEF Poll, storeVars
  <1> QED
    BY <1>2, <1>3, <1>4 DEF Stable, Exists

\* promote_scheduled moves entries from the ZSET to the end of the stream.
LEMMA PromoteStable ==
  ASSUME TypeOK, Promote
  PROVE  Stable
  <1>0. BrokerTypeOK
    BY DEF TypeOK
  <1>1. PICK n \in 1..PromoteBatch : \E due \in [1..n -> sched] :
          /\ log' = log \o due
          /\ sched' = sched \ {due[i] : i \in 1..n}
          /\ UNCHANGED <<delivered, pel>>
    BY DEF Promote, promote_scheduled
  <1>2. PICK due \in [1..n -> sched] :
          /\ log' = log \o due
          /\ sched' = sched \ {due[i] : i \in 1..n}
          /\ UNCHANGED <<delivered, pel>>
    BY <1>1
  <1>3. n \in Nat /\ due \in [1..n -> TaskEnvelope]
    BY <1>0, BrokerAssumption DEF BrokerTypeOK
  <1>4. due \in Seq(TaskEnvelope) /\ Len(due) = n /\ log \in Seq(TaskEnvelope)
    BY <1>0, <1>3, FunctionIsSeq DEF BrokerTypeOK
  <1>5. /\ Len(log) \in Nat /\ delivered \in Nat /\ delivered <= Len(log)
    BY <1>0 DEF BrokerTypeOK
  <1>6. /\ Len(log') = Len(log) + n
        /\ \A k \in 1..(Len(log) + n) :
             log'[k] = IF k <= Len(log) THEN log[k] ELSE due[k - Len(log)]
    BY <1>2, <1>4, ConcatProperties
  <1>7. Unacked \subseteq Unacked' /\ (Len(log) + 1)..Len(log') \subseteq Unacked'
    BY <1>2, <1>3, <1>5, <1>6 DEF Unacked
  <1>8. \A e \in sched :
          e \in sched' \/ \E k \in Unacked' : k > Len(log) /\ log'[k].task = e.task
    <2> SUFFICES ASSUME NEW e \in sched, e \notin sched'
                 PROVE  \E k \in Unacked' : k > Len(log) /\ log'[k].task = e.task
      OBVIOUS
    <2>1. PICK i \in 1..n : e = due[i]
      BY <1>2
    <2>2. Len(log) + i \in Unacked' /\ Len(log) + i > Len(log)
      BY <1>3, <1>5, <1>6, <1>7
    <2>3. log'[Len(log) + i] = due[i]
      BY <1>3, <1>5, <1>6
    <2> QED
      BY <2>1, <2>2, <2>3
  <1>9. \A k \in 1..Len(log) : log'[k] = log[k]
    BY <1>3, <1>5, <1>6
  <1>10. UNCHANGED <<dlq, effects, tasks>>
    BY DEF Promote, storeVars
  <1> QED
    BY <1>2, <1>3, <1>5, <1>6, <1>7, <1>8, <1>9, <1>10 DEF Stable, Exists

\* The other steps of the worker change neither the stream nor the tables' rows.
LEMMA HandStepStable ==
  ASSUME TypeOK, NEW w \in Workers,
         \/ StartPolled(w) \/ Reclaim(w) \/ Adopt(w) \/ StartAdopted(w) \/ ReclaimError(w)
         \/ Crash(w)
  PROVE  Stable /\ UNCHANGED <<brokerVars, tasks, effects, locked>>
  <1>1. UNCHANGED <<brokerVars, tasks, effects, locked>>
    BY DEF StartPolled, Reclaim, Adopt, StartAdopted, ReclaimError, Crash, storeVars
  <1> QED
    BY <1>1, QuietStable DEF TypeOK, brokerVars, streamVars, Exists

\* The expiry of a lease touches nothing a task relies on.
LEMMA ExpiryStable ==
  ASSUME TypeOK, NEW l \in leases, LeaseExpires(l)
  PROVE  Stable
  BY QuietStable DEF LeaseExpires, TypeOK, storeVars, Exists

\* Every step of the control plane is stable.
LEMMA ControlStepStable ==
  ASSUME TypeOK, NEW t \in Tasks,
         \/ CreateSelect(t) \/ CreateInsert(t) \/ CreatePublish(t) \/ CreateCrash(t)
         \/ InjectFailure(t) \/ CancelTask(t)
         \/ RequeuePublish(t) \/ RequeueCommit(t) \/ RequeueCrash(t) \/ RequeuePublishError(t)
  PROVE  Stable
  <1>0. BrokerTypeOK /\ StoreTypeOK /\ ControlTypeOK
    BY DEF TypeOK
  <1>1. CASE CreateSelect(t) \/ CreateCrash(t) \/ RequeueCrash(t)
    BY <1>0, <1>1, QuietStable
    DEF CreateSelect, CreateCrash, RequeueCrash, brokerVars, streamVars, storeVars, Exists
  <1>2. CASE CreateInsert(t) \/ RequeueCommit(t)
    <2>1. \A u \in Tasks : Exists(u) => Exists(u)'
      BY <1>0, <1>2 DEF CreateInsert, RequeueCommit, StoreTypeOK, Exists
    <2> QED
      BY <1>0, <1>2, <2>1, QuietStable DEF CreateInsert, RequeueCommit, brokerVars, streamVars
  <1>3. CASE CancelTask(t) \/ RequeuePublishError(t)
    <2>1. \A u \in Tasks : Exists(u) => Exists(u)'
      BY <1>0, <1>3, UpdateKeepsRows DEF CancelTask, cancel_task, RequeuePublishError, TaskState
    <2> QED
      BY <1>0, <1>3, <2>1, QuietStable
      DEF CancelTask, RequeuePublishError, brokerVars, streamVars
  <1>4. CASE CreatePublish(t)
    <2>1. CASE publish(Envelope(t, 0)) /\ UNCHANGED sched
      BY <1>0, <1>4, <2>1, EnvelopeType, PublishStable DEF CreatePublish, storeVars
    <2>2. CASE schedule(Envelope(t, 0)) /\ UNCHANGED streamVars
      BY <1>0, <1>4, <2>2, QuietStable DEF CreatePublish, schedule, storeVars, Exists
    <2> QED
      BY <1>4, <2>1, <2>2 DEF CreatePublish
  <1>5. CASE InjectFailure(t)
    BY <1>0, <1>5, EnvelopeType, PublishStable DEF InjectFailure, storeVars
  <1>6. CASE RequeuePublish(t)
    <2>1. Envelope(t, requeues[t] + 1) \in TaskEnvelope
      BY <1>0, EnvelopeType DEF ControlTypeOK
    <2> QED
      BY <1>0, <1>6, <2>1, PublishStable DEF RequeuePublish
  <1> QED
    BY <1>1, <1>2, <1>3, <1>4, <1>5, <1>6

-----------------------------------------------------------------------------
(* The conjuncts of DeliveryInv under a stable step. *)

\* The types of the stream, before and after a step.
LEMMA DeliveredType ==
  ASSUME TypeOK, TypeOK'
  PROVE  BrokerTypeOK /\ BrokerTypeOK' /\ delivered \in Nat /\ delivered' \in Nat
  <1>1. BrokerTypeOK /\ BrokerTypeOK'
    BY DEF TypeOK
  <1> QED
    BY <1>1 DEF BrokerTypeOK

\* Messages in hand stay delivered.
LEMMA QueueStable ==
  ASSUME TypeOK, TypeOK', Stable, NEW msgs, FromStream(msgs)
  PROVE  FromStream(msgs)'
  BY DeliveredType, EntryStable DEF FromStream, Stable

\* Messages in hand stay delivered.
LEMMA HandsStable ==
  ASSUME TypeOK, TypeOK', Stable, HandsFromStream, UNCHANGED handVars
  PROVE  HandsFromStream'
  <1> SUFFICES ASSUME NEW w \in Workers
               PROVE  (FromStream(polled[w]) /\ FromStream(claimed[w]) /\ FromStream(adopted[w]))'
    BY DEF HandsFromStream
  <1> QED
    BY QueueStable DEF HandsFromStream, handVars

\* Jobs that go on, or end, keep their invariant.
LEMMA JobsStable ==
  ASSUME TypeOK, TypeOK', Stable, \A j \in jobs : JobInv(j), jobs' \subseteq jobs
  PROVE  \A j \in jobs' : JobInv(j)'
  BY JobStable DEF TypeOK, WorkerTypeOK

\* A stable step loses no published task.
LEMMA NotLostStable ==
  ASSUME TypeOK, TypeOK', Stable, NoTaskLost, UNCHANGED request
  PROVE  NoTaskLost'
  <1>1. BrokerTypeOK /\ BrokerTypeOK' /\ 0 \in 0..Len(log)
    BY DeliveredType, UnackedType
  <1>2. ASSUME NEW t \in Tasks, Published(t)'
        PROVE  SafeBeyond(t, 0)'
    BY <1>1, <1>2, SafeStable DEF NoTaskLost, Published
  <1> QED
    BY <1>2 DEF NoTaskLost

\* A step that creates no row and no effect preserves RowsInv.
LEMMA RowsStable ==
  ASSUME TypeOK, RowsInv, effects' = effects, locked' \subseteq locked,
         \A u \in Tasks : Exists(u) <=> Exists(u)'
  PROVE  RowsInv'
  BY DEF RowsInv, TypeOK, StoreTypeOK, EffectRow

\* The effect found under an envelope's key is the effect of its task.
LEMMA EffectOfTask ==
  ASSUME TypeOK, RowsInv, NEW e \in TaskEnvelope, Exists(e.task),
         NEW r \in EffectsOf(EffectKey(e))
  PROVE  r.task = e.task
  <1>1. e.task \in Tasks /\ r \in effects /\ r.key = EffectKey(e) /\ r.task \in Tasks
    BY DEF TaskEnvelope, EffectsOf, TypeOK, StoreTypeOK, EffectRow
  <1>2. r.key \in {e.task, DedupKey[e.task]} \ {NoKey}
    BY <1>1, EffectKeyType
  <1>3. r.key \in {r.task, DedupKey[r.task]} \ {NoKey} /\ Exists(r.task)
    BY <1>1 DEF RowsInv
  <1>4. CASE r.key \in Tasks
    BY <1>1, <1>2, <1>3, <1>4, CoreAssumption, ControlAssumption
  <1>5. CASE r.key \notin Tasks
    BY <1>1, <1>2, <1>3, <1>5 DEF RowsInv
  <1> QED
    BY <1>4, <1>5

\* A job that becomes k: what k has to satisfy.
LEMMA BecomeInv ==
  ASSUME TypeOK, TypeOK', Stable, \A i \in jobs : JobInv(i),
         NEW j \in jobs, NEW k \in Job, k.id = j.id, k.env = j.env, Become(j, k),
         k.pc \in Executing => Exists(j.env.task),
         k.pc = "close" => k.err # NoError,
         k.pc = "release" /\ k.err = NoError => Committed(j.env.task)',
         k.pc \in {"ack", "markDead"} => SafeBeyond(j.env.task, j.id)'
  PROVE  \A i \in jobs' : JobInv(i)'
  <1>1. \A i \in jobs : i \in Job /\ JobInv(i)'
    BY JobStable DEF TypeOK, WorkerTypeOK
  <1>2. DeliveredFor(k.id, k.env)'
    BY <1>1 DEF JobInv
  <1>3. j.env.task \in Tasks
    BY <1>1 DEF Job, TaskEnvelope
  <1>4. k.pc \in Executing => Exists(j.env.task)'
    BY <1>3 DEF Stable
  <1>5. JobInv(k)'
    BY <1>2, <1>4 DEF JobInv
  <1> QED
    BY <1>1, <1>5 DEF Become

\* A job whose call to execute() returned.
LEMMA ReturnInv ==
  ASSUME TypeOK, TypeOK', Stable, \A i \in jobs : JobInv(i),
         NEW j \in jobs, NEW error, Return(j, error),
         error = NoError => Committed(j.env.task)'
  PROVE  \A i \in jobs' : JobInv(i)'
  <1>1. jobs \subseteq Job /\ j \in Job
    BY DEF TypeOK, WorkerTypeOK
  <1>2. PICK pc \in {"ack", "schedule", "deadLetter"} :
          /\ error = NoError <=> pc = "ack"
          /\ jobs' = (jobs \ {j}) \cup {[j EXCEPT !.pc = pc, !.fence = 0, !.err = NoError]}
          /\ jobs' \subseteq Job
    BY <1>1, ReturnType, Zenon
  <1> DEFINE k == [j EXCEPT !.pc = pc, !.fence = 0, !.err = NoError]
  <1>3. k.id = j.id /\ k.env = j.env /\ k.pc = pc
    BY <1>1 DEF Job
  <1>4. k \in Job /\ Become(j, k)
    <2>1. jobs' \subseteq Job
      BY DEF TypeOK, WorkerTypeOK
    <2>2. jobs' = (jobs \ {j}) \cup {k}
      BY <1>2
    <2> HIDE DEF k
    <2> QED
      BY <2>1, <2>2 DEF Become
  <1>5. k.pc = "ack" => SafeBeyond(j.env.task, j.id)'
    BY <1>2, <1>3 DEF SafeBeyond, Committed
  <1>6. k.pc \notin Executing /\ k.pc \notin {"close", "release", "markDead"}
    BY <1>3 DEF Executing
  <1> HIDE DEF k
  <1> QED
    BY <1>3, <1>4, <1>5, <1>6, BecomeInv

\* Every step of a job but Ack preserves the invariant of the jobs.
LEMMA JobStepJobs ==
  ASSUME DeliveryInv, TypeOK', NEW j \in jobs, JobStep(j), ~Ack(j)
  PROVE  \A i \in jobs' : JobInv(i)'
  <1>0. /\ TypeOK /\ RowsInv /\ \A i \in jobs : JobInv(i)
        /\ jobs \subseteq Job /\ jobs' \subseteq Job /\ j \in Job
        /\ j.env \in TaskEnvelope /\ j.env.task \in Tasks
        /\ JobInv(j)
    BY DEF DeliveryInv, TypeOK, WorkerTypeOK, Job, TaskEnvelope
  <1>1. Stable
    BY <1>0, JobStepStable
  <1>2. CASE AcquireLease(j)
    <2> DEFINE k == [j EXCEPT !.pc = "record", !.fence = fenceSeq + 1]
    <2>1. CASE Return(j, "LeaseAcquireError")
      BY <1>0, <1>1, <2>1, ReturnInv, Zenon DEF NoError
    <2>2. CASE Become(j, k)
      <3>1. k.id = j.id /\ k.env = j.env /\ k.pc = "record"
        BY <1>0 DEF Job
      <3> HIDE DEF k
      <3>2. k \in Job
        BY <1>0, <2>2 DEF Become
      <3> QED
        BY <1>0, <1>1, <2>2, <3>1, <3>2, BecomeInv DEF Executing
    <2> QED
      BY <1>2, <2>1, <2>2 DEF AcquireLease
  <1>3. CASE RecordAttempt(j)
    <2>1. CASE Exists(j.env.task) /\ Become(j, [j EXCEPT !.pc = "handler"])
      <3> DEFINE k == [j EXCEPT !.pc = "handler"]
      <3>1. k.id = j.id /\ k.env = j.env /\ k.pc = "handler"
        BY <1>0 DEF Job
      <3> HIDE DEF k
      <3>2. k \in Job /\ Become(j, k)
        BY <1>0, <2>1 DEF Become, k
      <3> QED
        BY <1>0, <1>1, <2>1, <3>1, <3>2, BecomeInv
    <2>2. CASE Become(j, [j EXCEPT !.pc = "giveBack"])
      <3> DEFINE k == [j EXCEPT !.pc = "giveBack"]
      <3>1. k.id = j.id /\ k.env = j.env /\ k.pc = "giveBack"
        BY <1>0 DEF Job
      <3> HIDE DEF k
      <3>2. k \in Job /\ Become(j, k)
        BY <1>0, <2>2 DEF Become, k
      <3> QED
        BY <1>0, <1>1, <3>1, <3>2, BecomeInv DEF Executing
    <2> QED
      BY <1>3, <2>1, <2>2 DEF RecordAttempt, create_attempt
  <1>4. CASE GiveBack(j)
    BY <1>0, <1>1, <1>4, ReturnInv, Zenon DEF GiveBack, NoError
  <1>5. CASE RunHandler(j)
    <2>0. Exists(j.env.task)
      BY <1>0, <1>5 DEF RunHandler, JobInv, Executing
    <2>1. CASE Become(j, [j EXCEPT !.pc = "select"])
      <3> DEFINE k == [j EXCEPT !.pc = "select"]
      <3>1. k.id = j.id /\ k.env = j.env /\ k.pc = "select"
        BY <1>0 DEF Job
      <3> HIDE DEF k
      <3>2. k \in Job /\ Become(j, k)
        BY <1>0, <2>1 DEF Become, k
      <3> QED
        BY <1>0, <1>1, <2>0, <3>1, <3>2, BecomeInv
    <2>2. CASE \E error \in HandlerErrors : Become(j, [j EXCEPT !.pc = "close", !.err = error])
      <3>0. PICK error \in HandlerErrors : Become(j, [j EXCEPT !.pc = "close", !.err = error])
        BY <2>2
      <3> DEFINE k == [j EXCEPT !.pc = "close", !.err = error]
      <3>1. k.id = j.id /\ k.env = j.env /\ k.pc = "close" /\ k.err # NoError
        BY <1>0 DEF Job, HandlerErrors, NoError
      <3> HIDE DEF k
      <3>2. k \in Job /\ Become(j, k)
        BY <1>0, <3>0 DEF Become, k
      <3> QED
        BY <1>0, <1>1, <2>0, <3>1, <3>2, BecomeInv
    <2> QED
      BY <1>5, <2>1, <2>2 DEF RunHandler
  <1>6. CASE HeartbeatError(j) \/ ProcessError(j)
    BY <1>0, <1>1, <1>6, JobsStable DEF HeartbeatError, ProcessError, Ends
  <1>7. CASE CommitError(j)
    <2> DEFINE k == [j EXCEPT !.pc = "release", !.err = "CommitError"]
    <2>1. k.id = j.id /\ k.env = j.env /\ k.pc = "release" /\ k.err # NoError
      BY <1>0 DEF Job, NoError
    <2> HIDE DEF k
    <2>2. k \in Job /\ Become(j, k)
      BY <1>0, <1>7 DEF CommitError, Become, k
    <2> QED
      BY <1>0, <1>1, <2>1, <2>2, BecomeInv DEF Executing
  <1>8. CASE RecordFailure(j)
    <2> DEFINE k == [j EXCEPT !.pc = "release"]
    <2>1. k.id = j.id /\ k.env = j.env /\ k.pc = "release" /\ k.err # NoError
      BY <1>0, <1>8 DEF Job, JobInv, RecordFailure
    <2> HIDE DEF k
    <2>2. k \in Job /\ Become(j, k)
      BY <1>0, <1>8 DEF RecordFailure, Become, k
    <2> QED
      BY <1>0, <1>1, <2>1, <2>2, BecomeInv DEF Executing
  <1>9. CASE ReleaseLease(j)
    <2>1. j.err = NoError => Committed(j.env.task)'
      BY <1>0, <1>1, <1>9 DEF ReleaseLease, JobInv, Committed, Stable
    <2> QED
      BY <1>0, <1>1, <1>9, <2>1, ReturnInv DEF ReleaseLease
  <1>10. CASE CommitSelect(j)
    <2>0. Exists(j.env.task)
      BY <1>0, <1>10 DEF CommitSelect, JobInv, Executing
    <2>1. CASE Become(j, [j EXCEPT !.pc = "insert"])
      <3> DEFINE k == [j EXCEPT !.pc = "insert"]
      <3>1. k.id = j.id /\ k.env = j.env /\ k.pc = "insert"
        BY <1>0 DEF Job
      <3> HIDE DEF k
      <3>2. k \in Job /\ Become(j, k)
        BY <1>0, <2>1 DEF Become, k
      <3> QED
        BY <1>0, <1>1, <2>0, <3>1, <3>2, BecomeInv
    <2>2. CASE Become(j, [j EXCEPT !.pc = "release", !.err = "Effect already committed"])
      <3> DEFINE k == [j EXCEPT !.pc = "release", !.err = "Effect already committed"]
      <3>1. k.id = j.id /\ k.env = j.env /\ k.pc = "release" /\ k.err # NoError
        BY <1>0 DEF Job, NoError
      <3> HIDE DEF k
      <3>2. k \in Job /\ Become(j, k)
        BY <1>0, <2>2 DEF Become, k
      <3> QED
        BY <1>0, <1>1, <3>1, <3>2, BecomeInv DEF Executing
    <2>3. CASE EffectsOf(EffectKey(j.env)) # {} /\ Become(j, [j EXCEPT !.pc = "release"])
      <3> DEFINE k == [j EXCEPT !.pc = "release"]
      <3>1. k.id = j.id /\ k.env = j.env /\ k.pc = "release"
        BY <1>0 DEF Job
      <3> HIDE DEF k
      <3>2. k \in Job /\ Become(j, k)
        BY <1>0, <2>3 DEF Become, k
      <3>3. Committed(j.env.task)'
        <4>1. PICK r \in EffectsOf(EffectKey(j.env)) : TRUE
          BY <2>3
        <4>2. r \in effects /\ r.task = j.env.task
          BY <1>0, <2>0, <4>1, EffectOfTask DEF EffectsOf
        <4> QED
          BY <1>1, <4>2 DEF Committed, Stable
      <3> QED
        BY <1>0, <1>1, <3>1, <3>2, <3>3, BecomeInv DEF Executing
    <2> QED
      BY <1>10, <2>1, <2>2, <2>3 DEF CommitSelect
  <1>11. CASE CommitInsert(j)
    <2>1. CASE /\ insert_effect(EffectKey(j.env), j.env.task, j.fence)
               /\ Become(j, [j EXCEPT !.pc = "release"])
      <3> DEFINE k == [j EXCEPT !.pc = "release"]
      <3>1. k.id = j.id /\ k.env = j.env /\ k.pc = "release"
        BY <1>0 DEF Job
      <3> HIDE DEF k
      <3>2. k \in Job /\ Become(j, k)
        BY <1>0, <2>1 DEF Become, k
      <3>3. Committed(j.env.task)'
        <4>1. PICK r \in effects' : r = [key |-> EffectKey(j.env), task |-> j.env.task,
                                        fence |-> j.fence]
          BY <2>1 DEF insert_effect
        <4> QED
          BY <4>1 DEF Committed
      <3> QED
        BY <1>0, <1>1, <3>1, <3>2, <3>3, BecomeInv DEF Executing
    <2>2. CASE Become(j, [j EXCEPT !.pc = "release", !.err = "CommitError"])
      <3> DEFINE k == [j EXCEPT !.pc = "release", !.err = "CommitError"]
      <3>1. k.id = j.id /\ k.env = j.env /\ k.pc = "release" /\ k.err # NoError
        BY <1>0 DEF Job, NoError
      <3> HIDE DEF k
      <3>2. k \in Job /\ Become(j, k)
        BY <1>0, <2>2 DEF Become, k
      <3> QED
        BY <1>0, <1>1, <3>1, <3>2, BecomeInv DEF Executing
    <2> QED
      BY <1>11, <2>1, <2>2 DEF CommitInsert
  <1>12. CASE ScheduleRetry(j) \/ MarkDead(j)
    <2> DEFINE k == [j EXCEPT !.pc = "ack"]
    <2>1. k.id = j.id /\ k.env = j.env /\ k.pc = "ack"
      BY <1>0 DEF Job
    <2>2. SafeBeyond(j.env.task, j.id)'
      <3>1. CASE ScheduleRetry(j)
        BY <1>0, <3>1, NextAttemptType DEF ScheduleRetry, schedule, SafeBeyond
      <3>2. CASE MarkDead(j)
        BY <1>0, <1>1, <3>2, JobStable DEF MarkDead, JobInv
      <3> QED
        BY <1>12, <3>1, <3>2
    <2> HIDE DEF k
    <2>3. k \in Job /\ Become(j, k)
      BY <1>0, <1>12 DEF ScheduleRetry, MarkDead, Become, k
    <2> QED
      BY <1>0, <1>1, <2>1, <2>2, <2>3, BecomeInv DEF Executing
  <1>13. CASE DeadLetter(j)
    <2> DEFINE k == [j EXCEPT !.pc = "markDead"]
    <2>1. k.id = j.id /\ k.env = j.env /\ k.pc = "markDead"
      BY <1>0 DEF Job
    <2>2. SafeBeyond(j.env.task, j.id)'
      BY <1>13 DEF DeadLetter, dead_letter, SafeBeyond
    <2> HIDE DEF k
    <2>3. k \in Job /\ Become(j, k)
      BY <1>0, <1>13 DEF DeadLetter, Become, k
    <2> QED
      BY <1>0, <1>1, <2>1, <2>2, <2>3, BecomeInv DEF Executing
  <1> QED
    BY <1>2, <1>3, <1>4, <1>5, <1>6, <1>7, <1>8, <1>9, <1>10, <1>11, <1>12, <1>13 DEF JobStep

\* An acknowledgement removes one entry, and what it relies on is elsewhere.
LEMMA AckSafe ==
  ASSUME DeliveryInv, NEW j \in jobs, Ack(j),
         NEW t \in Tasks, NEW i \in 0..Len(log), SafeBeyond(t, i)
  PROVE  SafeBeyond(t, i)'
  <1>0. BrokerTypeOK /\ j \in Job /\ JobInv(j) /\ j.pc = "ack"
    BY DEF DeliveryInv, TypeOK, WorkerTypeOK, Ack
  <1>1. /\ pel' = pel \ {j.id}
        /\ UNCHANGED <<log, delivered, sched, dlq, effects>>
    BY DEF Ack, ack, storeVars
  <1>2. /\ j.id \in 1..delivered /\ log[j.id].task = j.env.task
        /\ SafeBeyond(j.env.task, j.id)
    BY <1>0 DEF JobInv, DeliveredFor
  <1>3. delivered \in Nat /\ Len(log) \in Nat /\ Unacked \subseteq 1..Len(log)
    BY <1>0, UnackedType
  <1>4. Unacked' = Unacked \ {j.id}
    BY <1>1, <1>2, <1>3 DEF Unacked
  <1>5. CASE \E e \in sched \cup dlq : e.task = t
    BY <1>1, <1>5 DEF SafeBeyond
  <1>6. CASE \E r \in effects : r.task = t
    BY <1>1, <1>6 DEF SafeBeyond
  <1>7. CASE \E k \in Unacked : k > i /\ log[k].task = t
    <2>1. PICK k \in Unacked : k > i /\ log[k].task = t
      BY <1>7
    <2>2. CASE k # j.id
      BY <1>1, <1>4, <2>1, <2>2 DEF SafeBeyond
    <2>3. CASE k = j.id
      <3>1. t = j.env.task
        BY <1>2, <2>1, <2>3
      <3>2. CASE \E m \in Unacked : m > j.id /\ log[m].task = t
        <4>1. PICK m \in Unacked : m > j.id /\ log[m].task = t
          BY <3>2
        <4>2. m \in Unacked' /\ m > i
          BY <1>2, <1>3, <1>4, <2>1, <2>3, <4>1
        <4> QED
          BY <1>1, <4>1, <4>2 DEF SafeBeyond
      <3> QED
        BY <1>2, <1>5, <1>6, <3>1, <3>2 DEF SafeBeyond
    <2> QED
      BY <2>2, <2>3
  <1> QED
    BY <1>5, <1>6, <1>7 DEF SafeBeyond

\* An acknowledgement preserves the invariant: the task is safe beyond its entry.
LEMMA AckInv ==
  ASSUME DeliveryInv, TypeOK', NEW j \in jobs, Ack(j), UNCHANGED <<handVars, controlVars>>
  PROVE  DeliveryInv'
  <1>0. /\ TypeOK /\ BrokerTypeOK /\ jobs \subseteq Job /\ jobs' \subseteq jobs
        /\ UNCHANGED <<log, delivered, effects, tasks, locked>>
    BY DEF DeliveryInv, TypeOK, WorkerTypeOK, Ack, ack, Ends, storeVars
  <1>1. HandsFromStream'
    BY <1>0 DEF DeliveryInv, HandsFromStream, FromStream, DeliveredFor, handVars
  <1>2. \A i \in jobs' : JobInv(i)'
    <2> SUFFICES ASSUME NEW i \in jobs'
                 PROVE  JobInv(i)'
      OBVIOUS
    <2>1. i \in jobs /\ i \in Job /\ JobInv(i)
      BY <1>0 DEF DeliveryInv
    <2>2. i.env.task \in Tasks /\ i.id \in 0..Len(log)
      <3>1. delivered \in Nat /\ Len(log) \in Nat /\ delivered <= Len(log)
        BY <1>0 DEF BrokerTypeOK
      <3> QED
        BY <2>1, <3>1 DEF Job, TaskEnvelope, JobInv, DeliveredFor
    <2>3. i.pc \in {"ack", "markDead"} => SafeBeyond(i.env.task, i.id)'
      BY <2>1, <2>2, AckSafe DEF JobInv
    <2> QED
      BY <1>0, <2>1, <2>3 DEF JobInv, DeliveredFor, Exists, Committed
  <1>3. RowsInv'
    BY <1>0 DEF DeliveryInv, RowsInv, Exists
  <1>4. NoTaskLost'
    <2>1. 0 \in 0..Len(log)
      BY <1>0, UnackedType
    <2> QED
      BY <2>1, AckSafe DEF DeliveryInv, NoTaskLost, Published, controlVars
  <1> QED
    BY <1>1, <1>2, <1>3, <1>4 DEF DeliveryInv

-----------------------------------------------------------------------------
(* Every step of the system preserves DeliveryInv. *)

\* A job preserves RowsInv: its effect is filed under its own key.
LEMMA JobStepRowsInv ==
  ASSUME DeliveryInv, NEW j \in jobs, JobStep(j)
  PROVE  RowsInv'
  <1>0. /\ TypeOK /\ RowsInv /\ JobInv(j) /\ j.env \in TaskEnvelope /\ j.env.task \in Tasks
        /\ locked' = locked /\ \A u \in Tasks : Exists(u) <=> Exists(u)'
    <2>1. TypeOK /\ RowsInv /\ JobInv(j) /\ j.env \in TaskEnvelope /\ j.env.task \in Tasks
      BY DEF DeliveryInv, TypeOK, WorkerTypeOK, Job, TaskEnvelope
    <2>2. locked' = locked
      BY DEF JobStep, AcquireLease, RecordAttempt, GiveBack, RunHandler, HeartbeatError,
        CommitSelect, CommitInsert, RecordFailure, CommitError, ReleaseLease, ScheduleRetry,
        DeadLetter, MarkDead, Ack, ProcessError, storeVars
    <2> QED
      BY <2>1, <2>2, JobStepRows
  <1>1. CASE effects' = effects
    BY <1>0, <1>1, RowsStable
  <1>2. CASE CommitInsert(j) /\ insert_effect(EffectKey(j.env), j.env.task, j.fence)
    <2> DEFINE row == [key |-> EffectKey(j.env), task |-> j.env.task, fence |-> j.fence]
    <2>1. /\ row.task = j.env.task /\ Exists(row.task)'
          /\ row.key \in {row.task, DedupKey[row.task]} \ {NoKey}
      BY <1>0, <1>2, EffectKeyType DEF JobInv, CommitInsert, Executing
    <2>2. \A r \in effects : r.task \in Tasks
      BY <1>0 DEF TypeOK, StoreTypeOK, EffectRow
    <2>3. effects' = effects \cup {row}
      BY <1>2 DEF insert_effect
    <2> HIDE DEF row
    <2> QED
      BY <1>0, <2>1, <2>2, <2>3 DEF RowsInv, TypeOK, StoreTypeOK
  <1> QED
    BY <1>1, <1>2
    DEF JobStep, AcquireLease, RecordAttempt, GiveBack, RunHandler, HeartbeatError,
        CommitSelect, CommitInsert, RecordFailure, CommitError, ReleaseLease, ScheduleRetry,
        DeadLetter, MarkDead, Ack, ProcessError, storeVars

\* Every step of a job preserves the invariant.
LEMMA JobStepInv ==
  ASSUME DeliveryInv, TypeOK', NEW j \in jobs, JobStep(j), UNCHANGED <<handVars, controlVars>>
  PROVE  DeliveryInv'
  <1>1. CASE Ack(j)
    BY <1>1, AckInv
  <1>2. CASE ~Ack(j)
    <2>1. TypeOK /\ HandsFromStream /\ NoTaskLost
      BY DEF DeliveryInv
    <2>2. Stable
      BY <1>2, <2>1, JobStepStable
    <2>3. HandsFromStream' /\ NoTaskLost'
      BY <2>1, <2>2, HandsStable, NotLostStable DEF handVars, controlVars
    <2> QED
      BY <1>2, <2>3, JobStepJobs, JobStepRowsInv DEF DeliveryInv
  <1> QED
    BY <1>1, <1>2

\* A job that starts from a message in hand.
LEMMA StartInv ==
  ASSUME TypeOK, TypeOK', Stable, \A i \in jobs : JobInv(i),
         NEW w \in Workers, NEW m, DeliveredFor(m.id, m.env), NewJob(w, m)
  PROVE  \A i \in jobs' : JobInv(i)'
  <1>1. PICK n \in FreeSlots(w) :
          jobs' = jobs \cup {[worker |-> w, slot |-> n, id |-> m.id, env |-> m.env,
                              pc |-> "acquire", fence |-> 0, err |-> NoError]}
    BY DEF NewJob
  <1> DEFINE k == [worker |-> w, slot |-> n, id |-> m.id, env |-> m.env,
                   pc |-> "acquire", fence |-> 0, err |-> NoError]
  <1>2. k.id = m.id /\ k.env = m.env /\ k.pc = "acquire"
    OBVIOUS
  <1>3. jobs' = jobs \cup {k}
    BY <1>1
  <1> HIDE DEF k
  <1>4. DeliveredFor(m.id, m.env)'
    BY DeliveredType, EntryStable DEF Stable
  <1>5. JobInv(k)'
    BY <1>2, <1>4 DEF JobInv, Executing
  <1>6. \A i \in jobs : JobInv(i)'
    BY JobStable DEF TypeOK, WorkerTypeOK
  <1> QED
    BY <1>3, <1>5, <1>6

\* The parts of a batch come from the stream like the batch.
LEMMA BatchParts ==
  ASSUME NEW msgs \in Seq(Leased), msgs # <<>>, FromStream(msgs)
  PROVE  DeliveredFor(Head(msgs).id, Head(msgs).env) /\ FromStream(Tail(msgs))
  <1>1. Len(msgs) \in Nat \ {0} /\ DOMAIN msgs = 1..Len(msgs) /\ Head(msgs) = msgs[1]
    BY EmptySeq, LenProperties
  <1>2. /\ DOMAIN Tail(msgs) = 1..(Len(msgs) - 1)
        /\ \A i \in 1..(Len(msgs) - 1) : Tail(msgs)[i] = msgs[i + 1]
    BY HeadTailProperties, LenProperties
  <1>3. 1 \in DOMAIN msgs /\ \A i \in 1..(Len(msgs) - 1) : i + 1 \in DOMAIN msgs
    BY <1>1
  <1>4. \A i \in DOMAIN msgs : DeliveredFor(msgs[i].id, msgs[i].env)
    BY DEF FromStream
  <1>5. DeliveredFor(Head(msgs).id, Head(msgs).env)
    BY ONLY <1>1, <1>3, <1>4
  <1>6. \A i \in DOMAIN Tail(msgs) : DeliveredFor(Tail(msgs)[i].id, Tail(msgs)[i].env)
    BY ONLY <1>2, <1>3, <1>4
  <1> QED
    BY ONLY <1>5, <1>6 DEF FromStream

\* An empty hand comes from the stream.
LEMMA EmptyFromStream == FromStream(<<>>)
  BY DEF FromStream

\* A worker's step that leaves the other messages in hand alone.
LEMMA HandsUpdate ==
  ASSUME TypeOK, TypeOK', Stable, HandsFromStream,
         \A w \in Workers : /\ polled'[w] = polled[w] \/ FromStream(polled[w])'
                            /\ claimed'[w] = claimed[w] \/ FromStream(claimed[w])'
                            /\ adopted'[w] = adopted[w] \/ FromStream(adopted[w])'
  PROVE  HandsFromStream'
  <1> SUFFICES ASSUME NEW w \in Workers
               PROVE  (FromStream(polled[w]) /\ FromStream(claimed[w]) /\ FromStream(adopted[w]))'
    BY DEF HandsFromStream
  <1>1. FromStream(polled[w]) /\ FromStream(claimed[w]) /\ FromStream(adopted[w])
    BY DEF HandsFromStream
  <1>2. polled'[w] = polled[w] => FromStream(polled[w])'
    BY <1>1, QueueStable
  <1>3. claimed'[w] = claimed[w] => FromStream(claimed[w])'
    BY <1>1, QueueStable
  <1>4. adopted'[w] = adopted[w] => FromStream(adopted[w])'
    BY <1>1, QueueStable
  <1> QED
    BY <1>2, <1>3, <1>4

\* What Poll and Reclaim read.
LEMMA PollHands ==
  ASSUME TypeOK, TypeOK', HandsFromStream, NEW w \in Workers, Poll(w)
  PROVE  HandsFromStream'
  <1>0. Stable /\ BrokerTypeOK
    BY PollStable DEF TypeOK
  <1>1. PICK n \in 1..BatchSize :
          /\ PollSize(w, n) /\ lease(n)
          /\ \/ polled' = [polled EXCEPT ![w] =
                   [i \in 1..n |-> [id |-> delivered + i, env |-> log[delivered + i]]]]
             \/ UNCHANGED polled
    BY DEF Poll
  <1>2. PICK msgs : msgs = [i \in 1..n |-> [id |-> delivered + i, env |-> log[delivered + i]]]
    OBVIOUS
  <1>3. FromStream(msgs)'
    <2>1. /\ delivered' = delivered + n /\ log' = log
          /\ n \in Nat /\ delivered \in Nat
      BY <1>0, <1>1, BatchAssumption, UnackedType DEF lease
    <2>2. \A i \in 1..n : /\ msgs[i].id = delivered + i /\ msgs[i].env = log[delivered + i]
                          /\ delivered + i \in 1..delivered'
      BY <1>2, <2>1
    <2> QED
      BY <1>2, <2>1, <2>2 DEF FromStream, DeliveredFor
  <1>4. UNCHANGED <<claimed, adopted>> /\ polled \in [Workers -> Seq(Leased)]
    BY DEF Poll, TypeOK, WorkerTypeOK
  <1>5. polled' = polled \/ polled' = [polled EXCEPT ![w] = msgs]
    BY <1>1, <1>2
  <1>6. \A v \in Workers : polled'[v] = polled[v] \/ polled'[v] = msgs
    BY <1>4, <1>5
  <1>7. \A v \in Workers : polled'[v] = polled[v] \/ FromStream(polled[v])'
    BY <1>3, <1>6 DEF FromStream
  <1> QED
    BY <1>0, <1>4, <1>7, HandsUpdate

\* What Reclaim reads was delivered.
LEMMA ReclaimHands ==
  ASSUME TypeOK, TypeOK', HandsFromStream, NEW w \in Workers, Reclaim(w)
  PROVE  HandsFromStream'
  <1>0. Stable /\ BrokerTypeOK /\ UNCHANGED <<log, delivered>>
    BY HandStepStable DEF TypeOK, brokerVars
  <1>1. PICK ids \in reclaim(BatchSize) :
          claimed' = [claimed EXCEPT ![w] =
            [i \in DOMAIN ids |-> [id |-> ids[i], env |-> log[ids[i]]]]]
    BY DEF Reclaim
  <1>2. PICK msgs : msgs = [i \in DOMAIN ids |-> [id |-> ids[i], env |-> log[ids[i]]]]
    OBVIOUS
  <1>3. FromStream(msgs)'
    <2>1. \A i \in DOMAIN ids : /\ msgs[i].id = ids[i] /\ msgs[i].env = log[ids[i]]
                                /\ ids[i] \in 1..delivered
      <3>1. \A i \in DOMAIN ids : ids[i] \in pel
        BY <1>0, ClaimedType
      <3> QED
        BY <1>0, <1>2, <3>1 DEF BrokerTypeOK
    <2> QED
      BY <1>0, <1>2, <2>1 DEF FromStream, DeliveredFor
  <1>4. UNCHANGED <<polled, adopted>> /\ claimed \in [Workers -> Seq(Leased)]
    BY DEF Reclaim, TypeOK, WorkerTypeOK
  <1>5. claimed' = [claimed EXCEPT ![w] = msgs]
    BY <1>1, <1>2
  <1>6. \A v \in Workers : claimed'[v] = claimed[v] \/ claimed'[v] = msgs
    BY <1>4, <1>5
  <1>7. \A v \in Workers : claimed'[v] = claimed[v] \/ FromStream(claimed[v])'
    BY <1>3, <1>6 DEF FromStream
  <1> QED
    BY <1>0, <1>4, <1>7, HandsUpdate

\* Adopt raises the attempt number of the first claimed message.
LEMMA AdoptHands ==
  ASSUME TypeOK, TypeOK', HandsFromStream, NEW w \in Workers, Adopt(w)
  PROVE  HandsFromStream'
  <1>0. Stable /\ UNCHANGED <<log, delivered>>
    BY HandStepStable DEF brokerVars
  <1>1. /\ claimed[w] \in Seq(Leased) /\ claimed[w] # <<>> /\ FromStream(claimed[w])
        /\ claimed \in [Workers -> Seq(Leased)] /\ adopted \in [Workers -> Seq(Leased)]
    BY DEF Adopt, TypeOK, WorkerTypeOK, HandsFromStream
  <1>2. PICK m \in Leased : m = Head(claimed[w])
    BY <1>1, HeadTailProperties
  <1>3. DeliveredFor(m.id, m.env) /\ FromStream(Tail(claimed[w]))
    BY <1>1, <1>2, BatchParts
  <1>4. PICK msgs : msgs = <<[m EXCEPT !.env = NextAttempt(@)]>>
    OBVIOUS
  <1>5. FromStream(msgs)'
    <2>1. DOMAIN msgs = {1} /\ msgs[1].id = m.id /\ msgs[1].env.task = m.env.task
      BY <1>2, <1>4, NextAttemptType DEF Leased
    <2> QED
      BY <1>0, <1>3, <2>1 DEF FromStream, DeliveredFor
  <1>6. PICK rest : rest = Tail(claimed[w])
    OBVIOUS
  <1>7. FromStream(rest)'
    BY <1>0, <1>3, <1>6, QueueStable
  <1>8. /\ claimed' = [claimed EXCEPT ![w] = rest]
        /\ adopted' = [adopted EXCEPT ![w] = msgs]
        /\ polled' = polled
    BY <1>2, <1>4, <1>6 DEF Adopt
  <1>9. \A v \in Workers : /\ claimed'[v] = claimed[v] \/ claimed'[v] = rest
                           /\ adopted'[v] = adopted[v] \/ adopted'[v] = msgs
    BY <1>1, <1>8
  <1>10. \A v \in Workers : /\ claimed'[v] = claimed[v] \/ FromStream(claimed[v])'
                            /\ adopted'[v] = adopted[v] \/ FromStream(adopted[v])'
    BY <1>5, <1>7, <1>9 DEF FromStream
  <1> QED
    BY <1>0, <1>8, <1>10, HandsUpdate

\* Messages that are started, abandoned or lost with their worker.
LEMMA DropHands ==
  ASSUME TypeOK, TypeOK', HandsFromStream, NEW w \in Workers,
         StartPolled(w) \/ StartAdopted(w) \/ ReclaimError(w) \/ Crash(w)
  PROVE  HandsFromStream'
  <1>0. Stable
    BY HandStepStable
  <1>1. /\ polled \in [Workers -> Seq(Leased)] /\ claimed \in [Workers -> Seq(Leased)]
        /\ adopted \in [Workers -> Seq(Leased)]
    BY DEF TypeOK, WorkerTypeOK
  <1>2. PICK rest : rest = Tail(polled[w])
    OBVIOUS
  <1>3. StartPolled(w) => FromStream(rest)'
    <2> SUFFICES ASSUME StartPolled(w)
                 PROVE  FromStream(rest)'
      OBVIOUS
    <2>1. polled[w] \in Seq(Leased) /\ polled[w] # <<>> /\ FromStream(polled[w])
      BY <1>1 DEF StartPolled, HandsFromStream
    <2>2. FromStream(rest)
      BY <1>2, <2>1, BatchParts
    <2> QED
      BY <1>0, <2>2, QueueStable
  <1>4. \A v \in Workers :
          /\ \/ polled'[v] = polled[v] \/ polled'[v] = <<>>
             \/ StartPolled(w) /\ polled'[v] = rest
          /\ claimed'[v] = claimed[v] \/ claimed'[v] = <<>>
          /\ adopted'[v] = adopted[v] \/ adopted'[v] = <<>>
    BY <1>1, <1>2 DEF StartPolled, StartAdopted, ReclaimError, Crash
  <1>5. FromStream(<<>>)'
    BY DEF FromStream
  <1>6. \A v \in Workers : /\ polled'[v] = polled[v] \/ FromStream(polled[v])'
                           /\ claimed'[v] = claimed[v] \/ FromStream(claimed[v])'
                           /\ adopted'[v] = adopted[v] \/ FromStream(adopted[v])'
    <2> SUFFICES ASSUME NEW v \in Workers
                 PROVE  /\ polled'[v] = polled[v] \/ FromStream(polled[v])'
                        /\ claimed'[v] = claimed[v] \/ FromStream(claimed[v])'
                        /\ adopted'[v] = adopted[v] \/ FromStream(adopted[v])'
      OBVIOUS
    <2>1. polled'[v] = <<>> \/ (StartPolled(w) /\ polled'[v] = rest) => FromStream(polled[v])'
      BY <1>3, <1>5
    <2>2. claimed'[v] = <<>> => FromStream(claimed[v])'
      BY <1>5
    <2>3. adopted'[v] = <<>> => FromStream(adopted[v])'
      BY <1>5
    <2> QED
      BY <1>4, <2>1, <2>2, <2>3
  <1> QED
    BY <1>0, <1>6, HandsUpdate

\* Every step of the loops preserves the invariant.
LEMMA WorkerStepInv ==
  ASSUME DeliveryInv, TypeOK', WorkerNext, UNCHANGED controlVars
  PROVE  DeliveryInv'
  <1>0. /\ TypeOK /\ HandsFromStream /\ (\A i \in jobs : JobInv(i)) /\ RowsInv /\ NoTaskLost
        /\ UNCHANGED request
    BY DEF DeliveryInv, controlVars
  <1>1. ASSUME NEW j \in jobs, JobStep(j), UNCHANGED handVars
        PROVE  DeliveryInv'
    BY <1>1, JobStepInv
  <1>2. ASSUME Stable, UNCHANGED <<tasks, effects, locked>>
        PROVE  RowsInv' /\ NoTaskLost'
    BY <1>0, <1>2, RowsStable, NotLostStable DEF Exists
  <1>3. ASSUME NEW w \in Workers, Poll(w)
        PROVE  DeliveryInv'
    <2>1. Stable /\ UNCHANGED <<jobs, tasks, effects, locked>>
      BY <1>0, <1>3, PollStable DEF Poll, storeVars
    <2>2. \A i \in jobs' : JobInv(i)'
      BY <1>0, <2>1, JobsStable
    <2> QED
      BY <1>0, <1>2, <1>3, <2>1, <2>2, PollHands DEF DeliveryInv
  <1>4. ASSUME NEW w \in Workers, Reclaim(w) \/ Adopt(w) \/ ReclaimError(w) \/ Crash(w)
        PROVE  DeliveryInv'
    <2>1. Stable /\ UNCHANGED <<tasks, effects, locked>>
      BY <1>0, <1>4, HandStepStable
    <2>2. jobs' \subseteq jobs
      BY <1>4 DEF Reclaim, Adopt, ReclaimError, Crash
    <2>3. \A i \in jobs' : JobInv(i)'
      BY <1>0, <2>1, <2>2, JobsStable
    <2> QED
      BY <1>0, <1>2, <1>4, <2>1, <2>3, ReclaimHands, AdoptHands, DropHands DEF DeliveryInv
  <1>5. ASSUME NEW w \in Workers, StartPolled(w) \/ StartAdopted(w)
        PROVE  DeliveryInv'
    <2>1. Stable /\ UNCHANGED <<tasks, effects, locked>>
      BY <1>0, <1>5, HandStepStable
    <2>2. CASE StartPolled(w)
      <3>1. polled[w] \in Seq(Leased) /\ polled[w] # <<>> /\ FromStream(polled[w])
        BY <1>0, <2>2 DEF StartPolled, HandsFromStream, TypeOK, WorkerTypeOK
      <3>2. PICK m : m = Head(polled[w])
        OBVIOUS
      <3>3. DeliveredFor(m.id, m.env) /\ NewJob(w, m)
        BY <2>2, <3>1, <3>2, BatchParts DEF StartPolled
      <3>4. \A i \in jobs' : JobInv(i)'
        BY <1>0, <2>1, <3>3, StartInv
      <3> QED
        BY <1>0, <1>2, <2>1, <2>2, <3>4, DropHands DEF DeliveryInv
    <2>3. CASE StartAdopted(w)
      <3>1. adopted[w] \in Seq(Leased) /\ adopted[w] # <<>> /\ FromStream(adopted[w])
        BY <1>0, <2>3 DEF StartAdopted, HandsFromStream, TypeOK, WorkerTypeOK
      <3>2. PICK m : m = Head(adopted[w])
        OBVIOUS
      <3>3. DeliveredFor(m.id, m.env) /\ NewJob(w, m)
        BY <2>3, <3>1, <3>2, BatchParts DEF StartAdopted
      <3>4. \A i \in jobs' : JobInv(i)'
        BY <1>0, <2>1, <3>3, StartInv
      <3> QED
        BY <1>0, <1>2, <2>1, <2>3, <3>4, DropHands DEF DeliveryInv
    <2> QED
      BY <1>5, <2>2, <2>3
  <1>6. ASSUME Promote \/ \E l \in leases : LeaseExpires(l)
        PROVE  DeliveryInv'
    <2>1. Stable
      BY <1>0, <1>6, PromoteStable, ExpiryStable
    <2>2. UNCHANGED <<handVars, jobs, tasks, effects, locked>>
      BY <1>6 DEF Promote, LeaseExpires, workerVars, handVars, storeVars
    <2>3. \A i \in jobs' : JobInv(i)'
      BY <1>0, <2>1, <2>2, JobsStable
    <2> QED
      BY <1>0, <1>2, <2>1, <2>2, <2>3, HandsStable DEF DeliveryInv
  <1> QED
    BY <1>1, <1>3, <1>4, <1>5, <1>6 DEF WorkerNext

\* Only CreateInsert adds a row, and not for a key that has one.
LEMMA ControlStepRows ==
  ASSUME TypeOK, RowsInv, NEW t \in Tasks,
         \/ CreateSelect(t) \/ CreateInsert(t) \/ CreatePublish(t) \/ CreateCrash(t)
         \/ InjectFailure(t) \/ CancelTask(t)
         \/ RequeuePublish(t) \/ RequeueCommit(t) \/ RequeueCrash(t) \/ RequeuePublishError(t)
  PROVE  RowsInv'
  <1>0. StoreTypeOK
    BY DEF TypeOK
  <1>1. CASE \/ CreateSelect(t) \/ CreatePublish(t) \/ CreateCrash(t) \/ InjectFailure(t)
             \/ RequeueCrash(t)
    BY <1>1, RowsStable
    DEF CreateSelect, CreatePublish, CreateCrash, InjectFailure, RequeueCrash, storeVars, Exists
  <1>2. CASE CancelTask(t) \/ RequeuePublishError(t)
    <2>1. \A u \in Tasks : Exists(u) <=> Exists(u)'
      BY <1>0, <1>2, UpdateKeepsRows DEF CancelTask, cancel_task, RequeuePublishError, TaskState
    <2> QED
      BY <1>2, <2>1, RowsStable DEF CancelTask, RequeuePublishError
  <1>3. CASE RequeueCommit(t)
    <2>1. Exists(t)
      BY <1>3 DEF RequeueCommit, RowsInv
    <2>2. \A u \in Tasks : Exists(u) <=> Exists(u)'
      BY <1>0, <1>3, <2>1 DEF RequeueCommit, StoreTypeOK, Exists
    <2> QED
      BY <1>3, <2>2, RowsStable DEF RequeueCommit
  <1>4. CASE RequeuePublish(t)
    BY <1>4 DEF RequeuePublish, RowsInv, Exists
  <1>5. CASE CreateInsert(t)
    <2>1. CASE UNCHANGED tasks
      BY <1>5, <2>1, RowsStable DEF CreateInsert, Exists
    <2>2. CASE ~Duplicate(t) /\ \E state \in {"scheduled", "pending"} :
                                 tasks' = [tasks EXCEPT ![t] = state]
      <3>1. \A u \in Tasks : Exists(u)' <=> (u = t \/ Exists(u))
        BY <1>0, <2>2 DEF StoreTypeOK, Exists
      <3>2. UNCHANGED <<effects, locked>> /\ \A r \in effects : r.task \in Tasks
        BY <1>0, <1>5 DEF CreateInsert, StoreTypeOK, EffectRow
      <3> QED
        BY <1>0, <2>2, <3>1, <3>2 DEF RowsInv, Duplicate, StoreTypeOK
    <2> QED
      BY <1>5, <2>1, <2>2 DEF CreateInsert
  <1> QED
    BY <1>1, <1>2, <1>3, <1>4, <1>5

\* A task becomes published together with its envelope.
LEMMA PublishSafe ==
  ASSUME TypeOK, NEW t \in Tasks, CreatePublish(t) \/ InjectFailure(t)
  PROVE  SafeBeyond(t, 0)'
  <1>0. /\ BrokerTypeOK /\ Len(log) \in Nat
        /\ Envelope(t, 0) \in TaskEnvelope /\ Envelope(t, 0).task = t
    BY UnackedType, EnvelopeType DEF TypeOK, Envelope
  <1>1. CASE publish(Envelope(t, 0)) /\ UNCHANGED <<sched, dlq, effects, tasks>>
    <2>1. /\ Len(log') = Len(log) + 1 /\ log'[Len(log')] = Envelope(t, 0)
          /\ Len(log') \in Unacked'
      BY <1>0, <1>1, PublishStable
    <2>2. Len(log') > 0
      BY <1>0, <2>1
    <2> QED
      BY <1>0, <2>1, <2>2 DEF SafeBeyond
  <1>2. CASE schedule(Envelope(t, 0))
    BY <1>0, <1>2 DEF schedule, SafeBeyond
  <1> QED
    BY <1>1, <1>2 DEF CreatePublish, InjectFailure, storeVars

\* Every step of the control plane preserves the invariant.
LEMMA ControlStepInv ==
  ASSUME DeliveryInv, TypeOK', ControlNext, UNCHANGED workerVars
  PROVE  DeliveryInv'
  <1> SUFFICES ASSUME NEW t \in Tasks,
                      \/ CreateSelect(t) \/ CreateInsert(t) \/ CreatePublish(t) \/ CreateCrash(t)
                      \/ InjectFailure(t) \/ CancelTask(t)
                      \/ RequeuePublish(t) \/ RequeueCommit(t) \/ RequeueCrash(t)
                      \/ RequeuePublishError(t)
               PROVE  DeliveryInv'
    BY DEF ControlNext
  <1>0. /\ TypeOK /\ HandsFromStream /\ (\A i \in jobs : JobInv(i)) /\ RowsInv /\ NoTaskLost
        /\ UNCHANGED <<handVars, jobs>>
    BY DEF DeliveryInv, workerVars, handVars
  <1>1. Stable
    BY <1>0, ControlStepStable
  <1>2. HandsFromStream' /\ \A i \in jobs' : JobInv(i)'
    BY <1>0, <1>1, HandsStable, JobsStable
  <1>3. RowsInv'
    BY <1>0, ControlStepRows
  <1>4. NoTaskLost'
    <2>1. ASSUME NEW u \in Tasks, Published(u)'
          PROVE  SafeBeyond(u, 0)'
      <3>1. CASE Published(u)
        <4>1. BrokerTypeOK /\ BrokerTypeOK' /\ 0 \in 0..Len(log) /\ SafeBeyond(u, 0)
          BY <1>0, <3>1, DeliveredType, UnackedType DEF NoTaskLost
        <4> QED
          BY <1>1, <4>1, SafeStable
      <3>2. CASE ~Published(u)
        <4>1. u = t /\ (CreatePublish(t) \/ InjectFailure(t))
          BY <1>0, <2>1, <3>2
          DEF CreateSelect, CreateInsert, CreatePublish, CreateCrash, InjectFailure, CancelTask,
              RequeuePublish, RequeueCommit, RequeueCrash, RequeuePublishError, Answer,
              controlVars, Published, TypeOK, ControlTypeOK
        <4> QED
          BY <1>0, <4>1, PublishSafe
      <3> QED
        BY <3>1, <3>2
    <2> QED
      BY <2>1 DEF NoTaskLost
  <1> QED
    BY <1>2, <1>3, <1>4 DEF DeliveryInv

\* DeliveryInv is inductive.
LEMMA DeliveryInductive ==
  DeliveryInv /\ [Next]_vars => DeliveryInv'
  <1> SUFFICES ASSUME DeliveryInv, [Next]_vars
               PROVE  DeliveryInv'
    OBVIOUS
  <1>1. TypeOK'
    BY TypeInductive DEF DeliveryInv
  <1>2. CASE UNCHANGED vars
    <2>1. UNCHANGED <<log, delivered, pel, sched, dlq, tasks, effects, locked, polled, claimed,
                      adopted, jobs, request>>
      BY <1>2 DEF vars, brokerVars, storeVars, workerVars, controlVars
    <2>2. (\A j \in jobs : JobInv(j))'
      BY <2>1 DEF DeliveryInv, JobInv, DeliveredFor, Committed, SafeBeyond, Unacked, Exists
    <2>3. HandsFromStream'
      BY <2>1 DEF DeliveryInv, HandsFromStream, FromStream, DeliveredFor
    <2>4. RowsInv'
      BY <2>1 DEF DeliveryInv, RowsInv, Exists
    <2>5. NoTaskLost'
      BY <2>1 DEF DeliveryInv, NoTaskLost, Published, SafeBeyond, Unacked
    <2> QED
      BY <1>1, <2>2, <2>3, <2>4, <2>5 DEF DeliveryInv
  <1> QED
    BY <1>1, <1>2, WorkerStepInv, ControlStepInv DEF Next

\* The invariant that explains at-least-once delivery holds in every reachable
\* state: every acknowledgement is backed beyond the entry it acknowledges.
THEOREM DeliveryInvariant == Spec => []DeliveryInv
  <1>1. Init => DeliveryInv
    <2> SUFFICES ASSUME Init
                 PROVE  DeliveryInv
      OBVIOUS
    <2>1. TypeOK
      BY InitType
    <2>2. HandsFromStream
      BY EmptyFromStream DEF Init, WorkerInit, HandsFromStream
    <2>3. (\A j \in jobs : JobInv(j)) /\ RowsInv /\ NoTaskLost
      BY DEF Init, WorkerInit, StoreInit, ControlInit, RowsInv, NoTaskLost, Published, Exists
    <2> QED
      BY <2>1, <2>2, <2>3 DEF DeliveryInv
  <1> QED
    BY <1>1, DeliveryInductive, PTL DEF Spec

\* At-least-once delivery, for any number of tasks, workers, crashes and retries:
\* a task that create_task accepted is never lost.
THEOREM AtLeastOnce == Spec => []NoTaskLost
  <1>1. DeliveryInv => NoTaskLost
    BY DEF DeliveryInv
  <1> QED
    BY <1>1, DeliveryInvariant, PTL

=============================================================================

--------------------------- MODULE TaskQueueProofs ---------------------------
(***************************************************************************)
(* Proofs about TaskQueue, for any sets of tasks and workers, any          *)
(* concurrency, batch sizes, attempt limits and numbers of faults.         *)
(***************************************************************************)
EXTENDS TaskQueue, SequenceTheorems, TLAPS

-----------------------------------------------------------------------------
(* Types *)

\* A job record with a new pc, error or fence is still a job.
LEMMA JobUpdate ==
  ASSUME NEW j \in Job, NEW pc \in Pc, NEW err \in ErrorType \cup {NoError}, NEW fence \in Nat
  PROVE  /\ [j EXCEPT !.pc = pc] \in Job
         /\ [j EXCEPT !.pc = pc, !.err = err] \in Job
         /\ [j EXCEPT !.pc = pc, !.fence = fence] \in Job
         /\ [j EXCEPT !.pc = pc, !.fence = fence, !.err = err] \in Job
  BY DEF Job

\* Return leaves a job in one of the three steps after execute().
LEMMA ReturnType ==
  ASSUME jobs \subseteq Job, NEW j \in jobs, NEW error, Return(j, error)
  PROVE  \E pc \in {"ack", "schedule", "deadLetter"} :
           /\ error = NoError <=> pc = "ack"
           /\ jobs' = (jobs \ {j}) \cup {[j EXCEPT !.pc = pc, !.fence = 0, !.err = NoError]}
           /\ jobs' \subseteq Job
  <1> DEFINE pc == AfterExecute(j.env, error)
  <1>1. /\ pc \in {"ack", "schedule", "deadLetter"}
        /\ error = NoError <=> pc = "ack"
    BY DEF AfterExecute
  <1>2. jobs' = (jobs \ {j}) \cup {[j EXCEPT !.pc = pc, !.fence = 0, !.err = NoError]}
    BY DEF Return, Become
  <1>3. [j EXCEPT !.pc = pc, !.fence = 0, !.err = NoError] \in Job
    BY <1>1, JobUpdate DEF Pc
  <1> HIDE DEF pc
  <1> QED
    BY <1>1, <1>2, <1>3

\* The state that the steps of a job change.
EngineTypeOK == BrokerTypeOK /\ StoreTypeOK /\ jobs \subseteq Job /\ faults \in Nat

\* A fault only counts up.
LEMMA FaultType ==
  ASSUME faults \in Nat, Fault \/ UNCHANGED faults
  PROVE  faults' \in Nat
  BY CoreAssumption DEF Fault

\* The envelope of the next attempt is an envelope of the same task.
LEMMA NextAttemptType ==
  ASSUME NEW e \in TaskEnvelope
  PROVE  /\ NextAttempt(e) \in TaskEnvelope
         /\ NextAttempt(e).task = e.task
  BY DEF NextAttempt, TaskEnvelope

\* An effect is filed under the task's id or under its dedup_key.
LEMMA EffectKeyType ==
  ASSUME NEW e \in TaskEnvelope
  PROVE  /\ EffectKey(e) \in EffectKeys
         /\ EffectKey(e) \in {e.task, DedupKey[e.task]} \ {NoKey}
  BY CoreAssumption, ControlAssumption DEF EffectKey, dedup_key, EffectKeys, TaskEnvelope

\* close_attempt keeps the rows well formed.
LEMMA CloseType ==
  ASSUME attempts \subseteq AttemptRow, NEW t, NEW n, NEW outcome \in AttemptOutcome,
         close_attempt(t, n, outcome)
  PROVE  attempts' \subseteq AttemptRow
  <1> SUFFICES ASSUME NEW r \in attempts
               PROVE  [r EXCEPT !.outcome = outcome] \in AttemptRow
    BY DEF close_attempt
  <1> QED
    BY DEF AttemptRow

\* Every step of execute() and _process_message preserves the types.
LEMMA JobStepType ==
  ASSUME EngineTypeOK, NEW j \in jobs, JobStep(j)
  PROVE  EngineTypeOK'
  <1> USE DEF EngineTypeOK
  <1>0. /\ j \in Job /\ j.env \in TaskEnvelope /\ j.env.task \in Tasks
        /\ j.env.attempt \in Nat /\ j.worker \in Workers /\ j.fence \in Nat
    BY DEF Job, TaskEnvelope
  <1>1. CASE AcquireLease(j)
    <2>1. jobs' \subseteq Job
      <3>1. [j EXCEPT !.pc = "record", !.fence = fenceSeq + 1] \in Job
        <4>1. "record" \in Pc /\ fenceSeq + 1 \in Nat /\ NoError \in ErrorType \cup {NoError}
          BY DEF BrokerTypeOK, Pc, Holding
        <4> QED
          BY ONLY <1>0, <4>1, JobUpdate
      <3>2. CASE Held(j.env.task)
        BY <1>1, <3>2, ReturnType DEF AcquireLease
      <3>3. CASE ~Held(j.env.task)
        BY <1>1, <3>1, <3>3 DEF AcquireLease, Become
      <3> QED
        BY <3>2, <3>3
    <2>2. BrokerTypeOK'
      BY <1>0, <1>1
      DEF AcquireLease, BrokerTypeOK, acquire_lease, Lease, streamVars, leaseVars
    <2> QED
      BY <1>1, <2>1, <2>2 DEF AcquireLease, StoreTypeOK, storeVars
  <1>2. CASE RecordAttempt(j)
    <2>1. jobs' \subseteq Job
      <3>1. [j EXCEPT !.pc = "handler"] \in Job /\ [j EXCEPT !.pc = "giveBack"] \in Job
        BY <1>0 DEF Job, Pc, Holding, Executing
      <3> QED
        BY <1>2, <3>1 DEF RecordAttempt, Become
    <2>2. StoreTypeOK'
      BY <1>0, <1>2
      DEF RecordAttempt, StoreTypeOK, create_attempt, update_task_state, AttemptRow,
          AttemptOutcome, TaskState
    <2>3. faults' \in Nat
      BY <1>2, FaultType DEF RecordAttempt
    <2> QED
      BY <1>2, <2>1, <2>2, <2>3 DEF RecordAttempt, BrokerTypeOK, brokerVars
  <1>3. CASE GiveBack(j) \/ ReleaseLease(j)
    <2>1. jobs' \subseteq Job
      BY <1>3, ReturnType DEF GiveBack, ReleaseLease
    <2>2. BrokerTypeOK'
      BY <1>3 DEF GiveBack, ReleaseLease, BrokerTypeOK, release_lease, streamVars
    <2> QED
      BY <1>3, <2>1, <2>2 DEF GiveBack, ReleaseLease, StoreTypeOK, storeVars
  <1>4. CASE RunHandler(j)
    <2>1. /\ [j EXCEPT !.pc = "select"] \in Job
          /\ \A error \in HandlerErrors : [j EXCEPT !.pc = "close", !.err = error] \in Job
      BY <1>0 DEF Job, Pc, Holding, Executing, ErrorType
    <2>2. jobs' \subseteq Job
      BY <1>4, <2>1 DEF RunHandler, Become
    <2> QED
      BY <1>4, <2>2 DEF RunHandler, BrokerTypeOK, brokerVars, StoreTypeOK, storeVars
  <1>5. CASE HeartbeatError(j) \/ ProcessError(j)
    BY <1>5, FaultType
    DEF HeartbeatError, ProcessError, Ends, BrokerTypeOK, brokerVars, StoreTypeOK, storeVars
  <1>6. CASE CommitSelect(j)
    <2>1. /\ [j EXCEPT !.pc = "insert"] \in Job
          /\ [j EXCEPT !.pc = "release"] \in Job
          /\ [j EXCEPT !.pc = "release", !.err = "Effect already committed"] \in Job
      BY <1>0 DEF Job, Pc, Holding, Executing, ErrorType, HandlerErrors
    <2>2. jobs' \subseteq Job
      BY <1>6, <2>1 DEF CommitSelect, Become
    <2>3. attempts' \subseteq AttemptRow
      BY <1>6, CloseType DEF CommitSelect, StoreTypeOK, AttemptOutcome
    <2> QED
      BY <1>6, <2>2, <2>3 DEF CommitSelect, BrokerTypeOK, brokerVars, StoreTypeOK
  <1>7. CASE CommitInsert(j)
    <2>1. /\ [j EXCEPT !.pc = "release"] \in Job
          /\ [j EXCEPT !.pc = "release", !.err = "CommitError"] \in Job
      BY <1>0 DEF Job, Pc, Holding, ErrorType
    <2>2. jobs' \subseteq Job
      BY <1>7, <2>1 DEF CommitInsert, Become
    <2>3. attempts' \subseteq AttemptRow
      BY <1>7, CloseType DEF CommitInsert, StoreTypeOK, AttemptOutcome
    <2>4. effects' \subseteq EffectRow
      BY <1>0, <1>7, EffectKeyType DEF CommitInsert, insert_effect, StoreTypeOK, EffectRow
    <2>5. tasks' \in [Tasks -> TaskState]
      BY <1>0, <1>7 DEF CommitInsert, update_task_state, StoreTypeOK, TaskState
    <2> QED
      BY <1>7, <2>2, <2>3, <2>4, <2>5 DEF CommitInsert, BrokerTypeOK, brokerVars, StoreTypeOK
  <1>8. CASE RecordFailure(j)
    <2>1. [j EXCEPT !.pc = "release"] \in Job
      BY <1>0 DEF Job, Pc, Holding
    <2>2. jobs' \subseteq Job
      BY <1>8, <2>1 DEF RecordFailure, Become
    <2>3. attempts' \subseteq AttemptRow
      BY <1>8, CloseType DEF RecordFailure, StoreTypeOK, AttemptOutcome
    <2> QED
      BY <1>8, <2>2, <2>3 DEF RecordFailure, BrokerTypeOK, brokerVars, StoreTypeOK
  <1>9. CASE CommitError(j)
    <2>1. [j EXCEPT !.pc = "release", !.err = "CommitError"] \in Job
      BY <1>0 DEF Job, Pc, Holding, ErrorType
    <2>2. jobs' \subseteq Job
      BY <1>9, <2>1 DEF CommitError, Become
    <2> QED
      BY <1>9, <2>2, FaultType
      DEF CommitError, BrokerTypeOK, brokerVars, StoreTypeOK, storeVars
  <1>10. CASE ScheduleRetry(j) \/ DeadLetter(j) \/ MarkDead(j)
    <2>1. [j EXCEPT !.pc = "ack"] \in Job /\ [j EXCEPT !.pc = "markDead"] \in Job
      BY <1>0 DEF Job, Pc
    <2>2. jobs' \subseteq Job
      BY <1>10, <2>1 DEF ScheduleRetry, DeadLetter, MarkDead, Become
    <2>3. NextAttempt(j.env) \in TaskEnvelope
      BY <1>0, NextAttemptType
    <2>4. BrokerTypeOK'
      BY <1>0, <1>10, <2>3
      DEF ScheduleRetry, DeadLetter, MarkDead, schedule, dead_letter, BrokerTypeOK,
          brokerVars, streamVars, leaseVars
    <2>5. StoreTypeOK'
      BY <1>0, <1>10
      DEF ScheduleRetry, DeadLetter, MarkDead, update_task_state, StoreTypeOK, storeVars,
          TaskState
    <2> QED
      BY <1>10, <2>2, <2>4, <2>5 DEF ScheduleRetry, DeadLetter, MarkDead
  <1>11. CASE Ack(j)
    BY <1>11 DEF Ack, Ends, ack, BrokerTypeOK, leaseVars, StoreTypeOK, storeVars
  <1> QED
    BY <1>1, <1>2, <1>3, <1>4, <1>5, <1>6, <1>7, <1>8, <1>9, <1>10, <1>11 DEF JobStep

\* A function on 1..n is a sequence.
LEMMA FunctionIsSeq ==
  ASSUME NEW S, NEW n \in Nat, NEW f \in [1..n -> S]
  PROVE  f \in Seq(S) /\ Len(f) = n
  BY SeqDef, LenProperties

\* A started job is well formed.
LEMMA NewJobType ==
  ASSUME jobs \subseteq Job, NEW w \in Workers, NEW m \in Leased, NewJob(w, m)
  PROVE  jobs' \subseteq Job
  <1> SUFFICES ASSUME NEW n \in 1..Concurrency
               PROVE  [worker |-> w, slot |-> n, id |-> m.id, env |-> m.env,
                       pc |-> "acquire", fence |-> 0, err |-> NoError] \in Job
    BY DEF NewJob, FreeSlots
  <1> QED
    BY DEF Job, Leased, Pc

\* The PEL holds ids of the stream.
LEMMA PendingType ==
  ASSUME BrokerTypeOK
  PROVE  pel \subseteq 1..Len(log)
  BY DEF BrokerTypeOK

\* The messages Poll and Reclaim put in hand.
LEMMA PolledType ==
  ASSUME BrokerTypeOK, NEW n \in 1..BatchSize, NEW w \in Workers, PollSize(w, n)
  PROVE  /\ delivered + n \in 0..Len(log)
         /\ [i \in 1..n |-> [id |-> delivered + i, env |-> log[delivered + i]]] \in Seq(Leased)
  <1>1. n \in Nat /\ delivered \in Nat /\ Len(log) \in Nat /\ delivered + n <= Len(log)
    BY BatchAssumption DEF BrokerTypeOK, PollSize
  <1>2. \A i \in 1..n : [id |-> delivered + i, env |-> log[delivered + i]] \in Leased
    <2> SUFFICES ASSUME NEW i \in 1..n
                 PROVE  delivered + i \in Nat /\ log[delivered + i] \in TaskEnvelope
      BY DEF Leased
    <2>1. delivered + i \in 1..Len(log)
      BY <1>1
    <2> QED
      BY <2>1, ElementOfSeq DEF BrokerTypeOK
  <1>3. [i \in 1..n |-> [id |-> delivered + i, env |-> log[delivered + i]]] \in [1..n -> Leased]
    BY <1>2
  <1> QED
    BY <1>1, <1>3, FunctionIsSeq

\* What XAUTOCLAIM returns is pending and well formed.
LEMMA ClaimedType ==
  ASSUME BrokerTypeOK, NEW ids \in reclaim(BatchSize)
  PROVE  /\ \A i \in DOMAIN ids : ids[i] \in pel
         /\ [i \in DOMAIN ids |-> [id |-> ids[i], env |-> log[ids[i]]]] \in Seq(Leased)
  <1>1. PICK n \in 1..BatchSize : ids \in [1..n -> pel]
    BY DEF reclaim
  <1>2. n \in Nat /\ DOMAIN ids = 1..n
    BY <1>1, BatchAssumption
  <1>3. \A i \in 1..n : ids[i] \in pel /\ [id |-> ids[i], env |-> log[ids[i]]] \in Leased
    <2> SUFFICES ASSUME NEW i \in 1..n
                 PROVE  ids[i] \in pel /\ ids[i] \in Nat /\ log[ids[i]] \in TaskEnvelope
      BY DEF Leased
    <2>1. ids[i] \in pel
      BY <1>1
    <2>2. ids[i] \in 1..Len(log)
      BY <2>1, PendingType
    <2> QED
      BY <2>1, <2>2, ElementOfSeq DEF BrokerTypeOK
  <1>4. [i \in 1..n |-> [id |-> ids[i], env |-> log[ids[i]]]] \in [1..n -> Leased]
    BY <1>3
  <1> QED
    BY <1>2, <1>3, <1>4, FunctionIsSeq

\* Every step of the loops preserves the types.
LEMMA WorkerStepType ==
  ASSUME TypeOK, WorkerNext, UNCHANGED controlVars
  PROVE  TypeOK'
  <1> USE DEF TypeOK
  <1>0. ControlTypeOK'
    BY DEF ControlTypeOK, controlVars
  <1>1. ASSUME NEW j \in jobs, JobStep(j), UNCHANGED handVars
        PROVE  TypeOK'
    <2>1. EngineTypeOK'
      BY <1>1, JobStepType DEF EngineTypeOK, WorkerTypeOK
    <2> QED
      BY <1>0, <1>1, <2>1 DEF EngineTypeOK, WorkerTypeOK, handVars
  <1>2. ASSUME NEW w \in Workers, Poll(w)
        PROVE  TypeOK'
    <2>1. PICK n \in 1..BatchSize :
            /\ PollSize(w, n)
            /\ lease(n)
            /\ \/ /\ polled' = [polled EXCEPT ![w] =
                      [i \in 1..n |-> [id |-> delivered + i, env |-> log[delivered + i]]]]
                  /\ UNCHANGED faults
               \/ Fault /\ UNCHANGED polled
      BY <1>2 DEF Poll
    <2>2. BrokerTypeOK'
      <3>1. n \in Nat /\ delivered + n \in 0..Len(log)
        BY <2>1, PolledType, BatchAssumption
      <3>2. pel' \subseteq 1..delivered' /\ delivered' \in 0..Len(log)
        BY <2>1, <3>1 DEF lease, BrokerTypeOK
      <3> QED
        BY <1>2, <2>1, <3>2 DEF Poll, lease, BrokerTypeOK, leaseVars
    <2>3. polled' \in [Workers -> Seq(Leased)]
      <3> DEFINE msgs == [i \in 1..n |-> [id |-> delivered + i, env |-> log[delivered + i]]]
      <3>1. msgs \in Seq(Leased)
        BY <2>1, PolledType
      <3>2. polled' = polled \/ polled' = [polled EXCEPT ![w] = msgs]
        BY <2>1
      <3> HIDE DEF msgs
      <3> QED
        BY <3>1, <3>2 DEF WorkerTypeOK
    <2> QED
      BY <1>0, <1>2, <2>1, <2>2, <2>3, FaultType DEF Poll, WorkerTypeOK, StoreTypeOK, storeVars
  <1>3. ASSUME NEW w \in Workers, StartPolled(w)
        PROVE  TypeOK'
    <2>1. Head(polled[w]) \in Leased /\ Tail(polled[w]) \in Seq(Leased)
      BY <1>3, HeadTailProperties DEF StartPolled, WorkerTypeOK
    <2>2. jobs' \subseteq Job
      BY <1>3, <2>1, NewJobType DEF StartPolled, WorkerTypeOK
    <2> QED
      BY <1>0, <1>3, <2>1, <2>2
      DEF StartPolled, WorkerTypeOK, BrokerTypeOK, brokerVars, StoreTypeOK, storeVars
  <1>4. ASSUME NEW w \in Workers, Reclaim(w)
        PROVE  TypeOK'
    <2>1. PICK ids \in reclaim(BatchSize) :
            /\ claimed' = [claimed EXCEPT ![w] =
                 [i \in DOMAIN ids |-> [id |-> ids[i], env |-> log[ids[i]]]]]
            /\ Fault \/ UNCHANGED faults
      BY <1>4 DEF Reclaim
    <2> DEFINE msgs == [i \in DOMAIN ids |-> [id |-> ids[i], env |-> log[ids[i]]]]
    <2>2. msgs \in Seq(Leased)
      BY ClaimedType
    <2>3. claimed' = [claimed EXCEPT ![w] = msgs]
      BY <2>1
    <2> HIDE DEF msgs
    <2>4. claimed' \in [Workers -> Seq(Leased)]
      BY <2>2, <2>3 DEF WorkerTypeOK
    <2> QED
      BY <1>0, <1>4, <2>1, <2>4, FaultType
      DEF Reclaim, WorkerTypeOK, BrokerTypeOK, brokerVars, StoreTypeOK, storeVars
  <1>5. ASSUME NEW w \in Workers, Adopt(w)
        PROVE  TypeOK'
    <2> DEFINE m == Head(claimed[w])
    <2>1. m \in Leased /\ Tail(claimed[w]) \in Seq(Leased)
      BY <1>5, HeadTailProperties DEF Adopt, WorkerTypeOK
    <2>2. [m EXCEPT !.env = NextAttempt(@)] \in Leased
      BY <2>1, NextAttemptType DEF Leased
    <2>3. adopted' \in [Workers -> Seq(Leased)] /\ claimed' \in [Workers -> Seq(Leased)]
      BY <1>5, <2>1, <2>2 DEF Adopt, WorkerTypeOK
    <2>4. attempts' \subseteq AttemptRow
      BY <1>5, CloseType DEF Adopt, StoreTypeOK, AttemptOutcome
    <2>5. faults' \in Nat
      BY <1>5, FaultType DEF Adopt
    <2> QED
      BY <1>0, <1>5, <2>3, <2>4, <2>5
      DEF Adopt, WorkerTypeOK, BrokerTypeOK, brokerVars, StoreTypeOK
  <1>6. ASSUME NEW w \in Workers, StartAdopted(w)
        PROVE  TypeOK'
    <2>1. Head(adopted[w]) \in Leased /\ <<>> \in Seq(Leased)
      BY <1>6, HeadTailProperties DEF StartAdopted, WorkerTypeOK
    <2>2. jobs' \subseteq Job
      BY <1>6, <2>1, NewJobType DEF StartAdopted, WorkerTypeOK
    <2> QED
      BY <1>0, <1>6, <2>1, <2>2
      DEF StartAdopted, WorkerTypeOK, BrokerTypeOK, brokerVars, StoreTypeOK, storeVars
  <1>7. ASSUME NEW w \in Workers, ReclaimError(w) \/ Crash(w)
        PROVE  TypeOK'
    <2>1. <<>> \in Seq(Leased)
      BY EmptySeq
    <2>2. ASSUME ReclaimError(w) PROVE WorkerTypeOK'
      BY <2>1, <2>2 DEF ReclaimError, WorkerTypeOK
    <2>3. ASSUME Crash(w) PROVE WorkerTypeOK'
      <3>1. polled' \in [Workers -> Seq(Leased)]
        BY <2>1, <2>3 DEF Crash, WorkerTypeOK
      <3>2. claimed' \in [Workers -> Seq(Leased)]
        BY <2>1, <2>3 DEF Crash, WorkerTypeOK
      <3>3. adopted' \in [Workers -> Seq(Leased)]
        BY <2>1, <2>3 DEF Crash, WorkerTypeOK
      <3>4. jobs' \subseteq Job
        BY <2>3 DEF Crash, WorkerTypeOK
      <3> QED
        BY <3>1, <3>2, <3>3, <3>4 DEF WorkerTypeOK
    <2>4. WorkerTypeOK'
      BY <1>7, <2>2, <2>3
    <2> QED
      BY <1>0, <1>7, <2>4, FaultType
      DEF ReclaimError, Crash, BrokerTypeOK, brokerVars, StoreTypeOK, storeVars
  <1>8. CASE Promote
    <2>1. PICK n \in 1..PromoteBatch : \E due \in [1..n -> sched] :
            /\ log' = log \o due
            /\ sched' = sched \ {due[i] : i \in 1..n}
            /\ UNCHANGED <<delivered, pel>>
      BY <1>8 DEF Promote, promote_scheduled
    <2>2. PICK due \in [1..n -> sched] :
            /\ log' = log \o due
            /\ sched' = sched \ {due[i] : i \in 1..n}
            /\ UNCHANGED <<delivered, pel>>
      BY <2>1
    <2>3. due \in [1..n -> TaskEnvelope] /\ n \in Nat
      BY BrokerAssumption DEF BrokerTypeOK
    <2>4. due \in Seq(TaskEnvelope)
      BY <2>3, FunctionIsSeq
    <2>5. log' \in Seq(TaskEnvelope) /\ Len(log') >= Len(log)
      BY <2>2, <2>4, ConcatProperties, LenProperties DEF BrokerTypeOK
    <2>6. BrokerTypeOK'
      BY <1>8, <2>2, <2>5 DEF Promote, BrokerTypeOK, leaseVars
    <2> QED
      BY <1>0, <1>8, <2>6 DEF Promote, WorkerTypeOK, workerVars, StoreTypeOK, storeVars
  <1>9. ASSUME NEW l \in leases, LeaseExpires(l)
        PROVE  TypeOK'
    BY <1>0, <1>9, FaultType
    DEF LeaseExpires, expire, WorkerTypeOK, workerVars, BrokerTypeOK, streamVars, StoreTypeOK,
        storeVars
  <1> QED
    BY <1>1, <1>2, <1>3, <1>4, <1>5, <1>6, <1>7, <1>8, <1>9 DEF WorkerNext

\* The envelopes the control plane builds are well formed.
LEMMA EnvelopeType ==
  ASSUME NEW t \in Tasks, NEW n \in Nat
  PROVE  Envelope(t, n) \in TaskEnvelope
  BY DEF Envelope, TaskEnvelope

\* XADD preserves the types.
LEMMA PublishType ==
  ASSUME BrokerTypeOK, NEW e \in TaskEnvelope, publish(e), UNCHANGED <<sched, dlq, leaseVars>>
  PROVE  BrokerTypeOK'
  BY DEF publish, BrokerTypeOK, leaseVars

\* Every step of the control plane preserves the types.
LEMMA ControlStepType ==
  ASSUME TypeOK, ControlNext, UNCHANGED workerVars
  PROVE  TypeOK'
  <1> USE DEF TypeOK
  <1>0. WorkerTypeOK'
    BY DEF WorkerTypeOK, workerVars
  <1> SUFFICES ASSUME NEW t \in Tasks,
                      \/ CreateSelect(t) \/ CreateInsert(t) \/ CreatePublish(t) \/ CreateCrash(t)
                      \/ InjectFailure(t) \/ CancelTask(t)
                      \/ RequeuePublish(t) \/ RequeueCommit(t) \/ RequeueCrash(t)
                      \/ RequeuePublishError(t)
               PROVE  TypeOK'
    BY DEF ControlNext
  <1>1. CASE CreateSelect(t) \/ CreateCrash(t)
    BY <1>0, <1>1, FaultType
    DEF CreateSelect, CreateCrash, Answer, ControlTypeOK, Request, BrokerTypeOK, brokerVars,
        StoreTypeOK, storeVars
  <1>2. CASE CreateInsert(t)
    <2>1. tasks' \in [Tasks -> TaskState] /\ request' \in [Tasks -> Request]
      BY <1>2 DEF CreateInsert, Answer, ControlTypeOK, Request, StoreTypeOK, TaskState
    <2> QED
      BY <1>0, <1>2, <2>1 DEF CreateInsert, ControlTypeOK, BrokerTypeOK, brokerVars, StoreTypeOK
  <1>3. CASE CreatePublish(t) \/ InjectFailure(t)
    <2>1. Envelope(t, 0) \in TaskEnvelope
      BY EnvelopeType
    <2>2. BrokerTypeOK'
      BY <1>3, <2>1, PublishType
      DEF CreatePublish, InjectFailure, schedule, BrokerTypeOK, streamVars, leaseVars
    <2> QED
      BY <1>0, <1>3, <2>2
      DEF CreatePublish, InjectFailure, Answer, ControlTypeOK, Request, StoreTypeOK, storeVars
  <1>4. CASE CancelTask(t) \/ RequeueCommit(t) \/ RequeueCrash(t) \/ RequeuePublishError(t)
    <2>1. tasks' \in [Tasks -> TaskState]
      BY <1>4
      DEF CancelTask, RequeueCommit, RequeueCrash, RequeuePublishError, cancel_task,
          update_task_state, StoreTypeOK, TaskState
    <2> QED
      BY <1>0, <1>4, <2>1, FaultType
      DEF CancelTask, RequeueCommit, RequeueCrash, RequeuePublishError, controlVars,
          ControlTypeOK, BrokerTypeOK, brokerVars, StoreTypeOK
  <1>5. CASE RequeuePublish(t)
    <2>1. Envelope(t, requeues[t] + 1) \in TaskEnvelope /\ requeues' \in [Tasks -> Nat]
      BY <1>5, EnvelopeType DEF RequeuePublish, ControlTypeOK
    <2>2. BrokerTypeOK'
      BY <1>5, <2>1, PublishType DEF RequeuePublish
    <2> QED
      BY <1>0, <1>5, <2>1, <2>2 DEF RequeuePublish, ControlTypeOK, StoreTypeOK
  <1> QED
    BY <1>1, <1>2, <1>3, <1>4, <1>5

\* Every step of the system preserves the types.
LEMMA TypeInductive ==
  TypeOK /\ [Next]_vars => TypeOK'
  <1> SUFFICES ASSUME TypeOK, [Next]_vars
               PROVE  TypeOK'
    OBVIOUS
  <1>1. CASE UNCHANGED vars
    BY <1>1
    DEF vars, TypeOK, BrokerTypeOK, StoreTypeOK, WorkerTypeOK, ControlTypeOK, brokerVars,
        storeVars, workerVars, controlVars
  <1> QED
    BY <1>1, WorkerStepType, ControlStepType DEF Next

\* The initial state is well typed.
LEMMA InitType == Init => TypeOK
  BY EmptySeq
  DEF Init, BrokerInit, StoreInit, WorkerInit, ControlInit, TypeOK, BrokerTypeOK,
      StoreTypeOK, WorkerTypeOK, ControlTypeOK, TaskState, Request

\* TypeOK holds in every reachable state, whatever the constants: an id in the
\* PEL is the id of a delivered entry, a row refers to a task.
THEOREM TypeCorrect == Spec => []TypeOK
  BY InitType, TypeInductive, PTL DEF Spec

=============================================================================

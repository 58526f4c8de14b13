---------------------------- MODULE RetryProofs ----------------------------
(***************************************************************************)
(* RetryInv is inductive: the attempt limit is exceeded by one at most,    *)
(* however often a task is reclaimed, retried and requeued.                *)
(***************************************************************************)
EXTENDS Retries, TaskQueueProofs

\* Adopting an envelope of the stream, and scheduling one below the limit.
LEMMA NextAttempts ==
  ASSUME NEW e \in TaskEnvelope
  PROVE  /\ Fresh(e) => Spent(e) /\ Spent(NextAttempt(e))
         /\ e.attempt + 1 < MaxAttempts[e.task] => Fresh(NextAttempt(e))
  <1>1. e.attempt \in Nat /\ e.task \in Tasks /\ MaxAttempts[e.task] \in Nat
    BY CoreAssumption DEF TaskEnvelope
  <1>2. NextAttempt(e).attempt = e.attempt + 1 /\ NextAttempt(e).task = e.task
    BY DEF NextAttempt, TaskEnvelope
  <1> QED
    BY <1>1, <1>2 DEF Fresh, Spent

\* A new envelope has all its attempts.
LEMMA EnvelopeFresh ==
  ASSUME NEW t, NEW n
  PROVE  Fresh(Envelope(t, n))
  BY DEF Fresh, Envelope

\* The parts of a batch of messages.
LEMMA FreshParts ==
  ASSUME NEW msgs \in Seq(Leased), msgs # <<>>
  PROVE  /\ AllFresh(msgs) => Fresh(Head(msgs).env) /\ AllFresh(Tail(msgs))
         /\ AllSpent(msgs) => Spent(Head(msgs).env)
         /\ Head(msgs) \in Leased
  <1>1. Len(msgs) \in Nat \ {0} /\ DOMAIN msgs = 1..Len(msgs) /\ Head(msgs) = msgs[1]
    BY EmptySeq, LenProperties
  <1>2. /\ DOMAIN Tail(msgs) = 1..(Len(msgs) - 1)
        /\ \A i \in 1..(Len(msgs) - 1) : Tail(msgs)[i] = msgs[i + 1]
    BY HeadTailProperties, LenProperties
  <1>3. 1 \in DOMAIN msgs /\ \A i \in 1..(Len(msgs) - 1) : i + 1 \in DOMAIN msgs
    BY <1>1
  <1>4. AllFresh(msgs) => Fresh(Head(msgs).env) /\ AllFresh(Tail(msgs))
    BY ONLY <1>1, <1>2, <1>3 DEF AllFresh
  <1>5. AllSpent(msgs) => Spent(Head(msgs).env)
    BY ONLY <1>1, <1>3 DEF AllSpent
  <1>6. Head(msgs) \in Leased
    BY <1>1, <1>3
  <1> QED
    BY <1>4, <1>5, <1>6

-----------------------------------------------------------------------------
(* The stream and the ZSET *)

\* XADD of an envelope with attempts left.
LEMMA PublishFresh ==
  ASSUME TypeOK, StreamFresh, NEW e \in TaskEnvelope, Fresh(e), publish(e), UNCHANGED sched
  PROVE  StreamFresh'
  <1>1. log \in Seq(TaskEnvelope) /\ Len(log) \in Nat
    BY DEF TypeOK, BrokerTypeOK
  <1>2. /\ DOMAIN log' = 1..(Len(log) + 1) /\ log'[Len(log) + 1] = e
        /\ \A i \in 1..Len(log) : log'[i] = log[i]
    BY <1>1 DEF publish
  <1>3. \A i \in DOMAIN log' : i \in DOMAIN log \/ i = Len(log) + 1
    BY <1>1, <1>2
  <1>4. \A i \in DOMAIN log' : Fresh(log'[i])
    BY <1>1, <1>2, <1>3 DEF StreamFresh
  <1> QED
    BY <1>4 DEF StreamFresh

\* promote_scheduled only moves envelopes.
LEMMA PromoteFresh ==
  ASSUME TypeOK, StreamFresh, Promote
  PROVE  StreamFresh'
  <1>0. BrokerTypeOK
    BY DEF TypeOK
  <1>1. PICK n \in 1..PromoteBatch : \E due \in [1..n -> sched] :
          log' = log \o due /\ sched' = sched \ {due[i] : i \in 1..n}
    BY DEF Promote, promote_scheduled
  <1>2. PICK due \in [1..n -> sched] :
          log' = log \o due /\ sched' = sched \ {due[i] : i \in 1..n}
    BY <1>1
  <1>3. n \in Nat /\ due \in [1..n -> TaskEnvelope]
    BY <1>0, BrokerAssumption DEF BrokerTypeOK
  <1>4. due \in Seq(TaskEnvelope) /\ Len(due) = n /\ log \in Seq(TaskEnvelope)
    BY <1>0, <1>3, FunctionIsSeq DEF BrokerTypeOK
  <1>5. Len(log) \in Nat /\ DOMAIN log = 1..Len(log)
    BY <1>4
  <1>6. /\ DOMAIN log' = 1..(Len(log) + n)
        /\ \A k \in 1..(Len(log) + n) :
             log'[k] = IF k <= Len(log) THEN log[k] ELSE due[k - Len(log)]
    BY <1>2, <1>4, ConcatProperties, LenProperties
  <1>7. ASSUME NEW k \in 1..(Len(log) + n)
        PROVE  Fresh(log'[k])
    <2>1. CASE k <= Len(log)
      BY <1>3, <1>5, <1>6, <2>1 DEF StreamFresh
    <2>2. CASE ~(k <= Len(log))
      <3>1. k - Len(log) \in 1..n
        BY <1>3, <1>5, <2>2
      <3>2. due[k - Len(log)] \in sched
        BY <3>1
      <3> QED
        BY <1>6, <2>2, <3>2 DEF StreamFresh
    <2> QED
      BY <2>1, <2>2
  <1>8. sched' \subseteq sched
    BY <1>2
  <1> QED
    BY <1>6, <1>7, <1>8 DEF StreamFresh

-----------------------------------------------------------------------------
(* The steps of a job *)

\* A job keeps its envelope, and is in front of schedule() only after is_retryable.
LEMMA JobStepRetry ==
  ASSUME TypeOK, NEW j \in jobs, JobStep(j), RetryOf(j)
  PROVE  \A k \in jobs' : k \in jobs \/ RetryOf(k)
  <1>0. j \in Job
    BY DEF TypeOK, WorkerTypeOK
  <1>1. ASSUME NEW k, Become(j, k), k.env = j.env,
               k.pc = "schedule" => j.env.attempt + 1 < MaxAttempts[j.env.task]
        PROVE  \A i \in jobs' : i \in jobs \/ RetryOf(i)
    BY <1>1 DEF Become, RetryOf
  <1>2. ASSUME NEW error, Return(j, error)
        PROVE  \A i \in jobs' : i \in jobs \/ RetryOf(i)
    <2>1. PICK k : k = [j EXCEPT !.pc = AfterExecute(j.env, error), !.fence = 0, !.err = NoError]
      OBVIOUS
    <2>2. k.env = j.env /\ k.pc = AfterExecute(j.env, error)
      BY <1>0, <2>1 DEF Job
    <2>3. k.pc = "schedule" => j.env.attempt + 1 < MaxAttempts[j.env.task]
      BY <2>2 DEF AfterExecute, is_retryable
    <2> QED
      BY <1>1, <1>2, <2>1, <2>2, <2>3 DEF Return
  <1>3. ASSUME NEW pc, pc # "schedule", NEW fence, NEW err,
               \/ Become(j, [j EXCEPT !.pc = pc])
               \/ Become(j, [j EXCEPT !.pc = pc, !.err = err])
               \/ Become(j, [j EXCEPT !.pc = pc, !.fence = fence])
        PROVE  \A i \in jobs' : i \in jobs \/ RetryOf(i)
    <2>1. PICK k : /\ Become(j, k)
                   /\ \/ k = [j EXCEPT !.pc = pc]
                      \/ k = [j EXCEPT !.pc = pc, !.err = err]
                      \/ k = [j EXCEPT !.pc = pc, !.fence = fence]
      BY <1>3
    <2>2. k.env = j.env /\ k.pc = pc
      BY <1>0, <2>1 DEF Job
    <2> QED
      BY <1>1, <1>3, <2>1, <2>2
  <1>4. CASE AcquireLease(j) \/ GiveBack(j) \/ ReleaseLease(j)
    BY <1>2, <1>3, <1>4 DEF AcquireLease, GiveBack, ReleaseLease
  <1>5. CASE RecordAttempt(j) \/ RunHandler(j)
    BY <1>3, <1>5 DEF RecordAttempt, RunHandler
  <1>6. CASE CommitSelect(j) \/ CommitInsert(j) \/ RecordFailure(j) \/ CommitError(j)
    BY <1>3, <1>6 DEF CommitSelect, CommitInsert, RecordFailure, CommitError
  <1>7. CASE ScheduleRetry(j) \/ DeadLetter(j) \/ MarkDead(j)
    BY <1>3, <1>7 DEF ScheduleRetry, DeadLetter, MarkDead
  <1>8. CASE HeartbeatError(j) \/ ProcessError(j) \/ Ack(j)
    BY <1>8 DEF HeartbeatError, ProcessError, Ack, Ends
  <1> QED
    BY <1>4, <1>5, <1>6, <1>7, <1>8 DEF JobStep

\* A job writes to the stream only through schedule(), below the limit.
LEMMA JobStepStream ==
  ASSUME TypeOK, NEW j \in jobs, JobStep(j), RetryOf(j), StreamFresh
  PROVE  StreamFresh'
  <1>1. CASE ScheduleRetry(j)
    <2>1. j.env \in TaskEnvelope /\ j.env.attempt + 1 < MaxAttempts[j.env.task]
      BY <1>1 DEF TypeOK, WorkerTypeOK, Job, ScheduleRetry, RetryOf
    <2>2. Fresh(NextAttempt(j.env))
      BY <2>1, NextAttempts
    <2>3. log' = log /\ sched' = sched \cup {NextAttempt(j.env)}
      BY <1>1 DEF ScheduleRetry, schedule, streamVars
    <2> QED
      BY <2>2, <2>3 DEF StreamFresh
  <1>2. CASE ~ScheduleRetry(j)
    <2>1. UNCHANGED <<log, sched>>
      BY <1>2
      DEF JobStep, AcquireLease, RecordAttempt, GiveBack, RunHandler, HeartbeatError,
          CommitSelect, CommitInsert, RecordFailure, CommitError, ReleaseLease, DeadLetter,
          MarkDead, Ack, ack, ProcessError, brokerVars, streamVars
    <2> QED
      BY <2>1 DEF StreamFresh
  <1> QED
    BY <1>1, <1>2

-----------------------------------------------------------------------------
(* The steps of the loops *)

\* What Poll and Reclaim read is what the stream holds.
LEMMA ReadFresh ==
  ASSUME TypeOK, StreamFresh, HandsFresh, NEW w \in Workers, Poll(w) \/ Reclaim(w)
  PROVE  HandsFresh' /\ UNCHANGED <<log, sched, jobs>>
  <1>0. /\ BrokerTypeOK /\ polled \in [Workers -> Seq(Leased)] /\ claimed \in [Workers -> Seq(Leased)]
        /\ log \in Seq(TaskEnvelope) /\ delivered \in Nat /\ Len(log) \in Nat
    BY DEF TypeOK, BrokerTypeOK, WorkerTypeOK
  <1>1. CASE Poll(w)
    <2>1. PICK n \in 1..BatchSize :
            /\ PollSize(w, n)
            /\ \/ polled' = [polled EXCEPT ![w] =
                     [i \in 1..n |-> [id |-> delivered + i, env |-> log[delivered + i]]]]
               \/ UNCHANGED polled
      BY <1>1 DEF Poll
    <2>2. PICK msgs : msgs = [i \in 1..n |-> [id |-> delivered + i, env |-> log[delivered + i]]]
      OBVIOUS
    <2>3. AllFresh(msgs)
      <3>1. n \in Nat /\ delivered + n <= Len(log)
        BY <1>0, <2>1, PolledType, BatchAssumption
      <3>2. \A i \in 1..n : delivered + i \in DOMAIN log /\ msgs[i].env = log[delivered + i]
        BY <1>0, <2>2, <3>1
      <3>3. DOMAIN msgs = 1..n
        BY <2>2
      <3> QED
        BY <3>2, <3>3 DEF AllFresh, StreamFresh
    <2>4. UNCHANGED <<claimed, adopted, log, sched, jobs>>
      BY <1>1 DEF Poll, lease
    <2>5. polled' = polled \/ polled' = [polled EXCEPT ![w] = msgs]
      BY <2>1, <2>2
    <2>6. \A v \in Workers : polled'[v] = polled[v] \/ polled'[v] = msgs
      BY <1>0, <2>5
    <2> QED
      BY <2>3, <2>4, <2>6 DEF HandsFresh
  <1>2. CASE Reclaim(w)
    <2>1. PICK ids \in reclaim(BatchSize) :
            claimed' = [claimed EXCEPT ![w] =
              [i \in DOMAIN ids |-> [id |-> ids[i], env |-> log[ids[i]]]]]
      BY <1>2 DEF Reclaim
    <2>2. PICK msgs : msgs = [i \in DOMAIN ids |-> [id |-> ids[i], env |-> log[ids[i]]]]
      OBVIOUS
    <2>3. AllFresh(msgs)
      <3>1. \A i \in DOMAIN ids : ids[i] \in DOMAIN log
        BY <1>0, <2>1, ClaimedType, PendingType
      <3>2. \A i \in DOMAIN msgs : i \in DOMAIN ids /\ msgs[i].env = log[ids[i]]
        BY <2>2
      <3> QED
        BY <3>1, <3>2 DEF AllFresh, StreamFresh
    <2>4. UNCHANGED <<polled, adopted, log, sched, jobs>>
      BY <1>2 DEF Reclaim, brokerVars
    <2>5. \A v \in Workers : claimed'[v] = claimed[v] \/ claimed'[v] = msgs
      BY <1>0, <2>1, <2>2
    <2> QED
      BY <2>3, <2>4, <2>5 DEF HandsFresh
  <1> QED
    BY <1>1, <1>2

\* Adopt adds the one attempt nobody asked is_retryable about.
LEMMA AdoptSpent ==
  ASSUME TypeOK, HandsFresh, NEW w \in Workers, Adopt(w)
  PROVE  HandsFresh' /\ UNCHANGED <<log, sched, jobs>>
  <1>1. /\ claimed \in [Workers -> Seq(Leased)] /\ adopted \in [Workers -> Seq(Leased)]
        /\ claimed[w] \in Seq(Leased) /\ claimed[w] # <<>> /\ AllFresh(claimed[w])
    BY DEF TypeOK, WorkerTypeOK, Adopt, HandsFresh
  <1>2. PICK m \in Leased : m = Head(claimed[w]) /\ Fresh(m.env)
    BY <1>1, FreshParts
  <1>3. PICK msgs, rest : msgs = <<[m EXCEPT !.env = NextAttempt(@)]>> /\ rest = Tail(claimed[w])
    OBVIOUS
  <1>4. AllSpent(msgs)
    <2>1. DOMAIN msgs = {1} /\ msgs[1].env = NextAttempt(m.env) /\ m.env \in TaskEnvelope
      BY <1>2, <1>3 DEF Leased
    <2> QED
      BY <1>2, <2>1, NextAttempts DEF AllSpent
  <1>5. AllFresh(rest)
    BY <1>1, <1>3, FreshParts
  <1>6. /\ claimed' = [claimed EXCEPT ![w] = rest] /\ adopted' = [adopted EXCEPT ![w] = msgs]
        /\ UNCHANGED <<polled, log, sched, jobs>>
    BY <1>2, <1>3 DEF Adopt, brokerVars
  <1>7. \A v \in Workers : /\ claimed'[v] = claimed[v] \/ claimed'[v] = rest
                           /\ adopted'[v] = adopted[v] \/ adopted'[v] = msgs
    BY <1>1, <1>6
  <1> QED
    BY <1>4, <1>5, <1>6, <1>7 DEF HandsFresh

\* A job is started with an envelope from a hand.
LEMMA StartRetry ==
  ASSUME NEW w, NEW m, NewJob(w, m), Spent(m.env)
  PROVE  \A j \in jobs' : j \in jobs \/ RetryOf(j)
  <1>1. PICK n : jobs' = jobs \cup {[worker |-> w, slot |-> n, id |-> m.id, env |-> m.env,
                                    pc |-> "acquire", fence |-> 0, err |-> NoError]}
    BY DEF NewJob
  <1>2. PICK k : k = [worker |-> w, slot |-> n, id |-> m.id, env |-> m.env,
                      pc |-> "acquire", fence |-> 0, err |-> NoError]
    OBVIOUS
  <1>3. k.env = m.env /\ k.pc = "acquire"
    BY <1>2
  <1>4. RetryOf(k)
    BY <1>3 DEF RetryOf
  <1> QED
    BY <1>1, <1>2, <1>4

\* Messages that are started, abandoned or lost with their worker.
LEMMA DropFresh ==
  ASSUME TypeOK, HandsFresh, NEW w \in Workers,
         StartPolled(w) \/ StartAdopted(w) \/ ReclaimError(w) \/ Crash(w)
  PROVE  /\ HandsFresh' /\ UNCHANGED <<log, sched>>
         /\ \A j \in jobs' : j \in jobs \/ RetryOf(j)
  <1>1. /\ polled \in [Workers -> Seq(Leased)] /\ claimed \in [Workers -> Seq(Leased)]
        /\ adopted \in [Workers -> Seq(Leased)]
        /\ AllFresh(polled[w]) /\ AllSpent(adopted[w])
        /\ polled[w] \in Seq(Leased) /\ adopted[w] \in Seq(Leased)
    BY DEF TypeOK, WorkerTypeOK, HandsFresh
  <1>2. PICK rest : rest = Tail(polled[w])
    OBVIOUS
  <1>3. AllFresh(<<>>) /\ AllSpent(<<>>)
    BY DEF AllFresh, AllSpent
  <1>4. \A v \in Workers :
          /\ \/ polled'[v] = polled[v] \/ polled'[v] = <<>>
             \/ polled[w] # <<>> /\ polled'[v] = rest
          /\ claimed'[v] = claimed[v] \/ claimed'[v] = <<>>
          /\ adopted'[v] = adopted[v] \/ adopted'[v] = <<>>
    BY <1>1, <1>2 DEF StartPolled, StartAdopted, ReclaimError, Crash
  <1>5. polled[w] # <<>> => AllFresh(rest)
    BY <1>1, <1>2, FreshParts
  <1>6. HandsFresh'
    <2> SUFFICES ASSUME NEW v \in Workers
                 PROVE  AllFresh(polled'[v]) /\ AllFresh(claimed'[v]) /\ AllSpent(adopted'[v])
      BY DEF HandsFresh
    <2>1. AllFresh(polled[v]) /\ AllFresh(claimed[v]) /\ AllSpent(adopted[v])
      BY DEF HandsFresh
    <2>2. AllFresh(polled'[v])
      BY <1>3, <1>4, <1>5, <2>1
    <2> QED
      BY <1>3, <1>4, <2>1, <2>2
  <1>7. UNCHANGED <<log, sched>>
    BY DEF StartPolled, StartAdopted, ReclaimError, Crash, brokerVars
  <1>8. \A j \in jobs' : j \in jobs \/ RetryOf(j)
    <2>1. CASE StartPolled(w)
      <3>1. PICK m \in Leased : m = Head(polled[w]) /\ Fresh(m.env)
        BY <1>1, <2>1, FreshParts DEF StartPolled
      <3>2. Spent(m.env)
        BY <3>1, NextAttempts DEF Leased
      <3> QED
        BY <2>1, <3>1, <3>2, StartRetry DEF StartPolled
    <2>2. CASE StartAdopted(w)
      BY <1>1, <2>2, FreshParts, StartRetry DEF StartAdopted
    <2>3. CASE ReclaimError(w) \/ Crash(w)
      BY <2>3 DEF ReclaimError, Crash
    <2> QED
      BY <2>1, <2>2, <2>3
  <1> QED
    BY <1>6, <1>7, <1>8

-----------------------------------------------------------------------------

\* Every step preserves RetryInv.
LEMMA RetryInductive ==
  ASSUME TypeOK, RetryInv, [Next]_vars
  PROVE  RetryInv'
  <1>0. StreamFresh /\ HandsFresh /\ \A j \in jobs : RetryOf(j)
    BY DEF RetryInv
  <1>1. ASSUME StreamFresh', UNCHANGED <<polled, claimed, adopted>>,
               \A j \in jobs' : j \in jobs \/ RetryOf(j)
        PROVE  RetryInv'
    BY <1>0, <1>1 DEF RetryInv, HandsFresh
  <1>2. CASE UNCHANGED vars
    <2>1. UNCHANGED <<log, sched, polled, claimed, adopted, jobs>>
      BY <1>2 DEF vars, brokerVars, workerVars
    <2> QED
      BY <1>0, <1>1, <2>1 DEF StreamFresh
  <1>3. CASE ControlNext /\ UNCHANGED workerVars
    <2>1. UNCHANGED <<polled, claimed, adopted, jobs>>
      BY <1>3 DEF workerVars
    <2>2. PICK t \in Tasks :
            \/ CreateSelect(t) \/ CreateInsert(t) \/ CreatePublish(t) \/ CreateCrash(t)
            \/ InjectFailure(t) \/ CancelTask(t)
            \/ RequeuePublish(t) \/ RequeueCommit(t) \/ RequeueCrash(t) \/ RequeuePublishError(t)
      BY <1>3 DEF ControlNext
    <2>3. CASE UNCHANGED <<log, sched>>
      BY <1>0, <1>1, <2>1, <2>3 DEF StreamFresh
    <2>4. ASSUME NEW n \in Nat, publish(Envelope(t, n)), UNCHANGED sched
          PROVE  RetryInv'
      BY <1>0, <1>1, <2>1, <2>4, PublishFresh, EnvelopeType, EnvelopeFresh
    <2>5. ASSUME NEW n \in Nat, schedule(Envelope(t, n)), UNCHANGED log
          PROVE  RetryInv'
      <3>1. StreamFresh'
        BY <1>0, <2>5, EnvelopeFresh DEF StreamFresh, schedule
      <3> QED
        BY <1>1, <2>1, <3>1
    <2>6. CASE CreatePublish(t) \/ InjectFailure(t) \/ RequeuePublish(t)
      <3>1. 0 \in Nat /\ requeues[t] + 1 \in Nat
        BY DEF TypeOK, ControlTypeOK
      <3> QED
        BY <2>4, <2>5, <2>6, <3>1 DEF CreatePublish, InjectFailure, RequeuePublish, streamVars
    <2> QED
      BY <2>2, <2>3, <2>6
      DEF CreateSelect, CreateInsert, CreateCrash, CancelTask, RequeueCommit, RequeueCrash,
          RequeuePublishError, brokerVars
  <1>4. ASSUME NEW j \in jobs, JobStep(j), UNCHANGED handVars
        PROVE  RetryInv'
    BY <1>0, <1>1, <1>4, JobStepRetry, JobStepStream DEF handVars
  <1>5. ASSUME NEW w \in Workers, Poll(w) \/ Reclaim(w) \/ Adopt(w)
        PROVE  RetryInv'
    <2>1. HandsFresh' /\ UNCHANGED <<log, sched, jobs>>
      BY <1>0, <1>5, ReadFresh, AdoptSpent
    <2> QED
      BY <1>0, <2>1 DEF RetryInv, StreamFresh
  <1>6. ASSUME NEW w \in Workers, StartPolled(w) \/ StartAdopted(w) \/ ReclaimError(w) \/ Crash(w)
        PROVE  RetryInv'
    <2>1. HandsFresh' /\ UNCHANGED <<log, sched>> /\ \A j \in jobs' : j \in jobs \/ RetryOf(j)
      BY <1>0, <1>6, DropFresh
    <2> QED
      BY <1>0, <2>1 DEF RetryInv, StreamFresh
  <1>7. CASE Promote
    <2>1. UNCHANGED <<polled, claimed, adopted, jobs>>
      BY <1>7 DEF Promote, workerVars
    <2> QED
      BY <1>0, <1>1, <1>7, <2>1, PromoteFresh
  <1>8. ASSUME NEW l \in leases, LeaseExpires(l)
        PROVE  RetryInv'
    <2>1. UNCHANGED <<log, sched, polled, claimed, adopted, jobs>>
      BY <1>8 DEF LeaseExpires, streamVars, workerVars
    <2> QED
      BY <1>0, <1>1, <2>1 DEF StreamFresh
  <1> QED
    BY <1>2, <1>3, <1>4, <1>5, <1>6, <1>7, <1>8 DEF Next, WorkerNext

\* No envelope of the stream or the ZSET has used up its attempts, whatever the
\* limits and however many faults and requeues there are.
THEOREM RetryInvariant == Spec => []RetryInv
  <1>1. Init => RetryInv
    BY DEF Init, BrokerInit, WorkerInit, RetryInv, StreamFresh, HandsFresh, AllFresh, AllSpent
  <1>2. TypeOK /\ RetryInv /\ [Next]_vars => RetryInv'
    BY RetryInductive
  <1> QED
    BY <1>1, <1>2, TypeCorrect, PTL DEF Spec

\* A worker never runs a task more than one attempt beyond max_attempts.
THEOREM BoundedAttempts == Spec => []AttemptBudget
  <1>1. RetryInv => AttemptBudget
    BY DEF RetryInv, RetryOf, Spent, AttemptBudget
  <1> QED
    BY <1>1, RetryInvariant, PTL

=============================================================================

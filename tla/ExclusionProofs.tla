-------------------------- MODULE ExclusionProofs --------------------------
(***************************************************************************)
(* ExclusionInv is inductive: fences and attempt numbers are never shared, *)
(* a key has one effect, and until a fault a task has one holder.          *)
(***************************************************************************)
EXTENDS Exclusion, TaskQueueProofs

\* What may become of job j in a step of its own: k is its record afterwards.  It
\* holds a lease only if it did before or acquires it now, and it executes only
\* if it did before or records its attempt now.
Successor(j, k) ==
  /\ k \in Job
  /\ k.env = j.env /\ k.worker = j.worker
  /\ jobs' \subseteq (jobs \ {j}) \cup {k}
  /\ k.pc \in Holding =>
       \/ /\ j.pc \in Holding /\ k.fence = j.fence
          /\ leases' = leases /\ fenceSeq' = fenceSeq
       \/ /\ ~Held(j.env.task) /\ k.fence = fenceSeq + 1
          /\ acquire_lease(j.env.task, j.worker)
  /\ k.pc \in Executing =>
       j.pc \in Executing \/ ~HasAttempt(j.env.task, j.env.attempt + 1)
  /\ k.pc \in Executing /\ j.pc \notin Executing =>
       create_attempt(j.env.task, j.env.attempt + 1)

\* Every step of execute() and _process_message has a successor.
LEMMA JobStepSuccessor ==
  ASSUME TypeOK, NEW j \in jobs, JobStep(j)
  PROVE  \E k : Successor(j, k)
  <1>0. /\ j \in Job /\ j.env \in TaskEnvelope /\ j.pc \in Pc
        /\ fenceSeq \in Nat /\ "record" \notin Executing /\ "record" \in Holding
    BY DEF TypeOK, WorkerTypeOK, BrokerTypeOK, Job, Executing, Holding
  <1>1. ASSUME NEW error, Return(j, error)
        PROVE  \E k : Successor(j, k)
    <2>1. PICK k : k = [j EXCEPT !.pc = AfterExecute(j.env, error), !.fence = 0, !.err = NoError]
      OBVIOUS
    <2>2. AfterExecute(j.env, error) \in {"ack", "schedule", "deadLetter"}
      BY DEF AfterExecute
    <2>3. k \in Job /\ k.env = j.env /\ k.worker = j.worker /\ k.pc = AfterExecute(j.env, error)
      BY <1>0, <2>1, <2>2 DEF Job, Pc
    <2>4. k.pc \notin Holding /\ k.pc \notin Executing
      BY <2>2, <2>3 DEF Holding, Executing
    <2>5. jobs' \subseteq (jobs \ {j}) \cup {k}
      BY <1>1, <2>1 DEF Return, Become
    <2>6. Successor(j, k)
      BY <2>3, <2>4, <2>5 DEF Successor
    <2> QED
      BY <2>6
  <1>2. CASE AcquireLease(j)
    <2>1. CASE Held(j.env.task)
      BY <1>1, <1>2, <2>1 DEF AcquireLease
    <2>2. CASE ~Held(j.env.task)
      <3>1. PICK k : k = [j EXCEPT !.pc = "record", !.fence = fenceSeq + 1]
        OBVIOUS
      <3>2. /\ k \in Job /\ k.env = j.env /\ k.worker = j.worker /\ k.pc = "record"
            /\ k.fence = fenceSeq + 1
        <4>1. "record" \in Pc /\ fenceSeq + 1 \in Nat
          BY <1>0 DEF Pc
        <4>2. k \in Job
          BY ONLY <1>0, <3>1, <4>1, JobUpdate
        <4> QED
          BY <1>0, <3>1, <4>2 DEF Job
      <3>3. acquire_lease(j.env.task, j.worker) /\ jobs' = (jobs \ {j}) \cup {k}
        BY <1>2, <2>2, <3>1 DEF AcquireLease, Become
      <3>4. Successor(j, k)
        BY <1>0, <2>2, <3>2, <3>3 DEF Successor
      <3> QED
        BY <3>4
    <2> QED
      BY <2>1, <2>2
  <1>3. ASSUME NEW pc \in Pc, NEW err \in ErrorType \cup {NoError},
               j.pc \in Holding, pc \in Executing => j.pc \in Executing,
               Become(j, [j EXCEPT !.pc = pc, !.err = err]), UNCHANGED leaseVars
        PROVE  \E k : Successor(j, k)
    <2>1. PICK k : k = [j EXCEPT !.pc = pc, !.err = err]
      OBVIOUS
    <2>2. k \in Job /\ k.env = j.env /\ k.worker = j.worker /\ k.pc = pc /\ k.fence = j.fence
      BY <1>0, <2>1 DEF Job
    <2>3. jobs' = (jobs \ {j}) \cup {k} /\ leases' = leases /\ fenceSeq' = fenceSeq
      BY <1>3, <2>1 DEF Become, leaseVars
    <2>4. Successor(j, k)
      BY <1>3, <2>2, <2>3 DEF Successor
    <2> QED
      BY <2>4
  <1>4. CASE RecordAttempt(j)
    <2>1. UNCHANGED leaseVars /\ j.pc = "record" /\ j.pc \in Holding
      BY <1>0, <1>4 DEF RecordAttempt, brokerVars, leaseVars
    <2>2. CASE Become(j, [j EXCEPT !.pc = "giveBack"])
      <3>1. [j EXCEPT !.pc = "giveBack"] = [j EXCEPT !.pc = "giveBack", !.err = j.err]
        BY <1>0 DEF Job
      <3>2. /\ "giveBack" \in Pc /\ "giveBack" \notin Executing
            /\ j.err \in ErrorType \cup {NoError}
        BY <1>0 DEF Pc, Holding, Executing, Job
      <3> QED
        BY <1>3, <2>1, <2>2, <3>1, <3>2
    <2>3. CASE /\ create_attempt(j.env.task, j.env.attempt + 1)
               /\ Become(j, [j EXCEPT !.pc = "handler"])
      <3>1. PICK k : k = [j EXCEPT !.pc = "handler"]
        OBVIOUS
      <3>2. k \in Job /\ k.env = j.env /\ k.worker = j.worker /\ k.fence = j.fence
        BY <1>0, <3>1 DEF Job, Pc, Holding, Executing
      <3>3. jobs' = (jobs \ {j}) \cup {k} /\ leases' = leases /\ fenceSeq' = fenceSeq
        BY <2>1, <2>3, <3>1 DEF Become, leaseVars
      <3>4. Successor(j, k)
        BY <2>1, <2>3, <3>2, <3>3 DEF Successor, create_attempt
      <3> QED
        BY <3>4
    <2> QED
      BY <1>4, <2>2, <2>3 DEF RecordAttempt
  <1>5. CASE RunHandler(j) \/ CommitSelect(j) \/ CommitInsert(j) \/ RecordFailure(j) \/ CommitError(j)
    <2>1. UNCHANGED leaseVars /\ j.pc \in Executing /\ j.pc \in Holding
      BY <1>5
      DEF RunHandler, CommitSelect, CommitInsert, RecordFailure, CommitError, brokerVars,
          leaseVars, Executing, Holding
    <2>2. PICK pc \in {"select", "insert", "close", "release"}, err \in ErrorType \cup {NoError} :
            Become(j, [j EXCEPT !.pc = pc, !.err = err])
      <3>1. \A p : [j EXCEPT !.pc = p] = [j EXCEPT !.pc = p, !.err = j.err]
        BY <1>0 DEF Job
      <3>2. /\ j.err \in ErrorType \cup {NoError} /\ HandlerErrors \subseteq ErrorType
            /\ "CommitError" \in ErrorType /\ "Effect already committed" \in ErrorType
        BY <1>0 DEF Job, ErrorType, HandlerErrors
      <3>3. CASE RunHandler(j)
        BY <3>1, <3>2, <3>3 DEF RunHandler
      <3>4. CASE CommitSelect(j)
        BY <3>1, <3>2, <3>4 DEF CommitSelect
      <3>5. CASE CommitInsert(j)
        BY <3>1, <3>2, <3>5 DEF CommitInsert
      <3>6. CASE RecordFailure(j) \/ CommitError(j)
        BY <3>1, <3>2, <3>6 DEF RecordFailure, CommitError
      <3> QED
        BY <1>5, <3>3, <3>4, <3>5, <3>6
    <2>3. pc \in Pc
      BY DEF Pc, Holding, Executing
    <2> QED
      BY <1>3, <2>1, <2>2, <2>3
  <1>6. CASE GiveBack(j) \/ ReleaseLease(j)
    BY <1>1, <1>6 DEF GiveBack, ReleaseLease
  <1>7. ASSUME NEW pc \in {"ack", "markDead"}, Become(j, [j EXCEPT !.pc = pc])
        PROVE  \E k : Successor(j, k)
    <2>1. PICK k : k = [j EXCEPT !.pc = pc]
      OBVIOUS
    <2>2. /\ k \in Job /\ k.env = j.env /\ k.worker = j.worker /\ k.pc \notin Holding
          /\ k.pc \notin Executing
      BY <1>0, <2>1 DEF Job, Pc, Holding, Executing
    <2>3. Successor(j, k)
      BY <1>7, <2>1, <2>2 DEF Successor, Become
    <2> QED
      BY <2>3
  <1>8. CASE ScheduleRetry(j) \/ DeadLetter(j) \/ MarkDead(j)
    BY <1>7, <1>8 DEF ScheduleRetry, DeadLetter, MarkDead
  <1>9. CASE Ack(j) \/ HeartbeatError(j) \/ ProcessError(j)
    <2>1. jobs' = jobs \ {j} /\ leases' = leases /\ fenceSeq' = fenceSeq
      BY <1>9 DEF Ack, HeartbeatError, ProcessError, Ends, brokerVars, leaseVars
    <2>2. Successor(j, j)
      BY <1>0, <2>1 DEF Successor
    <2> QED
      BY <2>2
  <1> QED
    BY <1>2, <1>4, <1>5, <1>6, <1>8, <1>9 DEF JobStep

-----------------------------------------------------------------------------
(* What the steps do to attempts, leases and effects. *)

\* Attempt rows are updated and never deleted.
AttemptsKept == \A t, n : HasAttempt(t, n) => HasAttempt(t, n)'

\* close_attempt changes outcomes only.
LEMMA CloseKeeps ==
  ASSUME attempts \subseteq AttemptRow, NEW t, NEW n, NEW outcome, close_attempt(t, n, outcome)
  PROVE  AttemptsKept
  <1> SUFFICES ASSUME NEW r \in attempts
               PROVE  \E q \in attempts' : q.task = r.task /\ q.attempt_no = r.attempt_no
    BY DEF AttemptsKept, HasAttempt
  <1>1. PICK q : q = IF r.task = t /\ r.attempt_no = n THEN [r EXCEPT !.outcome = outcome] ELSE r
    OBVIOUS
  <1>2. q \in attempts'
    BY <1>1 DEF close_attempt
  <1>3. q.task = r.task /\ q.attempt_no = r.attempt_no
    BY <1>1 DEF AttemptRow
  <1> QED
    BY <1>2, <1>3

\* The steps of a job keep the attempt rows.
LEMMA JobStepAttempts ==
  ASSUME TypeOK, NEW j \in jobs, JobStep(j)
  PROVE  AttemptsKept
  <1>1. attempts \subseteq AttemptRow
    BY DEF TypeOK, StoreTypeOK
  <1>2. CASE attempts' = attempts
    BY <1>2 DEF AttemptsKept, HasAttempt
  <1>3. CASE \E n : create_attempt(j.env.task, n)
    BY <1>3 DEF create_attempt, AttemptsKept, HasAttempt
  <1>4. CASE \E n, outcome : close_attempt(j.env.task, n, outcome)
    BY <1>1, <1>4, CloseKeeps
  <1> QED
    BY <1>2, <1>3, <1>4
    DEF JobStep, AcquireLease, RecordAttempt, GiveBack, RunHandler, HeartbeatError,
        CommitSelect, CommitInsert, RecordFailure, CommitError, ReleaseLease, ScheduleRetry,
        DeadLetter, MarkDead, Ack, ProcessError, storeVars

\* A job takes a free lease, deletes its own, or leaves the leases alone.
LEMMA JobStepLeases ==
  ASSUME TypeOK, NEW j \in jobs, JobStep(j)
  PROVE  \/ UNCHANGED <<leases, fenceSeq>>
         \/ ~Held(j.env.task) /\ acquire_lease(j.env.task, j.worker)
         \/ j.pc \in Holding /\ leases' = leases \ {LeaseOf(j)} /\ fenceSeq' = fenceSeq
  <1>1. CASE GiveBack(j) \/ ReleaseLease(j)
    BY <1>1 DEF GiveBack, ReleaseLease, release_lease, LeaseOf, Holding
  <1>2. CASE AcquireLease(j)
    BY <1>2 DEF AcquireLease, leaseVars
  <1> QED
    BY <1>1, <1>2
    DEF JobStep, RecordAttempt, RunHandler, HeartbeatError, CommitSelect, CommitInsert,
        RecordFailure, CommitError, ScheduleRetry, DeadLetter, MarkDead, Ack, ProcessError,
        brokerVars, leaseVars

\* An effect is inserted under a free key only.
LEMMA JobStepEffects ==
  ASSUME NEW j \in jobs, JobStep(j)
  PROVE  effects' = effects \/ \E key, t, fence : insert_effect(key, t, fence)
  BY DEF JobStep, AcquireLease, RecordAttempt, GiveBack, RunHandler, HeartbeatError,
         CommitSelect, CommitInsert, RecordFailure, CommitError, ReleaseLease, ScheduleRetry,
         DeadLetter, MarkDead, Ack, ProcessError, storeVars

\* Faults are never undone.
LEMMA JobStepFaults ==
  ASSUME NEW j \in jobs, JobStep(j)
  PROVE  Fault \/ UNCHANGED faults
  BY DEF JobStep, AcquireLease, RecordAttempt, GiveBack, RunHandler, HeartbeatError,
         CommitSelect, CommitInsert, RecordFailure, CommitError, ReleaseLease, ScheduleRetry,
         DeadLetter, MarkDead, Ack, ProcessError

\* After a step that faults, or starts from a fault, LeaseKept says nothing.
LEMMA FaultsGrow ==
  ASSUME faults \in Nat, Fault \/ UNCHANGED faults, faults' = 0
  PROVE  faults = 0 /\ UNCHANGED faults
  BY DEF Fault

-----------------------------------------------------------------------------
(* The conjuncts of ExclusionInv under a step of a job. *)

\* Every step of a job preserves the invariant.
LEMMA JobStepExclusion ==
  ASSUME ExclusionInv, TypeOK', NEW j \in jobs, JobStep(j)
  PROVE  ExclusionInv'
  <1>0. /\ TypeOK /\ FencesIssued /\ FencesUnique /\ OneLeasePerTask /\ LeaseKept
        /\ AttemptRecorded /\ AttemptRunsOnce /\ OneEffectPerKey
    BY DEF ExclusionInv
  <1>1. PICK k : Successor(j, k)
    BY <1>0, JobStepSuccessor
  <1>2. \A i \in jobs' : i \in jobs \ {j} \/ i = k
    BY <1>1 DEF Successor
  <1>3. /\ jobs \subseteq Job /\ fenceSeq \in Nat /\ faults \in Nat
        /\ leases \subseteq Lease /\ effects \subseteq EffectRow
    BY <1>0 DEF TypeOK, WorkerTypeOK, BrokerTypeOK, StoreTypeOK
  <1>4. \A i \in Job : i.fence \in Nat
    BY DEF Job
  <1>5. fenceSeq' \in {fenceSeq, fenceSeq + 1}
    BY <1>0, JobStepLeases DEF acquire_lease
  <1>6. FencesIssued'
    <2>1. ASSUME NEW i \in jobs \ {j}, i.pc \in Holding
          PROVE  i.fence <= fenceSeq'
      BY <1>0, <1>3, <1>4, <1>5, <2>1 DEF FencesIssued
    <2>2. k.pc \in Holding => k.fence <= fenceSeq'
      <3>1. CASE j.pc \in Holding /\ k.fence = j.fence /\ fenceSeq' = fenceSeq
        BY <1>0, <3>1 DEF FencesIssued
      <3>2. CASE k.fence = fenceSeq + 1 /\ fenceSeq' = fenceSeq + 1
        BY <1>3, <3>2
      <3> QED
        BY <1>1, <3>1, <3>2 DEF Successor, acquire_lease
    <2> QED
      BY <1>2, <2>1, <2>2 DEF FencesIssued
  <1>7. FencesUnique'
    <2>1. ASSUME NEW i \in jobs \ {j}, i.pc \in Holding, k.pc \in Holding
          PROVE  i.fence # k.fence
      <3>1. CASE j.pc \in Holding /\ k.fence = j.fence
        BY <1>0, <2>1, <3>1 DEF FencesUnique
      <3>2. CASE k.fence = fenceSeq + 1
        BY <1>0, <1>3, <1>4, <2>1, <3>2 DEF FencesIssued
      <3> QED
        BY <1>1, <2>1, <3>1, <3>2 DEF Successor
    <2>2. ASSUME NEW i \in jobs \ {j}, NEW m \in jobs \ {j},
                 i.pc \in Holding, m.pc \in Holding, i.fence = m.fence
          PROVE  i = m
      BY <1>0, <2>2 DEF FencesUnique
    <2> QED
      BY <1>2, <2>1, <2>2 DEF FencesUnique
  <1>8. OneLeasePerTask'
    BY <1>0, <1>3, JobStepLeases DEF OneLeasePerTask, acquire_lease, Held, Lease
  <1>9. LeaseKept'
    <2> SUFFICES ASSUME faults' = 0
                 PROVE  \A i \in jobs' : i.pc \in Holding => LeaseOf(i) \in leases'
      BY DEF LeaseKept, LeaseOf
    <2>1. \A i \in jobs : i.pc \in Holding => LeaseOf(i) \in leases
      BY <1>0, <1>3, JobStepFaults, FaultsGrow DEF LeaseKept
    <2>2. ASSUME NEW i \in jobs \ {j}, i.pc \in Holding
          PROVE  LeaseOf(i) \in leases'
      <3>1. LeaseOf(i) \in leases
        BY <2>1, <2>2
      <3>2. j.pc \in Holding => LeaseOf(i) # LeaseOf(j)
        BY <1>0, <2>2 DEF FencesUnique, LeaseOf
      <3> QED
        BY <1>0, <3>1, <3>2, JobStepLeases DEF acquire_lease
    <2>3. k.pc \in Holding => LeaseOf(k) \in leases'
      <3>1. CASE j.pc \in Holding /\ k.fence = j.fence /\ leases' = leases
        BY <1>1, <2>1, <3>1 DEF Successor, LeaseOf
      <3>2. CASE k.fence = fenceSeq + 1 /\ acquire_lease(j.env.task, j.worker)
        BY <1>1, <3>2 DEF Successor, LeaseOf, acquire_lease
      <3> QED
        BY <1>1, <3>1, <3>2 DEF Successor
    <2> QED
      BY <1>2, <2>2, <2>3
  <1>10. AttemptRecorded'
    <2>1. ASSUME NEW i \in jobs, i.pc \in Executing
          PROVE  HasAttempt(i.env.task, i.env.attempt + 1)'
      BY <1>0, <2>1, JobStepAttempts DEF AttemptRecorded, AttemptsKept
    <2>2. k.pc \in Executing => HasAttempt(k.env.task, k.env.attempt + 1)'
      <3>1. CASE j.pc \in Executing
        BY <1>1, <2>1, <3>1 DEF Successor
      <3>2. CASE create_attempt(j.env.task, j.env.attempt + 1)
        <4>1. k.env = j.env
          BY <1>1 DEF Successor
        <4>2. PICK r : r = [task |-> j.env.task, attempt_no |-> j.env.attempt + 1, outcome |-> "open"]
          OBVIOUS
        <4>3. r \in attempts' /\ r.task = j.env.task /\ r.attempt_no = j.env.attempt + 1
          BY <3>2, <4>2 DEF create_attempt
        <4> QED
          BY <4>1, <4>3 DEF HasAttempt
      <3> QED
        BY <1>1, <3>1, <3>2 DEF Successor
    <2> QED
      BY <1>2, <2>1, <2>2 DEF AttemptRecorded
  <1>11. AttemptRunsOnce'
    <2>1. ASSUME NEW i \in jobs \ {j}, i.pc \in Executing, k.pc \in Executing,
                 i.env.task = k.env.task, i.env.attempt = k.env.attempt
          PROVE  FALSE
      <3>1. j.env.task = i.env.task /\ j.env.attempt = i.env.attempt
        BY <1>1, <2>1 DEF Successor
      <3>2. CASE j.pc \in Executing
        BY <1>0, <2>1, <3>1, <3>2 DEF AttemptRunsOnce
      <3>3. CASE ~HasAttempt(j.env.task, j.env.attempt + 1)
        BY <1>0, <2>1, <3>1, <3>3 DEF AttemptRecorded
      <3> QED
        BY <1>1, <2>1, <3>2, <3>3 DEF Successor
    <2>2. ASSUME NEW i \in jobs \ {j}, NEW m \in jobs \ {j},
                 i.pc \in Executing, m.pc \in Executing,
                 i.env.task = m.env.task, i.env.attempt = m.env.attempt
          PROVE  i = m
      BY <1>0, <2>2 DEF AttemptRunsOnce
    <2> QED
      BY <1>2, <2>1, <2>2 DEF AttemptRunsOnce
  <1>12. OneEffectPerKey'
    BY <1>0, <1>3, JobStepEffects DEF OneEffectPerKey, insert_effect, EffectsOf, EffectRow
  <1> QED
    BY <1>6, <1>7, <1>8, <1>9, <1>10, <1>11, <1>12 DEF ExclusionInv

\* A step that starts jobs at most and leaves leases and effects alone.
LEMMA QuietExclusion ==
  ASSUME ExclusionInv, TypeOK', AttemptsKept, UNCHANGED <<leases, fenceSeq, effects>>,
         Fault \/ UNCHANGED faults,
         \A i \in jobs' : i \in jobs \/ i.pc = "acquire"
  PROVE  ExclusionInv'
  <1>0. /\ TypeOK /\ FencesIssued /\ FencesUnique /\ OneLeasePerTask /\ LeaseKept
        /\ AttemptRecorded /\ AttemptRunsOnce /\ OneEffectPerKey /\ faults \in Nat
    BY DEF ExclusionInv, TypeOK
  <1>1. \A i \in jobs' : i.pc \in Holding \/ i.pc \in Executing => i \in jobs
    BY DEF Holding, Executing
  <1>2. FencesIssued' /\ FencesUnique'
    BY <1>0, <1>1 DEF FencesIssued, FencesUnique
  <1>3. OneLeasePerTask' /\ OneEffectPerKey'
    BY <1>0 DEF OneLeasePerTask, OneEffectPerKey
  <1>4. LeaseKept'
    BY <1>0, <1>1, FaultsGrow DEF LeaseKept, LeaseOf
  <1>5. AttemptRecorded'
    BY <1>0, <1>1 DEF AttemptRecorded, AttemptsKept
  <1>6. AttemptRunsOnce'
    BY <1>0, <1>1 DEF AttemptRunsOnce
  <1> QED
    BY <1>2, <1>3, <1>4, <1>5, <1>6 DEF ExclusionInv

\* A lease that runs out under a live job is a fault.
LEMMA ExpiryExclusion ==
  ASSUME ExclusionInv, TypeOK', NEW l \in leases, LeaseExpires(l)
  PROVE  ExclusionInv'
  <1>0. /\ TypeOK /\ FencesIssued /\ FencesUnique /\ OneLeasePerTask /\ LeaseKept
        /\ AttemptRecorded /\ AttemptRunsOnce /\ OneEffectPerKey /\ faults \in Nat
    BY DEF ExclusionInv, TypeOK
  <1>1. UNCHANGED <<jobs, fenceSeq, attempts, effects>> /\ leases' = leases \ {l}
    BY DEF LeaseExpires, expire, storeVars, workerVars
  <1>2. FencesIssued' /\ FencesUnique' /\ OneLeasePerTask' /\ OneEffectPerKey'
    BY <1>0, <1>1 DEF FencesIssued, FencesUnique, OneLeasePerTask, OneEffectPerKey
  <1>3. AttemptRecorded' /\ AttemptRunsOnce'
    BY <1>0, <1>1 DEF AttemptRecorded, AttemptRunsOnce, HasAttempt
  <1>4. LeaseKept'
    <2> SUFFICES ASSUME faults' = 0, NEW j \in jobs, j.pc \in Holding
                 PROVE  LeaseOf(j) \in leases'
      BY <1>1 DEF LeaseKept, LeaseOf
    <2>1. Fault \/ UNCHANGED faults
      BY DEF LeaseExpires
    <2>2. faults = 0 /\ UNCHANGED faults
      BY <1>0, <2>1, FaultsGrow
    <2>3. ~Fault
      BY <1>0, <2>2 DEF Fault
    <2>4. ~(j.worker = l.worker /\ j.fence = l.fence)
      BY <2>3 DEF LeaseExpires
    <2>5. LeaseOf(j) # l
      BY <2>4 DEF LeaseOf
    <2> QED
      BY <1>0, <1>1, <2>2, <2>5 DEF LeaseKept
  <1> QED
    BY <1>2, <1>3, <1>4 DEF ExclusionInv

\* The steps of the loops.
LEMMA WorkerExclusion ==
  ASSUME ExclusionInv, TypeOK', WorkerNext
  PROVE  ExclusionInv'
  <1>0. TypeOK /\ attempts \subseteq AttemptRow
    BY DEF ExclusionInv, TypeOK, StoreTypeOK
  <1>1. ASSUME NEW w \in Workers, StartPolled(w) \/ StartAdopted(w)
        PROVE  ExclusionInv'
    <2>1. \A i \in jobs' : i \in jobs \/ i.pc = "acquire"
      BY <1>1 DEF StartPolled, StartAdopted, NewJob
    <2>2. UNCHANGED <<leases, fenceSeq, effects, attempts, faults>>
      BY <1>1 DEF StartPolled, StartAdopted, brokerVars, storeVars
    <2>3. AttemptsKept
      BY <2>2 DEF AttemptsKept, HasAttempt
    <2> QED
      BY <2>1, <2>2, <2>3, QuietExclusion
  <1>2. ASSUME NEW w \in Workers, Poll(w) \/ Reclaim(w) \/ ReclaimError(w) \/ Crash(w)
        PROVE  ExclusionInv'
    <2>1. jobs' \subseteq jobs /\ UNCHANGED <<leases, fenceSeq, effects, attempts>>
      BY <1>2 DEF Poll, Reclaim, ReclaimError, Crash, brokerVars, leaseVars, storeVars
    <2>2. Fault \/ UNCHANGED faults
      BY <1>2 DEF Poll, Reclaim, ReclaimError, Crash
    <2>3. AttemptsKept
      BY <2>1 DEF AttemptsKept, HasAttempt
    <2> QED
      BY <2>1, <2>2, <2>3, QuietExclusion
  <1>3. ASSUME NEW w \in Workers, Adopt(w)
        PROVE  ExclusionInv'
    <2>1. UNCHANGED <<jobs, leases, fenceSeq, effects>> /\ (Fault \/ UNCHANGED faults)
      BY <1>3 DEF Adopt, brokerVars
    <2>2. CASE UNCHANGED attempts
      BY <2>1, <2>2, QuietExclusion DEF AttemptsKept, HasAttempt
    <2>3. CASE \E t, n : close_attempt(t, n, "lease_lost")
      BY <1>0, <2>1, <2>3, CloseKeeps, QuietExclusion
    <2> QED
      BY <1>3, <2>2, <2>3 DEF Adopt
  <1>4. CASE Promote
    BY <1>4, QuietExclusion
    DEF Promote, leaseVars, storeVars, workerVars, AttemptsKept, HasAttempt
  <1> QED
    BY <1>0, <1>1, <1>2, <1>3, <1>4, JobStepExclusion, ExpiryExclusion DEF WorkerNext

\* The control plane touches neither leases, attempts nor effects.
LEMMA ControlExclusion ==
  ASSUME ExclusionInv, TypeOK', ControlNext, UNCHANGED workerVars
  PROVE  ExclusionInv'
  <1>1. UNCHANGED <<jobs, leases, fenceSeq, effects, attempts>>
    BY DEF ControlNext, CreateSelect, CreateInsert, CreatePublish, CreateCrash, InjectFailure,
           CancelTask, RequeuePublish, RequeueCommit, RequeueCrash, RequeuePublishError,
           brokerVars, leaseVars, storeVars, workerVars
  <1>2. Fault \/ UNCHANGED faults
    BY DEF ControlNext, CreateSelect, CreateInsert, CreatePublish, CreateCrash, InjectFailure,
           CancelTask, RequeuePublish, RequeueCommit, RequeueCrash, RequeuePublishError
  <1> QED
    BY <1>1, <1>2, QuietExclusion DEF AttemptsKept, HasAttempt

\* ExclusionInv holds in every reachable state: fences, leases and attempt rows
\* identify the job that acquire_lease and create_attempt gave them to.
THEOREM ExclusionInvariant == Spec => []ExclusionInv
  <1>1. Init => ExclusionInv
    BY InitType
    DEF Init, BrokerInit, StoreInit, WorkerInit, ExclusionInv, FencesIssued, FencesUnique,
        OneLeasePerTask, LeaseKept, AttemptRecorded, AttemptRunsOnce, OneEffectPerKey
  <1>2. ExclusionInv /\ [Next]_vars => ExclusionInv'
    <2> SUFFICES ASSUME ExclusionInv, [Next]_vars
                 PROVE  ExclusionInv'
      OBVIOUS
    <2>1. TypeOK'
      BY TypeInductive DEF ExclusionInv
    <2>2. CASE UNCHANGED vars
      BY <2>1, <2>2, QuietExclusion
      DEF vars, brokerVars, storeVars, workerVars, AttemptsKept, HasAttempt
    <2> QED
      BY <2>1, <2>2, WorkerExclusion, ControlExclusion DEF Next
  <1> QED
    BY <1>1, <1>2, PTL DEF Spec

\* Exactly one effect per key, however often commit_effect is attempted.
THEOREM EffectOnce == Spec => []OneEffectPerKey
  <1>1. ExclusionInv => OneEffectPerKey
    BY DEF ExclusionInv
  <1> QED
    BY <1>1, ExclusionInvariant, PTL

\* No two executions ever hold the same fencing token.
THEOREM UniqueFences == Spec => []FencesUnique
  <1>1. ExclusionInv => FencesUnique
    BY DEF ExclusionInv
  <1> QED
    BY <1>1, ExclusionInvariant, PTL

\* No attempt number of a task runs twice at a time, whatever is reclaimed.
THEOREM SingleExecution == Spec => []AttemptRunsOnce
  <1>1. ExclusionInv => AttemptRunsOnce
    BY DEF ExclusionInv
  <1> QED
    BY <1>1, ExclusionInvariant, PTL

\* Until a fault, a task is held by one job at a time: acquire_lease excludes.
THEOREM LeaseExcludes == Spec => []ExclusiveUntilFault
  <1>1. ExclusionInv => ExclusiveUntilFault
    <2> SUFFICES ASSUME ExclusionInv, faults = 0, NEW j \in jobs, NEW k \in jobs,
                        j.pc \in Holding, k.pc \in Holding, j.env.task = k.env.task
                 PROVE  j = k
      BY DEF ExclusiveUntilFault
    <2>1. LeaseOf(j) \in leases /\ LeaseOf(k) \in leases
      BY DEF ExclusionInv, LeaseKept
    <2>2. LeaseOf(j) = LeaseOf(k)
      BY <2>1 DEF ExclusionInv, OneLeasePerTask, LeaseOf
    <2>3. j.fence = k.fence
      BY <2>2 DEF LeaseOf
    <2> QED
      BY <2>3 DEF ExclusionInv, FencesUnique
  <1> QED
    BY <1>1, ExclusionInvariant, PTL

\* release_lease.lua compares before it deletes: the lease that disappears in a
\* step of a job is the one that job was given.
THEOREM OwnerDeletes == Spec => LeaseDeletedByOwner
  <1> DEFINE Deletes == \A l \in leases \ leases' : \A j \in jobs \ jobs' :
                          j.env.task = l.task /\ j.worker = l.worker /\ j.fence = l.fence
  <1>1. TypeOK /\ [Next]_vars => [Deletes]_vars
    <2> SUFFICES ASSUME TypeOK, Next
                 PROVE  Deletes
      OBVIOUS
    <2>1. ASSUME NEW j \in jobs, JobStep(j)
          PROVE  Deletes
      <3>1. jobs \ jobs' \subseteq {j}
        BY <2>1
        DEF JobStep, AcquireLease, RecordAttempt, GiveBack, RunHandler, HeartbeatError,
            CommitSelect, CommitInsert, RecordFailure, CommitError, ReleaseLease,
            ScheduleRetry, DeadLetter, MarkDead, Ack, ProcessError, Return, Become, Ends
      <3>2. \A l \in leases \ leases' : l = LeaseOf(j)
        BY <2>1, JobStepLeases DEF acquire_lease
      <3> QED
        BY <3>1, <3>2 DEF LeaseOf
    <2>2. CASE leases' = leases \/ jobs' = jobs
      BY <2>2
    <2>3. ASSUME NEW l \in leases, LeaseExpires(l)
          PROVE  jobs' = jobs
      BY <2>3 DEF LeaseExpires, workerVars
    <2>4. ASSUME NEW w \in Workers,
                 \/ Poll(w) \/ StartPolled(w) \/ Reclaim(w) \/ Adopt(w) \/ StartAdopted(w)
                 \/ ReclaimError(w) \/ Crash(w)
          PROVE  leases' = leases
      BY <2>4
      DEF Poll, StartPolled, Reclaim, Adopt, StartAdopted, ReclaimError, Crash, brokerVars,
          leaseVars
    <2>5. CASE Promote
      BY <2>2, <2>5 DEF Promote, leaseVars
    <2>6. CASE UNCHANGED workerVars
      BY <2>2, <2>6 DEF workerVars
    <2> QED
      BY <2>1, <2>2, <2>3, <2>4, <2>5, <2>6 DEF Next, WorkerNext
  <1> QED
    BY <1>1, TypeCorrect, PTL DEF Spec, LeaseDeletedByOwner

=============================================================================

---------------------------- MODULE TaskExecutor ----------------------------
(***************************************************************************)
(* dtq/worker/executor.py and _process_message of loop.py: what happens to *)
(* one delivered message.                                                  *)
(*                                                                         *)
(* A job is one asyncio task running _process_message; it holds a permit   *)
(* of its worker's semaphore, here a slot.  Each await that reads or       *)
(* writes Redis or Postgres is a step, named by the job's pc, and anything *)
(* may happen between two steps.                                           *)
(***************************************************************************)
EXTENDS RedisBroker, TaskStore

CONSTANT Concurrency   \* permits of a worker's semaphore

ASSUME ConcurrencyAssumption == Concurrency \in Nat \ {0}

VARIABLE jobs          \* the running _process_message tasks

\* The pcs between create_attempt and the end of the commit transaction.
Executing == {"handler", "select", "insert", "close"}
\* The pcs at which execute() may own a lease.
Holding == Executing \cup {"record", "giveBack", "release"}
Pc == Holding \cup {"acquire", "schedule", "deadLetter", "markDead", "ack"}

Job == [worker : Workers, slot : 1..Concurrency, id : Nat, env : TaskEnvelope,
        pc : Pc, fence : Nat, err : ErrorType \cup {NoError}]

FreeSlots(w) == {n \in 1..Concurrency : ~\E j \in jobs : j.worker = w /\ j.slot = n}

\* asyncio.create_task(_process_message(msg)) under a permit.
NewJob(w, m) ==
  \E n \in FreeSlots(w) :
    jobs' = jobs \cup {[worker |-> w, slot |-> n, id |-> m.id, env |-> m.env,
                        pc |-> "acquire", fence |-> 0, err |-> NoError]}

\* Job j goes on as the record k; its permit is released when it ends.
Become(j, k) == jobs' = (jobs \ {j}) \cup {k}
Ends(j) == jobs' = jobs \ {j}

\* The next await of _process_message once execute() has returned (NoError:
\* success).
AfterExecute(e, error) ==
  IF error = NoError THEN "ack"
  ELSE IF is_retryable(e, error, e.attempt + 1) THEN "schedule" ELSE "deadLetter"

Return(j, error) ==
  Become(j, [j EXCEPT !.pc = AfterExecute(j.env, error), !.fence = 0, !.err = NoError])

-----------------------------------------------------------------------------
(* TaskExecutor.execute *)

AcquireLease(j) ==
  /\ j.pc = "acquire"
  /\ IF Held(j.env.task)
       THEN Return(j, "LeaseAcquireError") /\ UNCHANGED leaseVars
       ELSE /\ acquire_lease(j.env.task, j.worker)
            /\ Become(j, [j EXCEPT !.pc = "record", !.fence = fenceSeq + 1])
  /\ UNCHANGED <<streamVars, sched, dlq, storeVars, faults>>

\* One transaction: create_attempt and state LEASED.  It fails on a constraint,
\* or with the connection.
RecordAttempt(j) ==
  /\ j.pc = "record"
  /\ LET t == j.env.task
         n == j.env.attempt + 1
     IN  \/ /\ create_attempt(t, n)
            /\ update_task_state(t, "leased")
            /\ Become(j, [j EXCEPT !.pc = "handler"])
            /\ UNCHANGED faults
         \/ /\ IF Exists(t) /\ ~HasAttempt(t, n) THEN Fault ELSE UNCHANGED faults
            /\ Become(j, [j EXCEPT !.pc = "giveBack"])
            /\ UNCHANGED <<attempts, tasks>>
  /\ UNCHANGED <<brokerVars, effects, locked>>

GiveBack(j) ==
  /\ j.pc = "giveBack"
  /\ release_lease(j.env.task, j.worker, j.fence)
  /\ Return(j, "StoreError")
  /\ UNCHANGED <<streamVars, sched, dlq, fenceSeq, storeVars, faults>>

\* The handler returns, raises or exceeds its timeout; the heartbeat task is
\* cancelled and awaited.
RunHandler(j) ==
  /\ j.pc = "handler"
  /\ \/ Become(j, [j EXCEPT !.pc = "select"])
     \/ \E error \in HandlerErrors : Become(j, [j EXCEPT !.pc = "close", !.err = error])
  /\ UNCHANGED <<brokerVars, storeVars, faults>>

\* extend_lease raised in the heartbeat task: awaiting it re-raises, execute()
\* is left without commit or release.
HeartbeatError(j) ==
  /\ j.pc = "handler"
  /\ Fault
  /\ Ends(j)
  /\ UNCHANGED <<brokerVars, storeVars>>

\* commit_effect's SELECT: no row, a row with a higher fence (the transaction
\* is rolled back), or a row that makes this commit a duplicate.
CommitSelect(j) ==
  /\ j.pc = "select"
  /\ LET key == EffectKey(j.env)
     IN  \/ /\ EffectsOf(key) = {}
            /\ Become(j, [j EXCEPT !.pc = "insert"])
            /\ UNCHANGED attempts
         \/ /\ HigherFence(key, j.fence)
            /\ Become(j, [j EXCEPT !.pc = "release", !.err = "Effect already committed"])
            /\ UNCHANGED attempts
         \/ /\ EffectsOf(key) # {} /\ ~HigherFence(key, j.fence)
            /\ close_attempt(j.env.task, j.env.attempt + 1, "succeeded")
            /\ Become(j, [j EXCEPT !.pc = "release"])
  /\ UNCHANGED <<brokerVars, tasks, effects, locked, faults>>

\* The INSERT, state SUCCEEDED and the attempt's outcome commit together; if
\* another transaction inserted the key first, all of it is rolled back.
CommitInsert(j) ==
  /\ j.pc = "insert"
  /\ \/ /\ insert_effect(EffectKey(j.env), j.env.task, j.fence)
        /\ update_task_state(j.env.task, "succeeded")
        /\ close_attempt(j.env.task, j.env.attempt + 1, "succeeded")
        /\ Become(j, [j EXCEPT !.pc = "release"])
     \/ /\ EffectsOf(EffectKey(j.env)) # {}
        /\ Become(j, [j EXCEPT !.pc = "release", !.err = "CommitError"])
        /\ UNCHANGED <<tasks, attempts, effects>>
  /\ UNCHANGED <<brokerVars, locked, faults>>

RecordFailure(j) ==
  /\ j.pc = "close"
  /\ close_attempt(j.env.task, j.env.attempt + 1,
                   IF j.err = "Effect already committed" THEN "lease_lost" ELSE "failed")
  /\ Become(j, [j EXCEPT !.pc = "release"])
  /\ UNCHANGED <<brokerVars, tasks, effects, locked, faults>>

\* The connection is lost during the commit transaction.
CommitError(j) ==
  /\ j.pc \in {"select", "insert", "close"}
  /\ Fault
  /\ Become(j, [j EXCEPT !.pc = "release", !.err = "CommitError"])
  /\ UNCHANGED <<brokerVars, storeVars>>

ReleaseLease(j) ==
  /\ j.pc = "release"
  /\ release_lease(j.env.task, j.worker, j.fence)
  /\ Return(j, j.err)
  /\ UNCHANGED <<streamVars, sched, dlq, fenceSeq, storeVars, faults>>

-----------------------------------------------------------------------------
(* WorkerLoop._process_message, after execute() *)

\* Faulty variant: the message is acknowledged before the retry is scheduled.
ScheduleRetry_ack_first(j) ==
  /\ j.pc = "schedule"
  /\ j.id \in pel
  /\ ack(j.id)
  /\ UNCHANGED <<jobs, sched, dlq, leaseVars, storeVars, faults>>

ScheduleRetry(j) ==
  /\ j.pc = "schedule"
  /\ schedule(NextAttempt(j.env))
  /\ Become(j, [j EXCEPT !.pc = "ack"])
  /\ UNCHANGED <<streamVars, dlq, leaseVars, storeVars, faults>>

DeadLetter(j) ==
  /\ j.pc = "deadLetter"
  /\ dead_letter(j.env)
  /\ Become(j, [j EXCEPT !.pc = "markDead"])
  /\ UNCHANGED <<streamVars, sched, leaseVars, storeVars, faults>>

MarkDead(j) ==
  /\ j.pc = "markDead"
  /\ update_task_state(j.env.task, "dead")
  /\ Become(j, [j EXCEPT !.pc = "ack"])
  /\ UNCHANGED <<brokerVars, attempts, effects, locked, faults>>

Ack(j) ==
  /\ j.pc = "ack"
  /\ ack(j.id)
  /\ Ends(j)
  /\ UNCHANGED <<sched, dlq, leaseVars, storeVars, faults>>

\* A call outside execute()'s try blocks raises: the job ends without an ack.
ProcessError(j) ==
  /\ j.pc \in Pc \ (Executing \cup {"record"})
  /\ Fault
  /\ Ends(j)
  /\ UNCHANGED <<brokerVars, storeVars>>

JobStep(j) ==
  \/ AcquireLease(j) \/ RecordAttempt(j) \/ GiveBack(j)
  \/ RunHandler(j) \/ HeartbeatError(j)
  \/ CommitSelect(j) \/ CommitInsert(j) \/ RecordFailure(j) \/ CommitError(j)
  \/ ReleaseLease(j)
  \/ ScheduleRetry(j) \/ DeadLetter(j) \/ MarkDead(j) \/ Ack(j) \/ ProcessError(j)

=============================================================================

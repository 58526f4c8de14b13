------------------------------ MODULE Retries ------------------------------
(***************************************************************************)
(* Why AttemptBudget holds: is_retryable is asked before an envelope is    *)
(* scheduled, and the one attempt reclaiming adds without asking is never  *)
(* written back to the stream.                                             *)
(***************************************************************************)
EXTENDS TaskQueue

\* An envelope of the stream or the ZSET: its attempts are not used up.
Fresh(e) == e.attempt = 0 \/ e.attempt < MaxAttempts[e.task]

\* An envelope in the hands of a worker: at most one attempt more.
Spent(e) == e.attempt <= 1 \/ e.attempt <= MaxAttempts[e.task]

AllFresh(msgs) == \A i \in DOMAIN msgs : Fresh(msgs[i].env)
AllSpent(msgs) == \A i \in DOMAIN msgs : Spent(msgs[i].env)

StreamFresh == (\A i \in DOMAIN log : Fresh(log[i])) /\ (\A e \in sched : Fresh(e))

HandsFresh ==
  \A w \in Workers : AllFresh(polled[w]) /\ AllFresh(claimed[w]) /\ AllSpent(adopted[w])

RetryOf(j) ==
  /\ Spent(j.env)
  /\ j.pc = "schedule" => j.env.attempt + 1 < MaxAttempts[j.env.task]

\* The inductive invariant behind AttemptBudget: _process_message schedules an
\* envelope only below the limit, so what a crash, a retry or a requeue leaves in
\* the stream is below it, and an adopted copy is at most one beyond.
RetryInv == StreamFresh /\ HandsFresh /\ \A j \in jobs : RetryOf(j)

=============================================================================

-------------------------------- MODULE Core --------------------------------
(***************************************************************************)
(* dtq/core: the records that travel between the parts of the system, the  *)
(* retry policy, and the budget of faults the environment may inject.      *)
(*                                                                         *)
(* A task is a model value.  Its payload, name, priority and timestamps    *)
(* are left out: no step of the engine depends on them.  One queue is      *)
(* modelled; streams, schedules and dead letters of different queues share *)
(* no state.                                                               *)
(***************************************************************************)
EXTENDS Integers

CONSTANTS
  Tasks,            \* task ids (uuid4)
  Keys,             \* client-chosen dedup keys
  NoKey,            \* dedup_key = None
  DedupKey,         \* the dedup_key sent with each enqueue request
  MaxAttempts,      \* the max_attempts sent with each enqueue request
  TerminalErrors,   \* RetryPolicy.terminal_errors
  RetryableErrors,  \* RetryPolicy.retryable_errors
  MaxFaults         \* bound on the number of environment faults

VARIABLE faults     \* faults injected so far

(***************************************************************************)
(* What loop.py line 172 extracts from error_repr.  A handler exception    *)
(* arrives as the head of its traceback, a timeout and a fence rejection   *)
(* as their whole message.                                                 *)
(***************************************************************************)
NoError == "none"
HandlerErrors == {"Traceback", "Task exceeded", "Effect already committed"}
ErrorType == HandlerErrors \cup {"LeaseAcquireError", "StoreError", "CommitError"}

\* TaskState, with "absent" for a task that has no row.  FAILED is never written.
TaskState == {"absent", "pending", "scheduled", "leased", "succeeded", "dead", "cancelled"}

\* Outcome of an attempt row, "open" until it is closed.  TIMEOUT is never written.
AttemptOutcome == {"open", "succeeded", "failed", "lease_lost"}

ASSUME CoreAssumption ==
  /\ NoKey \notin Keys
  /\ DedupKey \in [Tasks -> Keys \cup {NoKey}]
  /\ MaxAttempts \in [Tasks -> Nat]
  /\ TerminalErrors \subseteq ErrorType
  /\ RetryableErrors \subseteq ErrorType
  /\ MaxFaults \in Nat

(***************************************************************************)
(* The wire envelope.  gen tells apart the envelopes built for one task:   *)
(* 0 for the one create_task builds, n for the n-th DLQ requeue (they      *)
(* differ in created_at, so the JSON differs).  A requeue clears dedup_key.*)
(***************************************************************************)
TaskEnvelope == [task : Tasks, attempt : Nat, gen : Nat]

NextAttempt(e) == [e EXCEPT !.attempt = @ + 1]

dedup_key(e) == IF e.gen = 0 THEN DedupKey[e.task] ELSE NoKey

\* Faulty variant: the attempt limit is off by one.
is_retryable_off_by_one(e, error, attempt) == attempt <= MaxAttempts[e.task]

is_retryable(e, error, attempt) ==
  /\ attempt < MaxAttempts[e.task]
  /\ error \notin TerminalErrors
  /\ RetryableErrors = {} \/ error \in RetryableErrors

\* The environment injects one more fault.
Fault ==
  /\ faults < MaxFaults
  /\ faults' = faults + 1

=============================================================================

---------------------------- MODULE BrokerClient ----------------------------
(***************************************************************************)
(* What the engine asks of any adapter behind dtq/broker/base.py: messages *)
(* are leased, processed the way _process_message of loop.py does, and     *)
(* acknowledged.  A message is an envelope [task, attempt].                *)
(***************************************************************************)
EXTENDS Integers, Sequences, FiniteSets, Functions

CONSTANTS
  Tasks,
  Workers,
  MaxAttempts,   \* retry.max_attempts of each task
  Limits,        \* the values of worker_concurrency considered, by worker
  MaxFaults      \* bound on the number of faults

ASSUME ClientAssumption ==
  /\ MaxAttempts \in [Tasks -> Nat]
  /\ Limits \subseteq [Workers -> Nat]
  /\ MaxFaults \in Nat

VARIABLES
  limit,     \* worker_concurrency: messages a worker has in hand at most
  accepted,  \* tasks whose publish() has returned
  hand,      \* messages in the hands of the workers
  done,      \* tasks with an effect
  dlq,       \* envelopes in the dead-letter topic or queue
  gone,      \* envelopes the adapter took out of the broker unfinished (history)
  faults     \* faults so far

clientVars == <<limit, accepted, hand, done, dlq, gone, faults>>

First(t) == [task |-> t, attempt |-> 0]

ClientInit ==
  /\ limit \in Limits
  /\ accepted = {}
  /\ hand = {}
  /\ done = {}
  /\ dlq = {}
  /\ gone = {}
  /\ faults = 0

Fault ==
  /\ faults < MaxFaults
  /\ faults' = faults + 1

InHand(w) == {h \in hand : h.worker = w}
Permits(w) == {n \in 1..limit[w] : \A h \in InHand(w) : h.permit # n}

\* lease() hands w a message; a call for several is a run of such steps.
Take(w, id, e) ==
  /\ Permits(w) # {}
  /\ hand' = hand \cup {[worker |-> w, permit |-> CHOOSE n \in Permits(w) : TRUE,
                         id |-> id, env |-> e, pc |-> "run"]}

Processed(h) == hand' = (hand \ {h}) \cup {[h EXCEPT !.pc = "ack"]}
Drop(h) == hand' = hand \ {h}

Succeed(h) ==
  /\ h.pc = "run"
  /\ done' = done \cup {h.env.task}
  /\ Processed(h)
  /\ UNCHANGED <<limit, accepted, dlq, gone, faults>>

\* is_retryable
Retryable(e) == e.attempt + 1 < MaxAttempts[e.task]
NextAttempt(e) == [e EXCEPT !.attempt = @ + 1]

=============================================================================

------------------------------ MODULE Service ------------------------------
(***************************************************************************)
(* The engine implements QueueService: the refinement mapping.             *)
(***************************************************************************)
EXTENDS TaskQueue

\* Tasks the broker was given: no stream entry is ever deleted, and promotion
\* moves an envelope from the ZSET to the stream in one script.
Queued == {log[i].task : i \in DOMAIN log} \cup {e.task : e \in sched}

\* The effects and the dead letters, without fences and envelopes.
Commits == {[key |-> r.key, task |-> r.task] : r \in effects}
DeadLettered == {e.task : e \in dlq}

Contract == INSTANCE QueueService WITH
  state <- tasks, queued <- Queued, committed <- Commits, dead <- DeadLettered

\* Every step of the control plane, of a worker or of the environment is a step
\* of QueueService or leaves its view unchanged: whatever is retried, reclaimed,
\* requeued or crashes, an effect lands once per key and only for a task that
\* was enqueued and has a row, and a row says "dead" only after dead_letter.
ImplementsQueueService == Contract!ServiceSpec

\* A task has a row only after its request inserted it, and keeps it; an injected
\* task is one that inject-failure published.
RequestsInv ==
  \A t \in Tasks :
    /\ request[t] \in {"none", "checked"} => ~Exists(t)
    /\ request[t] \in {"ready", "delayed", "accepted"} => Exists(t)
    /\ request[t] = "injected" => t \in ChaosTasks

\* The inductive invariant behind the refinement and EnqueueIsIdempotent: a row is inserted once, the
\* dead letter precedes the update to "dead", and the states are backed.
ServiceInv ==
  /\ RequestsInv
  /\ \A j \in jobs : j.pc = "markDead" => j.env.task \in DeadLettered
  /\ StateIsBacked
  /\ SuccessIsFenced

=============================================================================

---------------------------- MODULE Expectations ----------------------------
(***************************************************************************)
(* Statements that the documents, comments and tests of the repository     *)
(* make about the engine and that the code does not keep.  Each is checked *)
(* by a run of its own, which finds it violated.                           *)
(***************************************************************************)
EXTENDS TaskQueue

\* SPEC.md: on adoption the previous attempt row is closed as lease_lost.  The
\* delivery of an entry with attempt a recorded attempt number a + 1, which is the
\* adopted envelope's attempt; _reclaim_loop closes number a.
PriorAttemptClosed ==
  \A w \in Workers : \A i \in DOMAIN adopted[w] :
    LET e == adopted[w][i].env
    IN  [task |-> e.task, attempt_no |-> e.attempt, outcome |-> "open"] \notin attempts

\* SPEC.md: a requeue re-enqueues with attempt reset.  The rows of the attempts
\* already made are kept, so recording the reset number fails.
RequeuedAttemptRecorded ==
  faults = 0 => \A j \in jobs : j.env.gen > 0 => j.pc # "giveBack"

\* app.py: an enqueue is idempotent if dedup_key is provided.  After a request that
\* died between commit and publish, its repetition is answered deduplicated and
\* the task is in no queue.
DeduplicatedTaskQueued ==
  \A t, u \in Tasks :
    /\ request[t] = "deduplicated"
    /\ Exists(u) /\ DedupKey[u] = DedupKey[t] /\ request[u] \notin {"ready", "delayed"}
    => SafeBeyond(u, 0)

=============================================================================

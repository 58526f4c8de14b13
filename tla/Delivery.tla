------------------------------ MODULE Delivery ------------------------------
(***************************************************************************)
(* Why NoTaskLost holds: its inductive strengthening.  What backs the      *)
(* acknowledgement of entry i is never entry i or an older one, so two     *)
(* jobs that acknowledge cannot each rely on the other.                    *)
(***************************************************************************)
EXTENDS TaskQueue

\* Entry id was delivered and belongs to the task of envelope e.
DeliveredFor(id, e) == id \in 1..delivered /\ log[id].task = e.task

Committed(t) == \E r \in effects : r.task = t

FromStream(msgs) == \A i \in DOMAIN msgs : DeliveredFor(msgs[i].id, msgs[i].env)

\* Whatever a worker has in hand comes from the stream.
HandsFromStream ==
  \A w \in Workers : FromStream(polled[w]) /\ FromStream(claimed[w]) /\ FromStream(adopted[w])

\* A job executes a task that has a row, fails with an error, succeeds with an
\* effect, and is about to acknowledge only what is safe elsewhere.
JobInv(j) ==
  /\ DeliveredFor(j.id, j.env)
  /\ j.pc \in Executing => Exists(j.env.task)
  /\ j.pc = "close" => j.err # NoError
  /\ j.pc = "release" /\ j.err = NoError => Committed(j.env.task)
  /\ j.pc \in {"ack", "markDead"} => SafeBeyond(j.env.task, j.id)

\* An effect is filed under its task's id or dedup_key, no two tasks share a
\* dedup_key, and only existing rows are locked.
RowsInv ==
  /\ \A r \in effects : Exists(r.task) /\ r.key \in {r.task, DedupKey[r.task]} \ {NoKey}
  /\ \A t, u \in Tasks :
       Exists(t) /\ Exists(u) /\ DedupKey[t] = DedupKey[u] /\ DedupKey[t] # NoKey => t = u
  /\ \A t \in locked : Exists(t)

\* The inductive invariant behind at-least-once delivery: an entry is acknowledged
\* only after its task is committed, scheduled, dead-lettered or queued again.
DeliveryInv ==
  /\ TypeOK
  /\ HandsFromStream
  /\ \A j \in jobs : JobInv(j)
  /\ RowsInv
  /\ NoTaskLost

=============================================================================

----------------------------- MODULE TaskWorker -----------------------------
(***************************************************************************)
(* dtq/worker/loop.py: the loops of WorkerLoop, which share one event loop *)
(* and one semaphore, and what may happen to a whole worker.               *)
(*                                                                         *)
(* Time is left out.  A lease may run out, and a pending entry may look    *)
(* idle, at any moment: it costs a fault while the worker concerned is     *)
(* alive (a stalled event loop, a SIGSTOP, a slow Redis) and nothing once  *)
(* nobody works on it any more.                                            *)
(***************************************************************************)
EXTENDS TaskExecutor

CONSTANT BatchSize   \* entries taken per poll and per reclaim (5 in the code)

ASSUME BatchAssumption == BatchSize \in Nat \ {0}

VARIABLES
  polled,   \* messages _poll_loop has read and not yet started, per worker
  claimed,  \* messages _reclaim_loop has claimed and not yet adopted
  adopted   \* the adopted message that waits for a permit

handVars == <<polled, claimed, adopted>>
workerVars == <<polled, claimed, adopted, jobs>>

Leased == [id : Nat, env : TaskEnvelope]

WorkerTypeOK ==
  /\ polled \in [Workers -> Seq(Leased)]
  /\ claimed \in [Workers -> Seq(Leased)]
  /\ adopted \in [Workers -> Seq(Leased)]
  /\ jobs \subseteq Job

WorkerInit ==
  /\ polled = [w \in Workers |-> <<>>]
  /\ claimed = [w \in Workers |-> <<>>]
  /\ adopted = [w \in Workers |-> <<>>]
  /\ jobs = {}

\* Some live worker still has the entry in hand.
InHand(id) ==
  \/ \E j \in jobs : j.id = id
  \/ \E w \in Workers : \E q \in {polled[w], claimed[w], adopted[w]} :
       \E i \in DOMAIN q : q[i].id = id

-----------------------------------------------------------------------------
(* _poll_loop, _reclaim_loop and _scheduler_loop *)

\* The COUNT of XREADGROUP is min(permits, BatchSize); n entries are returned.
PollSize(w, n) ==
  LET bounds == {Cardinality(FreeSlots(w)), BatchSize, Len(log) - delivered}
  IN  /\ n \in bounds
      /\ \A b \in bounds : n <= b

Poll(w) ==
  /\ polled[w] = <<>>
  /\ \E n \in 1..BatchSize :
       /\ PollSize(w, n)
       /\ lease(n)
       /\ \/ /\ polled' = [polled EXCEPT ![w] =
                 [i \in 1..n |-> [id |-> delivered + i, env |-> log[delivered + i]]]]
             /\ UNCHANGED faults
          \/ Fault /\ UNCHANGED polled      \* the reply is lost
  /\ UNCHANGED <<sched, dlq, leaseVars, storeVars, claimed, adopted, jobs>>

StartPolled(w) ==
  /\ polled[w] # <<>>
  /\ NewJob(w, Head(polled[w]))
  /\ polled' = [polled EXCEPT ![w] = Tail(@)]
  /\ UNCHANGED <<brokerVars, storeVars, claimed, adopted, faults>>

Reclaim(w) ==
  /\ claimed[w] = <<>> /\ adopted[w] = <<>>
  /\ \E ids \in reclaim(BatchSize) :
       /\ claimed' = [claimed EXCEPT ![w] =
            [i \in DOMAIN ids |-> [id |-> ids[i], env |-> log[ids[i]]]]]
       /\ IF \E i \in DOMAIN ids : InHand(ids[i]) THEN Fault ELSE UNCHANGED faults
  /\ UNCHANGED <<brokerVars, storeVars, polled, adopted, jobs>>

\* The transaction closes attempt number envelope.attempt; if it fails it is
\* rolled back and the message is adopted all the same.
Adopt(w) ==
  /\ claimed[w] # <<>> /\ adopted[w] = <<>>
  /\ LET m == Head(claimed[w])
     IN  /\ \/ /\ close_attempt(m.env.task, m.env.attempt, "lease_lost")
               /\ UNCHANGED faults
            \/ Fault /\ UNCHANGED attempts
         /\ adopted' = [adopted EXCEPT ![w] = <<[m EXCEPT !.env = NextAttempt(@)]>>]
  /\ claimed' = [claimed EXCEPT ![w] = Tail(@)]
  /\ UNCHANGED <<brokerVars, tasks, effects, locked, polled, jobs>>

StartAdopted(w) ==
  /\ adopted[w] # <<>>
  /\ NewJob(w, Head(adopted[w]))
  /\ adopted' = [adopted EXCEPT ![w] = <<>>]
  /\ UNCHANGED <<brokerVars, storeVars, polled, claimed, faults>>

\* An exception that leaves the for loop abandons the rest of the batch.
ReclaimError(w) ==
  /\ claimed[w] # <<>> /\ adopted[w] = <<>>
  /\ Fault
  /\ claimed' = [claimed EXCEPT ![w] = <<>>]
  /\ UNCHANGED <<brokerVars, storeVars, polled, adopted, jobs>>

\* _scheduler_loop of whichever worker ticks.
Promote ==
  /\ promote_scheduled
  /\ UNCHANGED <<dlq, leaseVars, storeVars, workerVars, faults>>

\* SIGKILL, or SIGTERM: start() returns once the loops end and asyncio.run
\* cancels the jobs.  What was in hand stays in the PEL; the worker comes back.
\* (The crash of an idle worker changes nothing.)
Crash(w) ==
  /\ \/ polled[w] # <<>> \/ claimed[w] # <<>> \/ adopted[w] # <<>>
     \/ \E j \in jobs : j.worker = w
  /\ Fault
  /\ polled' = [polled EXCEPT ![w] = <<>>]
  /\ claimed' = [claimed EXCEPT ![w] = <<>>]
  /\ adopted' = [adopted EXCEPT ![w] = <<>>]
  /\ jobs' = {j \in jobs : j.worker # w}
  /\ UNCHANGED <<brokerVars, storeVars>>

\* The heartbeat extends the lease while its job lives, so an expiry then is a
\* fault; a lease left behind by a dead job simply runs out.
LeaseExpires(l) ==
  /\ expire(l)
  /\ IF \E j \in jobs : j.worker = l.worker /\ j.fence = l.fence
       THEN Fault ELSE UNCHANGED faults
  /\ UNCHANGED <<streamVars, sched, dlq, fenceSeq, storeVars, workerVars>>

WorkerNext ==
  \/ \E j \in jobs : JobStep(j) /\ UNCHANGED handVars
  \/ \E w \in Workers :
       \/ Poll(w) \/ StartPolled(w)
       \/ Reclaim(w) \/ Adopt(w) \/ StartAdopted(w) \/ ReclaimError(w)
       \/ Crash(w)
  \/ Promote
  \/ \E l \in leases : LeaseExpires(l)

=============================================================================

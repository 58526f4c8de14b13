----------------------------- MODULE Exclusion -----------------------------
(***************************************************************************)
(* Why executions exclude each other: what the lease, the fence and the    *)
(* attempt row of a job say about every other job.                         *)
(***************************************************************************)
EXTENDS TaskQueue

\* The lease acquire_lease gave to the job.
LeaseOf(j) == [task |-> j.env.task, worker |-> j.worker, fence |-> j.fence]

\* Fences come from the counter.
FencesIssued == \A j \in jobs : j.pc \in Holding => j.fence <= fenceSeq

\* SET NX: a task has one lease at most.
OneLeasePerTask == \A l, m \in leases : l.task = m.task => l = m

\* Until a fault, the lease of a job is there from acquire_lease to release_lease.
LeaseKept == faults = 0 => \A j \in jobs : j.pc \in Holding => LeaseOf(j) \in leases

\* A job that runs its handler or commits has its attempt row.
AttemptRecorded ==
  \A j \in jobs : j.pc \in Executing => HasAttempt(j.env.task, j.env.attempt + 1)

\* The inductive invariant behind the exclusion properties: fences, leases and
\* attempt rows identify the job they were given to.
ExclusionInv ==
  /\ TypeOK
  /\ FencesIssued /\ FencesUnique
  /\ OneLeasePerTask /\ LeaseKept
  /\ AttemptRecorded /\ AttemptRunsOnce
  /\ OneEffectPerKey

=============================================================================

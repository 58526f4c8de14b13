----------------------------- MODULE LeaseClock -----------------------------
(***************************************************************************)
(* The times of dtq/worker/executor.py and loop.py for one delivered       *)
(* message: the lease key lives for lease_ms and is renewed every third of *)
(* that, the handler may take four fifths of it, and an entry that has     *)
(* been pending for reclaim_min_idle_ms is given to somebody else, renewed *)
(* or not.  Time is counted in ticks; left is what the current await may   *)
(* still take.  The handler is assumed to yield to the event loop.         *)
(***************************************************************************)
EXTENDS Integers

CONSTANTS
  Lease,       \* lease_ms
  Beat,        \* lease_ms / 3
  Timeout,     \* lease_ms * 0.8
  MinIdle,     \* reclaim_min_idle_ms
  RedisMax,    \* bound on a call of Redis, scheduling of the coroutine included
  StoreMax,    \* bound on a transaction of Postgres
  PermitMax    \* bound on the wait for a permit of the semaphore

ASSUME LeaseTimes ==
  /\ Lease \in Nat /\ Beat \in Nat /\ Timeout \in Nat /\ MinIdle \in Nat
  /\ RedisMax \in Nat /\ StoreMax \in Nat /\ PermitMax \in Nat
  /\ 3 * Beat <= Lease
  /\ 5 * Timeout <= 4 * Lease

\* Calls are short enough: between two renewals, and from the last one to the
\* release; and from the delivery to the ack on the longest path.
ASSUME TimelyCalls ==
  /\ Beat + 3 * RedisMax + 2 * StoreMax < Lease
  /\ PermitMax + 4 * RedisMax + 3 * StoreMax + Timeout < MinIdle

VARIABLES
  pc,      \* where _process_message is
  left,    \* ticks the current await may still take
  ttl,     \* PX left of lease:<task_id> (0: no such key)
  beat,    \* where _heartbeat_loop is, and the ticks its await may still take
  idle     \* ticks since the entry was delivered

clockVars == <<pc, left, ttl, beat, idle>>

Off == [at |-> "off", left |-> 0]
Sleep == [at |-> "sleep", left |-> Beat]

\* From the SET NX to the DEL of the lease.
Owning == {"acquired", "record", "handler", "commit", "giveBack", "release"}

ClockInit ==
  /\ pc = "permit"
  /\ left = PermitMax
  /\ ttl = 0
  /\ beat = Off
  /\ idle = 0

\* The coroutine awaits something that takes at most n ticks.
Await(p, n) == pc' = p /\ left' = n

GetPermit ==
  /\ pc = "permit"
  /\ Await("acquire", RedisMax)
  /\ UNCHANGED <<ttl, beat, idle>>

\* acquire_lease.lua runs, and its reply arrives later.
SetLease ==
  /\ pc = "acquire"
  /\ Await("acquired", left)
  /\ ttl' = Lease
  /\ UNCHANGED <<beat, idle>>

Acquired ==
  /\ pc = "acquired"
  /\ Await("record", StoreMax)
  /\ UNCHANGED <<ttl, beat, idle>>

\* Faulty variant: the handler may take as long as the lease lives.
Recorded_untimed ==
  /\ pc = "record"
  /\ Await("handler", Lease)
  /\ beat' = Sleep
  /\ UNCHANGED <<ttl, idle>>

\* The attempt is recorded and the heartbeat started.
Recorded ==
  /\ pc = "record"
  /\ Await("handler", Timeout)
  /\ beat' = Sleep
  /\ UNCHANGED <<ttl, idle>>

RecordFails ==
  /\ pc = "record"
  /\ Await("giveBack", RedisMax)
  /\ UNCHANGED <<ttl, beat, idle>>

BeatWakes ==
  /\ beat.at = "sleep" /\ beat.left = 0
  /\ beat' = [at |-> "call", left |-> RedisMax]
  /\ UNCHANGED <<pc, left, ttl, idle>>

\* Faulty variant: the lease is extended by the heartbeat interval.
BeatExtends_short ==
  /\ beat.at = "call"
  /\ IF ttl > 0 THEN ttl' = Beat /\ beat' = [beat EXCEPT !.at = "reply"]
                ELSE UNCHANGED ttl /\ beat' = Off
  /\ UNCHANGED <<pc, left, idle>>

\* extend_lease.lua: the key is there, or renewal fails and the loop is left.
BeatExtends ==
  /\ beat.at = "call"
  /\ IF ttl > 0 THEN ttl' = Lease /\ beat' = [beat EXCEPT !.at = "reply"]
                ELSE UNCHANGED ttl /\ beat' = Off
  /\ UNCHANGED <<pc, left, idle>>

BeatReply ==
  /\ beat.at = "reply"
  /\ beat' = Sleep
  /\ UNCHANGED <<pc, left, ttl, idle>>

\* The handler returns, raises or is timed out; the heartbeat is cancelled,
\* wherever it is.
HandlerEnds ==
  /\ pc = "handler"
  /\ Await("commit", StoreMax)
  /\ beat' = Off
  /\ UNCHANGED <<ttl, idle>>

Committed ==
  /\ pc = "commit"
  /\ Await("release", RedisMax)
  /\ UNCHANGED <<ttl, beat, idle>>

\* release_lease.lua runs, and its reply arrives later.
DelLease ==
  /\ pc \in {"release", "giveBack"}
  /\ Await(IF pc = "release" THEN "released" ELSE "returned", left)
  /\ ttl' = 0
  /\ UNCHANGED <<beat, idle>>

\* execute() has returned: on success the entry is acknowledged; on failure the
\* retry is scheduled or the task dead-lettered and marked first.
Acks ==
  /\ pc \in {"released", "schedule", "markDead"}
  /\ Await("ack", RedisMax)
  /\ UNCHANGED <<ttl, beat, idle>>

Fails ==
  /\ pc \in {"released", "returned"}
  /\ Await("schedule", RedisMax) \/ Await("deadLetter", RedisMax)
  /\ UNCHANGED <<ttl, beat, idle>>

DeadLettered ==
  /\ pc = "deadLetter"
  /\ Await("markDead", StoreMax)
  /\ UNCHANGED <<ttl, beat, idle>>

Acked ==
  /\ pc = "ack"
  /\ Await("done", 0)
  /\ UNCHANGED <<ttl, beat, idle>>

ClockStep ==
  \/ GetPermit \/ SetLease \/ Acquired \/ Recorded \/ RecordFails
  \/ BeatWakes \/ BeatExtends \/ BeatReply
  \/ HandlerEnds \/ Committed \/ DelLease \/ Acks \/ Fails \/ DeadLettered \/ Acked

\* One tick passes: no await outlasts its bound.
ClockTick ==
  IF pc = "done" THEN UNCHANGED clockVars
  ELSE /\ left > 0
       /\ beat.at = "off" \/ beat.left > 0
       /\ left' = left - 1
       /\ beat' = IF beat.at = "off" THEN beat ELSE [beat EXCEPT !.left = @ - 1]
       /\ ttl' = IF ttl = 0 THEN 0 ELSE ttl - 1
       /\ idle' = idle + 1
       /\ UNCHANGED pc

-----------------------------------------------------------------------------

\* A worker owns its lease from the script that sets it to the one that deletes
\* it: renewed every third of its life, the key outlasts the handler, whose time
\* is limited to less than that, and the commit, for which it is not renewed.
LeaseOutlivesJob == pc \in Owning => ttl > 0

\* No entry is reclaimed from a worker that is still at it: heartbeats do not
\* reset the idle time, only the handler's limit keeps it below min_idle.
EntryOutlivesJob == pc # "done" => idle < MinIdle

=============================================================================

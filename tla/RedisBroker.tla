---------------------------- MODULE RedisBroker ----------------------------
(***************************************************************************)
(* dtq/broker/redis_broker.py and its Lua scripts: one stream with its     *)
(* consumer group, the ZSET of delayed envelopes, the dead-letter stream,  *)
(* the fencing counter and the lease keys.  Redis runs a command or a      *)
(* script atomically, so each operation below is one conjunct of a step.   *)
(*                                                                         *)
(* No entry of a stream is ever deleted, so the stream is the sequence of  *)
(* everything published and an entry's id is its position.                 *)
(***************************************************************************)
EXTENDS Core, Sequences, FiniteSets

CONSTANTS
  Workers,        \* worker ids
  PromoteBatch    \* entries promoted per scheduler tick (100 in the code)

ASSUME BrokerAssumption == PromoteBatch \in Nat \ {0}

VARIABLES
  log,        \* STREAM q:<queue>, every envelope ever published
  delivered,  \* last-delivered-id of the consumer group
  pel,        \* ids delivered and not acknowledged (Pending Entries List)
  sched,      \* ZSET sched:<queue>, a set since its members are the envelopes
  dlq,        \* STREAM dlq:<queue>
  fenceSeq,   \* STRING fence:seq
  leases      \* the lease:<task_id> keys with their value <worker>:<fence>

streamVars == <<log, delivered, pel>>
leaseVars == <<fenceSeq, leases>>
brokerVars == <<log, delivered, pel, sched, dlq, fenceSeq, leases>>

Lease == [task : Tasks, worker : Workers, fence : Nat]

BrokerTypeOK ==
  /\ log \in Seq(TaskEnvelope)
  /\ delivered \in 0..Len(log)
  /\ pel \subseteq 1..delivered
  /\ sched \subseteq TaskEnvelope
  /\ dlq \subseteq TaskEnvelope
  /\ fenceSeq \in Nat
  /\ leases \subseteq Lease

BrokerInit ==
  /\ log = <<>>
  /\ delivered = 0
  /\ pel = {}
  /\ sched = {}
  /\ dlq = {}
  /\ fenceSeq = 0
  /\ leases = {}

\* XADD
publish(e) ==
  /\ log' = Append(log, e)
  /\ UNCHANGED <<delivered, pel>>

\* Faulty variant: the group's last-delivered-id skips an entry.
lease_skip(n) ==
  /\ delivered' = delivered + n + 1
  /\ pel' = pel \cup (delivered + 1)..(delivered + n)
  /\ UNCHANGED log

\* XREADGROUP ">" COUNT n: the next n entries enter the PEL.
lease(n) ==
  /\ delivered' = delivered + n
  /\ pel' = pel \cup (delivered + 1)..(delivered + n)
  /\ UNCHANGED log

\* XACK
ack(id) ==
  /\ pel' = pel \ {id}
  /\ UNCHANGED <<log, delivered>>

\* Faulty variant: the scan starts after the oldest entry.
reclaim_not_first(n) ==
  {ids \in UNION {[1..m -> pel \ {1}] : m \in 1..n} :
     \A i, k \in DOMAIN ids : i < k => ids[i] < ids[k]}

\* XAUTOCLAIM from 0-0: the ids of up to n pending entries, oldest first.  It
\* changes owner and idle time only; which entries are idle long enough is open.
reclaim(n) ==
  {ids \in UNION {[1..m -> pel] : m \in 1..n} :
     \A i, k \in DOMAIN ids : i < k => ids[i] < ids[k]}

\* ZADD: scheduling an envelope that is already scheduled adds nothing.
schedule(e) == sched' = sched \cup {e}

\* Faulty variant: the dead letter is dropped.
dead_letter_drop(e) == UNCHANGED dlq

\* XADD dlq:<queue>
dead_letter(e) == dlq' = dlq \cup {e}

\* Faulty variant: the entry is removed from the ZSET and its XADD is lost.
promote_scheduled_drop ==
  \E e \in sched :
    /\ sched' = sched \ {e}
    /\ UNCHANGED streamVars

\* promote_scheduled.lua: the due entries move to the stream in one script.
\* Which entries are due, and in which order, is open.
promote_scheduled ==
  \E n \in 1..PromoteBatch : \E due \in [1..n -> sched] :
    /\ \A i, k \in 1..n : i # k => due[i] # due[k]
    /\ log' = log \o due
    /\ sched' = sched \ {due[i] : i \in 1..n}
    /\ UNCHANGED <<delivered, pel>>

\* Faulty variant: SET without NX.
Held_never(t) == FALSE

Held(t) == \E l \in leases : l.task = t

\* Faulty variant: the increment is undone although the lease was taken.
acquire_lease_reuse(t, w) ==
  /\ fenceSeq' = fenceSeq
  /\ leases' = leases \cup {[task |-> t, worker |-> w, fence |-> fenceSeq + 1]}

\* acquire_lease.lua when SET NX succeeds; otherwise INCR is undone by DECR and
\* nothing changes.
acquire_lease(t, w) ==
  /\ fenceSeq' = fenceSeq + 1
  /\ leases' = leases \cup {[task |-> t, worker |-> w, fence |-> fenceSeq + 1]}

\* Faulty variant: DEL without the comparison.
release_lease_any(t, w, fence) == leases' = {l \in leases : l.task # t}

\* release_lease.lua: compare-and-delete.
release_lease(t, w, fence) ==
  leases' = leases \ {[task |-> t, worker |-> w, fence |-> fence]}

\* The PX time of a lease key runs out.
expire(l) == leases' = leases \ {l}

=============================================================================

---------------------------- MODULE KafkaBroker ----------------------------
(***************************************************************************)
(* dtq/broker/kafka_broker.py.  Of a partition only the records from the   *)
(* committed offset on are kept, and a position counts from there: nothing *)
(* before the committed offset is ever read again.  A consumer group gives *)
(* each partition to one member; a rebalance sets it back to the committed *)
(* offset.                                                                 *)
(***************************************************************************)
EXTENDS BrokerClient

CONSTANTS
  Partitions,   \* partitions of the queue's topic (4 in the code)
  PartitionOf   \* the partitioner: a task's partition, by its key

ASSUME PartitionAssumption == PartitionOf \in [Tasks -> Partitions]

VARIABLES
  topic,          \* dtq-<queue>
  owner,          \* which worker's consumer has the partition
  position,       \* records its consumer has fetched
  delay,          \* dtq-<queue>-delay, a single partition
  delayOwner,     \* which worker's _delay_consumers has it
  delayPosition,
  sweep           \* what promote_scheduled of each worker still has to send

mainVars == <<topic, owner, position>>
delayVars == <<delay, delayOwner, delayPosition, sweep>>
kafkaVars == <<mainVars, delayVars>>

Nobody == "nobody"
Resting == [busy |-> FALSE, todo |-> <<>>]

KafkaInit ==
  /\ topic = [p \in Partitions |-> <<>>]
  /\ owner = [p \in Partitions |-> Nobody]
  /\ position = [p \in Partitions |-> 0]
  /\ delay = <<>>
  /\ delayOwner = Nobody
  /\ delayPosition = 0
  /\ sweep = [w \in Workers |-> Resting]

KafkaQueued == UNION {Range(topic[p]) : p \in Partitions} \cup Range(delay)

Send(e) == topic' = [topic EXCEPT ![PartitionOf[e.task]] = Append(@, e)]

KafkaPublish(t) ==
  /\ t \notin accepted
  /\ accepted' = accepted \cup {t}
  /\ Send(First(t))
  /\ UNCHANGED <<limit, hand, done, dlq, gone, faults, owner, position, delayVars>>

\* getmany: the next record of a partition the worker's consumer has.
KafkaLease(w) ==
  /\ \E p \in Partitions :
       /\ owner[p] = w /\ position[p] < Len(topic[p])
       /\ Take(w, p, topic[p][position[p] + 1])
       /\ position' = [position EXCEPT ![p] = @ + 1]
  /\ UNCHANGED <<limit, accepted, done, dlq, gone, faults, topic, owner, delayVars>>

\* What commit() covers: everything the worker's consumer has fetched.
Fetched(w, p) == IF owner[p] = w THEN SubSeq(topic[p], 1, position[p]) ELSE <<>>

\* commit() without offsets: msg_ids are not looked at.
KafkaAck(h) ==
  /\ h.pc = "ack"
  /\ Drop(h)
  /\ gone' = gone \cup (UNION {Range(Fetched(h.worker, p)) : p \in Partitions} \ {h.env})
  /\ topic' = [p \in Partitions |->
                 SubSeq(topic[p], Len(Fetched(h.worker, p)) + 1, Len(topic[p]))]
  /\ position' = [p \in Partitions |-> IF owner[p] = h.worker THEN 0 ELSE position[p]]
  /\ UNCHANGED <<limit, accepted, done, dlq, faults, owner, delayVars>>

\* schedule: a record of the delay topic.
KafkaSchedule(h) ==
  /\ h.pc = "run" /\ Retryable(h.env)
  /\ delay' = Append(delay, NextAttempt(h.env))
  /\ Processed(h)
  /\ UNCHANGED <<limit, accepted, done, dlq, gone, faults, mainVars, delayOwner, delayPosition,
                 sweep>>

KafkaDeadLetter(h) ==
  /\ h.pc = "run" /\ ~Retryable(h.env)
  /\ dlq' = dlq \cup {h.env}
  /\ Processed(h)
  /\ UNCHANGED <<limit, accepted, done, gone, faults, kafkaVars>>

\* nack does nothing; neither does a job that raises.
KafkaNack(h) ==
  /\ Fault
  /\ Drop(h)
  /\ UNCHANGED <<limit, accepted, done, dlq, gone, kafkaVars>>

-----------------------------------------------------------------------------
(* promote_scheduled *)

\* Faulty variant: the offset is committed before the records are sent on.
SweepFetch_commit(w) ==
  /\ delayOwner = w /\ ~sweep[w].busy
  /\ delayPosition < Len(delay)
  /\ sweep' = [sweep EXCEPT ![w] =
                 [busy |-> TRUE, todo |-> SubSeq(delay, delayPosition + 1, Len(delay))]]
  /\ delay' = <<>>
  /\ delayPosition' = 0
  /\ UNCHANGED <<clientVars, mainVars, delayOwner>>

\* getmany on the delay topic.
SweepFetch(w) ==
  /\ delayOwner = w /\ ~sweep[w].busy
  /\ delayPosition < Len(delay)
  /\ sweep' = [sweep EXCEPT ![w] =
                 [busy |-> TRUE, todo |-> SubSeq(delay, delayPosition + 1, Len(delay))]]
  /\ delayPosition' = Len(delay)
  /\ UNCHANGED <<clientVars, mainVars, delay, delayOwner>>

\* One turn of the loop: a due record goes to the topic, another one back to the
\* delay topic.  An exception is caught and the next record is looked at.
SweepSend(w) ==
  /\ sweep[w].todo # <<>>
  /\ LET e == Head(sweep[w].todo)
     IN  \/ Send(e) /\ UNCHANGED <<delay, gone, faults>>
         \/ delay' = Append(delay, e) /\ UNCHANGED <<topic, gone, faults>>
         \/ Fault /\ gone' = gone \cup {e} /\ UNCHANGED <<topic, delay>>
  /\ sweep' = [sweep EXCEPT ![w].todo = Tail(@)]
  /\ UNCHANGED <<limit, accepted, hand, done, dlq, owner, position, delayOwner, delayPosition>>

\* commit(), which raises if the partition has gone to another consumer.
SweepCommit(w) ==
  /\ sweep[w].busy /\ sweep[w].todo = <<>>
  /\ sweep' = [sweep EXCEPT ![w] = Resting]
  /\ IF delayOwner = w
       THEN /\ delay' = SubSeq(delay, delayPosition + 1, Len(delay))
            /\ delayPosition' = 0
       ELSE UNCHANGED <<delay, delayPosition>>
  /\ UNCHANGED <<clientVars, mainVars, delayOwner>>

-----------------------------------------------------------------------------
(* The consumer groups *)

\* Members join, leave or miss their session timeout; enable_auto_commit is off.
Rebalance ==
  /\ owner' \in [Partitions -> Workers]
  /\ position' = [p \in Partitions |-> 0]
  /\ IF Nobody \in Range(owner) THEN UNCHANGED faults ELSE Fault
  /\ UNCHANGED <<limit, accepted, hand, done, dlq, gone, topic, delayVars>>

RebalanceDelay ==
  /\ delayOwner' \in Workers
  /\ delayPosition' = 0
  /\ IF delayOwner = Nobody THEN UNCHANGED faults ELSE Fault
  /\ UNCHANGED <<limit, accepted, hand, done, dlq, gone, mainVars, delay, sweep>>

\* The worker process dies and is started again.
KafkaCrash(w) ==
  /\ Fault
  /\ hand' = hand \ InHand(w)
  /\ owner' = [p \in Partitions |-> IF owner[p] = w THEN Nobody ELSE owner[p]]
  /\ delayOwner' = IF delayOwner = w THEN Nobody ELSE delayOwner
  /\ sweep' = [sweep EXCEPT ![w] = Resting]
  /\ UNCHANGED <<limit, accepted, done, dlq, gone, topic, position, delay, delayPosition>>

KafkaNext ==
  \/ \E t \in Tasks : KafkaPublish(t)
  \/ \E w \in Workers :
       KafkaLease(w) \/ SweepFetch(w) \/ SweepSend(w) \/ SweepCommit(w) \/ KafkaCrash(w)
  \/ \E h \in hand :
       \/ Succeed(h) /\ UNCHANGED kafkaVars
       \/ KafkaSchedule(h) \/ KafkaDeadLetter(h) \/ KafkaAck(h) \/ KafkaNack(h)
  \/ Rebalance \/ RebalanceDelay

=============================================================================

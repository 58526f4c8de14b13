-------------------------- MODULE RabbitMQBroker --------------------------
(***************************************************************************)
(* dtq/broker/rabbitmq_broker.py.  A delivery tag counts the deliveries of *)
(* a channel; when connect_robust opens a new one the tags start again and *)
(* RabbitMQ requeues what was not acknowledged, but the adapter keeps its  *)
(* buffer.                                                                 *)
(***************************************************************************)
EXTENDS BrokerClient, SequencesExt

CONSTANT Prefetch   \* set_qos(prefetch_count), 10 in the code

ASSUME PrefetchAssumption == Prefetch \in Nat \ {0}

VARIABLES
  ready,     \* queue dtq.<queue>
  unacked,   \* deliveries that RabbitMQ waits for, [worker, tag, env]
  tags,      \* delivery tags used on each worker's channel
  buffer,    \* _prefetch_buffers of each worker
  waiting,   \* queue dtq.<queue>.delay
  peeked     \* what get_dlq_messages has taken from the DLQ and not put back

rabbitVars == <<ready, unacked, tags, buffer, waiting, peeked>>

RabbitInit ==
  /\ ready = <<>>
  /\ unacked = {}
  /\ tags = [w \in Workers |-> 0]
  /\ buffer = [w \in Workers |-> <<>>]
  /\ waiting = <<>>
  /\ peeked = {}

RabbitQueued == Range(ready) \cup {u.env : u \in unacked} \cup Range(waiting)

RabbitPublish(t) ==
  /\ t \notin accepted
  /\ accepted' = accepted \cup {t}
  /\ ready' = Append(ready, First(t))
  /\ UNCHANGED <<limit, hand, done, dlq, gone, faults, unacked, tags, buffer, waiting, peeked>>

Unacked(w) == {u \in unacked : u.worker = w}

\* Faulty variant: consume(no_ack=True).
OnMessage_no_ack(w) ==
  /\ ready # <<>> /\ Cardinality(Unacked(w)) < Prefetch
  /\ ready' = Tail(ready)
  /\ tags' = [tags EXCEPT ![w] = @ + 1]
  /\ buffer' = [buffer EXCEPT ![w] = Append(@, [tag |-> tags[w] + 1, env |-> Head(ready)])]
  /\ UNCHANGED <<clientVars, unacked, waiting, peeked>>

\* RabbitMQ pushes a message and _on_message puts it into the buffer.
OnMessage(w) ==
  /\ ready # <<>> /\ Cardinality(Unacked(w)) < Prefetch
  /\ ready' = Tail(ready)
  /\ tags' = [tags EXCEPT ![w] = @ + 1]
  /\ unacked' = unacked \cup {[worker |-> w, tag |-> tags[w] + 1, env |-> Head(ready)]}
  /\ buffer' = [buffer EXCEPT ![w] = Append(@, [tag |-> tags[w] + 1, env |-> Head(ready)])]
  /\ UNCHANGED <<clientVars, waiting, peeked>>

\* lease() drains the buffer.
RabbitLease(w) ==
  /\ buffer[w] # <<>>
  /\ Take(w, Head(buffer[w]).tag, Head(buffer[w]).env)
  /\ buffer' = [buffer EXCEPT ![w] = Tail(@)]
  /\ UNCHANGED <<limit, accepted, done, dlq, gone, faults, ready, unacked, tags, waiting, peeked>>

\* The channel of w is closed: its deliveries are requeued, oldest first.
Requeued(w) ==
  [k \in 1..Cardinality(Unacked(w)) |->
     (CHOOSE u \in Unacked(w) : Cardinality({v \in Unacked(w) : v.tag <= u.tag}) = k).env]

ChannelCloses(w) ==
  /\ ready' = Requeued(w) \o ready
  /\ unacked' = unacked \ Unacked(w)
  /\ tags' = [tags EXCEPT ![w] = 0]

Tagged(h) == {u \in Unacked(h.worker) : u.tag = h.id}

\* basic_ack(tag): RabbitMQ removes what the tag denotes on this channel, and
\* closes the channel if it denotes nothing; such a consequence of a fault is
\* bounded like one more fault.  An exception is swallowed.
RabbitAck(h) ==
  /\ h.pc = "ack"
  /\ Drop(h)
  /\ \/ /\ Tagged(h) # {}
        /\ unacked' = unacked \ Tagged(h)
        /\ gone' = gone \cup ({u.env : u \in Tagged(h)} \ {h.env})
        /\ UNCHANGED <<ready, tags, faults>>
     \/ /\ Tagged(h) = {}
        /\ faults <= MaxFaults /\ faults' = faults + 1
        /\ ChannelCloses(h.worker)
        /\ UNCHANGED gone
     \/ Fault /\ UNCHANGED <<ready, unacked, tags, gone>>
  /\ UNCHANGED <<limit, accepted, done, dlq, buffer, waiting, peeked>>

\* basic_nack(tag, requeue=True), which nothing calls yet.
RabbitNack(h) ==
  /\ Fault
  /\ Drop(h)
  /\ IF Tagged(h) = {} THEN ChannelCloses(h.worker)
     ELSE /\ unacked' = unacked \ Tagged(h)
          /\ ready' = <<(CHOOSE u \in Tagged(h) : TRUE).env>> \o ready
          /\ UNCHANGED tags
  /\ UNCHANGED <<limit, accepted, done, dlq, gone, buffer, waiting, peeked>>

\* A job raises: nothing is acknowledged.
RabbitAbandon(h) ==
  /\ Fault
  /\ Drop(h)
  /\ UNCHANGED <<limit, accepted, done, dlq, gone, rabbitVars>>

\* schedule: the message waits in the delay queue for its TTL.
RabbitSchedule(h) ==
  /\ h.pc = "run" /\ Retryable(h.env)
  /\ waiting' = Append(waiting, NextAttempt(h.env))
  /\ Processed(h)
  /\ UNCHANGED <<limit, accepted, done, dlq, gone, faults, ready, unacked, tags, buffer, peeked>>

\* A TTL is looked at when the message is at the head; x-dead-letter-exchange
\* routes it to the main queue.
Expire ==
  /\ waiting # <<>>
  /\ ready' = Append(ready, Head(waiting))
  /\ waiting' = Tail(waiting)
  /\ UNCHANGED <<clientVars, unacked, tags, buffer, peeked>>

RabbitDeadLetter(h) ==
  /\ h.pc = "run" /\ ~Retryable(h.env)
  /\ dlq' = dlq \cup {h.env}
  /\ Processed(h)
  /\ UNCHANGED <<limit, accepted, done, gone, faults, rabbitVars>>

\* get_dlq_messages takes a message from the DLQ,
PeekGet ==
  /\ peeked = {}
  /\ \E e \in dlq :
       /\ peeked' = {e}
       /\ dlq' = dlq \ {e}
  /\ UNCHANGED <<limit, accepted, hand, done, gone, faults, ready, unacked, tags, buffer, waiting>>

\* and puts it back: nack(requeue=True), or the end of its channel.
PeekNack ==
  /\ peeked # {}
  /\ dlq' = dlq \cup peeked
  /\ peeked' = {}
  /\ UNCHANGED <<limit, accepted, hand, done, gone, faults, ready, unacked, tags, buffer, waiting>>

\* The connection breaks and connect_robust restores channel and consumer.
Reconnect(w) ==
  /\ Fault
  /\ ChannelCloses(w)
  /\ UNCHANGED <<limit, accepted, hand, done, dlq, gone, buffer, waiting, peeked>>

\* The worker process dies and is started again.
RabbitCrash(w) ==
  /\ Fault
  /\ ChannelCloses(w)
  /\ hand' = hand \ InHand(w)
  /\ buffer' = [buffer EXCEPT ![w] = <<>>]
  /\ UNCHANGED <<limit, accepted, done, dlq, gone, waiting, peeked>>

RabbitNext ==
  \/ \E t \in Tasks : RabbitPublish(t)
  \/ \E w \in Workers : OnMessage(w) \/ RabbitLease(w) \/ Reconnect(w) \/ RabbitCrash(w)
  \/ \E h \in hand :
       \/ Succeed(h) /\ UNCHANGED rabbitVars
       \/ RabbitSchedule(h) \/ RabbitDeadLetter(h) \/ RabbitAck(h) \/ RabbitNack(h)
       \/ RabbitAbandon(h)
  \/ Expire \/ PeekGet \/ PeekNack

=============================================================================

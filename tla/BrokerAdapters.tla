--------------------------- MODULE BrokerAdapters ---------------------------
(***************************************************************************)
(* The two adapters under the engine's use of them; create_broker of       *)
(* dtq/broker/factory.py picks one from the configuration.                 *)
(***************************************************************************)
EXTENDS KafkaBroker, RabbitMQBroker

CONSTANT Backends   \* values of broker_backend considered

VARIABLE backend    \* settings.broker_backend

vars == <<clientVars, kafkaVars, rabbitVars, backend>>

create_broker(b) == backend = b /\ ClientInit /\ KafkaInit /\ RabbitInit

Init == \E b \in Backends : create_broker(b)

Next ==
  /\ \/ backend = "kafka" /\ KafkaNext /\ UNCHANGED rabbitVars
     \/ backend = "rabbitmq" /\ RabbitNext /\ UNCHANGED kafkaVars
  /\ UNCHANGED backend

Spec == Init /\ [][Next]_vars

-----------------------------------------------------------------------------

Queued == IF backend = "kafka" THEN KafkaQueued ELSE RabbitQueued

TaskOf(E) == {e.task : e \in E}

\* An accepted task has its effect, is dead-lettered or still has a message in
\* the broker, unless the adapter let an unfinished message go: with the ack of
\* another one (Kafka commits all it fetched, RabbitMQ takes a tag of an earlier
\* channel at its word) or in promote_scheduled's except clause.  Rebalances,
\* reconnections, crashes, retries and DLQ inspection lose nothing.
NoMessageLost ==
  accepted \subseteq done \cup TaskOf(Queued \cup dlq \cup peeked \cup gone)

\* Without faults a message in hand is kept by the broker: by RabbitMQ whatever
\* else the worker has in hand, by Kafka if the worker has one at a time.
InFlightKept ==
  faults = 0 =>
    \A h \in hand : backend = "rabbitmq" \/ limit[h.worker] = 1 => h.env \in Queued

\* base.py: "The broker considers them in-flight until ack() is called."
InFlightUntilAck == faults = 0 => \A h \in hand : h.env \in Queued

=============================================================================

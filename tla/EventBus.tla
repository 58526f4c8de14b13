------------------------------ MODULE EventBus ------------------------------
(***************************************************************************)
(* dtq/control/events.py and GET /v1/events.  An event is its number in    *)
(* the order of publish_event calls.  The queue of a client that does not  *)
(* keep up is taken out of _subscribers; the client is not told and waits  *)
(* on what is left in it.                                                  *)
(***************************************************************************)
EXTENDS Integers, Sequences

CONSTANTS
  Clients,     \* connections to GET /v1/events
  QueueSize,   \* maxsize of a subscriber's queue (1000 in the code)
  MaxEvents    \* bound on the number of events

ASSUME EventAssumption == QueueSize \in Nat \ {0} /\ MaxEvents \in Nat

VARIABLES
  published,   \* number of events so far
  subscribed,  \* clients whose queue is in _subscribers
  inbox,       \* the queue of each client that iterates over subscribe()
  since,       \* events published before it subscribed (Away: it does not iterate)
  seen         \* last event yielded to it, at first the last one before it subscribed

eventVars == <<published, subscribed, inbox, since, seen>>

Away == -1
Iterating(c) == since[c] # Away

EventInit ==
  /\ published = 0
  /\ subscribed = {}
  /\ inbox = [c \in Clients |-> <<>>]
  /\ since = [c \in Clients |-> Away]
  /\ seen = [c \in Clients |-> 0]

Full(c) == Len(inbox[c]) = QueueSize

\* Faulty variant: the event is dropped, not the subscriber.
publish_event_skip ==
  /\ published < MaxEvents
  /\ published' = published + 1
  /\ inbox' = [c \in Clients |-> IF c \in subscribed /\ ~Full(c)
                                   THEN Append(inbox[c], published + 1) ELSE inbox[c]]
  /\ UNCHANGED <<subscribed, since, seen>>

\* put_nowait into every queue; those that are full are removed afterwards.
publish_event ==
  /\ published < MaxEvents
  /\ published' = published + 1
  /\ inbox' = [c \in Clients |-> IF c \in subscribed /\ ~Full(c)
                                   THEN Append(inbox[c], published + 1) ELSE inbox[c]]
  /\ subscribed' = {c \in subscribed : ~Full(c)}
  /\ UNCHANGED <<since, seen>>

subscribe(c) ==
  /\ ~Iterating(c)
  /\ inbox' = [inbox EXCEPT ![c] = <<>>]
  /\ subscribed' = subscribed \cup {c}
  /\ since' = [since EXCEPT ![c] = published]
  /\ seen' = [seen EXCEPT ![c] = published]
  /\ UNCHANGED published

\* q.get() returns; the client is still connected and the event is sent.
Yield(c) ==
  /\ Iterating(c) /\ inbox[c] # <<>>
  /\ seen' = [seen EXCEPT ![c] = Head(inbox[c])]
  /\ inbox' = [inbox EXCEPT ![c] = Tail(@)]
  /\ UNCHANGED <<published, subscribed, since>>

\* The client is gone, which generate() finds out at the next event or by being
\* cancelled: the finally clause discards the queue.
Leave(c) ==
  /\ Iterating(c)
  /\ inbox' = [inbox EXCEPT ![c] = <<>>]
  /\ subscribed' = subscribed \ {c}
  /\ since' = [since EXCEPT ![c] = Away]
  /\ seen' = [seen EXCEPT ![c] = 0]
  /\ UNCHANGED published

EventNext ==
  \/ publish_event
  \/ \E c \in Clients : subscribe(c) \/ Yield(c) \/ Leave(c)

-----------------------------------------------------------------------------

\* A client sees the events since it subscribed without a gap: what it has seen
\* and what waits for it are consecutive, up to the last event published as long
\* as it is subscribed.  One that falls behind loses the rest, never the middle.
StreamHasNoGap ==
  \A c \in Clients : Iterating(c) =>
    /\ since[c] <= seen[c]
    /\ \A k \in DOMAIN inbox[c] : inbox[c][k] = seen[c] + k
    /\ c \in subscribed => seen[c] + Len(inbox[c]) = published

=============================================================================

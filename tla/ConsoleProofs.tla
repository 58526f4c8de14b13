---------------------------- MODULE ConsoleProofs ----------------------------
(***************************************************************************)
(* Proofs about the event bus and the worker sessions, for any number of   *)
(* clients, streams, sessions, events and commands and any queue size.     *)
(***************************************************************************)
EXTENDS Console, TLAPS

-----------------------------------------------------------------------------
(* Sequences as queues *)

\* Where Append puts things.
LEMMA AppendFacts ==
  ASSUME NEW S, NEW q \in Seq(S), NEW x \in S
  PROVE  /\ Append(q, x) \in Seq(S)
         /\ Len(q) \in Nat /\ Len(Append(q, x)) = Len(q) + 1
         /\ DOMAIN q = 1..Len(q) /\ DOMAIN Append(q, x) = 1..(Len(q) + 1)
         /\ \A k \in 1..Len(q) : Append(q, x)[k] = q[k]
         /\ Append(q, x)[Len(q) + 1] = x
  OBVIOUS

\* Queue.put_nowait adds one item.
LEMMA RangeAppend ==
  ASSUME NEW S, NEW q \in Seq(S), NEW x \in S
  PROVE  /\ Append(q, x) \in Seq(S)
         /\ Range(Append(q, x)) = Range(q) \cup {x}
         /\ IsInjective(q) /\ x \notin Range(q) => IsInjective(Append(q, x))
<1>1. Range(Append(q, x)) = Range(q) \cup {x}
  BY AppendFacts DEF Range
<1>2. IsInjective(q) /\ x \notin Range(q) => IsInjective(Append(q, x))
  BY AppendFacts DEF IsInjective, Range
<1> QED
  BY <1>1, <1>2

\* Queue.get takes the first item, which is not there a second time.
LEMMA RangeTail ==
  ASSUME NEW S, NEW q \in Seq(S), q # <<>>
  PROVE  /\ Tail(q) \in Seq(S) /\ Head(q) \in S
         /\ Range(q) = Range(Tail(q)) \cup {Head(q)}
         /\ IsInjective(q) => IsInjective(Tail(q)) /\ Head(q) \notin Range(Tail(q))
<1>1. /\ Tail(q) \in Seq(S) /\ Head(q) \in S
      /\ Len(q) \in Nat \ {0} /\ Len(Tail(q)) = Len(q) - 1
      /\ Head(q) = q[1]
      /\ \A k \in 1..(Len(q) - 1) : Tail(q)[k] = q[k + 1]
  OBVIOUS
<1>2. DOMAIN Tail(q) = 1..(Len(q) - 1) /\ DOMAIN q = 1..Len(q)
  BY <1>1
<1>3. ASSUME NEW k \in 2..Len(q) PROVE k - 1 \in 1..(Len(q) - 1) /\ q[k] = Tail(q)[k - 1]
  BY <1>1
<1>4. Range(q) = Range(Tail(q)) \cup {Head(q)}
  <2>1. ASSUME NEW k \in 1..Len(q) PROVE q[k] \in Range(Tail(q)) \cup {Head(q)}
    <3>1. CASE k = 1
      BY <1>1, <3>1
    <3>2. CASE k # 1
      <4>1. k \in 2..Len(q)
        BY <3>2
      <4> QED
        BY <1>2, <1>3, <4>1 DEF Range
    <3> QED
      BY <3>1, <3>2
  <2>2. ASSUME NEW k \in 1..(Len(q) - 1) PROVE Tail(q)[k] \in Range(q)
    BY <1>1, <1>2 DEF Range
  <2>3. Head(q) \in Range(q)
    BY <1>1, <1>2 DEF Range
  <2> QED
    BY <1>2, <2>1, <2>2, <2>3 DEF Range
<1>5. ASSUME IsInjective(q) PROVE IsInjective(Tail(q)) /\ Head(q) \notin Range(Tail(q))
  <2>1. \A a, b \in 1..Len(q) : q[a] = q[b] => a = b
    BY <1>2, <1>5 DEF IsInjective
  <2>2. IsInjective(Tail(q))
    <3>1. ASSUME NEW a \in 1..(Len(q) - 1), NEW b \in 1..(Len(q) - 1), Tail(q)[a] = Tail(q)[b]
          PROVE  a = b
      <4>1. a + 1 \in 1..Len(q) /\ b + 1 \in 1..Len(q) /\ q[a + 1] = q[b + 1]
        BY <1>1, <3>1
      <4>2. a + 1 = b + 1
        BY <2>1, <4>1
      <4> QED
        BY <4>2
    <3> QED
      BY <1>2, <3>1 DEF IsInjective
  <2>3. ASSUME NEW k \in 1..(Len(q) - 1), Tail(q)[k] = Head(q) PROVE FALSE
    <3>1. k + 1 \in 1..Len(q) /\ 1 \in 1..Len(q) /\ q[k + 1] = q[1]
      BY <1>1, <2>3
    <3>2. k + 1 = 1
      BY <2>1, <3>1
    <3> QED
      BY <3>2
  <2> QED
    BY <1>2, <2>2, <2>3 DEF Range
<1> QED
  BY <1>1, <1>4, <1>5

-----------------------------------------------------------------------------
(* The event bus *)

\* The events that wait in q follow event n.
Consecutive(q, n) == \A k \in DOMAIN q : q[k] = n + k

\* The next event continues a queue that is up to date.
LEMMA AppendConsecutive ==
  ASSUME NEW q \in Seq(Nat), NEW n \in Nat, Consecutive(q, n)
  PROVE  /\ Consecutive(Append(q, n + Len(q) + 1), n)
         /\ Len(Append(q, n + Len(q) + 1)) = Len(q) + 1
<1>1. n + Len(q) + 1 \in Nat
  OBVIOUS
<1> QED
  BY <1>1, AppendFacts DEF Consecutive

\* The event that is yielded is the next one.
LEMMA TailConsecutive ==
  ASSUME NEW q \in Seq(Nat), NEW n \in Nat, Consecutive(q, n), q # <<>>
  PROVE  /\ Head(q) = n + 1
         /\ Consecutive(Tail(q), n + 1)
         /\ Len(q) \in Nat /\ Len(Tail(q)) = Len(q) - 1
<1>1. /\ Len(q) \in Nat \ {0} /\ Len(Tail(q)) = Len(q) - 1
      /\ DOMAIN q = 1..Len(q) /\ DOMAIN Tail(q) = 1..(Len(q) - 1)
      /\ Head(q) = q[1]
      /\ \A k \in 1..(Len(q) - 1) : Tail(q)[k] = q[k + 1]
  OBVIOUS
<1>2. ASSUME NEW k \in 1..(Len(q) - 1) PROVE Tail(q)[k] = (n + 1) + k
  <2>1. k + 1 \in 1..Len(q) /\ k \in Int
    BY <1>1
  <2>2. q[k + 1] = n + (k + 1)
    BY <1>1, <2>1 DEF Consecutive
  <2> QED
    BY <1>1, <2>1, <2>2
<1>3. Head(q) = n + 1
  <2>1. 1 \in DOMAIN q
    BY <1>1
  <2> QED
    BY <1>1, <2>1 DEF Consecutive
<1>4. Consecutive(Tail(q), n + 1)
  BY <1>1, <1>2 DEF Consecutive
<1> QED
  BY <1>1, <1>3, <1>4

\* Every step of the event bus keeps the stream of every client without a gap.
LEMMA EventsNext ==
  ASSUME EventTypeOK, StreamHasNoGap, EventNext \/ UNCHANGED eventVars
  PROVE  EventTypeOK' /\ StreamHasNoGap'
<1> DEFINE Gapless(c) ==
      /\ since[c] <= seen[c]
      /\ Consecutive(inbox[c], seen[c])
      /\ c \in subscribed => seen[c] + Len(inbox[c]) = published
<1>1. CASE publish_event
  <2>1. /\ published' = published + 1 /\ published \in Nat
        /\ subscribed' = {c \in subscribed : ~Full(c)}
        /\ since' = since /\ seen' = seen
    BY <1>1 DEF publish_event, EventTypeOK
  <2>2. ASSUME NEW c \in Clients
        PROVE  /\ inbox'[c] = IF c \in subscribed /\ ~Full(c)
                                THEN Append(inbox[c], published + 1) ELSE inbox[c]
               /\ inbox[c] \in Seq(Nat) /\ inbox'[c] \in Seq(Nat)
    BY <1>1, <2>1 DEF publish_event, EventTypeOK
  <2>3. inbox' \in [Clients -> Seq(Nat)]
    BY <1>1, <2>2 DEF publish_event
  <2>4. EventTypeOK'
    BY <2>1, <2>3 DEF EventTypeOK, Iterating
  <2>5. ASSUME NEW c \in Clients, Iterating(c)' PROVE Gapless(c)'
    <3>1. Gapless(c) /\ seen[c] \in Nat /\ since[c] \in Nat
      BY <2>1, <2>5 DEF StreamHasNoGap, Consecutive, Iterating, EventTypeOK
    <3>2. CASE c \in subscribed /\ ~Full(c)
      <4>1. /\ inbox'[c] = Append(inbox[c], seen[c] + Len(inbox[c]) + 1)
            /\ inbox[c] \in Seq(Nat)
        BY <2>2, <3>1, <3>2
      <4>2. /\ Consecutive(inbox'[c], seen[c])
            /\ Len(inbox'[c]) = Len(inbox[c]) + 1
        BY <3>1, <4>1, AppendConsecutive
      <4>3. Len(inbox[c]) \in Nat /\ seen[c] + Len(inbox[c]) = published
        BY <3>1, <3>2, <4>1
      <4>4. seen[c] + (Len(inbox[c]) + 1) = published + 1
        BY <3>1, <4>3
      <4> QED
        BY <2>1, <3>1, <4>2, <4>4
    <3>3. CASE ~(c \in subscribed /\ ~Full(c))
      BY <2>1, <2>2, <3>1, <3>3
    <3> QED
      BY <3>2, <3>3
  <2> QED
    BY <2>4, <2>5 DEF StreamHasNoGap, Consecutive
<1>2. ASSUME NEW d \in Clients, subscribe(d) PROVE EventTypeOK' /\ StreamHasNoGap'
  <2>1. EventTypeOK'
    BY <1>2 DEF subscribe, EventTypeOK, Iterating, Away
  <2>2. ASSUME NEW c \in Clients, Iterating(c)' PROVE Gapless(c)'
    BY <1>2, <2>2 DEF subscribe, EventTypeOK, StreamHasNoGap, Iterating, Consecutive
  <2> QED
    BY <2>1, <2>2 DEF StreamHasNoGap, Consecutive
<1>3. ASSUME NEW d \in Clients, Yield(d) PROVE EventTypeOK' /\ StreamHasNoGap'
  <2>1. inbox[d] \in Seq(Nat) /\ inbox[d] # <<>>
    BY <1>3 DEF Yield, EventTypeOK
  <2>2. Tail(inbox[d]) \in Seq(Nat) /\ Head(inbox[d]) \in Nat
    BY <2>1
  <2>3. EventTypeOK'
    BY <1>3, <2>2 DEF Yield, EventTypeOK, Iterating
  <2>4. ASSUME NEW c \in Clients, Iterating(c)' PROVE Gapless(c)'
    <3>1. Gapless(c) /\ UNCHANGED <<published, subscribed, since>>
      BY <1>3, <2>4 DEF Yield, StreamHasNoGap, Consecutive, Iterating
    <3>2. CASE c = d
      <4>1. seen'[c] = Head(inbox[c]) /\ inbox'[c] = Tail(inbox[c])
        BY <1>3, <3>2 DEF Yield, EventTypeOK
      <4>2. seen[c] \in Nat /\ since[c] \in Nat
        BY <2>4, <3>1 DEF EventTypeOK, Iterating
      <4>3. /\ Head(inbox[c]) = seen[c] + 1
            /\ Consecutive(Tail(inbox[c]), seen[c] + 1)
            /\ Len(inbox[c]) \in Nat /\ Len(Tail(inbox[c])) = Len(inbox[c]) - 1
        BY <2>1, <3>1, <3>2, <4>2, TailConsecutive
      <4>4. since[c] <= seen[c] + 1
        BY <3>1, <4>2
      <4>5. c \in subscribed => (seen[c] + 1) + (Len(inbox[c]) - 1) = published
        BY <3>1, <4>2, <4>3
      <4> QED
        BY <3>1, <4>1, <4>3, <4>4, <4>5
    <3>3. CASE c # d
      BY <1>3, <3>1, <3>3 DEF Yield, EventTypeOK
    <3> QED
      BY <3>2, <3>3
  <2> QED
    BY <2>3, <2>4 DEF StreamHasNoGap, Consecutive
<1>4. ASSUME NEW d \in Clients, Leave(d) PROVE EventTypeOK' /\ StreamHasNoGap'
  <2>1. EventTypeOK'
    BY <1>4 DEF Leave, EventTypeOK, Iterating
  <2>2. ASSUME NEW c \in Clients, Iterating(c)' PROVE Gapless(c)'
    BY <1>4, <2>2 DEF Leave, EventTypeOK, StreamHasNoGap, Iterating, Consecutive
  <2> QED
    BY <2>1, <2>2 DEF StreamHasNoGap, Consecutive
<1>5. CASE UNCHANGED eventVars
  BY <1>5 DEF eventVars, EventTypeOK, StreamHasNoGap, Iterating
<1> QED
  BY <1>1, <1>2, <1>3, <1>4, <1>5 DEF EventNext

-----------------------------------------------------------------------------
(* The worker sessions *)

SessionType == [alive : BOOLEAN, queue : Seq(Nat), served : BOOLEAN]

QueuesInv ==
  /\ \A i \in DOMAIN sessions : IsInjective(sessions[i].queue)
  /\ CommandsConserved

\* Steps that add session objects with empty queues, or only mark objects.
LEMMA QueuesKept ==
  ASSUME QueuesInv, UNCHANGED <<accepted, delivered>>,
         DOMAIN sessions \subseteq DOMAIN sessions',
         \A i \in DOMAIN sessions' :
           sessions'[i].queue = IF i \in DOMAIN sessions THEN sessions[i].queue ELSE <<>>
  PROVE  QueuesInv'
<1>1. IsInjective(<<>>) /\ Range(<<>>) = {}
  BY DEF IsInjective, Range
<1>2. \A i \in DOMAIN sessions : Waiting(i)' = Waiting(i)
  BY DEF Waiting
<1>3. \A i \in DOMAIN sessions' : i \notin DOMAIN sessions => Waiting(i)' = {}
  BY <1>1 DEF Waiting
<1>4. (UNION {Waiting(i) : i \in DOMAIN sessions})' = UNION {Waiting(i) : i \in DOMAIN sessions}
  BY <1>2, <1>3
<1>5. CommandsConserved'
  BY <1>2, <1>3, <1>4 DEF QueuesInv, CommandsConserved
<1> QED
  BY <1>1, <1>5 DEF QueuesInv

\* A step that changes one session object in place.
LEMMA SessionChanges ==
  ASSUME ControlTypeOK, NEW j \in DOMAIN sessions, NEW r \in SessionType,
         sessions' = [sessions EXCEPT ![j] = r]
  PROVE  /\ sessions' \in Seq(SessionType) /\ Len(sessions') = Len(sessions)
         /\ DOMAIN sessions' = DOMAIN sessions
         /\ sessions'[j] = r
         /\ \A i \in DOMAIN sessions : i # j => sessions'[i] = sessions[i]
<1>1. sessions \in Seq(SessionType)
  BY DEF ControlTypeOK, SessionType
<1> QED
  BY <1>1

\* A new object is put behind the others.
LEMMA SessionAdded ==
  ASSUME ControlTypeOK, NEW r \in SessionType, sessions' = Append(sessions, r)
  PROVE  /\ sessions' \in Seq(SessionType) /\ Len(sessions') = Len(sessions) + 1
         /\ DOMAIN sessions = 1..Len(sessions) /\ DOMAIN sessions' = 1..(Len(sessions) + 1)
         /\ Len(sessions) \in Nat
         /\ sessions'[Len(sessions) + 1] = r
         /\ \A i \in DOMAIN sessions : sessions'[i] = sessions[i]
<1>1. sessions \in Seq(SessionType)
  BY DEF ControlTypeOK, SessionType
<1> QED
  BY <1>1, AppendFacts

\* The objects and what is known of their fields.
LEMMA SessionFields ==
  ASSUME ControlTypeOK, NEW i \in DOMAIN sessions
  PROVE  /\ sessions[i] \in SessionType /\ sessions[i].queue \in Seq(Nat)
         /\ DOMAIN sessions = 1..Len(sessions) /\ Len(sessions) \in Nat
<1>1. sessions \in Seq(SessionType)
  BY DEF ControlTypeOK, SessionType
<1>2. sessions[i] \in SessionType /\ DOMAIN sessions = 1..Len(sessions) /\ Len(sessions) \in Nat
  BY <1>1
<1> QED
  BY <1>2 DEF SessionType

ControlInv == ControlTypeOK /\ QueuesInv /\ NoCommandToTheGone

\* Register replaces the session by a fresh one.
LEMMA RegisterKeeps ==
  ASSUME ControlInv, Register
  PROVE  ControlInv'
<1>1. WorkerSession \in SessionType /\ WorkerSession.queue = <<>> /\ ~WorkerSession.served
  BY DEF WorkerSession, SessionType
<1>2. /\ sessions' \in Seq(SessionType) /\ Len(sessions') = Len(sessions) + 1
      /\ DOMAIN sessions = 1..Len(sessions) /\ DOMAIN sessions' = 1..(Len(sessions) + 1)
      /\ Len(sessions) \in Nat
      /\ sessions'[Len(sessions) + 1] = WorkerSession
      /\ \A i \in DOMAIN sessions : sessions'[i] = sessions[i]
  BY <1>1, SessionAdded DEF Register, ControlInv
<1>3. ControlTypeOK'
  BY <1>2 DEF ControlInv, ControlTypeOK, Register, Closed, SessionType
<1>4. QueuesInv'
  <2>1. \A i \in DOMAIN sessions' :
          sessions'[i].queue = IF i \in DOMAIN sessions THEN sessions[i].queue ELSE <<>>
    BY <1>1, <1>2
  <2> QED
    BY <1>2, <2>1, QueuesKept DEF ControlInv, Register
<1>5. NoCommandToTheGone'
  BY <1>1, <1>2 DEF NoCommandToTheGone, Register
<1> QED
  BY <1>3, <1>4, <1>5 DEF ControlInv

\* The first event of a stream binds it to the registered session or a new one.
LEMMA FirstEventKeeps ==
  ASSUME ControlInv, NEW s \in Streams, FirstEvent(s)
  PROVE  ControlInv'
<1>1. CASE current = 0
  <2>1. PICK r \in SessionType : r.queue = <<>> /\ sessions' = Append(sessions, r)
    <3>1. WorkerSession \in SessionType /\ WorkerSession.queue = <<>>
      BY DEF WorkerSession, SessionType
    <3>2. /\ [WorkerSession EXCEPT !.served = TRUE] \in SessionType
          /\ [WorkerSession EXCEPT !.served = TRUE].queue = <<>>
      BY <3>1 DEF SessionType
    <3>3. sessions' = Append(sessions, [WorkerSession EXCEPT !.served = TRUE])
      BY <1>1 DEF FirstEvent
    <3> QED
      BY <3>2, <3>3
  <2>2. /\ sessions' \in Seq(SessionType) /\ Len(sessions') = Len(sessions) + 1
        /\ DOMAIN sessions = 1..Len(sessions) /\ DOMAIN sessions' = 1..(Len(sessions) + 1)
        /\ Len(sessions) \in Nat
        /\ sessions'[Len(sessions) + 1] = r
        /\ \A i \in DOMAIN sessions : sessions'[i] = sessions[i]
    BY <2>1, SessionAdded DEF ControlInv
  <2>3. /\ current' = Len(sessions) + 1 /\ stream' = [stream EXCEPT ![s] = Len(sessions) + 1]
        /\ UNCHANGED <<commands, accepted, delivered>>
    BY <1>1 DEF FirstEvent
  <2>4. ControlTypeOK'
    BY <2>2, <2>3 DEF ControlInv, ControlTypeOK, Closed, SessionType
  <2>5. \A i \in DOMAIN sessions' :
          sessions'[i].queue = IF i \in DOMAIN sessions THEN sessions[i].queue ELSE <<>>
    BY <2>1, <2>2
  <2>6. QueuesInv'
    BY <2>2, <2>3, <2>5, QueuesKept DEF ControlInv
  <2>7. stream'[s] = current'
    BY <2>3 DEF ControlInv, ControlTypeOK
  <2> QED
    BY <2>4, <2>6, <2>7 DEF ControlInv, NoCommandToTheGone
<1>2. CASE current # 0
  <2>1. current \in DOMAIN sessions
    BY <1>2 DEF ControlInv, ControlTypeOK
  <2>2. PICK r \in SessionType :
          /\ r.queue = sessions[current].queue
          /\ sessions' = [sessions EXCEPT ![current] = r]
    <3>1. sessions[current] \in SessionType
      BY <2>1, SessionFields DEF ControlInv
    <3>2. sessions' = [sessions EXCEPT ![current] = [sessions[current] EXCEPT !.served = TRUE]]
      BY <1>2 DEF FirstEvent
    <3>3. /\ [sessions[current] EXCEPT !.served = TRUE] \in SessionType
          /\ [sessions[current] EXCEPT !.served = TRUE].queue = sessions[current].queue
      BY <3>1 DEF SessionType
    <3> QED
      BY <3>2, <3>3
  <2>4. /\ sessions' \in Seq(SessionType) /\ Len(sessions') = Len(sessions)
        /\ DOMAIN sessions' = DOMAIN sessions
        /\ sessions'[current] = r
        /\ \A i \in DOMAIN sessions : i # current => sessions'[i] = sessions[i]
    BY <2>1, <2>2, SessionChanges DEF ControlInv
  <2>5. /\ current' = current /\ stream' = [stream EXCEPT ![s] = current]
        /\ UNCHANGED <<commands, accepted, delivered>>
    BY <1>2 DEF FirstEvent
  <2>6. ControlTypeOK'
    BY <2>4, <2>5 DEF ControlInv, ControlTypeOK, Closed, SessionType
  <2>7. \A i \in DOMAIN sessions' :
          sessions'[i].queue = IF i \in DOMAIN sessions THEN sessions[i].queue ELSE <<>>
    BY <2>2, <2>4
  <2>8. QueuesInv'
    BY <2>4, <2>5, <2>7, QueuesKept DEF ControlInv
  <2>9. stream'[s] = current'
    BY <2>5 DEF ControlInv, ControlTypeOK
  <2> QED
    BY <2>6, <2>8, <2>9 DEF ControlInv, NoCommandToTheGone
<1> QED
  BY <1>1, <1>2

\* send_command gives a new number to the registered session if it is alive.
LEMMA SendKeeps ==
  ASSUME ControlInv, send_command
  PROVE  ControlInv'
<1>1. CASE current # 0 /\ sessions[current].alive
  <2> DEFINE x == commands + 1
  <2>1. current \in DOMAIN sessions /\ x \in Nat /\ x \notin accepted
    BY <1>1 DEF ControlInv, ControlTypeOK
  <2>2. /\ accepted' = accepted \cup {x} /\ commands' = x
        /\ UNCHANGED <<current, stream, delivered>>
        /\ sessions' = [sessions EXCEPT ![current] =
                          [sessions[current] EXCEPT !.queue = Append(sessions[current].queue, x)]]
    BY <1>1 DEF send_command
  <2>3. sessions[current] \in SessionType /\ sessions[current].queue \in Seq(Nat)
    BY <2>1, SessionFields DEF ControlInv
  <2>4. Append(sessions[current].queue, x) \in Seq(Nat)
    BY <2>1, <2>3
  <2> HIDE DEF x
  <2>5. PICK r \in SessionType :
          /\ r.queue = Append(sessions[current].queue, x)
          /\ r.alive = sessions[current].alive /\ r.served = sessions[current].served
          /\ sessions' = [sessions EXCEPT ![current] = r]
    <3>1. [sessions[current] EXCEPT !.queue = Append(sessions[current].queue, x)] \in SessionType
      BY <2>3, <2>4 DEF SessionType
    <3> QED
      BY <2>2, <2>3, <3>1 DEF SessionType
  <2>6. /\ sessions' \in Seq(SessionType) /\ Len(sessions') = Len(sessions)
        /\ DOMAIN sessions' = DOMAIN sessions
        /\ sessions'[current] = r
        /\ \A i \in DOMAIN sessions : i # current => sessions'[i] = sessions[i]
    BY <2>1, <2>5, SessionChanges DEF ControlInv
  <2>7. ControlTypeOK'
    <3>1. accepted' \subseteq 1..commands' /\ commands' \in Nat
      BY <2>1, <2>2 DEF ControlInv, ControlTypeOK, x
    <3> QED
      BY <2>2, <2>6, <3>1 DEF ControlInv, ControlTypeOK, SessionType
  <2>8. PICK j \in DOMAIN sessions : j = current
    BY <2>1
  <2>9. \A i \in DOMAIN sessions : x \notin Waiting(i) /\ x \notin Range(delivered)
    BY <2>1 DEF ControlInv, QueuesInv, CommandsConserved
  <2>10. /\ Range(r.queue) = Range(sessions[j].queue) \cup {x}
         /\ IsInjective(r.queue)
    BY <2>1, <2>3, <2>5, <2>8, <2>9, RangeAppend DEF Waiting, ControlInv, QueuesInv
  <2>11. /\ Waiting(j)' = Waiting(j) \cup {x}
         /\ \A i \in DOMAIN sessions : i # j => Waiting(i)' = Waiting(i)
    BY <2>6, <2>8, <2>10 DEF Waiting
  <2>12. (UNION {Waiting(i) : i \in DOMAIN sessions})'
           = (UNION {Waiting(i) : i \in DOMAIN sessions}) \cup {x}
    BY <2>6, <2>8, <2>11
  <2>13. CommandsConserved'
    BY <2>2, <2>6, <2>8, <2>9, <2>11, <2>12 DEF ControlInv, QueuesInv, CommandsConserved
  <2>14. \A i \in DOMAIN sessions' : IsInjective(sessions'[i].queue)
    BY <2>6, <2>10 DEF ControlInv, QueuesInv
  <2>15. NoCommandToTheGone'
    BY <2>2, <2>5, <2>6 DEF ControlInv, NoCommandToTheGone
  <2> QED
    BY <2>7, <2>13, <2>14, <2>15 DEF ControlInv, QueuesInv
<1>2. CASE ~(current # 0 /\ sessions[current].alive)
  <2>1. UNCHANGED <<sessions, accepted, current, stream, delivered>> /\ commands' = commands + 1
    BY <1>2 DEF send_command
  <2>2. ControlTypeOK'
    BY <2>1 DEF ControlInv, ControlTypeOK
  <2>3. QueuesInv' /\ NoCommandToTheGone'
    BY <2>1 DEF ControlInv, QueuesInv, CommandsConserved, Waiting, NoCommandToTheGone
  <2> QED
    BY <2>2, <2>3 DEF ControlInv
<1> QED
  BY <1>1, <1>2

\* The loop of Session moves a command from a queue to the worker.
LEMMA YieldKeeps ==
  ASSUME ControlInv, NEW s \in Streams, YieldCommand(s)
  PROVE  ControlInv'
<1>1. PICK j \in DOMAIN sessions : j = stream[s] /\ sessions[j].queue # <<>>
  BY DEF YieldCommand, Bound
<1>2. PICK x : x = Head(sessions[j].queue)
  OBVIOUS
<1>3. /\ delivered' = Append(delivered, x)
      /\ sessions' = [sessions EXCEPT ![j] = [sessions[j] EXCEPT !.queue = Tail(sessions[j].queue)]]
      /\ UNCHANGED <<current, stream, commands, accepted>>
  BY <1>1, <1>2 DEF YieldCommand
<1>4. sessions[j] \in SessionType /\ sessions[j].queue \in Seq(Nat)
  BY SessionFields DEF ControlInv
<1>5. /\ Tail(sessions[j].queue) \in Seq(Nat) /\ x \in Nat
      /\ Range(sessions[j].queue) = Range(Tail(sessions[j].queue)) \cup {x}
      /\ IsInjective(Tail(sessions[j].queue)) /\ x \notin Range(Tail(sessions[j].queue))
  BY <1>1, <1>2, <1>4, RangeTail DEF ControlInv, QueuesInv
<1>6. PICK r \in SessionType :
        /\ r.queue = Tail(sessions[j].queue)
        /\ r.alive = sessions[j].alive /\ r.served = sessions[j].served
        /\ sessions' = [sessions EXCEPT ![j] = r]
  <2>1. [sessions[j] EXCEPT !.queue = Tail(sessions[j].queue)] \in SessionType
    BY <1>4, <1>5 DEF SessionType
  <2> QED
    BY <1>3, <1>4, <2>1 DEF SessionType
<1>7. /\ sessions' \in Seq(SessionType) /\ Len(sessions') = Len(sessions)
      /\ DOMAIN sessions' = DOMAIN sessions
      /\ sessions'[j] = r
      /\ \A i \in DOMAIN sessions : i # j => sessions'[i] = sessions[i]
  BY <1>6, SessionChanges DEF ControlInv
<1>8. x \in Waiting(j) /\ x \notin Range(delivered)
  BY <1>5 DEF Waiting, ControlInv, QueuesInv, CommandsConserved
<1>9. /\ delivered' \in Seq(Nat) /\ Range(delivered') = Range(delivered) \cup {x}
      /\ IsInjective(delivered')
  BY <1>3, <1>5, <1>8, RangeAppend DEF ControlInv, ControlTypeOK, QueuesInv, CommandsConserved
<1>10. ControlTypeOK'
  BY <1>3, <1>7, <1>9 DEF ControlInv, ControlTypeOK, SessionType
<1>11. /\ Waiting(j)' = Waiting(j) \ {x}
       /\ \A i \in DOMAIN sessions : i # j => Waiting(i)' = Waiting(i) /\ x \notin Waiting(i)
  <2>1. Waiting(j)' = Range(Tail(sessions[j].queue)) /\ Waiting(j) = Range(sessions[j].queue)
    BY <1>6, <1>7 DEF Waiting
  <2>2. Waiting(j)' = Waiting(j) \ {x}
    BY <1>5, <2>1
  <2>3. ASSUME NEW i \in DOMAIN sessions, i # j
        PROVE  Waiting(i)' = Waiting(i) /\ x \notin Waiting(i)
    <3>1. Waiting(i)' = Waiting(i)
      BY <1>7, <2>3 DEF Waiting
    <3>2. Waiting(i) \cap Waiting(j) = {}
      BY <2>3 DEF ControlInv, QueuesInv, CommandsConserved
    <3> QED
      BY <1>8, <3>1, <3>2
  <2> QED
    BY <2>2, <2>3
<1>12. (UNION {Waiting(i) : i \in DOMAIN sessions})'
         = (UNION {Waiting(i) : i \in DOMAIN sessions}) \ {x}
  BY <1>7, <1>11
<1>13. CommandsConserved'
  <2>1. accepted' = Range(delivered') \cup (UNION {Waiting(i) : i \in DOMAIN sessions})'
    BY <1>3, <1>8, <1>9, <1>12 DEF ControlInv, QueuesInv, CommandsConserved
  <2>2. \A i \in DOMAIN sessions : Waiting(i)' \cap Range(delivered') = {}
    BY <1>9, <1>11 DEF ControlInv, QueuesInv, CommandsConserved
  <2>3. \A i, k \in DOMAIN sessions : i # k => Waiting(i)' \cap Waiting(k)' = {}
    BY <1>11 DEF ControlInv, QueuesInv, CommandsConserved
  <2> QED
    BY <1>7, <1>9, <2>1, <2>2, <2>3 DEF CommandsConserved
<1>14. \A i \in DOMAIN sessions' : IsInjective(sessions'[i].queue)
  BY <1>5, <1>6, <1>7 DEF ControlInv, QueuesInv
<1>15. NoCommandToTheGone'
  <2>1. current # 0 => current \in DOMAIN sessions
    BY SessionFields DEF ControlInv, ControlTypeOK
  <2> QED
    BY <1>3, <1>6, <1>7, <2>1 DEF ControlInv, NoCommandToTheGone
<1> QED
  BY <1>10, <1>13, <1>14, <1>15 DEF ControlInv, QueuesInv

\* The end of a stream: if it was bound, the registered session is marked dead.
LEMMA CloseKeeps ==
  ASSUME ControlInv, NEW s \in Streams, CloseStream(s)
  PROVE  ControlInv'
<1>1. /\ stream' = [stream EXCEPT ![s] = Closed]
      /\ UNCHANGED <<current, commands, accepted, delivered>>
  BY DEF CloseStream
<1>2. CASE Bound(s) /\ current # 0
  <2>1. PICK j \in DOMAIN sessions : j = current
    BY <1>2 DEF ControlInv, ControlTypeOK
  <2>2. sessions[j] \in SessionType
    BY <2>1, SessionFields DEF ControlInv
  <2>3. sessions' = [sessions EXCEPT ![j] = [sessions[j] EXCEPT !.alive = FALSE]]
    BY <1>2, <2>1 DEF CloseStream
  <2>4. PICK r \in SessionType : /\ r.queue = sessions[j].queue /\ ~r.alive
                                 /\ sessions' = [sessions EXCEPT ![j] = r]
    <3>1. /\ [sessions[j] EXCEPT !.alive = FALSE] \in SessionType
          /\ [sessions[j] EXCEPT !.alive = FALSE].queue = sessions[j].queue
          /\ ~[sessions[j] EXCEPT !.alive = FALSE].alive
      BY <2>2 DEF SessionType
    <3> QED
      BY <2>3, <3>1
  <2>5. /\ sessions' \in Seq(SessionType) /\ Len(sessions') = Len(sessions)
        /\ DOMAIN sessions' = DOMAIN sessions
        /\ sessions'[j] = r
        /\ \A i \in DOMAIN sessions : i # j => sessions'[i] = sessions[i]
    BY <2>4, SessionChanges DEF ControlInv
  <2>6. ControlTypeOK'
    <3>1. Closed \in Closed..Len(sessions)
      BY <2>1, SessionFields DEF Closed, ControlInv
    <3> QED
      BY <1>1, <2>5, <3>1 DEF ControlInv, ControlTypeOK, SessionType
  <2>7. \A i \in DOMAIN sessions' :
          sessions'[i].queue = IF i \in DOMAIN sessions THEN sessions[i].queue ELSE <<>>
    BY <2>4, <2>5
  <2>8. QueuesInv'
    BY <1>1, <2>5, <2>7, QueuesKept DEF ControlInv
  <2>9. NoCommandToTheGone'
    BY <1>1, <2>1, <2>4, <2>5 DEF NoCommandToTheGone
  <2> QED
    BY <2>6, <2>8, <2>9 DEF ControlInv
<1>3. CASE ~Bound(s) \/ current = 0
  <2>1. 0 \notin DOMAIN sessions /\ Len(sessions) \in Nat
    BY DEF ControlInv, ControlTypeOK
  <2>2. sessions' = sessions
    BY <1>3, <2>1 DEF CloseStream, ControlInv, ControlTypeOK
  <2>3. ControlTypeOK'
    <3>1. Closed \in Closed..Len(sessions)
      BY <2>1 DEF Closed
    <3> QED
      BY <1>1, <2>2, <3>1 DEF ControlInv, ControlTypeOK
  <2>4. QueuesInv'
    BY <1>1, <2>2 DEF ControlInv, QueuesInv, CommandsConserved, Waiting
  <2>5. NoCommandToTheGone'
    <3>1. current # 0 => current \in DOMAIN sessions /\ stream[s] # current
      BY <1>3 DEF ControlInv, ControlTypeOK, Bound
    <3> QED
      BY <1>1, <2>2, <3>1 DEF ControlInv, ControlTypeOK, NoCommandToTheGone
  <2> QED
    BY <2>3, <2>4, <2>5 DEF ControlInv
<1> QED
  BY <1>2, <1>3

\* A new stream is not bound to a session yet.
LEMMA SessionKeeps ==
  ASSUME ControlInv, NEW s \in Streams, Session(s)
  PROVE  ControlInv'
<1>1. /\ stream[s] = Closed /\ stream' = [stream EXCEPT ![s] = Open]
      /\ UNCHANGED <<sessions, current, commands, accepted, delivered>>
  BY DEF Session
<1>2. Len(sessions) \in Nat /\ Open \in Closed..Len(sessions)
  BY DEF Open, Closed, ControlInv, ControlTypeOK
<1>3. ControlTypeOK'
  BY <1>1, <1>2 DEF ControlInv, ControlTypeOK
<1>4. QueuesInv'
  BY <1>1 DEF ControlInv, QueuesInv, CommandsConserved, Waiting
<1>5. NoCommandToTheGone'
  <2>1. current # Closed
    BY <1>2 DEF ControlInv, ControlTypeOK, Closed
  <2> QED
    BY <1>1, <2>1 DEF ControlInv, ControlTypeOK, NoCommandToTheGone
<1> QED
  BY <1>3, <1>4, <1>5 DEF ControlInv

\* Every step of the servicer conserves commands.
LEMMA ControlKeeps ==
  ASSUME ControlInv, ControlNext \/ UNCHANGED controlVars
  PROVE  ControlInv'
<1>1. CASE UNCHANGED controlVars
  BY <1>1 DEF controlVars, ControlInv, ControlTypeOK, QueuesInv, CommandsConserved, Waiting,
              NoCommandToTheGone
<1> QED
  BY <1>1, RegisterKeeps, SendKeeps, SessionKeeps, FirstEventKeeps, YieldKeeps, CloseKeeps
     DEF ControlNext

-----------------------------------------------------------------------------
(* Theorems *)

\* The control plane starts without subscribers and without sessions.
LEMMA ConsoleInit ==
  ASSUME Init
  PROVE  ConsoleInv
<1>1. EventTypeOK /\ StreamHasNoGap
  BY DEF Init, EventInit, EventTypeOK, StreamHasNoGap, Iterating, Away
<1>2. ControlTypeOK /\ NoCommandToTheGone
  BY DEF Init, ControlInit, ControlTypeOK, NoCommandToTheGone, Closed
<1>3. sessions = <<>> /\ accepted = {} /\ delivered = <<>>
  BY DEF Init, ControlInit
<1>4. DOMAIN sessions = {} /\ DOMAIN delivered = {}
  BY <1>3
<1>5. CommandsConserved
  BY <1>3, <1>4 DEF CommandsConserved, IsInjective, Range
<1> QED
  BY <1>1, <1>2, <1>4, <1>5 DEF ConsoleInv

\* What the control plane keeps in memory stays consistent: publish_event and
\* subscribe of events.py, send_command and Session of grpc_server.py.
THEOREM ConsoleInvariant == Spec => []ConsoleInv
<1>1. ConsoleInv <=> EventTypeOK /\ StreamHasNoGap /\ ControlInv
  BY DEF ConsoleInv, ControlInv, QueuesInv
<1>2. ASSUME ConsoleInv, [Next]_vars PROVE ConsoleInv'
  <2>1. /\ EventNext \/ UNCHANGED eventVars
        /\ ControlNext \/ UNCHANGED controlVars
    BY <1>2 DEF Next, vars
  <2>2. EventTypeOK' /\ StreamHasNoGap' /\ ControlInv'
    BY <1>1, <1>2, <2>1, EventsNext, ControlKeeps
  <2> QED
    BY <2>2 DEF ConsoleInv, ControlInv, QueuesInv
<1> QED
  BY <1>2, ConsoleInit, PTL DEF Spec

\* A client of GET /v1/events loses the end of the stream, never its middle.
THEOREM GaplessStream == Spec => []StreamHasNoGap
<1>1. ConsoleInv => StreamHasNoGap
  BY DEF ConsoleInv
<1> QED
  BY <1>1, ConsoleInvariant, PTL

\* send_command answers True only for a command that is delivered once or waits.
THEOREM ConservedCommands == Spec => []CommandsConserved
<1>1. ConsoleInv => CommandsConserved
  BY DEF ConsoleInv
<1> QED
  BY <1>1, ConsoleInvariant, PTL

\* The finally clause of Session leaves no live session behind without a stream.
THEOREM NoDeadLine == Spec => []NoCommandToTheGone
<1>1. ConsoleInv => NoCommandToTheGone
  BY DEF ConsoleInv
<1> QED
  BY <1>1, ConsoleInvariant, PTL

=============================================================================

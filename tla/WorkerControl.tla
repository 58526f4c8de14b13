---------------------------- MODULE WorkerControl ----------------------------
(***************************************************************************)
(* dtq/control/grpc_server.py for one worker id: the WorkerSession objects *)
(* made for it, the one in _sessions, the Session streams it has opened    *)
(* and the commands sent to it.  Streams may overlap: a worker that        *)
(* connects again does so before the server notices that the old stream is *)
(* broken.                                                                 *)
(***************************************************************************)
EXTENDS Integers, Sequences, FiniteSets, Functions

CONSTANTS
  Streams,       \* Session calls that may be open at once
  MaxSessions,   \* bound on the number of WorkerSession objects
  MaxCommands    \* bound on the number of send_command calls

ASSUME ControlBounds == MaxSessions \in Nat /\ MaxCommands \in Nat

VARIABLES
  sessions,    \* the WorkerSession objects, [alive, queue, served]
  current,     \* which one is _sessions[worker_id] (0: none)
  stream,      \* Closed, Open, or the object a Session call uses
  commands,    \* number of send_command calls
  accepted,    \* those that returned True
  delivered    \* those yielded to the worker, in order

controlVars == <<sessions, current, stream, commands, accepted, delivered>>

\* served is history: a Session call has used the object.
WorkerSession == [alive |-> TRUE, queue |-> <<>>, served |-> FALSE]

Closed == -1
Open == 0

ControlInit ==
  /\ sessions = <<>>
  /\ current = 0
  /\ stream = [s \in Streams |-> Closed]
  /\ commands = 0
  /\ accepted = {}
  /\ delivered = <<>>

Register ==
  /\ Len(sessions) < MaxSessions
  /\ sessions' = Append(sessions, WorkerSession)
  /\ current' = Len(sessions) + 1
  /\ UNCHANGED <<stream, commands, accepted, delivered>>

Session(s) ==
  /\ stream[s] = Closed
  /\ stream' = [stream EXCEPT ![s] = Open]
  /\ UNCHANGED <<sessions, current, commands, accepted, delivered>>

\* The first event names the worker: read_events looks its session up, or makes
\* one.  A session that was marked dead stays so.
FirstEvent(s) ==
  /\ stream[s] = Open
  /\ IF current = 0
       THEN /\ Len(sessions) < MaxSessions
            /\ sessions' = Append(sessions, [WorkerSession EXCEPT !.served = TRUE])
            /\ current' = Len(sessions) + 1
       ELSE /\ sessions' = [sessions EXCEPT ![current].served = TRUE]
            /\ UNCHANGED current
  /\ stream' = [stream EXCEPT ![s] = current']
  /\ UNCHANGED <<commands, accepted, delivered>>

\* send_command, as called by Drain through drain_worker.
send_command ==
  /\ commands < MaxCommands
  /\ commands' = commands + 1
  /\ IF current # 0 /\ sessions[current].alive
       THEN /\ sessions' = [sessions EXCEPT ![current].queue = Append(@, commands + 1)]
            /\ accepted' = accepted \cup {commands + 1}
       ELSE UNCHANGED <<sessions, accepted>>
  /\ UNCHANGED <<current, stream, delivered>>

Bound(s) == stream[s] \in DOMAIN sessions

\* Faulty variant: the command stays in the queue.
YieldCommand_peek(s) ==
  /\ Bound(s) /\ sessions[stream[s]].queue # <<>>
  /\ Len(delivered) < MaxCommands
  /\ delivered' = Append(delivered, Head(sessions[stream[s]].queue))
  /\ UNCHANGED <<sessions, current, stream, commands, accepted>>

\* The loop of Session gets a command from the queue of its session object,
\* which another stream may share.
YieldCommand(s) ==
  /\ Bound(s) /\ sessions[stream[s]].queue # <<>>
  /\ delivered' = Append(delivered, Head(sessions[stream[s]].queue))
  /\ sessions' = [sessions EXCEPT ![stream[s]].queue = Tail(@)]
  /\ UNCHANGED <<current, stream, commands, accepted>>

\* Faulty variant: the session is left alive.
CloseStream_alive(s) ==
  /\ stream[s] # Closed
  /\ stream' = [stream EXCEPT ![s] = Closed]
  /\ UNCHANGED <<sessions, current, commands, accepted, delivered>>

\* The finally clause marks the session that is registered now, be it the
\* stream's own or a later one.
CloseStream(s) ==
  /\ stream[s] # Closed
  /\ stream' = [stream EXCEPT ![s] = Closed]
  /\ IF Bound(s) THEN sessions' = [sessions EXCEPT ![current].alive = FALSE]
                 ELSE UNCHANGED sessions
  /\ UNCHANGED <<current, commands, accepted, delivered>>

ControlNext ==
  \/ Register \/ send_command
  \/ \E s \in Streams : Session(s) \/ FirstEvent(s) \/ YieldCommand(s) \/ CloseStream(s)

-----------------------------------------------------------------------------

Waiting(i) == Range(sessions[i].queue)

\* A command that send_command accepted is delivered once or waits in one queue,
\* however often the worker registers again and whichever streams share a queue.
CommandsConserved ==
  /\ IsInjective(delivered)
  /\ accepted = Range(delivered) \cup UNION {Waiting(i) : i \in DOMAIN sessions}
  /\ \A i \in DOMAIN sessions :
       /\ Waiting(i) \cap Range(delivered) = {}
       /\ \A k \in DOMAIN sessions : i # k => Waiting(i) \cap Waiting(k) = {}

\* Commands for a worker whose stream has ended are refused: the registered
\* session is alive only if a stream still uses it or none ever did.
NoCommandToTheGone ==
  current # 0 /\ sessions[current].alive /\ sessions[current].served =>
    \E s \in Streams : stream[s] = current

=============================================================================

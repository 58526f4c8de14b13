------------------------------ MODULE Console ------------------------------
(* What the control plane keeps in memory: event subscribers and worker sessions. *)
EXTENDS EventBus, WorkerControl

vars == <<eventVars, controlVars>>

Init == EventInit /\ ControlInit

Next ==
  \/ EventNext /\ UNCHANGED controlVars
  \/ ControlNext /\ UNCHANGED eventVars

Spec == Init /\ [][Next]_vars

-----------------------------------------------------------------------------

EventTypeOK ==
  /\ published \in Nat
  /\ subscribed \subseteq {c \in Clients : Iterating(c)}
  /\ inbox \in [Clients -> Seq(Nat)]
  /\ since \in [Clients -> Nat \cup {Away}]
  /\ seen \in [Clients -> Nat]

ControlTypeOK ==
  /\ sessions \in Seq([alive : BOOLEAN, queue : Seq(Nat), served : BOOLEAN])
  /\ current \in 0..Len(sessions)
  /\ stream \in [Streams -> Closed..Len(sessions)]
  /\ commands \in Nat
  /\ accepted \subseteq 1..commands
  /\ delivered \in Seq(Nat)

\* The inductive invariant of both: a queue never holds a command twice, and no
\* number that send_command has yet to give is in use.
ConsoleInv ==
  /\ EventTypeOK /\ ControlTypeOK
  /\ \A i \in DOMAIN sessions : IsInjective(sessions[i].queue)
  /\ StreamHasNoGap /\ CommandsConserved /\ NoCommandToTheGone

=============================================================================

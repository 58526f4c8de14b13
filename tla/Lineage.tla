------------------------------ MODULE Lineage ------------------------------
(***************************************************************************)
(* Why the properties of Workflow hold: advance() decides on rows it read  *)
(* some awaits ago, but what it derives from them (an effect is there, a   *)
(* task is dead-lettered) cannot become false again.                       *)
(***************************************************************************)
EXTENDS Workflow

CallPc == {"idle", "workflow", "tasks", "failed", "completed", "launch"}

WorkflowTypeOK ==
  /\ state \in [Tasks -> {"absent", "pending", "leased", "succeeded", "dead", "cancelled"}]
  /\ queued \subseteq Tasks /\ dead \subseteq queued
  /\ steps \in Specs \cup {<<>>}
  /\ label \in [Tasks -> {NoLabel} \cup ((UNION {StepNames(s) : s \in Specs}) \X Nat)]
  /\ calls \in [Callers -> [pc : CallPc, todo : SUBSET (Nat \X Nat), rows : SUBSET Tasks]]
  /\ faults \in Nat

\* Ids are used, labelled and published together; rows come later or never.
IdsInv ==
  /\ \A t \in Tasks : t \in queued <=> label[t] # NoLabel
  /\ Rows \subseteq queued
  /\ \A t \in Tasks : state[t] = "succeeded" => Committed(t)
  /\ \A t \in Tasks : state[t] = "dead" => t \in dead

\* Nothing has happened before the one submission.
FreshInv ==
  answer = "none" => workflow = "none" /\ queued = {} /\ \A c \in Callers : ~Active(c)

DependenciesMet(i) == i \in DOMAIN steps /\ \A dep \in DependsOn(steps[i]) : HasEffect(dep)

\* What a call has concluded from the rows it read is still so.
CallInv(c) ==
  /\ calls[c].pc # "launch" => calls[c].todo = {} /\ calls[c].rows = {}
  /\ calls[c].pc = "completed" => \A name \in StepNames(steps) : HasEffect(name)
  /\ calls[c].pc = "failed" => \E t \in dead : label[t] # NoLabel
  /\ calls[c].rows \subseteq queued
  /\ \A l \in calls[c].todo : DependenciesMet(l[1])

\* The inductive invariant behind the order of steps and the outcome: what an
\* advance() call has read may be stale, what it concluded from it stays true.
LineageInv ==
  /\ WorkflowTypeOK /\ IdsInv /\ FreshInv
  /\ LaunchedAfterDependencies /\ OutcomeIsBacked /\ OrphanNeedsFailure
  /\ \A c \in Callers : CallInv(c)

-----------------------------------------------------------------------------

\* Rows that are committed, or inserted by a transaction that is open.
Known == Rows \cup UNION {calls[c].rows : c \in Callers}

\* The inductive invariant behind LaunchedOnce and OutcomeIsFinal: a call that
\* runs alone knows all rows there are and will be, and finds the workflow
\* running.
SoloInv ==
  ~overlap =>
    /\ \A c, d \in Callers : Active(c) /\ Active(d) => c = d
    /\ workflow \in Final => \A c \in Callers : calls[c].pc \in {"idle", "workflow"}
    /\ DistinctNames =>
         /\ \A t, u \in Known : label[t] = label[u] /\ label[t][2] = 0 => t = u
         /\ \A c \in Callers : \A l \in calls[c].todo :
              l[2] = 0 => \A t \in Known : label[t] # <<steps[l[1]].name, 0>>

=============================================================================

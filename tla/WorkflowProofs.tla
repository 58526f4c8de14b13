--------------------------- MODULE WorkflowProofs ---------------------------
(***************************************************************************)
(* Proofs about the workflow engine, for every list of steps, any number   *)
(* of concurrent advance() calls and any number of faults.  LineageInv is  *)
(* proved first, SoloInv on top of it.                                     *)
(***************************************************************************)
EXTENDS Lineage, TLAPS

-----------------------------------------------------------------------------
(* What steps can and cannot do *)

\* uuid4() gives an id that is not in use, if there is one.
LEMMA FreshIsUnused ==
  ASSUME \E t \in Tasks : label[t] = NoLabel
  PROVE  Fresh \in Tasks /\ label[Fresh] = NoLabel
  BY DEF Fresh

\* Labels are given once, effects and dead letters stay.
Grows ==
  /\ \A t \in Tasks : label[t] # NoLabel => label'[t] = label[t]
  /\ committed \subseteq committed'
  /\ dead \subseteq dead'

\* No step of the engine or of a task takes a label, an effect or a dead letter
\* away.
LEMMA StepGrows ==
  ASSUME LineageInv, [Next]_vars
  PROVE  Grows
<1>1. CASE SubmitInvalid
  BY <1>1 DEF SubmitInvalid, serviceVars, Grows
<1>2. ASSUME NEW c \in Callers, Submit(c) PROVE Grows
  BY <1>2 DEF Submit, serviceVars, Grows
<1>3. ASSUME NEW c \in Callers, Advance(c) PROVE Grows
  <2>1. CASE Launch(c)
    <3>1. Fresh \in Tasks /\ label[Fresh] = NoLabel
      BY <2>1, FreshIsUnused DEF Launch
    <3>2. /\ \E r : label' = [label EXCEPT ![Fresh] = r]
          /\ UNCHANGED <<committed, dead>>
      BY <2>1 DEF Launch
    <3> QED
      BY <3>1, <3>2 DEF Grows, LineageInv, WorkflowTypeOK
  <2>2. CASE ~Launch(c)
    BY <1>3, <2>2 DEF Advance, AdvanceWorkflow, AdvanceTasks, Finish, LaunchRaises,
                      LaunchCommit, serviceVars, Grows
  <2> QED
    BY <2>1, <2>2
<1>4. ASSUME NEW c \in Callers, CallFails(c) PROVE Grows
  BY <1>4 DEF CallFails, serviceVars, Grows
<1>5. ASSUME NEW c \in Callers, NEW t \in Tasks, OnTaskCompleted(c, t) PROVE Grows
  BY <1>5 DEF OnTaskCompleted, serviceVars, Grows
<1>6. ASSUME NEW t \in Tasks, TaskStep(t) PROVE Grows
  BY <1>6 DEF TaskStep, Start, Commit, DeadLetter, Requeue, MarkDead, Cancel, engineVars, Grows
<1>7. CASE UNCHANGED vars
  BY <1>7 DEF vars, serviceVars, engineVars, Grows
<1> QED
  BY <1>1, <1>2, <1>3, <1>4, <1>5, <1>6, <1>7 DEF Next

\* The effect of a step stays an effect of that step.
LEMMA EffectStays ==
  ASSUME Grows, NEW name, HasEffect(name)
  PROVE  HasEffect(name)'
<1>1. PICK t \in Tasks : label[t] = <<name, 0>> /\ Committed(t)
  BY DEF HasEffect
<1>2. label[t] # NoLabel
  BY <1>1 DEF NoLabel
<1>3. label'[t] = <<name, 0>> /\ Committed(t)'
  BY <1>1, <1>2 DEF Grows, Committed
<1> QED
  BY <1>3 DEF HasEffect

\* The conclusions of a call that does not move stay true.
LEMMA CallStays ==
  ASSUME Grows, UNCHANGED steps, queued \subseteq queued', dead \subseteq Tasks,
         NEW c \in Callers, calls'[c] = calls[c], CallInv(c)
  PROVE  CallInv(c)'
<1>1. \A i : DependenciesMet(i) => DependenciesMet(i)'
  BY EffectStays DEF DependenciesMet
<1>2. \A t \in dead : label[t] # NoLabel => t \in dead' /\ label'[t] # NoLabel
  BY DEF Grows
<1>3. \A name : HasEffect(name) => HasEffect(name)'
  BY EffectStays
<1> QED
  BY <1>1, <1>2, <1>3 DEF CallInv

\* A call that has concluded nothing owes nothing.
LEMMA CallBegins ==
  ASSUME NEW c \in Callers, NEW pc \in {"idle", "workflow", "tasks"}, calls'[c] = Call(pc)
  PROVE  CallInv(c)'
  BY DEF CallInv, Call, Idle

\* A row that advance() read as succeeded proves the effect of its step.
LEMMA CompletedHasEffect ==
  ASSUME LineageInv, NEW S \in SUBSET Rows, NEW name \in CompletedNames(S)
  PROVE  HasEffect(name)
<1>1. PICK u \in S : state[u] = "succeeded" /\ label[u][2] = 0 /\ name = label[u][1]
  BY DEF CompletedNames
<1>2. u \in Tasks /\ u \in queued
  BY DEF Rows, LineageInv, IdsInv
<1>3. label[u] # NoLabel /\ Committed(u)
  BY <1>1, <1>2 DEF LineageInv, IdsInv
<1>4. label[u] = <<name, 0>>
  BY <1>1, <1>2, <1>3 DEF LineageInv, WorkflowTypeOK
<1> QED
  BY <1>2, <1>3, <1>4 DEF HasEffect

\* What steps that publish nothing leave alone.
LEMMA OutcomeStays ==
  ASSUME LineageInv, Grows, UNCHANGED <<steps, queued, label, workflow>>
  PROVE  LaunchedAfterDependencies' /\ OutcomeIsBacked'
<1>1. \A name : HasEffect(name) => HasEffect(name)'
  BY EffectStays
<1>2. LaunchedAfterDependencies'
  BY <1>1 DEF LineageInv, LaunchedAfterDependencies
<1>3. OutcomeIsBacked'
  BY <1>1 DEF LineageInv, OutcomeIsBacked, Grows
<1> QED
  BY <1>2, <1>3

-----------------------------------------------------------------------------
(* LineageInv, action by action *)

\* The program starts with no workflow and no task.
LEMMA LineageInit ==
  ASSUME Init
  PROVE  LineageInv
<1> USE DEF Init, ServiceInit
<1>1. WorkflowTypeOK
  BY DEF WorkflowTypeOK, Idle, CallPc
<1>2. IdsInv /\ FreshInv
  BY DEF IdsInv, FreshInv, Rows, HasRow, Active, Idle, NoLabel
<1>3. LaunchedAfterDependencies /\ OutcomeIsBacked /\ OrphanNeedsFailure
  BY DEF LaunchedAfterDependencies, OutcomeIsBacked, OrphanNeedsFailure
<1>4. \A c \in Callers : CallInv(c)
  BY DEF CallInv, Idle
<1> QED
  BY <1>1, <1>2, <1>3, <1>4 DEF LineageInv

\* A refused submission writes nothing.
LEMMA SubmitInvalidLineage ==
  ASSUME LineageInv, Grows, SubmitInvalid
  PROVE  LineageInv'
<1> USE DEF SubmitInvalid, serviceVars
<1>1. WorkflowTypeOK' /\ IdsInv'
  BY DEF LineageInv, WorkflowTypeOK, IdsInv, Rows, HasRow, Committed
<1>2. FreshInv' /\ OrphanNeedsFailure'
  BY DEF LineageInv, FreshInv, OrphanNeedsFailure, HasRow
<1>3. \A c \in Callers : CallInv(c)'
  BY CallStays DEF LineageInv, WorkflowTypeOK
<1> QED
  BY <1>1, <1>2, <1>3, OutcomeStays DEF LineageInv

\* submit() commits the workflow's row and calls advance(): nothing was launched
\* before.
LEMMA SubmitLineage ==
  ASSUME LineageInv, NEW c \in Callers, Submit(c)
  PROVE  LineageInv'
<1> USE DEF Submit, serviceVars
<1>1. queued = {} /\ \A d \in Callers : ~Active(d)
  BY DEF LineageInv, FreshInv
<1>2. calls' = [calls EXCEPT ![c] = Call("workflow")]
  BY DEF Goes
<1>3. WorkflowTypeOK'
  BY <1>2 DEF LineageInv, WorkflowTypeOK, Call, Idle, CallPc
<1>4. IdsInv' /\ FreshInv'
  BY DEF LineageInv, IdsInv, FreshInv, Rows, HasRow, Committed
<1>5. LaunchedAfterDependencies' /\ OutcomeIsBacked' /\ OrphanNeedsFailure'
  BY <1>1 DEF LaunchedAfterDependencies, OutcomeIsBacked, OrphanNeedsFailure
<1>6. ASSUME NEW d \in Callers PROVE CallInv(d)'
  <2>1. CASE d = c
    BY <1>2, <2>1, CallBegins DEF LineageInv, WorkflowTypeOK
  <2>2. CASE d # c
    <3>1. calls'[d] = calls[d] /\ calls[d].pc = "idle"
      BY <1>1, <1>2, <2>2 DEF LineageInv, WorkflowTypeOK, Active
    <3>2. CallInv(d)
      BY DEF LineageInv
    <3> QED
      BY <3>1, <3>2 DEF CallInv
  <2> QED
    BY <2>1, <2>2
<1> QED
  BY <1>3, <1>4, <1>5, <1>6 DEF LineageInv

\* A call that returns without a write (the workflow is not running, a step has
\* no retry object, something fails): its uncommitted rows are rolled back, and
\* their envelopes are orphans.
LEMMA ReturnLineage ==
  ASSUME LineageInv, Grows, NEW c \in Callers, NEW result, result # "none", Returns(c, result),
         UNCHANGED <<serviceVars, workflow, steps, label>>,
         faults' \in Nat, faults' >= faults,
         calls[c].rows = {} \/ faults' > 0 \/ \E i \in DOMAIN steps : ~steps[i].retry
  PROVE  LineageInv'
<1> USE DEF Returns, serviceVars
<1>1. calls' = [calls EXCEPT ![c] = Call("idle")]
  BY DEF Goes, Call, Idle
<1>2. WorkflowTypeOK' /\ IdsInv'
  BY <1>1 DEF LineageInv, WorkflowTypeOK, IdsInv, Rows, HasRow, Committed, Call, Idle, CallPc
<1>3. FreshInv'
  BY <1>1 DEF LineageInv, WorkflowTypeOK, FreshInv, Active, Call, Idle
<1>4. OrphanNeedsFailure'
  <2> SUFFICES ASSUME NEW t \in queued
               PROVE  \/ HasRow(t)'
                      \/ \E d \in Callers : t \in calls'[d].rows
                      \/ faults' > 0 \/ \E i \in DOMAIN steps' : ~steps'[i].retry
    BY DEF OrphanNeedsFailure
  <2>1. CASE t \in calls[c].rows
    BY <2>1
  <2>2. CASE faults > 0
    BY <2>2 DEF LineageInv, WorkflowTypeOK
  <2>3. CASE t \notin calls[c].rows /\ ~(faults > 0)
    BY <1>1, <2>3 DEF LineageInv, WorkflowTypeOK, OrphanNeedsFailure, HasRow
  <2> QED
    BY <2>1, <2>2, <2>3
<1>5. ASSUME NEW d \in Callers PROVE CallInv(d)'
  BY <1>1, CallBegins, CallStays DEF LineageInv, WorkflowTypeOK
<1> QED
  BY <1>2, <1>3, <1>4, <1>5, OutcomeStays DEF LineageInv

\* A call that starts, or that concludes something from what it has read.
LEMMA GoesLineage ==
  ASSUME LineageInv, Grows, NEW c \in Callers, Goes(c, calls'[c]),
         UNCHANGED <<serviceVars, workflow, steps, label, faults, answer>>,
         answer # "none", calls[c].rows = {},
         calls'[c] \in [pc : CallPc, todo : SUBSET (Nat \X Nat), rows : {{}}], CallInv(c)'
  PROVE  LineageInv'
<1> USE DEF serviceVars
<1>1. PICK r \in [pc : CallPc, todo : SUBSET (Nat \X Nat), rows : {{}}] :
        r = calls'[c] /\ calls' = [calls EXCEPT ![c] = r]
  BY DEF Goes
<1>2. WorkflowTypeOK' /\ IdsInv'
  BY <1>1 DEF LineageInv, WorkflowTypeOK, IdsInv, Rows, HasRow, Committed
<1>3. FreshInv'
  BY DEF FreshInv
<1>4. OrphanNeedsFailure'
  BY <1>1 DEF LineageInv, WorkflowTypeOK, OrphanNeedsFailure, HasRow
<1>5. ASSUME NEW d \in Callers PROVE CallInv(d)'
  <2>1. CASE d = c
    BY <2>1
  <2>2. CASE d # c
    <3>1. calls'[d] = calls[d]
      BY <1>1, <2>2 DEF LineageInv, WorkflowTypeOK
    <3> QED
      BY <3>1, CallStays DEF LineageInv, WorkflowTypeOK
  <2> QED
    BY <2>1, <2>2
<1> QED
  BY <1>2, <1>3, <1>4, <1>5, OutcomeStays DEF LineageInv

\* A call that runs belongs to a submitted workflow.
LEMMA ActiveIsSubmitted ==
  ASSUME LineageInv, NEW c \in Callers, Active(c)
  PROVE  answer # "none"
  BY DEF LineageInv, FreshInv

\* get_workflow: the call returns or goes on.
LEMMA AdvanceWorkflowLineage ==
  ASSUME LineageInv, Grows, NEW c \in Callers, AdvanceWorkflow(c)
  PROVE  LineageInv'
<1>1. calls[c].rows = {} /\ Active(c)
  BY DEF AdvanceWorkflow, Active, LineageInv, CallInv
<1>2. CASE workflow = "running"
  <2>1. calls' = [calls EXCEPT ![c] = Call("tasks")] /\ UNCHANGED answer
    BY <1>2 DEF AdvanceWorkflow, Goes
  <2>2. calls'[c] = Call("tasks") /\ Goes(c, calls'[c])
    BY <2>1 DEF LineageInv, WorkflowTypeOK, Goes
  <2>3. calls'[c] \in [pc : CallPc, todo : SUBSET (Nat \X Nat), rows : {{}}]
    BY <2>2 DEF Call, Idle, CallPc
  <2> QED
    BY <1>1, <2>1, <2>2, <2>3, CallBegins, GoesLineage, ActiveIsSubmitted DEF AdvanceWorkflow
<1>3. CASE workflow # "running"
  BY <1>1, <1>3, ReturnLineage DEF AdvanceWorkflow, LineageInv, WorkflowTypeOK
<1> QED
  BY <1>2, <1>3

\* get_tasks_for_workflow: what the rows show about effects and dead letters is
\* so, and the steps found ready have their dependencies' effects.
LEMMA AdvanceTasksLineage ==
  ASSUME LineageInv, Grows, NEW c \in Callers, AdvanceTasks(c)
  PROVE  LineageInv'
<1>1. calls[c].rows = {} /\ answer # "none"
  BY ActiveIsSubmitted DEF AdvanceTasks, Active, LineageInv, CallInv
<1>2. PICK S \in StepRows :
        Goes(c, IF DeadSteps(S) # {} THEN Call("failed")
                ELSE IF StepNames(steps) \subseteq CompletedNames(S) THEN Call("completed")
                ELSE [pc |-> "launch", todo |-> Launches(S), rows |-> {}])
  BY DEF AdvanceTasks
<1>3. S \in SUBSET Rows
  BY DEF StepRows
<1>4. \A name \in CompletedNames(S) : HasEffect(name)'
  BY <1>3, CompletedHasEffect, EffectStays
<1>5. UNCHANGED <<serviceVars, workflow, steps, label, faults, answer>>
  BY DEF AdvanceTasks
<1>6. PICK r : /\ calls' = [calls EXCEPT ![c] = r]
               /\ r = IF DeadSteps(S) # {} THEN Call("failed")
                      ELSE IF StepNames(steps) \subseteq CompletedNames(S) THEN Call("completed")
                      ELSE [pc |-> "launch", todo |-> Launches(S), rows |-> {}]
  BY <1>2 DEF Goes
<1>7. calls'[c] = r /\ Goes(c, calls'[c])
  BY <1>6 DEF Goes, LineageInv, WorkflowTypeOK
<1>8. \A l \in Launches(S) : l \in Nat \X Nat /\ DependenciesMet(l[1])'
  <2> SUFFICES ASSUME NEW l \in Launches(S) PROVE l \in Nat \X Nat /\ DependenciesMet(l[1])'
    OBVIOUS
  <2>1. PICK i \in get_ready_steps(steps, CompletedNames(S)) :
          \E k \in IF steps[i].fan_out = 0 THEN {0} ELSE 1..steps[i].fan_out : l = <<i, k>>
    BY DEF Launches
  <2>2. i \in DOMAIN steps /\ DependsOn(steps[i]) \subseteq CompletedNames(S)
    BY DEF get_ready_steps
  <2>3. steps \in Specs
    BY <2>2 DEF LineageInv, WorkflowTypeOK
  <2>4. l[1] = i /\ l \in Nat \X Nat
    BY <2>1, <2>2, <2>3, WorkflowAssumption
  <2>5. DependenciesMet(i)'
    BY <1>4, <1>5, <2>2 DEF DependenciesMet
  <2> QED
    BY <2>4, <2>5
<1>9. r \in [pc : CallPc, todo : SUBSET (Nat \X Nat), rows : {{}}]
  BY <1>6, <1>8 DEF Call, Idle, CallPc
<1>10. CallInv(c)'
  <2>1. CASE DeadSteps(S) # {}
    <3>1. PICK t \in S : state[t] = "dead"
      BY <2>1 DEF DeadSteps
    <3>2. t \in dead /\ label[t] # NoLabel
      BY <1>3, <3>1 DEF Rows, LineageInv, IdsInv
    <3>3. \E u \in dead' : label'[u] # NoLabel
      BY <1>5, <3>2 DEF serviceVars
    <3> QED
      BY <1>6, <1>7, <2>1, <3>3 DEF CallInv, Call, Idle
  <2>2. CASE DeadSteps(S) = {} /\ StepNames(steps) \subseteq CompletedNames(S)
    <3>1. \A name \in StepNames(steps') : HasEffect(name)'
      BY <1>4, <1>5, <2>2
    <3> QED
      BY <1>6, <1>7, <2>2, <3>1 DEF CallInv, Call, Idle
  <2>3. CASE DeadSteps(S) = {} /\ ~(StepNames(steps) \subseteq CompletedNames(S))
    <3>1. calls'[c] = [pc |-> "launch", todo |-> Launches(S), rows |-> {}]
      BY <1>6, <1>7, <2>3
    <3> QED
      BY <1>8, <3>1 DEF CallInv
  <2> QED
    BY <2>1, <2>2, <2>3
<1> QED
  BY <1>1, <1>5, <1>7, <1>9, <1>10, GoesLineage

\* update_workflow_state writes an outcome that is still backed.
LEMMA FinishLineage ==
  ASSUME LineageInv, Grows, NEW c \in Callers, Finish(c)
  PROVE  LineageInv'
<1> USE DEF Finish, serviceVars
<1>1. CallInv(c) /\ calls[c].rows = {}
  BY DEF LineageInv, CallInv
<1>2. calls' = [calls EXCEPT ![c] = Call("idle")]
  BY DEF Returns, Goes, Call, Idle
<1>3. WorkflowTypeOK' /\ IdsInv'
  BY <1>2 DEF LineageInv, WorkflowTypeOK, IdsInv, Rows, HasRow, Committed, Call, Idle, CallPc
<1>4. FreshInv'
  BY ActiveIsSubmitted DEF FreshInv, Active, Returns
<1>5. OrphanNeedsFailure'
  BY <1>1, <1>2 DEF LineageInv, WorkflowTypeOK, OrphanNeedsFailure, HasRow
<1>6. \A name : HasEffect(name) => HasEffect(name)'
  BY EffectStays
<1>7. LaunchedAfterDependencies'
  BY <1>6 DEF LineageInv, LaunchedAfterDependencies
<1>8. OutcomeIsBacked'
  BY <1>1, <1>6 DEF OutcomeIsBacked, CallInv
<1>9. ASSUME NEW d \in Callers PROVE CallInv(d)'
  BY <1>2, CallBegins, CallStays DEF LineageInv, WorkflowTypeOK
<1> QED
  BY <1>3, <1>4, <1>5, <1>7, <1>8, <1>9 DEF LineageInv

\* create_task and publish for one step: its dependencies have their effects,
\* as they had when the rows were read.
LEMMA LaunchLineage ==
  ASSUME LineageInv, Grows, NEW c \in Callers, Launch(c)
  PROVE  LineageInv'
<1>1. PICK f \in Tasks : f = Fresh /\ label[f] = NoLabel
  BY FreshIsUnused DEF Launch
<1>2. PICK l \in calls[c].todo :
        /\ label' = [label EXCEPT ![f] = <<steps[l[1]].name, l[2]>>]
        /\ queued' = queued \cup {f}
        /\ calls' = [calls EXCEPT ![c] = [calls[c] EXCEPT !.todo = @ \ {l}, !.rows = @ \cup {f}]]
  BY <1>1 DEF Launch, Goes
<1>3. /\ UNCHANGED <<state, committed, dead, answer, workflow, steps, faults>>
      /\ calls[c].pc = "launch"
  BY DEF Launch
<1>4. l \in Nat \X Nat /\ DependenciesMet(l[1]) /\ answer # "none"
  BY <1>3, ActiveIsSubmitted DEF LineageInv, WorkflowTypeOK, CallInv, Active
<1>5. steps \in Specs
  BY <1>4 DEF LineageInv, WorkflowTypeOK, DependenciesMet
<1>6. label'[f] = <<steps[l[1]].name, l[2]>> /\ label'[f] # NoLabel
  BY <1>2 DEF LineageInv, WorkflowTypeOK, NoLabel
<1>7. WorkflowTypeOK'
  <2>1. <<steps[l[1]].name, l[2]>> \in (UNION {StepNames(s) : s \in Specs}) \X Nat
    BY <1>4, <1>5 DEF StepNames, DependenciesMet
  <2>2. label' \in [Tasks -> {NoLabel} \cup ((UNION {StepNames(s) : s \in Specs}) \X Nat)]
    BY <1>2, <2>1 DEF LineageInv, WorkflowTypeOK
  <2>3. calls[c] \in [pc : CallPc, todo : SUBSET (Nat \X Nat), rows : SUBSET Tasks]
    BY DEF LineageInv, WorkflowTypeOK
  <2>4. [calls[c] EXCEPT !.todo = @ \ {l}, !.rows = @ \cup {f}]
          \in [pc : CallPc, todo : SUBSET (Nat \X Nat), rows : SUBSET Tasks]
    BY <2>3
  <2>5. calls' \in [Callers -> [pc : CallPc, todo : SUBSET (Nat \X Nat), rows : SUBSET Tasks]]
    BY <1>2, <2>4 DEF LineageInv, WorkflowTypeOK
  <2> QED
    BY <1>2, <1>3, <2>2, <2>5 DEF LineageInv, WorkflowTypeOK
<1>8. IdsInv'
  BY <1>2, <1>3, <1>6 DEF LineageInv, WorkflowTypeOK, IdsInv, Rows, HasRow, Committed
<1>9. FreshInv'
  BY <1>3, <1>4 DEF FreshInv
<1>10. \A name : HasEffect(name) => HasEffect(name)'
  BY EffectStays
<1>11. LaunchedAfterDependencies'
  <2> SUFFICES ASSUME NEW t \in queued'
               PROVE  \E i \in DOMAIN steps :
                        /\ label'[t][1] = steps[i].name
                        /\ \A dep \in DependsOn(steps[i]) : HasEffect(dep)'
    BY <1>3 DEF LaunchedAfterDependencies
  <2>1. CASE t = f
    BY <1>4, <1>6, <1>10, <2>1 DEF DependenciesMet
  <2>2. CASE t # f
    <3>1. t \in queued /\ label'[t] = label[t]
      BY <1>2, <2>2 DEF LineageInv, WorkflowTypeOK
    <3> QED
      BY <1>10, <3>1 DEF LineageInv, LaunchedAfterDependencies
  <2> QED
    BY <2>1, <2>2
<1>12. OutcomeIsBacked'
  BY <1>3, <1>10 DEF LineageInv, WorkflowTypeOK, OutcomeIsBacked, Grows
<1>13. calls'[c] = [calls[c] EXCEPT !.todo = @ \ {l}, !.rows = @ \cup {f}]
  BY <1>2 DEF LineageInv, WorkflowTypeOK
<1>14. calls'[c].rows = calls[c].rows \cup {f} /\ calls'[c].todo = calls[c].todo \ {l}
       /\ calls'[c].pc = "launch"
  BY <1>3, <1>13 DEF LineageInv, WorkflowTypeOK
<1>15. \A d \in Callers : d # c => calls'[d] = calls[d]
  BY <1>2 DEF LineageInv, WorkflowTypeOK
<1>16. OrphanNeedsFailure'
  <2> SUFFICES ASSUME NEW t \in queued'
               PROVE  \/ HasRow(t)'
                      \/ \E d \in Callers : t \in calls'[d].rows
                      \/ faults' > 0 \/ \E i \in DOMAIN steps' : ~steps'[i].retry
    BY DEF OrphanNeedsFailure
  <2>1. CASE t = f
    BY <1>14, <2>1
  <2>2. CASE t \in queued
    BY <1>3, <1>14, <1>15, <2>2 DEF LineageInv, OrphanNeedsFailure, HasRow
  <2> QED
    BY <1>2, <2>1, <2>2
<1>17. ASSUME NEW d \in Callers PROVE CallInv(d)'
  <2>1. CASE d = c
    <3>1. \A m \in calls[c].todo : DependenciesMet(m[1])'
      BY <1>3, <1>10 DEF LineageInv, CallInv, DependenciesMet
    <3>2. calls[c].rows \cup {f} \subseteq queued'
      BY <1>2 DEF LineageInv, CallInv
    <3> QED
      BY <1>14, <2>1, <3>1, <3>2 DEF CallInv
  <2>2. CASE d # c
    BY <1>2, <1>3, <1>15, <2>2, CallStays DEF LineageInv, WorkflowTypeOK
  <2> QED
    BY <2>1, <2>2
<1> QED
  BY <1>7, <1>8, <1>9, <1>11, <1>12, <1>16, <1>17 DEF LineageInv

\* A step without a retry object: the call raises.
LEMMA LaunchRaisesLineage ==
  ASSUME LineageInv, Grows, NEW c \in Callers, LaunchRaises(c)
  PROVE  LineageInv'
<1>1. PICK l \in calls[c].todo : ~steps[l[1]].retry
  BY DEF LaunchRaises
<1>2. l[1] \in DOMAIN steps
  BY DEF LineageInv, CallInv, DependenciesMet
<1>3. faults' = faults /\ faults \in Nat
  BY DEF LaunchRaises, LineageInv, WorkflowTypeOK
<1>4. Returns(c, "error") /\ UNCHANGED <<serviceVars, workflow, steps, label>>
  BY DEF LaunchRaises
<1>5. faults' \in Nat /\ faults' >= faults
  BY <1>3
<1>6. \E i \in DOMAIN steps : ~steps[i].retry
  BY <1>1, <1>2
<1>7. "error" # "none"
  OBVIOUS
<1> QED
  BY <1>4, <1>5, <1>6, <1>7, ReturnLineage

\* A failing call of the store or of the broker ends the call.
LEMMA CallFailsLineage ==
  ASSUME LineageInv, Grows, NEW c \in Callers, CallFails(c)
  PROVE  LineageInv'
<1>1. faults' = faults + 1 /\ faults \in Nat
  BY DEF CallFails, Fault, LineageInv, WorkflowTypeOK
<1>2. Returns(c, "error") /\ UNCHANGED <<serviceVars, workflow, steps, label>>
  BY DEF CallFails
<1> QED
  BY <1>1, <1>2, ReturnLineage

\* The commit of advance() makes the rows of its launches visible.
LEMMA LaunchCommitLineage ==
  ASSUME LineageInv, Grows, NEW c \in Callers, LaunchCommit(c)
  PROVE  LineageInv'
<1> USE DEF LaunchCommit
<1>1. calls' = [calls EXCEPT ![c] = Call("idle")]
  BY DEF Returns, Goes, Call, Idle
<1>2. calls[c].rows \subseteq queued
  BY DEF LineageInv, CallInv
<1>3. WorkflowTypeOK'
  BY <1>1 DEF LineageInv, WorkflowTypeOK, Call, Idle, CallPc
<1>4. IdsInv'
  BY <1>2 DEF LineageInv, IdsInv, Rows, HasRow, Committed
<1>5. FreshInv'
  BY ActiveIsSubmitted DEF FreshInv, Active, Returns
<1>6. OrphanNeedsFailure'
  <2> SUFFICES ASSUME NEW t \in queued
               PROVE  \/ HasRow(t)'
                      \/ \E d \in Callers : t \in calls'[d].rows
                      \/ faults' > 0 \/ \E i \in DOMAIN steps' : ~steps'[i].retry
    BY DEF OrphanNeedsFailure
  <2>1. t \in Tasks
    BY DEF LineageInv, WorkflowTypeOK
  <2>2. CASE t \in calls[c].rows
    BY <2>1, <2>2 DEF HasRow
  <2>3. CASE t \notin calls[c].rows
    BY <1>1, <2>1, <2>3 DEF LineageInv, WorkflowTypeOK, OrphanNeedsFailure, HasRow
  <2> QED
    BY <2>2, <2>3
<1>7. ASSUME NEW d \in Callers PROVE CallInv(d)'
  BY <1>1, CallBegins, CallStays DEF LineageInv, WorkflowTypeOK
<1> QED
  BY <1>3, <1>4, <1>5, <1>6, <1>7, OutcomeStays DEF LineageInv

\* on_task_completed begins a call.
LEMMA OnTaskCompletedLineage ==
  ASSUME LineageInv, Grows, NEW c \in Callers, NEW t \in Tasks, OnTaskCompleted(c, t)
  PROVE  LineageInv'
<1>1. t \in queued
  BY DEF OnTaskCompleted, LineageInv, IdsInv, Rows, HasRow
<1>2. answer # "none"
  BY <1>1 DEF LineageInv, FreshInv
<1>3. calls[c].rows = {}
  BY DEF OnTaskCompleted, Active, LineageInv, CallInv
<1>4. calls'[c] = Call("workflow") /\ Goes(c, calls'[c])
  BY DEF OnTaskCompleted, Goes, LineageInv, WorkflowTypeOK
<1>5. calls'[c] \in [pc : CallPc, todo : SUBSET (Nat \X Nat), rows : {{}}]
  BY <1>4 DEF Call, Idle, CallPc
<1> QED
  BY <1>2, <1>3, <1>4, <1>5, CallBegins, GoesLineage DEF OnTaskCompleted

\* Whatever a worker, a redelivery or a requeue does to a task of the workflow,
\* it creates no row and backs what the row shows.
LEMMA TaskStepLineage ==
  ASSUME LineageInv, Grows, NEW t \in Tasks, TaskStep(t)
  PROVE  LineageInv'
<1>1. UNCHANGED <<answer, workflow, steps, label, calls, queued>>
  BY DEF TaskStep, engineVars, Start, Commit, DeadLetter, Requeue, MarkDead, Cancel
<1>2. faults' \in Nat /\ faults' >= faults
  BY DEF TaskStep, Fault, LineageInv, WorkflowTypeOK
<1> DEFINE Shown(s) == HasRow(t) /\ state' = [state EXCEPT ![t] = s]
<1>3. /\ \/ state' = state
         \/ \E s \in {"pending", "leased", "cancelled"} : Shown(s)
         \/ Shown("succeeded") /\ Committed(t)'
         \/ Shown("dead") /\ t \in dead
      /\ dead' \subseteq queued
  <2>1. CASE Start(t) \/ Requeue(t) \/ Cancel(t)
    BY <2>1 DEF Start, Requeue, Cancel, Show, HasRow, LineageInv, WorkflowTypeOK
  <2>2. CASE Commit(t, t)
    <3>1. [key |-> t, task |-> t] \in committed'
      BY <2>2 DEF Commit
    <3>2. Committed(t)'
      BY <3>1 DEF Committed
    <3> QED
      BY <2>2, <3>2 DEF Commit, Show, LineageInv, WorkflowTypeOK
  <2>3. CASE DeadLetter(t) \/ MarkDead(t)
    BY <2>3 DEF DeadLetter, MarkDead, Show, LineageInv, WorkflowTypeOK
  <2> QED
    BY <2>1, <2>2, <2>3 DEF TaskStep
<1>4. WorkflowTypeOK'
  BY <1>1, <1>2, <1>3 DEF LineageInv, WorkflowTypeOK
<1>5. \A u \in Tasks : HasRow(u)' <=> HasRow(u)
  BY <1>3 DEF HasRow, LineageInv, WorkflowTypeOK
<1>6. \A u \in Tasks : Committed(u) => Committed(u)'
  BY DEF Committed, Grows
<1>7. IdsInv'
  BY <1>1, <1>3, <1>5, <1>6 DEF LineageInv, WorkflowTypeOK, IdsInv, Rows, Grows
<1>8. FreshInv'
  BY <1>1 DEF LineageInv, FreshInv, Active
<1>9. OrphanNeedsFailure'
  BY <1>1, <1>2, <1>5 DEF LineageInv, WorkflowTypeOK, OrphanNeedsFailure
<1>10. ASSUME NEW d \in Callers PROVE CallInv(d)'
  BY <1>1, CallStays DEF LineageInv, WorkflowTypeOK
<1> QED
  BY <1>1, <1>4, <1>7, <1>8, <1>9, <1>10, OutcomeStays DEF LineageInv

-----------------------------------------------------------------------------
(* SoloInv *)

\* Rows come only from the calls: the rows known after a step were known before,
\* unless the step is a launch.
KnownStays == Known' \subseteq Known /\ UNCHANGED label

\* A call that does not run has nothing to launch.
LEMMA IdleOwesNothing ==
  ASSUME LineageInv, NEW c \in Callers, calls[c].pc # "launch"
  PROVE  calls[c].todo = {} /\ calls[c].rows = {}
  BY DEF LineageInv, CallInv

\* A step that lets one call go on without launching keeps SoloInv, if that call
\* was running or no other is, and if the call leaves a finished workflow alone.
LEMMA SoloStays ==
  ASSUME LineageInv, SoloInv, KnownStays, UNCHANGED steps,
         NEW c \in Callers, Goes(c, calls'[c]),
         ~overlap' => ~overlap,
         ~overlap' => \A d \in Callers : d # c => ~Active(d),
         workflow' \in Final => calls'[c].pc \in {"idle", "workflow"},
         calls'[c].todo = {}
  PROVE  SoloInv'
<1> SUFFICES ASSUME ~overlap'
             PROVE  /\ \A d, e \in Callers : Active(d)' /\ Active(e)' => d = e
                    /\ workflow' \in Final =>
                         \A d \in Callers : calls'[d].pc \in {"idle", "workflow"}
                    /\ DistinctNames' =>
                         /\ \A t, u \in Known' :
                              label'[t] = label'[u] /\ label'[t][2] = 0 => t = u
                         /\ \A d \in Callers : \A l \in calls'[d].todo :
                              l[2] = 0 => \A t \in Known' : label'[t] # <<steps'[l[1]].name, 0>>
  BY DEF SoloInv
<1>1. \A d \in Callers : d # c => calls'[d] = calls[d] /\ calls[d].pc = "idle"
  BY DEF Goes, LineageInv, WorkflowTypeOK, Active
<1>2. \A d \in Callers : calls'[d].todo = {}
  BY <1>1, IdleOwesNothing
<1>3. \A d, e \in Callers : Active(d)' /\ Active(e)' => d = e
  BY <1>1 DEF Active
<1>4. workflow' \in Final => \A d \in Callers : calls'[d].pc \in {"idle", "workflow"}
  BY <1>1
<1>5. ASSUME DistinctNames', NEW t \in Known', NEW u \in Known',
             label'[t] = label'[u], label'[t][2] = 0
      PROVE  t = u
  BY <1>5 DEF SoloInv, KnownStays, DistinctNames
<1> QED
  BY <1>2, <1>3, <1>4, <1>5

\* Steps that touch neither the calls nor the workflow.
LEMMA SoloQuiet ==
  ASSUME SoloInv, Rows' \subseteq Rows, UNCHANGED <<overlap, workflow, steps, label, calls>>
  PROVE  SoloInv'
<1>1. Known' \subseteq Known
  BY DEF Known
<1> QED
  BY <1>1 DEF SoloInv, Active, DistinctNames

\* Of two calls that run at once, overlap knows.
LEMMA OthersIdle ==
  ASSUME SoloInv, NEW c \in Callers, Active(c), ~overlap
  PROVE  \A d \in Callers : d # c => ~Active(d)
  BY DEF SoloInv

\* The first call of a workflow finds no rows at all.
LEMMA SubmitSolo ==
  ASSUME LineageInv, NEW c \in Callers, Submit(c)
  PROVE  SoloInv'
<1>1. queued = {} /\ \A d \in Callers : calls[d].pc = "idle"
  BY DEF Submit, LineageInv, FreshInv, Active
<1>2. /\ calls' = [calls EXCEPT ![c] = Call("workflow")]
      /\ workflow' = "running" /\ state' = state
  BY DEF Submit, Goes, serviceVars
<1>3. \A d \in Callers : /\ calls'[d].todo = {} /\ calls'[d].rows = {}
                         /\ d # c => calls'[d].pc = "idle"
  BY <1>1, <1>2, IdleOwesNothing DEF LineageInv, WorkflowTypeOK, Call, Idle
<1>4. Rows' = {}
  BY <1>1, <1>2 DEF Rows, HasRow, LineageInv, IdsInv
<1>5. Known' = {}
  BY <1>3, <1>4 DEF Known
<1> QED
  BY <1>2, <1>3, <1>5 DEF SoloInv, Active, Final

\* A call that reads the rows while it runs alone finds the workflow running, and
\* leaves out every step that has a row under its name.
LEMMA AdvanceTasksSolo ==
  ASSUME LineageInv, SoloInv, NEW c \in Callers, AdvanceTasks(c)
  PROVE  SoloInv'
<1> SUFFICES ASSUME ~overlap
             PROVE  SoloInv'
  BY DEF SoloInv, AdvanceTasks
<1>1. Active(c) /\ workflow \notin Final
  BY DEF AdvanceTasks, Active, SoloInv
<1>2. PICK S \in StepRows :
        Goes(c, IF DeadSteps(S) # {} THEN Call("failed")
                ELSE IF StepNames(steps) \subseteq CompletedNames(S) THEN Call("completed")
                ELSE [pc |-> "launch", todo |-> Launches(S), rows |-> {}])
  BY DEF AdvanceTasks
<1>3. calls'[c].rows = {} /\ calls'[c].todo \subseteq Launches(S)
  BY <1>2 DEF Goes, LineageInv, WorkflowTypeOK, Call, Idle
<1>4. \A d \in Callers : d # c => calls'[d] = calls[d] /\ calls[d].pc = "idle"
  BY <1>1, <1>2, OthersIdle DEF Goes, LineageInv, WorkflowTypeOK, Active
<1>5. \A d \in Callers : calls'[d].rows = {} /\ (d # c => calls'[d].todo = {})
  BY <1>3, <1>4, IdleOwesNothing
<1>6. UNCHANGED <<state, workflow, steps, label, overlap>>
  BY DEF AdvanceTasks, serviceVars
<1>7. Rows' = Rows
  BY <1>6 DEF Rows, HasRow
<1>8. Known' = Rows
  BY <1>5, <1>7 DEF Known
<1>9. ASSUME NEW l \in Launches(S), NEW t \in Rows, l[2] = 0
      PROVE  label[t] # <<steps[l[1]].name, 0>>
  <2>1. ~\E u \in S : label[u] = <<steps[l[1]].name, 0>>
    <3>1. PICK j \in {k \in get_ready_steps(steps, CompletedNames(S)) :
                        ~\E u \in S : label[u] = <<steps[k].name, 0>>} :
            \E k \in IF steps[j].fan_out = 0 THEN {0} ELSE 1..steps[j].fan_out : l = <<j, k>>
      BY DEF Launches
    <3>2. l[1] = j
      BY <3>1
    <3> QED
      BY <3>1, <3>2
  <2>2. PICK u \in S : label[u] = label[t]
    BY DEF StepRows
  <2> QED
    BY <2>1, <2>2
<1>10. Rows \subseteq Known
  BY DEF Known
<1>11. \A d, e \in Callers : Active(d)' /\ Active(e)' => d = e
  BY <1>4 DEF Active
<1>12. ASSUME DistinctNames'
       PROVE  /\ \A t, u \in Known' : label'[t] = label'[u] /\ label'[t][2] = 0 => t = u
              /\ \A d \in Callers : \A l \in calls'[d].todo :
                   l[2] = 0 => \A t \in Known' : label'[t] # <<steps'[l[1]].name, 0>>
  <2>1. DistinctNames
    BY <1>6, <1>12 DEF DistinctNames
  <2>2. \A t, u \in Known' : label'[t] = label'[u] /\ label'[t][2] = 0 => t = u
    BY <1>6, <1>8, <1>10, <2>1 DEF SoloInv
  <2>3. \A d \in Callers : \A l \in calls'[d].todo :
          l[2] = 0 => \A t \in Known' : label'[t] # <<steps'[l[1]].name, 0>>
    BY <1>3, <1>5, <1>6, <1>8, <1>9
  <2> QED
    BY <2>2, <2>3
<1> QED
  BY <1>1, <1>6, <1>11, <1>12 DEF SoloInv

\* A launch by a call that runs alone gives a step its first row.
LEMMA LaunchSolo ==
  ASSUME LineageInv, SoloInv, NEW c \in Callers, Launch(c)
  PROVE  SoloInv'
<1> SUFFICES ASSUME ~overlap
             PROVE  SoloInv'
  BY DEF SoloInv, Launch
<1>1. PICK f \in Tasks : f = Fresh /\ label[f] = NoLabel
  BY FreshIsUnused DEF Launch
<1>2. PICK l \in calls[c].todo :
        /\ label' = [label EXCEPT ![f] = <<steps[l[1]].name, l[2]>>]
        /\ calls' = [calls EXCEPT ![c] = [calls[c] EXCEPT !.todo = @ \ {l}, !.rows = @ \cup {f}]]
  BY <1>1 DEF Launch, Goes
<1>3. UNCHANGED <<state, workflow, steps, overlap>> /\ calls[c].pc = "launch"
  BY DEF Launch
<1>4. /\ workflow \notin Final
      /\ \A d \in Callers : d # c => calls'[d] = calls[d] /\ calls[d].pc = "idle"
  BY <1>2, <1>3, OthersIdle DEF SoloInv, Active, LineageInv, WorkflowTypeOK
<1>5. calls'[c] = [calls[c] EXCEPT !.todo = @ \ {l}, !.rows = @ \cup {f}]
  BY <1>2 DEF LineageInv, WorkflowTypeOK
<1>6. calls'[c].rows = calls[c].rows \cup {f} /\ calls'[c].todo = calls[c].todo \ {l}
  BY <1>5 DEF LineageInv, WorkflowTypeOK
<1>7. \A d \in Callers : d # c => calls'[d].todo = {}
  BY <1>4, IdleOwesNothing
<1>8. Known' = Known \cup {f}
  <2>1. Rows' = Rows
    BY <1>3 DEF Rows, HasRow
  <2>2. (UNION {calls'[d].rows : d \in Callers}) = (UNION {calls[d].rows : d \in Callers}) \cup {f}
    BY <1>4, <1>6
  <2> QED
    BY <2>1, <2>2 DEF Known
<1>9. Known \subseteq queued
  BY DEF Known, LineageInv, IdsInv, CallInv
<1>10. /\ label'[f] = <<steps[l[1]].name, l[2]>>
       /\ \A t \in Known : t # f /\ label'[t] = label[t]
  BY <1>1, <1>2, <1>9 DEF LineageInv, WorkflowTypeOK, IdsInv
<1>11. \A m \in calls[c].todo : m \in Nat \X Nat /\ m[1] \in DOMAIN steps
  BY DEF LineageInv, WorkflowTypeOK, CallInv, DependenciesMet
<1>12. ASSUME DistinctNames'
       PROVE  /\ \A t, u \in Known' : label'[t] = label'[u] /\ label'[t][2] = 0 => t = u
              /\ \A d \in Callers : \A m \in calls'[d].todo :
                   m[2] = 0 => \A t \in Known' : label'[t] # <<steps'[m[1]].name, 0>>
  <2>1. DistinctNames
    BY <1>3, <1>12 DEF DistinctNames
  <2>2. /\ \A t, u \in Known : label[t] = label[u] /\ label[t][2] = 0 => t = u
        /\ \A m \in calls[c].todo :
             m[2] = 0 => \A t \in Known : label[t] # <<steps[m[1]].name, 0>>
    BY <2>1 DEF SoloInv
  <2>3. \A u \in Known : label'[f][2] = 0 => label'[f] # label'[u]
    BY <1>10, <2>2
  <2>4. \A t, u \in Known' : label'[t] = label'[u] /\ label'[t][2] = 0 => t = u
    BY <1>8, <1>10, <2>2, <2>3
  <2>5. ASSUME NEW m \in calls[c].todo \ {l}, m[2] = 0
        PROVE  label'[f] # <<steps[m[1]].name, 0>>
    <3> SUFFICES ASSUME steps[l[1]].name = steps[m[1]].name, l[2] = 0
                 PROVE  FALSE
      BY <1>10
    <3>1. l[1] = m[1]
      BY <1>11, <2>1 DEF DistinctNames
    <3> QED
      BY <1>11, <2>5, <3>1
  <2>6. \A d \in Callers : \A m \in calls'[d].todo :
          m[2] = 0 => \A t \in Known' : label'[t] # <<steps'[m[1]].name, 0>>
    BY <1>3, <1>6, <1>7, <1>8, <1>10, <2>2, <2>5
  <2> QED
    BY <2>4, <2>6
<1>13. \A d, e \in Callers : Active(d)' /\ Active(e)' => d = e
  BY <1>4 DEF Active
<1> QED
  BY <1>3, <1>4, <1>12, <1>13 DEF SoloInv

\* A call that returns, or a first one that starts, keeps SoloInv.
LEMMA OtherCallsSolo ==
  ASSUME LineageInv, SoloInv, NEW c \in Callers, NEW t,
         \/ AdvanceWorkflow(c) \/ Finish(c) \/ LaunchRaises(c) \/ LaunchCommit(c)
         \/ CallFails(c) \/ OnTaskCompleted(c, t)
  PROVE  SoloInv'
<1>1. /\ calls'[c] \in {Idle, Call("tasks"), Call("workflow")}
      /\ Goes(c, calls'[c])
      /\ UNCHANGED <<steps, label>>
  BY DEF AdvanceWorkflow, Finish, LaunchRaises, LaunchCommit, CallFails, OnTaskCompleted,
         Returns, Goes, LineageInv, WorkflowTypeOK
<1>2. calls'[c].todo = {} /\ calls'[c].rows = {}
  BY <1>1 DEF Call, Idle
<1>3. Rows' \subseteq Rows \cup calls[c].rows
  BY DEF Rows, HasRow, serviceVars, AdvanceWorkflow, Finish, LaunchRaises, LaunchCommit,
         CallFails, OnTaskCompleted
<1>4. \A d \in Callers : calls'[d].rows \subseteq calls[d].rows
  BY <1>1, <1>2 DEF Goes, LineageInv, WorkflowTypeOK
<1>5. KnownStays
  BY <1>1, <1>3, <1>4 DEF KnownStays, Known
<1>6. ~overlap' => ~overlap /\ \A d \in Callers : d # c => ~Active(d)
  <2>1. CASE OnTaskCompleted(c, t)
    BY <2>1 DEF OnTaskCompleted
  <2>2. CASE ~OnTaskCompleted(c, t)
    <3>1. Active(c) /\ UNCHANGED overlap
      BY <2>2 DEF Active, AdvanceWorkflow, Finish, LaunchRaises, LaunchCommit, CallFails
    <3> QED
      BY <3>1, OthersIdle
  <2> QED
    BY <2>1, <2>2
<1>7. workflow' \in Final => calls'[c].pc \in {"idle", "workflow"}
  BY <1>1 DEF Final, AdvanceWorkflow, Finish, LaunchRaises, LaunchCommit, CallFails,
              OnTaskCompleted, Returns, Goes, LineageInv, WorkflowTypeOK, Call, Idle
<1> QED
  BY <1>1, <1>2, <1>5, <1>6, <1>7, SoloStays

-----------------------------------------------------------------------------
(* Theorems *)

\* Every step of advance(), of a notification or of a task preserves LineageInv.
LEMMA LineageNext ==
  ASSUME LineageInv, [Next]_vars
  PROVE  LineageInv'
<1>1. Grows
  BY StepGrows
<1>2. ASSUME NEW c \in Callers, Advance(c) PROVE LineageInv'
  BY <1>1, <1>2, AdvanceWorkflowLineage, AdvanceTasksLineage, FinishLineage, LaunchLineage,
     LaunchRaisesLineage, LaunchCommitLineage DEF Advance
<1>3. CASE UNCHANGED vars
  <2>1. UNCHANGED <<state, queued, committed, dead, answer, workflow, steps, label, calls, faults>>
    BY <1>3 DEF vars, serviceVars, engineVars
  <2>2. \A c \in Callers : CallInv(c)'
    BY <1>1, <2>1, CallStays DEF LineageInv, WorkflowTypeOK
  <2>3. WorkflowTypeOK' /\ IdsInv' /\ FreshInv' /\ OrphanNeedsFailure'
    BY <2>1 DEF LineageInv, WorkflowTypeOK, IdsInv, FreshInv, OrphanNeedsFailure, Rows, HasRow,
                Committed, Active
  <2> QED
    BY <1>1, <2>1, <2>2, <2>3, OutcomeStays DEF LineageInv
<1> QED
  BY <1>1, <1>2, <1>3, SubmitInvalidLineage, SubmitLineage, CallFailsLineage,
     OnTaskCompletedLineage, TaskStepLineage DEF Next

\* What advance() concludes from the rows it read stays true until it acts on it.
THEOREM LineageInvariant == Spec => []LineageInv
  BY LineageInit, LineageNext, PTL DEF Spec

\* Every envelope advance() publishes is of a step whose dependencies have all
\* committed their effects (engine.py: "A step runs when all depends_on steps
\* have succeeded").
THEOREM StepsInOrder == Spec => []LaunchedAfterDependencies
<1>1. LineageInv => LaunchedAfterDependencies
  BY DEF LineageInv
<1> QED
  BY <1>1, LineageInvariant, PTL

\* update_workflow_state never writes "completed" without the effects of all
\* steps or "failed" without a dead-lettered task.
THEOREM BackedOutcome == Spec => []OutcomeIsBacked
<1>1. LineageInv => OutcomeIsBacked
  BY DEF LineageInv
<1> QED
  BY <1>1, LineageInvariant, PTL

\* An envelope without a row comes from an advance() that raised.
THEOREM NoOrphans == Spec => []OrphanNeedsFailure
<1>1. LineageInv => OrphanNeedsFailure
  BY DEF LineageInv
<1> QED
  BY <1>1, LineageInvariant, PTL

\* Every step preserves SoloInv.
LEMMA SoloNext ==
  ASSUME LineageInv, SoloInv, [Next]_vars
  PROVE  SoloInv'
<1>1. CASE SubmitInvalid
  BY <1>1, SoloQuiet DEF SubmitInvalid, serviceVars, Rows, HasRow
<1>2. ASSUME NEW c \in Callers, Advance(c) PROVE SoloInv'
  BY <1>2, AdvanceTasksSolo, LaunchSolo, OtherCallsSolo DEF Advance
<1>3. ASSUME NEW t \in Tasks, TaskStep(t) PROVE SoloInv'
  <2>1. UNCHANGED <<overlap, workflow, steps, label, calls>>
    BY <1>3 DEF TaskStep, engineVars
  <2>2. Rows' \subseteq Rows
    BY <1>3 DEF TaskStep, Start, Commit, DeadLetter, Requeue, MarkDead, Cancel, Show, Rows,
                HasRow, LineageInv, WorkflowTypeOK
  <2> QED
    BY <2>1, <2>2, SoloQuiet
<1>4. CASE UNCHANGED vars
  BY <1>4, SoloQuiet DEF vars, serviceVars, engineVars, Rows, HasRow
<1> QED
  BY <1>1, <1>2, <1>3, <1>4, SubmitSolo, OtherCallsSolo DEF Next

\* An advance() that runs alone knows all rows of the workflow and finds it
\* running.
THEOREM SoloInvariant == Spec => []SoloInv
<1>1. Init => SoloInv
  BY DEF Init, ServiceInit, SoloInv, Active, Idle, Known, Rows, HasRow, Final
<1> QED
  BY <1>1, LineageInvariant, SoloNext, PTL DEF Spec

\* The check "step_name in step_states" launches a step once, as long as calls
\* do not overlap and names are distinct.
THEOREM SingleLaunch == Spec => []LaunchedOnce
<1>1. SoloInv => LaunchedOnce
  BY DEF SoloInv, LaunchedOnce, Known
<1> QED
  BY <1>1, SoloInvariant, PTL

\* The check of workflow.state keeps an outcome, as long as calls do not overlap.
THEOREM FinalOutcome == Spec => OutcomeIsFinal
<1>1. ASSUME LineageInv, SoloInv, [Next]_vars, ~overlap, workflow \in Final
      PROVE  workflow' = workflow
  <2>1. ASSUME NEW c \in Callers, Submit(c) PROVE FALSE
    BY <1>1, <2>1 DEF Submit, LineageInv, FreshInv, Final
  <2>2. ASSUME NEW c \in Callers, Advance(c) PROVE workflow' = workflow
    BY <1>1, <2>2 DEF SoloInv, Advance, AdvanceWorkflow, AdvanceTasks, Finish, Launch,
                      LaunchRaises, LaunchCommit
  <2> QED
    BY <1>1, <2>1, <2>2 DEF Next, SubmitInvalid, CallFails, OnTaskCompleted, TaskStep, engineVars,
                            vars
<1>2. LineageInv /\ SoloInv /\ [Next]_vars =>
        [~overlap /\ workflow \in Final => workflow' = workflow]_vars
  BY <1>1
<1> QED
  BY <1>2, LineageInvariant, SoloInvariant, PTL DEF Spec, OutcomeIsFinal

=============================================================================

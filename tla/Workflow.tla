------------------------------ MODULE Workflow ------------------------------
(***************************************************************************)
(* dtq/workflow/engine.py on top of what QueueService promises: one        *)
(* workflow from POST /v1/workflows on, and the concurrent advance() calls *)
(* that launch its steps.  Each await of advance() that another call or a  *)
(* worker can interfere with is a step of its own.                         *)
(*                                                                         *)
(* A step is [name, depends_on, fan_out, retry]: fan_out is the length of  *)
(* the list found in the upstream result (0: no fan_out; an absent or      *)
(* empty list counts as one item), retry tells whether the step has a      *)
(* retry object.  A task is labelled <<name, 0>>, or <<name, k>> for the   *)
(* k-th sibling, which the code names "name[k-1]".                         *)
(***************************************************************************)
EXTENDS Dag, QueueService

CONSTANTS
  Specs,      \* the step lists a client may submit
  Callers,    \* bound on the advance() calls that run at once
  Notified,   \* whether anything calls on_task_completed
  MaxFaults   \* bound on the number of faults

ASSUME WorkflowAssumption ==
  /\ Notified \in BOOLEAN /\ MaxFaults \in Nat
  /\ \A s \in Specs : \A i \in DOMAIN s : i \in Nat /\ s[i].fan_out \in Nat

VARIABLES
  answer,    \* of POST /v1/workflows
  workflow,  \* workflows.state ("none": no row)
  steps,     \* workflows.spec
  label,     \* label of the task launched under an id (NoLabel: id unused)
  calls,     \* progress of the advance() calls
  told,      \* outcomes on_task_completed was called for
  overlap,   \* two advance() calls have run at once
  faults     \* faults so far

engineVars == <<answer, workflow, steps, label, calls, told, overlap>>
vars == <<serviceVars, engineVars, faults>>

NoLabel == <<>>
Idle == [pc |-> "idle", todo |-> {}, rows |-> {}]
Call(pc) == [Idle EXCEPT !.pc = pc]
Active(c) == calls[c].pc # "idle"

Init ==
  /\ ServiceInit
  /\ answer = "none"
  /\ workflow = "none"
  /\ steps = <<>>
  /\ label = [t \in Tasks |-> NoLabel]
  /\ calls = [c \in Callers |-> Idle]
  /\ told = {}
  /\ overlap = FALSE
  /\ faults = 0

Fault ==
  /\ faults < MaxFaults
  /\ faults' = faults + 1

\* Call c goes on as r.
Goes(c, r) == calls' = [calls EXCEPT ![c] = r]

\* Call c is over; if it is the one submit() made, the request is answered.
Returns(c, result) ==
  /\ Goes(c, Idle)
  /\ answer' = IF answer = "submitted" THEN result ELSE answer

-----------------------------------------------------------------------------
(* POST /v1/workflows and submit() *)

\* validate_dag raises WorkflowCycleError before anything is written.
SubmitInvalid ==
  /\ answer = "none"
  /\ \E s \in Specs : ~validate_dag(s)
  /\ answer' = "rejected"
  /\ UNCHANGED <<serviceVars, workflow, steps, label, calls, told, overlap, faults>>

\* create_workflow is committed, then advance() is called.
Submit(c) ==
  /\ answer = "none"
  /\ \E s \in Specs :
       /\ validate_dag(s)
       /\ steps' = s
  /\ answer' = "submitted"
  /\ workflow' = "running"
  /\ Goes(c, Call("workflow"))
  /\ UNCHANGED <<serviceVars, label, told, overlap, faults>>

-----------------------------------------------------------------------------
(* advance() *)

\* Faulty variant: the state of the workflow is not looked at.
AdvanceWorkflow_any(c) ==
  /\ calls[c].pc = "workflow"
  /\ Goes(c, Call("tasks"))
  /\ UNCHANGED <<serviceVars, answer, workflow, steps, label, told, overlap, faults>>

\* get_workflow
AdvanceWorkflow(c) ==
  /\ calls[c].pc = "workflow"
  /\ IF workflow = "running" THEN Goes(c, Call("tasks")) /\ UNCHANGED answer
                             ELSE Returns(c, "created")
  /\ UNCHANGED <<serviceVars, workflow, steps, label, told, overlap, faults>>

Rows == {t \in Tasks : HasRow(t)}

\* step_states: the row that the loop over the tasks sees last under each label
\* (the SELECT has no ORDER BY).
StepRows ==
  {S \in SUBSET Rows :
     /\ {label[t] : t \in S} = {label[t] : t \in Rows}
     /\ \A t, u \in S : label[t] = label[u] => t = u}

\* Faulty variant: a running step counts as completed.
CompletedNames_running(S) == {label[t][1] : t \in {u \in S : label[u][2] = 0}}

\* completed_steps, as far as it can match the name of a step.
CompletedNames(S) ==
  {label[t][1] : t \in {u \in S : state[u] = "succeeded" /\ label[u][2] = 0}}

DeadSteps(S) == {t \in S : state[t] = "dead"}

\* Faulty variant: steps that have a task are launched again.
Launches_again(S) ==
  UNION {{<<i, k>> : k \in IF steps[i].fan_out = 0 THEN {0} ELSE 1..steps[i].fan_out} :
           i \in get_ready_steps(steps, CompletedNames(S))}

\* The tasks to create: a ready step that has no task under its own name, once
\* or once per item.  The siblings of a fan-out are not under its own name.
Launches(S) ==
  UNION {{<<i, k>> : k \in IF steps[i].fan_out = 0 THEN {0} ELSE 1..steps[i].fan_out} :
           i \in {j \in get_ready_steps(steps, CompletedNames(S)) :
                    ~\E t \in S : label[t] = <<steps[j].name, 0>>}}

\* get_tasks_for_workflow and what follows from it.
AdvanceTasks(c) ==
  /\ calls[c].pc = "tasks"
  /\ \E S \in StepRows :
       Goes(c, IF DeadSteps(S) # {} THEN Call("failed")
               ELSE IF StepNames(steps) \subseteq CompletedNames(S) THEN Call("completed")
               ELSE [pc |-> "launch", todo |-> Launches(S), rows |-> {}])
  /\ UNCHANGED <<serviceVars, answer, workflow, steps, label, told, overlap, faults>>

\* update_workflow_state and commit: the UPDATE does not look at the old state.
Finish(c) ==
  /\ calls[c].pc \in {"failed", "completed"}
  /\ workflow' = calls[c].pc
  /\ Returns(c, "created")
  /\ UNCHANGED <<serviceVars, steps, label, told, overlap, faults>>

\* uuid4(): which unused id it is makes no difference.
Fresh == CHOOSE t \in Tasks : label[t] = NoLabel

Earlier(l, m) == l[1] < m[1] \/ (l[1] = m[1] /\ l[2] <= m[2])

\* create_task and publish for the next task: its row is not committed yet, its
\* envelope is already out.
Launch(c) ==
  /\ calls[c].pc = "launch"
  /\ \E t \in Tasks : label[t] = NoLabel
  /\ \E l \in calls[c].todo :
       /\ \A m \in calls[c].todo : Earlier(l, m)
       /\ steps[l[1]].retry
       /\ label' = [label EXCEPT ![Fresh] = <<steps[l[1]].name, l[2]>>]
       /\ queued' = queued \cup {Fresh}
       /\ Goes(c, [calls[c] EXCEPT !.todo = @ \ {l}, !.rows = @ \cup {Fresh}])
  /\ UNCHANGED <<state, committed, dead, answer, workflow, steps, told, overlap, faults>>

\* step_spec.get("retry", {}) is None for a step without retry, as model_dump()
\* writes it: the call raises and the rows of the transaction are rolled back.
LaunchRaises(c) ==
  /\ calls[c].pc = "launch"
  /\ \E l \in calls[c].todo :
       /\ \A m \in calls[c].todo : Earlier(l, m)
       /\ ~steps[l[1]].retry
  /\ Returns(c, "error")
  /\ UNCHANGED <<serviceVars, workflow, steps, label, told, overlap, faults>>

\* Faulty variant: the session is closed without a commit.
LaunchCommit_none(c) ==
  /\ calls[c].pc = "launch" /\ calls[c].todo = {}
  /\ Returns(c, "created")
  /\ UNCHANGED <<serviceVars, workflow, steps, label, told, overlap, faults>>

LaunchCommit(c) ==
  /\ calls[c].pc = "launch" /\ calls[c].todo = {}
  /\ state' = [t \in Tasks |-> IF t \in calls[c].rows THEN "pending" ELSE state[t]]
  /\ Returns(c, "created")
  /\ UNCHANGED <<queued, committed, dead, workflow, steps, label, told, overlap, faults>>

\* A call of the store or of the broker raises, or the process dies.
CallFails(c) ==
  /\ Active(c)
  /\ Fault
  /\ Returns(c, "error")
  /\ UNCHANGED <<serviceVars, workflow, steps, label, told, overlap>>

\* Faulty variant: a dead task is not reported.
OnTaskCompleted_success(c, t) ==
  /\ Notified
  /\ ~Active(c)
  /\ state[t] = "succeeded" /\ <<t, state[t]>> \notin told
  /\ told' = told \cup {<<t, state[t]>>}
  /\ overlap' = (overlap \/ \E d \in Callers : Active(d))
  /\ Goes(c, Call("workflow"))
  /\ UNCHANGED <<serviceVars, answer, workflow, steps, label, faults>>

OnTaskCompleted(c, t) ==
  /\ Notified
  /\ ~Active(c)
  /\ state[t] \in {"succeeded", "dead"} /\ <<t, state[t]>> \notin told
  /\ told' = told \cup {<<t, state[t]>>}
  /\ overlap' = (overlap \/ \E d \in Callers : Active(d))
  /\ Goes(c, Call("workflow"))
  /\ UNCHANGED <<serviceVars, answer, workflow, steps, label, faults>>

Advance(c) ==
  \/ AdvanceWorkflow(c) \/ AdvanceTasks(c) \/ Finish(c)
  \/ Launch(c) \/ LaunchRaises(c) \/ LaunchCommit(c)

-----------------------------------------------------------------------------
(* The tasks of the workflow, as QueueService lets them go.  It takes a      *)
(* fault (a redelivery, a requeue) to move a task that has settled, and one   *)
(* to exhaust its attempts while the transaction that creates it is open.     *)

Settled(t) == Committed(t) \/ t \in dead

TaskStep(t) ==
  /\ \/ /\ Start(t) \/ Commit(t, t) \/ DeadLetter(t) \/ Requeue(t)
        /\ IF Settled(t) \/ ~HasRow(t) THEN Fault ELSE UNCHANGED faults
     \/ /\ MarkDead(t) \/ Cancel(t)
        /\ UNCHANGED faults
  /\ UNCHANGED engineVars

Next ==
  \/ SubmitInvalid
  \/ \E c \in Callers :
       \/ Submit(c) \/ Advance(c) \/ CallFails(c)
       \/ \E t \in Tasks : OnTaskCompleted(c, t)
  \/ \E t \in Tasks : TaskStep(t)

Spec == Init /\ [][Next]_vars

(***************************************************************************)
(* Fairness.  A call that runs goes on; a completed task is reported, if   *)
(* anything reports it; a task with a row settles and is shown as dead if  *)
(* it died, as the engine's own liveness property says.                    *)
(***************************************************************************)
Fairness ==
  /\ \A c \in Callers : WF_vars(Advance(c))
  /\ \A t \in Tasks :
       /\ WF_vars(\E c \in Callers : OnTaskCompleted(c, t))
       /\ WF_vars((Commit(t, t) \/ DeadLetter(t)) /\ HasRow(t) /\ ~Settled(t)
                    /\ UNCHANGED <<engineVars, faults>>)
       /\ WF_vars(MarkDead(t) /\ UNCHANGED <<engineVars, faults>>)

FairSpec == Spec /\ Fairness

-----------------------------------------------------------------------------
(* Properties *)

Final == {"completed", "failed"}
HasEffect(name) == \E t \in Tasks : label[t] = <<name, 0>> /\ Committed(t)

\* "A step runs when all depends_on steps have succeeded": every envelope that
\* advance() ever published is of a step all of whose dependencies have their
\* effect, however the reads, commits and redeliveries interleave.
LaunchedAfterDependencies ==
  \A t \in queued : \E i \in DOMAIN steps :
    /\ label[t][1] = steps[i].name
    /\ \A dep \in DependsOn(steps[i]) : HasEffect(dep)

\* A completed workflow has the effect of each of its steps, and a failed one has
\* a dead-lettered task, although advance() decides on rows it read earlier.
OutcomeIsBacked ==
  /\ workflow = "completed" => \A name \in StepNames(steps) : HasEffect(name)
  /\ workflow = "failed" => \E t \in dead : label[t] # NoLabel

\* No two steps have the same name; validate_dag does not look at it.
DistinctNames == \A i, k \in DOMAIN steps : steps[i].name = steps[k].name => i = k

\* As long as advance() calls do not overlap, a step without fan_out is launched
\* once: the later call sees the committed row of the earlier one.
LaunchedOnce ==
  ~overlap /\ DistinctNames =>
    \A t, u \in Rows : label[t] = label[u] /\ label[t][2] = 0 => t = u

\* The envelope is published before the row is committed; an envelope that stays
\* without a row comes from a call that raised.
OrphanNeedsFailure ==
  \A t \in queued :
    \/ HasRow(t)
    \/ \E c \in Callers : t \in calls[c].rows
    \/ faults > 0 \/ \E i \in DOMAIN steps : ~steps[i].retry

\* As long as advance() calls do not overlap, the outcome of a workflow stays.
OutcomeIsFinal ==
  [][~overlap /\ workflow \in Final => workflow' = workflow]_vars

\* A workflow without fan_out, all of whose steps can be launched, ends unless
\* something fails, if task completions are reported to it.
WorkflowEnds ==
  workflow = "running" ~>
    \/ workflow \in Final
    \/ faults > 0
    \/ \E i \in DOMAIN steps : steps[i].fan_out > 0 \/ ~steps[i].retry

\* engine.py: "A step runs when all depends_on steps have succeeded."
StepRuns ==
  \A k \in 1..3 :
    (/\ workflow = "running" /\ k \in DOMAIN steps
     /\ \A dep \in DependsOn(steps[k]) : HasEffect(dep))
      ~> (k \in DOMAIN steps => \E t \in queued : label[t][1] = steps[k].name)

=============================================================================

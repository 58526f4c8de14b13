-------------------------------- MODULE Dag --------------------------------
(***************************************************************************)
(* dtq/workflow/dag.py.  A workflow is the list of its steps; depends_on   *)
(* is a list too, so that a name may occur in it twice.  Nothing stops two *)
(* steps from having the same name.                                        *)
(***************************************************************************)
EXTENDS Integers, Sequences, FiniteSets, FiniteSetsExt, Functions

StepNames(steps) == {steps[i].name : i \in DOMAIN steps}

DependsOn(step) == Range(step.depends_on)

\* all_names: the steps and whatever they depend on.
AllNames(steps) == StepNames(steps) \cup UNION {DependsOn(steps[i]) : i \in DOMAIN steps}

Occurrences(list, x) == Cardinality({k \in DOMAIN list : list[k] = x})

\* How often name occurs in graph[dep].
Edges(steps, dep, name) ==
  MapThenSumSet(LAMBDA i : Occurrences(steps[i].depends_on, dep),
                {i \in DOMAIN steps : steps[i].name = name})

InDegree(steps, name) == MapThenSumSet(LAMBDA dep : Edges(steps, dep, name), AllNames(steps))

UnknownDependency(steps) == AllNames(steps) # StepNames(steps)

\* Faulty variant: an edge that occurs twice is counted down once.
Pop_once(steps, s) ==
  LET node == CHOOSE n \in s.queue : TRUE
      Left(name) == s.degree[name] - (IF Edges(steps, node, name) > 0 THEN 1 ELSE 0)
  IN  [topo |-> Append(s.topo, node),
       degree |-> [name \in AllNames(steps) |-> Left(name)],
       queue |-> (s.queue \ {node}) \cup
                   {name \in AllNames(steps) : Left(name) = 0 /\ s.degree[name] # 0}]

\* One turn of Kahn's loop.  The deque is a set here: its order comes from the
\* iteration over a Python set and decides nothing but the order of the result.
Pop(steps, s) ==
  LET node == CHOOSE n \in s.queue : TRUE
      Left(name) == s.degree[name] - Edges(steps, node, name)
  IN  [topo |-> Append(s.topo, node),
       degree |-> [name \in AllNames(steps) |-> Left(name)],
       queue |-> (s.queue \ {node}) \cup
                   {name \in AllNames(steps) : Left(name) = 0 /\ s.degree[name] # 0}]

\* Kahn's loop, run until the deque is empty; every turn consumes a name.
TopoOrder(steps) ==
  LET names == AllNames(steps)
      degree == [name \in names |-> InDegree(steps, name)]
      turn[n \in 0..Cardinality(names)] ==
        IF n = 0 THEN [topo |-> <<>>, degree |-> degree,
                       queue |-> {name \in names : degree[name] = 0}]
        ELSE IF turn[n - 1].queue = {} THEN turn[n - 1]
        ELSE Pop(steps, turn[n - 1])
  IN  turn[Cardinality(names)].topo

\* validate_dag returns instead of raising WorkflowCycleError.
validate_dag(steps) ==
  /\ ~UnknownDependency(steps)
  /\ Len(TopoOrder(steps)) = Cardinality(AllNames(steps))

\* Faulty variant: one satisfied dependency is enough.
get_ready_steps_any(steps, completed) ==
  {i \in DOMAIN steps :
     /\ steps[i].name \notin completed
     /\ DependsOn(steps[i]) = {} \/ DependsOn(steps[i]) \cap completed # {}}

\* The positions of the steps whose dependencies are all completed.
get_ready_steps(steps, completed) ==
  {i \in DOMAIN steps :
     /\ steps[i].name \notin completed
     /\ DependsOn(steps[i]) \subseteq completed}

-----------------------------------------------------------------------------
(* The reference: acyclicity without an algorithm. *)

\* No set of steps in which each waits for another of the set.
Acyclic(steps) ==
  ~\E S \in (SUBSET StepNames(steps)) \ {{}} :
     \A name \in S : \E i \in DOMAIN steps :
       steps[i].name = name /\ DependsOn(steps[i]) \cap S # {}

WellFormed(steps) == ~UnknownDependency(steps) /\ Acyclic(steps)

\* order lists every step once, each behind everything it depends on.
TopologicalOrder(steps, order) ==
  /\ Range(order) = StepNames(steps)
  /\ IsInjective(order)
  /\ \A i \in DOMAIN steps : \A k \in DOMAIN order :
       order[k] = steps[i].name =>
         \A dep \in DependsOn(steps[i]) : \E j \in 1..(k - 1) : order[j] = dep

=============================================================================

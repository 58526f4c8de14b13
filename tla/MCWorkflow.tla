----------------------------- MODULE MCWorkflow -----------------------------
(* Small workflows, and all small step lists for validate_dag. *)
EXTENDS Lineage, TLC

CONSTANTS a, b, c, x, t1, t2, t3, t4

Step(name, deps, fan, retry) ==
  [name |-> name, depends_on |-> deps, fan_out |-> fan, retry |-> retry]
Plain(name, deps) == Step(name, deps, 0, TRUE)

\* Two roots and a join; a chain; a fan-out of two and its fan-in; a root whose
\* sibling has no retry object; a name used twice; a cycle; a dependency on no step.
Join == <<Plain(a, <<>>), Plain(b, <<>>), Plain(c, <<a, b>>)>>
Chain == <<Plain(a, <<>>), Plain(b, <<a, a>>)>>
FanOut == <<Plain(a, <<>>), Step(b, <<a>>, 2, TRUE), Plain(c, <<b>>)>>
NoRetry == <<Plain(a, <<>>), Step(b, <<>>, 0, FALSE)>>
Twice == <<Plain(a, <<>>), Plain(a, <<>>)>>
Cycle == <<Plain(a, <<b>>), Plain(b, <<a>>)>>
Unknown == <<Plain(a, <<x>>)>>

AllShapes == {Join, Chain, FanOut, NoRetry, Twice, Cycle, Unknown}
OneChain == {Chain}

\* Lists of one to three steps named a, b or c, with up to two dependencies, the
\* same one twice or an unknown one included.
Dependencies == {<<>>} \cup {<<d>> : d \in {a, b, c, x}} \cup {<<d, e>> : d, e \in {a, b, c}}
SmallSteps == {Plain(name, deps) : name \in {a, b, c}, deps \in Dependencies}
SmallLists == UNION {[1..n -> SmallSteps] : n \in 1..2} \cup
              {<<Plain(a, d), Plain(b, e), Plain(c, f)>> : d, e, f \in Dependencies}

Misjudged ==
  {s \in SmallLists :
     \/ validate_dag(s) # WellFormed(s)
     \/ validate_dag(s) /\ ~TopologicalOrder(s, TopoOrder(s))}

\* Kahn's algorithm as dag.py runs it accepts exactly the acyclic lists without
\* unknown dependencies, repeated edges and repeated names included, and puts
\* every step of an accepted list behind its dependencies.
KahnDecides == answer = "none" => Misjudged = {}

=============================================================================

-------------------------- MODULE MCExecutionEngine --------------------------
(***************************************************************************)
(* The execution of plans on small instances: the callers of execute_plan, *)
(* the adaptive executor above it, and the graphs of tasks.  They share    *)
(* no state, so each behaviour drives the one chosen in the initial state. *)
(***************************************************************************)
EXTENDS ExecutionEngine, AdaptiveExecution, TaskGraphs, TLC

CONSTANTS r1, i1, i2

VARIABLE driven     \* the part this behaviour drives

AllGranted == [plans |-> NodeIds, capabilities |-> NodeIds]

\* What is not driven has one initial state only.
PlansInit ==
    /\ driven \in {"engine", "adaptive", "graphs"}
    /\ Init /\ AdaptiveInit /\ GraphInit
    /\ driven # "graphs" => specs = <<>> /\ grants = AllGranted
    /\ driven # "engine" => call[r1].id = i1

PlansNext ==
    \/ /\ driven = "engine" /\ Next
       /\ UNCHANGED <<driven, adaptiveVars, graphVars>>
    \/ /\ driven = "adaptive" /\ AdaptiveNext
       /\ UNCHANGED <<driven, vars, graphVars>>
    \/ /\ driven = "graphs" /\ GraphNext
       /\ UNCHANGED <<driven, vars, adaptiveVars>>

PlansSpec == PlansInit /\ [][PlansNext]_<<driven, vars, adaptiveVars, graphVars>>

-----------------------------------------------------------------------------
OneRunner == {r1}
TwoIdentities == {i1, i2}

-----------------------------------------------------------------------------
\* A plan that looks and saves, and replacements that are good, too long, doubled,
\* of an unknown tool, empty, or collide with the steps that remain.
StepOf(id, tool) == [id |-> id, tool |-> tool]
MCPlans == {<<StepOf("a", "look"), StepOf("b", "save")>>}
MCTools == [look |-> "read_only", find |-> "read_only", save |-> "write"]
MCReplacements ==
    {<<>>, <<StepOf("a", "find")>>, <<StepOf("b", "look")>>, <<StepOf("c", "fly")>>,
     <<StepOf("c", "look"), StepOf("d", "save")>>,
     <<StepOf("c", "look"), StepOf("c", "find")>>,
     <<StepOf("c", "look"), StepOf("d", "look"), StepOf("e", "look")>>}

-----------------------------------------------------------------------------
\* Every graph of three nodes, cyclic ones and loops included, submitted in three
\* orders; the empty graph, a doubled node and a missing one; a diamond and a cycle of
\* four nodes, which only the DAG planner takes, and a graph neither takes.
FiveNodes == 1..5
Node(id, dependencies) == [id |-> id, depends_on |-> dependencies]
AllGraphs ==
    {<<>>, <<Node(1, {}), Node(1, {})>>, <<Node(1, {3})>>}
    \cup {[i \in 1..3 |-> Node(order[i], edges[i])] :
            order \in {<<1, 2, 3>>, <<3, 2, 1>>, <<2, 3, 1>>}, edges \in [1..3 -> SUBSET (1..3)]}
    \cup {<<Node(4, {2, 3}), Node(3, {1}), Node(2, {1}), Node(1, {})>>,
          <<Node(1, {}), Node(2, {1, 4}), Node(3, {2}), Node(4, {3})>>,
          [i \in FiveNodes |-> Node(i, {})]}
Granted(plans, capabilities) == [plans |-> plans, capabilities |-> capabilities]
AllOrTwo == {AllGranted, Granted({1, 2}, FiveNodes), Granted(FiveNodes, {1, 2})}
===============================================================================

----------------------------- MODULE TaskGraphs -----------------------------
(***************************************************************************)
(* Tasks that depend on each other, put in order and run:                  *)
(* LongHorizonPlanner.plan and execute_dag (autonomous_agent/task_dag.py), *)
(* which order a graph in layers, and build_workflow_plan                  *)
(* (workflow_engine.py), which orders it by a depth-first visit.  Both are *)
(* given the same submission here, so that their orders can be compared;   *)
(* how long it may be and what permits its nodes is for each to say.       *)
(*                                                                         *)
(* The identifiers are numbers, which sort as the code sorts its names.    *)
(* Nothing is persisted: a run lives in the process.                       *)
(***************************************************************************)
EXTENDS Naturals, Sequences, FiniteSets, SequencesExt

CONSTANTS NodeIds,      \* the identifiers a submission may use
          Submissions,  \* sequences of specs [id, depends_on]
          Grantings,    \* nodes plan_task finds executable, nodes whose capability
                        \* is granted
          DagLimit,     \* MAX_DAG_NODES, which is 16
          WorkflowLimit \* MAX_WORKFLOW_STEPS, which is 12

ASSUME GraphAssumption ==
  /\ NodeIds \subseteq Nat \ {0}
  /\ DagLimit \in Nat /\ WorkflowLimit \in Nat /\ WorkflowLimit <= DagLimit
  /\ \A submission \in Submissions :
       /\ submission \in Seq([id : NodeIds, depends_on : SUBSET NodeIds])
       /\ \A i \in DOMAIN submission : IsFiniteSet(submission[i].depends_on)
  /\ Grantings \subseteq [plans : SUBSET NodeIds, capabilities : SUBSET NodeIds]

VARIABLES specs,        \* what was submitted
          grants,       \* the nodes that may be executed, for either planner
          dag,          \* what LongHorizonPlanner.plan answered, and the order
          execution,    \* execute_dag: next place in the order, and the result
          visit,        \* build_workflow_plan: the calls of visit under way, and order
          workflow,     \* what it answered
          ran           \* history: the nodes whose runner returned true

graphVars == <<specs, grants, dag, execution, visit, workflow, ran>>

Ids == {specs[i].id : i \in DOMAIN specs}
NodeOf(id) == specs[CHOOSE i \in DOMAIN specs : specs[i].id = id]
DependsOn(id) == NodeOf(id).depends_on

Answer == {"none", "refused", "executable"}

GraphTypeOK ==
  /\ specs \in Seq([id : NodeIds, depends_on : SUBSET NodeIds])
  /\ grants.plans \subseteq NodeIds /\ grants.capabilities \subseteq NodeIds
  /\ dag.answer \in Answer \cup {"cyclic", "blocked"} /\ dag.order \in Seq(NodeIds)
  /\ workflow \in Answer
  /\ execution.next \in Nat /\ execution.failed \in NodeIds \cup {0}
  /\ execution.completed \in Seq(NodeIds) /\ execution.blocked \subseteq NodeIds
  /\ execution.ended \in BOOLEAN
  /\ visit.ordered \in Seq(NodeIds) /\ visit.visited \subseteq NodeIds
  /\ ran \subseteq NodeIds

GraphInit ==
  /\ specs \in Submissions /\ grants \in Grantings
  /\ dag = [answer |-> "none", order |-> <<>>] /\ workflow = "none" /\ ran = {}
  /\ execution = [next |-> 1, completed |-> <<>>, blocked |-> {}, failed |-> 0, ended |-> FALSE]
  /\ visit = [stack |-> <<>>, visited |-> {}, ordered |-> <<>>]

-----------------------------------------------------------------------------
\* LongHorizonPlanner.plan

Distinct == Cardinality(Ids) = Len(specs)

\* _validate_specs; the names are known to be no blanks.
ValidSpecs ==
  /\ specs # <<>> /\ Len(specs) <= DagLimit /\ Distinct
  /\ \A i \in DOMAIN specs : specs[i].depends_on \subseteq Ids \ {specs[i].id}

Ready(remaining) == {id \in remaining : DependsOn(id) \cap remaining = {}}

Sorted(set) ==
  [i \in 1..Cardinality(set) |->
     CHOOSE id \in set : Cardinality({other \in set : other < id}) = i - 1]

\* topological_order: one layer after the other, each sorted; shorter than the graph
\* when some nodes never become ready.
Order ==
  LET layers[remaining \in SUBSET Ids] ==
        IF Ready(remaining) = {} THEN <<>>
        ELSE Sorted(Ready(remaining)) \o layers[remaining \ Ready(remaining)]
  IN  layers[Ids]

PlanDag ==
  /\ dag.answer = "none"
  /\ dag' = IF ~ValidSpecs THEN [answer |-> "refused", order |-> <<>>]
            ELSE LET order == Order
                 IN  [order |-> order,
                      answer |-> IF Len(order) < Cardinality(Ids) THEN "cyclic"
                                 ELSE IF Ids \subseteq grants.plans THEN "executable"
                                 ELSE "blocked"]
  /\ UNCHANGED <<specs, grants, execution, visit, workflow, ran>>

-----------------------------------------------------------------------------
\* execute_dag

Executing == dag.answer # "none" /\ ~execution.ended

\* A DAG that is not executable: all its nodes are blocked.  One that was refused
\* has no nodes.
NotExecutable ==
  /\ Executing /\ dag.answer # "executable"
  /\ execution' = [execution EXCEPT !.ended = TRUE,
                                    !.blocked = IF dag.answer = "refused" THEN {} ELSE Ids]
  /\ UNCHANGED <<specs, grants, dag, visit, workflow, ran>>

AtNode == Executing /\ dag.answer = "executable" /\ execution.next <= Len(dag.order)

RunNode ==
  /\ AtNode
  /\ execution' = [execution EXCEPT !.next = @ + 1, !.completed = Append(@, dag.order[execution.next])]
  /\ ran' = ran \cup {dag.order[execution.next]}
  /\ UNCHANGED <<specs, grants, dag, visit, workflow>>

\* One pass over the nodes adds those that depend on one of the affected.
Pass(affected) ==
  LET found[i \in 0..Len(specs)] ==
        IF i = 0 THEN affected
        ELSE IF specs[i].depends_on \cap found[i - 1] = {} THEN found[i - 1]
        ELSE found[i - 1] \cup {specs[i].id}
  IN  found[Len(specs)]

\* Mutant: a single pass.
BugAffected(failed) == Pass({failed}) \ {failed}

\* Passes until nothing changes.
Affected(failed) ==
  LET passes[n \in 0..Len(specs)] == IF n = 0 THEN {failed} ELSE Pass(passes[n - 1])
  IN  passes[Len(specs)] \ {failed}

\* The runner answers false or raises: the loop ends, what depends on the node is
\* blocked, and independent nodes that have not run are in no list.
NodeFails ==
  /\ AtNode
  /\ LET failed == dag.order[execution.next]
     IN  execution' = [execution EXCEPT !.failed = failed, !.blocked = Affected(failed),
                                        !.ended = TRUE]
  /\ UNCHANGED <<specs, grants, dag, visit, workflow, ran>>

AllRan ==
  /\ Executing /\ dag.answer = "executable" /\ execution.next > Len(dag.order)
  /\ execution' = [execution EXCEPT !.ended = TRUE]
  /\ UNCHANGED <<specs, grants, dag, visit, workflow, ran>>

IsSuccess == execution.ended /\ execution.blocked = {} /\ execution.failed = 0

-----------------------------------------------------------------------------
\* build_workflow_plan: a call of visit is [key, left], the dependencies it has
\* still to look at; a node is "visiting" while its call is on the stack.

Visiting == {visit.stack[i].key : i \in DOMAIN visit.stack}
Top == visit.stack[Len(visit.stack)]
Below == SubSeq(visit.stack, 1, Len(visit.stack) - 1)

VisitCall(key) == [key |-> key, left |-> Sorted(DependsOn(key))]

Refuses == workflow' = "refused" /\ UNCHANGED visit

RefuseTasks ==
  /\ workflow = "none" /\ visit.visited = {} /\ visit.stack = <<>>
  /\ specs = <<>> \/ Len(specs) > WorkflowLimit \/ ~Distinct
  /\ Refuses
  /\ UNCHANGED <<specs, grants, dag, execution, ran>>

TasksAccepted == workflow = "none" /\ specs # <<>> /\ Len(specs) <= WorkflowLimit /\ Distinct

\* for key in by_name: in the order of the submission.
VisitRoot ==
  /\ TasksAccepted /\ visit.stack = <<>> /\ visit.visited # Ids
  /\ LET next == CHOOSE i \in DOMAIN specs :
                   /\ specs[i].id \notin visit.visited
                   /\ \A j \in 1..(i - 1) : specs[j].id \in visit.visited
     IN  visit' = [visit EXCEPT !.stack = <<VisitCall(specs[next].id)>>]
  /\ UNCHANGED <<specs, grants, dag, execution, workflow, ran>>

\* Mutant: a node under way counts as visited.
BugSeen == visit.visited \cup Visiting

Seen == visit.visited

VisitDependency ==
  /\ workflow = "none" /\ visit.stack # <<>> /\ Top.left # <<>>
  /\ LET dependency == Head(Top.left)
         advanced == Append(Below, [Top EXCEPT !.left = Tail(@)])
     IN  IF dependency \in Seen
           THEN visit' = [visit EXCEPT !.stack = advanced] /\ UNCHANGED workflow
           ELSE IF dependency \in Visiting \/ dependency \notin Ids
             THEN Refuses
             ELSE /\ visit' = [visit EXCEPT !.stack = Append(advanced, VisitCall(dependency))]
                  /\ UNCHANGED workflow
  /\ UNCHANGED <<specs, grants, dag, execution, ran>>

VisitReturns ==
  /\ workflow = "none" /\ visit.stack # <<>> /\ Top.left = <<>>
  /\ visit' = [stack |-> Below, visited |-> visit.visited \cup {Top.key},
               ordered |-> Append(visit.ordered, Top.key)]
  /\ UNCHANGED <<specs, grants, dag, execution, workflow, ran>>

\* The steps are listed in the order found; each capability has to be granted.
ListSteps ==
  /\ TasksAccepted /\ visit.stack = <<>> /\ visit.visited = Ids
  /\ workflow' = IF Ids \subseteq grants.capabilities THEN "executable" ELSE "refused"
  /\ UNCHANGED <<specs, grants, dag, execution, visit, ran>>

GraphNext ==
  \/ PlanDag \/ NotExecutable \/ RunNode \/ NodeFails \/ AllRan
  \/ RefuseTasks \/ VisitRoot \/ VisitDependency \/ VisitReturns \/ ListSteps

GraphSpec == GraphInit /\ [][GraphNext]_graphVars

-----------------------------------------------------------------------------
\* Reference definitions, over the submitted specs only.

Acyclic == \A set \in (SUBSET Ids) \ {{}} : \E id \in set : DependsOn(id) \cap set = {}

Topological(order) ==
  /\ ToSet(order) = Ids /\ Len(order) = Cardinality(Ids)
  /\ \A i \in DOMAIN order : DependsOn(order[i]) \subseteq {order[j] : j \in 1..(i - 1)}

\* Everything that depends on a node, directly or not: the least set closed so.
Dependents(failed) ==
  LET closed == {set \in SUBSET Ids :
                   \A id \in Ids : DependsOn(id) \cap (set \cup {failed}) # {} => id \in set}
  IN  CHOOSE set \in closed : \A other \in closed : set \subseteq other

\* The two planners agree with the graph and with each other: either accepts a
\* submission only when it has no cycle, no unknown and no doubled node, refuses it for
\* a cycle only when there is one, and puts every node after all it depends on.  What
\* the depth-first visit accepts the layers accept, and a DAG that was ordered is
\* refused as a workflow only for its length or for a capability (topological_order,
\* build_workflow_plan).
OrdersAreTopological ==
  /\ dag.answer \in {"executable", "blocked"} => Acyclic /\ Topological(dag.order)
  /\ dag.answer = "cyclic" => ~Acyclic
  /\ workflow = "executable" => /\ Acyclic /\ Topological(visit.ordered)
                                /\ dag.answer \notin {"refused", "cyclic"}
  /\ dag.answer \in {"executable", "blocked"} /\ workflow = "refused" =>
       Len(specs) > WorkflowLimit \/ ~(Ids \subseteq grants.capabilities)

\* Whatever fails and whenever: a node has run only after all it depends on, what is
\* blocked is exactly what depends on the failed node, none of which has run, and
\* a DAG that was accepted is a success only when every node has run (execute_dag).
FailureReachesDependents ==
  /\ \A id \in ran : DependsOn(id) \subseteq ran
  /\ execution.failed # 0 => /\ execution.blocked = Dependents(execution.failed)
                             /\ execution.blocked \cap ran = {} /\ execution.failed \notin ran
  /\ IsSuccess /\ dag.answer # "refused" => ran = Ids
=============================================================================

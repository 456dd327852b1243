-------------------------- MODULE WorkflowInstances --------------------------
(***************************************************************************)
(* WorkflowStateMachine of packages/workflow-core and the node handlers of *)
(* packages/workflow-tasks.  The methods of the first are functions of an  *)
(* instance: a caller reads one, calls, and stores what is returned, so    *)
(* that two callers may start from the same value.                         *)
(***************************************************************************)
EXTENDS Naturals, Sequences, FiniteSets, SequencesExt, TLC

CONSTANTS
  NodeTypes,     \* the nodes of the definition with their types
  Transitions,   \* pairs <<from, to>>
  StartNode,
  Actors,        \* callers that share the stored instance
  Expressions,   \* of a condition node: [key, op, literal], op "truthy" without literal
  NodeVariables, \* the variables of the workflow context
  Nothing

Nodes == DOMAIN NodeTypes
ASSUME StartAssumption == StartNode \in Nodes
Terminal == {"completed", "cancelled"}

VARIABLES
  stored,        \* the instance: [node, status]
  held,          \* what each caller has read, Nothing if it holds none
  result         \* what the last node handler returned, Nothing before

instanceVars == <<stored, held, result>>

InstanceInit ==
  /\ \E s \in {"draft", "active"} : stored = [node |-> StartNode, status |-> s]
  /\ held = [a \in Actors |-> Nothing]
  /\ result = Nothing

Read(a) ==
  /\ held[a] = Nothing
  /\ held' = [held EXCEPT ![a] = stored]
  /\ UNCHANGED <<stored, result>>

\* The caller stores what the method returned for the instance it holds.
Store(a, instance) ==
  /\ stored' = instance
  /\ held' = [held EXCEPT ![a] = Nothing]
  /\ UNCHANGED result

\* Any status but a terminal one may transition, which makes it active.
Transition(a, target) ==
  /\ held[a] # Nothing /\ held[a].status \notin Terminal
  /\ target \in Nodes /\ <<held[a].node, target>> \in Transitions
  /\ Store(a, [node |-> target, status |-> "active"])

\* Mutant of Complete: an instance may be completed at any node.
CompleteAnywhere(a) ==
  /\ held[a] # Nothing /\ held[a].status \notin Terminal
  /\ Store(a, [held[a] EXCEPT !.status = "completed"])

Complete(a) ==
  /\ held[a] # Nothing /\ held[a].status \notin Terminal
  /\ NodeTypes[held[a].node] = "end"
  /\ Store(a, [held[a] EXCEPT !.status = "completed"])

Suspend(a) ==
  /\ held[a] # Nothing /\ held[a].status = "active"
  /\ Store(a, [held[a] EXCEPT !.status = "suspended"])

Resume(a) ==
  /\ held[a] # Nothing /\ held[a].status = "suspended"
  /\ Store(a, [held[a] EXCEPT !.status = "active"])

Cancel(a) ==
  /\ held[a] # Nothing /\ held[a].status \notin Terminal
  /\ Store(a, [held[a] EXCEPT !.status = "cancelled"])

\* The method throws, or the caller is done with what it has read.
Drop(a) ==
  /\ held[a] # Nothing
  /\ held' = [held EXCEPT ![a] = Nothing]
  /\ UNCHANGED <<stored, result>>

-----------------------------------------------------------------------------

\* evaluateCondition() of nodes.ts: === and == compare without conversion, a variable that is
\* not there is undefined, and a lone name asks for truthiness.
EvaluateExpression(e) ==
  LET actual == IF e.key \in DOMAIN NodeVariables THEN NodeVariables[e.key] ELSE [type |-> "undefined", v |-> 0]
  IN CASE e.op \in {"===", "=="} -> actual = e.literal
       [] e.op \in {"!==", "!="} -> actual # e.literal
       [] OTHER -> ~(\/ actual.type \in {"undefined", "null"}
                     \/ actual.type \in {"number", "boolean", "text"} /\ actual.v = 0)

Done(action, assignee) == [success |-> TRUE, action |-> action, assignee |-> assignee]

Thrown == [success |-> FALSE, action |-> "thrown", assignee |-> "none"]

\* What the handler of a node of this type may return; Thrown where the
\* notification provider or the script function fails.
Results(type, e) ==
  CASE type = "approval" -> {Done("none", "context"), Done("none", "config"), Done("none", "admin")}
    [] type = "notification" -> {Done("none", "none"), Thrown}
    [] type = "script" -> {Done("none", "none"), [success |-> FALSE, action |-> "none", assignee |-> "none"], Thrown}
    [] type = "condition" -> {Done(IF EvaluateExpression(e) THEN "true" ELSE "false", "none")}
    [] OTHER -> {Done("none", "none")}

\* The handler of the node that a caller sees the instance at.
Execute(a) ==
  /\ held[a] # Nothing
  /\ \E e \in Expressions : result' \in Results(NodeTypes[held[a].node], e)
  /\ UNCHANGED <<stored, held>>

InstanceNext ==
  \E a \in Actors :
    \/ Read(a) \/ Drop(a) \/ Execute(a)
    \/ Complete(a) \/ Suspend(a) \/ Resume(a) \/ Cancel(a)
    \/ \E target \in Nodes : Transition(a, target)

InstanceSpec == InstanceInit /\ [][InstanceNext]_instanceVars

-----------------------------------------------------------------------------

\* Transitions lead from nodes of S to nodes of S.
Closed(S) == \A t \in Transitions : t[1] \in S /\ t[2] \in Nodes => t[2] \in S

\* The nodes that transitions lead to from the start: what every closed set with the start has.
Reachable == {n \in Nodes : \A S \in SUBSET Nodes : StartNode \in S /\ Closed(S) => n \in S}

\* Whatever callers do to an instance from values they have read earlier, it is at a
\* node that leads there from the start by transitions of the definition, and
\* completed at an end node only.
EndsAreReached ==
  /\ stored.node \in Reachable
  /\ stored.status = "completed" => NodeTypes[stored.node] = "end"
=============================================================================

---------------------------- MODULE WorkflowWalk ----------------------------
(***************************************************************************)
(* What the workflow engine promises of an instance, whoever completes its *)
(* tasks and in whatever order the callbacks run: the instance walks along *)
(* the transitions of its workflow definition, one after the other, is     *)
(* completed when and only when it reaches an end node, and never moves    *)
(* again after that.                                                       *)
(***************************************************************************)
EXTENDS Naturals

CONSTANTS
  Instances,   \* workflow instances
  StartNode,   \* where an instance begins
  Edges,       \* pairs <<from, to>> of the transitions
  EndNodes     \* nodes of type "end"

VARIABLES
  state,       \* "none", "running" or "completed", per instance
  node         \* current node, per instance

vars == <<state, node>>

Init ==
  /\ state = [i \in Instances |-> "none"]
  /\ node = [i \in Instances |-> StartNode]

\* Nodes reached from n by at most two transitions: the engine leaves a node
\* and passes through the next one without a pause when nobody waits there.
Hop(n) ==
  LET after(m) == {e[2] : e \in {x \in Edges : x[1] = m}}
  IN  {n} \cup after(n) \cup UNION {after(m) : m \in after(n) \ EndNodes}

\* A new or running instance moves, and is completed if that is an end node.
Walk(i) ==
  /\ state[i] \in {"none", "running"}
  /\ \E n \in Hop(node[i]) :
       /\ node' = [node EXCEPT ![i] = n]
       /\ state' = [state EXCEPT ![i] =
                      IF n \in EndNodes THEN "completed" ELSE "running"]

Next == \E i \in Instances : Walk(i)

Spec == Init /\ [][Next]_vars
=============================================================================

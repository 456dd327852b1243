--------------------------- MODULE WorkflowEngine ---------------------------
(***************************************************************************)
(* The workflow engine of packages/workflow-engine (engine.ts) with the    *)
(* task store of packages/workflow-core (task-manager.ts) behind its       *)
(* TaskManager interface.                                                  *)
(*                                                                         *)
(* The engine keeps its instances in memory and runs on one event loop:    *)
(* what happens between two awaits is one action here.  A call whose       *)
(* promise has settled stands in the queue of the event loop, and the      *)
(* continuations of different calls interleave in the order in which their *)
(* promises settle, on the same instance too.                              *)
(***************************************************************************)
EXTENDS Naturals, Sequences, FiniteSets, SequencesExt

CONSTANTS
  Nodes,       \* node ids of the workflow definition
  Kind,        \* type of each node
  Out,         \* targets of the transitions from a node, in definition order
  StartNode,   \* the first node of type "start"
  Contexts,    \* what the conditions can tell apart about a context
  Match,       \* Match[c][n]: target of the first matching condition of n
  NoMatch,     \* no condition of the node matches
  Instances,   \* workflow instances
  MaxTasks,    \* bound: tasks the store can hold
  Calls,       \* bound: engine calls in flight at once
  MaxIter,     \* rounds of one advance() (100 in the code)
  MaxFaults,   \* bound: calls of the store that fail
  Worklist     \* users act on any task of the store (not only listed ones)

Passing == {"start", "script", "notification"}
Waiting == {"task", "approval"}
Kinds == Passing \cup Waiting \cup {"end", "condition", "parallel"}

ASSUME DefinitionAssumption ==
  /\ StartNode \in Nodes
  /\ Kind \in [Nodes -> Kinds]
  /\ Kind[StartNode] = "start"
  /\ DOMAIN Out = Nodes /\ \A n \in Nodes : Out[n] \in Seq(Range(Out[n]))
  /\ DOMAIN Match = Contexts
  /\ \A c \in Contexts : DOMAIN Match[c] = Nodes
  /\ NoMatch \notin Nodes

ASSUME BoundsAssumption ==
  /\ MaxIter \in Nat \ {0}
  /\ MaxTasks \in Nat
  /\ MaxFaults \in Nat
  /\ Worklist \in BOOLEAN

VARIABLES
  state,       \* WorkflowInstance.state, "none" before start()
  node,        \* WorkflowInstance.currentNodeId
  context,     \* WorkflowInstance.context
  listed,      \* WorkflowInstance.taskInstances: task id -> status of the copy
  store,       \* the task store: [inst, node, status] by task number
  call,        \* the engine calls in flight and where each one waits
  ready,       \* calls whose promise has settled, in that order
  faults       \* store calls failed so far

flowVars == <<state, node, context, listed, store, call, ready, faults>>

-----------------------------------------------------------------------------
(* Tasks.                                                                  *)

Open == {"pending", "in_progress"}
Statuses == Open \cup {"completed", "rejected", "cancelled"}

Tasks == 1..MaxTasks
Stored == DOMAIN store
OpenTasks(i) == {t \in Stored : store[t].inst = i /\ store[t].status \in Open}

\* f with the value v at x, whether or not x was in its domain.
Put(f, x, v) == [y \in DOMAIN f \cup {x} |-> IF y = x THEN v ELSE f[y]]

-----------------------------------------------------------------------------
(* Calls in flight.                                                        *)

Idle == [step |-> "idle"]
Active(k) == call[k].step # "idle"

\* The steps whose promise has settled: their continuation is queued.
Settled == {"round", "created", "decided", "read"}

Resumes(k, step) == ready # <<>> /\ Head(ready) = k /\ call[k].step = step

\* Call k waits at next now; if k was running it was the head of the queue.
Goto(k, next) ==
  LET others == IF ready # <<>> /\ Head(ready) = k THEN Tail(ready) ELSE ready
  IN  /\ call' = [call EXCEPT ![k] = next]
      /\ ready' = IF next.step \in Settled THEN Append(others, k) ELSE others

Finish(k) == Goto(k, Idle)

\* The call of executeNode for node n is awaited by advance().
Round(i, n, iter) == [step |-> "round", inst |-> i, node |-> n, iter |-> iter]

\* Node n creates a task for the node target: itself, or the one that its
\* transition at place `at' leads to.
Creating(i, n, iter, target, at) ==
  [step |-> "create", inst |-> i, node |-> n, iter |-> iter, target |-> target, at |-> at]

-----------------------------------------------------------------------------
(* Moving an instance: a place is its state and its current node.          *)

Place(i) == [state |-> state[i], node |-> node[i]]

SetPlace(i, place) ==
  /\ state' = [state EXCEPT ![i] = place.state]
  /\ node' = [node EXCEPT ![i] = place.node]

\* Mutant of Arrive: reaching an end node does not complete the instance.
ArriveRunning(place, n) == [state |-> place.state, node |-> n]

\* applyTransition to a node that exists.
Arrive(place, n) ==
  [state |-> IF Kind[n] = "end" THEN "completed" ELSE place.state, node |-> n]

\* findDefaultTransition: the first transition from n, if any.
HasDefault(n) == Out[n] # <<>>
Default(n) == Out[n][1]

\* A transition is applied and the call waits at next; a target that is not
\* a node of the workflow throws and ends the call.
Follow(k, i, place, target, next) ==
  IF target \in Nodes
  THEN SetPlace(i, Arrive(place, target)) /\ Goto(k, next)
  ELSE SetPlace(i, place) /\ Finish(k)

\* applyDefaultTransition from node n throws when there is none.
FollowDefault(k, i, place, n, next) ==
  IF HasDefault(n)
  THEN Follow(k, i, place, Default(n), next)
  ELSE SetPlace(i, place) /\ Finish(k)

\* The transitions after place j that a parallel node n creates tasks for.
Branches(n, j) ==
  {l \in DOMAIN Out[n] : l > j /\ Out[n][l] \in Nodes /\ Kind[Out[n][l]] # "end"}

CreatingBranch(i, n, iter, l) == Creating(i, n, iter, Out[n][l], l)

\* executeNode for the current node, up to its first await.
Execute(k, i, c, place, iter) ==
  LET n == place.node
      next == Round(i, n, iter)
  IN  CASE Kind[n] \in Passing ->
             IF HasDefault(n)
             THEN Follow(k, i, place, Default(n), next)
             ELSE SetPlace(i, place) /\ Goto(k, next)
        [] Kind[n] = "end" ->
             SetPlace(i, [place EXCEPT !.state = "completed"]) /\ Goto(k, next)
        [] Kind[n] \in Waiting ->
             SetPlace(i, place) /\ Goto(k, Creating(i, n, iter, n, 0))
        [] Kind[n] = "condition" ->
             IF Match[c][n] = NoMatch
             THEN FollowDefault(k, i, place, n, next)
             ELSE Follow(k, i, place, Match[c][n], next)
        [] Kind[n] = "parallel" ->
             IF Branches(n, 0) = {}
             THEN FollowDefault(k, i, place, n, next)
             ELSE SetPlace(i, place) /\ Goto(k, CreatingBranch(i, n, iter, Min(Branches(n, 0))))

\* Mutant of Loop: advance() has no limit on its rounds.
LoopForever(k, i, c, place, iter) ==
  IF place.state = "running"
  THEN Execute(k, i, c, place, iter)
  ELSE SetPlace(i, place) /\ Finish(k)

\* The head of the loop of advance(), with iter rounds behind it.
Loop(k, i, c, place, iter) ==
  IF place.state = "running" /\ iter < MaxIter
  THEN Execute(k, i, c, place, iter + 1)
  ELSE SetPlace(i, place) /\ Finish(k)

-----------------------------------------------------------------------------
FlowInit ==
  /\ state = [i \in Instances |-> "none"]
  /\ node = [i \in Instances |-> StartNode]
  /\ context \in [Instances -> Contexts]
  /\ listed = [i \in Instances |-> <<>>]
  /\ store = <<>>
  /\ call = [k \in Calls |-> Idle]
  /\ ready = <<>>
  /\ faults = 0

\* start(): a new instance at the start node, and the first round.
Start(k, i) ==
  /\ ~Active(k)
  /\ state[i] = "none"
  /\ Loop(k, i, context[i], [state |-> "running", node |-> StartNode], 0)
  /\ UNCHANGED <<context, listed, store, faults>>

\* The rest of a round of advance() after executeNode: go on only if the
\* instance still runs and its node has changed.
NextRound(k) ==
  /\ Resumes(k, "round")
  /\ LET i == call[k].inst
     IN  IF state[i] # "running" \/ node[i] = call[k].node
         THEN Finish(k) /\ UNCHANGED <<state, node>>
         ELSE Loop(k, i, context[i], Place(i), call[k].iter)
  /\ UNCHANGED <<context, listed, store, faults>>

AddTask(i, n) ==
  /\ Len(store) < MaxTasks
  /\ store' = Append(store, [inst |-> i, node |-> n, status |-> "pending"])

\* createTask: the store adds a pending task under the next number.
StoreCreates(k) ==
  /\ call[k].step = "create"
  /\ AddTask(call[k].inst, call[k].target)
  /\ Goto(k, [step |-> "created", inst |-> call[k].inst, node |-> call[k].node,
              iter |-> call[k].iter, at |-> call[k].at, task |-> Len(store) + 1])
  /\ UNCHANGED <<state, node, context, listed, faults>>

\* The continuation of executeNode with the new task: a task or approval node
\* lists the task as it was created; a parallel node goes on with its
\* next branch and in the end leaves along its default transition.
Created(k) ==
  /\ Resumes(k, "created")
  /\ LET i == call[k].inst
         n == call[k].node
         next == Round(i, n, call[k].iter)
         left == Branches(n, call[k].at)
     IN  \/ /\ Kind[n] \in Waiting
            /\ listed' = [listed EXCEPT ![i] = Put(@, call[k].task, "pending")]
            /\ Goto(k, next)
            /\ UNCHANGED <<state, node>>
         \/ /\ Kind[n] = "parallel" /\ left # {}
            /\ Goto(k, CreatingBranch(i, n, call[k].iter, Min(left)))
            /\ UNCHANGED <<state, node, listed>>
         \/ /\ Kind[n] = "parallel" /\ left = {}
            /\ FollowDefault(k, i, Place(i), n, next)
            /\ UNCHANGED listed
  /\ UNCHANGED <<context, store, faults>>

\* A user completes or rejects a task: one of an instance's list, or, where
\* users work from the store's list of tasks, any task of the store.
Decide(k, t, verdict) ==
  /\ ~Active(k)
  /\ t \in Stored
  /\ Worklist \/ \E i \in Instances : t \in DOMAIN listed[i]
  /\ Goto(k, [step |-> "decide", task |-> t, verdict |-> verdict])
  /\ UNCHANGED <<state, node, context, listed, store, faults>>

\* completeTask and rejectTask of the store: only an open task has a verdict
\* to take; for any other the store throws and the call is over.
StoreDecides(k) ==
  /\ call[k].step = "decide"
  /\ LET t == call[k].task
     IN  IF store[t].status \in Open
         THEN /\ store' = [store EXCEPT ![t].status = call[k].verdict]
              /\ Goto(k, [call[k] EXCEPT !.step = "decided"])
         ELSE Finish(k) /\ UNCHANGED store
  /\ UNCHANGED <<state, node, context, listed, faults>>

\* updateTaskInInstance: the copy is replaced if the instance lists the task.
Relist(i, t, status) ==
  listed' = IF t \in DOMAIN listed[i]
            THEN [listed EXCEPT ![i][t] = status]
            ELSE listed

\* Mutant of Completed: the copy of the task is not brought up to date.
CompletedUnlisted(k) ==
  /\ Resumes(k, "decided") /\ call[k].verdict = "completed"
  /\ LET i == store[call[k].task].inst
         n == node[i]
     IN  IF ~HasDefault(n)
         THEN Loop(k, i, context[i], Place(i), 0)
         ELSE IF Default(n) \in Nodes
         THEN Loop(k, i, context[i], Arrive(Place(i), Default(n)), 0)
         ELSE Finish(k) /\ UNCHANGED <<state, node>>
  /\ UNCHANGED <<context, listed, store, faults>>

\* The continuation of onTaskCompleted: the instance leaves the node where it
\* stands, whichever node the task was for, and advances.
Completed(k) ==
  /\ Resumes(k, "decided") /\ call[k].verdict = "completed"
  /\ LET i == store[call[k].task].inst
         n == node[i]
     IN  /\ Relist(i, call[k].task, "completed")
         /\ IF ~HasDefault(n)
            THEN Loop(k, i, context[i], Place(i), 0)
            ELSE IF Default(n) \in Nodes
            THEN Loop(k, i, context[i], Arrive(Place(i), Default(n)), 0)
            ELSE Finish(k) /\ UNCHANGED <<state, node>>
  /\ UNCHANGED <<context, store, faults>>

\* onTaskRejected asks the store for the task once more.
RejectedReads(k) ==
  /\ Resumes(k, "decided") /\ call[k].verdict = "rejected"
  /\ Goto(k, [call[k] EXCEPT !.step = "reading"])
  /\ UNCHANGED <<state, node, context, listed, store, faults>>

StoreReads(k) ==
  /\ call[k].step = "reading"
  /\ Goto(k, [call[k] EXCEPT !.step = "read"])
  /\ UNCHANGED <<state, node, context, listed, store, faults>>

\* The continuation with the task read: the instance stays where it is.
Rejected(k) ==
  /\ Resumes(k, "read")
  /\ Relist(store[call[k].task].inst, call[k].task, store[call[k].task].status)
  /\ Finish(k)
  /\ UNCHANGED <<state, node, context, store, faults>>

\* A call of the store fails, before or after the store has applied it: the
\* error goes to the caller of the engine.
StoreFails(k) ==
  /\ call[k].step \in {"create", "decide", "reading"}
  /\ faults < MaxFaults
  /\ faults' = faults + 1
  /\ \/ UNCHANGED store
     \/ /\ call[k].step = "create"
        /\ AddTask(call[k].inst, call[k].target)
     \/ /\ call[k].step = "decide" /\ store[call[k].task].status \in Open
        /\ store' = [store EXCEPT ![call[k].task].status = call[k].verdict]
  /\ Finish(k)
  /\ UNCHANGED <<state, node, context, listed>>

\* startTask and cancelTask act on the store alone; the engine is not told.
StartTask(t) ==
  /\ t \in Stored /\ store[t].status = "pending"
  /\ store' = [store EXCEPT ![t].status = "in_progress"]
  /\ UNCHANGED <<state, node, context, listed, call, ready, faults>>

CancelTask(t) ==
  /\ t \in Stored /\ store[t].status \in Open
  /\ store' = [store EXCEPT ![t].status = "cancelled"]
  /\ UNCHANGED <<state, node, context, listed, call, ready, faults>>

\* What the event loop and the store do for a call in flight.
Continue(k) ==
  \/ NextRound(k)
  \/ StoreCreates(k)
  \/ Created(k)
  \/ StoreDecides(k)
  \/ Completed(k)
  \/ RejectedReads(k)
  \/ StoreReads(k)
  \/ Rejected(k)

Actors ==
  \/ \E k \in Calls, i \in Instances : Start(k, i)
  \/ \E k \in Calls, t \in Tasks, v \in {"completed", "rejected"} : Decide(k, t, v)
  \/ \E t \in Tasks : StartTask(t) \/ CancelTask(t)

FlowNext == Actors \/ \E k \in Calls : Continue(k) \/ StoreFails(k)

FlowSpec == FlowInit /\ [][FlowNext]_flowVars

-----------------------------------------------------------------------------
(* Properties.                                                             *)

\* The shapes of a call at each place where it can wait.
CallShapes ==
  {Idle}
  \cup [step : {"round"}, inst : Instances, node : Nodes, iter : 0..MaxIter]
  \cup [step : {"create"}, inst : Instances, node : Nodes, iter : 0..MaxIter,
        target : Nodes, at : Nat]
  \cup [step : {"created"}, inst : Instances, node : Nodes, iter : 0..MaxIter,
        at : Nat, task : Tasks]
  \cup [step : {"decide", "decided", "reading", "read"}, task : Tasks,
        verdict : {"completed", "rejected"}]

\* Type correctness of the engine's instances, the store and the calls.
FlowTypeOK ==
  /\ state \in [Instances -> {"none", "running", "completed"}]
  /\ node \in [Instances -> Nodes]
  /\ context \in [Instances -> Contexts]
  /\ \A i \in Instances :
       DOMAIN listed[i] \subseteq Stored /\ \A t \in DOMAIN listed[i] : listed[i][t] \in Statuses
  /\ Len(store) <= MaxTasks
  /\ \A t \in Stored : store[t] \in [inst : Instances, node : Nodes, status : Statuses]
  /\ call \in [Calls -> CallShapes]
  /\ ready \in Seq(Calls) /\ IsInjective(ready)
  /\ \A k \in Calls : k \in Range(ready) <=> call[k].step \in Settled
  /\ faults \in 0..MaxFaults

\* However many users act on the same task at once, at most one of their
\* calls gets past the store, so that one task moves an instance once.
OneVerdict ==
  \A t \in Tasks :
    Cardinality({k \in Calls : call[k].step = "decided" /\ call[k].task = t}) <= 1

\* Where users act on listed tasks only, an instance has at most one open
\* listed task, whatever the interleaving of completions, rejections and
\* failures: it never waits at two places.
OneOpenTask ==
  ~Worklist =>
    \A i \in Instances : Cardinality(OpenTasks(i) \cap DOMAIN listed[i]) <= 1

\* Nothing is in flight for any instance.
Quiet == \A k \in Calls : ~Active(k)

\* If no store call failed and nothing is in flight, a verdict in the store
\* has reached the copy that instance lists: none is lost to a stale copy.
VerdictReachesCopy ==
  ~Worklist /\ faults = 0 /\ Quiet =>
    \A i \in Instances : \A t \in DOMAIN listed[i] :
      store[t].status \in {"completed", "rejected"} => listed[i][t] = store[t].status

\* An instance waits for somebody at its node: the last task it was given
\* there is open, or was turned down, which the engine does not act on.
WaitsFor(i) ==
  /\ Kind[node[i]] \in Waiting
  /\ \E t \in DOMAIN listed[i] :
       store[t].node = node[i] /\ store[t].status # "completed"

\* With nothing in flight and no failed store call, a running instance is at
\* a task or approval node and has a task there that is not completed: no
\* completion is swallowed and no instance is left between two nodes.
RunningWaits ==
  ~Worklist /\ faults = 0 /\ Quiet =>
    \A i \in Instances : state[i] = "running" => WaitsFor(i)

\* What becomes of tasks: one verdict each, that reaches its instance; one open
\* task at a time, where users go by their lists; and nobody left without one.
TasksAreSound == OneVerdict /\ OneOpenTask /\ VerdictReachesCopy /\ RunningWaits

\* Every call of the engine ends, in a workflow with a cycle too.
CallsEnd == \A k \in Calls : Active(k) ~> ~Active(k)

-----------------------------------------------------------------------------
(* The engine implements the walk.                                         *)

Walk == INSTANCE WorkflowWalk WITH
  Edges <- UNION {{<<n, Out[n][j]>> : j \in 1..Len(Out[n])} : n \in Nodes},
  EndNodes <- {n \in Nodes : Kind[n] = "end"}

\* Where users act on listed tasks only, every instance walks along the
\* transitions, completes exactly at an end node and stays there.
ImplementsWalk == Walk!Spec

-----------------------------------------------------------------------------
(* What the theorems ask of a workflow.                                   *)

\* Every node but an end leads on, to nodes of the workflow.
LeadsOn ==
  /\ \A n \in Nodes : Kind[n] # "end" => HasDefault(n) /\ Default(n) \in Nodes
  /\ \A c \in Contexts, n \in Nodes : Kind[n] = "condition" => Match[c][n] \in Nodes \cup {NoMatch}

\* Between two nodes where somebody waits there are fewer nodes than advance()
\* has rounds: the rank of a node goes down along the transitions taken at once.
Layered(rank) ==
  /\ rank \in [Nodes -> 0..(MaxIter - 1)]
  /\ \A n \in Nodes : Kind[n] \notin Waiting \cup {"end"} =>
       /\ rank[Default(n)] < rank[n]
       /\ Kind[n] = "condition" =>
            \A c \in Contexts : Match[c][n] \in Nodes => rank[Match[c][n]] < rank[n]

\* A condition names a transition that leaves its node.
MatchesLeave ==
  \A c \in Contexts, n \in Nodes : Kind[n] = "condition" /\ Match[c][n] \in Nodes =>
    \E j \in 1..Len(Out[n]) : Out[n][j] = Match[c][n]
=============================================================================

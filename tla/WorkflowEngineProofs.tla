------------------------ MODULE WorkflowEngineProofs ------------------------
(***************************************************************************)
(* Proofs about the workflow engine for any workflow, instances, users and *)
(* failures of the store, one await at a time.                             *)
(*                                                                         *)
(* Every task has one verdict, because the store takes one (Verdicts).  An *)
(* instance that is running is moved by one call, or waits at one open task,*)
(* because a call that has won a verdict is the only one that can leave the*)
(* node (Drivers), and the lists of an instance know what the store knows  *)
(* (Lists, Copied).  As long as no call of the store has failed, a round that*)
(* runs has rounds enough left to come to a node where somebody waits      *)
(* (Going).  The walk of WorkflowWalk follows from the same facts.         *)
(***************************************************************************)
EXTENDS WorkflowEngine, SequenceTheorems, FiniteSetTheorems, WellFoundedInduction, TLAPS

-----------------------------------------------------------------------------
(* Calls and what they are about.                                          *)

\* The steps of a call that carries a verdict, and those after the store took it.
Acting == {"decide", "decided", "reading", "read"}
Carrying == {"decided", "reading", "read"}

\* A call in the middle of advance() for instance i.
On(c, i) == c.step \in {"round", "create", "created"} /\ c.inst = i

\* The round of a task or approval node: its task has been created.
Passive(c) == c.step = "round" /\ Kind[c.node] \in Waiting

\* A call that moves instance i, or will once it goes on.
Moves(c, i) == On(c, i) /\ ~Passive(c)
Wins(c, i, s) == c.step = "decided" /\ c.verdict = "completed" /\ s[c.task].inst = i
Drives(c, i, s) == Moves(c, i) \/ Wins(c, i, s)

\* Call a goes on before call b.
Before(r, a, b) == \E x, y \in 1..Len(r) : x < y /\ r[x] = a /\ r[y] = b

-----------------------------------------------------------------------------
(* The invariant.                                                          *)

TaskRecord == [inst : Instances, node : Nodes, status : Statuses]

FlowShape ==
  /\ state \in [Instances -> {"none", "running", "completed"}]
  /\ node \in [Instances -> Nodes]
  /\ context \in [Instances -> Contexts]
  /\ listed = [i \in Instances |-> listed[i]]
  /\ \A i \in Instances : \A t \in DOMAIN listed[i] :
       t \in 1..Len(store) /\ listed[i][t] \in Statuses /\ store[t].inst = i
  /\ store \in Seq(TaskRecord) /\ Len(store) <= MaxTasks
  /\ call \in [Calls -> CallShapes]
  /\ \A k \in Calls : call[k].step \in Acting \cup {"created"} => call[k].task \in 1..Len(store)
  /\ \A k \in Calls : call[k].step = "created" => store[call[k].task].inst = call[k].inst
  /\ faults \in 0..MaxFaults

Queue ==
  /\ ready \in Seq(Calls)
  /\ \A x, y \in 1..Len(ready) : ready[x] = ready[y] => x = y
  /\ \A k \in Calls : (\E x \in 1..Len(ready) : ready[x] = k) <=> call[k].step \in Settled

\* One call at most carries a verdict on a task, the one that the store has.
Verdicts ==
  /\ \A k \in Calls : call[k].step \in Carrying => store[call[k].task].status = call[k].verdict
  /\ \A k, l \in Calls :
       call[k].step \in Carrying /\ call[l].step \in Carrying /\ call[k].task = call[l].task => k = l

\* Users act on listed tasks; a task that is not listed has no verdict yet.
Lists ==
  /\ \A k \in Calls : call[k].step \in Acting =>
       call[k].task \in DOMAIN listed[store[call[k].task].inst]
  /\ \A k \in Calls : call[k].step = "created" =>
       /\ call[k].task \notin DOMAIN listed[call[k].inst]
       /\ store[call[k].task].status \notin {"completed", "rejected"}
  /\ \A k, l \in Calls :
       call[k].step = "created" /\ call[l].step = "created" /\ call[k].task = call[l].task => k = l

\* Where the copy of a task is behind, a call is on its way to it.
Copies ==
  \A i \in Instances : \A t \in DOMAIN listed[i] :
    store[t].status \in {"completed", "rejected"} =>
      \/ listed[i][t] = store[t].status
      \/ \E k \in Calls : call[k].step \in Carrying /\ call[k].task = t

\* At most one call or one listed task can move an instance.
OneDriver ==
  /\ \A i \in Instances : \A k, l \in Calls :
       Drives(call[k], i, store) /\ Drives(call[l], i, store) => k = l
  /\ \A i \in Instances : \A k \in Calls : Drives(call[k], i, store) =>
       \A t \in DOMAIN listed[i] : store[t].status \notin Open
  /\ \A i \in Instances : \A t, u \in DOMAIN listed[i] :
       store[t].status \in Open /\ store[u].status \in Open => t = u

\* A call that has created the task of a node goes on before the task moves
\* the instance away from the node.
PassiveFirst ==
  \A k \in Calls : Passive(call[k]) =>
    /\ node[call[k].inst] = call[k].node
    /\ \A l \in Calls : Drives(call[l], call[k].inst, store) =>
         call[l].step = "decided" /\ Before(ready, k, l)

\* Where an instance stands while something is there that can move it.
Standing ==
  /\ \A k \in Calls : call[k].step \in {"create", "created"} =>
       /\ state[call[k].inst] = "running"
       /\ node[call[k].inst] = call[k].node
       /\ Kind[call[k].node] \in Waiting \cup {"parallel"}
  /\ \A i \in Instances : \A t \in DOMAIN listed[i] : store[t].status \in Open =>
       state[i] = "running" /\ Kind[node[i]] \in Waiting
  /\ \A i \in Instances : \A k \in Calls : Wins(call[k], i, store) =>
       state[i] = "running" /\ Kind[node[i]] \in Waiting
  /\ \A i \in Instances : state[i] = "none" =>
       /\ node[i] = StartNode /\ DOMAIN listed[i] = {}
       /\ \A k \in Calls : ~On(call[k], i)
  /\ \A i \in Instances : (state[i] = "completed") <=> (state[i] # "none" /\ Kind[node[i]] = "end")

\* The task that a call creates for a task or approval node is for that node.
Targets ==
  /\ \A k \in Calls : call[k].step = "create" /\ Kind[call[k].node] \in Waiting =>
       call[k].target = call[k].node
  /\ \A k \in Calls : call[k].step = "created" /\ Kind[call[k].node] \in Waiting =>
       store[call[k].task].node = call[k].node

\* The rounds that a call has left are enough for the nodes ahead.
Enough(rank) ==
  \A k \in Calls :
    /\ Moves(call[k], call[k].inst) /\ call[k].step = "round" /\ state[call[k].inst] = "running" =>
         /\ call[k].iter + rank[node[call[k].inst]] < MaxIter
         /\ node[call[k].inst] # call[k].node
    /\ call[k].step \in {"create", "created"} =>
         call[k].iter + rank[node[call[k].inst]] <= MaxIter

\* A running instance is moved by a call or waits for somebody.
Tended ==
  \A i \in Instances : state[i] = "running" =>
    (\E k \in Calls : Drives(call[k], i, store)) \/ WaitsFor(i)

-----------------------------------------------------------------------------
(* The queue of the event loop.                                            *)

Resumed(k) == ready # <<>> /\ Head(ready) = k

\* A call at the head of the queue, or not in it, takes its next step: the
\* queue keeps its order, and the call goes to its end.
LEMMA GotoFacts ==
  ASSUME Queue, call \in [Calls -> CallShapes], NEW k \in Calls, NEW next \in CallShapes,
         Resumed(k) \/ call[k].step \notin Settled, Goto(k, next)
  PROVE  /\ Queue'
         /\ call' = [call EXCEPT ![k] = next]
         /\ \A a, b \in Calls : a # k /\ b # k /\ Before(ready, a, b) => Before(ready', a, b)
         /\ next.step \in Settled =>
              \A a \in Calls : a # k /\ call[a].step \in Settled => Before(ready', a, k)
<1> DEFINE others == IF Resumed(k) THEN Tail(ready) ELSE ready
           r == ready
           n == Len(others)
<1>1. r \in Seq(Calls) /\ \A x, y \in 1..Len(r) : r[x] = r[y] => x = y
  BY DEF Queue
<1>2. /\ others \in Seq(Calls)
      /\ \A x \in 1..n : others[x] # k
      /\ \A x, y \in 1..n : others[x] = others[y] => x = y
      /\ \A a \in Calls : a # k => ((\E x \in 1..n : others[x] = a) <=> (\E x \in 1..Len(r) : r[x] = a))
      /\ \A a, b \in Calls : a # k /\ b # k /\ Before(r, a, b) => Before(others, a, b)
  <2>1. CASE Resumed(k)
    <3>1. /\ r # <<>> /\ others = Tail(r) /\ Head(r) = k
      BY <2>1 DEF Resumed
    <3>2. /\ others \in Seq(Calls) /\ n = Len(r) - 1 /\ Len(r) \in Nat /\ Len(r) > 0 /\ r[1] = k
          /\ \A x \in 1..n : others[x] = r[x + 1]
      BY <1>1, <3>1, HeadTailProperties, LenProperties
    <3> HIDE DEF others, n, r
    <3>3. \A x \in 1..n : others[x] # k
      BY <1>1, <3>2
    <3>4. \A x, y \in 1..n : others[x] = others[y] => x = y
      BY <1>1, <3>2
    <3>5. \A x \in 1..Len(r) : r[x] # k => x - 1 \in 1..n /\ others[x - 1] = r[x]
      BY <3>2
    <3>6. \A x \in 1..n : x + 1 \in 1..Len(r) /\ r[x + 1] = others[x]
      BY <3>2
    <3>7. \A a \in Calls : a # k => ((\E x \in 1..n : others[x] = a) <=> (\E x \in 1..Len(r) : r[x] = a))
      BY <3>5, <3>6
    <3>8. ASSUME NEW a \in Calls, NEW b \in Calls, a # k, b # k, Before(r, a, b)
          PROVE  Before(others, a, b)
      <4>1. PICK x, y \in 1..Len(r) : x < y /\ r[x] = a /\ r[y] = b
        BY <3>8 DEF Before
      <4>2. x - 1 < y - 1 /\ x - 1 \in 1..n /\ y - 1 \in 1..n /\ others[x - 1] = a /\ others[y - 1] = b
        BY <3>5, <3>8, <4>1, <3>2
      <4> QED
        BY <4>2 DEF Before, n
    <3> QED
      BY <3>2, <3>3, <3>4, <3>7, <3>8
  <2>2. CASE ~Resumed(k)
    <3>1. others = r /\ call[k].step \notin Settled
      BY <2>2
    <3>2. \A x \in 1..Len(r) : r[x] # k
      BY <3>1 DEF Queue
    <3> QED
      BY <1>1, <3>1, <3>2
  <2> QED
    BY <2>1, <2>2
<1>3. call' = [call EXCEPT ![k] = next] /\ ready' = IF next.step \in Settled THEN Append(others, k) ELSE others
  BY DEF Goto, Resumed
<1> HIDE DEF others
<1>4. n \in Nat
  BY <1>2, LenProperties
<1>5. \A a \in Calls : call'[a] = IF a = k THEN next ELSE call[a]
  BY <1>3
<1>6. \A a \in Calls : (\E x \in 1..Len(r) : r[x] = a) <=> call[a].step \in Settled
  BY DEF Queue
<1>7. CASE next.step \notin Settled
  <2>1. ready' = others
    BY <1>3, <1>7
  <2>2. Queue'
    BY <1>2, <1>5, <1>6, <1>7, <2>1 DEF Queue
  <2> QED
    BY <1>2, <1>3, <1>7, <2>1, <2>2
<1>8. CASE next.step \in Settled
  <2>1. ready' = Append(others, k)
    BY <1>3, <1>8
  <2>2. /\ ready' \in Seq(Calls) /\ Len(ready') = n + 1 /\ ready'[n + 1] = k
        /\ \A x \in 1..n : ready'[x] = others[x]
    BY <1>2, <2>1, AppendProperties
  <2> HIDE DEF n
  <2>3. \A x \in 1..(n + 1) : x \in 1..n \/ x = n + 1
    BY <1>4
  <2>4. 1..n \subseteq 1..(n + 1) /\ n + 1 \in 1..(n + 1) /\ \A x \in 1..n : x < n + 1
    BY <1>4
  <2>5. \A x, y \in 1..(n + 1) : ready'[x] = ready'[y] => x = y
    BY <1>2, <2>2, <2>3
  <2>6. ASSUME NEW a \in Calls PROVE (\E x \in 1..(n + 1) : ready'[x] = a) <=> call'[a].step \in Settled
    <3>1. CASE a = k
      BY <1>5, <1>8, <2>2, <2>4, <3>1
    <3>2. CASE a # k
      BY <1>2, <1>5, <1>6, <2>2, <2>3, <2>4, <3>2
    <3> QED
      BY <3>1, <3>2
  <2>7. Queue'
    BY <2>2, <2>5, <2>6 DEF Queue
  <2>8. ASSUME NEW a \in Calls, NEW b \in Calls, a # k, b # k, Before(ready, a, b) PROVE Before(ready', a, b)
    <3>1. PICK x, y \in 1..n : x < y /\ others[x] = a /\ others[y] = b
      BY <1>2, <2>8 DEF Before, n
    <3> QED
      BY <2>2, <2>4, <3>1 DEF Before
  <2>9. ASSUME NEW a \in Calls, a # k, call[a].step \in Settled PROVE Before(ready', a, k)
    <3>1. PICK x \in 1..n : others[x] = a
      BY <1>2, <1>6, <2>9
    <3> QED
      BY <2>2, <2>4, <3>1 DEF Before
  <2> QED
    BY <1>3, <2>7, <2>8, <2>9
<1> QED
  BY <1>7, <1>8

\* Nobody goes on before the call at the head of the queue.
LEMMA HeadIsFirst ==
  ASSUME Queue, NEW k \in Calls, Resumed(k)
  PROVE  call[k].step \in Settled /\ \A a \in Calls : ~Before(ready, a, k)
<1>1. ready \in Seq(Calls) /\ ready # <<>> /\ Head(ready) = k
  BY DEF Queue, Resumed
<1>2. Len(ready) \in Nat /\ Len(ready) > 0 /\ ready[1] = k
  BY <1>1, HeadTailProperties, LenProperties
<1>3. \A y \in 1..Len(ready) : ready[y] = k => y = 1
  BY <1>2 DEF Queue
<1>4. call[k].step \in Settled
  BY <1>2 DEF Queue
<1> QED
  BY <1>2, <1>3, <1>4 DEF Before

-----------------------------------------------------------------------------
(* Calls, and the outcome of a round.                                      *)

LEMMA ShapeOf ==
  ASSUME NEW c \in CallShapes
  PROVE  /\ c.step = "round" => c \in [step : {"round"}, inst : Instances, node : Nodes, iter : 0..MaxIter]
         /\ c.step = "create" => c \in [step : {"create"}, inst : Instances, node : Nodes,
                                        iter : 0..MaxIter, target : Nodes, at : Nat]
         /\ c.step = "created" => c \in [step : {"created"}, inst : Instances, node : Nodes,
                                         iter : 0..MaxIter, at : Nat, task : Tasks]
         /\ c.step \in Acting => c \in [step : Acting, task : Tasks, verdict : {"completed", "rejected"}]
         /\ c.step \notin {"round", "create", "created"} \cup Acting => c = Idle
BY DEF CallShapes, Acting, Idle

\* The calls that advance() can leave behind.
LEMMA NextShapes ==
  ASSUME NEW i \in Instances, NEW n \in Nodes, NEW iter \in 0..MaxIter
  PROVE  /\ Idle \in CallShapes /\ Round(i, n, iter) \in CallShapes
         /\ \A target \in Nodes, at \in Nat : Creating(i, n, iter, target, at) \in CallShapes
BY DEF CallShapes, Round, Creating

\* The transitions of Out are sequences.
LEMMA OutFacts ==
  ASSUME NEW n \in Nodes
  PROVE  /\ Out[n] \in Seq(Range(Out[n])) /\ Len(Out[n]) \in Nat /\ DOMAIN Out[n] = 1..Len(Out[n])
         /\ HasDefault(n) => Len(Out[n]) > 0
<1>1. Out[n] \in Seq(Range(Out[n]))
  BY DefinitionAssumption
<1>2. Len(Out[n]) \in Nat /\ DOMAIN Out[n] = 1..Len(Out[n])
  BY <1>1, LenProperties
<1>3. HasDefault(n) => Len(Out[n]) # 0
  BY <1>1, EmptySeq DEF HasDefault
<1> QED
  BY <1>1, <1>2, <1>3

LEMMA LeastOfNaturals ==
  ASSUME NEW S \in SUBSET Nat, S # {}
  PROVE  Min(S) \in S
<1>1. PICK m \in S : \A x \in S : m <= x
  <2>1. IsWellFoundedOn(OpToRel(<, Nat), Nat)
    BY NatLessThanWellFounded
  <2>2. PICK m \in S : ~(\E y \in S : <<y, m>> \in OpToRel(<, Nat))
    BY <2>1, WFMin
  <2> QED
    BY <2>2 DEF OpToRel
<1> QED
  BY <1>1 DEF Min

\* The first branch after a place is a transition to a node.
LEMMA BranchFacts ==
  ASSUME NEW n \in Nodes, NEW j \in Nat, Branches(n, j) # {}
  PROVE  Min(Branches(n, j)) \in Nat /\ Out[n][Min(Branches(n, j))] \in Nodes
<1>1. Branches(n, j) \in SUBSET Nat
  BY OutFacts DEF Branches
<1>2. Min(Branches(n, j)) \in Branches(n, j)
  BY <1>1, LeastOfNaturals
<1> QED
  BY <1>1, <1>2 DEF Branches

\* Node n leads to m at once, for instances with context c.
Leads(c, n, m) ==
  /\ m \in Nodes
  /\ (HasDefault(n) /\ m = Default(n)) \/ (Kind[n] = "condition" /\ m = Match[c][n])

\* What one more round of advance() makes of an instance in state s at node n.
Stops(i, c, s, n, iter, p, next) ==
  /\ next = Idle /\ p = [state |-> s, node |-> n]
  /\ \/ s # "running" \/ iter >= MaxIter
     \/ Kind[n] # "end" /\ ~(HasDefault(n) /\ Default(n) \in Nodes)
     \/ Kind[n] = "condition" /\ Match[c][n] \notin Nodes \cup {NoMatch}
Stays(i, c, s, n, iter, p, next) ==
  /\ s = "running" /\ iter < MaxIter /\ next = Round(i, n, iter + 1)
  /\ \/ Kind[n] = "end" /\ p = [state |-> "completed", node |-> n]
     \/ Kind[n] \in Passing /\ ~HasDefault(n) /\ p = [state |-> s, node |-> n]
GoesOn(i, c, s, n, iter, p, next) ==
  /\ s = "running" /\ iter < MaxIter /\ next = Round(i, n, iter + 1)
  /\ Kind[n] \notin Waiting \cup {"end"}
  /\ \E m \in Nodes : Leads(c, n, m) /\ p = Arrive([state |-> s, node |-> n], m)
GivesTask(i, c, s, n, iter, p, next) ==
  /\ s = "running" /\ iter < MaxIter /\ p = [state |-> s, node |-> n]
  /\ \E target \in Nodes, at \in Nat :
       /\ next = Creating(i, n, iter + 1, target, at)
       /\ (Kind[n] \in Waiting /\ target = n) \/ Kind[n] = "parallel"
Ran(i, c, s, n, iter, p, next) ==
  \/ Stops(i, c, s, n, iter, p, next)
  \/ Stays(i, c, s, n, iter, p, next)
  \/ GoesOn(i, c, s, n, iter, p, next)
  \/ GivesTask(i, c, s, n, iter, p, next)

LEMMA LoopFacts ==
  ASSUME NEW k \in Calls, NEW i \in Instances, NEW c \in Contexts,
         NEW s \in {"none", "running", "completed"}, NEW n \in Nodes, NEW iter \in 0..MaxIter,
         Loop(k, i, c, [state |-> s, node |-> n], iter)
  PROVE  \E p, next : Ran(i, c, s, n, iter, p, next) /\ SetPlace(i, p) /\ Goto(k, next)
<1> DEFINE place == [state |-> s, node |-> n]
           next == Round(i, n, iter + 1)
<1>0. /\ place.state = s /\ place.node = n /\ MaxIter \in Nat /\ iter \in Nat
      /\ Kind[n] \in Kinds
  BY BoundsAssumption, DefinitionAssumption
<1>1. CASE ~(s = "running" /\ iter < MaxIter)
  <2>1. SetPlace(i, place) /\ Goto(k, Idle)
    BY <1>0, <1>1 DEF Loop, Finish
  <2>2. iter >= MaxIter \/ s # "running"
    BY <1>0, <1>1
  <2>3. Stops(i, c, s, n, iter, place, Idle)
    BY <2>2 DEF Stops
  <2> QED
    BY <2>1, <2>3 DEF Ran
<1>2. CASE s = "running" /\ iter < MaxIter
  <2>1. Execute(k, i, c, place, iter + 1)
    BY <1>2 DEF Loop
  <2>2. ASSUME NEW m, Leads(c, n, m), Kind[n] \notin Waiting \cup {"end"},
               SetPlace(i, Arrive(place, m)), Goto(k, next)
        PROVE  \E p, q : Ran(i, c, s, n, iter, p, q) /\ SetPlace(i, p) /\ Goto(k, q)
    <3>1. GoesOn(i, c, s, n, iter, Arrive(place, m), next)
      BY <1>2, <2>2 DEF GoesOn, Leads
    <3> QED
      BY <2>2, <3>1 DEF Ran
  <2>3. ASSUME Kind[n] \notin Waiting \cup {"end"}, FollowDefault(k, i, place, n, next)
        PROVE  \E p, q : Ran(i, c, s, n, iter, p, q) /\ SetPlace(i, p) /\ Goto(k, q)
    <3>1. CASE HasDefault(n) /\ Default(n) \in Nodes
      <4>1. Leads(c, n, Default(n))
        BY <3>1 DEF Leads
      <4> QED
        BY <2>2, <2>3, <3>1, <4>1 DEF FollowDefault, Follow
    <3>2. CASE ~(HasDefault(n) /\ Default(n) \in Nodes)
      <4>1. SetPlace(i, place) /\ Goto(k, Idle)
        BY <2>3, <3>2 DEF FollowDefault, Follow, Finish
      <4>2. Stops(i, c, s, n, iter, place, Idle)
        BY <2>3, <3>2 DEF Stops
      <4> QED
        BY <4>1, <4>2 DEF Ran
    <3> QED
      BY <3>1, <3>2
  <2>4. CASE Kind[n] \in Passing
    <3>0. /\ Kind[n] \notin Waiting \cup {"end"} /\ Kind[n] # "condition" /\ Kind[n] # "parallel"
      BY <2>4 DEF Passing, Waiting
    <3>1. IF HasDefault(n) THEN Follow(k, i, place, Default(n), next) ELSE SetPlace(i, place) /\ Goto(k, next)
      BY <1>0, <2>1, <2>4, <3>0 DEF Execute
    <3>2. CASE HasDefault(n)
      <4>1. FollowDefault(k, i, place, n, next)
        BY <3>1, <3>2 DEF FollowDefault
      <4> QED
        BY <2>3, <3>0, <4>1
    <3>3. CASE ~HasDefault(n)
      <4>1. Stays(i, c, s, n, iter, place, next)
        BY <1>2, <2>4, <3>3 DEF Stays
      <4> QED
        BY <3>1, <3>3, <4>1 DEF Ran
    <3> QED
      BY <3>2, <3>3
  <2>5. CASE Kind[n] = "end"
    <3>1. SetPlace(i, [place EXCEPT !.state = "completed"]) /\ Goto(k, next)
      BY <1>0, <2>1, <2>5 DEF Execute, Passing, Waiting
    <3>2. [place EXCEPT !.state = "completed"] = [state |-> "completed", node |-> n]
      OBVIOUS
    <3>3. Stays(i, c, s, n, iter, [state |-> "completed", node |-> n], next)
      BY <1>2, <2>5 DEF Stays
    <3> QED
      BY <3>1, <3>2, <3>3 DEF Ran
  <2>6. CASE Kind[n] \in Waiting
    <3>1. SetPlace(i, place) /\ Goto(k, Creating(i, n, iter + 1, n, 0))
      BY <1>0, <2>1, <2>6 DEF Execute, Passing, Waiting
    <3>2. GivesTask(i, c, s, n, iter, place, Creating(i, n, iter + 1, n, 0))
      BY <1>2, <2>6 DEF GivesTask
    <3> QED
      BY <3>1, <3>2 DEF Ran
  <2>7. CASE Kind[n] = "condition"
    <3>0. Kind[n] \notin Waiting \cup {"end"}
      BY <2>7 DEF Waiting
    <3>1. IF Match[c][n] = NoMatch THEN FollowDefault(k, i, place, n, next)
                                   ELSE Follow(k, i, place, Match[c][n], next)
      BY <1>0, <2>1, <2>7 DEF Execute, Passing, Waiting
    <3>2. CASE Match[c][n] = NoMatch
      BY <2>3, <3>0, <3>1, <3>2
    <3>3. CASE Match[c][n] \in Nodes
      <4>1. Leads(c, n, Match[c][n])
        BY <2>7, <3>3 DEF Leads
      <4>2. Match[c][n] # NoMatch
        BY <3>3, DefinitionAssumption
      <4> QED
        BY <2>2, <3>0, <3>1, <3>3, <4>1, <4>2 DEF Follow
    <3>4. CASE Match[c][n] \notin Nodes \cup {NoMatch}
      <4>1. SetPlace(i, place) /\ Goto(k, Idle)
        BY <3>1, <3>4 DEF Follow, Finish
      <4>2. Stops(i, c, s, n, iter, place, Idle)
        BY <2>7, <3>4 DEF Stops
      <4> QED
        BY <4>1, <4>2 DEF Ran
    <3> QED
      BY <3>2, <3>3, <3>4
  <2>8. CASE Kind[n] = "parallel"
    <3>0. Kind[n] \notin Waiting \cup {"end"}
      BY <2>8 DEF Waiting
    <3>1. IF Branches(n, 0) = {} THEN FollowDefault(k, i, place, n, next)
          ELSE SetPlace(i, place) /\ Goto(k, CreatingBranch(i, n, iter + 1, Min(Branches(n, 0))))
      BY <1>0, <2>1, <2>8 DEF Execute, Passing, Waiting
    <3>2. CASE Branches(n, 0) = {}
      BY <2>3, <3>0, <3>1, <3>2
    <3>3. CASE Branches(n, 0) # {}
      <4> DEFINE l == Min(Branches(n, 0))
      <4>1. l \in Nat /\ Out[n][l] \in Nodes
        BY <3>3, BranchFacts
      <4>2. GivesTask(i, c, s, n, iter, place, CreatingBranch(i, n, iter + 1, l))
        BY <1>2, <2>8, <4>1 DEF GivesTask, CreatingBranch
      <4> QED
        BY <3>1, <3>3, <4>2 DEF Ran
    <3> QED
      BY <3>2, <3>3
  <2> QED
    BY <1>0, <2>4, <2>5, <2>6, <2>7, <2>8 DEF Kinds
<1> QED
  BY <1>1, <1>2

-----------------------------------------------------------------------------
(* What the steps do to the tasks, the lists and the places.               *)

Places == [state : {"none", "running", "completed"}, node : Nodes]

\* Tasks are only added, and a task that is not open any more stays as it is.
Grown(s, s2) ==
  /\ Len(s) <= Len(s2)
  /\ \A t \in 1..Len(s) :
       /\ t \in 1..Len(s2) /\ s2[t].inst = s[t].inst /\ s2[t].node = s[t].node
       /\ s[t].status \notin Open => s2[t].status = s[t].status

LEMMA TaskFacts ==
  ASSUME FlowShape
  PROVE  /\ Len(store) \in Nat /\ Stored = 1..Len(store)
         /\ \A t \in 1..Len(store) :
              store[t] \in TaskRecord /\ store[t].inst \in Instances /\ store[t].node \in Nodes
                /\ store[t].status \in Statuses
         /\ Grown(store, store)
<1>1. store \in Seq(TaskRecord)
  BY DEF FlowShape
<1>2. Len(store) \in Nat /\ Stored = 1..Len(store)
  BY <1>1, LenProperties DEF Stored
<1>3. \A t \in 1..Len(store) : store[t] \in TaskRecord
  BY <1>1, ElementOfSeq
<1> QED
  BY <1>2, <1>3 DEF Grown, TaskRecord

LEMMA AddFacts ==
  ASSUME FlowShape, NEW i \in Instances, NEW n \in Nodes, AddTask(i, n)
  PROVE  /\ store' \in Seq(TaskRecord) /\ Len(store') <= MaxTasks /\ Len(store') = Len(store) + 1
         /\ Len(store) + 1 \in Tasks
         /\ \A t \in 1..Len(store) : store'[t] = store[t]
         /\ store'[Len(store) + 1] = [inst |-> i, node |-> n, status |-> "pending"]
         /\ Grown(store, store')
<1> DEFINE r == [inst |-> i, node |-> n, status |-> "pending"]
<1>1. store \in Seq(TaskRecord) /\ r \in TaskRecord
  BY DEF FlowShape, TaskRecord, Statuses, Open
<1>2. store' = Append(store, r) /\ Len(store) < MaxTasks /\ MaxTasks \in Nat /\ Len(store) \in Nat
  BY BoundsAssumption, TaskFacts DEF AddTask
<1> HIDE DEF r
<1>3. /\ store' \in Seq(TaskRecord) /\ Len(store') = Len(store) + 1
      /\ \A t \in 1..Len(store) : store'[t] = store[t]
      /\ store'[Len(store) + 1] = r
  BY <1>1, <1>2, AppendProperties
<1>4. Len(store') <= MaxTasks /\ Len(store) + 1 \in Tasks /\ Len(store) <= Len(store')
      /\ 1..Len(store) \subseteq 1..Len(store')
  BY <1>2, <1>3 DEF Tasks
<1>5. Grown(store, store')
  BY <1>3, <1>4 DEF Grown
<1> QED
  BY <1>3, <1>4, <1>5 DEF r

LEMMA SetFacts ==
  ASSUME FlowShape, NEW t \in 1..Len(store), store[t].status \in Open, NEW v \in Statuses,
         store' = [store EXCEPT ![t].status = v]
  PROVE  /\ store' \in Seq(TaskRecord) /\ Len(store') <= MaxTasks /\ Len(store') = Len(store)
         /\ \A u \in 1..Len(store) : u # t => store'[u] = store[u]
         /\ store'[t].status = v
         /\ Grown(store, store')
<1> DEFINE r == [store[t] EXCEPT !.status = v]
<1>1. store \in Seq(TaskRecord) /\ store[t] \in TaskRecord /\ Len(store) \in Nat
  BY TaskFacts DEF FlowShape
<1>2. r \in TaskRecord /\ r.inst = store[t].inst /\ r.node = store[t].node /\ r.status = v
  BY <1>1 DEF TaskRecord
<1>3. store' = [store EXCEPT ![t] = r]
  OBVIOUS
<1> HIDE DEF r
<1>4. /\ store' \in Seq(TaskRecord) /\ Len(store') = Len(store)
      /\ \A u \in 1..Len(store) : store'[u] = IF u = t THEN r ELSE store[u]
  BY <1>1, <1>2, <1>3, ExceptSeq
<1>5. Len(store') <= MaxTasks /\ Len(store) <= Len(store') /\ 1..Len(store) = 1..Len(store')
  BY <1>1, <1>4 DEF FlowShape
<1>6. Grown(store, store')
  BY <1>2, <1>4, <1>5 DEF Grown
<1> QED
  BY <1>2, <1>4, <1>5, <1>6

LEMMA PlaceFacts ==
  ASSUME FlowShape, NEW i \in Instances, NEW p \in Places, SetPlace(i, p)
  PROVE  /\ state' \in [Instances -> {"none", "running", "completed"}]
         /\ node' \in [Instances -> Nodes]
         /\ state'[i] = p.state /\ node'[i] = p.node
         /\ \A j \in Instances : j # i => state'[j] = state[j] /\ node'[j] = node[j]
BY DEF FlowShape, SetPlace, Places

LEMMA RelistFacts ==
  ASSUME FlowShape, NEW i \in Instances, NEW t, NEW v \in Statuses, Relist(i, t, v)
  PROVE  /\ listed' = [j \in Instances |-> listed'[j]]
         /\ \A j \in Instances :
              /\ DOMAIN listed'[j] = DOMAIN listed[j]
              /\ \A u \in DOMAIN listed[j] :
                   listed'[j][u] = IF j = i /\ u = t THEN v ELSE listed[j][u]
<1>1. CASE t \in DOMAIN listed[i]
  <2> DEFINE f == [listed[i] EXCEPT ![t] = v]
  <2>1. listed' = [listed EXCEPT ![i] = f]
    BY <1>1 DEF Relist
  <2>2. DOMAIN f = DOMAIN listed[i] /\ \A u \in DOMAIN listed[i] : f[u] = IF u = t THEN v ELSE listed[i][u]
    OBVIOUS
  <2> HIDE DEF f
  <2> QED
    BY <2>1, <2>2 DEF FlowShape
<1>2. CASE t \notin DOMAIN listed[i]
  BY <1>2 DEF Relist, FlowShape
<1> QED
  BY <1>1, <1>2

LEMMA PutFacts ==
  ASSUME FlowShape, NEW i \in Instances, NEW t, listed' = [listed EXCEPT ![i] = Put(listed[i], t, "pending")]
  PROVE  /\ listed' = [j \in Instances |-> listed'[j]]
         /\ \A j \in Instances : j # i => listed'[j] = listed[j]
         /\ DOMAIN listed'[i] = DOMAIN listed[i] \cup {t}
         /\ listed'[i][t] = "pending"
         /\ \A u \in DOMAIN listed[i] : u # t => listed'[i][u] = listed[i][u]
<1>1. listed' = [listed EXCEPT ![i] = Put(listed[i], t, "pending")] /\ listed = [j \in Instances |-> listed[j]]
  BY DEF FlowShape
<1>2. listed'[i] = Put(listed[i], t, "pending")
  BY <1>1
<1> QED
  BY <1>1, <1>2 DEF Put

LEMMA RanFacts ==
  ASSUME NEW i \in Instances, NEW c \in Contexts, NEW s \in {"none", "running", "completed"},
         NEW n \in Nodes, NEW iter \in 0..MaxIter, NEW p, NEW next, Ran(i, c, s, n, iter, p, next)
  PROVE  /\ p \in Places /\ p.state \in {s, "completed"}
         /\ next \in CallShapes /\ next.step \in {"idle", "round", "create"}
         /\ next.step # "idle" => next.inst = i /\ next.node = n /\ s = "running"
<1>0. MaxIter \in Nat /\ iter \in Nat /\ iter <= MaxIter
  BY BoundsAssumption
<1>1. CASE Stops(i, c, s, n, iter, p, next)
  BY <1>1, NextShapes DEF Stops, Places, Idle
<1>2. ASSUME iter < MaxIter PROVE iter + 1 \in 0..MaxIter
  BY <1>0, <1>2
<1>3. CASE Stays(i, c, s, n, iter, p, next)
  <2>1. p \in Places /\ p.state \in {s, "completed"} /\ next = Round(i, n, iter + 1) /\ s = "running"
    BY <1>3 DEF Stays, Places
  <2>2. next \in CallShapes
    BY <1>2, <1>3, NextShapes DEF Stays
  <2> QED
    BY <2>1, <2>2 DEF Round
<1>4. CASE GoesOn(i, c, s, n, iter, p, next)
  <2>1. p \in Places /\ p.state \in {s, "completed"} /\ next = Round(i, n, iter + 1) /\ s = "running"
    BY <1>4 DEF GoesOn, Places, Arrive
  <2>2. next \in CallShapes
    BY <1>2, <1>4, NextShapes DEF GoesOn
  <2> QED
    BY <2>1, <2>2 DEF Round
<1>5. CASE GivesTask(i, c, s, n, iter, p, next)
  <2>1. p \in Places /\ p.state = s /\ s = "running"
    BY <1>5 DEF GivesTask, Places
  <2>2. PICK target \in Nodes, at \in Nat : next = Creating(i, n, iter + 1, target, at)
    BY <1>5 DEF GivesTask
  <2>3. next \in CallShapes
    BY <1>2, <1>5, <2>2, NextShapes DEF GivesTask
  <2> QED
    BY <2>1, <2>2, <2>3 DEF Creating
<1> QED
  BY <1>1, <1>3, <1>4, <1>5 DEF Ran

-----------------------------------------------------------------------------
(* The steps of a call that can move an instance.                          *)

\* The call goes through one more round, from state s at node n.
Advances(k, i, s, n, iter) ==
  \E p, next : Ran(i, context[i], s, n, iter, p, next) /\ SetPlace(i, p) /\ Goto(k, next)

LEMMA StartFacts ==
  ASSUME FlowShape, NEW k \in Calls, NEW i \in Instances, Start(k, i)
  PROVE  /\ call[k] = Idle /\ state[i] = "none"
         /\ Advances(k, i, "running", StartNode, 0)
         /\ UNCHANGED <<context, listed, store, faults>>
<1>1. call[k] \in CallShapes /\ call[k].step = "idle"
  BY DEF FlowShape, Start, Active
<1>2. call[k] = Idle
  BY <1>1, ShapeOf DEF Acting
<1>3. context[i] \in Contexts /\ StartNode \in Nodes /\ 0 \in 0..MaxIter
  BY DefinitionAssumption, BoundsAssumption DEF FlowShape
<1>4. Loop(k, i, context[i], [state |-> "running", node |-> StartNode], 0)
  BY DEF Start
<1>5. Advances(k, i, "running", StartNode, 0)
  BY <1>3, <1>4, LoopFacts DEF Advances
<1> QED
  BY <1>2, <1>5 DEF Start

LEMMA NextRoundFacts ==
  ASSUME FlowShape, NEW k \in Calls, NextRound(k)
  PROVE  LET i == call[k].inst
         IN  /\ Resumed(k) /\ call[k].step = "round"
             /\ i \in Instances /\ call[k].node \in Nodes /\ call[k].iter \in 0..MaxIter
             /\ \/ /\ Finish(k) /\ UNCHANGED <<state, node>>
                   /\ state[i] # "running" \/ node[i] = call[k].node
                \/ /\ state[i] = "running" /\ node[i] # call[k].node
                   /\ Advances(k, i, state[i], node[i], call[k].iter)
             /\ UNCHANGED <<context, listed, store, faults>>
<1> DEFINE i == call[k].inst
<1>1. call[k] \in CallShapes /\ call[k].step = "round" /\ Resumed(k)
  BY DEF FlowShape, NextRound, Resumes, Resumed
<1>2. i \in Instances /\ call[k].node \in Nodes /\ call[k].iter \in 0..MaxIter
  BY <1>1, ShapeOf
<1>3. context[i] \in Contexts /\ node[i] \in Nodes /\ state[i] \in {"none", "running", "completed"}
  BY <1>2 DEF FlowShape
<1>4. CASE state[i] # "running" \/ node[i] = call[k].node
  BY <1>1, <1>2, <1>4 DEF NextRound
<1>5. CASE state[i] = "running" /\ node[i] # call[k].node
  <2>1. Loop(k, i, context[i], [state |-> state[i], node |-> node[i]], call[k].iter)
    BY <1>5 DEF NextRound, Place
  <2>2. Advances(k, i, state[i], node[i], call[k].iter)
    BY <1>2, <1>3, <2>1, LoopFacts DEF Advances
  <2> QED
    BY <1>1, <1>2, <1>5, <2>2 DEF NextRound
<1> QED
  BY <1>4, <1>5

LEMMA CompletedFacts ==
  ASSUME FlowShape, NEW k \in Calls, Completed(k)
  PROVE  LET t == call[k].task
             i == store[t].inst
             n == node[i]
         IN  /\ Resumed(k) /\ call[k].step = "decided" /\ call[k].verdict = "completed"
             /\ t \in 1..Len(store) /\ i \in Instances
             /\ Relist(i, t, "completed")
             /\ \/ /\ HasDefault(n) /\ Default(n) \notin Nodes
                   /\ Finish(k) /\ UNCHANGED <<state, node>>
                \/ ~HasDefault(n) /\ Advances(k, i, state[i], n, 0)
                \/ /\ HasDefault(n) /\ Default(n) \in Nodes
                   /\ Advances(k, i, IF Kind[Default(n)] = "end" THEN "completed" ELSE state[i],
                               Default(n), 0)
             /\ UNCHANGED <<context, store, faults>>
<1> DEFINE t == call[k].task
           i == store[t].inst
           n == node[i]
<1>1. call[k] \in CallShapes /\ call[k].step = "decided" /\ call[k].verdict = "completed" /\ Resumed(k)
  BY DEF FlowShape, Completed, Resumes, Resumed
<1>2. t \in 1..Len(store) /\ i \in Instances
  BY <1>1, TaskFacts DEF FlowShape, Acting
<1>3. context[i] \in Contexts /\ n \in Nodes /\ state[i] \in {"none", "running", "completed"} /\ 0 \in 0..MaxIter
  BY <1>2, BoundsAssumption DEF FlowShape
<1>4. Relist(i, t, "completed")
  BY DEF Completed
<1>5. CASE HasDefault(n) /\ Default(n) \notin Nodes
  BY <1>1, <1>2, <1>4, <1>5 DEF Completed
<1>6. CASE ~HasDefault(n)
  <2>1. Loop(k, i, context[i], [state |-> state[i], node |-> n], 0)
    BY <1>6 DEF Completed, Place
  <2>2. Advances(k, i, state[i], n, 0)
    BY <1>2, <1>3, <2>1, LoopFacts DEF Advances
  <2> QED
    BY <1>1, <1>2, <1>4, <1>6, <2>2 DEF Completed
<1>7. CASE HasDefault(n) /\ Default(n) \in Nodes
  <2> DEFINE s == IF Kind[Default(n)] = "end" THEN "completed" ELSE state[i]
  <2>1. Loop(k, i, context[i], Arrive(Place(i), Default(n)), 0)
    BY <1>7 DEF Completed
  <2>2. Arrive(Place(i), Default(n)) = [state |-> s, node |-> Default(n)]
    BY DEF Arrive, Place
  <2>3. s \in {"none", "running", "completed"}
    BY <1>3
  <2>4. Loop(k, i, context[i], [state |-> s, node |-> Default(n)], 0)
    BY <2>1, <2>2, Zenon
  <2> HIDE DEF s
  <2>5. Advances(k, i, s, Default(n), 0)
    BY <1>2, <1>3, <1>7, <2>3, <2>4, LoopFacts DEF Advances
  <2> QED
    BY <1>1, <1>2, <1>4, <1>7, <2>5 DEF Completed, s
<1> QED
  BY <1>5, <1>6, <1>7

\* The continuation with a created task lists it, or goes on with the next
\* branch, or leaves a parallel node.
ListsTask(k) ==
  /\ Kind[call[k].node] \in Waiting
  /\ listed' = [listed EXCEPT ![call[k].inst] = Put(listed[call[k].inst], call[k].task, "pending")]
  /\ Goto(k, Round(call[k].inst, call[k].node, call[k].iter))
  /\ UNCHANGED <<state, node>>
NextBranch(k) ==
  /\ Kind[call[k].node] = "parallel"
  /\ \E target \in Nodes, at \in Nat :
       Goto(k, Creating(call[k].inst, call[k].node, call[k].iter, target, at))
  /\ UNCHANGED <<state, node, listed>>
LeavesFork(k) ==
  LET i == call[k].inst
      n == call[k].node
  IN  /\ Kind[n] = "parallel"
      /\ UNCHANGED listed
      /\ \/ /\ ~(HasDefault(n) /\ Default(n) \in Nodes)
            /\ Finish(k) /\ SetPlace(i, Place(i))
         \/ /\ HasDefault(n) /\ Default(n) \in Nodes
            /\ SetPlace(i, Arrive(Place(i), Default(n)))
            /\ Goto(k, Round(i, n, call[k].iter))

LEMMA CreatedFacts ==
  ASSUME FlowShape, NEW k \in Calls, Created(k)
  PROVE  /\ Resumed(k) /\ call[k].step = "created"
         /\ call[k].inst \in Instances /\ call[k].node \in Nodes /\ call[k].iter \in 0..MaxIter
         /\ call[k].task \in 1..Len(store) /\ store[call[k].task].inst = call[k].inst
         /\ ListsTask(k) \/ NextBranch(k) \/ LeavesFork(k)
         /\ UNCHANGED <<context, store, faults>>
<1> DEFINE i == call[k].inst
           n == call[k].node
           next == Round(i, n, call[k].iter)
           left == Branches(n, call[k].at)
<1>1. call[k] \in CallShapes /\ call[k].step = "created" /\ Resumed(k)
  BY DEF FlowShape, Created, Resumes, Resumed
<1>2. i \in Instances /\ n \in Nodes /\ call[k].iter \in 0..MaxIter /\ call[k].at \in Nat
  BY <1>1, ShapeOf
<1>3. call[k].task \in 1..Len(store) /\ store[call[k].task].inst = i
  BY <1>1 DEF FlowShape
<1>4. ASSUME Kind[n] \in Waiting, listed' = [listed EXCEPT ![i] = Put(@, call[k].task, "pending")],
             Goto(k, next), UNCHANGED <<state, node>>
      PROVE  ListsTask(k)
  BY <1>4 DEF ListsTask
<1>5. ASSUME Kind[n] = "parallel", left # {}, UNCHANGED <<state, node, listed>>,
             Goto(k, CreatingBranch(i, n, call[k].iter, Min(left)))
      PROVE  NextBranch(k)
  <2>1. Min(left) \in Nat /\ Out[n][Min(left)] \in Nodes
    BY <1>2, <1>5, BranchFacts
  <2> HIDE DEF left
  <2>2. Goto(k, Creating(i, n, call[k].iter, Out[n][Min(left)], Min(left)))
    BY <1>5 DEF CreatingBranch
  <2> QED
    BY <1>5, <2>1, <2>2 DEF NextBranch
<1>6. ASSUME Kind[n] = "parallel", UNCHANGED listed, FollowDefault(k, i, Place(i), n, next)
      PROVE  LeavesFork(k)
  BY <1>6 DEF LeavesFork, FollowDefault, Follow, Finish
<1>7. ListsTask(k) \/ NextBranch(k) \/ LeavesFork(k)
  BY <1>4, <1>5, <1>6 DEF Created
<1> QED
  BY <1>1, <1>2, <1>3, <1>7 DEF Created

-----------------------------------------------------------------------------
(* The shape of the state, and the queue.                                  *)

LEMMA FlowShapeInit == FlowInit => FlowShape /\ Queue
<1> SUFFICES ASSUME FlowInit PROVE FlowShape /\ Queue
  OBVIOUS
<1>1. store = <<>> /\ ready = <<>> /\ Len(<<>>) = 0 /\ 1..0 = {} /\ <<>> \in Seq(TaskRecord)
      /\ <<>> \in Seq(Calls) /\ DOMAIN <<>> = {}
  BY DEF FlowInit
<1>2. \A k \in Calls : call[k].step = "idle"
  BY DEF FlowInit, Idle
<1>3. call \in [Calls -> CallShapes]
  BY DEF FlowInit, CallShapes
<1>4. Len(store) <= MaxTasks /\ faults \in 0..MaxFaults
  BY <1>1, BoundsAssumption DEF FlowInit
<1>5. StartNode \in Nodes
  BY DefinitionAssumption
<1>6. listed = [i \in Instances |-> listed[i]] /\ \A i \in Instances : DOMAIN listed[i] = {}
  BY <1>1 DEF FlowInit
<1>7. FlowShape
  BY <1>1, <1>2, <1>3, <1>4, <1>5, <1>6 DEF FlowInit, FlowShape, Acting
<1>8. Queue
  BY <1>1, <1>2 DEF Queue, Settled
<1> QED
  BY <1>7, <1>8

ListsFit(lists, s) ==
  /\ lists = [i \in Instances |-> lists[i]]
  /\ \A i \in Instances : \A t \in DOMAIN lists[i] :
       t \in 1..Len(s) /\ lists[i][t] \in Statuses /\ s[t].inst = i

LEMMA ListsStillFit ==
  ASSUME FlowShape, Grown(store, store'), UNCHANGED listed
  PROVE  ListsFit(listed', store')
BY DEF FlowShape, Grown, ListsFit

\* A call takes a step: what has to be shown for the shape to stay.
LEMMA ShapeStep ==
  ASSUME FlowShape, NEW k \in Calls, NEW next \in CallShapes, call' = [call EXCEPT ![k] = next],
         store' \in Seq(TaskRecord), Len(store') <= MaxTasks, Grown(store, store'),
         state' \in [Instances -> {"none", "running", "completed"}],
         node' \in [Instances -> Nodes], UNCHANGED context,
         ListsFit(listed', store'), faults' \in 0..MaxFaults,
         next.step \in Acting \cup {"created"} => next.task \in 1..Len(store'),
         next.step = "created" => store'[next.task].inst = next.inst
  PROVE  FlowShape'
<1>1. \A l \in Calls : call'[l] = IF l = k THEN next ELSE call[l]
  BY DEF FlowShape
<1>2. call' \in [Calls -> CallShapes]
  BY DEF FlowShape
<1>3. \A l \in Calls : call'[l].step \in Acting \cup {"created"} => call'[l].task \in 1..Len(store')
  BY <1>1 DEF FlowShape, Grown
<1>4. \A l \in Calls : call'[l].step = "created" => store'[call'[l].task].inst = call'[l].inst
  BY <1>1 DEF FlowShape, Grown
<1> QED
  BY <1>2, <1>3, <1>4 DEF FlowShape, ListsFit

\* The same for a step that touches neither the store nor the places.
LEMMA ShapeCall ==
  ASSUME FlowShape, NEW k \in Calls, NEW next \in CallShapes, call' = [call EXCEPT ![k] = next],
         UNCHANGED <<state, node, context, store, faults>>, ListsFit(listed', store'),
         next.step \in Acting \cup {"created"} => next.task \in 1..Len(store'),
         next.step = "created" => store'[next.task].inst = next.inst
  PROVE  FlowShape'
<1>1. /\ store' \in Seq(TaskRecord) /\ Len(store') <= MaxTasks /\ Grown(store, store')
      /\ state' \in [Instances -> {"none", "running", "completed"}]
      /\ node' \in [Instances -> Nodes] /\ faults' \in 0..MaxFaults
  BY TaskFacts DEF FlowShape
<1> QED
  BY <1>1, ShapeStep

LEMMA ShapeAdvances ==
  ASSUME FlowShape, Queue, NEW k \in Calls, Resumed(k) \/ call[k].step \notin Settled,
         NEW i \in Instances, NEW s \in {"none", "running", "completed"}, NEW n \in Nodes,
         NEW iter \in 0..MaxIter, Advances(k, i, s, n, iter),
         UNCHANGED <<context, store, faults>>, ListsFit(listed', store')
  PROVE  FlowShape' /\ Queue'
<1>1. PICK p, next : Ran(i, context[i], s, n, iter, p, next) /\ SetPlace(i, p) /\ Goto(k, next)
  BY DEF Advances
<1>2. context[i] \in Contexts /\ call \in [Calls -> CallShapes]
  BY DEF FlowShape
<1>3. p \in Places /\ next \in CallShapes /\ next.step \in {"idle", "round", "create"}
  BY <1>1, <1>2, RanFacts
<1>4. Queue' /\ call' = [call EXCEPT ![k] = next]
  BY <1>1, <1>2, <1>3, GotoFacts
<1>5. /\ state' \in [Instances -> {"none", "running", "completed"}]
      /\ node' \in [Instances -> Nodes]
  BY <1>1, <1>3, PlaceFacts
<1>6. store' \in Seq(TaskRecord) /\ Len(store') <= MaxTasks /\ Grown(store, store') /\ faults' \in 0..MaxFaults
  BY TaskFacts DEF FlowShape
<1>7. next.step \notin Acting \cup {"created"}
  BY <1>3 DEF Acting
<1>8. FlowShape'
  BY <1>3, <1>4, <1>5, <1>6, <1>7, ShapeStep
<1> QED
  BY <1>4, <1>8

\* A call with a verdict goes on to its next step with the same task.
LEMMA ActingNext ==
  ASSUME NEW c \in CallShapes, c.step \in Acting, NEW step \in Carrying
  PROVE  LET next == [c EXCEPT !.step = step]
         IN  next \in CallShapes /\ next.step = step /\ next.task = c.task /\ next.verdict = c.verdict
<1>1. c \in [step : Acting, task : Tasks, verdict : {"completed", "rejected"}]
  BY ShapeOf
<1>2. [c EXCEPT !.step = step] \in [step : Acting, task : Tasks, verdict : {"completed", "rejected"}]
  BY <1>1 DEF Acting, Carrying
<1> QED
  BY <1>1, <1>2 DEF CallShapes, Acting

LEMMA StoreCreatesFacts ==
  ASSUME FlowShape, NEW k \in Calls, StoreCreates(k)
  PROVE  LET c == call[k]
             next == [step |-> "created", inst |-> c.inst, node |-> c.node, iter |-> c.iter,
                      at |-> c.at, task |-> Len(store) + 1]
         IN  /\ c.step = "create" /\ c.inst \in Instances /\ c.node \in Nodes /\ c.target \in Nodes
             /\ c.iter \in 0..MaxIter
             /\ AddTask(c.inst, c.target) /\ Goto(k, next) /\ next \in CallShapes
             /\ UNCHANGED <<state, node, context, listed, faults>>
<1> DEFINE c == call[k]
<1>1. c \in CallShapes /\ c.step = "create"
  BY DEF FlowShape, StoreCreates
<1>2. c.inst \in Instances /\ c.node \in Nodes /\ c.target \in Nodes /\ c.iter \in 0..MaxIter /\ c.at \in Nat
  BY <1>1, ShapeOf
<1>3. AddTask(c.inst, c.target)
  BY DEF StoreCreates
<1>4. Len(store) + 1 \in Tasks
  BY <1>2, <1>3, AddFacts
<1> HIDE DEF c
<1>5. [step |-> "created", inst |-> c.inst, node |-> c.node, iter |-> c.iter, at |-> c.at,
       task |-> Len(store) + 1] \in CallShapes
  BY <1>2, <1>4 DEF CallShapes
<1> QED
  BY <1>1, <1>2, <1>3, <1>5 DEF StoreCreates, c

LEMMA DecideFacts ==
  ASSUME FlowShape, NEW k \in Calls, NEW t \in Tasks, NEW v \in {"completed", "rejected"}, Decide(k, t, v)
  PROVE  LET next == [step |-> "decide", task |-> t, verdict |-> v]
         IN  /\ call[k] = Idle /\ next \in CallShapes /\ Goto(k, next)
             /\ t \in 1..Len(store)
             /\ Worklist \/ \E i \in Instances : t \in DOMAIN listed[i]
             /\ UNCHANGED <<state, node, context, listed, store, faults>>
<1>1. call[k] \in CallShapes /\ call[k].step = "idle"
  BY DEF FlowShape, Decide, Active
<1>2. call[k] = Idle
  BY <1>1, ShapeOf DEF Acting
<1>3. [step |-> "decide", task |-> t, verdict |-> v] \in CallShapes
  BY DEF CallShapes
<1>4. t \in 1..Len(store)
  BY TaskFacts DEF Decide
<1> QED
  BY <1>2, <1>3, <1>4 DEF Decide

LEMMA VerdictFacts ==
  ASSUME FlowShape, NEW k \in Calls, call[k].step \in Acting
  PROVE  /\ call[k] \in CallShapes /\ call[k].verdict \in {"completed", "rejected"}
         /\ call[k].verdict \in Statuses /\ call[k].verdict \notin Open
         /\ call[k].task \in 1..Len(store) /\ store[call[k].task].inst \in Instances
<1>1. call[k] \in CallShapes /\ call[k].task \in 1..Len(store)
  BY DEF FlowShape
<1>2. call[k].verdict \in {"completed", "rejected"}
  BY <1>1, ShapeOf
<1> QED
  BY <1>1, <1>2, TaskFacts DEF Statuses, Open

\* The shape goes on for each kind of step.
LEMMA ShapeGoto ==
  ASSUME FlowShape, Queue, NEW k \in Calls, Resumed(k) \/ call[k].step \notin Settled,
         NEW next \in CallShapes, Goto(k, next),
         UNCHANGED <<state, node, context, store, faults>>, ListsFit(listed', store'),
         next.step \in Acting \cup {"created"} => next.task \in 1..Len(store'),
         next.step = "created" => store'[next.task].inst = next.inst
  PROVE  FlowShape' /\ Queue'
<1>1. Queue' /\ call' = [call EXCEPT ![k] = next]
  BY GotoFacts DEF FlowShape
<1>2. FlowShape'
  BY <1>1, ShapeCall
<1> QED
  BY <1>1, <1>2

LEMMA ShapeFinish ==
  ASSUME FlowShape, Queue, NEW k \in Calls, Resumed(k) \/ call[k].step \notin Settled, Finish(k),
         UNCHANGED <<state, node, context, store, faults>>, ListsFit(listed', store')
  PROVE  FlowShape' /\ Queue'
<1>1. Idle \in CallShapes /\ Idle.step = "idle" /\ Goto(k, Idle)
  BY DEF Idle, CallShapes, Finish
<1> QED
  BY <1>1, ShapeGoto DEF Acting

\* The store changes under a call that takes its next step.
LEMMA ShapeStore ==
  ASSUME FlowShape, Queue, NEW k \in Calls, Resumed(k) \/ call[k].step \notin Settled,
         NEW next \in CallShapes, Goto(k, next),
         store' \in Seq(TaskRecord), Len(store') <= MaxTasks, Grown(store, store'),
         UNCHANGED <<state, node, context, listed>>, faults' \in 0..MaxFaults,
         next.step \in Acting \cup {"created"} => next.task \in 1..Len(store'),
         next.step = "created" => store'[next.task].inst = next.inst
  PROVE  FlowShape' /\ Queue'
<1>1. Queue' /\ call' = [call EXCEPT ![k] = next]
  BY GotoFacts DEF FlowShape
<1>2. ListsFit(listed', store')
  BY ListsStillFit
<1>3. /\ state' \in [Instances -> {"none", "running", "completed"}]
      /\ node' \in [Instances -> Nodes]
  BY DEF FlowShape
<1>4. FlowShape'
  BY <1>1, <1>2, <1>3, ShapeStep
<1> QED
  BY <1>1, <1>4

\* A user works on a task and the calls stand where they are.
LEMMA ShapeUsers ==
  ASSUME FlowShape, Queue, store' \in Seq(TaskRecord), Len(store') <= MaxTasks, Grown(store, store'),
         UNCHANGED <<state, node, context, listed, call, ready, faults>>
  PROVE  FlowShape' /\ Queue'
<1>1. ListsFit(listed', store')
  BY ListsStillFit
<1>2. \A l \in Calls : call'[l].step \in Acting \cup {"created"} => call'[l].task \in 1..Len(store')
  BY DEF FlowShape, Grown
<1>3. \A l \in Calls : call'[l].step = "created" => store'[call'[l].task].inst = call'[l].inst
  BY DEF FlowShape, Grown
<1>4. FlowShape'
  BY <1>1, <1>2, <1>3 DEF FlowShape, ListsFit
<1> QED
  BY <1>4 DEF Queue

\* The store fails for a call, perhaps after it has done what it was asked.
LEMMA StoreFailsFacts ==
  ASSUME FlowShape, NEW k \in Calls, StoreFails(k)
  PROVE  /\ call[k].step \in {"create", "decide", "reading"} /\ call[k].step \notin Settled
         /\ faults < MaxFaults /\ faults' = faults + 1 /\ faults' \in 0..MaxFaults /\ faults' # 0
         /\ Finish(k) /\ UNCHANGED <<state, node, context, listed>>
         /\ store' \in Seq(TaskRecord) /\ Len(store') <= MaxTasks /\ Grown(store, store')
         /\ \/ UNCHANGED store
            \/ /\ call[k].step = "create" /\ call[k].inst \in Instances /\ call[k].target \in Nodes
               /\ AddTask(call[k].inst, call[k].target)
            \/ /\ call[k].step = "decide" /\ store[call[k].task].status \in Open
               /\ store' = [store EXCEPT ![call[k].task].status = call[k].verdict]
<1>1. faults \in 0..MaxFaults /\ MaxFaults \in Nat /\ faults < MaxFaults /\ faults' = faults + 1
  BY BoundsAssumption DEF FlowShape, StoreFails
<1>2. faults' \in 0..MaxFaults /\ faults' # 0
  BY <1>1
<1>3. /\ call[k].step \in {"create", "decide", "reading"} /\ call[k].step \notin Settled
      /\ Finish(k) /\ UNCHANGED <<state, node, context, listed>>
  BY DEF StoreFails, Settled
<1>4. CASE UNCHANGED store
  <2>1. store' \in Seq(TaskRecord) /\ Len(store') <= MaxTasks /\ Grown(store, store')
    BY <1>4, TaskFacts DEF FlowShape
  <2> QED
    BY <1>1, <1>2, <1>3, <1>4, <2>1
<1>5. CASE call[k].step = "create" /\ AddTask(call[k].inst, call[k].target)
  <2>1. call[k].inst \in Instances /\ call[k].target \in Nodes
    BY <1>5, ShapeOf DEF FlowShape
  <2>2. store' \in Seq(TaskRecord) /\ Len(store') <= MaxTasks /\ Grown(store, store')
    BY <1>5, <2>1, AddFacts
  <2> QED
    BY <1>1, <1>2, <1>3, <1>5, <2>1, <2>2
<1>6. CASE /\ call[k].step = "decide" /\ store[call[k].task].status \in Open
           /\ store' = [store EXCEPT ![call[k].task].status = call[k].verdict]
  <2>1. call[k].verdict \in Statuses /\ call[k].task \in 1..Len(store)
    BY <1>6, VerdictFacts DEF Acting
  <2>2. store' \in Seq(TaskRecord) /\ Len(store') <= MaxTasks /\ Grown(store, store')
    BY <1>6, <2>1, SetFacts
  <2> QED
    BY <1>1, <1>2, <1>3, <1>6, <2>2
<1> QED
  BY <1>4, <1>5, <1>6 DEF StoreFails

\* startTask and cancelTask change the status of an open task.
LEMMA UserFacts ==
  ASSUME FlowShape, NEW t \in Tasks, StartTask(t) \/ CancelTask(t)
  PROVE  /\ t \in 1..Len(store) /\ store[t].status \in Open
         /\ \E v \in {"in_progress", "cancelled"} : store' = [store EXCEPT ![t].status = v]
         /\ store' \in Seq(TaskRecord) /\ Len(store') <= MaxTasks /\ Len(store') = Len(store)
         /\ Grown(store, store')
         /\ \A u \in 1..Len(store) : u # t => store'[u] = store[u]
         /\ store'[t].status \in {"in_progress", "cancelled"}
         /\ UNCHANGED <<state, node, context, listed, call, ready, faults>>
<1>1. t \in 1..Len(store) /\ store[t].status \in Open
  BY TaskFacts DEF StartTask, CancelTask, Open
<1>2. PICK v \in {"in_progress", "cancelled"} : store' = [store EXCEPT ![t].status = v]
  BY DEF StartTask, CancelTask
<1>3. v \in Statuses
  BY DEF Statuses, Open
<1>4. /\ store' \in Seq(TaskRecord) /\ Len(store') <= MaxTasks /\ Len(store') = Len(store)
      /\ Grown(store, store')
      /\ \A u \in 1..Len(store) : u # t => store'[u] = store[u]
      /\ store'[t].status = v
  BY <1>1, <1>2, <1>3, SetFacts
<1> QED
  BY <1>1, <1>2, <1>4 DEF StartTask, CancelTask

\* The store takes a verdict on an open task; any other call of it is over.
LEMMA StoreDecidesFacts ==
  ASSUME FlowShape, NEW k \in Calls, StoreDecides(k)
  PROVE  LET t == call[k].task
             next == [call[k] EXCEPT !.step = "decided"]
         IN  /\ call[k].step = "decide" /\ t \in 1..Len(store) /\ call[k].verdict \in {"completed", "rejected"}
             /\ \/ store[t].status \notin Open /\ Finish(k) /\ UNCHANGED store
                \/ /\ store[t].status \in Open /\ Goto(k, next)
                   /\ next \in CallShapes /\ next.step = "decided" /\ next.task = t
                   /\ next.verdict = call[k].verdict
                   /\ store' \in Seq(TaskRecord) /\ Len(store') <= MaxTasks /\ Len(store') = Len(store)
                   /\ Grown(store, store')
                   /\ \A u \in 1..Len(store) : u # t => store'[u] = store[u]
                   /\ store'[t].status = call[k].verdict
             /\ UNCHANGED <<state, node, context, listed, faults>>
<1> DEFINE t == call[k].task
           next == [call[k] EXCEPT !.step = "decided"]
<1>1. call[k].step = "decide" /\ UNCHANGED <<state, node, context, listed, faults>>
  BY DEF StoreDecides
<1>2. /\ call[k] \in CallShapes /\ call[k].verdict \in {"completed", "rejected"}
      /\ call[k].verdict \in Statuses /\ t \in 1..Len(store)
  BY <1>1, VerdictFacts DEF Acting
<1>3. next \in CallShapes /\ next.step = "decided" /\ next.task = t /\ next.verdict = call[k].verdict
  BY <1>1, <1>2, ActingNext DEF Acting, Carrying
<1> HIDE DEF next
<1>4. CASE store[t].status \notin Open
  <2>1. Finish(k) /\ UNCHANGED store
    BY <1>4 DEF StoreDecides
  <2> QED
    BY <1>1, <1>2, <1>4, <2>1
<1>5. CASE store[t].status \in Open
  <2>1. store' = [store EXCEPT ![t].status = call[k].verdict] /\ Goto(k, next)
    BY <1>5 DEF StoreDecides, next
  <2>2. /\ store' \in Seq(TaskRecord) /\ Len(store') <= MaxTasks /\ Len(store') = Len(store)
        /\ Grown(store, store')
        /\ \A u \in 1..Len(store) : u # t => store'[u] = store[u]
        /\ store'[t].status = call[k].verdict
    BY <1>2, <1>5, <2>1, SetFacts
  <2> QED
    BY <1>1, <1>2, <1>3, <1>5, <2>1, <2>2 DEF next
<1> QED
  BY <1>4, <1>5

\* onTaskRejected reads the task once more and brings the copy up to date.
LEMMA RereadFacts ==
  ASSUME FlowShape, NEW k \in Calls, RejectedReads(k) \/ StoreReads(k)
  PROVE  \E next \in CallShapes :
           /\ next.step \in {"reading", "read"} /\ next.task = call[k].task /\ next.verdict = call[k].verdict
           /\ call[k].step \in Carrying /\ Goto(k, next)
           /\ call[k].step = "decided" => call[k].verdict = "rejected"
           /\ Resumed(k) \/ call[k].step \notin Settled
           /\ UNCHANGED <<state, node, context, listed, store, faults>>
<1>1. CASE RejectedReads(k)
  <2>1. call[k].step = "decided" /\ call[k].verdict = "rejected" /\ Resumed(k)
    BY <1>1 DEF RejectedReads, Resumes, Resumed
  <2> DEFINE next == [call[k] EXCEPT !.step = "reading"]
  <2>2. next \in CallShapes /\ next.step = "reading" /\ next.task = call[k].task /\ next.verdict = call[k].verdict
    BY <2>1, ActingNext DEF FlowShape, Acting, Carrying
  <2>3. Goto(k, next) /\ UNCHANGED <<state, node, context, listed, store, faults>>
    BY <1>1 DEF RejectedReads
  <2> HIDE DEF next
  <2> QED
    BY <2>1, <2>2, <2>3 DEF Carrying
<1>2. CASE StoreReads(k)
  <2>1. call[k].step = "reading" /\ call[k].step \notin Settled
    BY <1>2 DEF StoreReads, Settled
  <2> DEFINE next == [call[k] EXCEPT !.step = "read"]
  <2>2. next \in CallShapes /\ next.step = "read" /\ next.task = call[k].task /\ next.verdict = call[k].verdict
    BY <2>1, ActingNext DEF FlowShape, Acting, Carrying
  <2>3. Goto(k, next) /\ UNCHANGED <<state, node, context, listed, store, faults>>
    BY <1>2 DEF StoreReads
  <2> HIDE DEF next
  <2> QED
    BY <2>1, <2>2, <2>3 DEF Carrying
<1> QED
  BY <1>1, <1>2

LEMMA RejectedFacts ==
  ASSUME FlowShape, NEW k \in Calls, Rejected(k)
  PROVE  LET t == call[k].task
         IN  /\ Resumed(k) /\ call[k].step = "read" /\ t \in 1..Len(store)
             /\ store[t].inst \in Instances /\ store[t].status \in Statuses
             /\ Relist(store[t].inst, t, store[t].status) /\ Finish(k)
             /\ UNCHANGED <<state, node, context, store, faults>>
<1>1. call[k].step = "read" /\ Resumed(k)
  BY DEF Rejected, Resumes, Resumed
<1>2. call[k].task \in 1..Len(store)
  BY <1>1 DEF FlowShape, Acting
<1> QED
  BY <1>1, <1>2, TaskFacts DEF Rejected

\* The lists still fit when a copy is brought up to date or a task is added.
LEMMA RelistFits ==
  ASSUME FlowShape, NEW i \in Instances, NEW t, NEW v \in Statuses, Relist(i, t, v), UNCHANGED store
  PROVE  ListsFit(listed', store')
<1>1. /\ listed' = [j \in Instances |-> listed'[j]]
      /\ \A j \in Instances :
           /\ DOMAIN listed'[j] = DOMAIN listed[j]
           /\ \A u \in DOMAIN listed[j] : listed'[j][u] = IF j = i /\ u = t THEN v ELSE listed[j][u]
  BY RelistFacts
<1>2. \A j \in Instances : \A u \in DOMAIN listed[j] :
        u \in 1..Len(store) /\ listed[j][u] \in Statuses /\ store[u].inst = j
  BY DEF FlowShape
<1> QED
  BY <1>1, <1>2 DEF ListsFit

LEMMA PutFits ==
  ASSUME FlowShape, NEW i \in Instances, NEW t \in 1..Len(store), store[t].inst = i,
         listed' = [listed EXCEPT ![i] = Put(listed[i], t, "pending")], UNCHANGED store
  PROVE  ListsFit(listed', store')
<1>1. /\ listed' = [j \in Instances |-> listed'[j]]
      /\ \A j \in Instances : j # i => listed'[j] = listed[j]
      /\ DOMAIN listed'[i] = DOMAIN listed[i] \cup {t}
      /\ listed'[i][t] = "pending"
      /\ \A u \in DOMAIN listed[i] : u # t => listed'[i][u] = listed[i][u]
  BY PutFacts, ZenonT(30)
<1>2. \A j \in Instances : \A u \in DOMAIN listed[j] :
        u \in 1..Len(store) /\ listed[j][u] \in Statuses /\ store[u].inst = j
  BY DEF FlowShape
<1>3. "pending" \in Statuses
  BY DEF Statuses, Open
<1> QED
  BY <1>1, <1>2, <1>3 DEF ListsFit

LEMMA FlowShapeNext == FlowShape /\ Queue /\ [FlowNext]_flowVars => FlowShape' /\ Queue'
<1> SUFFICES ASSUME FlowShape, Queue, [FlowNext]_flowVars PROVE FlowShape' /\ Queue'
  OBVIOUS
<1>0. Grown(store, store) /\ StartNode \in Nodes /\ 0 \in 0..MaxIter
  BY TaskFacts, DefinitionAssumption, BoundsAssumption
<1>1. ASSUME NEW k \in Calls, NEW i \in Instances, Start(k, i) PROVE FlowShape' /\ Queue'
  <2>1. /\ call[k].step \notin Settled /\ Advances(k, i, "running", StartNode, 0)
        /\ UNCHANGED <<context, listed, store, faults>>
    BY <1>1, StartFacts DEF Idle, Settled
  <2>2. ListsFit(listed', store')
    BY <1>0, <2>1, ListsStillFit
  <2> QED
    BY <1>0, <2>1, <2>2, ShapeAdvances
<1>2. ASSUME NEW k \in Calls, NextRound(k) PROVE FlowShape' /\ Queue'
  <2> DEFINE i == call[k].inst
  <2>1. /\ Resumed(k) /\ i \in Instances /\ call[k].iter \in 0..MaxIter
        /\ UNCHANGED <<context, listed, store, faults>>
    BY <1>2, NextRoundFacts
  <2>2. ListsFit(listed', store')
    BY <1>0, <2>1, ListsStillFit
  <2>3. CASE Finish(k) /\ UNCHANGED <<state, node>>
    BY <2>1, <2>2, <2>3, ShapeFinish
  <2>4. CASE Advances(k, i, state[i], node[i], call[k].iter)
    <3>1. node[i] \in Nodes /\ state[i] \in {"none", "running", "completed"}
      BY <2>1 DEF FlowShape
    <3> QED
      BY <2>1, <2>2, <2>4, <3>1, ShapeAdvances
  <2> QED
    BY <1>2, <2>3, <2>4, NextRoundFacts
<1>3. ASSUME NEW k \in Calls, StoreCreates(k) PROVE FlowShape' /\ Queue'
  <2> DEFINE c == call[k]
             next == [step |-> "created", inst |-> c.inst, node |-> c.node, iter |-> c.iter,
                      at |-> c.at, task |-> Len(store) + 1]
  <2>1. /\ c.step = "create" /\ c.inst \in Instances /\ c.target \in Nodes
        /\ AddTask(c.inst, c.target) /\ Goto(k, next) /\ next \in CallShapes
        /\ UNCHANGED <<state, node, context, listed, faults>>
    BY <1>3, StoreCreatesFacts
  <2>2. /\ store' \in Seq(TaskRecord) /\ Len(store') <= MaxTasks /\ Len(store') = Len(store) + 1
        /\ store'[Len(store) + 1] = [inst |-> c.inst, node |-> c.target, status |-> "pending"]
        /\ Grown(store, store')
    BY <2>1, AddFacts
  <2>3. next.step = "created" /\ next.task = Len(store) + 1 /\ next.inst = c.inst
    OBVIOUS
  <2> HIDE DEF next
  <2>4. next.task \in 1..Len(store') /\ store'[next.task].inst = next.inst
    BY <2>2, <2>3, TaskFacts
  <2>5. faults' \in 0..MaxFaults /\ c.step \notin Settled
    BY <2>1 DEF FlowShape, Settled
  <2> QED
    BY <2>1, <2>2, <2>4, <2>5, ShapeStore
<1>4. ASSUME NEW k \in Calls, Created(k) PROVE FlowShape' /\ Queue'
  <2> DEFINE i == call[k].inst
             n == call[k].node
  <2>1. /\ Resumed(k) /\ i \in Instances /\ n \in Nodes /\ call[k].iter \in 0..MaxIter
        /\ call[k].task \in 1..Len(store) /\ store[call[k].task].inst = i
        /\ UNCHANGED <<context, store, faults>>
    BY <1>4, CreatedFacts
  <2>2. /\ Round(i, n, call[k].iter) \in CallShapes
        /\ \A target \in Nodes, at \in Nat : Creating(i, n, call[k].iter, target, at) \in CallShapes
    BY <2>1, NextShapes
  <2>3. CASE ListsTask(k)
    <3>1. ListsFit(listed', store')
      BY <2>1, <2>3, PutFits DEF ListsTask
    <3>2. Round(i, n, call[k].iter).step = "round"
      BY DEF Round
    <3> QED
      BY <2>1, <2>2, <2>3, <3>1, <3>2, ShapeGoto DEF ListsTask, Acting
  <2>4. CASE NextBranch(k)
    <3>1. PICK target \in Nodes, at \in Nat : Goto(k, Creating(i, n, call[k].iter, target, at))
      BY <2>4 DEF NextBranch
    <3>2. Creating(i, n, call[k].iter, target, at).step = "create"
      BY DEF Creating
    <3>3. UNCHANGED <<state, node, listed>> /\ ListsFit(listed', store')
      BY <1>0, <2>1, <2>4, ListsStillFit DEF NextBranch
    <3> QED
      BY <2>1, <2>2, <3>1, <3>2, <3>3, ShapeGoto DEF Acting
  <2>5. CASE LeavesFork(k)
    <3>1. UNCHANGED listed /\ ListsFit(listed', store')
      BY <1>0, <2>1, <2>5, ListsStillFit DEF LeavesFork
    <3>2. node[i] \in Nodes /\ state[i] \in {"none", "running", "completed"}
      BY <2>1 DEF FlowShape
    <3>3. PICK p \in Places, next \in CallShapes : next.step \in {"idle", "round"} /\ SetPlace(i, p) /\ Goto(k, next)
      <4>1. CASE Finish(k) /\ SetPlace(i, Place(i))
        <5>1. Place(i) \in Places /\ Idle \in CallShapes /\ Idle.step = "idle"
          BY <3>2 DEF Place, Places, CallShapes, Idle
        <5> QED
          BY <4>1, <5>1 DEF Finish
      <4>2. CASE /\ Default(n) \in Nodes /\ SetPlace(i, Arrive(Place(i), Default(n)))
                 /\ Goto(k, Round(i, n, call[k].iter))
        <5>1. Arrive(Place(i), Default(n)) \in Places /\ Round(i, n, call[k].iter).step = "round"
          BY <3>2, <4>2 DEF Place, Places, Arrive, Round
        <5> QED
          BY <2>2, <4>2, <5>1
      <4> QED
        BY <2>5, <4>1, <4>2 DEF LeavesFork
    <3>4. Queue' /\ call' = [call EXCEPT ![k] = next]
      BY <2>1, <3>3, GotoFacts DEF FlowShape
    <3>5. state' \in [Instances -> {"none", "running", "completed"}] /\ node' \in [Instances -> Nodes]
      BY <2>1, <3>3, PlaceFacts
    <3>6. store' \in Seq(TaskRecord) /\ Len(store') <= MaxTasks /\ Grown(store, store') /\ faults' \in 0..MaxFaults
      BY <1>0, <2>1 DEF FlowShape
    <3>7. FlowShape'
      BY <2>1, <3>1, <3>3, <3>4, <3>5, <3>6, ShapeStep DEF Acting
    <3> QED
      BY <3>4, <3>7
  <2> QED
    BY <1>4, <2>3, <2>4, <2>5, CreatedFacts
<1>5. ASSUME NEW k \in Calls, NEW t \in Tasks, NEW v \in {"completed", "rejected"}, Decide(k, t, v)
      PROVE  FlowShape' /\ Queue'
  <2> DEFINE next == [step |-> "decide", task |-> t, verdict |-> v]
  <2>1. /\ call[k] = Idle /\ next \in CallShapes /\ Goto(k, next) /\ t \in 1..Len(store)
        /\ UNCHANGED <<state, node, context, listed, store, faults>>
    BY <1>5, DecideFacts
  <2>2. ListsFit(listed', store') /\ call[k].step \notin Settled /\ next.step = "decide" /\ next.task = t
    BY <1>0, <2>1, ListsStillFit DEF Idle, Settled
  <2> HIDE DEF next
  <2> QED
    BY <2>1, <2>2, ShapeGoto
<1>6. ASSUME NEW k \in Calls, StoreDecides(k) PROVE FlowShape' /\ Queue'
  <2>1. /\ call[k].step \notin Settled /\ call[k].task \in 1..Len(store)
        /\ UNCHANGED <<state, node, context, listed, faults>>
    BY <1>6, StoreDecidesFacts DEF Settled
  <2>2. CASE Finish(k) /\ UNCHANGED store
    BY <1>0, <2>1, <2>2, ShapeFinish, ListsStillFit
  <2>3. CASE ~(Finish(k) /\ UNCHANGED store)
    <3> DEFINE next == [call[k] EXCEPT !.step = "decided"]
    <3>1. /\ Goto(k, next) /\ next \in CallShapes /\ next.step = "decided" /\ next.task = call[k].task
          /\ store' \in Seq(TaskRecord) /\ Len(store') <= MaxTasks /\ Len(store') = Len(store)
          /\ Grown(store, store')
      BY <1>6, <2>3, StoreDecidesFacts
    <3> HIDE DEF next
    <3>2. faults' \in 0..MaxFaults
      BY <2>1 DEF FlowShape
    <3> QED
      BY <2>1, <3>1, <3>2, ShapeStore
  <2> QED
    BY <2>2, <2>3
<1>7. ASSUME NEW k \in Calls, Completed(k) PROVE FlowShape' /\ Queue'
  <2> DEFINE t == call[k].task
             i == store[t].inst
             n == node[i]
  <2>1. /\ Resumed(k) /\ i \in Instances /\ Relist(i, t, "completed") /\ UNCHANGED <<context, store, faults>>
    BY <1>7, CompletedFacts
  <2>2. ListsFit(listed', store')
    BY <2>1, RelistFits DEF Statuses
  <2>3. n \in Nodes /\ state[i] \in {"none", "running", "completed"}
    BY <2>1 DEF FlowShape
  <2>4. CASE Finish(k) /\ UNCHANGED <<state, node>>
    BY <2>1, <2>2, <2>4, ShapeFinish
  <2>5. CASE Advances(k, i, state[i], n, 0)
    BY <1>0, <2>1, <2>2, <2>3, <2>5, ShapeAdvances
  <2>6. CASE /\ Default(n) \in Nodes
             /\ Advances(k, i, IF Kind[Default(n)] = "end" THEN "completed" ELSE state[i], Default(n), 0)
    <3> DEFINE s == IF Kind[Default(n)] = "end" THEN "completed" ELSE state[i]
    <3>1. s \in {"none", "running", "completed"}
      BY <2>3
    <3>2. Advances(k, i, s, Default(n), 0)
      BY <2>6
    <3> HIDE DEF s
    <3> QED
      BY <1>0, <2>1, <2>2, <2>6, <3>1, <3>2, ShapeAdvances
  <2> QED
    BY <1>7, <2>4, <2>5, <2>6, CompletedFacts
<1>8. ASSUME NEW k \in Calls, RejectedReads(k) \/ StoreReads(k) PROVE FlowShape' /\ Queue'
  <2>1. PICK next \in CallShapes :
          /\ next.step \in {"reading", "read"} /\ next.task = call[k].task
          /\ call[k].step \in Carrying /\ Goto(k, next)
          /\ Resumed(k) \/ call[k].step \notin Settled
          /\ UNCHANGED <<state, node, context, listed, store, faults>>
    BY <1>8, RereadFacts
  <2>2. ListsFit(listed', store') /\ next.task \in 1..Len(store')
    BY <1>0, <2>1, ListsStillFit DEF FlowShape, Acting, Carrying
  <2> QED
    BY <2>1, <2>2, ShapeGoto
<1>9. ASSUME NEW k \in Calls, Rejected(k) PROVE FlowShape' /\ Queue'
  <2> DEFINE t == call[k].task
  <2>1. /\ Resumed(k) /\ store[t].inst \in Instances /\ store[t].status \in Statuses
        /\ Relist(store[t].inst, t, store[t].status) /\ Finish(k)
        /\ UNCHANGED <<state, node, context, store, faults>>
    BY <1>9, RejectedFacts
  <2>2. ListsFit(listed', store')
    BY <2>1, RelistFits
  <2> QED
    BY <2>1, <2>2, ShapeFinish
<1>10. ASSUME NEW k \in Calls, StoreFails(k) PROVE FlowShape' /\ Queue'
  <2>1. /\ call[k].step \notin Settled /\ faults' \in 0..MaxFaults
        /\ Goto(k, Idle) /\ UNCHANGED <<state, node, context, listed>>
        /\ store' \in Seq(TaskRecord) /\ Len(store') <= MaxTasks /\ Grown(store, store')
    BY <1>10, StoreFailsFacts DEF Finish
  <2>2. Idle \in CallShapes /\ Idle.step \notin Acting \cup {"created"}
    BY DEF CallShapes, Idle, Acting
  <2> QED
    BY <2>1, <2>2, ShapeStore
<1>11. ASSUME NEW t \in Tasks, StartTask(t) \/ CancelTask(t) PROVE FlowShape' /\ Queue'
  BY <1>11, UserFacts, ShapeUsers
<1>12. CASE UNCHANGED flowVars
  BY <1>12 DEF flowVars, FlowShape, Queue
<1> QED
  BY <1>1, <1>2, <1>3, <1>4, <1>5, <1>6, <1>7, <1>8, <1>9, <1>10, <1>11, <1>12
  DEF FlowNext, Actors, Continue

LEMMA FlowShapeMeant == FlowShape /\ Queue => FlowTypeOK
<1> SUFFICES ASSUME FlowShape, Queue PROVE FlowTypeOK
  OBVIOUS
<1>1. ready \in Seq(Calls) /\ DOMAIN ready = 1..Len(ready)
  BY LenProperties DEF Queue
<1>2. IsInjective(ready) /\ \A k \in Calls : k \in Range(ready) <=> call[k].step \in Settled
  BY <1>1 DEF Queue, IsInjective, Range
<1>3. Stored = 1..Len(store) /\ \A t \in Stored : store[t] \in TaskRecord
  BY TaskFacts
<1>4. \A i \in Instances :
        DOMAIN listed[i] \subseteq Stored /\ \A t \in DOMAIN listed[i] : listed[i][t] \in Statuses
  BY <1>3 DEF FlowShape
<1> QED
  BY <1>1, <1>2, <1>3, <1>4 DEF FlowTypeOK, FlowShape, TaskRecord

\* Instances, tasks and calls keep their types, and the queue of the event
\* loop holds each call whose promise has settled, once.
THEOREM FlowTypeCorrect == FlowSpec => []FlowTypeOK
<1> DEFINE Inv == FlowShape /\ Queue
<1>1. FlowInit => Inv
  BY FlowShapeInit
<1>2. Inv /\ [FlowNext]_flowVars => Inv'
  BY FlowShapeNext
<1>3. Inv => FlowTypeOK
  BY FlowShapeMeant
<1> QED
  BY <1>1, <1>2, <1>3, PTL DEF FlowSpec

-----------------------------------------------------------------------------
(* Verdicts: one call at most carries a verdict on a task.                 *)

\* A call takes a step: it carries a verdict afterwards only if it did so
\* before, or if the store has just taken it.
LEMMA VerdictStep ==
  ASSUME FlowShape, Verdicts, NEW k \in Calls, NEW next, call' = [call EXCEPT ![k] = next],
         Grown(store, store'),
         next.step \in Carrying =>
           /\ next.task \in 1..Len(store) /\ store'[next.task].status = next.verdict
           /\ \/ call[k].step \in Carrying /\ call[k].task = next.task
              \/ store[next.task].status \in Open
  PROVE  Verdicts'
<1>1. \A l \in Calls : call'[l] = IF l = k THEN next ELSE call[l]
  BY DEF FlowShape
<1>2. ASSUME NEW l \in Calls, call[l].step \in Carrying
      PROVE  /\ call[l].task \in 1..Len(store) /\ store[call[l].task].status = call[l].verdict
             /\ store[call[l].task].status \notin Open
             /\ store'[call[l].task].status = call[l].verdict
  <2>1. call[l].step \in Acting
    BY <1>2 DEF Acting, Carrying
  <2>2. call[l].task \in 1..Len(store) /\ call[l].verdict \notin Open
    BY <2>1, VerdictFacts
  <2> QED
    BY <1>2, <2>2 DEF Verdicts, Grown
<1>3. \A l \in Calls : call'[l].step \in Carrying => store'[call'[l].task].status = call'[l].verdict
  BY <1>1, <1>2
<1>4. ASSUME NEW a \in Calls, NEW b \in Calls, call'[a].step \in Carrying, call'[b].step \in Carrying,
             call'[a].task = call'[b].task
      PROVE  a = b
  BY <1>1, <1>2, <1>4 DEF Verdicts
<1> QED
  BY <1>3, <1>4 DEF Verdicts

LEMMA VerdictsInit == FlowInit => Verdicts
BY DEF FlowInit, Verdicts, Idle, Carrying

\* Other calls do not carry a verdict after their step.
LEMMA VerdictCalls ==
  ASSUME FlowShape, Queue, Verdicts, NEW k \in Calls, Resumed(k) \/ call[k].step \notin Settled,
         NEW next \in CallShapes, Goto(k, next), next.step \notin Carrying, Grown(store, store')
  PROVE  Verdicts'
<1>1. call' = [call EXCEPT ![k] = next]
  BY GotoFacts DEF FlowShape
<1> QED
  BY <1>1, VerdictStep

LEMMA VerdictAdvances ==
  ASSUME FlowShape, Queue, Verdicts, NEW k \in Calls, Resumed(k) \/ call[k].step \notin Settled,
         NEW i \in Instances, NEW s \in {"none", "running", "completed"}, NEW n \in Nodes,
         NEW iter \in 0..MaxIter, Advances(k, i, s, n, iter), UNCHANGED store
  PROVE  Verdicts'
<1>1. PICK p, next : Ran(i, context[i], s, n, iter, p, next) /\ SetPlace(i, p) /\ Goto(k, next)
  BY DEF Advances
<1>2. context[i] \in Contexts
  BY DEF FlowShape
<1>3. next \in CallShapes /\ next.step \in {"idle", "round", "create"}
  BY <1>1, <1>2, RanFacts
<1> QED
  BY <1>1, <1>3, VerdictCalls, TaskFacts DEF Carrying

LEMMA VerdictsNext == FlowShape /\ Queue /\ Verdicts /\ [FlowNext]_flowVars => Verdicts'
<1> SUFFICES ASSUME FlowShape, Queue, Verdicts, [FlowNext]_flowVars PROVE Verdicts'
  OBVIOUS
<1>0. /\ Grown(store, store) /\ StartNode \in Nodes /\ 0 \in 0..MaxIter
      /\ Idle \in CallShapes /\ Idle.step \notin Carrying
  BY TaskFacts, DefinitionAssumption, BoundsAssumption DEF CallShapes, Idle, Carrying
<1>1. ASSUME NEW k \in Calls, NEW i \in Instances, Start(k, i) PROVE Verdicts'
  BY <1>0, <1>1, StartFacts, VerdictAdvances DEF Idle, Settled
<1>2. ASSUME NEW k \in Calls, NextRound(k) PROVE Verdicts'
  <2> DEFINE i == call[k].inst
  <2>1. Resumed(k) /\ i \in Instances /\ call[k].iter \in 0..MaxIter /\ UNCHANGED store
    BY <1>2, NextRoundFacts
  <2>2. CASE Finish(k)
    BY <1>0, <2>1, <2>2, VerdictCalls DEF Finish
  <2>3. CASE Advances(k, i, state[i], node[i], call[k].iter)
    <3>1. node[i] \in Nodes /\ state[i] \in {"none", "running", "completed"}
      BY <2>1 DEF FlowShape
    <3> QED
      BY <2>1, <2>3, <3>1, VerdictAdvances
  <2> QED
    BY <1>2, <2>2, <2>3, NextRoundFacts
<1>3. ASSUME NEW k \in Calls, StoreCreates(k) PROVE Verdicts'
  <2> DEFINE c == call[k]
             next == [step |-> "created", inst |-> c.inst, node |-> c.node, iter |-> c.iter,
                      at |-> c.at, task |-> Len(store) + 1]
  <2>1. /\ c.step = "create" /\ c.inst \in Instances /\ c.target \in Nodes
        /\ AddTask(c.inst, c.target) /\ Goto(k, next) /\ next \in CallShapes
    BY <1>3, StoreCreatesFacts
  <2>2. Grown(store, store') /\ next.step \notin Carrying /\ c.step \notin Settled
    BY <2>1, AddFacts DEF Carrying, Settled
  <2> HIDE DEF next
  <2> QED
    BY <2>1, <2>2, VerdictCalls
<1>4. ASSUME NEW k \in Calls, Created(k) PROVE Verdicts'
  <2> DEFINE i == call[k].inst
             n == call[k].node
  <2>1. /\ Resumed(k) /\ i \in Instances /\ n \in Nodes /\ call[k].iter \in 0..MaxIter
        /\ UNCHANGED store
    BY <1>4, CreatedFacts
  <2>2. /\ Round(i, n, call[k].iter) \in CallShapes /\ Round(i, n, call[k].iter).step \notin Carrying
        /\ \A target \in Nodes, at \in Nat :
             /\ Creating(i, n, call[k].iter, target, at) \in CallShapes
             /\ Creating(i, n, call[k].iter, target, at).step \notin Carrying
    BY <2>1, NextShapes DEF Round, Creating, Carrying
  <2>3. CASE ListsTask(k)
    BY <1>0, <2>1, <2>2, <2>3, VerdictCalls DEF ListsTask
  <2>4. CASE NextBranch(k)
    BY <1>0, <2>1, <2>2, <2>4, VerdictCalls DEF NextBranch
  <2>5. CASE LeavesFork(k)
    BY <1>0, <2>1, <2>2, <2>5, VerdictCalls DEF LeavesFork, Finish
  <2> QED
    BY <1>4, <2>3, <2>4, <2>5, CreatedFacts
<1>5. ASSUME NEW k \in Calls, NEW t \in Tasks, NEW v \in {"completed", "rejected"}, Decide(k, t, v)
      PROVE  Verdicts'
  <2> DEFINE next == [step |-> "decide", task |-> t, verdict |-> v]
  <2>1. call[k] = Idle /\ next \in CallShapes /\ Goto(k, next) /\ UNCHANGED store
    BY <1>5, DecideFacts
  <2>2. call[k].step \notin Settled /\ next.step \notin Carrying
    BY <2>1 DEF Idle, Settled, Carrying
  <2> HIDE DEF next
  <2> QED
    BY <1>0, <2>1, <2>2, VerdictCalls
<1>6. ASSUME NEW k \in Calls, StoreDecides(k) PROVE Verdicts'
  <2> DEFINE t == call[k].task
             next == [call[k] EXCEPT !.step = "decided"]
  <2>1. call[k].step \notin Settled /\ t \in 1..Len(store)
    BY <1>6, StoreDecidesFacts DEF Settled
  <2>2. CASE Finish(k) /\ UNCHANGED store
    BY <1>0, <2>1, <2>2, VerdictCalls DEF Finish
  <2>3. CASE ~(Finish(k) /\ UNCHANGED store)
    <3>1. /\ store[t].status \in Open /\ Goto(k, next) /\ next \in CallShapes
          /\ next.task = t /\ next.verdict = call[k].verdict
          /\ Grown(store, store') /\ store'[t].status = call[k].verdict
      BY <1>6, <2>3, StoreDecidesFacts
    <3> HIDE DEF next
    <3>2. call' = [call EXCEPT ![k] = next]
      BY <2>1, <3>1, GotoFacts DEF FlowShape
    <3> QED
      BY <2>1, <3>1, <3>2, VerdictStep
  <2> QED
    BY <2>2, <2>3
<1>7. ASSUME NEW k \in Calls, Completed(k) PROVE Verdicts'
  <2> DEFINE t == call[k].task
             i == store[t].inst
             n == node[i]
  <2>1. Resumed(k) /\ i \in Instances /\ UNCHANGED store
    BY <1>7, CompletedFacts
  <2>2. n \in Nodes /\ state[i] \in {"none", "running", "completed"}
    BY <2>1 DEF FlowShape
  <2>3. CASE Finish(k)
    BY <1>0, <2>1, <2>3, VerdictCalls DEF Finish
  <2>4. CASE Advances(k, i, state[i], n, 0)
    BY <1>0, <2>1, <2>2, <2>4, VerdictAdvances
  <2>5. CASE /\ Default(n) \in Nodes
             /\ Advances(k, i, IF Kind[Default(n)] = "end" THEN "completed" ELSE state[i], Default(n), 0)
    <3> DEFINE s == IF Kind[Default(n)] = "end" THEN "completed" ELSE state[i]
    <3>1. s \in {"none", "running", "completed"} /\ Advances(k, i, s, Default(n), 0)
      BY <2>2, <2>5
    <3> HIDE DEF s
    <3> QED
      BY <1>0, <2>1, <2>5, <3>1, VerdictAdvances
  <2> QED
    BY <1>7, <2>3, <2>4, <2>5, CompletedFacts
<1>8. ASSUME NEW k \in Calls, RejectedReads(k) \/ StoreReads(k) PROVE Verdicts'
  <2>1. PICK next \in CallShapes :
          /\ next.task = call[k].task /\ next.verdict = call[k].verdict
          /\ call[k].step \in Carrying /\ Goto(k, next)
          /\ Resumed(k) \/ call[k].step \notin Settled
          /\ UNCHANGED store
    BY <1>8, RereadFacts
  <2>2. call' = [call EXCEPT ![k] = next] /\ next.task \in 1..Len(store)
    BY <2>1, GotoFacts DEF FlowShape, Acting, Carrying
  <2>3. store'[next.task].status = next.verdict
    BY <2>1 DEF Verdicts
  <2> QED
    BY <1>0, <2>1, <2>2, <2>3, VerdictStep
<1>9. ASSUME NEW k \in Calls, Rejected(k) PROVE Verdicts'
  BY <1>0, <1>9, RejectedFacts, VerdictCalls DEF Finish
<1>10. ASSUME NEW k \in Calls, StoreFails(k) PROVE Verdicts'
  BY <1>0, <1>10, StoreFailsFacts, VerdictCalls DEF Finish
<1>11. ASSUME NEW t \in Tasks, StartTask(t) \/ CancelTask(t) PROVE Verdicts'
  <2>1. UNCHANGED call /\ Grown(store, store')
    BY <1>11, UserFacts
  <2>2. \A l \in Calls : call[l].step \in Carrying =>
          call[l].task \in 1..Len(store) /\ call[l].verdict \notin Open
    BY VerdictFacts DEF Acting, Carrying
  <2> QED
    BY <2>1, <2>2 DEF Verdicts, Grown
<1>12. CASE UNCHANGED flowVars
  BY <1>12 DEF flowVars, Verdicts
<1> QED
  BY <1>1, <1>2, <1>3, <1>4, <1>5, <1>6, <1>7, <1>8, <1>9, <1>10, <1>11, <1>12
  DEF FlowNext, Actors, Continue

LEMMA VerdictsMeant == FlowShape /\ Verdicts => OneVerdict
<1> SUFFICES ASSUME FlowShape, Verdicts, NEW t \in Tasks
             PROVE  Cardinality({k \in Calls : call[k].step = "decided" /\ call[k].task = t}) <= 1
  BY DEF OneVerdict
<1> DEFINE S == {k \in Calls : call[k].step = "decided" /\ call[k].task = t}
<1>1. \A k, l \in S : k = l
  BY DEF Verdicts, Carrying
<1>2. S = {} \/ \E k \in S : S = {k}
  BY <1>1
<1> HIDE DEF S
<1>3. Cardinality(S) = 0 \/ Cardinality(S) = 1
  BY <1>2, FS_EmptySet, FS_Singleton
<1>4. Cardinality(S) <= 1
  BY <1>3
<1> QED
  BY <1>4 DEF S

-----------------------------------------------------------------------------
(* Lists and copies, where users act on listed tasks only.                 *)

Given == {"completed", "rejected"}

\* Lists lose no task and a copy that changes becomes what the store has.
Kept ==
  \A i \in Instances :
    /\ DOMAIN listed'[i] = DOMAIN listed[i]
    /\ \A u \in DOMAIN listed[i] :
         listed'[i][u] = listed[i][u] \/ listed'[i][u] = store'[u].status

Copied == faults = 0 => Copies

LEMMA ListsInit == FlowInit => Lists /\ Copied
<1> SUFFICES ASSUME FlowInit PROVE Lists /\ Copied
  OBVIOUS
<1>1. \A k \in Calls : call[k].step = "idle"
  BY DEF FlowInit, Idle
<1>2. \A i \in Instances : DOMAIN listed[i] = {}
  BY DEF FlowInit
<1> QED
  BY <1>1, <1>2 DEF Lists, Copied, Copies, Acting

\* A call takes a step and no task joins a list.
LEMMA ListsStep ==
  ASSUME FlowShape, Lists, NEW k \in Calls, NEW next, call' = [call EXCEPT ![k] = next],
         Grown(store, store'), \A i \in Instances : DOMAIN listed'[i] = DOMAIN listed[i],
         next.step \in Acting =>
           /\ next.task \in 1..Len(store)
           /\ next.task \in DOMAIN listed[store[next.task].inst],
         next.step = "created" =>
           /\ next.inst \in Instances /\ next.task \notin DOMAIN listed[next.inst]
           /\ store'[next.task].status \notin Given
           /\ \A l \in Calls : call[l].step = "created" => call[l].task # next.task,
         \A l \in Calls : call[l].step = "created" => store'[call[l].task].status \notin Given
  PROVE  Lists'
<1>1. \A l \in Calls : call'[l] = IF l = k THEN next ELSE call[l]
  BY DEF FlowShape
<1>2. ASSUME NEW l \in Calls, call'[l].step \in Acting
      PROVE  call'[l].task \in DOMAIN listed'[store'[call'[l].task].inst]
  <2>1. /\ call'[l].task \in 1..Len(store)
        /\ call'[l].task \in DOMAIN listed[store[call'[l].task].inst]
    BY <1>1, <1>2 DEF Lists, FlowShape
  <2>2. store'[call'[l].task].inst = store[call'[l].task].inst /\ store[call'[l].task].inst \in Instances
    BY <2>1, TaskFacts DEF Grown
  <2> QED
    BY <2>1, <2>2
<1>3. ASSUME NEW l \in Calls, call'[l].step = "created"
      PROVE  /\ call'[l].task \notin DOMAIN listed'[call'[l].inst]
             /\ store'[call'[l].task].status \notin Given
  <2>1. call[l].step = "created" => call[l].inst \in Instances
    BY ShapeOf DEF FlowShape
  <2> QED
    BY <1>1, <1>3, <2>1 DEF Lists
<1>4. ASSUME NEW a \in Calls, NEW b \in Calls, call'[a].step = "created", call'[b].step = "created",
             call'[a].task = call'[b].task
      PROVE  a = b
  BY <1>1, <1>4 DEF Lists
<1> QED
  BY <1>2, <1>3, <1>4 DEF Lists, Given

\* A call takes a step; where it carried a verdict and does not any more, the
\* copy is what the store has.
LEMMA CopiesStep ==
  ASSUME FlowShape, Copied, NEW k \in Calls, NEW next, call' = [call EXCEPT ![k] = next],
         Kept, UNCHANGED faults,
         \A u \in 1..Len(store) :
           store'[u].status \in Given =>
             store'[u].status = store[u].status \/ (next.step \in Carrying /\ next.task = u),
         call[k].step \in Carrying =>
           \/ next.step \in Carrying /\ next.task = call[k].task
           \/ \A i \in Instances : call[k].task \in DOMAIN listed[i] =>
                listed'[i][call[k].task] = store'[call[k].task].status
  PROVE  Copied'
<1>1. \A l \in Calls : call'[l] = IF l = k THEN next ELSE call[l]
  BY DEF FlowShape
<1>2. SUFFICES ASSUME faults = 0, NEW i \in Instances, NEW t \in DOMAIN listed[i],
                      store'[t].status \in Given, listed'[i][t] # store'[t].status
               PROVE  \E l \in Calls : call'[l].step \in Carrying /\ call'[l].task = t
  BY DEF Copied, Copies, Kept, Given
<1>3. t \in 1..Len(store)
  BY DEF FlowShape
<1>4. CASE next.step \in Carrying /\ next.task = t
  BY <1>1, <1>4
<1>5. CASE ~(next.step \in Carrying /\ next.task = t)
  <2>1. store'[t].status = store[t].status
    BY <1>2, <1>3, <1>5
  <2>2. listed'[i][t] = listed[i][t]
    BY <1>2 DEF Kept
  <2>3. PICK l \in Calls : call[l].step \in Carrying /\ call[l].task = t
    BY <1>2, <2>1, <2>2 DEF Copied, Copies, Given
  <2>4. l # k
    BY <1>2, <1>5, <2>3
  <2> QED
    BY <1>1, <2>3, <2>4
<1> QED
  BY <1>4, <1>5

\* A call takes a step that leaves the store alone, adds no task to a list
\* and carries no verdict on, nor did before.
LEMMA ListsCalls ==
  ASSUME FlowShape, Queue, Lists, Copied, NEW k \in Calls, Resumed(k) \/ call[k].step \notin Settled,
         NEW next \in CallShapes, Goto(k, next), UNCHANGED <<store, faults>>, Kept,
         next.step \notin Acting \cup {"created"},
         call[k].step \in Carrying =>
           \A i \in Instances : call[k].task \in DOMAIN listed[i] =>
             listed'[i][call[k].task] = store'[call[k].task].status
  PROVE  Lists' /\ Copied'
<1>1. call' = [call EXCEPT ![k] = next] /\ Grown(store, store')
  BY GotoFacts, TaskFacts DEF FlowShape
<1>2. Lists'
  <2>1. \A l \in Calls : call[l].step = "created" => store'[call[l].task].status \notin Given
    BY DEF Lists, Given
  <2>2. \A i \in Instances : DOMAIN listed'[i] = DOMAIN listed[i]
    BY DEF Kept
  <2> QED
    BY <1>1, <2>1, <2>2, ListsStep
<1>3. Copied'
  BY <1>1, CopiesStep
<1> QED
  BY <1>2, <1>3

LEMMA ListsAdvances ==
  ASSUME FlowShape, Queue, Lists, Copied, NEW k \in Calls, Resumed(k) \/ call[k].step \notin Settled,
         NEW i \in Instances, NEW s \in {"none", "running", "completed"}, NEW n \in Nodes,
         NEW iter \in 0..MaxIter, Advances(k, i, s, n, iter), UNCHANGED <<store, faults>>, Kept,
         call[k].step \in Carrying =>
           \A j \in Instances : call[k].task \in DOMAIN listed[j] =>
             listed'[j][call[k].task] = store'[call[k].task].status
  PROVE  Lists' /\ Copied'
<1>1. PICK p, next : Ran(i, context[i], s, n, iter, p, next) /\ SetPlace(i, p) /\ Goto(k, next)
  BY DEF Advances
<1>2. context[i] \in Contexts
  BY DEF FlowShape
<1>3. next \in CallShapes /\ next.step \in {"idle", "round", "create"}
  BY <1>1, <1>2, RanFacts
<1>4. next.step \notin Acting \cup {"created"}
  BY <1>3 DEF Acting
<1> QED
  BY <1>1, <1>3, <1>4, ListsCalls

LEMMA ListsNext ==
  ASSUME ~Worklist, FlowShape, Queue, Verdicts, Lists, Copied, [FlowNext]_flowVars
  PROVE  Lists' /\ Copied'
<1>0. /\ Grown(store, store) /\ StartNode \in Nodes /\ 0 \in 0..MaxIter
      /\ Idle \in CallShapes /\ Idle.step = "idle" /\ Idle.step \notin Acting \cup {"created"}
  BY TaskFacts, DefinitionAssumption, BoundsAssumption DEF CallShapes, Idle, Acting
<1>a. ASSUME UNCHANGED listed PROVE Kept
  BY <1>a DEF Kept
<1>b. \A l \in Calls : call[l].step = "created" =>
        /\ call[l].task \in 1..Len(store) /\ store[call[l].task].status \notin Given
        /\ call[l].inst \in Instances
  BY ShapeOf DEF FlowShape, Lists, Given
<1>c. ASSUME UNCHANGED listed PROVE \A i \in Instances : DOMAIN listed'[i] = DOMAIN listed[i]
  BY <1>c
<1>1. ASSUME NEW k \in Calls, NEW i \in Instances, Start(k, i) PROVE Lists' /\ Copied'
  <2>1. call[k] = Idle /\ Advances(k, i, "running", StartNode, 0) /\ UNCHANGED <<listed, store, faults>>
    BY <1>1, StartFacts
  <2>2. call[k].step \notin Settled /\ call[k].step \notin Carrying
    BY <2>1 DEF Idle, Settled, Carrying
  <2> QED
    BY <1>0, <1>a, <2>1, <2>2, ListsAdvances
<1>2. ASSUME NEW k \in Calls, NextRound(k) PROVE Lists' /\ Copied'
  <2> DEFINE i == call[k].inst
  <2>1. /\ Resumed(k) /\ i \in Instances /\ call[k].iter \in 0..MaxIter /\ call[k].step \notin Carrying
        /\ UNCHANGED <<listed, store, faults>>
    BY <1>2, NextRoundFacts DEF Carrying
  <2>2. CASE Finish(k)
    BY <1>0, <1>a, <2>1, <2>2, ListsCalls DEF Finish
  <2>3. CASE Advances(k, i, state[i], node[i], call[k].iter)
    <3>1. node[i] \in Nodes /\ state[i] \in {"none", "running", "completed"}
      BY <2>1 DEF FlowShape
    <3> QED
      BY <1>a, <2>1, <2>3, <3>1, ListsAdvances
  <2> QED
    BY <1>2, <2>2, <2>3, NextRoundFacts
<1>3. ASSUME NEW k \in Calls, StoreCreates(k) PROVE Lists' /\ Copied'
  <2> DEFINE c == call[k]
             t == Len(store) + 1
             next == [step |-> "created", inst |-> c.inst, node |-> c.node, iter |-> c.iter,
                      at |-> c.at, task |-> t]
  <2>1. /\ c.step = "create" /\ c.inst \in Instances /\ c.target \in Nodes
        /\ AddTask(c.inst, c.target) /\ Goto(k, next) /\ next \in CallShapes
        /\ UNCHANGED <<state, node, context, listed, faults>>
    BY <1>3, StoreCreatesFacts
  <2>2. /\ \A u \in 1..Len(store) : store'[u] = store[u]
        /\ store'[t] = [inst |-> c.inst, node |-> c.target, status |-> "pending"]
        /\ Grown(store, store')
    BY <2>1, AddFacts
  <2>3. /\ next.step = "created" /\ next.task = t /\ next.inst = c.inst /\ c.step \notin Settled
        /\ c.step \notin Carrying
    BY <2>1 DEF Settled, Carrying
  <2> HIDE DEF next
  <2>4. call' = [call EXCEPT ![k] = next]
    BY <2>1, <2>3, GotoFacts DEF FlowShape
  <2>5. t \notin 1..Len(store)
    BY TaskFacts
  <2>6. t \notin DOMAIN listed[c.inst]
    BY <2>1, <2>5 DEF FlowShape
  <2>7. store'[t].status \notin Given
    BY <2>2 DEF Given
  <2>8. \A l \in Calls : call[l].step = "created" =>
          call[l].task # t /\ store'[call[l].task].status \notin Given
    BY <1>b, <2>2, <2>5
  <2> HIDE DEF t
  <2>9. Lists'
    BY <1>c, <2>1, <2>2, <2>3, <2>4, <2>6, <2>7, <2>8, ListsStep DEF Acting
  <2>10. Copied'
    BY <1>a, <2>1, <2>2, <2>3, <2>4, CopiesStep
  <2> QED
    BY <2>9, <2>10
<1>4. ASSUME NEW k \in Calls, Created(k) PROVE Lists' /\ Copied'
  <2> DEFINE i == call[k].inst
             n == call[k].node
             t == call[k].task
  <2>1. /\ Resumed(k) /\ i \in Instances /\ n \in Nodes /\ call[k].iter \in 0..MaxIter
        /\ call[k].step = "created" /\ call[k].step \notin Carrying
        /\ t \in 1..Len(store) /\ store[t].inst = i
        /\ UNCHANGED <<store, faults>>
    BY <1>4, CreatedFacts DEF Carrying
  <2>2. /\ Round(i, n, call[k].iter) \in CallShapes
        /\ Round(i, n, call[k].iter).step \notin Acting \cup {"created"}
        /\ \A target \in Nodes, at \in Nat :
             /\ Creating(i, n, call[k].iter, target, at) \in CallShapes
             /\ Creating(i, n, call[k].iter, target, at).step \notin Acting \cup {"created"}
    BY <2>1, NextShapes DEF Round, Creating, Acting
  <2>3. CASE ListsTask(k)
    <3> DEFINE next == Round(i, n, call[k].iter)
    <3>1. Goto(k, next) /\ listed' = [listed EXCEPT ![i] = Put(listed[i], t, "pending")]
      BY <2>3 DEF ListsTask
    <3>2. call' = [call EXCEPT ![k] = next]
      BY <2>1, <2>2, <3>1, GotoFacts DEF FlowShape
    <3>3. /\ \A j \in Instances : j # i => listed'[j] = listed[j]
          /\ DOMAIN listed'[i] = DOMAIN listed[i] \cup {t}
          /\ \A u \in DOMAIN listed[i] : u # t => listed'[i][u] = listed[i][u]
      <4> HIDE DEF i, n, t, next
      <4>1. listed = [j \in Instances |-> listed[j]]
        BY DEF FlowShape
      <4>2. /\ listed'[i] = Put(listed[i], t, "pending")
            /\ \A j \in Instances : j # i => listed'[j] = listed[j]
        BY <2>1, <3>1, <4>1
      <4> QED
        BY <4>2 DEF Put
    <3>4. \A l \in Calls : call'[l] = IF l = k THEN next ELSE call[l]
      BY <3>2 DEF FlowShape
    <3>5. next.step \notin Acting \cup {"created"} /\ next.step \notin Carrying
      BY <2>2 DEF Acting, Carrying
    <3> HIDE DEF next
    <3>6. t \notin DOMAIN listed[i] /\ store[t].status \notin Given
      BY <2>1 DEF Lists, Given
    <3>7. Lists'
      <4>1. ASSUME NEW l \in Calls, call'[l].step \in Acting
            PROVE  call'[l].task \in DOMAIN listed'[store'[call'[l].task].inst]
        <5>1. call[l].step \in Acting /\ call'[l] = call[l]
          BY <3>4, <3>5, <4>1
        <5>2. store[call[l].task].inst \in Instances
          BY <5>1, VerdictFacts
        <5> QED
          BY <2>1, <3>3, <5>1, <5>2 DEF Lists
      <4>2. ASSUME NEW l \in Calls, call'[l].step = "created"
            PROVE  /\ call'[l].task \notin DOMAIN listed'[call'[l].inst]
                   /\ store'[call'[l].task].status \notin Given
        <5>1. l # k /\ call'[l] = call[l] /\ call[l].step = "created"
          BY <3>4, <3>5, <4>2
        <5>2. call[l].task # t
          BY <2>1, <5>1 DEF Lists
        <5> QED
          BY <1>b, <2>1, <3>3, <5>1, <5>2 DEF Lists
      <4>3. ASSUME NEW l \in Calls, NEW m \in Calls, call'[l].step = "created",
                   call'[m].step = "created", call'[l].task = call'[m].task
            PROVE  l = m
        BY <3>4, <3>5, <4>3 DEF Lists
      <4> QED
        BY <4>1, <4>2, <4>3 DEF Lists, Given
    <3>8. Copied'
      <4>1. SUFFICES ASSUME faults = 0, NEW j \in Instances, NEW u \in DOMAIN listed'[j],
                            store'[u].status \in Given, listed'[j][u] # store'[u].status
                     PROVE  \E l \in Calls : call'[l].step \in Carrying /\ call'[l].task = u
        BY <2>1 DEF Copied, Copies, Given
      <4>2. u # t
        BY <2>1, <3>6, <4>1
      <4>3. u \in DOMAIN listed[j] /\ listed[j][u] # store[u].status /\ store[u].status \in Given
        BY <2>1, <3>3, <4>1, <4>2
      <4>4. PICK l \in Calls : call[l].step \in Carrying /\ call[l].task = u
        BY <4>1, <4>3 DEF Copied, Copies, Given
      <4>5. l # k
        BY <2>1, <4>4
      <4> QED
        BY <3>4, <4>4, <4>5
    <3> QED
      BY <3>7, <3>8
  <2>4. CASE NextBranch(k)
    <3>1. PICK target \in Nodes, at \in Nat : Goto(k, Creating(i, n, call[k].iter, target, at))
      BY <2>4 DEF NextBranch
    <3>2. Kept
      BY <1>a, <2>4 DEF NextBranch
    <3> QED
      BY <2>1, <2>2, <3>1, <3>2, ListsCalls
  <2>5. CASE LeavesFork(k)
    <3>1. Kept
      BY <1>a, <2>5 DEF LeavesFork
    <3>2. Goto(k, Idle) \/ Goto(k, Round(i, n, call[k].iter))
      BY <2>5 DEF LeavesFork, Finish
    <3> QED
      BY <1>0, <2>1, <2>2, <3>1, <3>2, ListsCalls
  <2> QED
    BY <1>4, <2>3, <2>4, <2>5, CreatedFacts
<1>5. ASSUME NEW k \in Calls, NEW t \in Tasks, NEW v \in {"completed", "rejected"}, Decide(k, t, v)
      PROVE  Lists' /\ Copied'
  <2> DEFINE next == [step |-> "decide", task |-> t, verdict |-> v]
  <2>0. Worklist \/ \E i \in Instances : t \in DOMAIN listed[i]
    BY <1>5 DEF Decide
  <2>1. /\ call[k] = Idle /\ next \in CallShapes /\ Goto(k, next) /\ t \in 1..Len(store)
        /\ UNCHANGED <<listed, store, faults>>
    BY <1>5, DecideFacts
  <2>2. call[k].step \notin Settled /\ call[k].step \notin Carrying /\ next.step = "decide" /\ next.task = t
    BY <2>1 DEF Idle, Settled, Carrying
  <2> HIDE DEF next
  <2>3. call' = [call EXCEPT ![k] = next]
    BY <2>1, <2>2, GotoFacts DEF FlowShape
  <2>4. t \in DOMAIN listed[store[t].inst]
    BY <2>0, BoundsAssumption DEF FlowShape
  <2>5. Lists'
    BY <1>0, <1>b, <1>c, <2>1, <2>2, <2>3, <2>4, ListsStep
  <2>6. Copied'
    BY <1>a, <2>1, <2>2, <2>3, CopiesStep
  <2> QED
    BY <2>5, <2>6
<1>6. ASSUME NEW k \in Calls, StoreDecides(k) PROVE Lists' /\ Copied'
  <2> DEFINE t == call[k].task
             next == [call[k] EXCEPT !.step = "decided"]
  <2>1. /\ call[k].step = "decide" /\ call[k].step \notin Settled /\ call[k].step \notin Carrying
        /\ t \in 1..Len(store) /\ UNCHANGED <<listed, faults>>
    BY <1>6, StoreDecidesFacts DEF Settled, Carrying
  <2>2. CASE Finish(k) /\ UNCHANGED store
    BY <1>0, <1>a, <2>1, <2>2, ListsCalls DEF Finish
  <2>3. CASE ~(Finish(k) /\ UNCHANGED store)
    <3>1. /\ Goto(k, next) /\ next \in CallShapes /\ next.step = "decided" /\ next.task = t
          /\ Grown(store, store') /\ \A u \in 1..Len(store) : u # t => store'[u] = store[u]
      BY <1>6, <2>3, StoreDecidesFacts
    <3> HIDE DEF next
    <3>2. call' = [call EXCEPT ![k] = next]
      BY <2>1, <3>1, GotoFacts DEF FlowShape
    <3>3. t \in DOMAIN listed[store[t].inst] /\ store[t].inst \in Instances
      BY <2>1, VerdictFacts DEF Lists, Acting
    <3>4. \A l \in Calls : call[l].step = "created" => store'[call[l].task].status \notin Given
      <4>1. \A l \in Calls : call[l].step = "created" => call[l].task # t
        BY <3>3 DEF Lists, FlowShape
      <4> QED
        BY <1>b, <3>1, <4>1
    <3>5. Lists'
      BY <1>c, <2>1, <3>1, <3>2, <3>3, <3>4, ListsStep
    <3>6. Copied'
      BY <1>a, <2>1, <3>1, <3>2, CopiesStep DEF Carrying
    <3> QED
      BY <3>5, <3>6
  <2> QED
    BY <2>2, <2>3
<1>7. ASSUME NEW k \in Calls, Completed(k) PROVE Lists' /\ Copied'
  <2> DEFINE t == call[k].task
             i == store[t].inst
             n == node[i]
  <2>1. /\ Resumed(k) /\ i \in Instances /\ Relist(i, t, "completed") /\ t \in 1..Len(store)
        /\ call[k].step = "decided" /\ call[k].verdict = "completed" /\ UNCHANGED <<store, faults>>
    BY <1>7, CompletedFacts
  <2>2. n \in Nodes /\ state[i] \in {"none", "running", "completed"}
    BY <2>1 DEF FlowShape
  <2>3. store[t].status = "completed"
    BY <2>1 DEF Verdicts, Carrying
  <2>4. \A j \in Instances :
          /\ DOMAIN listed'[j] = DOMAIN listed[j]
          /\ \A u \in DOMAIN listed[j] :
               listed'[j][u] = IF j = i /\ u = t THEN "completed" ELSE listed[j][u]
    BY <2>1, RelistFacts DEF Statuses
  <2>5. Kept
    BY <2>1, <2>3, <2>4 DEF Kept
  <2>6. \A j \in Instances : t \in DOMAIN listed[j] => listed'[j][t] = store'[t].status
    <3>1. \A j \in Instances : t \in DOMAIN listed[j] => j = i
      BY DEF FlowShape
    <3> QED
      BY <2>1, <2>3, <2>4, <3>1
  <2>7. CASE Finish(k)
    BY <1>0, <2>1, <2>5, <2>6, <2>7, ListsCalls DEF Finish
  <2>8. CASE Advances(k, i, state[i], n, 0)
    BY <1>0, <2>1, <2>2, <2>5, <2>6, <2>8, ListsAdvances
  <2>9. CASE /\ Default(n) \in Nodes
             /\ Advances(k, i, IF Kind[Default(n)] = "end" THEN "completed" ELSE state[i], Default(n), 0)
    <3> DEFINE s == IF Kind[Default(n)] = "end" THEN "completed" ELSE state[i]
    <3>1. s \in {"none", "running", "completed"} /\ Advances(k, i, s, Default(n), 0)
      BY <2>2, <2>9
    <3> HIDE DEF s
    <3> QED
      BY <1>0, <2>1, <2>5, <2>6, <2>9, <3>1, ListsAdvances
  <2> QED
    BY <1>7, <2>7, <2>8, <2>9, CompletedFacts
<1>8. ASSUME NEW k \in Calls, RejectedReads(k) \/ StoreReads(k) PROVE Lists' /\ Copied'
  <2>1. PICK next \in CallShapes :
          /\ next.step \in {"reading", "read"} /\ next.task = call[k].task
          /\ call[k].step \in Carrying /\ Goto(k, next)
          /\ Resumed(k) \/ call[k].step \notin Settled
          /\ UNCHANGED <<listed, store, faults>>
    BY <1>8, RereadFacts
  <2>2. /\ call' = [call EXCEPT ![k] = next] /\ call[k].step \in Acting
        /\ next.step \in Carrying /\ next.step \in Acting /\ next.step # "created"
    BY <2>1, GotoFacts DEF FlowShape, Acting, Carrying
  <2>3. next.task \in 1..Len(store) /\ next.task \in DOMAIN listed[store[next.task].inst]
    BY <2>1, <2>2, VerdictFacts DEF Lists
  <2>4. Lists'
    BY <1>0, <1>b, <1>c, <2>1, <2>2, <2>3, ListsStep
  <2>5. Copied'
    BY <1>a, <2>1, <2>2, CopiesStep
  <2> QED
    BY <2>4, <2>5
<1>9. ASSUME NEW k \in Calls, Rejected(k) PROVE Lists' /\ Copied'
  <2> DEFINE t == call[k].task
             i == store[t].inst
  <2>1. /\ Resumed(k) /\ i \in Instances /\ store[t].status \in Statuses
        /\ Relist(i, t, store[t].status) /\ Finish(k) /\ UNCHANGED <<store, faults>>
    BY <1>9, RejectedFacts
  <2>2. \A j \in Instances :
          /\ DOMAIN listed'[j] = DOMAIN listed[j]
          /\ \A u \in DOMAIN listed[j] :
               listed'[j][u] = IF j = i /\ u = t THEN store[t].status ELSE listed[j][u]
    BY <2>1, RelistFacts
  <2>3. Kept
    BY <2>1, <2>2 DEF Kept
  <2>4. \A j \in Instances : t \in DOMAIN listed[j] => listed'[j][t] = store'[t].status
    <3>1. \A j \in Instances : t \in DOMAIN listed[j] => j = i
      BY DEF FlowShape
    <3> QED
      BY <2>1, <2>2, <3>1
  <2> QED
    BY <1>0, <2>1, <2>3, <2>4, ListsCalls DEF Finish
<1>10. ASSUME NEW k \in Calls, StoreFails(k) PROVE Lists' /\ Copied'
  <2>1. /\ call[k].step \notin Settled /\ Goto(k, Idle) /\ faults' # 0 /\ UNCHANGED listed
        /\ Grown(store, store')
        /\ \/ UNCHANGED store
           \/ /\ call[k].inst \in Instances /\ call[k].target \in Nodes
              /\ AddTask(call[k].inst, call[k].target)
           \/ /\ call[k].step = "decide" /\ store[call[k].task].status \in Open
              /\ store' = [store EXCEPT ![call[k].task].status = call[k].verdict]
    BY <1>10, StoreFailsFacts DEF Finish
  <2>2. call' = [call EXCEPT ![k] = Idle]
    BY <1>0, <2>1, GotoFacts DEF FlowShape
  <2>3. \A l \in Calls : call[l].step = "created" => store'[call[l].task].status \notin Given
    <3>1. CASE UNCHANGED store
      BY <1>b, <3>1
    <3>2. CASE /\ call[k].inst \in Instances /\ call[k].target \in Nodes
               /\ AddTask(call[k].inst, call[k].target)
      BY <1>b, <3>2, AddFacts
    <3>3. CASE /\ call[k].step = "decide" /\ store[call[k].task].status \in Open
               /\ store' = [store EXCEPT ![call[k].task].status = call[k].verdict]
      <4>1. /\ call[k].task \in 1..Len(store) /\ call[k].verdict \in Statuses
            /\ call[k].task \in DOMAIN listed[store[call[k].task].inst]
            /\ store[call[k].task].inst \in Instances
        BY <3>3, VerdictFacts DEF Lists, Acting
      <4>2. \A u \in 1..Len(store) : u # call[k].task => store'[u] = store[u]
        BY <3>3, <4>1, SetFacts
      <4>3. \A l \in Calls : call[l].step = "created" => call[l].task # call[k].task
        BY <4>1 DEF Lists, FlowShape
      <4> QED
        BY <1>b, <4>2, <4>3
    <3> QED
      BY <2>1, <3>1, <3>2, <3>3
  <2>4. Lists'
    BY <1>0, <1>c, <2>1, <2>2, <2>3, ListsStep
  <2> QED
    BY <2>1, <2>4 DEF Copied
<1>11. ASSUME NEW t \in Tasks, StartTask(t) \/ CancelTask(t) PROVE Lists' /\ Copied'
  <2>1. /\ UNCHANGED <<listed, call, faults>> /\ Grown(store, store')
        /\ \A u \in 1..Len(store) : u # t => store'[u] = store[u]
        /\ store'[t].status \notin Given
    BY <1>11, UserFacts DEF Given
  <2>2. \A l \in Calls : call[l].step \in Acting =>
          call[l].task \in 1..Len(store) /\ store'[call[l].task].inst = store[call[l].task].inst
    BY <2>1, VerdictFacts DEF Grown
  <2>3. \A l \in Calls : call[l].step = "created" => store'[call[l].task].status \notin Given
    BY <1>b, <2>1
  <2>4. Lists'
    BY <2>1, <2>2, <2>3 DEF Lists, Given
  <2>5. Copied'
    <3>1. \A i \in Instances : \A u \in DOMAIN listed[i] : u \in 1..Len(store)
      BY DEF FlowShape
    <3> QED
      BY <2>1, <3>1 DEF Copied, Copies, Given
  <2> QED
    BY <2>4, <2>5
<1>12. CASE UNCHANGED flowVars
  BY <1>12 DEF flowVars, Lists, Copied, Copies
<1> QED
  BY <1>1, <1>2, <1>3, <1>4, <1>5, <1>6, <1>7, <1>8, <1>9, <1>10, <1>11, <1>12
  DEF FlowNext, Actors, Continue

-----------------------------------------------------------------------------
(* What moves an instance.                                                 *)

Drivers == OneDriver /\ PassiveFirst /\ Standing /\ Targets

LEMMA DriversInit == FlowInit => Drivers
<1> SUFFICES ASSUME FlowInit PROVE Drivers
  OBVIOUS
<1>1. \A k \in Calls : call[k].step = "idle"
  BY DEF FlowInit, Idle
<1>2. \A i \in Instances : DOMAIN listed[i] = {} /\ state[i] = "none" /\ node[i] = StartNode
  BY DEF FlowInit
<1>3. \A k \in Calls, i \in Instances : ~On(call[k], i) /\ ~Wins(call[k], i, store) /\ ~Passive(call[k])
  BY <1>1 DEF On, Wins, Passive
<1>4. OneDriver
  BY <1>2, <1>3 DEF OneDriver, Drives, Moves
<1>5. PassiveFirst
  BY <1>1 DEF PassiveFirst, Passive
<1>6. Standing
  BY <1>1, <1>2, <1>3 DEF Standing
<1>7. Targets
  BY <1>1 DEF Targets
<1> QED
  BY <1>4, <1>5, <1>6, <1>7 DEF Drivers

\* Call k is the only one that is about instance i, and nobody has a task to
\* decide there; and k is about no other instance.
Alone(k, i) ==
  /\ \A l \in Calls : l # k => ~On(call[l], i) /\ ~Wins(call[l], i, store)
  /\ \A j \in Instances : On(call[k], j) \/ Wins(call[k], j, store) => j = i
  /\ \A t \in DOMAIN listed[i] : store[t].status \notin Open

\* The call at the head of the queue that drives an instance is alone with it.
LEMMA DriverIsAlone ==
  ASSUME FlowShape, Queue, Drivers, NEW k \in Calls, NEW i \in Instances, Resumed(k),
         Drives(call[k], i, store)
  PROVE  Alone(k, i)
<1>1. ASSUME NEW l \in Calls, l # k PROVE ~On(call[l], i) /\ ~Wins(call[l], i, store)
  <2>1. ~Drives(call[l], i, store)
    BY <1>1 DEF Drivers, OneDriver
  <2>2. ASSUME On(call[l], i) PROVE FALSE
    <3>1. Passive(call[l]) /\ call[l].inst = i
      BY <2>1, <2>2 DEF Drives, Moves, On
    <3>2. Before(ready, l, k)
      BY <3>1 DEF Drivers, PassiveFirst
    <3> QED
      BY <3>2, HeadIsFirst
  <2> QED
    BY <2>1, <2>2 DEF Drives
<1>2. \A j \in Instances : On(call[k], j) \/ Wins(call[k], j, store) => j = i
  BY DEF Drives, Moves, On, Wins
<1>3. \A t \in DOMAIN listed[i] : store[t].status \notin Open
  BY DEF Drivers, OneDriver
<1> QED
  BY <1>1, <1>2, <1>3 DEF Alone

\* Nothing is there yet for an instance that is not started.
LEMMA FreshIsAlone ==
  ASSUME FlowShape, Lists, Drivers, NEW k \in Calls, NEW i \in Instances, call[k] = Idle,
         state[i] = "none"
  PROVE  Alone(k, i)
<1>1. DOMAIN listed[i] = {} /\ \A l \in Calls : ~On(call[l], i)
  BY DEF Drivers, Standing
<1>2. \A l \in Calls : ~Wins(call[l], i, store)
  BY <1>1 DEF Wins, Lists, Acting
<1>3. \A j \in Instances : ~On(call[k], j) /\ ~Wins(call[k], j, store)
  BY DEF On, Wins, Idle
<1> QED
  BY <1>1, <1>2, <1>3 DEF Alone

\* A place and a next step that an instance alone with its call can take.
Fit(i, p, next) ==
  /\ p \in Places /\ p.state \in {"running", "completed"}
  /\ p.state = "completed" <=> Kind[p.node] = "end"
  /\ \/ next = Idle
     \/ next.step = "round" /\ next.inst = i /\ Kind[next.node] \notin Waiting
     \/ /\ next.step = "create" /\ next.inst = i /\ next.node = p.node /\ p.state = "running"
        /\ Kind[p.node] \in Waiting \cup {"parallel"}
        /\ Kind[p.node] \in Waiting => next.target = next.node

LEMMA RanFits ==
  ASSUME NEW i \in Instances, NEW c \in Contexts, NEW s \in {"running", "completed"},
         NEW n \in Nodes, NEW iter \in 0..MaxIter, NEW p, NEW next, Ran(i, c, s, n, iter, p, next),
         s = "completed" <=> Kind[n] = "end"
  PROVE  Fit(i, p, next)
<1>1. CASE Stops(i, c, s, n, iter, p, next)
  BY <1>1 DEF Stops, Fit, Places
<1>2. CASE Stays(i, c, s, n, iter, p, next)
  <2>1. /\ p = [state |-> s, node |-> n] /\ Kind[n] \in Passing /\ next = Round(i, n, iter + 1)
    BY <1>2 DEF Stays
  <2>2. next.step = "round" /\ next.inst = i /\ Kind[next.node] \notin Waiting
    BY <2>1 DEF Round, Passing, Waiting
  <2> QED
    BY <2>1, <2>2 DEF Fit, Places
<1>3. CASE GoesOn(i, c, s, n, iter, p, next)
  <2>1. PICK m \in Nodes : p = Arrive([state |-> s, node |-> n], m)
    BY <1>3 DEF GoesOn
  <2>2. s = "running" /\ next = Round(i, n, iter + 1) /\ Kind[n] \notin Waiting
    BY <1>3 DEF GoesOn
  <2>3. next.step = "round" /\ next.inst = i /\ Kind[next.node] \notin Waiting
    BY <2>2 DEF Round
  <2>4. p = [state |-> IF Kind[m] = "end" THEN "completed" ELSE "running", node |-> m]
    BY <2>1, <2>2 DEF Arrive
  <2>5. p \in Places /\ p.state \in {"running", "completed"} /\ (p.state = "completed" <=> Kind[p.node] = "end")
    BY <2>4 DEF Places
  <2> QED
    BY <2>3, <2>5 DEF Fit
<1>4. CASE GivesTask(i, c, s, n, iter, p, next)
  <2>1. PICK target \in Nodes, at \in Nat :
          /\ next = Creating(i, n, iter + 1, target, at)
          /\ (Kind[n] \in Waiting /\ target = n) \/ Kind[n] = "parallel"
    BY <1>4 DEF GivesTask
  <2>2. s = "running" /\ p = [state |-> s, node |-> n]
    BY <1>4 DEF GivesTask
  <2>3. next.step = "create" /\ next.inst = i /\ next.node = n /\ next.target = target
    BY <2>1 DEF Creating
  <2>4. Kind[n] \in Waiting => target = n
    BY <2>1 DEF Waiting
  <2> QED
    BY <2>1, <2>2, <2>3, <2>4 DEF Fit, Places
<1> QED
  BY <1>1, <1>2, <1>3, <1>4 DEF Ran

\* Calls end or start to be about nothing, and open tasks become fewer.
LEMMA Quieter ==
  ASSUME FlowShape, Drivers, NEW S \in SUBSET Calls,
         \A l \in Calls : l \notin S => call'[l] = call[l],
         \A l \in S : \A j \in Instances : ~On(call'[l], j) /\ ~Wins(call'[l], j, store'),
         \A l \in S : call'[l].step \notin {"round", "create", "created"},
         \A a, b \in Calls : a \notin S /\ b \notin S /\ Before(ready, a, b) => Before(ready', a, b),
         Grown(store, store'),
         \A t \in 1..Len(store) : store'[t].status \in Open => store[t].status \in Open,
         \A i \in Instances : DOMAIN listed'[i] = DOMAIN listed[i],
         UNCHANGED <<state, node>>
  PROVE  Drivers'
<1>0. \A i \in Instances : \A t \in DOMAIN listed[i] : t \in 1..Len(store)
  BY DEF FlowShape
<1>1. ASSUME NEW l \in Calls, NEW j \in Instances
      PROVE  /\ On(call'[l], j) => l \notin S /\ call'[l] = call[l] /\ On(call[l], j)
             /\ Wins(call'[l], j, store') => l \notin S /\ call'[l] = call[l] /\ Wins(call[l], j, store)
             /\ Drives(call'[l], j, store') => l \notin S /\ call'[l] = call[l] /\ Drives(call[l], j, store)
  <2>1. ASSUME Wins(call'[l], j, store')
        PROVE  l \notin S /\ call'[l] = call[l] /\ Wins(call[l], j, store)
    <3>1. l \notin S /\ call'[l] = call[l] /\ call[l].step \in Acting
      BY <2>1 DEF Wins, Acting
    <3>2. call[l].task \in 1..Len(store)
      BY <3>1, VerdictFacts
    <3> QED
      BY <2>1, <3>1, <3>2 DEF Wins, Grown
  <2> QED
    BY <2>1 DEF Drives, Moves
<1>2. ASSUME NEW l \in Calls, call'[l].step \in {"round", "create", "created"}
      PROVE  l \notin S /\ call'[l] = call[l] /\ call[l].inst \in Instances
  BY <1>2, ShapeOf DEF FlowShape
<1>3. OneDriver'
  BY <1>0, <1>1 DEF Drivers, OneDriver
<1>4. PassiveFirst'
  <2>1. SUFFICES ASSUME NEW k \in Calls, Passive(call'[k])
                 PROVE  /\ node'[call'[k].inst] = call'[k].node
                        /\ \A l \in Calls : Drives(call'[l], call'[k].inst, store') =>
                             call'[l].step = "decided" /\ Before(ready', k, l)
    BY DEF PassiveFirst
  <2>2. k \notin S /\ call'[k] = call[k] /\ call[k].inst \in Instances
    BY <1>2, <2>1 DEF Passive
  <2> QED
    BY <1>1, <2>1, <2>2 DEF Drivers, PassiveFirst
<1>5. Standing'
  <2>1. \A k \in Calls : call'[k].step \in {"create", "created"} =>
          /\ state'[call'[k].inst] = "running"
          /\ node'[call'[k].inst] = call'[k].node
          /\ Kind[call'[k].node] \in Waiting \cup {"parallel"}
    BY <1>2 DEF Drivers, Standing
  <2>2. \A i \in Instances : \A t \in DOMAIN listed'[i] : store'[t].status \in Open =>
          state'[i] = "running" /\ Kind[node'[i]] \in Waiting
    BY <1>0 DEF Drivers, Standing
  <2>3. \A i \in Instances : \A k \in Calls : Wins(call'[k], i, store') =>
          state'[i] = "running" /\ Kind[node'[i]] \in Waiting
    BY <1>1 DEF Drivers, Standing
  <2>4. \A i \in Instances : state'[i] = "none" =>
          /\ node'[i] = StartNode /\ DOMAIN listed'[i] = {}
          /\ \A k \in Calls : ~On(call'[k], i)
    BY <1>1 DEF Drivers, Standing
  <2>5. \A i \in Instances : (state'[i] = "completed") <=> (state'[i] # "none" /\ Kind[node'[i]] = "end")
    BY DEF Drivers, Standing
  <2> QED
    BY <2>1, <2>2, <2>3, <2>4, <2>5 DEF Standing
<1>6. Targets'
  <2>1. \A l \in Calls : call'[l].step = "create" /\ Kind[call'[l].node] \in Waiting =>
          call'[l].target = call'[l].node
    BY <1>2 DEF Drivers, Targets
  <2>2. ASSUME NEW l \in Calls, call'[l].step = "created", Kind[call'[l].node] \in Waiting
        PROVE  store'[call'[l].task].node = call'[l].node
    <3>1. call'[l] = call[l] /\ call[l].task \in 1..Len(store)
      BY <1>2, <2>2 DEF FlowShape
    <3> QED
      BY <2>2, <3>1 DEF Drivers, Targets, Grown
  <2> QED
    BY <2>1, <2>2 DEF Targets
<1> QED
  BY <1>3, <1>4, <1>5, <1>6 DEF Drivers

\* The same for one call that goes on.
LEMMA QuieterCall ==
  ASSUME FlowShape, Queue, Drivers, NEW k \in Calls, NEW next \in CallShapes,
         Resumed(k) \/ call[k].step \notin Settled, Goto(k, next),
         next.step \notin {"round", "create", "created"},
         next.step = "decided" => next.verdict = "rejected",
         Grown(store, store'),
         \A t \in 1..Len(store) : store'[t].status \in Open => store[t].status \in Open,
         \A i \in Instances : DOMAIN listed'[i] = DOMAIN listed[i],
         UNCHANGED <<state, node>>
  PROVE  Drivers'
<1>1. /\ call' = [call EXCEPT ![k] = next]
      /\ \A a, b \in Calls : a # k /\ b # k /\ Before(ready, a, b) => Before(ready', a, b)
  BY GotoFacts DEF FlowShape
<1>2. \A l \in Calls : call'[l] = IF l = k THEN next ELSE call[l]
  BY <1>1 DEF FlowShape
<1> DEFINE S == {k}
<1>3. S \in SUBSET Calls /\ \A l : l \in S <=> l = k
  OBVIOUS
<1>4. \A j \in Instances : ~On(next, j) /\ ~Wins(next, j, store')
  BY DEF On, Wins
<1> HIDE DEF S
<1>5. \A l \in Calls : l \notin S => call'[l] = call[l]
  BY <1>2, <1>3
<1>6. \A l \in S : \A j \in Instances : ~On(call'[l], j) /\ ~Wins(call'[l], j, store')
  BY <1>2, <1>3, <1>4
<1>7. \A l \in S : call'[l].step \notin {"round", "create", "created"}
  BY <1>2, <1>3
<1>8. \A a, b \in Calls : a \notin S /\ b \notin S /\ Before(ready, a, b) => Before(ready', a, b)
  BY <1>1, <1>3
<1> QED
  BY <1>3, <1>5, <1>6, <1>7, <1>8, Quieter

\* An instance alone with its call moves, and the call goes on.
LEMMA Moved ==
  ASSUME FlowShape, Drivers, NEW k \in Calls, NEW i \in Instances, Alone(k, i),
         NEW p, NEW next, Fit(i, p, next), SetPlace(i, p), call' = [call EXCEPT ![k] = next],
         \A a, b \in Calls : a # k /\ b # k /\ Before(ready, a, b) => Before(ready', a, b),
         UNCHANGED store, \A j \in Instances : DOMAIN listed'[j] = DOMAIN listed[j]
  PROVE  Drivers'
<1>0. \A l \in Calls : call'[l] = IF l = k THEN next ELSE call[l]
  BY DEF FlowShape
<1>1. \A j \in Instances : (On(next, j) => j = i) /\ ~Wins(next, j, store)
  BY DEF Fit, On, Wins, Idle
<1>2. ~Passive(next)
  BY DEF Fit, Passive, Idle
<1>3. ASSUME NEW l \in Calls, NEW j \in Instances
      PROVE  /\ On(call'[l], j) => IF j = i THEN l = k ELSE l # k /\ On(call[l], j)
             /\ Wins(call'[l], j, store') => j # i /\ l # k /\ Wins(call[l], j, store)
             /\ Drives(call'[l], j, store') => IF j = i THEN l = k ELSE l # k /\ Drives(call[l], j, store)
  <2>1. CASE l = k
    BY <1>0, <1>1, <2>1 DEF Drives, Moves
  <2>2. CASE l # k
    <3>1. call'[l] = call[l] /\ ~On(call[l], i) /\ ~Wins(call[l], i, store)
      BY <1>0, <2>2 DEF Alone
    <3> QED
      BY <2>2, <3>1 DEF Drives, Moves
  <2> QED
    BY <2>1, <2>2
<1>4. /\ state'[i] = p.state /\ node'[i] = p.node
      /\ \A j \in Instances : j # i => state'[j] = state[j] /\ node'[j] = node[j]
  BY PlaceFacts DEF Fit
<1>5. ASSUME NEW l \in Calls, l # k, call[l].step \in {"round", "create", "created"}
      PROVE  call[l].inst \in Instances /\ call[l].inst # i /\ call'[l] = call[l]
  <2>1. call[l].inst \in Instances
    BY <1>5, ShapeOf DEF FlowShape
  <2>2. On(call[l], call[l].inst)
    BY <1>5 DEF On
  <2> QED
    BY <1>0, <1>5, <2>1, <2>2 DEF Alone
<1>6. OneDriver'
  <2>1. \A j \in Instances : \A l, m \in Calls :
          Drives(call'[l], j, store') /\ Drives(call'[m], j, store') => l = m
    BY <1>3 DEF Drivers, OneDriver
  <2>2. \A j \in Instances : \A l \in Calls : Drives(call'[l], j, store') =>
          \A t \in DOMAIN listed'[j] : store'[t].status \notin Open
    BY <1>3 DEF Drivers, OneDriver, Alone
  <2>3. \A j \in Instances : \A t, u \in DOMAIN listed'[j] :
          store'[t].status \in Open /\ store'[u].status \in Open => t = u
    BY DEF Drivers, OneDriver
  <2> QED
    BY <2>1, <2>2, <2>3 DEF OneDriver
<1>7. PassiveFirst'
  <2>1. SUFFICES ASSUME NEW m \in Calls, Passive(call'[m])
                 PROVE  /\ node'[call'[m].inst] = call'[m].node
                        /\ \A l \in Calls : Drives(call'[l], call'[m].inst, store') =>
                             call'[l].step = "decided" /\ Before(ready', m, l)
    BY DEF PassiveFirst
  <2>2. m # k /\ Passive(call[m])
    BY <1>0, <1>2, <2>1
  <2>3. call[m].inst \in Instances /\ call[m].inst # i /\ call'[m] = call[m]
    BY <1>5, <2>2 DEF Passive
  <2>4. node'[call'[m].inst] = call'[m].node
    BY <1>4, <2>2, <2>3 DEF Drivers, PassiveFirst
  <2>5. ASSUME NEW l \in Calls, Drives(call'[l], call'[m].inst, store')
        PROVE  call'[l].step = "decided" /\ Before(ready', m, l)
    <3>1. l # k /\ Drives(call[l], call[m].inst, store)
      BY <1>3, <2>3, <2>5
    <3> QED
      BY <1>0, <2>2, <2>3, <3>1 DEF Drivers, PassiveFirst
  <2> QED
    BY <2>4, <2>5
<1>8. Standing'
  <2>1. ASSUME NEW l \in Calls, call'[l].step \in {"create", "created"}
        PROVE  /\ state'[call'[l].inst] = "running"
               /\ node'[call'[l].inst] = call'[l].node
               /\ Kind[call'[l].node] \in Waiting \cup {"parallel"}
    <3>1. CASE l = k
      BY <1>0, <1>4, <2>1, <3>1 DEF Fit, Idle
    <3>2. CASE l # k
      BY <1>0, <1>4, <1>5, <2>1, <3>2 DEF Drivers, Standing
    <3> QED
      BY <3>1, <3>2
  <2>2. \A j \in Instances : \A t \in DOMAIN listed'[j] : store'[t].status \in Open =>
          state'[j] = "running" /\ Kind[node'[j]] \in Waiting
    BY <1>4 DEF Drivers, Standing, Alone
  <2>3. \A j \in Instances : \A l \in Calls : Wins(call'[l], j, store') =>
          state'[j] = "running" /\ Kind[node'[j]] \in Waiting
    BY <1>3, <1>4 DEF Drivers, Standing
  <2>4. ASSUME NEW j \in Instances, state'[j] = "none"
        PROVE  /\ node'[j] = StartNode /\ DOMAIN listed'[j] = {}
               /\ \A l \in Calls : ~On(call'[l], j)
    <3>1. j # i
      BY <1>4, <2>4 DEF Fit
    <3> QED
      BY <1>3, <1>4, <2>4, <3>1 DEF Drivers, Standing
  <2>5. ASSUME NEW j \in Instances
        PROVE  (state'[j] = "completed") <=> (state'[j] # "none" /\ Kind[node'[j]] = "end")
    <3>1. CASE j = i
      BY <1>4, <3>1 DEF Fit
    <3>2. CASE j # i
      BY <1>4, <3>2 DEF Drivers, Standing
    <3> QED
      BY <3>1, <3>2
  <2> QED
    BY <2>1, <2>2, <2>3, <2>4, <2>5 DEF Standing
<1>9. Targets'
  <2>1. ASSUME NEW l \in Calls, call'[l].step = "create", Kind[call'[l].node] \in Waiting
        PROVE  call'[l].target = call'[l].node
    <3>1. CASE l = k
      BY <1>0, <2>1, <3>1 DEF Fit, Idle
    <3>2. CASE l # k
      BY <1>0, <2>1, <3>2 DEF Drivers, Targets
    <3> QED
      BY <3>1, <3>2
  <2>2. ASSUME NEW l \in Calls, call'[l].step = "created", Kind[call'[l].node] \in Waiting
        PROVE  store'[call'[l].task].node = call'[l].node
    <3>1. l # k /\ call'[l] = call[l]
      BY <1>0, <2>2 DEF Fit, Idle
    <3> QED
      BY <2>2, <3>1 DEF Drivers, Targets
  <2> QED
    BY <2>1, <2>2 DEF Targets
<1> QED
  BY <1>6, <1>7, <1>8, <1>9 DEF Drivers

\* The store creates the task that the call is waiting for.
LEMMA DriversCreate ==
  ASSUME FlowShape, Queue, Drivers, NEW k \in Calls, StoreCreates(k)
  PROVE  Drivers'
<1> DEFINE c == call[k]
           t == Len(store) + 1
           next == [step |-> "created", inst |-> c.inst, node |-> c.node, iter |-> c.iter,
                    at |-> c.at, task |-> t]
<1>1. /\ c.step = "create" /\ c.inst \in Instances /\ c.target \in Nodes
      /\ AddTask(c.inst, c.target) /\ Goto(k, next) /\ next \in CallShapes
      /\ UNCHANGED <<state, node, listed>>
  BY StoreCreatesFacts
<1>2. /\ \A u \in 1..Len(store) : store'[u] = store[u]
      /\ store'[t] = [inst |-> c.inst, node |-> c.target, status |-> "pending"]
  BY <1>1, AddFacts
<1>3. /\ next.step = "created" /\ next.task = t /\ next.inst = c.inst /\ next.node = c.node
      /\ c.step \notin Settled
  BY <1>1 DEF Settled
<1> HIDE DEF next
<1>4. /\ call' = [call EXCEPT ![k] = next]
      /\ \A a, b \in Calls : a # k /\ b # k /\ Before(ready, a, b) => Before(ready', a, b)
  BY <1>1, <1>3, GotoFacts DEF FlowShape
<1>5. \A l \in Calls : call'[l] = IF l = k THEN next ELSE call[l]
  BY <1>4 DEF FlowShape
<1>6. store'[t].node = c.target /\ \A i \in Instances : \A u \in DOMAIN listed[i] : store'[u] = store[u]
  BY <1>2 DEF FlowShape
<1>7. ASSUME NEW l \in Calls, NEW j \in Instances
      PROVE  /\ (On(call'[l], j) <=> On(call[l], j))
             /\ (Wins(call'[l], j, store') <=> Wins(call[l], j, store))
             /\ (Drives(call'[l], j, store') <=> Drives(call[l], j, store))
  <2>1. CASE l = k
    <3>1. (On(call'[l], j) <=> On(call[l], j)) /\ ~Passive(call'[l]) /\ ~Passive(call[l])
      BY <1>1, <1>3, <1>5, <2>1 DEF On, Passive
    <3>2. ~Wins(call'[l], j, store') /\ ~Wins(call[l], j, store)
      BY <1>1, <1>3, <1>5, <2>1 DEF Wins
    <3> QED
      BY <3>1, <3>2 DEF Drives, Moves
  <2>2. CASE l # k
    <3>1. call'[l] = call[l]
      BY <1>5, <2>2
    <3>2. call[l].step = "decided" => store'[call[l].task] = store[call[l].task]
      BY <1>2, VerdictFacts DEF Acting
    <3> QED
      BY <3>1, <3>2 DEF Drives, Moves, Wins
  <2> QED
    BY <2>1, <2>2
<1> HIDE DEF c, t
<1>8. OneDriver'
  BY <1>1, <1>6, <1>7 DEF Drivers, OneDriver
<1>9. PassiveFirst'
  <2>1. SUFFICES ASSUME NEW m \in Calls, Passive(call'[m])
                 PROVE  /\ node'[call'[m].inst] = call'[m].node
                        /\ \A l \in Calls : Drives(call'[l], call'[m].inst, store') =>
                             call'[l].step = "decided" /\ Before(ready', m, l)
    BY DEF PassiveFirst
  <2>2. m # k /\ call'[m] = call[m] /\ call[m].inst \in Instances
    BY <1>3, <1>5, <2>1, ShapeOf DEF Passive, FlowShape
  <2>3. ASSUME NEW l \in Calls, Drives(call'[l], call'[m].inst, store')
        PROVE  call'[l].step = "decided" /\ Before(ready', m, l)
    <3>1. call[l].step = "decided" /\ Before(ready, m, l)
      BY <1>7, <2>1, <2>2, <2>3 DEF Drivers, PassiveFirst
    <3>2. l # k
      BY <1>1, <3>1 DEF c
    <3> QED
      BY <1>4, <1>5, <2>2, <3>1, <3>2
  <2> QED
    BY <1>1, <2>1, <2>2, <2>3 DEF Drivers, PassiveFirst
<1>10. Standing'
  <2>1. \A l \in Calls : call'[l].step \in {"create", "created"} =>
          /\ state'[call'[l].inst] = "running"
          /\ node'[call'[l].inst] = call'[l].node
          /\ Kind[call'[l].node] \in Waiting \cup {"parallel"}
    BY <1>1, <1>3, <1>5 DEF Drivers, Standing, c
  <2>2. \A i \in Instances : \A u \in DOMAIN listed'[i] : store'[u].status \in Open =>
          state'[i] = "running" /\ Kind[node'[i]] \in Waiting
    BY <1>1, <1>6 DEF Drivers, Standing
  <2>3. \A i \in Instances : \A l \in Calls : Wins(call'[l], i, store') =>
          state'[i] = "running" /\ Kind[node'[i]] \in Waiting
    BY <1>1, <1>7 DEF Drivers, Standing
  <2>4. \A i \in Instances : state'[i] = "none" =>
          /\ node'[i] = StartNode /\ DOMAIN listed'[i] = {}
          /\ \A l \in Calls : ~On(call'[l], i)
    BY <1>1, <1>7 DEF Drivers, Standing
  <2>5. \A i \in Instances : (state'[i] = "completed") <=> (state'[i] # "none" /\ Kind[node'[i]] = "end")
    BY <1>1 DEF Drivers, Standing
  <2> QED
    BY <2>1, <2>2, <2>3, <2>4, <2>5 DEF Standing
<1>11. Targets'
  <2>1. \A l \in Calls : call'[l].step = "create" /\ Kind[call'[l].node] \in Waiting =>
          call'[l].target = call'[l].node
    BY <1>3, <1>5 DEF Drivers, Targets
  <2>2. ASSUME NEW l \in Calls, call'[l].step = "created", Kind[call'[l].node] \in Waiting
        PROVE  store'[call'[l].task].node = call'[l].node
    <3>1. CASE l = k
      <4>1. call'[l] = next /\ Kind[c.node] \in Waiting
        BY <1>3, <1>5, <2>2, <3>1
      <4>2. c.target = c.node
        BY <1>1, <4>1 DEF Drivers, Targets, c
      <4> QED
        BY <1>3, <1>6, <4>1, <4>2
    <3>2. CASE l # k
      <4>1. call'[l] = call[l] /\ store'[call[l].task] = store[call[l].task]
        BY <1>2, <1>5, <2>2, <3>2 DEF FlowShape
      <4> QED
        BY <2>2, <4>1 DEF Drivers, Targets
    <3> QED
      BY <3>1, <3>2
  <2> QED
    BY <2>1, <2>2 DEF Targets
<1> QED
  BY <1>8, <1>9, <1>10, <1>11 DEF Drivers

\* The continuation lists the task of a task or approval node: the call does
\* not move the instance any more, the task does.
LEMMA DriversList ==
  ASSUME FlowShape, Queue, Drivers, NEW k \in Calls, Created(k), ListsTask(k)
  PROVE  Drivers'
<1> DEFINE c == call[k]
           i == c.inst
           t == c.task
           next == Round(i, c.node, c.iter)
<1>1. /\ Resumed(k) /\ c.step = "created" /\ i \in Instances /\ c.node \in Nodes
      /\ c.iter \in 0..MaxIter /\ UNCHANGED <<store, state, node>>
      /\ Kind[c.node] \in Waiting /\ Goto(k, next)
      /\ listed' = [listed EXCEPT ![i] = Put(listed[i], t, "pending")]
  BY CreatedFacts DEF ListsTask
<1>2. next \in CallShapes
  BY <1>1, NextShapes
<1>3. next.step = "round" /\ next.inst = i /\ next.node = c.node
  BY DEF Round
<1>4. state[i] = "running" /\ node[i] = c.node
  BY <1>1 DEF Drivers, Standing
<1>5. Drives(c, i, store)
  BY <1>1 DEF Drives, Moves, On, Passive
<1> HIDE DEF next
<1>6. /\ call' = [call EXCEPT ![k] = next]
      /\ \A a, b \in Calls : a # k /\ b # k /\ Before(ready, a, b) => Before(ready', a, b)
  BY <1>1, <1>2, GotoFacts DEF FlowShape
<1>7. \A l \in Calls : call'[l] = IF l = k THEN next ELSE call[l]
  BY <1>6 DEF FlowShape
<1>8. /\ \A j \in Instances : j # i => listed'[j] = listed[j]
      /\ DOMAIN listed'[i] = DOMAIN listed[i] \cup {t}
  BY <1>1, PutFacts
<1>9. \A u \in DOMAIN listed[i] : store[u].status \notin Open
  BY <1>1, <1>5 DEF Drivers, OneDriver
<1> HIDE DEF c, i, t
<1>10. ASSUME NEW l \in Calls, NEW j \in Instances
       PROVE  /\ On(call'[l], j) => IF l = k THEN j = i ELSE On(call[l], j)
              /\ Wins(call'[l], j, store') => l # k /\ Wins(call[l], j, store)
              /\ Drives(call'[l], j, store') => l # k /\ j # i /\ Drives(call[l], j, store)
  <2>1. CASE l = k
    BY <1>1, <1>3, <1>7, <2>1 DEF Drives, Moves, On, Wins, Passive
  <2>2. CASE l # k
    <3>1. call'[l] = call[l] /\ ~Drives(call[l], i, store)
      BY <1>1, <1>5, <1>7, <2>2 DEF Drivers, OneDriver, c
    <3> QED
      BY <1>1, <2>2, <3>1 DEF Drives, Moves
  <2> QED
    BY <2>1, <2>2
<1>11. OneDriver'
  <2>1. \A j \in Instances : \A l, m \in Calls :
          Drives(call'[l], j, store') /\ Drives(call'[m], j, store') => l = m
    BY <1>10 DEF Drivers, OneDriver
  <2>2. \A j \in Instances : \A l \in Calls : Drives(call'[l], j, store') =>
          \A u \in DOMAIN listed'[j] : store'[u].status \notin Open
    BY <1>1, <1>8, <1>10 DEF Drivers, OneDriver
  <2>3. \A j \in Instances : \A u, v \in DOMAIN listed'[j] :
          store'[u].status \in Open /\ store'[v].status \in Open => u = v
    BY <1>1, <1>8, <1>9 DEF Drivers, OneDriver
  <2> QED
    BY <2>1, <2>2, <2>3 DEF OneDriver
<1>12. PassiveFirst'
  <2>1. SUFFICES ASSUME NEW m \in Calls, Passive(call'[m])
                 PROVE  /\ node'[call'[m].inst] = call'[m].node
                        /\ \A l \in Calls : Drives(call'[l], call'[m].inst, store') =>
                             call'[l].step = "decided" /\ Before(ready', m, l)
    BY DEF PassiveFirst
  <2>2. CASE m = k
    BY <1>1, <1>3, <1>4, <1>7, <1>10, <2>2
  <2>3. CASE m # k
    <3>1. call'[m] = call[m] /\ call[m].inst \in Instances
      BY <1>7, <2>1, <2>3, ShapeOf DEF Passive, FlowShape
    <3> QED
      BY <1>1, <1>6, <1>7, <1>10, <2>1, <2>3, <3>1 DEF Drivers, PassiveFirst
  <2> QED
    BY <2>2, <2>3
<1>13. Standing'
  <2>1. \A l \in Calls : call'[l].step \in {"create", "created"} =>
          /\ state'[call'[l].inst] = "running"
          /\ node'[call'[l].inst] = call'[l].node
          /\ Kind[call'[l].node] \in Waiting \cup {"parallel"}
    BY <1>1, <1>3, <1>7 DEF Drivers, Standing
  <2>2. \A j \in Instances : \A u \in DOMAIN listed'[j] : store'[u].status \in Open =>
          state'[j] = "running" /\ Kind[node'[j]] \in Waiting
    BY <1>1, <1>4, <1>8 DEF Drivers, Standing
  <2>3. \A j \in Instances : \A l \in Calls : Wins(call'[l], j, store') =>
          state'[j] = "running" /\ Kind[node'[j]] \in Waiting
    BY <1>1, <1>10 DEF Drivers, Standing
  <2>4. ASSUME NEW j \in Instances, state'[j] = "none"
        PROVE  /\ node'[j] = StartNode /\ DOMAIN listed'[j] = {}
               /\ \A l \in Calls : ~On(call'[l], j)
    <3>1. j # i
      BY <1>1, <1>4, <2>4
    <3> QED
      BY <1>1, <1>8, <1>10, <2>4, <3>1 DEF Drivers, Standing
  <2>5. \A j \in Instances : (state'[j] = "completed") <=> (state'[j] # "none" /\ Kind[node'[j]] = "end")
    BY <1>1 DEF Drivers, Standing
  <2> QED
    BY <2>1, <2>2, <2>3, <2>4, <2>5 DEF Standing
<1>14. Targets'
  BY <1>1, <1>3, <1>7 DEF Drivers, Targets
<1> QED
  BY <1>11, <1>12, <1>13, <1>14 DEF Drivers

\* The store takes "completed" for a listed task: the call that brought the
\* verdict drives the instance, behind the calls that are still ahead of it.
LEMMA DriversDecide ==
  ASSUME FlowShape, Queue, Lists, Drivers, NEW k \in Calls, StoreDecides(k)
  PROVE  Drivers'
<1> DEFINE t == call[k].task
           i == store[t].inst
           next == [call[k] EXCEPT !.step = "decided"]
<1>1. /\ call[k].step = "decide" /\ t \in 1..Len(store) /\ i \in Instances
      /\ UNCHANGED <<state, node, listed>>
      /\ call[k].step \notin Settled /\ t \in DOMAIN listed[i]
  BY StoreDecidesFacts, VerdictFacts DEF Lists, Acting, StoreDecides, Settled
<1>2. CASE store[t].status \notin Open
  <2>1. Finish(k) /\ UNCHANGED store
    BY <1>2, StoreDecidesFacts
  <2>2. Idle \in CallShapes /\ Idle.step = "idle"
    BY DEF CallShapes, Idle
  <2> QED
    BY <1>1, <2>1, <2>2, TaskFacts, QuieterCall DEF Finish
<1>3. CASE store[t].status \in Open
  <2>1. /\ Goto(k, next) /\ next \in CallShapes /\ next.step = "decided" /\ next.task = t
        /\ next.verdict = call[k].verdict /\ next.verdict \in {"completed", "rejected"}
    BY <1>3, StoreDecidesFacts
  <2>2. /\ Grown(store, store') /\ \A u \in 1..Len(store) : u # t => store'[u] = store[u]
        /\ store'[t].status = next.verdict
    BY <1>3, StoreDecidesFacts
  <2> HIDE DEF next
  <2>3. /\ call' = [call EXCEPT ![k] = next]
        /\ \A a, b \in Calls : a # k /\ b # k /\ Before(ready, a, b) => Before(ready', a, b)
        /\ \A a \in Calls : a # k /\ call[a].step \in Settled => Before(ready', a, k)
    BY <1>1, <2>1, GotoFacts DEF FlowShape, Settled
  <2>4. \A l \in Calls : call'[l] = IF l = k THEN next ELSE call[l]
    BY <2>3 DEF FlowShape
  <2>5. \A u \in 1..Len(store) : store'[u].status \in Open => store[u].status \in Open /\ u # t
    BY <2>1, <2>2 DEF Open
  <2>6. \A u \in 1..Len(store) : store'[u].inst = store[u].inst
    BY <2>2 DEF Grown
  <2>7. CASE next.verdict = "rejected"
    BY <1>1, <2>1, <2>2, <2>5, <2>7, QuieterCall
  <2>8. CASE next.verdict = "completed"
    <3> HIDE DEF t, i
    <3>0. /\ \A l \in Calls : ~Drives(call[l], i, store)
          /\ \A u \in DOMAIN listed[i] : store[u].status \in Open => u = t
          /\ state[i] = "running" /\ Kind[node[i]] \in Waiting
      BY <1>1, <1>3 DEF Drivers, OneDriver, Standing
    <3>1. ASSUME NEW l \in Calls, NEW j \in Instances
          PROVE  /\ On(call'[l], j) => l # k /\ On(call[l], j)
                 /\ Wins(call'[l], j, store') => IF l = k THEN j = i ELSE Wins(call[l], j, store)
                 /\ Drives(call'[l], j, store') => IF l = k THEN j = i ELSE j # i /\ Drives(call[l], j, store)
      <4>1. CASE l = k
        BY <1>1, <2>1, <2>4, <2>6, <4>1 DEF Drives, Moves, On, Wins, i
      <4>2. CASE l # k
        <5>1. call'[l] = call[l]
          BY <2>4, <4>2
        <5>2. Wins(call'[l], j, store') => Wins(call[l], j, store)
          BY <2>6, <5>1, VerdictFacts DEF Wins, Acting
        <5> QED
          BY <3>0, <4>2, <5>1, <5>2 DEF Drives, Moves
      <4> QED
        BY <4>1, <4>2
    <3>2. \A j \in Instances : \A u \in DOMAIN listed[j] : u \in 1..Len(store) /\ store[u].inst = j
      BY DEF FlowShape
    <3>3. OneDriver'
      <4>1. \A j \in Instances : \A l, m \in Calls :
              Drives(call'[l], j, store') /\ Drives(call'[m], j, store') => l = m
        BY <3>1 DEF Drivers, OneDriver
      <4>2. \A j \in Instances : \A l \in Calls : Drives(call'[l], j, store') =>
              \A u \in DOMAIN listed'[j] : store'[u].status \notin Open
        BY <1>1, <2>5, <3>0, <3>1, <3>2 DEF Drivers, OneDriver
      <4>3. \A j \in Instances : \A u, v \in DOMAIN listed'[j] :
              store'[u].status \in Open /\ store'[v].status \in Open => u = v
        BY <1>1, <2>5, <3>2 DEF Drivers, OneDriver
      <4> QED
        BY <4>1, <4>2, <4>3 DEF OneDriver
    <3>4. PassiveFirst'
      <4>1. SUFFICES ASSUME NEW m \in Calls, Passive(call'[m])
                     PROVE  /\ node'[call'[m].inst] = call'[m].node
                            /\ \A l \in Calls : Drives(call'[l], call'[m].inst, store') =>
                                 call'[l].step = "decided" /\ Before(ready', m, l)
        BY DEF PassiveFirst
      <4>2. m # k /\ call'[m] = call[m] /\ call[m].inst \in Instances /\ call[m].step \in Settled
        BY <2>1, <2>4, <4>1, ShapeOf DEF Passive, FlowShape, Settled
      <4>3. ASSUME NEW l \in Calls, Drives(call'[l], call'[m].inst, store')
            PROVE  call'[l].step = "decided" /\ Before(ready', m, l)
        <5>1. CASE l = k
          BY <2>1, <2>3, <2>4, <4>2, <5>1
        <5>2. CASE l # k
          BY <2>3, <2>4, <3>1, <4>1, <4>2, <4>3, <5>2 DEF Drivers, PassiveFirst
        <5> QED
          BY <5>1, <5>2
      <4> QED
        BY <1>1, <4>1, <4>2, <4>3 DEF Drivers, PassiveFirst
    <3>5. Standing'
      <4>1. \A l \in Calls : call'[l].step \in {"create", "created"} =>
              /\ state'[call'[l].inst] = "running"
              /\ node'[call'[l].inst] = call'[l].node
              /\ Kind[call'[l].node] \in Waiting \cup {"parallel"}
        BY <1>1, <2>1, <2>4 DEF Drivers, Standing
      <4>2. \A j \in Instances : \A u \in DOMAIN listed'[j] : store'[u].status \in Open =>
              state'[j] = "running" /\ Kind[node'[j]] \in Waiting
        BY <1>1, <2>5, <3>2 DEF Drivers, Standing
      <4>3. \A j \in Instances : \A l \in Calls : Wins(call'[l], j, store') =>
              state'[j] = "running" /\ Kind[node'[j]] \in Waiting
        BY <1>1, <3>0, <3>1 DEF Drivers, Standing
      <4>4. \A j \in Instances : state'[j] = "none" =>
              /\ node'[j] = StartNode /\ DOMAIN listed'[j] = {}
              /\ \A l \in Calls : ~On(call'[l], j)
        BY <1>1, <3>1 DEF Drivers, Standing
      <4>5. \A j \in Instances : (state'[j] = "completed") <=> (state'[j] # "none" /\ Kind[node'[j]] = "end")
        BY <1>1 DEF Drivers, Standing
      <4> QED
        BY <4>1, <4>2, <4>3, <4>4, <4>5 DEF Standing
    <3>6. Targets'
      <4>1. \A l \in Calls : call'[l].step = "create" /\ Kind[call'[l].node] \in Waiting =>
              call'[l].target = call'[l].node
        BY <2>1, <2>4 DEF Drivers, Targets
      <4>2. ASSUME NEW l \in Calls, call'[l].step = "created", Kind[call'[l].node] \in Waiting
            PROVE  store'[call'[l].task].node = call'[l].node
        <5>1. call'[l] = call[l] /\ call[l].task \in 1..Len(store)
          BY <2>1, <2>4, <4>2 DEF FlowShape
        <5> QED
          BY <2>2, <4>2, <5>1 DEF Drivers, Targets, Grown
      <4> QED
        BY <4>1, <4>2 DEF Targets
    <3> QED
      BY <3>3, <3>4, <3>5, <3>6 DEF Drivers
  <2> QED
    BY <2>1, <2>7, <2>8
<1> QED
  BY <1>2, <1>3

\* A call alone with its instance goes through one more round.
LEMMA DriversAdvance ==
  ASSUME FlowShape, Queue, Drivers, NEW k \in Calls, Resumed(k) \/ call[k].step \notin Settled,
         NEW i \in Instances, Alone(k, i), NEW s \in {"running", "completed"}, NEW n \in Nodes,
         NEW iter \in 0..MaxIter, Advances(k, i, s, n, iter), s = "completed" <=> Kind[n] = "end",
         UNCHANGED store, \A j \in Instances : DOMAIN listed'[j] = DOMAIN listed[j]
  PROVE  Drivers'
<1>1. PICK p, next : Ran(i, context[i], s, n, iter, p, next) /\ SetPlace(i, p) /\ Goto(k, next)
  BY DEF Advances
<1>2. context[i] \in Contexts /\ call \in [Calls -> CallShapes]
  BY DEF FlowShape
<1>3. next \in CallShapes
  BY <1>1, <1>2, RanFacts
<1>4. Fit(i, p, next)
  BY <1>1, <1>2, RanFits
<1>5. /\ call' = [call EXCEPT ![k] = next]
      /\ \A a, b \in Calls : a # k /\ b # k /\ Before(ready, a, b) => Before(ready', a, b)
  BY <1>1, <1>2, <1>3, GotoFacts
<1> QED
  BY <1>1, <1>4, <1>5, Moved

\* The continuation at a parallel node goes on with a branch or leaves.
LEMMA DriversFork ==
  ASSUME FlowShape, Queue, Drivers, NEW k \in Calls, Created(k), NextBranch(k) \/ LeavesFork(k)
  PROVE  Drivers'
<1> DEFINE i == call[k].inst
           n == call[k].node
<1>1. /\ Resumed(k) /\ call[k].step = "created" /\ i \in Instances /\ n \in Nodes
      /\ call[k].iter \in 0..MaxIter /\ UNCHANGED store
  BY CreatedFacts
<1>2. /\ state[i] = "running" /\ node[i] = n /\ Kind[n] = "parallel" /\ UNCHANGED listed
  BY <1>1 DEF Drivers, Standing, NextBranch, LeavesFork
<1>3. Drives(call[k], i, store)
  BY <1>1 DEF Drives, Moves, On, Passive
<1>4. Alone(k, i)
  BY <1>1, <1>3, DriverIsAlone
<1>5. Place(i) = [state |-> "running", node |-> n]
  BY <1>2 DEF Place
<1>6. ASSUME NEW p, NEW next \in CallShapes, Fit(i, p, next), SetPlace(i, p), Goto(k, next)
      PROVE  Drivers'
  <2>1. /\ call' = [call EXCEPT ![k] = next]
        /\ \A a, b \in Calls : a # k /\ b # k /\ Before(ready, a, b) => Before(ready', a, b)
    BY <1>1, <1>6, GotoFacts DEF FlowShape
  <2> QED
    BY <1>1, <1>2, <1>4, <1>6, <2>1, Moved
<1>7. "parallel" \notin Waiting /\ Kind[n] # "end" /\ Kind[n] \notin Waiting
  BY <1>2 DEF Waiting
<1>8. CASE NextBranch(k)
  <2>1. PICK target \in Nodes, at \in Nat : Goto(k, Creating(i, n, call[k].iter, target, at))
    BY <1>8 DEF NextBranch
  <2> DEFINE next == Creating(i, n, call[k].iter, target, at)
  <2>2. next \in CallShapes /\ next.step = "create" /\ next.inst = i /\ next.node = n
    BY <1>1, NextShapes DEF Creating
  <2>3. SetPlace(i, Place(i))
    BY <1>1, <1>8 DEF NextBranch, SetPlace, Place, FlowShape
  <2>4. Fit(i, Place(i), next)
    BY <1>1, <1>2, <1>5, <1>7, <2>2 DEF Fit, Places
  <2> QED
    BY <1>6, <2>1, <2>2, <2>3, <2>4
<1>9. CASE LeavesFork(k)
  <2>1. CASE Finish(k) /\ SetPlace(i, Place(i))
    <3>1. Fit(i, Place(i), Idle)
      BY <1>1, <1>5, <1>7 DEF Fit, Places
    <3>2. Idle \in CallShapes
      BY DEF CallShapes
    <3> QED
      BY <1>6, <2>1, <3>1, <3>2 DEF Finish
  <2>2. CASE /\ Default(n) \in Nodes /\ SetPlace(i, Arrive(Place(i), Default(n)))
             /\ Goto(k, Round(i, n, call[k].iter))
    <3> DEFINE p == Arrive(Place(i), Default(n))
               next == Round(i, n, call[k].iter)
    <3>1. next \in CallShapes /\ next.step = "round" /\ next.inst = i /\ next.node = n
      BY <1>1, NextShapes DEF Round
    <3>2. p = [state |-> IF Kind[Default(n)] = "end" THEN "completed" ELSE "running", node |-> Default(n)]
      BY <1>5 DEF Arrive
    <3>3. p \in Places /\ p.state \in {"running", "completed"} /\ (p.state = "completed" <=> Kind[p.node] = "end")
      BY <2>2, <3>2 DEF Places
    <3>4. Fit(i, p, next)
      BY <1>7, <3>1, <3>3 DEF Fit
    <3> QED
      BY <1>6, <2>2, <3>1, <3>4
  <2> QED
    BY <1>9, <2>1, <2>2 DEF LeavesFork
<1> QED
  BY <1>8, <1>9

LEMMA DriversNext ==
  ASSUME FlowShape, Queue, Lists, Drivers, [FlowNext]_flowVars
  PROVE  Drivers'
<1>0. /\ Grown(store, store) /\ StartNode \in Nodes /\ 0 \in 0..MaxIter
      /\ Idle \in CallShapes /\ Idle.step = "idle" /\ Idle.step \notin Settled
  BY TaskFacts, DefinitionAssumption, BoundsAssumption DEF CallShapes, Idle, Settled
<1>a. ASSUME UNCHANGED listed PROVE \A j \in Instances : DOMAIN listed'[j] = DOMAIN listed[j]
  BY <1>a
<1>b. ASSUME UNCHANGED store
      PROVE  /\ Grown(store, store')
             /\ \A t \in 1..Len(store) : store'[t].status \in Open => store[t].status \in Open
  BY <1>0, <1>b
<1>1. ASSUME NEW k \in Calls, NEW i \in Instances, Start(k, i) PROVE Drivers'
  <2>1. /\ call[k] = Idle /\ state[i] = "none" /\ Advances(k, i, "running", StartNode, 0)
        /\ UNCHANGED <<listed, store>>
    BY <1>1, StartFacts
  <2>2. Alone(k, i)
    BY <2>1, FreshIsAlone
  <2>3. Kind[StartNode] # "end"
    BY DefinitionAssumption
  <2> QED
    BY <1>0, <1>a, <2>1, <2>2, <2>3, DriversAdvance
<1>2. ASSUME NEW k \in Calls, NextRound(k) PROVE Drivers'
  <2> DEFINE i == call[k].inst
  <2>1. /\ Resumed(k) /\ call[k].step = "round" /\ i \in Instances /\ call[k].iter \in 0..MaxIter
        /\ UNCHANGED <<listed, store>>
    BY <1>2, NextRoundFacts
  <2>2. CASE Finish(k) /\ UNCHANGED <<state, node>>
    BY <1>0, <1>a, <1>b, <2>1, <2>2, QuieterCall DEF Finish
  <2>3. CASE /\ state[i] = "running" /\ node[i] # call[k].node
             /\ Advances(k, i, state[i], node[i], call[k].iter)
    <3>1. ~Passive(call[k])
      BY <2>3 DEF Drivers, PassiveFirst
    <3>2. Drives(call[k], i, store)
      BY <2>1, <3>1 DEF Drives, Moves, On
    <3>3. Alone(k, i)
      BY <2>1, <3>2, DriverIsAlone
    <3>4. node[i] \in Nodes /\ Kind[node[i]] # "end"
      BY <2>1, <2>3 DEF Drivers, Standing, FlowShape
    <3> QED
      BY <1>a, <2>1, <2>3, <3>3, <3>4, DriversAdvance
  <2> QED
    BY <1>2, <2>2, <2>3, NextRoundFacts
<1>3. ASSUME NEW k \in Calls, StoreCreates(k) PROVE Drivers'
  BY <1>3, DriversCreate
<1>4. ASSUME NEW k \in Calls, Created(k) PROVE Drivers'
  BY <1>4, CreatedFacts, DriversList, DriversFork
<1>5. ASSUME NEW k \in Calls, NEW t \in Tasks, NEW v \in {"completed", "rejected"}, Decide(k, t, v)
      PROVE  Drivers'
  <2> DEFINE next == [step |-> "decide", task |-> t, verdict |-> v]
  <2>1. /\ call[k] = Idle /\ next \in CallShapes /\ Goto(k, next)
        /\ UNCHANGED <<state, node, listed, store>>
    BY <1>5, DecideFacts
  <2>2. next.step = "decide"
    OBVIOUS
  <2> HIDE DEF next
  <2> QED
    BY <1>0, <1>a, <1>b, <2>1, <2>2, QuieterCall
<1>6. ASSUME NEW k \in Calls, StoreDecides(k) PROVE Drivers'
  BY <1>6, DriversDecide
<1>7. ASSUME NEW k \in Calls, Completed(k) PROVE Drivers'
  <2> DEFINE t == call[k].task
             i == store[t].inst
             n == node[i]
  <2>1. /\ Resumed(k) /\ call[k].step = "decided" /\ call[k].verdict = "completed"
        /\ t \in 1..Len(store) /\ i \in Instances /\ Relist(i, t, "completed") /\ UNCHANGED store
    BY <1>7, CompletedFacts
  <2>2. \/ HasDefault(n) /\ Default(n) \notin Nodes /\ Finish(k) /\ UNCHANGED <<state, node>>
        \/ ~HasDefault(n) /\ Advances(k, i, state[i], n, 0)
        \/ /\ HasDefault(n) /\ Default(n) \in Nodes
           /\ Advances(k, i, IF Kind[Default(n)] = "end" THEN "completed" ELSE state[i], Default(n), 0)
    BY <1>7, CompletedFacts
  <2>3. "completed" \in Statuses
    BY DEF Statuses
  <2>4. \A j \in Instances : DOMAIN listed'[j] = DOMAIN listed[j]
    BY <2>1, <2>3, RelistFacts
  <2>5. Wins(call[k], i, store)
    BY <2>1 DEF Wins
  <2>6. Alone(k, i)
    BY <2>1, <2>5, DriverIsAlone DEF Drives
  <2>7. state[i] = "running" /\ Kind[n] # "end" /\ n \in Nodes
    BY <2>1, <2>5 DEF Drivers, Standing, Waiting, FlowShape
  <2>8. CASE Finish(k) /\ UNCHANGED <<state, node>>
    BY <1>0, <1>b, <2>1, <2>4, <2>8, QuieterCall DEF Finish
  <2>9. CASE Advances(k, i, state[i], n, 0)
    <3> HIDE DEF i, n
    <3> QED
      BY <1>0, <2>1, <2>4, <2>6, <2>7, <2>9, DriversAdvance
  <2>10. CASE /\ Default(n) \in Nodes
              /\ Advances(k, i, IF Kind[Default(n)] = "end" THEN "completed" ELSE state[i], Default(n), 0)
    <3> DEFINE s == IF Kind[Default(n)] = "end" THEN "completed" ELSE state[i]
               m == Default(n)
    <3>1. s \in {"running", "completed"} /\ (s = "completed" <=> Kind[m] = "end")
      BY <2>7
    <3>2. m \in Nodes /\ Advances(k, i, s, m, 0)
      BY <2>10
    <3> HIDE DEF i, n, s, m
    <3> QED
      BY <1>0, <2>1, <2>4, <2>6, <3>1, <3>2, DriversAdvance
  <2> QED
    BY <2>2, <2>8, <2>9, <2>10
<1>8. ASSUME NEW k \in Calls, RejectedReads(k) \/ StoreReads(k) PROVE Drivers'
  <2>1. PICK next \in CallShapes :
           /\ next.step \in {"reading", "read"} /\ Goto(k, next)
           /\ Resumed(k) \/ call[k].step \notin Settled
    BY <1>8, RereadFacts
  <2>2. UNCHANGED <<state, node, listed, store>>
    BY <1>8 DEF RejectedReads, StoreReads
  <2> QED
    BY <1>0, <1>a, <1>b, <2>1, <2>2, QuieterCall
<1>9. ASSUME NEW k \in Calls, Rejected(k) PROVE Drivers'
  <2>1. /\ Resumed(k) /\ Finish(k) /\ UNCHANGED <<state, node, store>>
        /\ \A j \in Instances : DOMAIN listed'[j] = DOMAIN listed[j]
    BY <1>9, RejectedFacts, RelistFacts
  <2> QED
    BY <1>0, <1>b, <2>1, QuieterCall DEF Finish
<1>10. ASSUME NEW k \in Calls, StoreFails(k) PROVE Drivers'
  <2>1. /\ call[k].step \notin Settled /\ Finish(k) /\ UNCHANGED <<state, node, listed>>
        /\ Grown(store, store')
    BY <1>10, StoreFailsFacts
  <2>2. \A t \in 1..Len(store) : store'[t].status \in Open => store[t].status \in Open
    <3>1. CASE UNCHANGED store
      BY <3>1
    <3>2. CASE /\ call[k].step = "create" /\ call[k].inst \in Instances /\ call[k].target \in Nodes
               /\ AddTask(call[k].inst, call[k].target)
      BY <3>2, AddFacts
    <3>3. CASE /\ call[k].step = "decide" /\ store[call[k].task].status \in Open
               /\ store' = [store EXCEPT ![call[k].task].status = call[k].verdict]
      <4>1. call[k].task \in 1..Len(store) /\ call[k].verdict \in Statuses
        BY <3>3, VerdictFacts DEF Acting
      <4> QED
        BY <3>3, <4>1, SetFacts
    <3> QED
      BY <1>10, <3>1, <3>2, <3>3, StoreFailsFacts
  <2> QED
    BY <1>0, <1>a, <2>1, <2>2, QuieterCall DEF Finish
<1>11. ASSUME NEW t \in Tasks, StartTask(t) \/ CancelTask(t) PROVE Drivers'
  <2>1. /\ UNCHANGED <<state, node, listed, call, ready>> /\ Grown(store, store')
        /\ t \in 1..Len(store) /\ store[t].status \in Open
        /\ \A u \in 1..Len(store) : u # t => store'[u] = store[u]
    BY <1>11, UserFacts
  <2>2. \A u \in 1..Len(store) : store'[u].status \in Open => store[u].status \in Open
    BY <2>1
  <2>3. {} \in SUBSET Calls /\ \A l : l \notin {}
    OBVIOUS
  <2> QED
    BY <2>1, <2>2, <2>3, Quieter
<1>12. CASE UNCHANGED flowVars
  <2>1. UNCHANGED <<state, node, listed, call, ready, store>>
    BY <1>12 DEF flowVars
  <2>2. {} \in SUBSET Calls /\ \A l : l \notin {}
    OBVIOUS
  <2> QED
    BY <1>b, <2>1, <2>2, Quieter
<1> QED
  BY <1>1, <1>2, <1>3, <1>4, <1>5, <1>6, <1>7, <1>8, <1>9, <1>10, <1>11, <1>12
  DEF FlowNext, Actors, Continue

-----------------------------------------------------------------------------
(* No instance is left behind.                                             *)

\* The rounds left to the call are enough for the nodes ahead, and a call that
\* is over does not leave a running instance.
Lasts(rank, p, next) ==
  /\ next = Idle => p.state # "running"
  /\ next.step = "round" /\ p.state = "running" =>
       next.iter + rank[p.node] < MaxIter /\ p.node # next.node
  /\ next.step = "create" => next.iter + rank[p.node] <= MaxIter

LEMMA RanLasts ==
  ASSUME LeadsOn, NEW rank, Layered(rank), NEW i \in Instances, NEW c \in Contexts,
         NEW s \in {"running", "completed"}, NEW n \in Nodes, NEW iter \in 0..MaxIter, NEW p, NEW next,
         Ran(i, c, s, n, iter, p, next), s = "completed" <=> Kind[n] = "end",
         s = "running" => iter + rank[n] < MaxIter
  PROVE  Lasts(rank, p, next)
<1>0. /\ rank \in [Nodes -> 0..(MaxIter - 1)] /\ MaxIter \in Nat /\ iter \in Nat
      /\ \A m \in Nodes : rank[m] \in Nat
  BY BoundsAssumption DEF Layered
<1>1. CASE Stops(i, c, s, n, iter, p, next)
  <2>1. next = Idle /\ next.step = "idle" /\ p.state = s
    BY <1>1 DEF Stops, Idle
  <2>2. s # "running"
    <3>1. ASSUME s = "running" PROVE FALSE
      <4>1. ~(iter >= MaxIter) /\ Kind[n] # "end"
        BY <1>0, <3>1
      <4>2. HasDefault(n) /\ Default(n) \in Nodes
        BY <4>1 DEF LeadsOn
      <4>3. Kind[n] = "condition" => Match[c][n] \in Nodes \cup {NoMatch}
        BY DEF LeadsOn
      <4> QED
        BY <1>1, <3>1, <4>1, <4>2, <4>3 DEF Stops
    <3> QED
      BY <3>1
  <2> QED
    BY <2>1, <2>2 DEF Lasts
<1>2. CASE Stays(i, c, s, n, iter, p, next)
  <2>1. Kind[n] # "end" => HasDefault(n)
    BY DEF LeadsOn
  <2> QED
    BY <1>2, <2>1 DEF Stays, Passing
<1>3. CASE GoesOn(i, c, s, n, iter, p, next)
  <2>1. PICK m \in Nodes : Leads(c, n, m) /\ p = Arrive([state |-> s, node |-> n], m)
    BY <1>3 DEF GoesOn
  <2>2. s = "running" /\ next = Round(i, n, iter + 1) /\ Kind[n] \notin Waiting \cup {"end"}
    BY <1>3 DEF GoesOn
  <2>3. rank[m] < rank[n]
    BY <2>1, <2>2 DEF Layered, Leads
  <2>4. next.step = "round" /\ next.iter = iter + 1 /\ next.node = n /\ p.node = m /\ next # Idle
    BY <2>1, <2>2 DEF Round, Arrive, Idle
  <2>5. iter + 1 + rank[m] < MaxIter /\ m # n
    BY <1>0, <2>2, <2>3
  <2> QED
    BY <2>4, <2>5 DEF Lasts
<1>4. CASE GivesTask(i, c, s, n, iter, p, next)
  <2>1. PICK target \in Nodes, at \in Nat : next = Creating(i, n, iter + 1, target, at)
    BY <1>4 DEF GivesTask
  <2>2. s = "running" /\ p = [state |-> s, node |-> n]
    BY <1>4 DEF GivesTask
  <2>3. next.step = "create" /\ next.iter = iter + 1 /\ p.node = n /\ next # Idle
    BY <2>1, <2>2 DEF Creating, Idle
  <2>4. iter + 1 + rank[n] <= MaxIter
    BY <1>0, <2>2
  <2> QED
    BY <2>3, <2>4 DEF Lasts
<1> QED
  BY <1>1, <1>2, <1>3, <1>4 DEF Ran

Going(rank) == Enough(rank) /\ Tended

\* An instance alone with its call moves, and the call goes on.
LEMMA GoingMoved ==
  ASSUME FlowShape, NEW rank, Layered(rank), Going(rank), NEW k \in Calls, NEW i \in Instances,
         Alone(k, i), NEW p, NEW next, Fit(i, p, next), Lasts(rank, p, next), SetPlace(i, p),
         call' = [call EXCEPT ![k] = next],
         UNCHANGED store, \A j \in Instances : DOMAIN listed'[j] = DOMAIN listed[j]
  PROVE  Going(rank)'
<1>0. \A l \in Calls : call'[l] = IF l = k THEN next ELSE call[l]
  BY DEF FlowShape
<1>1. /\ state'[i] = p.state /\ node'[i] = p.node
      /\ \A j \in Instances : j # i => state'[j] = state[j] /\ node'[j] = node[j]
  BY PlaceFacts DEF Fit
<1>2. Enough(rank)'
  <2>1. ASSUME NEW l \in Calls
        PROVE  /\ Moves(call'[l], call'[l].inst) /\ call'[l].step = "round" /\ state'[call'[l].inst] = "running" =>
                    /\ call'[l].iter + rank[node'[call'[l].inst]] < MaxIter
                    /\ node'[call'[l].inst] # call'[l].node
               /\ call'[l].step \in {"create", "created"} =>
                    call'[l].iter + rank[node'[call'[l].inst]] <= MaxIter
    <3>1. CASE l = k
      <4>1. call'[l] = next
        BY <1>0, <3>1
      <4>2. next.step \in {"round", "create", "created"} => next.inst = i /\ next.step # "created"
        BY DEF Fit, Idle
      <4> QED
        BY <1>1, <4>1, <4>2 DEF Lasts
    <3>2. CASE l # k
      <4>1. call'[l] = call[l]
        BY <1>0, <3>2
      <4>2. CASE call[l].step \in {"round", "create", "created"}
        <5>1. call[l].inst \in Instances /\ On(call[l], call[l].inst)
          BY <4>2, ShapeOf DEF FlowShape, On
        <5>2. call[l].inst # i
          BY <3>2, <5>1 DEF Alone
        <5> QED
          BY <1>1, <4>1, <5>1, <5>2 DEF Going, Enough
      <4>3. CASE call[l].step \notin {"round", "create", "created"}
        BY <4>1, <4>3
      <4> QED
        BY <4>2, <4>3
    <3> QED
      BY <3>1, <3>2
  <2> QED
    BY <2>1 DEF Enough
<1>3. Tended'
  <2>1. SUFFICES ASSUME NEW j \in Instances, state'[j] = "running"
                 PROVE  (\E l \in Calls : Drives(call'[l], j, store')) \/ WaitsFor(j)'
    BY DEF Tended
  <2>2. CASE j = i
    <3>1. p.state = "running" /\ next # Idle
      BY <1>1, <2>1, <2>2 DEF Lasts
    <3>2. Moves(next, i)
      BY <3>1 DEF Fit, Moves, On, Passive
    <3> QED
      BY <1>0, <2>2, <3>2 DEF Drives
  <2>3. CASE j # i
    <3>1. state[j] = "running" /\ node'[j] = node[j]
      BY <1>1, <2>1, <2>3
    <3>2. WaitsFor(j) => WaitsFor(j)'
      BY <3>1 DEF WaitsFor
    <3>3. ASSUME NEW l \in Calls, Drives(call[l], j, store) PROVE Drives(call'[l], j, store')
      <4>1. l # k
        BY <2>3, <3>3 DEF Alone, Drives, Moves
      <4> QED
        BY <1>0, <3>3, <4>1
    <3> QED
      BY <3>1, <3>2, <3>3 DEF Going, Tended
  <2> QED
    BY <2>2, <2>3
<1> QED
  BY <1>2, <1>3 DEF Going

\* A call takes a step, no instance moves, and who was tended still is.
LEMMA GoingStill ==
  ASSUME FlowShape, NEW rank, Going(rank), NEW k \in Calls, NEW next,
         call' = [call EXCEPT ![k] = next], UNCHANGED <<state, node>>, Grown(store, store'),
         next.step = "round" => Kind[next.node] \in Waiting,
         next.step \in {"create", "created"} => next.iter + rank[node[next.inst]] <= MaxIter,
         \A j \in Instances : state[j] = "running" /\ (Drives(call[k], j, store) \/ WaitsFor(j)) =>
           Drives(next, j, store') \/ WaitsFor(j)'
  PROVE  Going(rank)'
<1>0. \A l \in Calls : call'[l] = IF l = k THEN next ELSE call[l]
  BY DEF FlowShape
<1>1. Enough(rank)'
  <2>1. ASSUME NEW l \in Calls
        PROVE  /\ Moves(call'[l], call'[l].inst) /\ call'[l].step = "round" /\ state'[call'[l].inst] = "running" =>
                    /\ call'[l].iter + rank[node'[call'[l].inst]] < MaxIter
                    /\ node'[call'[l].inst] # call'[l].node
               /\ call'[l].step \in {"create", "created"} =>
                    call'[l].iter + rank[node'[call'[l].inst]] <= MaxIter
    <3>1. CASE l = k
      BY <1>0, <3>1 DEF Moves, Passive
    <3>2. CASE l # k
      BY <1>0, <3>2 DEF Going, Enough
    <3> QED
      BY <3>1, <3>2
  <2> QED
    BY <2>1 DEF Enough
<1>2. Tended'
  <2>1. SUFFICES ASSUME NEW j \in Instances, state'[j] = "running"
                 PROVE  (\E l \in Calls : Drives(call'[l], j, store')) \/ WaitsFor(j)'
    BY DEF Tended
  <2>2. state[j] = "running"
    BY <2>1
  <2>3. CASE WaitsFor(j) \/ Drives(call[k], j, store)
    BY <1>0, <2>2, <2>3
  <2>4. ASSUME NEW l \in Calls, l # k, Drives(call[l], j, store) PROVE Drives(call'[l], j, store')
    <3>1. call'[l] = call[l]
      BY <1>0, <2>4
    <3>2. Wins(call[l], j, store) => Wins(call[l], j, store')
      BY VerdictFacts DEF Wins, Grown, Acting
    <3> QED
      BY <2>4, <3>1, <3>2 DEF Drives
  <2> QED
    BY <2>2, <2>3, <2>4 DEF Going, Tended
<1> QED
  BY <1>1, <1>2 DEF Going

LEMMA GoingAdvance ==
  ASSUME FlowShape, Queue, LeadsOn, NEW rank, Layered(rank), Going(rank), NEW k \in Calls,
         Resumed(k) \/ call[k].step \notin Settled, NEW i \in Instances, Alone(k, i),
         NEW s \in {"running", "completed"}, NEW n \in Nodes, NEW iter \in 0..MaxIter,
         Advances(k, i, s, n, iter), s = "completed" <=> Kind[n] = "end",
         s = "running" => iter + rank[n] < MaxIter,
         UNCHANGED store, \A j \in Instances : DOMAIN listed'[j] = DOMAIN listed[j]
  PROVE  Going(rank)'
<1>1. PICK p, next : Ran(i, context[i], s, n, iter, p, next) /\ SetPlace(i, p) /\ Goto(k, next)
  BY DEF Advances
<1>2. context[i] \in Contexts /\ call \in [Calls -> CallShapes]
  BY DEF FlowShape
<1>3. Lasts(rank, p, next)
  BY <1>1, <1>2, RanLasts
<1>4. Fit(i, p, next)
  BY <1>1, <1>2, RanFits
<1>5. call' = [call EXCEPT ![k] = next]
  BY <1>1 DEF Goto
<1> QED
  BY <1>1, <1>3, <1>4, <1>5, GoingMoved


\* The continuation with a created task.
LEMMA GoingCreated ==
  ASSUME FlowShape, Queue, Lists, Drivers, LeadsOn, NEW rank, Layered(rank), Going(rank),
         NEW k \in Calls, Created(k)
  PROVE  Going(rank)'
<1> DEFINE c == call[k]
<1>0. PICK i \in Instances, n \in Nodes : c.inst = i /\ c.node = n
  BY CreatedFacts
<1>1. /\ Resumed(k) /\ c.step = "created" /\ i \in Instances /\ n \in Nodes
      /\ c.iter \in 0..MaxIter /\ UNCHANGED store
      /\ c.task \in 1..Len(store) /\ store[c.task].inst = i
      /\ ListsTask(k) \/ NextBranch(k) \/ LeavesFork(k)
  BY <1>0, CreatedFacts
<1>2. state[i] = "running" /\ node[i] = n
  BY <1>0, <1>1 DEF Drivers, Standing
<1>3. Drives(c, i, store) /\ \A j \in Instances : Drives(c, j, store) => j = i
  BY <1>0, <1>1 DEF Drives, Moves, On, Passive, Wins
<1>4. c.iter + rank[n] <= MaxIter
  BY <1>0, <1>1, <1>2 DEF Going, Enough
<1>5. /\ rank \in [Nodes -> 0..(MaxIter - 1)] /\ MaxIter \in Nat /\ c.iter \in Nat
      /\ \A m \in Nodes : rank[m] \in Nat
  BY <1>1, BoundsAssumption DEF Layered
<1>6. Grown(store, store')
  BY <1>1, TaskFacts
<1>7. CASE ListsTask(k)
  <2> DEFINE next == Round(i, n, c.iter)
  <2>1. /\ Kind[n] \in Waiting /\ Goto(k, next) /\ UNCHANGED <<state, node>>
        /\ listed' = [listed EXCEPT ![i] = Put(listed[i], c.task, "pending")]
    BY <1>0, <1>7 DEF ListsTask
  <2>2. next.step = "round" /\ next.node = n /\ call' = [call EXCEPT ![k] = next]
    BY <2>1 DEF Round, Goto
  <2>3. /\ \A j \in Instances : j # i => listed'[j] = listed[j]
        /\ DOMAIN listed'[i] = DOMAIN listed[i] \cup {c.task}
    BY <1>1, <2>1, PutFacts
  <2>4. store[c.task].node = n /\ store[c.task].status # "completed"
    BY <1>0, <1>1, <2>1 DEF Drivers, Targets, Lists
  <2>5. WaitsFor(i)'
    BY <1>1, <1>2, <2>1, <2>3, <2>4 DEF WaitsFor
  <2>6. ASSUME NEW j \in Instances, j # i, WaitsFor(j) PROVE WaitsFor(j)'
    <3>1. node'[j] = node[j] /\ store' = store
      BY <1>1, <2>1
    <3>2. listed'[j] = listed[j]
      BY <2>3, <2>6
    <3> QED
      BY <2>6, <3>1, <3>2 DEF WaitsFor
  <2>7. ASSUME NEW j \in Instances, Drives(c, j, store) \/ WaitsFor(j) PROVE WaitsFor(j)'
    BY <1>3, <2>5, <2>6, <2>7
  <2>8. UNCHANGED <<state, node>> /\ next.step \notin {"create", "created"}
    BY <2>1, <2>2
  <2> HIDE DEF next
  <2> QED
    BY <1>6, <2>1, <2>2, <2>7, <2>8, GoingStill
<1>8. CASE NextBranch(k)
  <2>1. /\ Kind[n] = "parallel" /\ UNCHANGED <<state, node, listed>>
        /\ \E target \in Nodes, at \in Nat : Goto(k, Creating(i, n, c.iter, target, at))
    BY <1>0, <1>8 DEF NextBranch
  <2>2. PICK target \in Nodes, at \in Nat : Goto(k, Creating(i, n, c.iter, target, at))
    BY <2>1
  <2> DEFINE next == Creating(i, n, c.iter, target, at)
  <2>3. next.step = "create" /\ next.inst = i /\ next.iter = c.iter /\ call' = [call EXCEPT ![k] = next]
    BY <2>2 DEF Creating, Goto
  <2> HIDE DEF next
  <2>4. Drives(next, i, store')
    BY <2>3 DEF Drives, Moves, On, Passive
  <2>5. \A j \in Instances : WaitsFor(j) => WaitsFor(j)'
    BY <1>1, <2>1 DEF WaitsFor
  <2>6. \A j \in Instances : state[j] = "running" /\ (Drives(call[k], j, store) \/ WaitsFor(j)) =>
           Drives(next, j, store') \/ WaitsFor(j)'
    BY <1>3, <2>4, <2>5
  <2>7. next.iter + rank[node[next.inst]] <= MaxIter
    BY <1>2, <1>4, <2>3
  <2> QED
    BY <1>6, <2>1, <2>3, <2>6, <2>7, GoingStill
<1>9. CASE LeavesFork(k)
  <2>1. Kind[n] = "parallel" /\ UNCHANGED listed
    BY <1>0, <1>9 DEF LeavesFork
  <2>2. Kind[n] \notin Waiting \cup {"end"} /\ HasDefault(n) /\ Default(n) \in Nodes
    BY <1>1, <2>1 DEF Waiting, LeadsOn
  <2>3. SetPlace(i, Arrive(Place(i), Default(n))) /\ Goto(k, Round(i, n, c.iter))
    BY <1>0, <1>9, <2>2 DEF LeavesFork
  <2>4. Alone(k, i)
    BY <1>1, <1>3, DriverIsAlone
  <2> DEFINE p == Arrive(Place(i), Default(n))
             next == Round(i, n, c.iter)
  <2>5. p = [state |-> IF Kind[Default(n)] = "end" THEN "completed" ELSE "running", node |-> Default(n)]
    BY <1>2 DEF Arrive, Place
  <2>6. p \in Places /\ p.state \in {"running", "completed"} /\ (p.state = "completed" <=> Kind[p.node] = "end")
        /\ p.node = Default(n)
    BY <2>2, <2>5 DEF Places
  <2>7. next.step = "round" /\ next.inst = i /\ next.node = n /\ next.iter = c.iter /\ next # Idle
        /\ call' = [call EXCEPT ![k] = next]
    BY <2>3 DEF Round, Idle, Goto
  <2>8. rank[Default(n)] < rank[n]
    BY <1>1, <2>2 DEF Layered
  <2>9. c.iter + rank[Default(n)] < MaxIter /\ Default(n) # n
    BY <1>1, <1>4, <1>5, <2>2, <2>8
  <2> HIDE DEF p, next, c
  <2>10. Fit(i, p, next) /\ Lasts(rank, p, next)
    BY <2>2, <2>6, <2>7, <2>9 DEF Fit, Lasts
  <2> QED
    BY <1>1, <2>1, <2>3, <2>4, <2>7, <2>10, GoingMoved DEF p
<1> QED
  BY <1>1, <1>7, <1>8, <1>9

\* The store takes a verdict: "completed" makes the call drive the instance,
\* with "rejected" its task stays what the instance waits for.
LEMMA GoingDecided ==
  ASSUME FlowShape, NEW rank, Going(rank), NEW k \in Calls, StoreDecides(k)
  PROVE  Going(rank)'
<1> DEFINE t == call[k].task
           next == [call[k] EXCEPT !.step = "decided"]
<1>1. /\ call[k].step = "decide" /\ t \in 1..Len(store) /\ UNCHANGED <<state, node, listed>>
  BY StoreDecidesFacts DEF StoreDecides
<1>2. \A j \in Instances : ~Drives(call[k], j, store)
  BY <1>1 DEF Drives, Moves, On, Wins
<1>3. CASE store[t].status \notin Open
  <2>1. Finish(k) /\ UNCHANGED store
    BY <1>3, StoreDecidesFacts
  <2>2. \A j \in Instances : WaitsFor(j) => WaitsFor(j)'
    BY <1>1, <2>1 DEF WaitsFor
  <2>3. call' = [call EXCEPT ![k] = Idle] /\ Idle.step = "idle" /\ Grown(store, store')
    BY <2>1, TaskFacts DEF Finish, Goto, Idle
  <2> QED
    BY <1>1, <1>2, <2>2, <2>3, GoingStill
<1>4. CASE store[t].status \in Open
  <2>1. /\ Goto(k, next) /\ next.step = "decided" /\ next.task = t
        /\ next.verdict = call[k].verdict /\ next.verdict \in {"completed", "rejected"}
        /\ Grown(store, store') /\ \A u \in 1..Len(store) : u # t => store'[u] = store[u]
        /\ store'[t].status = next.verdict
    BY <1>4, StoreDecidesFacts
  <2>2. call' = [call EXCEPT ![k] = next]
    BY <2>1 DEF Goto
  <2> HIDE DEF next, t
  <2>3. ASSUME NEW j \in Instances, WaitsFor(j) PROVE Drives(next, j, store') \/ WaitsFor(j)'
    <3>1. PICK u \in DOMAIN listed[j] : store[u].node = node[j] /\ store[u].status # "completed"
      BY <2>3 DEF WaitsFor
    <3>2. u \in 1..Len(store) /\ store[u].inst = j
      BY <3>1 DEF FlowShape
    <3>3. store'[u].node = node[j] /\ store'[u].inst = j
      BY <2>1, <3>1, <3>2 DEF Grown
    <3>4. CASE store'[u].status # "completed"
      BY <1>1, <2>3, <3>1, <3>3, <3>4 DEF WaitsFor
    <3>5. CASE store'[u].status = "completed"
      <4>1. u = t /\ next.verdict = "completed"
        BY <2>1, <3>1, <3>2, <3>5
      <4> QED
        BY <2>1, <3>3, <4>1 DEF Drives, Wins
    <3> QED
      BY <3>4, <3>5
  <2> QED
    BY <1>1, <1>2, <2>1, <2>2, <2>3, GoingStill
<1> QED
  BY <1>3, <1>4

LEMMA GoingNext ==
  ASSUME FlowShape, Queue, Lists, Drivers, LeadsOn, NEW rank, Layered(rank),
         faults = 0 => Going(rank), [FlowNext]_flowVars
  PROVE  faults' = 0 => Going(rank)'
<1>0. /\ Grown(store, store) /\ StartNode \in Nodes /\ 0 \in 0..MaxIter
      /\ Idle.step = "idle" /\ Idle.step \notin Settled
      /\ \A n \in Nodes : 0 + rank[n] < MaxIter
  BY TaskFacts, DefinitionAssumption, BoundsAssumption DEF Idle, Settled, Layered
<1>a. ASSUME UNCHANGED listed PROVE \A j \in Instances : DOMAIN listed'[j] = DOMAIN listed[j]
  BY <1>a
<1>b. ASSUME NEW k \in Calls, NEW next, Goto(k, next), UNCHANGED <<state, node, store>>, Going(rank),
             \A j \in Instances : DOMAIN listed'[j] = DOMAIN listed[j],
             next.step \notin {"round", "create", "created"},
             \A j \in Instances : state[j] = "running" => ~Drives(call[k], j, store)
      PROVE  Going(rank)'
  <2>1. \A j \in Instances : WaitsFor(j) => WaitsFor(j)'
    BY <1>b DEF WaitsFor
  <2>2. call' = [call EXCEPT ![k] = next] /\ Grown(store, store')
    BY <1>0, <1>b DEF Goto
  <2> QED
    BY <1>b, <2>1, <2>2, GoingStill
<1>1. ASSUME NEW k \in Calls, NEW i \in Instances, Start(k, i), Going(rank) PROVE Going(rank)'
  <2>1. /\ call[k] = Idle /\ state[i] = "none" /\ Advances(k, i, "running", StartNode, 0)
        /\ UNCHANGED <<listed, store>>
    BY <1>1, StartFacts
  <2>2. Alone(k, i)
    BY <2>1, FreshIsAlone
  <2>3. Kind[StartNode] # "end"
    BY DefinitionAssumption
  <2> QED
    BY <1>0, <1>1, <1>a, <2>1, <2>2, <2>3, GoingAdvance
<1>2. ASSUME NEW k \in Calls, NextRound(k), Going(rank) PROVE Going(rank)'
  <2> DEFINE i == call[k].inst
  <2>1. /\ Resumed(k) /\ call[k].step = "round" /\ i \in Instances /\ call[k].iter \in 0..MaxIter
        /\ UNCHANGED <<listed, store>>
    BY <1>2, NextRoundFacts
  <2>2. CASE Finish(k) /\ UNCHANGED <<state, node>> /\ (state[i] # "running" \/ node[i] = call[k].node)
    <3>1. \A j \in Instances : state[j] = "running" => ~Drives(call[k], j, store)
      BY <1>2, <2>1, <2>2 DEF Going, Enough, Drives, Moves, On, Wins
    <3> QED
      BY <1>0, <1>2, <1>a, <1>b, <2>1, <2>2, <3>1 DEF Finish
  <2>3. CASE /\ state[i] = "running" /\ node[i] # call[k].node
             /\ Advances(k, i, state[i], node[i], call[k].iter)
    <3>1. ~Passive(call[k])
      BY <2>3 DEF Drivers, PassiveFirst
    <3>2. Moves(call[k], i) /\ Drives(call[k], i, store)
      BY <2>1, <3>1 DEF Drives, Moves, On
    <3>3. Alone(k, i)
      BY <2>1, <3>2, DriverIsAlone
    <3>4. node[i] \in Nodes /\ Kind[node[i]] # "end"
      BY <2>1, <2>3 DEF Drivers, Standing, FlowShape
    <3>5. call[k].iter + rank[node[i]] < MaxIter
      BY <1>2, <2>1, <2>3, <3>2 DEF Going, Enough
    <3> QED
      BY <1>2, <1>a, <2>1, <2>3, <3>3, <3>4, <3>5, GoingAdvance
  <2> QED
    BY <1>2, <2>2, <2>3, NextRoundFacts
<1>3. ASSUME NEW k \in Calls, StoreCreates(k), Going(rank) PROVE Going(rank)'
  <2> DEFINE c == call[k]
             next == [step |-> "created", inst |-> c.inst, node |-> c.node, iter |-> c.iter,
                      at |-> c.at, task |-> Len(store) + 1]
  <2>1. /\ c.step = "create" /\ c.inst \in Instances /\ c.target \in Nodes
        /\ AddTask(c.inst, c.target) /\ Goto(k, next) /\ UNCHANGED <<state, node, listed>>
    BY <1>3, StoreCreatesFacts
  <2>2. Grown(store, store') /\ \A u \in 1..Len(store) : store'[u] = store[u]
    BY <2>1, AddFacts
  <2>3. next.step = "created" /\ next.inst = c.inst /\ next.iter = c.iter
    OBVIOUS
  <2> HIDE DEF next
  <2>4. call' = [call EXCEPT ![k] = next]
    BY <2>1 DEF Goto
  <2>5. \A j \in Instances : Drives(c, j, store) => Drives(next, j, store')
    BY <2>1, <2>3 DEF Drives, Moves, On, Passive, Wins
  <2>6. \A j \in Instances : WaitsFor(j) => WaitsFor(j)'
    BY <2>1, <2>2 DEF WaitsFor, FlowShape
  <2>7. next.iter + rank[node[next.inst]] <= MaxIter
    BY <1>3, <2>1, <2>3 DEF Going, Enough
  <2> QED
    BY <1>3, <2>1, <2>2, <2>3, <2>4, <2>5, <2>6, <2>7, GoingStill
<1>4. ASSUME NEW k \in Calls, Created(k), Going(rank) PROVE Going(rank)'
  BY <1>4, GoingCreated
<1>5. ASSUME NEW k \in Calls, NEW t \in Tasks, NEW v \in {"completed", "rejected"}, Decide(k, t, v), Going(rank)
      PROVE  Going(rank)'
  <2> DEFINE next == [step |-> "decide", task |-> t, verdict |-> v]
  <2>1. call[k] = Idle /\ Goto(k, next) /\ UNCHANGED <<state, node, listed, store>>
    BY <1>5, DecideFacts
  <2>2. next.step = "decide" /\ \A j \in Instances : ~Drives(call[k], j, store)
    BY <2>1 DEF Idle, Drives, Moves, On, Wins
  <2> HIDE DEF next
  <2> QED
    BY <1>5, <1>a, <1>b, <2>1, <2>2
<1>6. ASSUME NEW k \in Calls, StoreDecides(k), Going(rank) PROVE Going(rank)'
  BY <1>6, GoingDecided
<1>7. ASSUME NEW k \in Calls, Completed(k), Going(rank) PROVE Going(rank)'
  <2> DEFINE t == call[k].task
             i == store[t].inst
             n == node[i]
  <2>1. /\ Resumed(k) /\ call[k].step = "decided" /\ call[k].verdict = "completed"
        /\ t \in 1..Len(store) /\ i \in Instances /\ Relist(i, t, "completed") /\ UNCHANGED store
    BY <1>7, CompletedFacts
  <2>2. Wins(call[k], i, store)
    BY <2>1 DEF Wins
  <2>3. Alone(k, i)
    BY <2>1, <2>2, DriverIsAlone DEF Drives
  <2>4. state[i] = "running" /\ Kind[n] # "end" /\ n \in Nodes
    BY <2>1, <2>2 DEF Drivers, Standing, Waiting, FlowShape
  <2>5. HasDefault(n) /\ Default(n) \in Nodes
    BY <2>4 DEF LeadsOn
  <2>6. Advances(k, i, IF Kind[Default(n)] = "end" THEN "completed" ELSE state[i], Default(n), 0)
    BY <1>7, <2>5, CompletedFacts
  <2>7. "completed" \in Statuses
    BY DEF Statuses
  <2>8. \A j \in Instances : DOMAIN listed'[j] = DOMAIN listed[j]
    BY <2>1, <2>7, RelistFacts
  <2> DEFINE s == IF Kind[Default(n)] = "end" THEN "completed" ELSE state[i]
             m == Default(n)
  <2>9. s \in {"running", "completed"} /\ (s = "completed" <=> Kind[m] = "end")
    BY <2>4
  <2>10. m \in Nodes /\ Advances(k, i, s, m, 0) /\ 0 + rank[m] < MaxIter
    BY <1>0, <2>5, <2>6
  <2> HIDE DEF i, n, s, m
  <2> QED
    BY <1>0, <1>7, <2>1, <2>3, <2>8, <2>9, <2>10, GoingAdvance
<1>8. ASSUME NEW k \in Calls, RejectedReads(k) \/ StoreReads(k), Going(rank) PROVE Going(rank)'
  <2>1. PICK next \in CallShapes :
           /\ next.step \in {"reading", "read"} /\ Goto(k, next) /\ call[k].step \in Carrying
           /\ call[k].step = "decided" => call[k].verdict = "rejected"
    BY <1>8, RereadFacts
  <2>2. UNCHANGED <<state, node, listed, store>>
    BY <1>8 DEF RejectedReads, StoreReads
  <2>3. \A j \in Instances : ~Drives(call[k], j, store)
    BY <2>1 DEF Carrying, Drives, Moves, On, Wins
  <2> QED
    BY <1>8, <1>a, <1>b, <2>1, <2>2, <2>3
<1>9. ASSUME NEW k \in Calls, Rejected(k), Going(rank) PROVE Going(rank)'
  <2>1. /\ call[k].step = "read" /\ Finish(k) /\ UNCHANGED <<state, node, store>>
        /\ \A j \in Instances : DOMAIN listed'[j] = DOMAIN listed[j]
    BY <1>9, RejectedFacts, RelistFacts
  <2>2. \A j \in Instances : ~Drives(call[k], j, store)
    BY <2>1 DEF Drives, Moves, On, Wins
  <2> QED
    BY <1>0, <1>9, <1>b, <2>1, <2>2 DEF Finish
<1>10. ASSUME NEW k \in Calls, StoreFails(k) PROVE faults' # 0
  BY <1>10, StoreFailsFacts
<1>11. ASSUME NEW t \in Tasks, StartTask(t) \/ CancelTask(t), Going(rank) PROVE Going(rank)'
  <2>1. /\ UNCHANGED <<state, node, listed, call>> /\ Grown(store, store')
        /\ t \in 1..Len(store) /\ store'[t].status \in {"in_progress", "cancelled"}
        /\ \A u \in 1..Len(store) : u # t => store'[u] = store[u]
    BY <1>11, UserFacts
  <2>2. Enough(rank)'
    BY <1>11, <2>1 DEF Going, Enough
  <2>3. \A j \in Instances, l \in Calls : Drives(call[l], j, store) => Drives(call'[l], j, store')
    BY <2>1, VerdictFacts DEF Drives, Wins, Grown, Acting
  <2>4. ASSUME NEW j \in Instances, WaitsFor(j) PROVE WaitsFor(j)'
    <3>1. PICK u \in DOMAIN listed[j] : store[u].node = node[j] /\ store[u].status # "completed"
      BY <2>4 DEF WaitsFor
    <3>2. u \in 1..Len(store) /\ store'[u].node = node[j] /\ store'[u].status # "completed"
      BY <2>1, <3>1 DEF FlowShape, Grown
    <3> QED
      BY <2>1, <2>4, <3>1, <3>2 DEF WaitsFor
  <2> QED
    BY <1>11, <2>1, <2>2, <2>3, <2>4 DEF Going, Tended
<1>12. CASE UNCHANGED flowVars
  BY <1>12 DEF flowVars, Going, Enough, Tended, WaitsFor
<1>13. ASSUME NEW k \in Calls, NextRound(k) \/ StoreCreates(k) \/ Created(k) \/ StoreDecides(k)
               \/ Completed(k) \/ RejectedReads(k) \/ StoreReads(k) \/ Rejected(k)
       PROVE  faults' = faults
  BY <1>13 DEF NextRound, StoreCreates, Created, StoreDecides, Completed, RejectedReads, StoreReads, Rejected
<1>14. ASSUME Actors PROVE faults' = faults
  BY <1>14 DEF Actors, Start, Decide, StartTask, CancelTask
<1>15. CASE Actors
  BY <1>1, <1>5, <1>11, <1>14, <1>15 DEF Actors
<1>16. ASSUME NEW k \in Calls, Continue(k) PROVE faults' = 0 => Going(rank)'
  BY <1>2, <1>3, <1>4, <1>6, <1>7, <1>8, <1>9, <1>13, <1>16 DEF Continue
<1> QED
  BY <1>10, <1>12, <1>15, <1>16 DEF FlowNext


-----------------------------------------------------------------------------
(* What becomes of tasks.                                                  *)

\* At most one listed task of an instance is open.
LEMMA DriversMeant ==
  ASSUME FlowShape, Drivers
  PROVE  \A i \in Instances : Cardinality(OpenTasks(i) \cap DOMAIN listed[i]) <= 1
<1> SUFFICES ASSUME NEW i \in Instances
             PROVE  Cardinality(OpenTasks(i) \cap DOMAIN listed[i]) <= 1
  OBVIOUS
<1> DEFINE S == OpenTasks(i) \cap DOMAIN listed[i]
<1>1. \A t, u \in S : t = u
  BY DEF Drivers, OneDriver, OpenTasks
<1>2. S = {} \/ \E t \in S : S = {t}
  BY <1>1
<1> HIDE DEF S
<1>3. Cardinality(S) = 0 \/ Cardinality(S) = 1
  BY <1>2, FS_EmptySet, FS_Singleton
<1>4. Cardinality(S) <= 1
  BY <1>3
<1> QED
  BY <1>4 DEF S

\* The layers of the invariant that hold for every workflow definition.
Sound ==
  /\ FlowShape /\ Queue /\ Verdicts
  /\ ~Worklist => Lists /\ Copied /\ Drivers

LEMMA SoundInit == FlowInit => Sound
BY FlowShapeInit, VerdictsInit, ListsInit, DriversInit DEF Sound

LEMMA SoundNext == Sound /\ [FlowNext]_flowVars => Sound'
<1> SUFFICES ASSUME Sound, [FlowNext]_flowVars PROVE Sound'
  OBVIOUS
<1>1. FlowShape' /\ Queue' /\ Verdicts'
  BY FlowShapeNext, VerdictsNext DEF Sound
<1>2. ASSUME ~Worklist PROVE Lists' /\ Copied' /\ Drivers'
  BY <1>2, ListsNext, DriversNext DEF Sound
<1> QED
  BY <1>1, <1>2 DEF Sound

\* With nothing in flight there is nothing that carries a verdict or drives an
\* instance.
LEMMA QuietFacts ==
  ASSUME Quiet
  PROVE  \A k \in Calls :
           /\ call[k].step \notin Carrying
           /\ \A i \in Instances : ~Drives(call[k], i, store)
BY DEF Quiet, Active, Carrying, Drives, Moves, On, Wins

LEMMA SoundMeant == Sound => OneVerdict /\ OneOpenTask /\ VerdictReachesCopy
<1> SUFFICES ASSUME Sound PROVE OneVerdict /\ OneOpenTask /\ VerdictReachesCopy
  OBVIOUS
<1>1. OneVerdict
  BY VerdictsMeant DEF Sound
<1>2. OneOpenTask
  BY DriversMeant DEF Sound, OneOpenTask
<1>3. VerdictReachesCopy
  BY QuietFacts DEF Sound, Copied, Copies, VerdictReachesCopy
<1> QED
  BY <1>1, <1>2, <1>3

\* However many users act at once, in whatever order the promises of the store
\* settle and whichever of its calls fail: a task has one verdict, an instance
\* waits at one place, and with nothing in flight each listed copy has the
\* verdict of the store.
THEOREM VerdictsAreKept == FlowSpec => [](OneVerdict /\ OneOpenTask /\ VerdictReachesCopy)
<1>1. FlowInit => Sound
  BY SoundInit
<1>2. Sound /\ [FlowNext]_flowVars => Sound'
  BY SoundNext
<1>3. Sound => OneVerdict /\ OneOpenTask /\ VerdictReachesCopy
  BY SoundMeant
<1> QED
  BY <1>1, <1>2, <1>3, PTL DEF FlowSpec

LEMMA GoingInit ==
  ASSUME NEW rank
  PROVE  FlowInit => Going(rank)
<1> SUFFICES ASSUME FlowInit PROVE Going(rank)
  OBVIOUS
<1>1. \A k \in Calls : call[k].step = "idle"
  BY DEF FlowInit, Idle
<1>2. \A i \in Instances : state[i] = "none"
  BY DEF FlowInit
<1> QED
  BY <1>1, <1>2 DEF Going, Enough, Tended

\* In a workflow whose nodes lead on, and where fewer nodes lie between two
\* waiting ones than advance() has rounds, no completion is swallowed either:
\* with nothing in flight a running instance waits for somebody at its node.
THEOREM TasksAreSoundEver ==
  ASSUME LeadsOn, NEW rank, Layered(rank)
  PROVE  FlowSpec => []TasksAreSound
<1> DEFINE Inv == Sound /\ (~Worklist => (faults = 0 => Going(rank)))
<1>1. FlowInit => Inv
  BY SoundInit, GoingInit
<1>2. Inv /\ [FlowNext]_flowVars => Inv'
  <2> SUFFICES ASSUME Inv, [FlowNext]_flowVars PROVE Inv'
    OBVIOUS
  <2>1. Sound'
    BY SoundNext
  <2>2. ASSUME ~Worklist PROVE faults' = 0 => Going(rank)'
    BY <2>2, GoingNext DEF Sound
  <2> QED
    BY <2>1, <2>2
<1>3. Inv => TasksAreSound
  <2> SUFFICES ASSUME Inv PROVE TasksAreSound
    OBVIOUS
  <2>1. RunningWaits
    BY QuietFacts DEF RunningWaits, Going, Tended
  <2> QED
    BY <2>1, SoundMeant DEF TasksAreSound
<1> QED
  BY <1>1, <1>2, <1>3, PTL DEF FlowSpec

-----------------------------------------------------------------------------
(* The engine implements the walk.                                         *)

Edge(n, m) == n \in Nodes /\ \E j \in 1..Len(Out[n]) : m = Out[n][j]

LEMMA HopFacts ==
  ASSUME NEW n, NEW m
  PROVE  /\ n \in Walk!Hop(n)
         /\ Edge(n, m) => m \in Walk!Hop(n)
         /\ \A q : Edge(n, m) /\ Kind[m] # "end" /\ Edge(m, q) => q \in Walk!Hop(n)
<1> DEFINE edges == UNION {{<<x, Out[x][j]>> : j \in 1..Len(Out[x])} : x \in Nodes}
           after(x) == {e[2] : e \in {y \in edges : y[1] = x}}
           ends == {x \in Nodes : Kind[x] = "end"}
<1>1. \A x, y : Edge(x, y) => <<x, y>> \in edges
  BY DEF Edge
<1> HIDE DEF edges
<1>2. \A x, y : Edge(x, y) => y \in after(x)
  <2> SUFFICES ASSUME NEW x, NEW y, Edge(x, y) PROVE y \in after(x)
    OBVIOUS
  <2>1. <<x, y>> \in {e \in edges : e[1] = x} /\ <<x, y>>[2] = y
    BY <1>1
  <2> QED
    BY <2>1
<1>3. Walk!Hop(n) = {n} \cup after(n) \cup UNION {after(x) : x \in after(n) \ ends}
  BY DEF Walk!Hop, edges
<1> HIDE DEF after
<1>4. \A q : Edge(n, m) /\ Kind[m] # "end" /\ Edge(m, q) => m \in after(n) \ ends /\ q \in after(m)
  BY <1>2
<1> QED
  BY <1>2, <1>3, <1>4

LEMMA LeadsEdge ==
  ASSUME MatchesLeave, NEW c \in Contexts, NEW n \in Nodes, NEW m, Leads(c, n, m)
  PROVE  Edge(n, m)
<1>1. CASE HasDefault(n) /\ m = Default(n)
  <2>1. Len(Out[n]) \in Nat /\ Len(Out[n]) > 0
    BY <1>1, OutFacts
  <2>2. 1 \in 1..Len(Out[n]) /\ m = Out[n][1]
    BY <1>1, <2>1 DEF Default
  <2> QED
    BY <2>2 DEF Edge
<1>2. CASE Kind[n] = "condition" /\ m = Match[c][n]
  BY <1>2 DEF MatchesLeave, Edge, Leads
<1> QED
  BY <1>1, <1>2 DEF Leads

\* A round of advance() follows one transition at most.
LEMMA RanWalks ==
  ASSUME MatchesLeave, NEW i \in Instances, NEW c \in Contexts, NEW s \in {"running", "completed"},
         NEW n \in Nodes, NEW iter \in 0..MaxIter, NEW p, NEW next, Ran(i, c, s, n, iter, p, next),
         s = "completed" <=> Kind[n] = "end"
  PROVE  p.node = n \/ (Kind[n] # "end" /\ Edge(n, p.node))
<1>1. CASE GoesOn(i, c, s, n, iter, p, next)
  <2>1. PICK m \in Nodes : Leads(c, n, m) /\ p = Arrive([state |-> s, node |-> n], m)
    BY <1>1 DEF GoesOn
  <2>2. p.node = m /\ Kind[n] # "end"
    BY <1>1, <2>1 DEF GoesOn, Arrive
  <2> QED
    BY <2>1, <2>2, LeadsEdge
<1>2. CASE ~GoesOn(i, c, s, n, iter, p, next)
  BY <1>2 DEF Ran, Stops, Stays, GivesTask
<1> QED
  BY <1>1, <1>2

\* A step of the walk.
LEMMA Walks ==
  ASSUME FlowShape, NEW i \in Instances, state[i] \in {"none", "running"}, NEW p \in Places,
         p.state \in {"running", "completed"}, p.state = "completed" <=> Kind[p.node] = "end",
         p.node \in Walk!Hop(node[i]), SetPlace(i, p)
  PROVE  Walk!Next
<1>1. p.node \in Nodes
  BY DEF Places
<1>2. p.state = IF p.node \in {n \in Nodes : Kind[n] = "end"} THEN "completed" ELSE "running"
  BY <1>1
<1>3. node' = [node EXCEPT ![i] = p.node] /\ state' = [state EXCEPT ![i] = p.state]
  BY DEF SetPlace
<1>4. Walk!Walk(i)
  BY <1>2, <1>3 DEF Walk!Walk
<1> QED
  BY <1>4 DEF Walk!Next

LEMMA AdvanceWalks ==
  ASSUME MatchesLeave, FlowShape, NEW k \in Calls, NEW i \in Instances, state[i] \in {"none", "running"},
         NEW s \in {"running", "completed"}, NEW n \in Nodes, NEW iter \in 0..MaxIter,
         Advances(k, i, s, n, iter), s = "completed" <=> Kind[n] = "end",
         n = node[i] \/ Edge(node[i], n)
  PROVE  Walk!Next
<1>1. PICK p, next : Ran(i, context[i], s, n, iter, p, next) /\ SetPlace(i, p)
  BY DEF Advances
<1>2. context[i] \in Contexts
  BY DEF FlowShape
<1>3. p.node = n \/ (Kind[n] # "end" /\ Edge(n, p.node))
  BY <1>1, <1>2, RanWalks
<1>4. p.node \in Walk!Hop(node[i])
  BY <1>3, HopFacts
<1>5. p \in Places /\ p.state \in {"running", "completed"} /\ (p.state = "completed" <=> Kind[p.node] = "end")
  BY <1>1, <1>2, RanFits DEF Fit
<1> QED
  BY <1>1, <1>4, <1>5, Walks

LEMMA WalkNext ==
  ASSUME MatchesLeave, FlowShape, Queue, Drivers, [FlowNext]_flowVars
  PROVE  Walk!Next \/ UNCHANGED <<state, node>>
<1>0. StartNode \in Nodes /\ Kind[StartNode] # "end" /\ 0 \in 0..MaxIter
  BY DefinitionAssumption, BoundsAssumption
<1>1. ASSUME NEW k \in Calls, NEW i \in Instances, Start(k, i) PROVE Walk!Next
  <2>1. state[i] = "none" /\ Advances(k, i, "running", StartNode, 0)
    BY <1>1, StartFacts
  <2>2. node[i] = StartNode
    BY <2>1 DEF Drivers, Standing
  <2> QED
    BY <1>0, <2>1, <2>2, AdvanceWalks
<1>2. ASSUME NEW k \in Calls, NextRound(k) PROVE Walk!Next \/ UNCHANGED <<state, node>>
  <2> DEFINE i == call[k].inst
  <2>1. i \in Instances /\ call[k].iter \in 0..MaxIter
    BY <1>2, NextRoundFacts
  <2>2. CASE state[i] = "running" /\ Advances(k, i, state[i], node[i], call[k].iter)
    <3>1. node[i] \in Nodes /\ Kind[node[i]] # "end"
      BY <2>1, <2>2 DEF Drivers, Standing, FlowShape
    <3> QED
      BY <2>1, <2>2, <3>1, AdvanceWalks
  <2> QED
    BY <1>2, <2>2, NextRoundFacts
<1>3. ASSUME NEW k \in Calls, Created(k) PROVE Walk!Next \/ UNCHANGED <<state, node>>
  <2> DEFINE i == call[k].inst
             n == call[k].node
  <2>1. /\ call[k].step = "created" /\ i \in Instances /\ n \in Nodes
        /\ ListsTask(k) \/ NextBranch(k) \/ LeavesFork(k)
    BY <1>3, CreatedFacts
  <2>2. state[i] = "running" /\ node[i] = n
    BY <2>1 DEF Drivers, Standing
  <2>3. CASE SetPlace(i, Place(i))
    BY <2>1, <2>3 DEF SetPlace, Place, FlowShape
  <2>4. CASE HasDefault(n) /\ Default(n) \in Nodes /\ SetPlace(i, Arrive(Place(i), Default(n)))
    <3> DEFINE p == Arrive(Place(i), Default(n))
    <3>1. p = [state |-> IF Kind[Default(n)] = "end" THEN "completed" ELSE "running", node |-> Default(n)]
      BY <2>2 DEF Arrive, Place
    <3>2. p \in Places /\ p.state \in {"running", "completed"} /\ (p.state = "completed" <=> Kind[p.node] = "end")
          /\ p.node = Default(n)
      BY <2>4, <3>1 DEF Places
    <3>3. Len(Out[n]) \in Nat /\ Len(Out[n]) > 0
      BY <2>1, <2>4, OutFacts
    <3>4. Edge(n, Default(n))
      BY <2>1, <3>3 DEF Edge, Default
    <3>5. p.node \in Walk!Hop(node[i])
      BY <2>2, <3>2, <3>4, HopFacts
    <3> HIDE DEF p, i
    <3> QED
      BY <2>1, <2>2, <2>4, <3>2, <3>5, Walks DEF p
  <2>5. ASSUME ListsTask(k) \/ NextBranch(k) PROVE UNCHANGED <<state, node>>
    BY <2>5 DEF ListsTask, NextBranch
  <2> QED
    BY <2>1, <2>3, <2>4, <2>5 DEF LeavesFork
<1>4. ASSUME NEW k \in Calls, Completed(k) PROVE Walk!Next \/ UNCHANGED <<state, node>>
  <2> DEFINE t == call[k].task
             i == store[t].inst
             n == node[i]
  <2>1. /\ call[k].step = "decided" /\ call[k].verdict = "completed" /\ i \in Instances
        /\ \/ UNCHANGED <<state, node>>
           \/ ~HasDefault(n) /\ Advances(k, i, state[i], n, 0)
           \/ /\ HasDefault(n) /\ Default(n) \in Nodes
              /\ Advances(k, i, IF Kind[Default(n)] = "end" THEN "completed" ELSE state[i], Default(n), 0)
    BY <1>4, CompletedFacts
  <2>2. Wins(call[k], i, store)
    BY <2>1 DEF Wins
  <2>3. state[i] = "running" /\ Kind[n] # "end" /\ n \in Nodes
    BY <2>1, <2>2 DEF Drivers, Standing, Waiting, FlowShape
  <2>4. CASE Advances(k, i, state[i], n, 0)
    <3> HIDE DEF i
    <3> QED
      BY <1>0, <2>1, <2>3, <2>4, AdvanceWalks
  <2>5. CASE /\ HasDefault(n) /\ Default(n) \in Nodes
             /\ Advances(k, i, IF Kind[Default(n)] = "end" THEN "completed" ELSE state[i], Default(n), 0)
    <3> DEFINE s == IF Kind[Default(n)] = "end" THEN "completed" ELSE state[i]
               m == Default(n)
    <3>1. s \in {"running", "completed"} /\ (s = "completed" <=> Kind[m] = "end")
      BY <2>3
    <3>2. m \in Nodes /\ Advances(k, i, s, m, 0)
      BY <2>5
    <3>3. Len(Out[n]) \in Nat /\ Len(Out[n]) > 0
      BY <2>3, <2>5, OutFacts
    <3>4. 1 \in 1..Len(Out[n]) /\ m = Out[n][1]
      BY <3>3 DEF Default
    <3>5. Edge(n, m)
      BY <2>3, <3>4 DEF Edge
    <3> HIDE DEF i, s, m
    <3> QED
      BY <1>0, <2>1, <2>3, <3>1, <3>2, <3>5, AdvanceWalks
  <2> QED
    BY <2>1, <2>4, <2>5
<1>5. ASSUME NEW k \in Calls, StoreCreates(k) \/ StoreDecides(k) \/ RejectedReads(k) \/ StoreReads(k)
               \/ Rejected(k) \/ StoreFails(k)
      PROVE  UNCHANGED <<state, node>>
  BY <1>5 DEF StoreCreates, StoreDecides, RejectedReads, StoreReads, Rejected, StoreFails
<1>6. ASSUME NEW k \in Calls, NEW t \in Tasks, NEW v \in {"completed", "rejected"}, Decide(k, t, v)
      PROVE  UNCHANGED <<state, node>>
  BY <1>6 DEF Decide
<1>7. ASSUME NEW t \in Tasks, StartTask(t) \/ CancelTask(t) PROVE UNCHANGED <<state, node>>
  BY <1>7 DEF StartTask, CancelTask
<1>8. CASE UNCHANGED flowVars
  BY <1>8 DEF flowVars
<1> QED
  BY <1>1, <1>2, <1>3, <1>4, <1>5, <1>6, <1>7, <1>8 DEF FlowNext, Actors, Continue

\* The engine implements the walk of an instance along the transitions, where
\* users act on listed tasks and conditions name transitions of their node.
THEOREM ImplementsWalkEver ==
  ASSUME ~Worklist, MatchesLeave
  PROVE  FlowSpec => ImplementsWalk
<1>1. FlowInit => Walk!Init
  BY DEF FlowInit, Walk!Init
<1>2. Sound /\ [FlowNext]_flowVars => Walk!Next \/ UNCHANGED <<state, node>>
  BY WalkNext DEF Sound
<1>3. FlowInit => Sound
  BY SoundInit
<1>4. Sound /\ [FlowNext]_flowVars => Sound'
  BY SoundNext
<1> QED
  BY <1>1, <1>2, <1>3, <1>4, PTL DEF FlowSpec, ImplementsWalk, Walk!Spec, Walk!vars
=============================================================================

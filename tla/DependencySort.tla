--------------------------- MODULE DependencySort ---------------------------
(***************************************************************************)
(* The load order of plugins: Kahn's algorithm, one plugin per step, as it *)
(* stands three times in the code.  The variants differ at the edges:      *)
(*                                                                         *)
(*   "framework"  plugin-framework/resolver.ts: a missing dependency is an *)
(*                error; afterwards the plugins of the SYSTEM partition    *)
(*                are moved to the front;                                  *)
(*   "manager"    plugin-framework/plugin-manager.ts: a dependency on      *)
(*                itself or a missing one is an error; plugin-core goes    *)
(*                before the others that become ready with it;             *)
(*   "engine"     manifest-engine/resolver.ts: missing dependencies are    *)
(*                left out of the graph.                                   *)
(***************************************************************************)
EXTENDS Naturals, Sequences, FiniteSets, Arrays

CONSTANTS
  Input,       \* the names of the manifests, in the order they are given
  Core,        \* @audebase/plugin-core
  Absent       \* names that manifests may depend on but that are not given

Manifests == {Input[i] : i \in DOMAIN Input}

ASSUME InputAssumption ==
  /\ Input \in Seq(Manifests)
  /\ \A i, j \in DOMAIN Input : Input[i] = Input[j] => i = j
  /\ Core \in Manifests
  /\ Absent \cap Manifests = {}

VARIABLES
  variant,     \* which of the three copies
  deps,        \* dependencies of each manifest
  system,      \* plugins of the SYSTEM partition
  indegree,    \* dependencies of each plugin that are not yet placed
  queue,       \* plugins whose dependencies are placed
  result,      \* plugins placed so far, in the end the load order
  outcome      \* "start", "sorting", "missing", "cycle" or "sorted"

sortVars == <<variant, deps, system, indegree, queue, result, outcome>>

\* The elements of a sequence.
Elems(s) == {s[i] : i \in DOMAIN s}

\* The dependencies of p that are edges of the graph.
Edges(p) == deps[p] \cap Manifests

\* Input order, with plugin-core moved to the front.
CoreToFront(s) ==
  Filter(s, {Core}) \o Filter(s, Manifests \ {Core})

\* The order in which plugins that become ready together are queued.
ReadyOrder(s) == IF variant = "manager" THEN CoreToFront(s) ELSE s

\* stableSortByPartition.
SystemFirst(s) ==
  Filter(s, system) \o Filter(s, Manifests \ system)

SortInit ==
  /\ deps \in [Manifests -> SUBSET (Manifests \cup Absent)]
  /\ variant \in {"framework", "manager", "engine"}
  /\ system \in IF variant = "framework" THEN SUBSET Manifests ELSE {{}}
  /\ indegree = [p \in Manifests |-> 0]
  /\ queue = <<>>
  /\ result = <<>>
  /\ outcome = "start"

\* A dependency that the variant refuses at once.
Refused ==
  \/ variant # "engine" /\ \E p \in Manifests : deps[p] \cap Absent # {}
  \/ variant = "manager" /\ \E p \in Manifests : p \in deps[p]

Refuse ==
  /\ outcome = "start"
  /\ Refused
  /\ outcome' = "missing"
  /\ UNCHANGED <<variant, deps, system, indegree, queue, result>>

\* The graph is built and the plugins without dependencies are queued.
Build ==
  /\ outcome = "start"
  /\ ~Refused
  /\ indegree' = [p \in Manifests |-> Cardinality(Edges(p))]
  /\ queue' = ReadyOrder(Filter(Input, {p \in Manifests : Edges(p) = {}}))
  /\ outcome' = "sorting"
  /\ UNCHANGED <<variant, deps, system, result>>

\* Mutant of Place: a plugin is queued as soon as one dependency is placed.
PlaceEager ==
  /\ outcome = "sorting"
  /\ queue # <<>>
  /\ LET current == Head(queue)
         freed == {p \in Manifests : current \in Edges(p) /\ p \notin Elems(queue) \cup Elems(result)}
     IN  /\ indegree' = [p \in Manifests |->
                           IF current \in Edges(p) THEN indegree[p] - 1 ELSE indegree[p]]
         /\ result' = Append(result, current)
         /\ queue' = Tail(queue) \o ReadyOrder(Filter(Input, freed))
  /\ UNCHANGED <<variant, deps, system, outcome>>

\* Mutant of Place: a plugin is queued with one dependency still open.
PlaceTwice ==
  /\ outcome = "sorting"
  /\ queue # <<>>
  /\ LET current == Head(queue)
         freed == {p \in Manifests : current \in Edges(p) /\ indegree[p] <= 2}
     IN  /\ indegree' = [p \in Manifests |->
                           IF current \in Edges(p) THEN indegree[p] - 1 ELSE indegree[p]]
         /\ result' = Append(result, current)
         /\ queue' = Tail(queue) \o ReadyOrder(Filter(Input, freed))
  /\ UNCHANGED <<variant, deps, system, outcome>>

\* The head of the queue is placed; its dependents have one dependency less,
\* and those that have none left are queued in input order.
Place ==
  /\ outcome = "sorting"
  /\ queue # <<>>
  /\ LET current == Head(queue)
         freed == {p \in Manifests : current \in Edges(p) /\ indegree[p] = 1}
     IN  /\ indegree' = [p \in Manifests |->
                           IF current \in Edges(p) THEN indegree[p] - 1 ELSE indegree[p]]
         /\ result' = Append(result, current)
         /\ queue' = Tail(queue) \o ReadyOrder(Filter(Input, freed))
  /\ UNCHANGED <<variant, deps, system, outcome>>

\* Nothing is queued any more: a cycle if a plugin is not placed; otherwise
\* the order is complete, and the framework moves SYSTEM plugins forward.
Finish ==
  /\ outcome = "sorting"
  /\ queue = <<>>
  /\ IF Len(result) # Len(Input)
     THEN outcome' = "cycle" /\ UNCHANGED result
     ELSE /\ outcome' = "sorted"
          /\ result' = IF variant = "framework" THEN SystemFirst(result) ELSE result
  /\ UNCHANGED <<variant, deps, system, indegree, queue>>

SortNext == Refuse \/ Build \/ Place \/ Finish

SortSpec == SortInit /\ [][SortNext]_sortVars

-----------------------------------------------------------------------------
(* Properties.                                                             *)

\* Type correctness, and no plugin is queued or placed twice.
SortTypeOK ==
  /\ deps \in [Manifests -> SUBSET (Manifests \cup Absent)]
  /\ variant \in {"framework", "manager", "engine"}
  /\ system \subseteq Manifests
  /\ indegree \in [Manifests -> Nat]
  /\ queue \in Seq(Manifests)
  /\ result \in Seq(Manifests)
  /\ outcome \in {"start", "sorting", "missing", "cycle", "sorted"}
  /\ \A i, j \in DOMAIN (result \o queue) :
       (result \o queue)[i] = (result \o queue)[j] => i = j

\* Whatever is placed stands behind all it depends on.
Topological(s) ==
  \A i \in DOMAIN s : \A d \in Edges(s[i]) : \E j \in 1..(i - 1) : s[j] = d

\* A set of plugins each of which waits for another one of the set.
Cyclic == \E S \in SUBSET Manifests : S # {} /\ \A p \in S : Edges(p) \cap S # {}

\* Among the plugins of S, none comes before one of its dependencies.
InOrder(s, S) ==
  \A i, j \in DOMAIN s : i < j /\ s[i] \in S /\ s[j] \in S => s[j] \notin Edges(s[i])

\* A cycle is reported exactly when the dependencies have one, and otherwise
\* the order has every plugin in it, once.  While plugins are placed, whatever
\* is placed stands behind all it depends on, and in the end the whole order is
\* topological; except that the framework moves the SYSTEM plugins to the front,
\* after which only each of the two groups is in order
\* (__tests__/resolver.test.ts:163).  With the manager, plugin-core, when it
\* has no dependencies, is first (plugin-manager.ts:5).
LoadOrder ==
  /\ outcome = "cycle" => Cyclic
  /\ outcome = "sorted" => ~Cyclic /\ Elems(result) = Manifests /\ Len(result) = Len(Input)
  /\ outcome = "sorting" => Topological(result)
  /\ outcome = "sorted" /\ variant # "framework" => Topological(result)
  /\ outcome = "sorted" /\ variant = "framework" =>
       /\ \A i, j \in DOMAIN result : i < j /\ result[j] \in system => result[i] \in system
       /\ InOrder(result, system) /\ InOrder(result, Manifests \ system)
  /\ outcome = "sorted" /\ variant = "manager" /\ deps[Core] = {} => result[1] = Core
=============================================================================

---------------------------- MODULE RulesProofs ----------------------------
(***************************************************************************)
(* Proofs about parts that MCRules puts together, each for any values of   *)
(* its constants: instances of a workflow, versions of the interface, the  *)
(* pages of the audit log, the phases of migrations, the tables and forms  *)
(* of collections, the texts of translations, the extensions and versions  *)
(* of plugins, and record rules.                                           *)
(***************************************************************************)
EXTENDS WorkflowInstances, ApiVersions, Audit, Migration, SchemaEngine, Translations, Manifests, RecordRules,
        SequenceTheorems, FiniteSetTheorems, TLAPS

-----------------------------------------------------------------------------
(* Instances that callers share.                                           *)

\* An instance as the methods make it.
Proper(instance) ==
  /\ instance \in [node : Reachable, status : {"draft", "active", "suspended"} \cup Terminal]
  /\ instance.status = "completed" => NodeTypes[instance.node] = "end"

\* So is the stored one, and whatever a caller has read, however long ago.
InstancesAreProper ==
  /\ Proper(stored)
  /\ DOMAIN held = Actors
  /\ \A a \in Actors : held[a] # Nothing => Proper(held[a])

LEMMA StartIsReached == StartNode \in Reachable
BY StartAssumption DEF Reachable

\* A transition from a node that is reached leads to one that is.
LEMMA NextIsReached ==
  ASSUME NEW n \in Reachable, NEW target \in Nodes, <<n, target>> \in Transitions
  PROVE  target \in Reachable
<1> SUFFICES ASSUME NEW S \in SUBSET Nodes, StartNode \in S, Closed(S) PROVE target \in S
  BY DEF Reachable
<1>1. n \in S
  BY DEF Reachable
<1>2. PICK t \in Transitions : t = <<n, target>>
  OBVIOUS
<1>3. t[1] \in S /\ t[2] \in Nodes
  BY <1>1, <1>2
<1>4. t[2] \in S
  BY <1>2, <1>3 DEF Closed
<1> QED
  BY <1>2, <1>4

\* A caller stores a proper instance.
LEMMA StoreIsProper ==
  ASSUME InstancesAreProper, NEW a \in Actors, NEW instance, Proper(instance), Store(a, instance)
  PROVE  InstancesAreProper'
BY DEF Store, InstancesAreProper, Proper

LEMMA InstancesNext == InstancesAreProper /\ [InstanceNext]_instanceVars => InstancesAreProper'
<1> SUFFICES ASSUME InstancesAreProper, [InstanceNext]_instanceVars PROVE InstancesAreProper'
  OBVIOUS
<1>1. ASSUME NEW a \in Actors, NEW target \in Nodes, Transition(a, target) PROVE InstancesAreProper'
  <2>1. /\ Proper(held[a]) /\ <<held[a].node, target>> \in Transitions
        /\ Store(a, [node |-> target, status |-> "active"])
    BY <1>1 DEF Transition, InstancesAreProper
  <2>2. target \in Reachable
    BY <2>1, NextIsReached DEF Proper
  <2>3. Proper([node |-> target, status |-> "active"])
    BY <2>2 DEF Proper
  <2> QED
    BY <2>1, <2>3, StoreIsProper
<1>2. ASSUME NEW a \in Actors, NEW status \in {"draft", "active", "suspended"} \cup Terminal,
             held[a] # Nothing,
             status = "completed" => NodeTypes[held[a].node] = "end",
             Store(a, [held[a] EXCEPT !.status = status])
      PROVE  InstancesAreProper'
  <2>1. Proper(held[a])
    BY <1>2 DEF InstancesAreProper
  <2>2. Proper([held[a] EXCEPT !.status = status])
    BY <1>2, <2>1 DEF Proper
  <2> QED
    BY <1>2, <2>2, StoreIsProper
<1>3. ASSUME NEW a \in Actors, Complete(a) \/ Suspend(a) \/ Resume(a) \/ Cancel(a)
      PROVE  InstancesAreProper'
  BY <1>2, <1>3 DEF Complete, Suspend, Resume, Cancel, Terminal
<1>4. ASSUME NEW a \in Actors, Read(a) PROVE InstancesAreProper'
  BY <1>4 DEF Read, InstancesAreProper, Proper
<1>5. ASSUME NEW a \in Actors, Drop(a) PROVE InstancesAreProper'
  BY <1>5 DEF Drop, InstancesAreProper, Proper
<1>6. ASSUME UNCHANGED <<stored, held>> PROVE InstancesAreProper'
  BY <1>6 DEF InstancesAreProper, Proper
<1> QED
  BY <1>1, <1>3, <1>4, <1>5, <1>6 DEF InstanceNext, Execute, instanceVars

\* Whatever callers store of what they have computed from an instance that they read
\* earlier, the instance is at a node that transitions lead to from the start, and is
\* completed at an end node only.
THEOREM EndsAreReachedEver == InstanceSpec => []EndsAreReached
<1>1. InstanceInit => InstancesAreProper
  BY StartIsReached DEF InstanceInit, InstancesAreProper, Proper, Terminal
<1>2. InstancesAreProper => EndsAreReached
  BY DEF InstancesAreProper, Proper, EndsAreReached
<1> QED
  BY <1>1, <1>2, InstancesNext, PTL DEF InstanceSpec

-----------------------------------------------------------------------------
(* Versions of the interface.                                              *)

Route == [method : Methods, path : RoutePaths, deprecated : BOOLEAN, handler : 1..2]

RoutesAreTyped ==
  /\ versions \subseteq Majors
  /\ routes \in [Majors -> Seq(Route)]

\* The places of the routes s that match a request, and what FirstMatch makes of them.
FitsIn(s, method, request) ==
  {i \in DOMAIN s : s[i].method = method /\ PathMatches(s[i].path, request)}
FirstOf(s, method, request) ==
  s[CHOOSE i \in FitsIn(s, method, request) : \A j \in FitsIn(s, method, request) : i <= j]

\* Routes s became t: at the place of each there is one of the same method and path.
KeepsPlaces(s, t) ==
  /\ Len(s) <= Len(t)
  /\ \A i \in 1..Len(s) : t[i].method = s[i].method /\ t[i].path = s[i].path

LEMMA LeastFits ==
  ASSUME NEW s \in Seq(Route), NEW m, NEW p, FitsIn(s, m, p) # {}
  PROVE  \E i \in FitsIn(s, m, p) : /\ \A j \in FitsIn(s, m, p) : i <= j
                                    /\ FirstOf(s, m, p) = s[i]
<1>1. PICK F : F = FitsIn(s, m, p)
  OBVIOUS
<1>2. F \subseteq 1..Len(s) /\ Len(s) \in Nat /\ F # {}
  BY <1>1 DEF FitsIn
<1>3. F \in SUBSET Nat /\ IsFiniteSet(F)
  <2>1. IsFiniteSet(1..Len(s))
    BY <1>2, FS_Interval
  <2>2. F \in SUBSET (1..Len(s))
    BY <1>2
  <2>3. IsFiniteSet(F)
    BY <2>1, <2>2, FS_Subset
  <2> QED
    BY <2>2, <2>3
<1>4. \E i \in F : \A j \in F : i <= j
  BY <1>2, <1>3, Extremes
<1>5. PICK c : c = CHOOSE i \in F : \A j \in F : i <= j
  OBVIOUS
<1>6. c \in F /\ \A j \in F : c <= j
  BY <1>4, <1>5
<1>7. FirstOf(s, m, p) = s[c]
  BY <1>1, <1>5 DEF FirstOf
<1> QED
  BY <1>1, <1>6, <1>7

\* The first match stays the first one.
LEMMA FirstStays ==
  ASSUME NEW s \in Seq(Route), NEW t \in Seq(Route), KeepsPlaces(s, t), NEW m, NEW p, FitsIn(s, m, p) # {}
  PROVE  FitsIn(t, m, p) # {} /\ FirstOf(t, m, p).path = FirstOf(s, m, p).path
<1>1. Len(s) \in Nat /\ Len(t) \in Nat /\ DOMAIN s = 1..Len(s) /\ DOMAIN t = 1..Len(t)
  BY LenProperties
<1>2. PICK i \in FitsIn(s, m, p) : (\A j \in FitsIn(s, m, p) : i <= j) /\ FirstOf(s, m, p) = s[i]
  BY LeastFits
<1>3. i \in 1..Len(s) /\ i \in 1..Len(t) /\ t[i].path = s[i].path
  BY <1>1, <1>2 DEF FitsIn, KeepsPlaces
<1>4. i \in FitsIn(t, m, p)
  BY <1>1, <1>2, <1>3 DEF FitsIn, KeepsPlaces
<1>5. PICK k \in FitsIn(t, m, p) : (\A j \in FitsIn(t, m, p) : k <= j) /\ FirstOf(t, m, p) = t[k]
  BY <1>4, LeastFits
<1>6. k <= i /\ k \in 1..Len(t)
  BY <1>1, <1>4, <1>5 DEF FitsIn
<1>7. k \in 1..Len(s)
  BY <1>1, <1>3, <1>6
<1>8. k \in FitsIn(s, m, p)
  BY <1>1, <1>5, <1>7 DEF FitsIn, KeepsPlaces
<1>9. k = i
  BY <1>2, <1>3, <1>6, <1>8
<1> QED
  BY <1>2, <1>3, <1>4, <1>5, <1>9

\* The latest of some versions is one of them.
LEMMA LatestIs ==
  ASSUME RoutesAreTyped
  PROVE  versions # {} => GetDefaultVersion \in versions
<1> SUFFICES ASSUME versions # {} PROVE GetDefaultVersion \in versions
  OBVIOUS
<1>1. versions \in SUBSET Nat /\ IsFiniteSet(versions)
  BY MajorsAssumption, FS_Subset DEF RoutesAreTyped
<1>2. \E v \in versions : \A w \in versions : w <= v
  BY <1>1, Extremes
<1> QED
  BY <1>2 DEF GetDefaultVersion

\* What a step makes of the routes and of the versions: nothing of the other, and of
\* the routes it changes those of one version, in their places.
LEMMA RouterStep ==
  ASSUME RoutesAreTyped, RouterNext
  PROVE  /\ RoutesAreTyped'
         /\ versions \subseteq versions'
         /\ \/ UNCHANGED routes
            \/ /\ UNCHANGED versions
               /\ \E v \in Majors : /\ KeepsPlaces(routes[v], routes'[v])
                                    /\ \A w \in Majors : w # v => routes'[w] = routes[w]
<1>1. ASSUME NEW v \in Majors, RegisterVersion(v)
      PROVE  RoutesAreTyped' /\ versions \subseteq versions' /\ UNCHANGED routes
  BY <1>1 DEF RegisterVersion, RoutesAreTyped
<1>2. ASSUME NEW v \in Majors, NEW s \in Seq(Route), KeepsPlaces(routes[v], s),
             routes' = [routes EXCEPT ![v] = s], UNCHANGED versions
      PROVE  /\ RoutesAreTyped' /\ versions \subseteq versions' /\ UNCHANGED versions
             /\ KeepsPlaces(routes[v], routes'[v])
             /\ \A w \in Majors : w # v => routes'[w] = routes[w]
  BY <1>2 DEF RoutesAreTyped
<1>3. ASSUME NEW v \in Majors, NEW m \in Methods, NEW p \in RoutePaths, NEW at, at = PlaceOf(v, m, p)
      PROVE  at # 0 => /\ at \in 1..Len(routes[v]) /\ routes[v][at].method = m /\ routes[v][at].path = p
  <2>1. DOMAIN routes[v] = 1..Len(routes[v])
    BY DEF RoutesAreTyped
  <2> QED
    BY <1>3, <2>1 DEF PlaceOf
<1>4. ASSUME NEW v \in Majors, NEW m \in Methods, NEW p \in RoutePaths, NEW h \in 1..2,
             RegisterRoute(v, m, p, h)
      PROVE  \E s \in Seq(Route) : KeepsPlaces(routes[v], s) /\ routes' = [routes EXCEPT ![v] = s]
  <2>1. PICK at : at = PlaceOf(v, m, p)
    OBVIOUS
  <2>2. PICK old : old = routes[v]
    OBVIOUS
  <2>3. old \in Seq(Route) /\ Len(old) \in Nat /\ DOMAIN old = 1..Len(old)
    BY <2>2 DEF RoutesAreTyped
  <2>4. PICK route : route = [method |-> m, path |-> p, deprecated |-> FALSE, handler |-> h]
    OBVIOUS
  <2>5. route \in Route /\ route.method = m /\ route.path = p
    BY <2>4 DEF Route
  <2>6. at # 0 => at \in 1..Len(old) /\ old[at].method = m /\ old[at].path = p
    BY <1>3, <2>1, <2>2
  <2>7. routes' = [routes EXCEPT ![v] = IF at = 0 THEN Append(old, route) ELSE [old EXCEPT ![at] = route]]
    BY <1>4, <2>1, <2>2, <2>4 DEF RegisterRoute, RoutesAreTyped
  <2>8. CASE at = 0
    <3>1. Append(old, route) \in Seq(Route) /\ KeepsPlaces(old, Append(old, route))
      BY <2>3, <2>5 DEF KeepsPlaces
    <3> QED
      BY <2>2, <2>7, <2>8, <3>1
  <2>9. CASE at # 0
    <3>1. [old EXCEPT ![at] = route] \in Seq(Route) /\ KeepsPlaces(old, [old EXCEPT ![at] = route])
      BY <2>3, <2>5, <2>6, <2>9 DEF KeepsPlaces
    <3> QED
      BY <2>2, <2>7, <2>9, <3>1
  <2> QED
    BY <2>8, <2>9
<1>5. ASSUME NEW v \in Majors, NEW m \in Methods, NEW p \in RoutePaths, MarkDeprecated(v, m, p)
      PROVE  \/ UNCHANGED routes
             \/ \E s \in Seq(Route) : KeepsPlaces(routes[v], s) /\ routes' = [routes EXCEPT ![v] = s]
  <2>1. PICK at : at = PlaceOf(v, m, p)
    OBVIOUS
  <2>2. PICK old : old = routes[v]
    OBVIOUS
  <2>3. old \in Seq(Route) /\ Len(old) \in Nat /\ DOMAIN old = 1..Len(old)
    BY <2>2 DEF RoutesAreTyped
  <2>4. at # 0 => at \in 1..Len(old)
    BY <1>3, <2>1, <2>2
  <2>5. routes' = IF at = 0 THEN routes ELSE [routes EXCEPT ![v] = [old EXCEPT ![at] = [old[at] EXCEPT !.deprecated = TRUE]]]
    BY <1>5, <2>1, <2>2 DEF MarkDeprecated, RoutesAreTyped
  <2>6. ASSUME at # 0
        PROVE  \E s \in Seq(Route) : KeepsPlaces(old, s) /\ routes' = [routes EXCEPT ![v] = s]
    <3>1. PICK route : route = [old[at] EXCEPT !.deprecated = TRUE]
      OBVIOUS
    <3>2. old[at] \in Route
      BY <2>3, <2>4, <2>6
    <3>3. route \in Route /\ route.method = old[at].method /\ route.path = old[at].path
      BY <3>1, <3>2 DEF Route
    <3>4. [old EXCEPT ![at] = route] \in Seq(Route) /\ KeepsPlaces(old, [old EXCEPT ![at] = route])
      BY <2>3, <2>4, <2>6, <3>3 DEF KeepsPlaces
    <3> QED
      BY <2>5, <2>6, <3>1, <3>4
  <2> QED
    BY <2>2, <2>5, <2>6
<1>6. ASSUME NEW v \in Majors, NEW m \in Methods, NEW p \in RoutePaths,
             (\E h \in 1..2 : RegisterRoute(v, m, p, h)) \/ MarkDeprecated(v, m, p)
      PROVE  /\ UNCHANGED versions
             /\ UNCHANGED routes \/ \E s \in Seq(Route) :
                                      KeepsPlaces(routes[v], s) /\ routes' = [routes EXCEPT ![v] = s]
  BY <1>4, <1>5, <1>6 DEF RegisterRoute, MarkDeprecated
<1>7. ASSUME UNCHANGED <<versions, routes>> PROVE RoutesAreTyped'
  BY <1>7 DEF RoutesAreTyped
<1> QED
  BY <1>1, <1>2, <1>6, <1>7 DEF RouterNext

\* A change of one version does not reach the requests of another, for any versions,
\* routes and order of calls.
THEOREM VersionsAreApartEver == RouterSpec => VersionsAreApart
<1>1. RouterInit => RoutesAreTyped
  BY DEF RouterInit, RoutesAreTyped
<1>2. RoutesAreTyped /\ [RouterNext]_routerVars => RoutesAreTyped'
  BY RouterStep DEF routerVars, RoutesAreTyped
<1> DEFINE Apart(m, p) ==
       /\ \A v, w \in versions :
            routes[v] # routes'[v] /\ v # w => ResolveRoute(w, m, p)' = ResolveRoute(w, m, p)
       /\ ResolveRoute(NoMajor, m, p)' # ResolveRoute(NoMajor, m, p) =>
            \/ GetDefaultVersion' # GetDefaultVersion
            \/ routes'[GetDefaultVersion] # routes[GetDefaultVersion]
       /\ \A v \in versions : ResolveRoute(v, m, p) # NoRoute =>
            ResolveRoute(v, m, p)'.path = ResolveRoute(v, m, p).path
<1>3. ASSUME RoutesAreTyped, RouterNext, NEW m \in Methods, NEW p \in RequestPaths
      PROVE  Apart(m, p)
  <2>1. /\ versions \subseteq versions' /\ versions' \subseteq Majors
        /\ routes \in [Majors -> Seq(Route)] /\ routes' \in [Majors -> Seq(Route)]
    BY <1>3, RouterStep DEF RoutesAreTyped
  <2>2. \A v \in Majors : /\ v # 0 /\ v # NoMajor
                          /\ ResolveRoute(v, m, p) = FirstMatch(v, m, p)
                          /\ ResolveRoute(v, m, p)' = FirstMatch(v, m, p)'
    BY MajorsAssumption DEF ResolveRoute
  <2>3. \A v \in Majors :
          /\ FirstMatch(v, m, p) = IF v \notin versions \/ FitsIn(routes[v], m, p) = {} THEN NoRoute
                                   ELSE FirstOf(routes[v], m, p)
          /\ FirstMatch(v, m, p)' = IF v \notin versions' \/ FitsIn(routes'[v], m, p) = {} THEN NoRoute
                                    ELSE FirstOf(routes'[v], m, p)
    BY DEF FirstMatch, FitsIn, FirstOf
  <2>4. ASSUME NEW v \in versions, NEW w \in versions, routes[v] # routes'[v], v # w
        PROVE  ResolveRoute(w, m, p)' = ResolveRoute(w, m, p)
    <3>1. v \in Majors /\ w \in Majors /\ w \in versions'
      BY <2>1
    <3>2. routes'[w] = routes[w]
      BY <1>3, <2>4, <3>1, RouterStep
    <3> QED
      BY <2>2, <2>3, <3>1, <3>2
  <2>5. ASSUME GetDefaultVersion' = GetDefaultVersion,
               routes'[GetDefaultVersion] = routes[GetDefaultVersion]
        PROVE  ResolveRoute(NoMajor, m, p)' = ResolveRoute(NoMajor, m, p)
    <3>1. PICK d : d = GetDefaultVersion /\ d = GetDefaultVersion'
      BY <2>5
    <3>2. /\ ResolveRoute(NoMajor, m, p) = IF d = 0 THEN NoRoute ELSE FirstMatch(d, m, p)
          /\ ResolveRoute(NoMajor, m, p)' = IF d = 0 THEN NoRoute ELSE FirstMatch(d, m, p)'
      BY <3>1 DEF ResolveRoute
    <3>3. d # 0 => d \in versions
      BY <1>3, <3>1, LatestIs DEF GetDefaultVersion
    <3>4. d # 0 => d \in Majors /\ d \in versions'
      BY <2>1, <3>3
    <3>5. d # 0 => FirstMatch(d, m, p)' = FirstMatch(d, m, p)
      BY <2>3, <2>5, <3>1, <3>3, <3>4
    <3> QED
      BY <3>2, <3>5
  <2>6. ASSUME NEW v \in versions, ResolveRoute(v, m, p) # NoRoute
        PROVE  ResolveRoute(v, m, p)'.path = ResolveRoute(v, m, p).path
    <3>1. v \in Majors /\ v \in versions'
      BY <2>1
    <3>2. /\ FitsIn(routes[v], m, p) # {}
          /\ ResolveRoute(v, m, p) = FirstOf(routes[v], m, p)
      BY <2>2, <2>3, <2>6, <3>1
    <3>3. routes[v] \in Seq(Route) /\ routes'[v] \in Seq(Route)
      BY <2>1, <3>1
    <3>4. KeepsPlaces(routes[v], routes'[v])
      <4>1. KeepsPlaces(routes[v], routes[v])
        BY <3>3 DEF KeepsPlaces
      <4> QED
        BY <1>3, <3>1, <4>1, RouterStep
    <3>5. /\ FitsIn(routes'[v], m, p) # {}
          /\ FirstOf(routes'[v], m, p).path = FirstOf(routes[v], m, p).path
      BY <3>2, <3>3, <3>4, FirstStays
    <3>6. ResolveRoute(v, m, p)' = FirstOf(routes'[v], m, p)
      BY <2>2, <2>3, <3>1, <3>5
    <3> QED
      BY <3>2, <3>5, <3>6
  <2> QED
    BY <2>4, <2>5, <2>6
<1>4. RoutesAreTyped /\ [RouterNext]_routerVars => [\A m \in Methods, p \in RequestPaths : Apart(m, p)]_routerVars
  BY <1>3
<1> QED
  BY <1>1, <1>2, <1>4, PTL DEF RouterSpec, VersionsAreApart

-----------------------------------------------------------------------------
(* The pages of the audit log.                                             *)

\* An event has the number it was built with and a time that has come.
Dated(e, last, clock) == e.id \in 1..last /\ e.at \in 0..clock

OfTenant(rows, tenant) == {r \in rows : tenant \in {NoTenantYet, r.tenant}}
Later(rows, r) == {q \in rows : q.at > r.at}

\* A row that shares its millisecond with another one.
Tied(r, others) == \E q \in others : q.at = r.at /\ q # r

\* The reader w has seen row r, or may miss it, or has as many later ones before it as
\* there are on the pages that he has read.
Ahead(w, r, rows) ==
  \/ r \in w.seen \/ Tied(r, w.seen \cup rows)
  \/ Cardinality(Later(OfTenant(rows, w.tenant), r)) >= (w.page - 1) * PageSize

\* What the reader w knows of these rows of the log.
ReadsOn(w, rows) ==
  /\ DOMAIN w = {"at", "page", "tenant", "seen", "since"}
  /\ w.at \in {"idle", "reading", "read"}
  /\ w.page \in Nat /\ (w.at = "reading" => w.page # 0)
  /\ w.seen = OfTenant(w.seen, w.tenant) /\ w.since = OfTenant(w.since, w.tenant)
  /\ w.at = "reading" => \A r \in w.since \cap rows : Ahead(w, r, rows)
  /\ w.at = "read" => \A r \in w.since \cap rows : r \in w.seen \/ Tied(r, w.seen \cup rows)

\* An event is written once: while its insert is under way it is not in the log, and was not
\* when the reader began.
LogIsSound ==
  /\ now \in Nat /\ events \in Nat
  /\ audit_log \in Seq(Range(audit_log))
  /\ \A e \in writing \cup Range(audit_log) \cup walk.since \cup walk.seen : Dated(e, events, now)
  /\ writing \cap (Range(audit_log) \cup walk.since) = {}

AuditInv == LogIsSound /\ ReadsOn(walk, Range(audit_log))

LEMMA RangeFacts ==
  ASSUME NEW S, NEW s \in Seq(S)
  PROVE  s \in Seq(Range(s)) /\ Range(s) \subseteq S /\ IsFiniteSet(Range(s))
<1>1. s \in [1..Len(s) -> S] /\ Len(s) \in Nat /\ DOMAIN s = 1..Len(s)
  BY LenProperties
<1>2. s \in [1..Len(s) -> Range(s)] /\ Range(s) \subseteq S
  BY <1>1 DEF Range
<1>3. s \in Surjection(1..Len(s), Range(s))
  BY <1>1, <1>2 DEF Surjection, Range
<1>4. IsFiniteSet(1..Len(s))
  BY <1>1, FS_Interval
<1>5. IsFiniteSet(Range(s))
  BY <1>3, <1>4, FS_Surjection
<1>6. s \in Seq(Range(s))
  BY <1>1, <1>2
<1> QED
  BY <1>2, <1>5, <1>6

LEMMA AppendedRange ==
  ASSUME NEW S, NEW s \in Seq(S), NEW e
  PROVE  Append(s, e) \in Seq(S \cup {e}) /\ Range(Append(s, e)) = Range(s) \cup {e}
<1>0. PICK t : t = Append(s, e)
  OBVIOUS
<1>1. Len(s) \in Nat /\ DOMAIN s = 1..Len(s)
  BY LenProperties
<1>2. /\ t \in Seq(S \cup {e}) /\ DOMAIN t = 1..(Len(s) + 1)
      /\ \A i \in 1..Len(s) : t[i] = s[i]
      /\ t[Len(s) + 1] = e
  BY <1>0
<1>3. DOMAIN t = (1..Len(s)) \cup {Len(s) + 1}
  BY <1>1, <1>2
<1>4. ASSUME NEW x \in Range(t) PROVE x \in Range(s) \cup {e}
  <2>1. PICK i \in DOMAIN t : x = t[i]
    BY DEF Range
  <2> QED
    BY <1>1, <1>2, <1>3, <2>1 DEF Range
<1>5. ASSUME NEW x \in Range(s) \cup {e} PROVE x \in Range(t)
  BY <1>1, <1>2, <1>3 DEF Range
<1> QED
  BY <1>0, <1>2, <1>4, <1>5

LEMMA FilteredRange ==
  ASSUME NEW S, NEW s \in Seq(S), NEW T
  PROVE  Filter(s, T) \in Seq(S) /\ Range(Filter(s, T)) = Range(s) \cap T
<1>1. PICK t : t = Filter(s, T)
  OBVIOUS
<1>2. /\ t \in Seq(S)
      /\ \E place \in [1..Len(t) -> DOMAIN s] :
              /\ \A k \in 1..Len(t) : t[k] = s[place[k]] /\ s[place[k]] \in T
              /\ \A i \in DOMAIN s : s[i] \in T => \E k \in 1..Len(t) : place[k] = i
  BY <1>1, FilterFacts
<1>3. DOMAIN t = 1..Len(t)
  BY <1>2, LenProperties
<1>4. \A e \in Range(t) : e \in Range(s) \cap T
  BY <1>2, <1>3 DEF Range
<1>5. \A e \in Range(s) \cap T : e \in Range(t)
  BY <1>2, <1>3 DEF Range
<1> QED
  BY <1>1, <1>2, <1>4, <1>5

\* Rows come and go without the reader, but neither do rows that went come back, nor goes
\* a row that is as late as one that stays.
LEMMA ReaderStands ==
  ASSUME NEW w, NEW rows, NEW later, ReadsOn(w, rows), IsFiniteSet(later),
         \A q \in rows \cup later \cup w.seen \cup w.since : q.at \in Nat,
         \A r \in later \cap w.since : r \in rows,
         \A r \in later \cap w.since, q \in rows : q.at >= r.at => q \in later
  PROVE  ReadsOn(w, later)
<1>1. ASSUME NEW r \in w.since \cap later, Tied(r, w.seen \cup rows) PROVE Tied(r, w.seen \cup later)
  <2>1. PICK q \in w.seen \cup rows : q.at = r.at /\ q # r
    BY <1>1 DEF Tied
  <2>2. q.at >= r.at
    BY <2>1
  <2>3. q \in w.seen \cup later
    BY <2>1, <2>2
  <2> QED
    BY <2>1, <2>3 DEF Tied
<1>2. ASSUME NEW r \in w.since \cap later, w.page \in Nat,
             Cardinality(Later(OfTenant(rows, w.tenant), r)) >= (w.page - 1) * PageSize
      PROVE  Cardinality(Later(OfTenant(later, w.tenant), r)) >= (w.page - 1) * PageSize
  <2>1. PICK A, B : A = Later(OfTenant(rows, w.tenant), r) /\ B = Later(OfTenant(later, w.tenant), r)
    OBVIOUS
  <2>2. A \subseteq B
    <3>1. \A q \in rows : q.at > r.at => q.at >= r.at
      OBVIOUS
    <3> QED
      BY <2>1, <3>1 DEF Later, OfTenant
  <2>3. B \subseteq later
    BY <2>1 DEF Later, OfTenant
  <2>4. /\ IsFiniteSet(B)
    BY <2>3, FS_Subset
  <2>5. Cardinality(A) <= Cardinality(B) /\ IsFiniteSet(A)
    BY <2>2, <2>4, FS_Subset
  <2>6. Cardinality(A) \in Nat /\ Cardinality(B) \in Nat
    BY <2>4, <2>5, FS_CardinalityType
  <2>7. (w.page - 1) * PageSize \in Int
    BY <1>2, AuditAssumption
  <2> QED
    BY <1>2, <2>1, <2>5, <2>6, <2>7
<1>3. ASSUME w.at = "reading", NEW r \in w.since \cap later PROVE Ahead(w, r, later)
  <2>1. r \in rows /\ Ahead(w, r, rows) /\ w.page \in Nat
    BY <1>3 DEF ReadsOn
  <2> QED
    BY <1>1, <1>2, <2>1 DEF Ahead
<1>4. ASSUME w.at = "read", NEW r \in w.since \cap later
      PROVE  r \in w.seen \/ Tied(r, w.seen \cup later)
  <2>1. r \in w.seen \/ Tied(r, w.seen \cup rows)
    BY <1>4 DEF ReadsOn
  <2> QED
    BY <1>1, <2>1
<1> QED
  BY <1>3, <1>4 DEF ReadsOn

\* The place of a row in what is sorted by time: there are as many later rows before it.
LEMMA PlaceInOrder ==
  ASSUME NEW rows, IsFiniteSet(rows), \A q \in rows : q.at \in Nat,
         NEW order \in Ordered(rows), NEW r \in rows, ~Tied(r, rows)
  PROVE  /\ order \in Seq(rows) /\ Len(order) = Cardinality(rows)
         /\ \E k \in 1..Len(order) : order[k] = r /\ Cardinality(Later(rows, r)) = k - 1
<1>1. PICK n : n = Cardinality(rows)
  OBVIOUS
<1>2. /\ n \in Nat /\ order \in [1..n -> rows]
      /\ \A i, j \in 1..n : i # j => order[i] # order[j]
      /\ \A i, j \in 1..n : i < j => order[i].at >= order[j].at
  BY <1>1, FS_CardinalityType DEF Ordered, SetToSeqs
<1>3. order \in Seq(rows) /\ Len(order) = n
  BY <1>2
<1>4. order \in Surjection(1..n, rows)
  <2>1. order \in Injection(1..n, rows)
    BY <1>2 DEF Injection, IsInjective
  <2>2. Cardinality(1..n) = n
    BY <1>2, FS_Interval
  <2> QED
    BY <1>1, <2>1, <2>2, FS_Injection
<1>5. PICK k \in 1..n : order[k] = r
  BY <1>4 DEF Surjection
<1>6. PICK before : before = [i \in 1..(k - 1) |-> order[i]]
  OBVIOUS
<1>7. \A i \in 1..n : i < k => order[i].at > r.at
  BY <1>2, <1>5 DEF Tied
<1>8. \A i \in 1..n : order[i].at > r.at => i < k
  BY <1>2, <1>5
<1>9. k - 1 \in Nat /\ \A i \in 1..(k - 1) : i \in 1..n /\ i < k /\ before[i] = order[i]
  BY <1>2, <1>5, <1>6
<1>10. before \in [1..(k - 1) -> Later(rows, r)]
  BY <1>2, <1>6, <1>7, <1>9 DEF Later
<1>11. \A q \in Later(rows, r) : \E i \in 1..(k - 1) : before[i] = q
  <2> SUFFICES ASSUME NEW q \in Later(rows, r) PROVE \E i \in 1..(k - 1) : before[i] = q
    OBVIOUS
  <2>1. q \in rows /\ q.at > r.at
    BY DEF Later
  <2>2. PICK i \in 1..n : order[i] = q
    BY <1>4, <2>1 DEF Surjection
  <2>3. i \in 1..(k - 1)
    BY <1>5, <1>8, <2>1, <2>2
  <2> QED
    BY <1>9, <2>2, <2>3
<1>12. before \in Surjection(1..(k - 1), Later(rows, r))
  BY <1>10, <1>11 DEF Surjection
<1>13. before \in Injection(1..(k - 1), Later(rows, r))
  BY <1>2, <1>9, <1>10 DEF Injection, IsInjective
<1>14. IsFiniteSet(1..(k - 1)) /\ Cardinality(1..(k - 1)) = k - 1
  BY <1>9, FS_Interval
<1>15. Cardinality(Later(rows, r)) = k - 1
  <2>1. Later(rows, r) \in SUBSET rows
    BY DEF Later
  <2>2. IsFiniteSet(Later(rows, r))
    BY <2>1, FS_Subset
  <2> QED
    BY <1>12, <1>13, <1>14, <2>2, FS_Injection
<1> QED
  BY <1>1, <1>3, <1>5, <1>15

\* Division takes the remainder off.
LEMMA QuotientIs ==
  ASSUME NEW d \in Nat \ {0}, NEW a \in Nat, NEW b \in 0..(d - 1)
  PROVE  (a * d + b) \div d = a
OBVIOUS

\* A full page announces another one, any other page is the last.
LEMMA MoreIs ==
  ASSUME NEW count \in 0..PageSize, NEW page \in Nat, page # 0
  PROVE  page < TotalPages(EstimateTotal(count, page)) <=> count = PageSize
<1>1. PageSize \in Nat \ {0} /\ page - 1 \in Nat /\ page + 1 \in Nat
  BY AuditAssumption
<1>2. CASE count = 0
  <2>1. EstimateTotal(count, page) = 0
    BY <1>2 DEF EstimateTotal
  <2>2. TotalPages(0) = (0 * PageSize + (PageSize - 1)) \div PageSize
    BY <1>1 DEF TotalPages
  <2>3. TotalPages(0) = 0
    BY <1>1, <2>2, QuotientIs
  <2> QED
    BY <1>1, <1>2, <2>1, <2>3
<1>3. CASE count \in 1..(PageSize - 1)
  <2>1. count # 0
    BY <1>1, <1>3
  <2>2. EstimateTotal(count, page) = (page - 1) * PageSize + count
    BY <1>3, <2>1, Zenon DEF EstimateTotal
  <2>3. (page - 1) * PageSize \in Nat
    BY <1>1
  <2>4. (page - 1) * PageSize + count + PageSize - 1 = page * PageSize + (count - 1)
    BY <1>1, <1>3
  <2>5. TotalPages((page - 1) * PageSize + count) = (page * PageSize + (count - 1)) \div PageSize
    BY <2>4 DEF TotalPages
  <2>6. count - 1 \in 0..(PageSize - 1)
    BY <1>1, <1>3
  <2>7. TotalPages((page - 1) * PageSize + count) = page
    BY <1>1, <2>5, <2>6, QuotientIs
  <2> QED
    BY <1>1, <1>3, <2>2, <2>7
<1>4. CASE count = PageSize
  <2>1. count # 0 /\ count \notin 1..(PageSize - 1)
    BY <1>1, <1>4
  <2>2. EstimateTotal(count, page) = (page + 1) * PageSize
    BY <2>1, Zenon DEF EstimateTotal
  <2>3. TotalPages((page + 1) * PageSize) = ((page + 1) * PageSize + (PageSize - 1)) \div PageSize
    BY <1>1 DEF TotalPages
  <2>4. TotalPages((page + 1) * PageSize) = page + 1
    BY <1>1, <2>3, QuotientIs
  <2> QED
    BY <1>1, <1>4, <2>2, <2>4
<1> QED
  BY <1>1, <1>2, <1>3, <1>4

\* What the reader w is after a page in this order.
PageOf(order, p) ==
  SubSeq(order, (p - 1) * PageSize + 1,
         IF (p - 1) * PageSize + PageSize < Len(order) THEN (p - 1) * PageSize + PageSize ELSE Len(order))
GoesOn(w, page) == w.page < TotalPages(EstimateTotal(Len(page), w.page))
Turned(w, page) ==
  [w EXCEPT !.seen = @ \cup Range(page), !.page = IF GoesOn(w, page) THEN @ + 1 ELSE @,
            !.at = IF GoesOn(w, page) THEN "reading" ELSE "read"]

\* The rows of a page, and when it is full.
LEMMA PageIs ==
  ASSUME NEW rows, NEW order \in Seq(rows), NEW p \in Nat \ {0}, NEW page, page = PageOf(order, p)
  PROVE  /\ Range(page) \subseteq rows
         /\ Len(page) \in 0..PageSize
         /\ \A k \in 1..Len(order) : k > (p - 1) * PageSize =>
              \/ order[k] \in Range(page)
              \/ Len(page) = PageSize /\ k - 1 >= p * PageSize
<1>1. PICK off : off = (p - 1) * PageSize
  OBVIOUS
<1>2. PageSize \in Nat \ {0} /\ off \in Nat /\ p * PageSize = off + PageSize
  BY <1>1, AuditAssumption
<1>3. PICK hi : hi = IF off + PageSize < Len(order) THEN off + PageSize ELSE Len(order)
  OBVIOUS
<1>4. Len(order) \in Nat /\ \A i \in 1..Len(order) : order[i] \in rows
  BY LenProperties
<1>5. hi \in Nat /\ hi <= Len(order) /\ hi <= off + PageSize /\ (hi = Len(order) \/ hi = off + PageSize)
  BY <1>2, <1>3, <1>4
<1>6. page = SubSeq(order, off + 1, hi)
  BY <1>1, <1>3 DEF PageOf
<1>7. off + 1 \in Int /\ hi \in Int /\ \A i \in (off + 1)..hi : order[i] \in rows
  BY <1>2, <1>4, <1>5
<1>8. /\ page \in Seq(rows)
      /\ Len(page) = IF off + 1 <= hi THEN hi - (off + 1) + 1 ELSE 0
      /\ \A i \in 1..(hi - (off + 1) + 1) : page[i] = order[(off + 1) + i - 1]
  BY <1>6, <1>7, SubSeqProperties
<1>9. Len(page) \in 0..PageSize
  BY <1>2, <1>5, <1>8
<1>10. Range(page) \subseteq rows
  BY <1>8, RangeFacts
<1>11. ASSUME NEW k \in 1..Len(order), k > off, k <= hi PROVE order[k] \in Range(page)
  <2>1. k - off \in 1..(hi - (off + 1) + 1) /\ (off + 1) + (k - off) - 1 = k
    BY <1>2, <1>4, <1>5, <1>11
  <2>2. page[k - off] = order[k]
    BY <1>8, <2>1
  <2>3. k - off \in DOMAIN page
    BY <1>2, <1>5, <1>8, <2>1, LenProperties
  <2> QED
    BY <2>2, <2>3 DEF Range
<1>12. ASSUME NEW k \in 1..Len(order), k > hi PROVE Len(page) = PageSize /\ k - 1 >= off + PageSize
  BY <1>2, <1>4, <1>5, <1>8, <1>12
<1> QED
  BY <1>1, <1>2, <1>4, <1>5, <1>9, <1>10, <1>11, <1>12

LEMMA OrderIs ==
  ASSUME NEW rows, IsFiniteSet(rows), NEW order \in Ordered(rows)
  PROVE  order \in Seq(rows)
<1>1. PICK n : n = Cardinality(rows)
  OBVIOUS
<1>2. n \in Nat /\ order \in [1..n -> rows]
  BY <1>1, FS_CardinalityType DEF Ordered, SetToSeqs
<1> QED
  BY <1>2

\* A page takes in the rows whose turn it is.
LEMMA ReaderTurns ==
  ASSUME NEW w, NEW rows, ReadsOn(w, rows), w.at = "reading", IsFiniteSet(rows),
         \A q \in rows : q.at \in Nat,
         NEW order \in Ordered(OfTenant(rows, w.tenant)),
         NEW page, page = PageOf(order, w.page)
  PROVE  Range(page) \subseteq rows /\ ReadsOn(Turned(w, page), rows)
<1>1. PICK selected : selected = OfTenant(rows, w.tenant)
  OBVIOUS
<1>2. /\ selected \subseteq rows /\ IsFiniteSet(selected) /\ order \in Ordered(selected)
      /\ \A q \in selected : q.at \in Nat
  <2>1. selected \in SUBSET rows
    BY <1>1 DEF OfTenant
  <2> QED
    BY <1>1, <2>1, FS_Subset
<1>3. order \in Seq(selected) /\ w.page \in Nat \ {0}
  BY <1>2, OrderIs DEF ReadsOn
<1>4. /\ Range(page) \subseteq selected /\ Len(page) \in 0..PageSize
      /\ \A k \in 1..Len(order) : k > (w.page - 1) * PageSize =>
              \/ order[k] \in Range(page)
              \/ Len(page) = PageSize /\ k - 1 >= w.page * PageSize
  BY <1>3, PageIs
<1>5. GoesOn(w, page) <=> Len(page) = PageSize
  BY <1>3, <1>4, MoreIs DEF GoesOn
<1>6. PICK v : v = Turned(w, page)
  OBVIOUS
<1>7. /\ DOMAIN v = {"at", "page", "tenant", "seen", "since"}
      /\ v.at = IF GoesOn(w, page) THEN "reading" ELSE "read"
      /\ v.page = IF GoesOn(w, page) THEN w.page + 1 ELSE w.page
      /\ v.tenant = w.tenant /\ v.since = w.since
      /\ v.seen = w.seen \cup Range(page)
  BY <1>6 DEF Turned, ReadsOn
<1>8. ASSUME NEW r \in w.since \cap rows
      PROVE  \/ r \in v.seen \/ Tied(r, v.seen \cup rows)
             \/ GoesOn(w, page) /\ Cardinality(Later(selected, r)) >= w.page * PageSize
  <2>1. Ahead(w, r, rows)
    BY <1>8 DEF ReadsOn
  <2>2. CASE r \in w.seen
    BY <1>7, <2>2
  <2>3. CASE Tied(r, w.seen \cup rows)
    BY <1>7, <2>3 DEF Tied
  <2>4. ASSUME Cardinality(Later(selected, r)) >= (w.page - 1) * PageSize, ~Tied(r, rows)
        PROVE  \/ r \in v.seen
               \/ GoesOn(w, page) /\ Cardinality(Later(selected, r)) >= w.page * PageSize
    <3>1. r \in selected
      BY <1>1, <1>8 DEF ReadsOn, OfTenant
    <3>2. ~Tied(r, selected)
      BY <1>2, <2>4 DEF Tied
    <3>3. PICK k \in 1..Len(order) : order[k] = r /\ Cardinality(Later(selected, r)) = k - 1
      BY <1>2, <3>1, <3>2, PlaceInOrder
    <3>4. k \in Nat /\ (w.page - 1) * PageSize \in Nat /\ k > (w.page - 1) * PageSize
      <4>1. PICK c : c = (w.page - 1) * PageSize
        OBVIOUS
      <4>2. c \in Nat
        BY <1>3, <4>1, AuditAssumption
      <4>3. k \in Nat /\ k - 1 >= c
        BY <1>3, <2>4, <3>3, <4>1
      <4> QED
        BY <4>1, <4>2, <4>3
    <3>5. r \in Range(page) \/ (Len(page) = PageSize /\ k - 1 >= w.page * PageSize)
      BY <1>4, <3>3, <3>4
    <3> QED
      BY <1>5, <1>7, <3>3, <3>5
  <2>5. Tied(r, rows) => Tied(r, v.seen \cup rows)
    BY DEF Tied
  <2> QED
    BY <1>1, <2>1, <2>2, <2>3, <2>4, <2>5 DEF Ahead
<1>9. v.seen = OfTenant(v.seen, v.tenant) /\ v.since = OfTenant(v.since, v.tenant)
  <2>1. w.seen = OfTenant(w.seen, w.tenant) /\ w.since = OfTenant(w.since, w.tenant)
    BY DEF ReadsOn
  <2>2. Range(page) = OfTenant(Range(page), w.tenant)
    BY <1>1, <1>4 DEF OfTenant
  <2> QED
    BY <1>7, <2>1, <2>2 DEF OfTenant
<1>10. ASSUME v.at = "reading", NEW r \in v.since \cap rows PROVE Ahead(v, r, rows)
  <2>1. GoesOn(w, page) /\ (v.page - 1) * PageSize = w.page * PageSize
    BY <1>3, <1>7, <1>10
  <2> QED
    BY <1>1, <1>7, <1>8, <1>10, <2>1 DEF Ahead
<1>11. ASSUME v.at = "read", NEW r \in v.since \cap rows
       PROVE  r \in v.seen \/ Tied(r, v.seen \cup rows)
  BY <1>7, <1>8, <1>11
<1>12. v.at \in {"idle", "reading", "read"} /\ v.page \in Nat /\ v.page # 0
  BY <1>3, <1>7
<1>13. ReadsOn(v, rows)
  BY <1>7, <1>9, <1>10, <1>11, <1>12 DEF ReadsOn
<1> QED
  BY <1>2, <1>4, <1>6, <1>13

\* What the reader is handed when he begins.
LEMMA ReaderBegins ==
  ASSUME NEW rows, IsFiniteSet(rows), NEW tenant, NEW w,
         w = [at |-> "reading", page |-> 1, tenant |-> tenant, seen |-> {}, since |-> OfTenant(rows, tenant)]
  PROVE  ReadsOn(w, rows)
<1>1. ASSUME NEW r PROVE Cardinality(Later(OfTenant(rows, tenant), r)) \in Nat
  <2>1. Later(OfTenant(rows, tenant), r) \in SUBSET rows
    BY DEF Later, OfTenant
  <2>2. IsFiniteSet(Later(OfTenant(rows, tenant), r))
    BY <2>1, FS_Subset
  <2> QED
    BY <2>2, FS_CardinalityType
<1>2. (1 - 1) * PageSize = 0
  BY AuditAssumption
<1>3. ASSUME NEW r \in w.since \cap rows PROVE Ahead(w, r, rows)
  <2>1. Cardinality(Later(OfTenant(rows, w.tenant), r)) >= (w.page - 1) * PageSize
    BY <1>1, <1>2
  <2> QED
    BY <2>1 DEF Ahead
<1>4. w.seen = OfTenant(w.seen, w.tenant) /\ w.since = OfTenant(w.since, w.tenant)
  BY DEF OfTenant
<1> QED
  BY <1>3, <1>4 DEF ReadsOn

LEMMA AuditInitially == AuditInit => AuditInv
<1> SUFFICES ASSUME AuditInit PROVE AuditInv
  OBVIOUS
<1>1. Range(audit_log) = {} /\ audit_log \in Seq({})
  BY DEF AuditInit, Range
<1>2. LogIsSound
  BY <1>1 DEF AuditInit, LogIsSound, NoWalk
<1>3. ReadsOn(walk, {})
  BY DEF AuditInit, ReadsOn, NoWalk, OfTenant
<1> QED
  BY <1>1, <1>2, <1>3 DEF AuditInv

\* Each step keeps what the log and the reader are.
LEMMA AuditStep == AuditInv /\ [AuditNext]_auditVars => AuditInv'
<1> SUFFICES ASSUME AuditInv, [AuditNext]_auditVars PROVE AuditInv'
  OBVIOUS
<1>1. PICK rows : rows = Range(audit_log)
  OBVIOUS
<1>2. /\ now \in Nat /\ events \in Nat /\ audit_log \in Seq(rows) /\ IsFiniteSet(rows)
      /\ \A e \in writing \cup rows \cup walk.since \cup walk.seen : Dated(e, events, now)
      /\ writing \cap (rows \cup walk.since) = {}
      /\ ReadsOn(walk, rows)
  <2>1. audit_log \in Seq(rows)
    BY <1>1 DEF AuditInv, LogIsSound
  <2> QED
    BY <1>1, <2>1, RangeFacts DEF AuditInv, LogIsSound
<1>3. \A e \in writing \cup rows \cup walk.since \cup walk.seen : e.at \in Nat
  BY <1>2 DEF Dated
\* The log and the reader as they are, the rest moved on.
<1>4. ASSUME audit_log' = audit_log, walk' = walk, now' \in Nat, events' \in Nat,
             \A e \in writing' \cup rows \cup walk.since \cup walk.seen : Dated(e, events', now'),
             writing' \cap (rows \cup walk.since) = {}
      PROVE  AuditInv'
  <2>1. rows = Range(audit_log')
    BY <1>1, <1>4
  <2> QED
    BY <1>2, <1>4, <2>1 DEF AuditInv, LogIsSound
\* Another log, the same reader.
<1>5. ASSUME NEW later, Range(audit_log') = later, audit_log' \in Seq(later), IsFiniteSet(later),
             UNCHANGED <<now, events, walk>>, writing' \subseteq writing,
             later \subseteq rows \cup writing, writing' \cap later = {},
             \A q \in rows, r \in later \cap walk.since : q.at >= r.at => q \in later
      PROVE  AuditInv'
  <2>1. ReadsOn(walk, later)
    <3>1. \A r \in later \cap walk.since : r \in rows
      BY <1>2, <1>5
    <3>2. \A q \in rows \cup later \cup walk.seen \cup walk.since : q.at \in Nat
      BY <1>3, <1>5
    <3> QED
      BY <1>2, <1>5, <3>1, <3>2, ReaderStands
  <2>2. /\ \A e \in writing' \cup later \cup walk.since \cup walk.seen : Dated(e, events, now)
        /\ writing' \cap (later \cup walk.since) = {}
    BY <1>2, <1>5
  <2> QED
    BY <1>2, <1>5, <2>1, <2>2 DEF AuditInv, LogIsSound
\* Another reader, all else as it is.
<1>6. ASSUME UNCHANGED <<now, events, writing, audit_log>>, ReadsOn(walk', rows),
             \A e \in walk'.since \cup walk'.seen : Dated(e, events, now),
             writing \cap walk'.since = {}
      PROVE  AuditInv'
  <2>1. rows = Range(audit_log')
    BY <1>1, <1>6
  <2> QED
    BY <1>2, <1>6, <2>1 DEF AuditInv, LogIsSound
<1>7. ASSUME NEW r \in Requests, NEW status \in {201, 404}, AuditCapture(r, status) PROVE AuditInv'
  <2>1. PICK e : e = Stamped(BuildAuditEvent(r), events + 1, now)
    OBVIOUS
  <2>2. writing' = writing \cup {e} /\ events' = events + 1 /\ UNCHANGED <<now, audit_log, walk>>
    BY <1>7, <2>1 DEF AuditCapture
  <2>3. e.id = events + 1 /\ e.at = now
    <3>1. PICK event : event = BuildAuditEvent(r)
      OBVIOUS
    <3>2. e = Stamped(event, events + 1, now)
      BY <2>1, <3>1
    <3> QED
      BY <3>2 DEF Stamped
  <2>4. \A x : Dated(x, events, now) => Dated(x, events + 1, now) /\ x # e
    BY <1>2, <2>3 DEF Dated
  <2>5. Dated(e, events + 1, now)
    BY <1>2, <2>3 DEF Dated
  <2>6. events + 1 \in Nat
    BY <1>2
  <2>7. \A x \in writing' \cup rows \cup walk.since \cup walk.seen : Dated(x, events + 1, now)
    BY <1>2, <2>2, <2>4, <2>5
  <2>8. writing' \cap (rows \cup walk.since) = {}
    BY <1>2, <2>2, <2>4
  <2> QED
    BY <1>2, <1>4, <2>2, <2>6, <2>7, <2>8
<1>8. ASSUME NEW e \in writing, InsertEnds(e) PROVE AuditInv'
  <2>1. writing' = writing \ {e} /\ UNCHANGED <<now, events, walk>>
    BY <1>8 DEF InsertEnds
  <2>2. CASE audit_log' = audit_log
    BY <1>1, <1>2, <1>5, <2>1, <2>2
  <2>3. CASE audit_log' = Append(audit_log, e)
    <3>1. audit_log' \in Seq(rows \cup {e}) /\ Range(audit_log') = rows \cup {e}
      <4>1. PICK s, t : s = audit_log /\ t = audit_log'
        OBVIOUS
      <4>2. s \in Seq(rows) /\ t = Append(s, e) /\ Range(s) = rows
        BY <1>1, <1>2, <2>3, <4>1
      <4>3. t \in Seq(rows \cup {e}) /\ Range(t) = Range(s) \cup {e}
        BY <4>2, AppendedRange
      <4> QED
        BY <4>1, <4>2, <4>3
    <3>2. IsFiniteSet(rows \cup {e})
      BY <1>2, FS_AddElement
    <3> QED
      BY <1>2, <1>5, <2>1, <3>1, <3>2
  <2> QED
    BY <1>8, <2>2, <2>3 DEF InsertEnds
<1>9. ASSUME NEW before \in 1..MaxNow, Purge(before) PROVE AuditInv'
  <2>1. PICK kept : kept = {r \in rows : r.at >= before}
    OBVIOUS
  <2>2. audit_log' = Filter(audit_log, kept) /\ UNCHANGED <<now, writing, events, walk>>
    BY <1>1, <1>9, <2>1 DEF Purge
  <2>3. audit_log' \in Seq(rows) /\ Range(audit_log') = rows \cap kept
    BY <1>1, <1>2, <2>2, FilteredRange
  <2>4. rows \cap kept = kept
    BY <2>1
  <2>5. audit_log' \in Seq(kept)
    BY <2>3, <2>4, RangeFacts
  <2>6. IsFiniteSet(kept)
    BY <1>2, <2>4, FS_Subset
  <2>7. \A q \in rows, r \in kept : q.at >= r.at => q \in kept
    <3>1. before \in Nat
      BY AuditAssumption
    <3> QED
      BY <1>3, <2>1, <3>1
  <2> QED
    BY <1>2, <1>5, <2>2, <2>3, <2>4, <2>5, <2>6, <2>7
<1>10. ASSUME NEW t \in {r.tenant : r \in Requests}, StartWalk(t) PROVE AuditInv'
  <2>1. PICK v : v = walk'
    OBVIOUS
  <2>2. /\ v = [at |-> "reading", page |-> 1, tenant |-> t, seen |-> {}, since |-> OfTenant(rows, t)]
        /\ UNCHANGED <<now, writing, audit_log, events>>
    BY <1>1, <1>10, <2>1 DEF StartWalk, Selected, OfTenant
  <2>3. ReadsOn(v, rows)
    BY <1>2, <2>2, ReaderBegins
  <2>4. v.since \subseteq rows /\ v.seen = {}
    BY <2>2 DEF OfTenant
  <2> QED
    BY <1>2, <1>6, <2>1, <2>2, <2>3, <2>4
<1>11. ASSUME Query PROVE AuditInv'
  <2>1. PICK w : w = walk
    OBVIOUS
  <2>2. w.at = "reading" /\ UNCHANGED <<now, writing, audit_log, events>>
    BY <1>11, <2>1 DEF Query
  <2>3. Selected(w.tenant) = OfTenant(rows, w.tenant)
    BY <1>1 DEF Selected, OfTenant
  <2>4. PICK order \in Ordered(OfTenant(rows, w.tenant)) : walk' = Turned(w, PageOf(order, w.page))
    BY <1>11, <2>1, <2>3 DEF Query, Turned, GoesOn, PageOf
  <2>5. PICK page : page = PageOf(order, w.page)
    OBVIOUS
  <2>6. PICK v : v = Turned(w, page)
    OBVIOUS
  <2>7. Range(page) \subseteq rows /\ ReadsOn(v, rows)
    <3>1. ReadsOn(w, rows) /\ \A q \in rows : q.at \in Nat
      BY <1>2, <1>3, <2>1
    <3> QED
      BY <1>2, <2>2, <2>4, <2>5, <2>6, <3>1, ReaderTurns
  <2>8. v.since = w.since /\ v.seen = w.seen \cup Range(page)
    BY <1>2, <2>1, <2>6 DEF Turned, ReadsOn
  <2>9. walk' = v
    BY <2>4, <2>5, <2>6
  <2> QED
    BY <1>2, <1>6, <2>1, <2>2, <2>7, <2>8, <2>9
<1>12. ASSUME EndWalk PROVE AuditInv'
  <2>1. walk' = NoWalk /\ UNCHANGED <<now, writing, audit_log, events>>
    BY <1>12 DEF EndWalk
  <2>2. ReadsOn(NoWalk, rows) /\ NoWalk.since = {} /\ NoWalk.seen = {}
    BY DEF ReadsOn, NoWalk, OfTenant
  <2> QED
    BY <1>2, <1>6, <2>1, <2>2
<1>13. ASSUME Tick PROVE AuditInv'
  <2>1. now' = now + 1 /\ UNCHANGED <<writing, audit_log, events, walk>>
    BY <1>13 DEF Tick
  <2>2. \A x : Dated(x, events, now) => Dated(x, events, now + 1)
    BY <1>2 DEF Dated
  <2> QED
    BY <1>2, <1>4, <2>1, <2>2
<1>14. CASE UNCHANGED auditVars
  BY <1>2, <1>4, <1>14 DEF auditVars
<1> QED
  BY <1>7, <1>8, <1>9, <1>10, <1>11, <1>12, <1>13, <1>14 DEF AuditNext

\* AuditService.query() under writes and purges: whoever reads page after page until meta
\* names no more has seen every row that was there and still is, but for one that shares its
\* millisecond, and only rows of the tenant he asked for.
THEOREM WalkSeesAllEver == AuditSpec => []WalkSeesAll
<1>1. AuditInv => WalkSeesAll
  <2> SUFFICES ASSUME AuditInv, walk.at = "read"
               PROVE  /\ \A r \in walk.since \cap Range(audit_log) :
                           \/ r \in walk.seen
                           \/ \E q \in walk.seen \cup Range(audit_log) : q.at = r.at /\ q # r
                      /\ walk.tenant # NoTenantYet => \A r \in walk.seen : r.tenant = walk.tenant
    BY DEF WalkSeesAll
  <2>1. \A r \in walk.since \cap Range(audit_log) :
          r \in walk.seen \/ Tied(r, walk.seen \cup Range(audit_log))
    BY DEF AuditInv, ReadsOn
  <2>2. walk.seen = OfTenant(walk.seen, walk.tenant)
    BY DEF AuditInv, ReadsOn
  <2>3. ASSUME NEW r \in walk.seen, walk.tenant # NoTenantYet PROVE r.tenant = walk.tenant
    BY <2>2, <2>3 DEF OfTenant
  <2> QED
    BY <2>1, <2>3 DEF Tied
<1> QED
  BY <1>1, AuditInitially, AuditStep, PTL DEF AuditSpec

-----------------------------------------------------------------------------
(* Arrays of arrays, place by place.                                       *)

\* The places of flat, which joins the first n arrays of ss: the k-th is place off[k] of
\* array blk[k], all places of these arrays are among them, and they are in order.
Before(blk, off, j, k) == blk[j] < blk[k] \/ (blk[j] = blk[k] /\ off[j] < off[k])
FlatOf(flat, l, ss, n, blk, off) ==
  /\ blk \in [1..l -> Nat] /\ off \in [1..l -> Nat]
  /\ \A k \in 1..l : blk[k] \in 1..n /\ off[k] \in 1..Len(ss[blk[k]]) /\ flat[k] = ss[blk[k]][off[k]]
  /\ \A i \in 1..n : \A o \in 1..Len(ss[i]) : \E k \in 1..l : blk[k] = i /\ off[k] = o
  /\ \A j, k \in 1..l : j < k => Before(blk, off, j, k)
FlatAt(flat, ss, n, blk, off) == FlatOf(flat, Len(flat), ss, n, blk, off)

LEMMA FlatMore ==
  ASSUME NEW S, NEW ss \in Seq(Seq(S)), NEW n \in Nat, n + 1 \in 1..Len(ss), NEW flat \in Seq(S),
         NEW b0, NEW o0, FlatAt(flat, ss, n, b0, o0)
  PROVE  \E blk, off : FlatAt(flat \o ss[n + 1], ss, n + 1, blk, off)
<1>1. PICK l, m, s : l = Len(flat) /\ s = ss[n + 1] /\ m = Len(s)
  OBVIOUS
<1>2. s \in Seq(S) /\ l \in Nat /\ m \in Nat
  BY <1>1, LenProperties
<1>3. PICK more : more = flat \o s
  OBVIOUS
<1>4. /\ Len(more) = l + m
      /\ \A k \in 1..l : more[k] = flat[k]
      /\ \A k \in 1..m : more[l + k] = s[k]
  BY <1>1, <1>2, <1>3, LenProperties
<1>5. \A k \in 1..(l + m) : k \in 1..l \/ (k - l \in 1..m /\ l + (k - l) = k /\ k \notin 1..l)
  BY <1>2
<1>6. /\ b0 \in [1..l -> Nat] /\ o0 \in [1..l -> Nat]
      /\ \A k \in 1..l : b0[k] \in 1..n /\ o0[k] \in 1..Len(ss[b0[k]]) /\ flat[k] = ss[b0[k]][o0[k]]
      /\ \A i \in 1..n : \A o \in 1..Len(ss[i]) : \E k \in 1..l : b0[k] = i /\ o0[k] = o
      /\ \A j, k \in 1..l : j < k => Before(b0, o0, j, k)
  BY <1>1 DEF FlatAt, FlatOf
<1>7. PICK blk, off :
        /\ blk = [k \in 1..(l + m) |-> IF k \in 1..l THEN b0[k] ELSE n + 1]
        /\ off = [k \in 1..(l + m) |-> IF k \in 1..l THEN o0[k] ELSE k - l]
  OBVIOUS
<1>8. \A k \in 1..l : k \in 1..(l + m)
  BY <1>2
<1>9. \A k \in 1..l : blk[k] = b0[k] /\ off[k] = o0[k] /\ blk[k] \in Nat /\ off[k] \in Nat
  BY <1>6, <1>7, <1>8
<1>10. \A k \in 1..m : l + k \in 1..(l + m) /\ l + k \notin 1..l /\ (l + k) - l = k
  BY <1>2
<1>11. \A k \in 1..m : blk[l + k] = n + 1 /\ off[l + k] = k
  BY <1>7, <1>10
<1>12. blk \in [1..(l + m) -> Nat] /\ off \in [1..(l + m) -> Nat]
  <2>1. ASSUME NEW k \in 1..(l + m) PROVE blk[k] \in Nat /\ off[k] \in Nat
    <3>1. CASE k \in 1..l
      BY <1>9, <3>1
    <3>2. CASE k \notin 1..l
      BY <1>2, <1>7, <3>2
    <3> QED
      BY <3>1, <3>2
  <2> QED
    BY <1>7, <2>1
<1>13. ASSUME NEW k \in 1..(l + m)
       PROVE  blk[k] \in 1..(n + 1) /\ off[k] \in 1..Len(ss[blk[k]]) /\ more[k] = ss[blk[k]][off[k]]
  <2>1. CASE k \in 1..l
    <3>1. b0[k] \in 1..n /\ o0[k] \in 1..Len(ss[b0[k]]) /\ flat[k] = ss[b0[k]][o0[k]]
      BY <1>6, <2>1
    <3>2. blk[k] = b0[k] /\ off[k] = o0[k] /\ more[k] = flat[k]
      BY <1>4, <1>9, <2>1
    <3>3. blk[k] \in 1..(n + 1)
      BY <3>1, <3>2
    <3> QED
      BY <3>1, <3>2, <3>3
  <2>2. CASE k \notin 1..l
    <3>1. PICK o \in 1..m : k = l + o
      BY <1>5, <2>2
    <3>2. blk[k] = n + 1 /\ off[k] = o /\ more[k] = s[o]
      BY <1>4, <1>11, <3>1
    <3> QED
      BY <1>1, <3>1, <3>2
  <2> QED
    BY <2>1, <2>2
<1>14. ASSUME NEW i \in 1..(n + 1), NEW o \in 1..Len(ss[i])
       PROVE  \E k \in 1..(l + m) : blk[k] = i /\ off[k] = o
  <2>0. i \in 1..n \/ i = n + 1
    OBVIOUS
  <2>1. CASE i \in 1..n
    <3>1. PICK k \in 1..l : b0[k] = i /\ o0[k] = o
      BY <1>6, <2>1
    <3> QED
      BY <1>8, <1>9, <3>1
  <2>2. CASE i = n + 1
    BY <1>1, <1>10, <1>11, <2>2
  <2> QED
    BY <2>0, <2>1, <2>2
<1>15. ASSUME NEW j \in 1..(l + m), NEW k \in 1..(l + m), j < k PROVE Before(blk, off, j, k)
  <2>1. CASE k \in 1..l
    <3>1. j \in 1..l
      BY <1>2, <1>15, <2>1
    <3>2. Before(b0, o0, j, k)
      BY <1>6, <1>15, <2>1, <3>1
    <3> QED
      BY <1>9, <2>1, <3>1, <3>2 DEF Before
  <2>2. CASE k \notin 1..l /\ j \in 1..l
    <3>1. blk[j] \in 1..n
      BY <1>6, <1>9, <2>2
    <3>2. blk[k] = n + 1
      BY <1>7, <2>2
    <3> QED
      BY <3>1, <3>2 DEF Before
  <2>3. CASE k \notin 1..l /\ j \notin 1..l
    <3>1. blk[j] = n + 1 /\ blk[k] = n + 1 /\ off[j] = j - l /\ off[k] = k - l
      BY <1>7, <2>3
    <3> QED
      BY <1>2, <1>15, <3>1 DEF Before
  <2> QED
    BY <2>1, <2>2, <2>3
<1>16. FlatAt(more, ss, n + 1, blk, off)
  BY <1>4, <1>12, <1>13, <1>14, <1>15 DEF FlatAt, FlatOf
<1> QED
  BY <1>1, <1>3, <1>16

LEMMA FlattenPlaces ==
  ASSUME NEW S, NEW ss \in Seq(Seq(S))
  PROVE  /\ FlattenSeq(ss) \in Seq(S)
         /\ \E blk, off : FlatAt(FlattenSeq(ss), ss, Len(ss), blk, off)
<1>1. PICK n, flat : n = Len(ss) /\ flat = FlattenSeq(ss)
  OBVIOUS
<1>2. n \in Nat /\ DOMAIN ss = 1..n
  BY <1>1, LenProperties
<1>3. PICK g : Joins(g, S, ss, n) /\ flat = g[n]
  BY <1>1, FlattenIs
<1>4. g \in [0..n -> Seq(S)] /\ g[0] = <<>> /\ \A i \in 1..n : g[i] = g[i - 1] \o ss[i]
  BY <1>3 DEF Joins
<1>5. PICK good : good = {i \in 0..n : \E blk, off : FlatAt(g[i], ss, i, blk, off)}
  OBVIOUS
<1>6. 0 \in good
  <2>1. PICK none : none = [k \in 1..0 |-> 0]
    OBVIOUS
  <2>2. FlatAt(g[0], ss, 0, none, none)
    BY <1>4, <2>1 DEF FlatAt, FlatOf
  <2> QED
    BY <1>2, <1>5, <2>2
<1>7. ASSUME NEW i \in 0..n, i \in good, i < n PROVE i + 1 \in good
  <2>1. i + 1 \in 1..n /\ (i + 1) - 1 = i /\ i + 1 \in 0..n /\ i \in Nat
    BY <1>2, <1>7
  <2>2. PICK before, b0, o0 : before = g[i] /\ FlatAt(before, ss, i, b0, o0)
    BY <1>5, <1>7
  <2>3. before \in Seq(S)
    BY <1>4, <2>2
  <2>4. \E blk, off : FlatAt(before \o ss[i + 1], ss, i + 1, blk, off)
    BY <1>1, <2>1, <2>2, <2>3, FlatMore
  <2>5. g[i + 1] = before \o ss[i + 1]
    BY <1>4, <2>1, <2>2
  <2> QED
    BY <1>5, <2>1, <2>4, <2>5
<1>8. Climbs(good, n)
  BY <1>6, <1>7 DEF Climbs
<1>9. n \in good
  BY <1>2, <1>8, Upwards
<1>10. flat \in Seq(S)
  BY <1>2, <1>3, <1>4
<1> QED
  BY <1>1, <1>3, <1>5, <1>9, <1>10


LEMMA AscendingIs ==
  ASSUME NEW P \in SUBSET Nat, IsFiniteSet(P)
  PROVE  /\ Cardinality(P) \in Nat /\ Ascending(P) \in [1..Cardinality(P) -> P]
         /\ \A j, k \in 1..Cardinality(P) : j < k => Ascending(P)[j] < Ascending(P)[k]
<1>1. PICK count : count = [i \in P |-> Cardinality(UpTo(P, i))]
  OBVIOUS
<1>2. PICK n : n = Cardinality(P)
  OBVIOUS
<1>3. /\ n \in Nat /\ count \in [P -> 1..n]
      /\ \A i, j \in P : i < j <=> count[i] < count[j]
      /\ \A k \in 1..n : \E i \in P : count[i] = k
  BY <1>1, <1>2, CountsUp
<1> DEFINE at(k) == CHOOSE i \in P : Cardinality(UpTo(P, i)) = k
<1>4. \A k \in 1..n : at(k) \in P /\ count[at(k)] = k
  <2>1. ASSUME NEW k \in 1..n PROVE at(k) \in P /\ Cardinality(UpTo(P, at(k))) = k
    <3>1. \E i \in P : Cardinality(UpTo(P, i)) = k
      BY <1>1, <1>3
    <3> QED
      BY <3>1
  <2> QED
    BY <1>1, <2>1
<1>5. Ascending(P) = [k \in 1..n |-> at(k)]
  BY <1>2 DEF Ascending
<1> HIDE DEF at
<1>6. PICK all : all = [k \in 1..n |-> at(k)]
  OBVIOUS
<1>7. \A j, k \in 1..n : j < k => all[j] < all[k]
  <2>1. ASSUME NEW j \in 1..n, NEW k \in 1..n, j < k PROVE at(j) < at(k)
    <3>1. at(j) \in P /\ at(k) \in P /\ count[at(j)] < count[at(k)]
      BY <1>4, <2>1
    <3> QED
      BY <1>3, <3>1
  <2> QED
    BY <1>6, <2>1
<1>8. all \in [1..n -> P]
  BY <1>4, <1>6
<1> QED
  BY <1>2, <1>3, <1>5, <1>6, <1>7, <1>8

-----------------------------------------------------------------------------
(* Versions of a plugin, as they are found.                                *)

\* Sorted by their numbers, and no two of them one.
Apart(v, w) == ~(v.core = w.core /\ v.tag = w.tag)
Versioned(vs) ==
  /\ vs \in Seq(Range(vs))
  /\ \A v \in Range(vs) : v.core \in Nat /\ v.files \subseteq Range(Phases)
  /\ \A j, k \in 1..Len(vs) : j < k => vs[j].core <= vs[k].core /\ Apart(vs[j], vs[k])

\* A directory of versions, as readdir gives it.
Directory(vs) ==
  /\ vs \in Seq(Range(vs))
  /\ \A v \in Range(vs) : v.core \in Nat /\ v.files \subseteq Range(Phases)
  /\ \A j, k \in 1..Len(vs) : j # k => Apart(vs[j], vs[k])

\* The places in s of what out has kept.
Kept(out, s, T, place) ==
  /\ place \in [1..Len(out) -> 1..Len(s)]
  /\ \A k \in 1..Len(out) : out[k] = s[place[k]] /\ s[place[k]] \in T
  /\ \A k, l \in 1..Len(out) : k < l => place[k] < place[l]
  /\ \A i \in 1..Len(s) : s[i] \in T => \E k \in 1..Len(out) : place[k] = i

LEMMA FilteredFrom ==
  ASSUME NEW S, NEW s \in Seq(S), NEW T
  PROVE  Filter(s, T) \in Seq(S) /\ \E place : Kept(Filter(s, T), s, T, place)
<1>0. PICK out : out = Filter(s, T)
  OBVIOUS
<1>1. DOMAIN s = 1..Len(s) /\ out \in Seq(S)
  BY <1>0, FilterFacts, LenProperties
<1>2. PICK place \in [1..Len(out) -> DOMAIN s] :
        /\ \A k \in 1..Len(out) : out[k] = s[place[k]] /\ s[place[k]] \in T
        /\ \A k, l \in 1..Len(out) : k < l => place[k] < place[l]
        /\ \A i \in DOMAIN s : s[i] \in T => \E k \in 1..Len(out) : place[k] = i
  BY <1>0, FilterFacts
<1>3. place \in [1..Len(out) -> 1..Len(s)]
  BY <1>1, <1>2
<1>4. \A i \in 1..Len(s) : s[i] \in T => \E k \in 1..Len(out) : place[k] = i
  BY <1>1, <1>2
<1> QED
  BY <1>0, <1>1, <1>2, <1>3, <1>4 DEF Kept

LEMMA SortedIs ==
  ASSUME NEW vs, Directory(vs)
  PROVE  Versioned(Sorted(vs))
<1>1. PICK S, n : S = Range(vs) /\ n = Len(vs)
  OBVIOUS
<1>2. /\ vs \in Seq(S) /\ n \in Nat /\ DOMAIN vs = 1..n
      /\ \A v \in S : v.core \in Nat /\ v.files \subseteq Range(Phases)
      /\ \A j, k \in 1..n : j # k => Apart(vs[j], vs[k])
      /\ S = {vs[i] : i \in 1..n}
  BY <1>1, LenProperties DEF Directory, Range
<1>3. PICK P : P = {v.core : v \in S}
  OBVIOUS
<1>4. P \in SUBSET Nat /\ IsFiniteSet(P)
  <2>1. P \in SUBSET Nat
    BY <1>2, <1>3
  <2>2. PICK f : f = [i \in 1..n |-> vs[i].core]
    OBVIOUS
  <2>3. f \in Surjection(1..n, P)
    <3>1. f \in [1..n -> P]
      BY <1>2, <1>3, <2>2
    <3>2. \A c \in P : \E i \in 1..n : f[i] = c
      BY <1>2, <1>3, <2>2
    <3> QED
      BY <3>1, <3>2 DEF Surjection
  <2>4. IsFiniteSet(1..n)
    <3>1. 1 \in Int /\ n \in Int
      BY <1>2
    <3> QED
      BY ONLY <3>1, FS_Interval, Zenon
  <2> QED
    BY <2>1, <2>3, <2>4, FS_Surjection
<1>5. PICK cores, c : cores = Ascending(P) /\ c = Cardinality(P)
  OBVIOUS
<1>6. c \in Nat /\ cores \in [1..c -> P] /\ \A j, k \in 1..c : j < k => cores[j] < cores[k]
  BY <1>4, <1>5, AscendingIs
<1>7. DOMAIN cores = 1..c
  BY <1>6
<1>8. PICK ss : ss = [i \in 1..c |-> Filter(vs, {v \in S : v.core = cores[i]})]
  OBVIOUS
<1>9. Sorted(vs) = FlattenSeq(ss)
  BY <1>1, <1>3, <1>5, <1>7, <1>8 DEF Sorted
<1>10. ASSUME NEW i \in 1..c
       PROVE  /\ ss[i] \in Seq(S)
              /\ \E place \in [1..Len(ss[i]) -> 1..n] :
                   /\ \A k \in 1..Len(ss[i]) : ss[i][k] = vs[place[k]] /\ vs[place[k]].core = cores[i]
                   /\ \A k, l \in 1..Len(ss[i]) : k < l => place[k] < place[l]
  <2>1. PICK T, out : T = {v \in S : v.core = cores[i]} /\ out = Filter(vs, T)
    OBVIOUS
  <2>2. ss[i] = out
    BY <1>8, <2>1
  <2>3. out \in Seq(S)
    BY <1>2, <2>1, FilteredFrom
  <2>40. PICK place : Kept(out, vs, T, place)
    BY <1>2, <2>1, FilteredFrom
  <2>4. /\ place \in [1..Len(out) -> 1..Len(vs)]
        /\ \A k \in 1..Len(out) : out[k] = vs[place[k]] /\ vs[place[k]] \in T
        /\ \A k, l \in 1..Len(out) : k < l => place[k] < place[l]
    BY <2>40 DEF Kept
  <2>5. \A k \in 1..Len(out) : vs[place[k]].core = cores[i]
    BY <2>1, <2>4
  <2> QED
    BY <1>1, <2>2, <2>3, <2>4, <2>5
<1>11. ss \in Seq(Seq(S)) /\ Len(ss) = c
  <2>1. ss \in [1..c -> Seq(S)]
    BY <1>8, <1>10
  <2> QED
    BY <1>6, <2>1
<1>12. PICK new, blk, off : new = FlattenSeq(ss) /\ FlatAt(new, ss, c, blk, off)
  BY <1>11, FlattenPlaces
<1>13. new \in Seq(S)
  BY <1>11, <1>12, FlattenPlaces
<1>14. PICK m : m = Len(new)
  OBVIOUS
<1>15. /\ \A k \in 1..m : blk[k] \in 1..c /\ off[k] \in 1..Len(ss[blk[k]]) /\ new[k] = ss[blk[k]][off[k]]
       /\ \A j, k \in 1..m : j < k => Before(blk, off, j, k)
  BY <1>12, <1>14 DEF FlatAt, FlatOf
<1>16. m \in Nat /\ DOMAIN new = 1..m
  BY <1>13, <1>14, LenProperties
<1>17. ASSUME NEW k \in 1..m PROVE new[k].core = cores[blk[k]]
  <2>1. PICK i, o : i = blk[k] /\ o = off[k]
    OBVIOUS
  <2>2. i \in 1..c /\ o \in 1..Len(ss[i]) /\ new[k] = ss[i][o]
    BY <1>15, <2>1
  <2> QED
    BY <1>10, <2>1, <2>2
<1>18. ASSUME NEW j \in 1..m, NEW k \in 1..m, j < k PROVE new[j].core <= new[k].core /\ Apart(new[j], new[k])
  <2>1. blk[j] < blk[k] \/ (blk[j] = blk[k] /\ off[j] < off[k])
    BY <1>15, <1>18 DEF Before
  <2>2. blk[j] \in 1..c /\ blk[k] \in 1..c /\ new[j].core = cores[blk[j]] /\ new[k].core = cores[blk[k]]
    BY <1>15, <1>17
  <2>3. cores[blk[j]] \in Nat /\ cores[blk[k]] \in Nat
    BY <1>4, <1>6, <2>2
  <2>4. CASE blk[j] < blk[k]
    <3>1. cores[blk[j]] < cores[blk[k]]
      BY <1>6, <2>2, <2>4
    <3> QED
      BY <2>2, <2>3, <3>1 DEF Apart
  <2>5. CASE blk[j] = blk[k] /\ off[j] < off[k]
    <3>1. PICK i, o, q : i = blk[k] /\ o = off[j] /\ q = off[k]
      OBVIOUS
    <3>2. /\ i \in 1..c /\ o \in 1..Len(ss[i]) /\ q \in 1..Len(ss[i]) /\ o < q
          /\ new[j] = ss[i][o] /\ new[k] = ss[i][q]
      BY <1>15, <2>5, <3>1
    <3>3. PICK place \in [1..Len(ss[i]) -> 1..n] :
            /\ \A h \in 1..Len(ss[i]) : ss[i][h] = vs[place[h]] /\ vs[place[h]].core = cores[i]
            /\ \A h, l \in 1..Len(ss[i]) : h < l => place[h] < place[l]
      BY <1>10, <3>2
    <3>4. PICK a, b : a = place[o] /\ b = place[q]
      OBVIOUS
    <3>5. a \in 1..n /\ b \in 1..n /\ a # b /\ new[j] = vs[a] /\ new[k] = vs[b]
      BY <3>2, <3>3, <3>4
    <3>6. Apart(new[j], new[k])
      BY <1>2, <3>5
    <3> QED
      BY <2>2, <2>3, <2>5, <3>6
  <2> QED
    BY <2>1, <2>4, <2>5
<1>19. new \in Seq(Range(new)) /\ Range(new) \subseteq S
  <2>1. \A k \in 1..m : new[k] \in Range(new) /\ new[k] \in S
    BY <1>13, <1>14, <1>16 DEF Range
  <2>2. new \in [1..m -> Range(new)]
    BY <1>13, <1>14, <1>16, <2>1
  <2>3. \A x \in Range(new) : \E k \in 1..m : x = new[k]
    BY <1>16 DEF Range
  <2>4. Range(new) \subseteq S
    BY <2>1, <2>3
  <2> QED
    BY <1>16, <2>2, <2>4
<1>20. Versioned(new)
  BY <1>2, <1>14, <1>18, <1>19 DEF Versioned
<1> QED
  BY <1>9, <1>12, <1>20

\* What discoverMigrations returns.
FoundIsSound(found) ==
  /\ DOMAIN found \subseteq Range(PluginOrder)
  /\ \A p \in DOMAIN found : Versioned(found[p])

LEMMA DiscoverIsSound ==
  ASSUME NEW unread
  PROVE  FoundIsSound(Discover(unread))
<1> DEFINE Finds(i, p) == {e \in Range(Disk[i]) : e.plugin = p /\ <<i, p>> \notin unread /\ e.versions # <<>>}
           paths(p) == {i \in DOMAIN Disk : Finds(i, p) # {}}
           last(p) == CHOOSE i \in paths(p) : \A j \in paths(p) : j <= i
           entry(p) == CHOOSE e \in Finds(last(p), p) : TRUE
<1>1. PICK found : found = [p \in {q \in Range(PluginOrder) : paths(q) # {}} |-> Sorted(entry(p).versions)]
  OBVIOUS
<1>2. Discover(unread) = found
  BY <1>1, Zenon DEF Discover
<1>3. ASSUME NEW p, paths(p) # {}
      PROVE  Versioned(Sorted(entry(p).versions))
  <2>1. PICK some : some = paths(p)
    OBVIOUS
  <2>2. some \in SUBSET Nat /\ some # {} /\ IsFiniteSet(some)
    <3>1. DOMAIN Disk = 1..Len(Disk) /\ Len(Disk) \in Nat
      BY DiskAssumption, LenProperties
    <3>2. some \subseteq 1..Len(Disk)
      BY <2>1, <3>1
    <3>3. IsFiniteSet(1..Len(Disk))
      BY <3>1, FS_Interval
    <3>4. IsFiniteSet(some)
      BY <3>2, <3>3, FS_Subset
    <3>5. some \in SUBSET Nat
      BY <3>1, <3>2
    <3>6. some # {}
      BY <1>3, <2>1, Zenon
    <3> QED
      BY <3>4, <3>5, <3>6
  <2>3. \E i \in some : \A j \in some : j <= i
    BY <2>2, Extremes
  <2>4. PICK i : i = last(p)
    OBVIOUS
  <2>5. i \in some
    BY <2>1, <2>3, <2>4, Zenon
  <2>6. i \in DOMAIN Disk /\ Finds(i, p) # {}
    BY <2>1, <2>5
  <2>7. PICK e, vs : e = entry(p) /\ vs = e.versions
    OBVIOUS
  <2>8. e \in Finds(i, p)
    <3>1. e = CHOOSE x \in Finds(i, p) : TRUE
      BY <2>4, <2>7, Zenon
    <3> HIDE DEF Finds
    <3> QED
      BY <2>6, <3>1
  <2>9. e \in Range(Disk[i])
    BY <2>8
  <2>10. /\ vs \in Seq(Range(vs))
         /\ \A v \in Range(vs) : v.core \in Nat /\ v.files \subseteq Range(Phases)
         /\ \A j, k \in DOMAIN vs : vs[j].core = vs[k].core /\ vs[j].tag = vs[k].tag => j = k
    <3> HIDE DEF Finds, paths, last, entry
    <3> QED
      BY <2>6, <2>7, <2>9, DiskAssumption
  <2>11. DOMAIN vs = 1..Len(vs)
    BY <2>10, LenProperties
  <2>12. Directory(vs)
    BY <2>10, <2>11 DEF Directory, Apart
  <2>13. Versioned(Sorted(vs))
    BY <2>12, SortedIs
  <2> QED
    BY <2>7, <2>13, Zenon
<1> HIDE DEF Finds, paths, last, entry
<1>4. DOMAIN found \subseteq Range(PluginOrder)
  BY <1>1
<1>5. \A p \in DOMAIN found : Versioned(found[p])
  BY <1>1, <1>3
<1> QED
  BY <1>2, <1>4, <1>5 DEF FoundIsSound


-----------------------------------------------------------------------------
(* One loop in another, where each round adds one element or none.         *)

\* The arrays of ss that have an element, in order.
Singles(out, ss, y) ==
  /\ y \in [1..Len(out) -> 1..Len(ss)]
  /\ \A k \in 1..Len(out) : Len(ss[y[k]]) = 1 /\ out[k] = ss[y[k]][1]
  /\ \A j \in 1..Len(ss) : Len(ss[j]) = 1 => \E k \in 1..Len(out) : y[k] = j
  /\ \A j, k \in 1..Len(out) : j < k => y[j] < y[k]

LEMMA SinglesOf ==
  ASSUME NEW S, NEW ss \in Seq(Seq(S)), \A j \in 1..Len(ss) : Len(ss[j]) <= 1
  PROVE  FlattenSeq(ss) \in Seq(S) /\ \E y : Singles(FlattenSeq(ss), ss, y)
<1>1. PICK n, out : n = Len(ss) /\ out = FlattenSeq(ss)
  OBVIOUS
<1>2. PICK y, off : FlatAt(out, ss, n, y, off)
  BY <1>1, FlattenPlaces
<1>3. out \in Seq(S)
  BY <1>1, FlattenPlaces
<1>4. n \in Nat /\ \A j \in 1..n : ss[j] \in Seq(S) /\ Len(ss[j]) \in Nat /\ Len(ss[j]) <= 1
  <2>1. n \in Nat /\ \A j \in 1..n : ss[j] \in Seq(S)
    BY <1>1, LenProperties
  <2> QED
    BY <1>1, <2>1, LenProperties
<1>5. PICK m : m = Len(out)
  OBVIOUS
<1>6. /\ y \in [1..m -> Nat]
      /\ \A k \in 1..m : y[k] \in 1..n /\ off[k] \in 1..Len(ss[y[k]]) /\ out[k] = ss[y[k]][off[k]]
      /\ \A i \in 1..n : \A o \in 1..Len(ss[i]) : \E k \in 1..m : y[k] = i /\ off[k] = o
      /\ \A j, k \in 1..m : j < k => Before(y, off, j, k)
  BY <1>2, <1>5 DEF FlatAt, FlatOf
<1>7. ASSUME NEW k \in 1..m PROVE Len(ss[y[k]]) = 1 /\ off[k] = 1 /\ out[k] = ss[y[k]][1]
  <2>1. PICK l, o : l = Len(ss[y[k]]) /\ o = off[k]
    OBVIOUS
  <2>2. l \in Nat /\ l <= 1 /\ o \in 1..l
    BY <1>4, <1>6, <2>1
  <2>3. l = 1 /\ o = 1
    BY <2>2
  <2>4. off[k] = 1 /\ Len(ss[y[k]]) = 1
    BY <2>1, <2>3
  <2>5. out[k] = ss[y[k]][off[k]]
    BY <1>6
  <2> QED
    BY <2>4, <2>5
<1>8. \A j, k \in 1..m : j < k => y[j] < y[k]
  <2> SUFFICES ASSUME NEW j \in 1..m, NEW k \in 1..m, j < k PROVE y[j] < y[k]
    OBVIOUS
  <2>1. off[j] = 1 /\ off[k] = 1 /\ Before(y, off, j, k)
    BY <1>6, <1>7
  <2> QED
    BY <2>1 DEF Before
<1>9. ASSUME NEW j \in 1..n, Len(ss[j]) = 1 PROVE \E k \in 1..m : y[k] = j
  <2>1. 1 \in 1..Len(ss[j])
    BY <1>9
  <2> QED
    BY <1>6, <2>1
<1>10. y \in [1..m -> 1..n]
  BY <1>6
<1>11. Singles(out, ss, y)
  BY <1>1, <1>5, <1>7, <1>8, <1>9, <1>10 DEF Singles
<1> QED
  BY <1>1, <1>3, <1>11

\* The rounds (i, j) of the two loops that have an element, in order.
Visits(out, grid, n, m, x, y) ==
  /\ x \in [1..Len(out) -> 1..n] /\ y \in [1..Len(out) -> 1..m]
  /\ \A k \in 1..Len(out) : Len(grid[x[k]][y[k]]) = 1 /\ out[k] = grid[x[k]][y[k]][1]
  /\ \A i \in 1..n, j \in 1..m : Len(grid[i][j]) = 1 => \E k \in 1..Len(out) : x[k] = i /\ y[k] = j
  /\ \A j, k \in 1..Len(out) : j < k => Before(x, y, j, k)

\* What the rounds add, and what they add up to.
Grid(grid, n, m, S) ==
  grid \in [1..n -> [1..m -> Seq(S)]] /\ \A i \in 1..n, j \in 1..m : Len(grid[i][j]) <= 1
Looped(grid, n) == FlattenSeq([i \in 1..n |-> FlattenSeq(grid[i])])

LEMMA TwoLoops ==
  ASSUME NEW S, NEW n \in Nat, NEW m \in Nat, NEW grid, Grid(grid, n, m, S)
  PROVE  Looped(grid, n) \in Seq(S) /\ \E x, y : Visits(Looped(grid, n), grid, n, m, x, y)
<1>0. grid \in [1..n -> [1..m -> Seq(S)]] /\ \A i \in 1..n, j \in 1..m : Len(grid[i][j]) <= 1
  BY DEF Grid
<1>1. PICK rows : rows = [i \in 1..n |-> FlattenSeq(grid[i])]
  OBVIOUS
<1>2. ASSUME NEW i \in 1..n
      PROVE  /\ grid[i] \in Seq(Seq(S)) /\ Len(grid[i]) = m
             /\ rows[i] \in Seq(S) /\ \E y : Singles(rows[i], grid[i], y)
  <2>1. PICK ss : ss = grid[i]
    OBVIOUS
  <2>2. ss \in [1..m -> Seq(S)] /\ \A j \in 1..m : Len(ss[j]) <= 1
    BY <1>0, <2>1
  <2>3. ss \in Seq(Seq(S)) /\ Len(ss) = m
    BY <2>2
  <2>4. FlattenSeq(ss) \in Seq(S) /\ \E y : Singles(FlattenSeq(ss), ss, y)
    BY <2>2, <2>3, SinglesOf
  <2> QED
    BY <1>1, <2>1, <2>3, <2>4
<1>3. PICK of : of = [i \in 1..n |-> CHOOSE y : Singles(rows[i], grid[i], y)]
  OBVIOUS
<1>4. \A i \in 1..n : Singles(rows[i], grid[i], of[i])
  BY <1>2, <1>3
<1>5. ASSUME NEW i \in 1..n
      PROVE  /\ of[i] \in [1..Len(rows[i]) -> 1..m]
             /\ \A k \in 1..Len(rows[i]) : Len(grid[i][of[i][k]]) = 1 /\ rows[i][k] = grid[i][of[i][k]][1]
             /\ \A j \in 1..m : Len(grid[i][j]) = 1 => \E k \in 1..Len(rows[i]) : of[i][k] = j
             /\ \A j, k \in 1..Len(rows[i]) : j < k => of[i][j] < of[i][k]
  <2>1. Singles(rows[i], grid[i], of[i]) /\ Len(grid[i]) = m
    BY <1>2, <1>4
  <2> QED
    BY <2>1 DEF Singles
<1>6. rows \in Seq(Seq(S)) /\ Len(rows) = n
  <2>1. rows \in [1..n -> Seq(S)]
    BY <1>1, <1>2
  <2> QED
    BY <2>1
<1>7. PICK out, x, off : out = FlattenSeq(rows) /\ FlatAt(out, rows, n, x, off)
  BY <1>6, FlattenPlaces
<1>8. out \in Seq(S)
  BY <1>6, <1>7, FlattenPlaces
<1>9. PICK l : l = Len(out)
  OBVIOUS
<1>10. /\ x \in [1..l -> Nat] /\ off \in [1..l -> Nat]
       /\ \A k \in 1..l : x[k] \in 1..n /\ off[k] \in 1..Len(rows[x[k]]) /\ out[k] = rows[x[k]][off[k]]
       /\ \A i \in 1..n : \A o \in 1..Len(rows[i]) : \E k \in 1..l : x[k] = i /\ off[k] = o
       /\ \A j, k \in 1..l : j < k => Before(x, off, j, k)
  <2>1. FlatOf(out, l, rows, n, x, off)
    BY <1>7, <1>9 DEF FlatAt
  <2> QED
    BY <2>1 DEF FlatOf
<1>11. PICK y : y = [k \in 1..l |-> of[x[k]][off[k]]]
  OBVIOUS
<1>12. ASSUME NEW k \in 1..l
       PROVE  /\ y[k] = of[x[k]][off[k]] /\ y[k] \in 1..m
              /\ Len(grid[x[k]][y[k]]) = 1 /\ out[k] = grid[x[k]][y[k]][1]
  <2>1. PICK i, o : i = x[k] /\ o = off[k]
    OBVIOUS
  <2>2. i \in 1..n /\ o \in 1..Len(rows[i]) /\ out[k] = rows[i][o] /\ y[k] = of[i][o]
    BY <1>10, <1>11, <2>1
  <2>3. of[i][o] \in 1..m /\ Len(grid[i][of[i][o]]) = 1 /\ rows[i][o] = grid[i][of[i][o]][1]
    BY <1>5, <2>2
  <2> QED
    BY <2>1, <2>2, <2>3
<1>13. ASSUME NEW i \in 1..n, NEW j \in 1..m, Len(grid[i][j]) = 1
       PROVE  \E k \in 1..l : x[k] = i /\ y[k] = j
  <2>1. PICK o \in 1..Len(rows[i]) : of[i][o] = j
    BY <1>5, <1>13
  <2>2. PICK k \in 1..l : x[k] = i /\ off[k] = o
    BY <1>10, <2>1
  <2> QED
    BY <1>12, <2>1, <2>2
<1>14. ASSUME NEW j \in 1..l, NEW k \in 1..l, j < k PROVE Before(x, y, j, k)
  <2>1. x[j] < x[k] \/ (x[j] = x[k] /\ off[j] < off[k])
    BY <1>10, <1>14 DEF Before
  <2>2. CASE x[j] < x[k]
    BY <2>2 DEF Before
  <2>3. CASE x[j] = x[k] /\ off[j] < off[k]
    <3>1. PICK i, o, q : i = x[k] /\ o = off[j] /\ q = off[k]
      OBVIOUS
    <3>2. i \in 1..n /\ o \in 1..Len(rows[i]) /\ q \in 1..Len(rows[i]) /\ o < q
      BY <1>10, <2>3, <3>1
    <3>3. of[i][o] < of[i][q]
      BY <1>5, <3>2
    <3>4. y[j] = of[i][o] /\ y[k] = of[i][q]
      BY <1>12, <2>3, <3>1
    <3> QED
      BY <2>3, <3>3, <3>4 DEF Before
  <2> QED
    BY <2>1, <2>2, <2>3
<1>15. Visits(out, grid, n, m, x, y)
  <2>1. x \in [1..l -> 1..n] /\ y \in [1..l -> 1..m]
    BY <1>10, <1>11, <1>12
  <2> QED
    BY <1>9, <1>12, <1>13, <1>14, <2>1 DEF Visits
<1>16. out = Looped(grid, n)
  BY <1>1, <1>7 DEF Looped
<1> QED
  BY <1>8, <1>15, <1>16


-----------------------------------------------------------------------------
(* What is left to do, and in which order it is done.                      *)

\* The task of a version, one that is to be executed, and all tasks there can be.
Task(p, v) == [plugin |-> p, core |-> v.core, tag |-> v.tag, files |-> v.files]
IsNew(h, p, v) == v.files # {} /\ [plugin |-> p, core |-> v.core, tag |-> v.tag] \notin h
AnyTask(found) ==
  {Task(p, v) : p \in DOMAIN found, v \in UNION {Range(found[q]) : q \in DOMAIN found}}

\* The tasks of one plugin, by their places among its versions.
TasksAre(tasks, p, vs, new, place) ==
  /\ place \in [1..Len(tasks) -> 1..Len(vs)]
  /\ \A k \in 1..Len(tasks) : tasks[k] = Task(p, vs[place[k]]) /\ vs[place[k]] \in new
  /\ \A k, l \in 1..Len(tasks) : k < l => place[k] < place[l]
  /\ \A i \in 1..Len(vs) : vs[i] \in new => \E k \in 1..Len(tasks) : place[k] = i

LEMMA TasksOfAre ==
  ASSUME NEW p, NEW vs, Versioned(vs), NEW new
  PROVE  /\ TasksOf(p, vs, new) \in Seq({Task(p, v) : v \in Range(vs)})
         /\ \E place : TasksAre(TasksOf(p, vs, new), p, vs, new, place)
<1>1. PICK kept, n, S : kept = Filter(vs, new) /\ n = Len(kept) /\ S = Range(vs)
  OBVIOUS
<1>2. vs \in Seq(S)
  BY <1>1 DEF Versioned
<1>3. PICK place : Kept(kept, vs, new, place)
  BY <1>1, <1>2, FilteredFrom
<1>4. kept \in Seq(S)
  BY <1>1, <1>2, FilteredFrom
<1>5. n \in Nat /\ DOMAIN kept = 1..n /\ \A k \in 1..n : kept[k] \in S
  BY <1>1, <1>4, LenProperties
<1>6. PICK tasks : tasks = [k \in 1..n |-> Task(p, kept[k])]
  OBVIOUS
<1>7. TasksOf(p, vs, new) = tasks
  BY <1>1, <1>5, <1>6 DEF TasksOf, Task
<1>8. tasks \in Seq({Task(p, v) : v \in S}) /\ Len(tasks) = n
  <2>1. tasks \in [1..n -> {Task(p, v) : v \in S}]
    BY <1>5, <1>6
  <2> QED
    BY <1>5, <2>1
<1>9. /\ place \in [1..n -> 1..Len(vs)]
      /\ \A k \in 1..n : kept[k] = vs[place[k]] /\ vs[place[k]] \in new
      /\ \A k, l \in 1..n : k < l => place[k] < place[l]
      /\ \A i \in 1..Len(vs) : vs[i] \in new => \E k \in 1..n : place[k] = i
  BY <1>1, <1>3 DEF Kept
<1>10. \A k \in 1..n : tasks[k] = Task(p, vs[place[k]])
  BY <1>6, <1>9
<1>11. TasksAre(tasks, p, vs, new, place)
  BY <1>8, <1>9, <1>10 DEF TasksAre
<1> QED
  BY <1>1, <1>7, <1>8, <1>11

\* The tasks that resolve() returns.
OneAfter(t, u) == t.plugin = u.plugin => t.core <= u.core /\ Apart(t, u)
TaskIsNew(t, found, h) ==
  t.plugin \in DOMAIN found /\ \E i \in 1..Len(found[t.plugin]) :
    t = Task(t.plugin, found[t.plugin][i]) /\ IsNew(h, t.plugin, found[t.plugin][i])
Pending(list, found, h) ==
  /\ list \in Seq(AnyTask(found))
  /\ \A k \in 1..Len(list) : TaskIsNew(list[k], found, h)
  /\ \A p \in DOMAIN found : \A i \in 1..Len(found[p]) :
       IsNew(h, p, found[p][i]) => \E k \in 1..Len(list) : list[k] = Task(p, found[p][i])
  /\ \A j, k \in 1..Len(list) : j < k => OneAfter(list[j], list[k])

LEMMA TaskIs ==
  ASSUME NEW p, NEW v
  PROVE  /\ Task(p, v).plugin = p /\ Task(p, v).core = v.core
         /\ Task(p, v).tag = v.tag /\ Task(p, v).files = v.files
BY DEF Task

LEMMA ResolveIs ==
  ASSUME NEW found, FoundIsSound(found), NEW h, h = history
  PROVE  Pending(Resolve(found), found, h)
<1>1. PICK n, All : n = Len(PluginOrder) /\ All = AnyTask(found)
  OBVIOUS
<1>2. /\ n \in Nat /\ DOMAIN PluginOrder = 1..n
      /\ \A i, j \in 1..n : PluginOrder[i] = PluginOrder[j] => i = j
      /\ \A p \in DOMAIN found : Versioned(found[p]) /\ \E i \in 1..n : PluginOrder[i] = p
  <2>1. n \in Nat /\ DOMAIN PluginOrder = 1..n
    BY <1>1, DiskAssumption, LenProperties
  <2>2. \A p \in Range(PluginOrder) : \E i \in 1..n : PluginOrder[i] = p
    BY <2>1 DEF Range
  <2> QED
    BY <2>1, <2>2, DiskAssumption DEF FoundIsSound
<1> DEFINE new(p) == {v \in Range(found[p]) : IsNew(h, p, v)}
<1>3. PICK ss : ss = [i \in 1..n |-> IF PluginOrder[i] \in DOMAIN found
                                       THEN TasksOf(PluginOrder[i], found[PluginOrder[i]], new(PluginOrder[i]))
                                       ELSE <<>>]
  OBVIOUS
<1>4. Resolve(found) = FlattenSeq(ss)
  <2>1. \A p : NewVersions(p, found[p]) = new(p)
    BY DEF NewVersions, IsNew
  <2> HIDE DEF new
  <2>2. \A i \in 1..n : ss[i] = LET p == PluginOrder[i]
                                IN IF p \in DOMAIN found THEN TasksOf(p, found[p], NewVersions(p, found[p])) ELSE <<>>
    BY <1>3, <2>1
  <2>3. ss = [i \in DOMAIN PluginOrder |->
                LET p == PluginOrder[i]
                IN IF p \in DOMAIN found THEN TasksOf(p, found[p], NewVersions(p, found[p])) ELSE <<>>]
    BY <1>2, <1>3, <2>2
  <2> QED
    BY <2>3 DEF Resolve
<1>5. \A p \in DOMAIN found : \A i \in 1..Len(found[p]) :
        found[p][i] \in Range(found[p]) /\ (found[p][i] \in new(p) <=> IsNew(h, p, found[p][i]))
  <2> SUFFICES ASSUME NEW p \in DOMAIN found, NEW i \in 1..Len(found[p])
               PROVE  found[p][i] \in Range(found[p])
    OBVIOUS
  <2>1. PICK vs : vs = found[p]
    OBVIOUS
  <2>2. vs \in Seq(Range(vs)) /\ i \in 1..Len(vs)
    BY <1>2, <2>1 DEF Versioned
  <2>3. vs[i] \in Range(vs)
    BY <2>2
  <2> QED
    BY <2>1, <2>3
<1> HIDE DEF new
<1>6. ASSUME NEW i \in 1..n, PluginOrder[i] \in DOMAIN found
      PROVE  ss[i] \in Seq(All) /\
             \E place : TasksAre(ss[i], PluginOrder[i], found[PluginOrder[i]], new(PluginOrder[i]), place)
  <2>1. PICK p, vs, N : p = PluginOrder[i] /\ vs = found[p] /\ N = new(p)
    OBVIOUS
  <2>2. ss[i] = TasksOf(p, vs, N) /\ Versioned(vs) /\ p \in DOMAIN found
    BY <1>2, <1>3, <1>6, <2>1
  <2>3. TasksOf(p, vs, N) \in Seq({Task(p, v) : v \in Range(vs)}) /\ \E place : TasksAre(TasksOf(p, vs, N), p, vs, N, place)
    BY <2>2, TasksOfAre
  <2>4. {Task(p, v) : v \in Range(vs)} \subseteq All
    BY <1>1, <2>1, <2>2 DEF AnyTask
  <2>5. ss[i] \in Seq(All)
    BY <2>2, <2>3, <2>4
  <2> QED
    BY <2>1, <2>2, <2>3, <2>5
<1>7. ASSUME NEW i \in 1..n, PluginOrder[i] \notin DOMAIN found PROVE ss[i] = <<>>
  BY <1>3, <1>7
<1>8. ss \in Seq(Seq(All)) /\ Len(ss) = n
  <2>1. \A i \in 1..n : ss[i] \in Seq(All)
    <3>1. <<>> \in Seq(All)
      OBVIOUS
    <3>2. ASSUME NEW i \in 1..n PROVE ss[i] \in Seq(All)
      <4>1. CASE PluginOrder[i] \in DOMAIN found
        BY <1>6, <4>1
      <4>2. CASE PluginOrder[i] \notin DOMAIN found
        <5>1. ss[i] = <<>>
          BY <1>7, <4>2
        <5> QED
          BY <3>1, <5>1
      <4> QED
        BY <4>1, <4>2
    <3> QED
      BY <3>2
  <2>2. ss \in [1..n -> Seq(All)]
    BY <1>3, <2>1
  <2> QED
    BY <1>2, <2>2
<1>9. PICK list, blk, off : list = FlattenSeq(ss) /\ FlatAt(list, ss, n, blk, off)
  BY <1>8, FlattenPlaces
<1>10. list \in Seq(All)
  BY <1>8, <1>9, FlattenPlaces
<1>11. PICK m : m = Len(list)
  OBVIOUS
<1>12. /\ \A k \in 1..m : blk[k] \in 1..n /\ off[k] \in 1..Len(ss[blk[k]]) /\ list[k] = ss[blk[k]][off[k]]
       /\ \A i \in 1..n : \A o \in 1..Len(ss[i]) : \E k \in 1..m : blk[k] = i /\ off[k] = o
       /\ \A j, k \in 1..m : j < k => Before(blk, off, j, k)
  BY <1>9, <1>11 DEF FlatAt, FlatOf
<1>13. PICK at : at = [i \in 1..n |-> CHOOSE place :
                         TasksAre(ss[i], PluginOrder[i], found[PluginOrder[i]], new(PluginOrder[i]), place)]
  OBVIOUS
<1>14. ASSUME NEW i \in 1..n, NEW p, p = PluginOrder[i], p \in DOMAIN found
       PROVE  /\ at[i] \in [1..Len(ss[i]) -> 1..Len(found[p])]
              /\ \A k \in 1..Len(ss[i]) :
                   ss[i][k] = Task(p, found[p][at[i][k]]) /\ found[p][at[i][k]] \in new(p)
              /\ \A k, l \in 1..Len(ss[i]) : k < l => at[i][k] < at[i][l]
              /\ \A o \in 1..Len(found[p]) : found[p][o] \in new(p) => \E k \in 1..Len(ss[i]) : at[i][k] = o
  <2>1. TasksAre(ss[i], p, found[p], new(p), at[i])
    BY <1>6, <1>13, <1>14
  <2> QED
    BY <2>1 DEF TasksAre
<1>15. ASSUME NEW k \in 1..m
       PROVE  PluginOrder[blk[k]] \in DOMAIN found
  <2>1. PICK i : i = blk[k]
    OBVIOUS
  <2>2. i \in 1..n /\ off[k] \in 1..Len(ss[i])
    BY <1>12, <2>1
  <2>3. Len(<<>>) = 0
    OBVIOUS
  <2>4. CASE PluginOrder[i] \notin DOMAIN found
    <3>1. Len(ss[i]) = 0
      BY <1>7, <2>2, <2>3, <2>4
    <3> QED
      BY <2>2, <3>1
  <2> QED
    BY <2>1, <2>4
<1>16. ASSUME NEW k \in 1..m
       PROVE  TaskIsNew(list[k], found, h) /\ list[k].plugin = PluginOrder[blk[k]]
  <2>1. PICK i, o, p : i = blk[k] /\ o = off[k] /\ p = PluginOrder[i]
    OBVIOUS
  <2>2. i \in 1..n /\ o \in 1..Len(ss[i]) /\ list[k] = ss[i][o] /\ p \in DOMAIN found
    BY <1>12, <1>15, <2>1
  <2>3. PICK q : q = at[i][o]
    OBVIOUS
  <2>4. q \in 1..Len(found[p]) /\ list[k] = Task(p, found[p][q]) /\ found[p][q] \in new(p)
    <3>1. PICK N, a, s, f, K : N = new(p) /\ a = at[i] /\ s = ss[i] /\ f = found[p] /\ K = 1..Len(f)
      OBVIOUS
    <3>2. TasksAre(s, p, f, N, a)
      <4>1. TasksAre(ss[i], p, found[p], new(p), at[i])
        BY <1>6, <1>13, <2>1, <2>2
      <4> HIDE DEF new
      <4> QED
        BY <3>1, <4>1
    <3> HIDE DEF new
    <3>3. /\ a \in [1..Len(s) -> K]
          /\ \A j \in 1..Len(s) : s[j] = Task(p, f[a[j]]) /\ f[a[j]] \in N
      BY <3>1, <3>2 DEF TasksAre
    <3>4. o \in 1..Len(s) /\ list[k] = s[o] /\ q = a[o]
      BY <2>2, <2>3, <3>1
    <3>5. a[o] \in K /\ s[o] = Task(p, f[a[o]]) /\ f[a[o]] \in N
      BY <3>3, <3>4, Zenon
    <3> QED
      BY <3>1, <3>4, <3>5
  <2>5. IsNew(h, p, found[p][q])
    BY <1>5, <2>2, <2>4
  <2>6. list[k].plugin = p
    BY <2>4, TaskIs
  <2> QED
    BY <2>1, <2>2, <2>4, <2>5, <2>6 DEF TaskIsNew
<1>17. ASSUME NEW p \in DOMAIN found, NEW i \in 1..Len(found[p]), IsNew(h, p, found[p][i])
       PROVE  \E k \in 1..m : list[k] = Task(p, found[p][i])
  <2>1. PICK b \in 1..n : p = PluginOrder[b]
    BY <1>2
  <2>2. found[p][i] \in new(p)
    BY <1>5, <1>17
  <2>3. PICK o \in 1..Len(ss[b]) : at[b][o] = i
    BY <1>14, <2>1, <2>2
  <2>4. ss[b][o] = Task(p, found[p][i])
    BY <1>14, <2>1, <2>3
  <2>5. PICK k \in 1..m : blk[k] = b /\ off[k] = o
    BY <1>12, <2>3
  <2> QED
    BY <1>12, <2>4, <2>5
<1>18. ASSUME NEW j \in 1..m, NEW k \in 1..m, j < k PROVE OneAfter(list[j], list[k])
  <2> SUFFICES ASSUME list[j].plugin = list[k].plugin
               PROVE  list[j].core <= list[k].core /\ Apart(list[j], list[k])
    BY DEF OneAfter
  <2>1. PICK i, o, q, p : i = blk[k] /\ o = off[j] /\ q = off[k] /\ p = PluginOrder[i]
    OBVIOUS
  <2>2. blk[j] = blk[k]
    BY <1>2, <1>12, <1>16
  <2>3. /\ i \in 1..n /\ o \in 1..Len(ss[i]) /\ q \in 1..Len(ss[i]) /\ p \in DOMAIN found
        /\ list[j] = ss[i][o] /\ list[k] = ss[i][q]
    BY <1>12, <1>15, <2>1, <2>2
  <2>4. o < q
    <3>1. i \in Nat
      BY <1>2, <2>3
    <3> QED
      BY <1>12, <1>18, <2>1, <2>2, <3>1 DEF Before
  <2>5. PICK a, b, vs : a = at[i][o] /\ b = at[i][q] /\ vs = found[p]
    OBVIOUS
  <2>6. a \in 1..Len(vs) /\ b \in 1..Len(vs) /\ a < b /\ list[j] = Task(p, vs[a]) /\ list[k] = Task(p, vs[b])
    <3>0. PluginOrder[i] \in DOMAIN found
      BY <2>1, <2>3
    <3>4. TasksAre(ss[i], PluginOrder[i], found[PluginOrder[i]], new(PluginOrder[i]), at[i])
      BY <1>6, <1>13, <2>3, <3>0
    <3>5. TasksAre(ss[i], p, found[p], new(p), at[i])
      BY <2>1, <3>4
    <3>1. /\ at[i] \in [1..Len(ss[i]) -> 1..Len(found[p])]
          /\ \A l \in 1..Len(ss[i]) : ss[i][l] = Task(p, found[p][at[i][l]])
          /\ \A l, r \in 1..Len(ss[i]) : l < r => at[i][l] < at[i][r]
      BY <3>5 DEF TasksAre
    <3>2. a \in 1..Len(vs) /\ b \in 1..Len(vs)
      BY <2>3, <2>5, <3>1
    <3>3. a < b
      BY <2>3, <2>4, <2>5, <3>1
    <3>6. list[j] = Task(p, vs[a]) /\ list[k] = Task(p, vs[b])
      BY <2>3, <2>5, <3>1
    <3> QED
      BY <3>2, <3>3, <3>6
  <2>7. vs[a].core <= vs[b].core /\ Apart(vs[a], vs[b])
    BY <1>2, <2>3, <2>5, <2>6 DEF Versioned
  <2> QED
    BY <2>6, <2>7, TaskIs DEF Apart
<1>19. Pending(list, found, h)
  BY <1>1, <1>10, <1>11, <1>16, <1>17, <1>18 DEF Pending
<1> QED
  BY <1>4, <1>9, <1>19


\* One entry of the agenda, and all there can be.
Item(t, phase) ==
  [plugin |-> t.plugin, core |-> t.core, tag |-> t.tag, phase |-> phase, text |-> TextOf(t, phase)]
AnyItem(list) == {Item(list[t], Phases[p]) : t \in 1..Len(list), p \in 1..3}

\* The agenda has each phase of each task that has a file for it, once, and where it is executed
\* it goes phase by phase, and in each of them task by task.
AgendaIs(out, list, mode, ph, tk) ==
  /\ ph \in [1..Len(out) -> 1..3] /\ tk \in [1..Len(out) -> 1..Len(list)]
  /\ \A k \in 1..Len(out) :
       Phases[ph[k]] \in list[tk[k]].files /\ out[k] = Item(list[tk[k]], Phases[ph[k]])
  /\ \A p \in 1..3, t \in 1..Len(list) :
       Phases[p] \in list[t].files => \E k \in 1..Len(out) : ph[k] = p /\ tk[k] = t
  /\ \A j, k \in 1..Len(out) : j # k => ~(ph[j] = ph[k] /\ tk[j] = tk[k])
  /\ mode = "normal" => \A j, k \in 1..Len(out) : j < k => Before(ph, tk, j, k)

LEMMA PhasesAre ==
  /\ Len(Phases) = 3 /\ DOMAIN Phases = 1..3
  /\ \A i \in 1..3 : Place(Phases[i]) = i
  /\ \A phase \in Range(Phases) : \E i \in 1..3 : Phases[i] = phase
<1>1. Len(Phases) = 3 /\ DOMAIN Phases = 1..3
  BY DEF Phases
<1>2. \A i, j \in 1..3 : Phases[i] = Phases[j] => i = j
  <2>1. \A i \in 1..3 : i = 1 \/ i = 2 \/ i = 3
    OBVIOUS
  <2>2. Phases[1] = "preload" /\ Phases[2] = "postsync" /\ Phases[3] = "postload"
    BY DEF Phases
  <2> QED
    BY <2>1, <2>2
<1>3. ASSUME NEW i \in 1..3 PROVE Place(Phases[i]) = i
  <2>1. \A j \in DOMAIN Phases : Phases[j] = Phases[i] <=> j = i
    BY <1>1, <1>2
  <2>2. PICK k : k = Place(Phases[i])
    OBVIOUS
  <2>3. k \in DOMAIN Phases /\ Phases[k] = Phases[i]
    <3>1. \E j \in DOMAIN Phases : Phases[j] = Phases[i]
      BY <1>1
    <3> QED
      BY <2>2, <3>1, Zenon DEF Place
  <2> QED
    BY <2>1, <2>2, <2>3
<1>4. \A phase \in Range(Phases) : \E i \in 1..3 : Phases[i] = phase
  BY <1>1 DEF Range
<1> QED
  BY <1>1, <1>3, <1>4

\* One round of the loops: an element, or none.
LEMMA PhaseOfIs ==
  ASSUME NEW t, NEW phase, NEW S, phase \in t.files => Item(t, phase) \in S
  PROVE  /\ PhaseOf(t, phase) \in Seq(S)
         /\ Len(PhaseOf(t, phase)) <= 1
         /\ Len(PhaseOf(t, phase)) = 1 <=> phase \in t.files
         /\ phase \in t.files => PhaseOf(t, phase)[1] = Item(t, phase)
<1>1. PICK item, out : item = Item(t, phase) /\ out = PhaseOf(t, phase)
  OBVIOUS
<1>2. CASE phase \in t.files
  <2>1. out = <<item>>
    BY <1>1, <1>2 DEF PhaseOf, Item
  <2> QED
    BY <1>1, <1>2, <2>1
<1>3. CASE phase \notin t.files
  <2>1. out = <<>>
    BY <1>1, <1>3 DEF PhaseOf
  <2> QED
    BY <1>1, <1>3, <2>1
<1> QED
  BY <1>2, <1>3

LEMMA RunAgendaIs ==
  ASSUME NEW T, NEW list \in Seq(T)
  PROVE  /\ RunAgenda(list) \in Seq(AnyItem(list))
         /\ \E ph, tk : AgendaIs(RunAgenda(list), list, "normal", ph, tk)
<1>1. PICK n, S : n = Len(list) /\ S = AnyItem(list)
  OBVIOUS
<1>2. n \in Nat /\ DOMAIN list = 1..n
  BY <1>1, LenProperties
<1>3. PICK grid : grid = [p \in 1..3 |-> [t \in 1..n |-> PhaseOf(list[t], Phases[p])]]
  OBVIOUS
<1>4. ASSUME NEW p \in 1..3, NEW t \in 1..n
      PROVE  /\ grid[p][t] \in Seq(S) /\ Len(grid[p][t]) <= 1
             /\ Len(grid[p][t]) = 1 <=> Phases[p] \in list[t].files
             /\ Phases[p] \in list[t].files => grid[p][t][1] = Item(list[t], Phases[p])
  <2>1. grid[p][t] = PhaseOf(list[t], Phases[p])
    BY <1>3
  <2>2. Item(list[t], Phases[p]) \in S
    BY <1>1 DEF AnyItem
  <2>3. PICK task, phase : task = list[t] /\ phase = Phases[p]
    OBVIOUS
  <2>4. /\ PhaseOf(task, phase) \in Seq(S)
        /\ Len(PhaseOf(task, phase)) <= 1
        /\ Len(PhaseOf(task, phase)) = 1 <=> phase \in task.files
        /\ phase \in task.files => PhaseOf(task, phase)[1] = Item(task, phase)
    BY <2>2, <2>3, PhaseOfIs
  <2> QED
    BY <2>1, <2>3, <2>4
<1>5. grid \in [1..3 -> [1..n -> Seq(S)]]
  BY <1>3, <1>4
<1>6. PICK out : out = Looped(grid, 3)
  OBVIOUS
<1>7. RunAgenda(list) = out
  <2>1. [p \in 1..3 |-> FlattenSeq(grid[p])] =
          [p \in DOMAIN Phases |-> FlattenSeq([t \in DOMAIN list |-> PhaseOf(list[t], Phases[p])])]
    BY <1>2, <1>3, PhasesAre
  <2> QED
    BY <1>6, <2>1 DEF RunAgenda, Looped
<1>8. out \in Seq(S) /\ \E ph, tk : Visits(out, grid, 3, n, ph, tk)
  <2>1. Grid(grid, 3, n, S)
    BY <1>4, <1>5 DEF Grid
  <2>2. 3 \in Nat
    OBVIOUS
  <2> QED
    BY <1>2, <1>6, <2>1, <2>2, TwoLoops
<1>9. PICK ph, tk : Visits(out, grid, 3, n, ph, tk)
  BY <1>8
<1>10. PICK l : l = Len(out)
  OBVIOUS
<1>11. /\ ph \in [1..l -> 1..3] /\ tk \in [1..l -> 1..n]
       /\ \A k \in 1..l : Len(grid[ph[k]][tk[k]]) = 1 /\ out[k] = grid[ph[k]][tk[k]][1]
       /\ \A i \in 1..3, j \in 1..n : Len(grid[i][j]) = 1 => \E k \in 1..l : ph[k] = i /\ tk[k] = j
       /\ \A j, k \in 1..l : j < k => Before(ph, tk, j, k)
  <2>1. ph \in [1..l -> 1..3] /\ tk \in [1..l -> 1..n]
    BY <1>9, <1>10 DEF Visits
  <2>2. \A k \in 1..l : Len(grid[ph[k]][tk[k]]) = 1 /\ out[k] = grid[ph[k]][tk[k]][1]
    BY <1>9, <1>10 DEF Visits
  <2>3. \A i \in 1..3, j \in 1..n : Len(grid[i][j]) = 1 => \E k \in 1..l : ph[k] = i /\ tk[k] = j
    BY <1>9, <1>10 DEF Visits
  <2>4. \A j, k \in 1..l : j < k => Before(ph, tk, j, k)
    BY <1>9, <1>10 DEF Visits
  <2> QED
    BY <2>1, <2>2, <2>3, <2>4
<1>12. ASSUME NEW k \in 1..l
       PROVE  Phases[ph[k]] \in list[tk[k]].files /\ out[k] = Item(list[tk[k]], Phases[ph[k]])
  <2>1. PICK p, t : p = ph[k] /\ t = tk[k]
    OBVIOUS
  <2>2. p \in 1..3 /\ t \in 1..n /\ Len(grid[p][t]) = 1 /\ out[k] = grid[p][t][1]
    BY <1>11, <2>1
  <2> QED
    BY <1>4, <2>1, <2>2
<1>13. \A p \in 1..3, t \in 1..n : Phases[p] \in list[t].files => \E k \in 1..l : ph[k] = p /\ tk[k] = t
  BY <1>4, <1>11
<1>14. ASSUME NEW j \in 1..l, NEW k \in 1..l, j # k PROVE ~(ph[j] = ph[k] /\ tk[j] = tk[k])
  <2>1. j < k \/ k < j
    <3>1. l \in Nat
      BY <1>8, <1>10, LenProperties
    <3> QED
      BY <1>14, <3>1
  <2>2. Before(ph, tk, j, k) \/ Before(ph, tk, k, j)
    BY <1>11, <2>1
  <2>3. ph[j] \in Nat /\ ph[k] \in Nat /\ tk[j] \in Nat /\ tk[k] \in Nat
    BY <1>2, <1>11
  <2> QED
    BY <2>2, <2>3 DEF Before
<1>15. AgendaIs(out, list, "normal", ph, tk)
  BY <1>1, <1>10, <1>11, <1>12, <1>13, <1>14 DEF AgendaIs
<1> QED
  BY <1>1, <1>7, <1>8, <1>15

LEMMA DryRunAgendaIs ==
  ASSUME NEW T, NEW list \in Seq(T), NEW mode, mode # "normal"
  PROVE  /\ DryRunAgenda(list) \in Seq(AnyItem(list))
         /\ \E ph, tk : AgendaIs(DryRunAgenda(list), list, mode, ph, tk)
<1>1. PICK n, S : n = Len(list) /\ S = AnyItem(list)
  OBVIOUS
<1>2. n \in Nat /\ DOMAIN list = 1..n
  BY <1>1, LenProperties
<1>3. PICK grid : grid = [t \in 1..n |-> [p \in 1..3 |-> PhaseOf(list[t], Phases[p])]]
  OBVIOUS
<1>4. ASSUME NEW p \in 1..3, NEW t \in 1..n
      PROVE  /\ grid[t][p] \in Seq(S) /\ Len(grid[t][p]) <= 1
             /\ Len(grid[t][p]) = 1 <=> Phases[p] \in list[t].files
             /\ Phases[p] \in list[t].files => grid[t][p][1] = Item(list[t], Phases[p])
  <2>1. grid[t][p] = PhaseOf(list[t], Phases[p])
    BY <1>3
  <2>2. Item(list[t], Phases[p]) \in S
    BY <1>1 DEF AnyItem
  <2>3. PICK task, phase : task = list[t] /\ phase = Phases[p]
    OBVIOUS
  <2>4. /\ PhaseOf(task, phase) \in Seq(S)
        /\ Len(PhaseOf(task, phase)) <= 1
        /\ Len(PhaseOf(task, phase)) = 1 <=> phase \in task.files
        /\ phase \in task.files => PhaseOf(task, phase)[1] = Item(task, phase)
    BY <2>2, <2>3, PhaseOfIs
  <2> QED
    BY <2>1, <2>3, <2>4
<1>5. grid \in [1..n -> [1..3 -> Seq(S)]]
  BY <1>3, <1>4
<1>6. PICK out : out = Looped(grid, n)
  OBVIOUS
<1>7. DryRunAgenda(list) = out
  <2>1. [t \in 1..n |-> FlattenSeq(grid[t])] =
          [t \in DOMAIN list |-> FlattenSeq([p \in DOMAIN Phases |-> PhaseOf(list[t], Phases[p])])]
    BY <1>2, <1>3, PhasesAre
  <2> QED
    BY <1>6, <2>1 DEF DryRunAgenda, Looped
<1>8. out \in Seq(S) /\ \E tk, ph : Visits(out, grid, n, 3, tk, ph)
  <2>1. Grid(grid, n, 3, S)
    BY <1>4, <1>5 DEF Grid
  <2>2. 3 \in Nat
    OBVIOUS
  <2> QED
    BY <1>2, <1>6, <2>1, <2>2, TwoLoops
<1>9. PICK tk, ph : Visits(out, grid, n, 3, tk, ph)
  BY <1>8
<1>10. PICK l : l = Len(out)
  OBVIOUS
<1>11. /\ ph \in [1..l -> 1..3] /\ tk \in [1..l -> 1..n]
       /\ \A k \in 1..l : Len(grid[tk[k]][ph[k]]) = 1 /\ out[k] = grid[tk[k]][ph[k]][1]
       /\ \A i \in 1..n, j \in 1..3 : Len(grid[i][j]) = 1 => \E k \in 1..l : tk[k] = i /\ ph[k] = j
       /\ \A j, k \in 1..l : j < k => Before(tk, ph, j, k)
  BY <1>9, <1>10 DEF Visits
<1>12. ASSUME NEW k \in 1..l
       PROVE  Phases[ph[k]] \in list[tk[k]].files /\ out[k] = Item(list[tk[k]], Phases[ph[k]])
  <2>1. PICK p, t : p = ph[k] /\ t = tk[k]
    OBVIOUS
  <2>2. p \in 1..3 /\ t \in 1..n /\ Len(grid[t][p]) = 1 /\ out[k] = grid[t][p][1]
    BY <1>11, <2>1
  <2> QED
    BY <1>4, <2>1, <2>2
<1>13. \A p \in 1..3, t \in 1..n : Phases[p] \in list[t].files => \E k \in 1..l : ph[k] = p /\ tk[k] = t
  BY <1>4, <1>11
<1>14. ASSUME NEW j \in 1..l, NEW k \in 1..l, j # k PROVE ~(ph[j] = ph[k] /\ tk[j] = tk[k])
  <2>1. j < k \/ k < j
    <3>1. l \in Nat
      BY <1>8, <1>10, LenProperties
    <3> QED
      BY <1>14, <3>1
  <2>2. Before(tk, ph, j, k) \/ Before(tk, ph, k, j)
    BY <1>11, <2>1
  <2>3. ph[j] \in Nat /\ ph[k] \in Nat /\ tk[j] \in Nat /\ tk[k] \in Nat
    BY <1>2, <1>11
  <2> QED
    BY <2>2, <2>3 DEF Before
<1>15. AgendaIs(out, list, mode, ph, tk)
  BY <1>1, <1>10, <1>11, <1>12, <1>13, <1>14 DEF AgendaIs
<1> QED
  BY <1>1, <1>7, <1>8, <1>15


-----------------------------------------------------------------------------
(* A call.                                                                 *)

\* The tasks of the call are an agenda of what is pending.
TasksOfCall(tasks, found, mode, h) ==
  \E list, ph, tk :
    /\ Pending(list, found, h) /\ AgendaIs(tasks, list, mode, ph, tk)
    /\ tasks \in Seq(AnyItem(list))

\* The log of the first tasks.
LogOf(log, tasks, turn) ==
  /\ \E S : log \in Seq(S)
  /\ Len(log) = turn /\ \A j \in 1..turn : log[j].task = tasks[j]

\* A call r, over the history h: it has gone through its tasks up to a turn.
CallIs(r, h) ==
  /\ DOMAIN r = {"at", "mode", "found", "tasks", "turn", "log"}
  /\ r.at \in {"idle", "found", "running", "done"}
  /\ r.at # "idle" => r.mode \in {"normal", "dry-run"} /\ FoundIsSound(r.found)
  /\ r.at \in {"found", "running", "done"} => r.turn \in Nat /\ LogOf(r.log, r.tasks, r.turn)
  /\ r.at = "found" => r.turn = 0
  /\ r.at \in {"running", "done"} => TasksOfCall(r.tasks, r.found, r.mode, h) /\ r.turn <= Len(r.tasks)
  /\ r.at = "done" => r.turn = Len(r.tasks)

LEMMA AgendaOf ==
  ASSUME NEW found, FoundIsSound(found), NEW mode \in {"normal", "dry-run"}, NEW h, h = history
  PROVE  TasksOfCall(Agenda(Resolve(found), mode), found, mode, h)
<1>1. PICK list : list = Resolve(found)
  OBVIOUS
<1>2. Pending(list, found, h)
  BY <1>1, ResolveIs
<1>3. list \in Seq(AnyTask(found))
  BY <1>2 DEF Pending
<1>4. CASE mode = "normal"
  <2>1. Agenda(list, mode) = RunAgenda(list)
    BY <1>4 DEF Agenda
  <2>2. RunAgenda(list) \in Seq(AnyItem(list)) /\ \E ph, tk : AgendaIs(RunAgenda(list), list, mode, ph, tk)
    BY <1>3, <1>4, RunAgendaIs
  <2> QED
    BY <1>1, <1>2, <2>1, <2>2 DEF TasksOfCall
<1>5. CASE mode # "normal"
  <2>1. Agenda(list, mode) = DryRunAgenda(list)
    BY <1>5 DEF Agenda
  <2>2. DryRunAgenda(list) \in Seq(AnyItem(list)) /\ \E ph, tk : AgendaIs(DryRunAgenda(list), list, mode, ph, tk)
    BY <1>3, <1>5, DryRunAgendaIs
  <2> QED
    BY <1>1, <1>2, <2>1, <2>2 DEF TasksOfCall
<1> QED
  BY <1>4, <1>5

LEMMA LogMore ==
  ASSUME NEW log, NEW tasks, NEW turn \in Nat, LogOf(log, tasks, turn), NEW status,
         NEW e, e = [task |-> tasks[turn + 1], status |-> status]
  PROVE  LogOf(Append(log, e), tasks, turn + 1)
<1>1. PICK S : log \in Seq(S)
  BY DEF LogOf
<1>2. PICK more : more = Append(log, e)
  OBVIOUS
<1>3. Len(log) = turn /\ \A j \in 1..turn : log[j].task = tasks[j]
  BY DEF LogOf
<1>4. log \in Seq(S \cup {e}) /\ e \in S \cup {e}
  BY <1>1
<1>5. more \in Seq(S \cup {e}) /\ Len(more) = turn + 1 /\ more[turn + 1] = e /\ \A j \in 1..turn : more[j] = log[j]
  BY <1>2, <1>3, <1>4
<1>6. e.task = tasks[turn + 1]
  OBVIOUS
<1>7. \A j \in 1..(turn + 1) : j \in 1..turn \/ j = turn + 1
  OBVIOUS
<1>8. \A j \in 1..(turn + 1) : more[j].task = tasks[j]
  BY <1>3, <1>5, <1>6, <1>7
<1> QED
  BY <1>2, <1>5, <1>8 DEF LogOf

MigrationInv == CallIs(run, history)

LEMMA MigrationStep ==
  ASSUME MigrationInv, [MigrationNext]_migrationVars
  PROVE  MigrationInv'
<1>1. PICK r, h, next : r = run /\ h = history /\ next = run'
  OBVIOUS
<1>2. CallIs(r, h)
  BY <1>1 DEF MigrationInv
<1>3. SUFFICES history' = h /\ CallIs(next, h)
  BY <1>1 DEF MigrationInv
<1>4. CASE Start
  <2>1. PICK mode \in {"normal", "dry-run"}, unread \in SUBSET Directories : run' = Scanned(mode, unread)
    BY <1>4 DEF Start
  <2>2. PICK found : found = Discover(unread)
    OBVIOUS
  <2>3. FoundIsSound(found)
    BY <2>2, DiscoverIsSound
  <2>4. /\ DOMAIN next = {"at", "mode", "found", "tasks", "turn", "log"}
        /\ next.at = "found" /\ next.mode = mode /\ next.found = found
        /\ next.tasks = <<>> /\ next.turn = 0 /\ next.log = <<>>
    <3>1. next = [Idle EXCEPT !.at = "found", !.mode = mode, !.found = found]
      BY <1>1, <2>1, <2>2 DEF Scanned
    <3> QED
      BY <3>1 DEF Idle
  <2>5. LogOf(<<>>, <<>>, 0)
    <3>1. <<>> \in Seq({}) /\ Len(<<>>) = 0 /\ 1..0 = {}
      OBVIOUS
    <3> QED
      BY <3>1 DEF LogOf
  <2>6. CallIs(next, h)
    BY <2>3, <2>4, <2>5 DEF CallIs
  <2> QED
    BY <1>1, <1>4, <2>6 DEF Start
<1>5. CASE ResolveTasks
  <2>1. r.at = "found" /\ next = [r EXCEPT !.at = "running", !.tasks = Agenda(Resolve(r.found), r.mode)]
    BY <1>1, <1>5 DEF ResolveTasks
  <2>2. PICK tasks, found, mode : tasks = Agenda(Resolve(found), mode) /\ found = r.found /\ mode = r.mode
    OBVIOUS
  <2>3. mode \in {"normal", "dry-run"} /\ FoundIsSound(found)
    BY <1>2, <2>1, <2>2 DEF CallIs
  <2>4. TasksOfCall(tasks, found, mode, h)
    BY <1>1, <2>2, <2>3, AgendaOf
  <2>5. r.turn = 0 /\ LogOf(r.log, r.tasks, 0)
    BY <1>2, <2>1 DEF CallIs
  <2>6. LogOf(r.log, tasks, 0)
    BY <2>5 DEF LogOf
  <2>7. 0 <= Len(tasks)
    <3>1. PICK list : tasks \in Seq(AnyItem(list))
      BY <2>4 DEF TasksOfCall
    <3> QED
      BY <3>1, LenProperties
  <2>8. /\ DOMAIN next = {"at", "mode", "found", "tasks", "turn", "log"}
        /\ next.at = "running" /\ next.mode = mode /\ next.found = found /\ next.tasks = tasks
        /\ next.turn = 0 /\ next.log = r.log
    BY <1>2, <2>1, <2>2, <2>5 DEF CallIs
  <2>9. CallIs(next, h)
    BY <2>3, <2>4, <2>6, <2>7, <2>8 DEF CallIs
  <2> QED
    BY <1>1, <1>5, <2>9 DEF ResolveTasks
<1>6. CASE NextPhase
  <2>1. PICK status :
          next = [r EXCEPT !.turn = @ + 1, !.log = Append(@, [task |-> r.tasks[r.turn + 1], status |-> status])]
    BY <1>1, <1>6 DEF NextPhase
  <2>2. r.at = "running" /\ r.turn < Len(r.tasks)
    BY <1>1, <1>6 DEF NextPhase
  <2>3. PICK tasks, turn, log, e :
          tasks = r.tasks /\ turn = r.turn /\ log = r.log /\ e = [task |-> tasks[turn + 1], status |-> status]
    OBVIOUS
  <2>4. turn \in Nat /\ LogOf(log, tasks, turn) /\ turn < Len(tasks)
    BY <1>2, <2>2, <2>3 DEF CallIs
  <2>5. PICK more : more = Append(log, e)
    OBVIOUS
  <2>6. LogOf(more, tasks, turn + 1)
    BY <2>3, <2>4, <2>5, LogMore
  <2>7. Len(tasks) \in Nat
    <3>1. PICK list : tasks \in Seq(AnyItem(list))
      BY <1>2, <2>2, <2>3 DEF CallIs, TasksOfCall
    <3> QED
      BY <3>1, LenProperties
  <2>8. turn + 1 \in Nat /\ turn + 1 <= Len(tasks)
    BY <2>4, <2>7
  <2>9. /\ DOMAIN next = {"at", "mode", "found", "tasks", "turn", "log"}
        /\ next.at = "running" /\ next.mode = r.mode /\ next.found = r.found /\ next.tasks = tasks
        /\ next.turn = turn + 1 /\ next.log = more
    BY <1>2, <2>1, <2>2, <2>3, <2>5 DEF CallIs
  <2>10. CallIs(next, h)
    BY <1>2, <2>2, <2>3, <2>6, <2>8, <2>9 DEF CallIs
  <2> QED
    BY <1>1, <1>6, <2>10 DEF NextPhase
<1>7. CASE Finish
  <2>1. r.at = "running" /\ r.turn = Len(r.tasks) /\ next = [r EXCEPT !.at = "done"]
    BY <1>1, <1>7 DEF Finish
  <2>2. /\ DOMAIN next = {"at", "mode", "found", "tasks", "turn", "log"}
        /\ next.at = "done" /\ next.mode = r.mode /\ next.found = r.found /\ next.tasks = r.tasks
        /\ next.turn = r.turn /\ next.log = r.log
    BY <1>2, <2>1 DEF CallIs
  <2>3. CallIs(next, h)
    BY <1>2, <2>1, <2>2 DEF CallIs
  <2> QED
    BY <1>1, <1>7, <2>3 DEF Finish
<1>8. CASE Again
  <2>1. next = Idle
    BY <1>1, <1>8 DEF Again
  <2>2. CallIs(next, h)
    BY <2>1 DEF CallIs, Idle
  <2> QED
    BY <1>1, <1>8, <2>2 DEF Again
<1>9. CASE UNCHANGED migrationVars
  BY <1>1, <1>2, <1>9 DEF migrationVars
<1> QED
  BY <1>4, <1>5, <1>6, <1>7, <1>8, <1>9 DEF MigrationNext

\* What a finished call says of its tasks.
Times(tasks, p, v, phase) ==
  {j \in 1..Len(tasks) : /\ tasks[j].plugin = p /\ tasks[j].core = v.core
                         /\ tasks[j].tag = v.tag /\ tasks[j].phase = phase}

LEMMA AllAreTried ==
  ASSUME NEW tasks, NEW found, NEW mode, NEW h, FoundIsSound(found), TasksOfCall(tasks, found, mode, h)
  PROVE  /\ Len(tasks) \in Nat
         /\ \A p \in DOMAIN found : \A i \in DOMAIN found[p] : \A phase \in found[p][i].files :
              Cardinality(Times(tasks, p, found[p][i], phase)) =
                IF [plugin |-> p, core |-> found[p][i].core, tag |-> found[p][i].tag] \in h THEN 0 ELSE 1
         /\ \A j \in 1..Len(tasks) : tasks[j].plugin \in DOMAIN found
         /\ mode = "normal" => \A j, k \in 1..Len(tasks) : j < k =>
              /\ Place(tasks[j].phase) <= Place(tasks[k].phase)
              /\ tasks[j].plugin = tasks[k].plugin /\ tasks[j].phase = tasks[k].phase =>
                   tasks[j].core <= tasks[k].core
<1>1. PICK list, ph, tk :
        Pending(list, found, h) /\ AgendaIs(tasks, list, mode, ph, tk) /\ tasks \in Seq(AnyItem(list))
  BY DEF TasksOfCall
<1> DEFINE l == Len(tasks)
           n == Len(list)
<1>2. l = Len(tasks) /\ n = Len(list)
  OBVIOUS
<1>3. /\ l \in Nat /\ n \in Nat
      /\ \A k \in 1..n : TaskIsNew(list[k], found, h)
      /\ \A p \in DOMAIN found : \A i \in 1..Len(found[p]) :
           IsNew(h, p, found[p][i]) => \E k \in 1..n : list[k] = Task(p, found[p][i])
      /\ \A j, k \in 1..n : j < k => OneAfter(list[j], list[k])
  BY <1>1, <1>2, LenProperties DEF Pending
<1>4. /\ ph \in [1..l -> 1..3] /\ tk \in [1..l -> 1..n]
      /\ \A k \in 1..l : Phases[ph[k]] \in list[tk[k]].files /\ tasks[k] = Item(list[tk[k]], Phases[ph[k]])
      /\ \A p \in 1..3, t \in 1..n :
           Phases[p] \in list[t].files => \E k \in 1..l : ph[k] = p /\ tk[k] = t
      /\ \A j, k \in 1..l : j # k => ~(ph[j] = ph[k] /\ tk[j] = tk[k])
      /\ mode = "normal" => \A j, k \in 1..l : j < k => Before(ph, tk, j, k)
  BY <1>1 DEF AgendaIs
<1> HIDE DEF l, n
<1>5. ASSUME NEW k \in 1..l
      PROVE  /\ tasks[k].plugin = list[tk[k]].plugin /\ tasks[k].core = list[tk[k]].core
             /\ tasks[k].tag = list[tk[k]].tag /\ tasks[k].phase = Phases[ph[k]]
             /\ Place(tasks[k].phase) = ph[k] /\ TaskIsNew(list[tk[k]], found, h)
  <2>1. tasks[k] = Item(list[tk[k]], Phases[ph[k]]) /\ ph[k] \in 1..3 /\ tk[k] \in 1..n
    BY <1>4
  <2>2. /\ tasks[k].plugin = list[tk[k]].plugin /\ tasks[k].core = list[tk[k]].core
        /\ tasks[k].tag = list[tk[k]].tag /\ tasks[k].phase = Phases[ph[k]]
    BY <2>1 DEF Item
  <2> QED
    BY <1>3, <2>1, <2>2, PhasesAre
<1>6. ASSUME NEW p \in DOMAIN found
      PROVE  DOMAIN found[p] = 1..Len(found[p]) /\ \A i \in 1..Len(found[p]) : found[p][i].files \subseteq Range(Phases)
  <2>1. PICK vs : vs = found[p]
    OBVIOUS
  <2>2. vs \in Seq(Range(vs)) /\ \A v \in Range(vs) : v.files \subseteq Range(Phases)
    BY <2>1 DEF FoundIsSound, Versioned
  <2>3. DOMAIN vs = 1..Len(vs) /\ \A i \in 1..Len(vs) : vs[i] \in Range(vs)
    BY <2>2, LenProperties
  <2> QED
    BY <2>1, <2>2, <2>3
<1>7. ASSUME NEW j \in 1..n, NEW k \in 1..n, j # k, list[j].plugin = list[k].plugin
      PROVE  Apart(list[j], list[k])
  <2>1. j < k \/ k < j
    BY <1>3, <1>7
  <2> QED
    BY <1>3, <1>7, <2>1 DEF OneAfter, Apart
<1>8. ASSUME NEW p \in DOMAIN found, NEW i \in DOMAIN found[p], NEW phase \in found[p][i].files,
             NEW v, v = found[p][i],
             NEW times, times = Times(tasks, p, v, phase)
      PROVE  Cardinality(times) = IF [plugin |-> p, core |-> v.core, tag |-> v.tag] \in h THEN 0 ELSE 1
  <2>0. times = {j \in 1..l : /\ tasks[j].plugin = p /\ tasks[j].core = v.core
                              /\ tasks[j].tag = v.tag /\ tasks[j].phase = phase}
    BY <1>2, <1>8 DEF Times
  <2>1. CASE [plugin |-> p, core |-> v.core, tag |-> v.tag] \in h
    <3>1. ASSUME NEW j \in times PROVE FALSE
      <4>1. PICK t : t = list[tk[j]]
        OBVIOUS
      <4>2. t.plugin = p /\ t.core = v.core /\ t.tag = v.tag /\ TaskIsNew(t, found, h)
        BY <1>5, <2>0, <4>1
      <4>3. PICK w : t = Task(p, w) /\ IsNew(h, p, w)
        BY <4>2 DEF TaskIsNew
      <4>4. w.core = v.core /\ w.tag = v.tag
        BY <4>2, <4>3, TaskIs
      <4> QED
        BY <2>1, <4>3, <4>4 DEF IsNew
    <3>2. times = {}
      BY <3>1
    <3> QED
      BY <2>1, <3>2, FS_EmptySet
  <2>2. CASE [plugin |-> p, core |-> v.core, tag |-> v.tag] \notin h
    <3>1. i \in 1..Len(found[p]) /\ phase \in v.files /\ phase \in Range(Phases)
      BY <1>6, <1>8
    <3>2. IsNew(h, p, v)
      BY <2>2, <3>1 DEF IsNew
    <3>3. PICK t \in 1..n : list[t] = Task(p, v)
      BY <1>3, <1>8, <3>1, <3>2
    <3>4. list[t].plugin = p /\ list[t].core = v.core /\ list[t].tag = v.tag /\ list[t].files = v.files
      BY <3>3, TaskIs
    <3>5. PICK b \in 1..3 : Phases[b] = phase
      BY <3>1, PhasesAre
    <3>6. PICK k \in 1..l : ph[k] = b /\ tk[k] = t
      BY <1>4, <3>1, <3>4, <3>5
    <3>7. k \in times
      BY <1>5, <2>0, <3>4, <3>5, <3>6
    <3>8. ASSUME NEW j \in times PROVE j = k
      <4>1. j \in 1..l /\ tasks[j].plugin = p /\ tasks[j].core = v.core /\ tasks[j].tag = v.tag /\ tasks[j].phase = phase
        BY <2>0
      <4>2. ph[j] = b
        BY <1>5, <3>5, <4>1, PhasesAre
      <4>3. tk[j] = t
        <5>1. tk[j] \in 1..n
          BY <1>4, <4>1
        <5>2. list[tk[j]].plugin = p /\ list[tk[j]].core = v.core /\ list[tk[j]].tag = v.tag
          BY <1>5, <4>1
        <5> QED
          BY <1>7, <3>4, <5>1, <5>2 DEF Apart
      <4> QED
        BY <1>4, <3>6, <4>1, <4>2, <4>3
    <3>9. times = {k}
      BY <3>7, <3>8
    <3> QED
      BY <2>2, <3>9, FS_Singleton
  <2> QED
    BY <2>1, <2>2
<1>9. ASSUME NEW j \in 1..l PROVE tasks[j].plugin \in DOMAIN found
  BY <1>5 DEF TaskIsNew
<1>10. ASSUME mode = "normal", NEW j \in 1..l, NEW k \in 1..l, j < k
       PROVE  /\ Place(tasks[j].phase) <= Place(tasks[k].phase)
              /\ tasks[j].plugin = tasks[k].plugin /\ tasks[j].phase = tasks[k].phase =>
                   tasks[j].core <= tasks[k].core
  <2>1. ph[j] < ph[k] \/ (ph[j] = ph[k] /\ tk[j] < tk[k])
    BY <1>4, <1>10 DEF Before
  <2>2. ph[j] \in 1..3 /\ ph[k] \in 1..3 /\ tk[j] \in 1..n /\ tk[k] \in 1..n
    BY <1>4
  <2>3. Place(tasks[j].phase) = ph[j] /\ Place(tasks[k].phase) = ph[k]
    BY <1>5
  <2>4. ASSUME tasks[j].plugin = tasks[k].plugin, tasks[j].phase = tasks[k].phase
        PROVE  tasks[j].core <= tasks[k].core
    <3>1. tk[j] < tk[k]
      BY <2>1, <2>2, <2>3, <2>4
    <3>2. OneAfter(list[tk[j]], list[tk[k]])
      BY <1>3, <2>2, <3>1
    <3> QED
      BY <1>5, <2>4, <3>2 DEF OneAfter
  <2> QED
    BY <2>1, <2>2, <2>3, <2>4
<1> QED
  BY <1>2, <1>3, <1>8, <1>9, <1>10

\* migration/src/engine.ts, for any files, unreadable directories, history and failures:
\* a finished call has tried each phase of each version that was found and is newer than those
\* recorded of its plugin, none of a recorded one, in order, none twice and nothing else.
THEOREM EveryPhaseIsTriedEver == MigrationInit /\ [][MigrationNext]_migrationVars => []EveryPhaseIsTried
<1>1. MigrationInit => MigrationInv
  BY DEF MigrationInit, MigrationInv, CallIs, Idle
<1>2. MigrationInv /\ [MigrationNext]_migrationVars => MigrationInv'
  BY MigrationStep
<1>3. MigrationInv => EveryPhaseIsTried
  <2> SUFFICES ASSUME MigrationInv, run.at = "done" PROVE EveryPhaseIsTried
    BY DEF EveryPhaseIsTried
  <2>1. PICK r, h, tasks, found, mode, log :
          r = run /\ h = history /\ tasks = r.tasks /\ found = r.found /\ mode = r.mode /\ log = r.log
    OBVIOUS
  <2>2. /\ FoundIsSound(found) /\ TasksOfCall(tasks, found, mode, h)
        /\ LogOf(log, tasks, Len(tasks))
    BY <2>1 DEF MigrationInv, CallIs
  <2>3. DOMAIN log = 1..Len(tasks) /\ \A j \in 1..Len(tasks) : log[j].task = tasks[j]
    <3>1. PICK S : log \in Seq(S)
      BY <2>2 DEF LogOf
    <3> QED
      BY <2>2, <3>1, LenProperties DEF LogOf
  <2>4. ASSUME NEW p \in DOMAIN found, NEW i \in DOMAIN found[p], NEW phase \in found[p][i].files,
               NEW v, v = found[p][i], NEW times, times = Tries(p, v, phase)
        PROVE  /\ Cardinality(times) \in {0, 1}
               /\ IsRecorded(p, v) => times = {}
               /\ IsNewer(p, v) => times # {}
    <3>1. times = Times(tasks, p, v, phase)
      BY <2>1, <2>3, <2>4 DEF Times, Tries
    <3>2. Cardinality(Times(tasks, p, found[p][i], phase)) =
            IF [plugin |-> p, core |-> found[p][i].core, tag |-> found[p][i].tag] \in h THEN 0 ELSE 1
      BY <2>2, AllAreTried
    <3>3. Cardinality(times) = IF IsRecorded(p, v) THEN 0 ELSE 1
      BY <2>1, <2>4, <3>1, <3>2 DEF IsRecorded
    <3>4. IsFiniteSet(times)
      <4>1. times \subseteq 1..Len(tasks)
        BY <2>3, <3>1 DEF Times
      <4>2. Len(tasks) \in Nat
        BY <2>2, LenProperties DEF LogOf
      <4>3. IsFiniteSet(1..Len(tasks))
        BY <4>2, FS_Interval
      <4> QED
        BY <4>1, <4>3, FS_Subset
    <3>5. IsRecorded(p, v) => times = {}
      BY <3>3, <3>4, FS_EmptySet
    <3>6. times = {} => Cardinality(times) = 0
      BY FS_EmptySet
    <3>7. IsNewer(p, v) => ~IsRecorded(p, v)
      <4>1. v.core \in Nat
        <5>1. Versioned(found[p])
          BY <2>2, <2>4 DEF FoundIsSound
        <5>2. v \in Range(found[p])
          BY <2>4 DEF Range
        <5> QED
          BY <5>1, <5>2 DEF Versioned
      <4> QED
        BY <4>1 DEF IsNewer, IsRecorded
    <3> QED
      BY <3>3, <3>5, <3>6, <3>7
  <2>5. \A j \in DOMAIN log : log[j].task.plugin \in DOMAIN found
    BY <2>2, <2>3, AllAreTried
  <2>6. ASSUME mode = "normal", NEW j \in DOMAIN log, NEW k \in DOMAIN log, j < k
        PROVE  /\ Place(log[j].task.phase) <= Place(log[k].task.phase)
               /\ log[j].task.plugin = log[k].task.plugin /\ log[j].task.phase = log[k].task.phase =>
                    log[j].task.core <= log[k].task.core
    BY <2>2, <2>3, <2>6, AllAreTried
  <2>7. \A p \in DOMAIN found : \A i \in DOMAIN found[p] : \A phase \in found[p][i].files :
          LET v == found[p][i]
          IN /\ Cardinality(Tries(p, v, phase)) \in {0, 1}
             /\ IsRecorded(p, v) => Tries(p, v, phase) = {}
             /\ IsNewer(p, v) => Tries(p, v, phase) # {}
    BY <2>4
  <2> QED
    BY <2>1, <2>5, <2>6, <2>7 DEF EveryPhaseIsTried
<1> QED
  BY <1>1, <1>2, <1>3, PTL

-----------------------------------------------------------------------------
(* Collections and their tables.                                           *)

LEMMA ColumnFacts ==
  ASSUME NEW f, f.type \in FieldTypes, f.required \in BOOLEAN
  PROVE  LET c == FieldToColumn(f)
         IN /\ c.name = f.name
            /\ c.check = IF f.type = "enum" THEN f.enumValues ELSE {}
            /\ f.type \in {"number", "boolean", "string", "date", "enum", "belongsTo"} =>
                 (c.notNull /\ ~c.default => f.required /\ f.type \notin {"boolean", "hasMany"})
<1> QED
  BY DEF FieldToColumn, Column, FieldTypes

LEMMA ColumnsGiven ==
  /\ \A n : KeyColumn(n).name = n /\ KeyColumn(n).default = TRUE /\ KeyColumn(n).check = {}
  /\ \A n : Stamp(n).name = n /\ Stamp(n).notNull = FALSE /\ Stamp(n).check = {}
<1> QED
  BY DEF KeyColumn, Stamp, Column

\* The places in fields of the columns made of them.
ColumnsAt(cols, fields, place) ==
  /\ place \in [1..Len(cols) -> 1..Len(fields)]
  /\ \A k \in 1..Len(cols) : fields[place[k]].type # "hasMany" /\ cols[k] = FieldToColumn(fields[place[k]])
  /\ \A k, l \in 1..Len(cols) : k < l => place[k] < place[l]
  /\ \A i \in 1..Len(fields) : fields[i].type # "hasMany" => \E k \in 1..Len(cols) : place[k] = i

LEMMA ColumnsAre ==
  ASSUME NEW S, NEW fields \in Seq(S)
  PROVE  /\ Columns(fields) \in Seq({FieldToColumn(f) : f \in S})
         /\ \E place : ColumnsAt(Columns(fields), fields, place)
<1>1. PICK T, kept : T = {f \in Range(fields) : f.type # "hasMany"} /\ kept = Filter(fields, T)
  OBVIOUS
<1>2. PICK place : Kept(kept, fields, T, place)
  BY <1>1, FilteredFrom
<1>3. kept \in Seq(S)
  BY <1>1, FilteredFrom
<1>4. /\ place \in [1..Len(kept) -> 1..Len(fields)]
      /\ \A k \in 1..Len(kept) : kept[k] = fields[place[k]] /\ fields[place[k]] \in T
      /\ \A k, l \in 1..Len(kept) : k < l => place[k] < place[l]
      /\ \A i \in 1..Len(fields) : fields[i] \in T => \E k \in 1..Len(kept) : place[k] = i
  BY <1>2 DEF Kept
<1>5. PICK cols : cols = [i \in DOMAIN kept |-> FieldToColumn(kept[i])]
  OBVIOUS
<1>6. Columns(fields) = cols
  BY <1>1, <1>5 DEF Columns, WithColumn
<1>7. DOMAIN kept = 1..Len(kept) /\ Len(kept) \in Nat /\ \A k \in 1..Len(kept) : kept[k] \in S
  BY <1>3, LenProperties
<1>8. cols \in [1..Len(kept) -> {FieldToColumn(f) : f \in S}]
  BY <1>5, <1>7
<1>9. cols \in Seq({FieldToColumn(f) : f \in S}) /\ Len(cols) = Len(kept)
  BY <1>7, <1>8
<1>10. \A k \in 1..Len(cols) : cols[k] = FieldToColumn(kept[k])
  BY <1>5, <1>7, <1>9
<1>11. \A i \in 1..Len(fields) : fields[i].type # "hasMany" => fields[i] \in T
  <2>1. \A i \in 1..Len(fields) : fields[i] \in Range(fields)
    BY LenProperties DEF Range
  <2> QED
    BY <1>1, <2>1
<1>12. ColumnsAt(cols, fields, place)
  <2>1. \A k \in 1..Len(cols) : fields[place[k]].type # "hasMany" /\ cols[k] = FieldToColumn(fields[place[k]])
    BY <1>1, <1>4, <1>9, <1>10
  <2> QED
    BY <1>4, <1>9, <1>11, <2>1 DEF ColumnsAt
<1> QED
  BY <1>6, <1>9, <1>12

\* A field's column, the key's not among them.
IsOfField(col, fields, pk) ==
  \E k \in 1..Len(fields) : fields[k].type # "hasMany" /\ fields[k].name # pk /\ col = FieldToColumn(fields[k])

\* A column of a table: the key, a field's, or a stamp.
IsStamp(col) == col = Stamp("created_at") \/ col = Stamp("updated_at")
IsColumnOf(col, fields, pk) ==
  \/ col = KeyColumn(pk) \/ IsStamp(col)
  \/ \E i \in 1..Len(fields) :
       fields[i].type # "hasMany" /\ fields[i].name # pk /\ col = FieldToColumn(fields[i])
HasColumn(cols, f) == \E i \in 1..Len(cols) : cols[i] = FieldToColumn(f)

\* The fields of a collection that validateCollection lets pass.
FieldsAreValid(fields) ==
  /\ fields \in Seq(Fields)
  /\ \A i \in 1..Len(fields) : fields[i].type \in FieldTypes /\ fields[i].required \in BOOLEAN
  /\ \A i, j \in 1..Len(fields) : fields[i].name = fields[j].name => i = j

LEMMA ValidIs ==
  ASSUME NEW c, c.fields \in Seq(Fields), CollectionIsValid(c)
  PROVE  FieldsAreValid(c.fields)
<1>1. PICK fields : fields = c.fields
  OBVIOUS
<1>2. DOMAIN fields = 1..Len(fields) /\ \A i \in 1..Len(fields) : fields[i] \in Fields
  BY <1>1, LenProperties
<1>3. /\ \A i, j \in 1..Len(fields) : fields[i].name = fields[j].name => i = j
      /\ \A i \in 1..Len(fields) : FieldErrors(fields[i]) = {}
  BY <1>1, <1>2 DEF CollectionIsValid
<1>4. ASSUME NEW f, FieldErrors(f) = {} PROVE f.type \in FieldTypes
  <2>1. f.type \notin FieldTypes => "type" \in FieldErrors(f)
    BY DEF FieldErrors
  <2> QED
    BY <1>4, <2>1
<1> QED
  BY <1>1, <1>2, <1>3, <1>4, FieldsAssumption DEF FieldsAreValid

\* A new table, by its columns.
Created(cols, fields, pk) ==
  /\ \E S : cols \in Seq(S)
  /\ \A i \in 1..Len(cols) : IsColumnOf(cols[i], fields, pk)
  /\ \E i \in 1..Len(cols) : cols[i] = KeyColumn(pk)
  /\ \A i \in 1..Len(fields) : fields[i].type # "hasMany" /\ fields[i].name # pk => HasColumn(cols, fields[i])
  /\ \A i, j \in 1..Len(cols) : cols[i].name = cols[j].name => i = j \/ cols[i].name \in {"created_at", "updated_at"}

IsMadeOf(cols, fields, pk) == cols = Columns(Filter(fields, {f \in Range(fields) : f.name # pk}))

LEMMA FieldColumns ==
  ASSUME NEW pk, NEW fields, FieldsAreValid(fields), NEW cols, IsMadeOf(cols, fields, pk)
  PROVE  /\ \E S : cols \in Seq(S)
         /\ \A i \in 1..Len(cols) : IsOfField(cols[i], fields, pk)
         /\ \A i \in 1..Len(fields) : fields[i].type # "hasMany" /\ fields[i].name # pk => HasColumn(cols, fields[i])
         /\ \A i, j \in 1..Len(cols) : cols[i].name = cols[j].name => i = j
<1>0. fields \in Seq(Fields)
  BY DEF FieldsAreValid
<1>1. PICK T, kept : T = {f \in Range(fields) : f.name # pk} /\ kept = Filter(fields, T)
  OBVIOUS
<1>2. PICK at : Kept(kept, fields, T, at)
  BY <1>0, <1>1, FilteredFrom
<1>3. kept \in Seq(Fields)
  BY <1>0, <1>1, FilteredFrom
<1>4. cols = Columns(kept)
  BY <1>1 DEF IsMadeOf
<1>5. PICK place : ColumnsAt(cols, kept, place)
  BY <1>3, <1>4, ColumnsAre
<1>6. cols \in Seq({FieldToColumn(f) : f \in Fields})
  BY <1>3, <1>4, ColumnsAre
<1>7. PICK n, m, l : n = Len(fields) /\ m = Len(kept) /\ l = Len(cols)
  OBVIOUS
<1>8. /\ n \in Nat /\ m \in Nat /\ l \in Nat
      /\ at \in [1..m -> 1..n]
      /\ \A k \in 1..m : kept[k] = fields[at[k]] /\ fields[at[k]] \in T
      /\ \A j, k \in 1..m : j < k => at[j] < at[k]
      /\ \A i \in 1..n : fields[i] \in T => \E k \in 1..m : at[k] = i
  BY <1>0, <1>2, <1>3, <1>6, <1>7, LenProperties DEF Kept
<1>9. /\ place \in [1..l -> 1..m]
      /\ \A k \in 1..l : kept[place[k]].type # "hasMany" /\ cols[k] = FieldToColumn(kept[place[k]])
      /\ \A j, k \in 1..l : j < k => place[j] < place[k]
      /\ \A i \in 1..m : kept[i].type # "hasMany" => \E k \in 1..l : place[k] = i
  BY <1>5, <1>7 DEF ColumnsAt
<1>10. \A i \in 1..n : fields[i] \in T <=> fields[i].name # pk
  <2>1. \A i \in 1..n : fields[i] \in Range(fields)
    BY <1>0, <1>7, LenProperties DEF Range
  <2> QED
    BY <1>1, <2>1
<1>11. ASSUME NEW i \in 1..l
       PROVE  /\ at[place[i]] \in 1..n /\ fields[at[place[i]]].type # "hasMany"
              /\ fields[at[place[i]]].name # pk /\ cols[i] = FieldToColumn(fields[at[place[i]]])
  <2>1. PICK k : k = place[i]
    OBVIOUS
  <2>2. k \in 1..m /\ kept[k].type # "hasMany" /\ cols[i] = FieldToColumn(kept[k])
    BY <1>9, <2>1
  <2> QED
    BY <1>8, <1>10, <2>1, <2>2
<1>12. ASSUME NEW i \in 1..n, fields[i].type # "hasMany", fields[i].name # pk
       PROVE  HasColumn(cols, fields[i])
  <2>1. PICK k \in 1..m : at[k] = i
    BY <1>8, <1>10, <1>12
  <2>2. kept[k] = fields[i]
    BY <1>8, <2>1
  <2>3. PICK j \in 1..l : place[j] = k
    BY <1>9, <1>12, <2>2
  <2>4. cols[j] = FieldToColumn(fields[i])
    BY <1>9, <2>2, <2>3
  <2> QED
    BY <1>7, <2>4 DEF HasColumn
<1>13. ASSUME NEW i \in 1..l, NEW j \in 1..l, cols[i].name = cols[j].name
       PROVE  i = j
  <2>1. PICK p, q : p = at[place[i]] /\ q = at[place[j]]
    OBVIOUS
  <2>2. p \in 1..n /\ q \in 1..n /\ cols[i] = FieldToColumn(fields[p]) /\ cols[j] = FieldToColumn(fields[q])
    BY <1>11, <2>1
  <2>3. fields[p].name = fields[q].name
    BY <1>7, <1>13, <2>2, ColumnFacts DEF FieldsAreValid
  <2>4. p = q
    BY <1>7, <2>2, <2>3 DEF FieldsAreValid
  <2>5. place[i] \in 1..m /\ place[j] \in 1..m
    BY <1>9
  <2>6. place[i] = place[j]
    <3>1. PICK u, v : u = place[i] /\ v = place[j]
      OBVIOUS
    <3>2. u \in 1..m /\ v \in 1..m /\ at[u] = at[v] /\ at[u] \in 1..n
      BY <1>8, <2>1, <2>4, <2>5, <3>1
    <3>3. ~(u < v) /\ ~(v < u)
      BY <1>8, <3>2
    <3> QED
      BY <1>8, <3>1, <3>2, <3>3
  <2> QED
    BY <1>8, <1>9, <2>6
<1>14. \A i \in 1..l : IsOfField(cols[i], fields, pk)
  BY <1>7, <1>11 DEF IsOfField
<1> QED
  BY <1>6, <1>7, <1>12, <1>13, <1>14

LEMMA CreateTableIs ==
  ASSUME NEW c, NEW pk, pk = c.key, NEW fields, fields = c.fields, FieldsAreValid(fields), NEW t, t = CreateTableOf(c)
  PROVE  Created(t, fields, pk)
<1>1. PICK cols, stamps :
        /\ cols = Columns(Filter(fields, {f \in Range(fields) : f.name # pk}))
        /\ stamps = IF c.timestamps THEN <<Stamp("created_at"), Stamp("updated_at")>> ELSE <<>>
  OBVIOUS
<1>2. PICK key : key = KeyColumn(pk)
  OBVIOUS
<1>3. t = <<key>> \o cols \o stamps
  BY <1>1, <1>2 DEF CreateTableOf
<1>30. IsMadeOf(cols, fields, pk)
  BY <1>1 DEF IsMadeOf
<1>4. PICK S1 : cols \in Seq(S1)
  BY <1>30, FieldColumns
<1>5. PICK l, m, S : /\ l = Len(cols) /\ m = Len(stamps)
                     /\ S = S1 \cup {key, Stamp("created_at"), Stamp("updated_at")}
  OBVIOUS
<1>6. stamps \in Seq(S) /\ m \in {0, 2} /\ \A i \in 1..m : IsStamp(stamps[i])
  <2>1. PICK a1, a2 : a1 = Stamp("created_at") /\ a2 = Stamp("updated_at")
    OBVIOUS
  <2>2. CASE c.timestamps
    <3>1. stamps = <<a1, a2>>
      BY <1>1, <2>1, <2>2
    <3>2. a1 \in S /\ a2 \in S
      BY <1>5, <2>1
    <3>3. IsStamp(a1) /\ IsStamp(a2)
      BY <2>1 DEF IsStamp
    <3>4. stamps \in Seq(S) /\ Len(stamps) = 2 /\ stamps[1] = a1 /\ stamps[2] = a2
      BY <3>1, <3>2
    <3> QED
      BY <1>5, <3>3, <3>4
  <2>3. CASE ~c.timestamps
    <3>1. stamps = <<>>
      BY <1>1, <2>3
    <3> QED
      BY <1>5, <3>1
  <2> QED
    BY <2>2, <2>3
<1>7. cols \in Seq(S) /\ l \in Nat /\ m \in Nat /\ key \in S
  BY <1>4, <1>5, <1>6
<1>8. PICK front : front = <<key>> \o cols
  OBVIOUS
<1>9. front \in Seq(S) /\ Len(front) = 1 + l /\ front[1] = key /\ \A k \in 1..l : front[1 + k] = cols[k]
  BY <1>5, <1>7, <1>8
<1>10. /\ t \in Seq(S) /\ Len(t) = 1 + l + m
       /\ \A k \in 1..(1 + l) : t[k] = front[k]
       /\ \A k \in 1..m : t[1 + l + k] = stamps[k]
  BY <1>3, <1>5, <1>6, <1>7, <1>8, <1>9
<1>11. \A k \in 1..l : 1 + k \in 1..(1 + l) /\ 1 + k \in 1..(1 + l + m)
  BY <1>7
<1>12. t[1] = key /\ 1 \in 1..(1 + l + m) /\ \A k \in 1..l : t[1 + k] = cols[k]
  <2>1. 1 \in 1..(1 + l)
    BY <1>7
  <2>2. 1 \in 1..(1 + l + m)
    BY <1>7
  <2> QED
    BY <1>9, <1>10, <1>11, <2>1, <2>2
<1>13. ASSUME NEW i \in 1..(1 + l + m)
       PROVE  \/ i = 1
              \/ \E k \in 1..l : i = 1 + k
              \/ \E k \in 1..m : i = 1 + l + k
  <2>1. CASE i > 1 /\ i <= 1 + l
    <3>1. i - 1 \in 1..l /\ i = 1 + (i - 1)
      BY <1>7, <2>1
    <3> QED
      BY <3>1
  <2>2. CASE i > 1 + l
    <3>1. i - (1 + l) \in 1..m /\ i = 1 + l + (i - (1 + l))
      BY <1>7, <2>2
    <3> QED
      BY <3>1
  <2> QED
    BY <1>7, <2>1, <2>2
<1>14. /\ \A i \in 1..l : IsOfField(cols[i], fields, pk)
       /\ \A i \in 1..Len(fields) : fields[i].type # "hasMany" /\ fields[i].name # pk => HasColumn(cols, fields[i])
       /\ \A i, j \in 1..l : cols[i].name = cols[j].name => i = j
  <2>1. \A i \in 1..Len(cols) : IsOfField(cols[i], fields, pk)
    BY ONLY FieldsAreValid(fields), <1>30, FieldColumns
  <2>2. \A i, j \in 1..Len(cols) : cols[i].name = cols[j].name => i = j
    BY ONLY FieldsAreValid(fields), <1>30, FieldColumns
  <2>3. \A i \in 1..Len(fields) : fields[i].type # "hasMany" /\ fields[i].name # pk => HasColumn(cols, fields[i])
    BY ONLY FieldsAreValid(fields), <1>30, FieldColumns
  <2> QED
    BY <1>5, <2>1, <2>2, <2>3
<1>15. ASSUME NEW i \in 1..l PROVE cols[i].name # pk
  <2>1. PICK k \in 1..Len(fields) : fields[k].name # pk /\ cols[i] = FieldToColumn(fields[k])
    BY <1>14 DEF IsOfField
  <2>2. fields[k].type \in FieldTypes /\ fields[k].required \in BOOLEAN
    BY DEF FieldsAreValid
  <2> QED
    BY <2>1, <2>2, ColumnFacts
<1>16. \A col : IsStamp(col) => col.name \in {"created_at", "updated_at"}
  BY ColumnsGiven DEF IsStamp
<1>17. ASSUME NEW i \in 1..(1 + l + m) PROVE IsColumnOf(t[i], fields, pk)
  <2>1. CASE i = 1
    BY <1>2, <1>12, <2>1 DEF IsColumnOf
  <2>2. ASSUME NEW k \in 1..l, i = 1 + k PROVE IsColumnOf(t[i], fields, pk)
    BY <1>12, <1>14, <2>2 DEF IsColumnOf, IsOfField
  <2>3. ASSUME NEW k \in 1..m, i = 1 + l + k PROVE IsColumnOf(t[i], fields, pk)
    BY <1>6, <1>10, <2>3 DEF IsColumnOf
  <2> QED
    BY <1>13, <2>1, <2>2, <2>3
<1>18. ASSUME NEW i \in 1..Len(fields), fields[i].type # "hasMany", fields[i].name # pk
       PROVE  HasColumn(t, fields[i])
  <2>1. PICK k \in 1..l : cols[k] = FieldToColumn(fields[i])
    BY <1>5, <1>14, <1>18 DEF HasColumn
  <2>2. 1 + k \in 1..Len(t) /\ t[1 + k] = FieldToColumn(fields[i])
    BY <1>10, <1>11, <1>12, <2>1
  <2> QED
    BY <2>2 DEF HasColumn
<1>19. ASSUME NEW i \in 1..(1 + l + m), NEW j \in 1..(1 + l + m), t[i].name = t[j].name,
              t[i].name \notin {"created_at", "updated_at"}
       PROVE  i = j
  <2>1. ASSUME NEW h \in 1..(1 + l + m), t[h].name \notin {"created_at", "updated_at"}
        PROVE  h = 1 \/ \E k \in 1..l : h = 1 + k
    <3>1. ASSUME NEW k \in 1..m, h = 1 + l + k PROVE FALSE
      BY <1>6, <1>10, <1>16, <2>1, <3>1
    <3> QED
      BY <1>13, <3>1
  <2>2. key.name = pk
    BY <1>2, ColumnsGiven
  <2>3. ASSUME NEW a1 \in 1..l, NEW a2 \in 1..l, i = 1 + a1, j = 1 + a2 PROVE i = j
    BY <1>12, <1>14, <1>19, <2>3
  <2>4. ASSUME NEW a1 \in 1..l, (i = 1 /\ j = 1 + a1) \/ (j = 1 /\ i = 1 + a1) PROVE FALSE
    BY <1>12, <1>15, <1>19, <2>2, <2>4
  <2> QED
    BY <1>19, <2>1, <2>3, <2>4
<1> QED
  <2>1. \E i \in 1..Len(t) : t[i] = KeyColumn(pk)
    BY <1>2, <1>10, <1>12
  <2>2. \E S2 : t \in Seq(S2)
    BY <1>10
  <2> QED
    BY <1>10, <1>17, <1>18, <1>19, <2>1, <2>2 DEF Created

\* The database has a table: its columns are those of the fields but for additions to come.
TableIs(cols, fields, more, pk) ==
  /\ \E S : cols \in Seq(S)
  /\ \A i \in 1..Len(cols) : IsColumnOf(cols[i], fields, pk)
  /\ \E i \in 1..Len(cols) : cols[i] = KeyColumn(pk)
  /\ \A i, j \in 1..Len(cols) : cols[i].name = cols[j].name => i = j
  /\ \A i \in 1..Len(fields) : fields[i].type # "hasMany" /\ fields[i].name # pk =>
       HasColumn(cols, fields[i]) \/ \E k \in 1..Len(more) : more[k] = fields[i]
  /\ \A k \in 1..Len(more) : \E i \in 1..Len(fields) : more[k] = fields[i]

SchemaIs(c, cols, more) ==
  /\ c \in [fields : Seq(Fields), timestamps : BOOLEAN, key : Keys, registered : BOOLEAN]
  /\ c.registered \/ cols # <<>> => FieldsAreValid(c.fields)
  /\ more \in Seq(Fields)
  /\ cols # <<>> => TableIs(cols, c.fields, more, c.key)
  /\ cols = <<>> => more = <<>>

SchemaInv == SchemaIs(collection, table, addition)

LEMMA Distinct ==
  ASSUME NEW cols, NEW S, cols \in Seq(S), DatabaseAccepts(cols)
  PROVE  \A i, j \in 1..Len(cols) : cols[i].name = cols[j].name => i = j
<1>1. DOMAIN cols = 1..Len(cols)
  BY LenProperties
<1> QED
  BY <1>1 DEF DatabaseAccepts

LEMMA OneColumn ==
  ASSUME NEW f \in Fields, NEW cols, cols = Columns(<<f>>)
  PROVE  IF f.type = "hasMany" THEN cols = <<>> ELSE cols = <<FieldToColumn(f)>>
<1>1. PICK one : one = <<f>>
  OBVIOUS
<1>2. one \in Seq(Fields) /\ Len(one) = 1 /\ one[1] = f
  BY <1>1
<1>3. PICK place : ColumnsAt(cols, one, place)
  BY <1>1, <1>2, ColumnsAre
<1>4. cols \in Seq({FieldToColumn(g) : g \in Fields})
  BY <1>1, <1>2, ColumnsAre
<1>5. PICK l : l = Len(cols)
  OBVIOUS
<1>6. /\ l \in Nat
      /\ place \in [1..l -> 1..1]
      /\ \A k \in 1..l : one[place[k]].type # "hasMany" /\ cols[k] = FieldToColumn(one[place[k]])
      /\ \A j, k \in 1..l : j < k => place[j] < place[k]
      /\ \A i \in 1..1 : one[i].type # "hasMany" => \E k \in 1..l : place[k] = i
  BY <1>2, <1>3, <1>4, <1>5, LenProperties DEF ColumnsAt
<1>7. \A k \in 1..l : place[k] = 1 /\ f.type # "hasMany" /\ cols[k] = FieldToColumn(f)
  BY <1>2, <1>6
<1>8. l <= 1
  <2>1. l >= 2 => 1 \in 1..l /\ 2 \in 1..l
    BY <1>6
  <2>2. ~(l >= 2)
    BY <1>6, <1>7, <2>1
  <2> QED
    BY <1>6, <2>2
<1>9. CASE f.type = "hasMany"
  <2>1. l = 0
    <3>1. l = 1 => 1 \in 1..l
      OBVIOUS
    <3> QED
      BY <1>6, <1>7, <1>8, <1>9, <3>1
  <2> QED
    BY <1>4, <1>5, <1>9, <2>1, EmptySeq
<1>10. CASE f.type # "hasMany"
  <2>1. l = 1
    BY <1>2, <1>6, <1>8, <1>10
  <2>2. cols[1] = FieldToColumn(f)
    BY <1>7, <2>1
  <2>3. cols = <<FieldToColumn(f)>>
    BY <1>4, <1>5, <2>1, <2>2
  <2> QED
    BY <1>10, <2>3
<1> QED
  BY <1>9, <1>10

IsAltered(new, cols, more) == new = cols \o Columns(<<Head(more)>>)

LEMMA AlterIs ==
  ASSUME NEW pk, NEW cols, NEW fields, NEW more, FieldsAreValid(fields), TableIs(cols, fields, more, pk),
         more \in Seq(Fields), more # <<>>, NEW new, IsAltered(new, cols, more), DatabaseAccepts(new),
         NEW rest, rest = Tail(more)
  PROVE  TableIs(new, fields, rest, pk) /\ new # <<>>
<1>1. PICK f, add : f = Head(more) /\ add = Columns(<<f>>)
  OBVIOUS
<1>2. /\ f \in Fields /\ rest \in Seq(Fields) /\ Len(more) \in Nat /\ Len(more) > 0 /\ f = more[1]
      /\ Len(rest) = Len(more) - 1 /\ \A k \in 1..Len(rest) : rest[k] = more[k + 1]
  BY <1>1
<1>3. IF f.type = "hasMany" THEN add = <<>> ELSE add = <<FieldToColumn(f)>>
  BY <1>1, <1>2, OneColumn
<1>4. PICK S : cols \in Seq(S)
  BY DEF TableIs
<1>5. PICK l : l = Len(cols)
  OBVIOUS
<1>6. /\ l \in Nat
      /\ \A i \in 1..l : IsColumnOf(cols[i], fields, pk)
      /\ \E i \in 1..l : cols[i] = KeyColumn(pk)
      /\ \A i \in 1..Len(fields) : fields[i].type # "hasMany" /\ fields[i].name # pk =>
           HasColumn(cols, fields[i]) \/ \E k \in 1..Len(more) : more[k] = fields[i]
      /\ \A k \in 1..Len(more) : \E i \in 1..Len(fields) : more[k] = fields[i]
  BY <1>4, <1>5, LenProperties DEF TableIs
<1>7. \A k \in 1..Len(rest) : k + 1 \in 1..Len(more)
  BY <1>2
<1>8. \A k \in 1..Len(more) : k = 1 \/ (k - 1 \in 1..Len(rest) /\ rest[k - 1] = more[k])
  <2>1. ASSUME NEW k \in 1..Len(more), k # 1 PROVE k - 1 \in 1..Len(rest) /\ rest[k - 1] = more[k]
    <3>1. k - 1 \in 1..Len(rest) /\ (k - 1) + 1 = k
      BY <1>2, <2>1
    <3> QED
      BY <1>2, <3>1
  <2> QED
    BY <2>1
<1>9. \A k \in 1..Len(rest) : \E i \in 1..Len(fields) : rest[k] = fields[i]
  BY <1>2, <1>6, <1>7
<1>10. PICK q \in 1..Len(fields) : f = fields[q]
  <2>1. 1 \in 1..Len(more)
    BY <1>2
  <2> QED
    BY <1>2, <1>6, <2>1
<1>11. new = cols \o add
  BY <1>1 DEF IsAltered
<1>12. CASE f.type = "hasMany"
  <2>1. new = cols
    BY <1>3, <1>4, <1>11, <1>12
  <2>2. ASSUME NEW i \in 1..Len(fields), fields[i].type # "hasMany", fields[i].name # pk
        PROVE  HasColumn(new, fields[i]) \/ \E k \in 1..Len(rest) : rest[k] = fields[i]
    <3>1. ASSUME NEW k \in 1..Len(more), more[k] = fields[i]
          PROVE  \E h \in 1..Len(rest) : rest[h] = fields[i]
      <4>1. k # 1
        BY <1>2, <1>12, <2>2, <3>1
      <4> QED
        BY <1>8, <3>1, <4>1
    <3> QED
      BY <1>6, <2>1, <2>2, <3>1
  <2>3. \A i, j \in 1..Len(new) : new[i].name = new[j].name => i = j
    BY <2>1 DEF TableIs
  <2>4. new # <<>>
    BY <1>4, <1>5, <1>6, <2>1
  <2>5. TableIs(new, fields, rest, pk)
    BY <1>4, <1>5, <1>6, <1>9, <2>1, <2>2, <2>3 DEF TableIs
  <2> QED
    BY <2>4, <2>5
<1>13. CASE f.type # "hasMany"
  <2>1. PICK col, U : col = FieldToColumn(f) /\ U = S \cup {col}
    OBVIOUS
  <2>2. add = <<col>>
    BY <1>3, <1>13, <2>1
  <2>3. cols \in Seq(U) /\ col \in U
    BY <1>4, <2>1
  <2>4. new \in Seq(U) /\ Len(new) = l + 1 /\ new[l + 1] = col /\ \A i \in 1..l : new[i] = cols[i]
    BY <1>5, <1>11, <2>2, <2>3
  <2>5. \A i, j \in 1..Len(new) : new[i].name = new[j].name => i = j
    BY <2>4, Distinct
  <2>6. col.name = f.name
    BY <1>10, <2>1, ColumnFacts DEF FieldsAreValid
  <2>7. f.name # pk
    <3>1. PICK i \in 1..l : cols[i] = KeyColumn(pk)
      BY <1>6
    <3>2. new[i].name = pk /\ i \in 1..Len(new) /\ l + 1 \in 1..Len(new) /\ i # l + 1
      BY <1>6, <2>4, <3>1, ColumnsGiven
    <3> QED
      BY <2>4, <2>5, <2>6, <3>2
  <2>8. IsColumnOf(col, fields, pk)
    BY <1>10, <1>13, <2>1, <2>7 DEF IsColumnOf
  <2>9. \A i \in 1..Len(new) : IsColumnOf(new[i], fields, pk)
    <3>1. l \in Nat
      BY <1>6
    <3>2. \A i \in 1..(l + 1) : i \in 1..l \/ i = l + 1
      BY <3>1
    <3> QED
      BY <1>6, <2>4, <2>8, <3>2
  <2>10. \A i \in 1..l : i \in 1..Len(new)
    BY <1>6, <2>4
  <2>11. \E i \in 1..Len(new) : new[i] = KeyColumn(pk)
    BY <1>6, <2>4, <2>10
  <2>12. \A g : HasColumn(cols, g) => HasColumn(new, g)
    BY <1>5, <2>4, <2>10 DEF HasColumn
  <2>13. HasColumn(new, f)
    <3>1. l + 1 \in 1..Len(new)
      BY <1>6, <2>4
    <3> QED
      BY <2>1, <2>4, <3>1 DEF HasColumn
  <2>14. ASSUME NEW i \in 1..Len(fields), fields[i].type # "hasMany", fields[i].name # pk
         PROVE  HasColumn(new, fields[i]) \/ \E k \in 1..Len(rest) : rest[k] = fields[i]
    <3>1. CASE HasColumn(cols, fields[i])
      BY <2>12, <3>1
    <3>2. ASSUME NEW k \in 1..Len(more), more[k] = fields[i]
          PROVE  HasColumn(new, fields[i]) \/ \E h \in 1..Len(rest) : rest[h] = fields[i]
      BY <1>2, <1>8, <2>13, <3>2
    <3> QED
      BY <1>6, <2>14, <3>1, <3>2
  <2>15. new # <<>>
    BY <1>6, <2>4
  <2>16. TableIs(new, fields, rest, pk)
    BY <1>9, <2>4, <2>5, <2>9, <2>11, <2>14 DEF TableIs
  <2> QED
    BY <2>15, <2>16
<1> QED
  BY <1>12, <1>13

LEMMA SchemaInitially == SchemaInit => SchemaInv
<1> SUFFICES ASSUME SchemaInit PROVE SchemaInv
  OBVIOUS
<1>1. PICK t \in BOOLEAN, k \in Keys :
         collection = [fields |-> <<>>, timestamps |-> t, key |-> k, registered |-> FALSE]
  BY DEF SchemaInit
<1>2. table = <<>> /\ addition = <<>>
  BY DEF SchemaInit
<1> QED
  BY <1>1, <1>2 DEF SchemaInv, SchemaIs

\* A field more makes a table none the poorer.
Longer(new, old, f) == new = Append(old, f)

LEMMA OneFieldMore ==
  ASSUME NEW pk, NEW cols, NEW fields, NEW more, NEW f \in Fields, fields \in Seq(Fields), more \in Seq(Fields),
         TableIs(cols, fields, more, pk), NEW fields2, Longer(fields2, fields, f), NEW more2, Longer(more2, more, f)
  PROVE  TableIs(cols, fields2, more2, pk)
<1>1. PICK n, m : n = Len(fields) /\ m = Len(more)
  OBVIOUS
<1>2. /\ n \in Nat /\ m \in Nat /\ Len(fields2) = n + 1 /\ fields2[n + 1] = f /\ \A i \in 1..n : fields2[i] = fields[i]
      /\ Len(more2) = m + 1 /\ more2[m + 1] = f /\ \A i \in 1..m : more2[i] = more[i]
  BY <1>1 DEF Longer
<1>3. /\ \A i \in 1..n : i \in 1..(n + 1)
      /\ \A i \in 1..m : i \in 1..(m + 1)
      /\ \A i \in 1..(n + 1) : i \in 1..n \/ i = n + 1
      /\ \A i \in 1..(m + 1) : i \in 1..m \/ i = m + 1
      /\ n + 1 \in 1..(n + 1) /\ m + 1 \in 1..(m + 1)
  BY <1>2
<1>4. \A col : IsColumnOf(col, fields, pk) => IsColumnOf(col, fields2, pk)
  <2>1. ASSUME NEW col, NEW i \in 1..n, fields[i].type # "hasMany", fields[i].name # pk, col = FieldToColumn(fields[i])
        PROVE  IsColumnOf(col, fields2, pk)
    <3>1. i \in 1..Len(fields2) /\ fields2[i] = fields[i]
      BY <1>2, <1>3
    <3> QED
      BY <2>1, <3>1 DEF IsColumnOf
  <2> QED
    BY <1>1, <2>1 DEF IsColumnOf
<1>5. ASSUME NEW i \in 1..(n + 1), fields2[i].type # "hasMany", fields2[i].name # pk
      PROVE  HasColumn(cols, fields2[i]) \/ \E k \in 1..(m + 1) : more2[k] = fields2[i]
  <2>1. CASE i = n + 1
    BY <1>2, <1>3, <2>1
  <2>2. CASE i \in 1..n
    <3>1. fields2[i] = fields[i]
      BY <1>2, <2>2
    <3>2. HasColumn(cols, fields[i]) \/ \E k \in 1..m : more[k] = fields[i]
      BY <1>1, <1>5, <2>2, <3>1 DEF TableIs
    <3> QED
      BY <1>2, <1>3, <3>1, <3>2
  <2> QED
    BY <1>3, <2>1, <2>2
<1>6. ASSUME NEW k \in 1..(m + 1) PROVE \E i \in 1..(n + 1) : more2[k] = fields2[i]
  <2>1. CASE k = m + 1
    BY <1>2, <1>3, <2>1
  <2>2. CASE k \in 1..m
    <3>1. PICK i \in 1..n : more[k] = fields[i]
      BY <1>1, <2>2 DEF TableIs
    <3> QED
      BY <1>2, <1>3, <2>2, <3>1
  <2> QED
    BY <1>3, <2>1, <2>2
<1>7. /\ \E S : cols \in Seq(S)
      /\ \A i \in 1..Len(cols) : IsColumnOf(cols[i], fields2, pk)
      /\ \E i \in 1..Len(cols) : cols[i] = KeyColumn(pk)
      /\ \A i, j \in 1..Len(cols) : cols[i].name = cols[j].name => i = j
  BY <1>4 DEF TableIs
<1> QED
  BY <1>2, <1>5, <1>6, <1>7 DEF TableIs

LEMMA SchemaStep ==
  ASSUME SchemaInv, [SchemaNext]_schemaVars
  PROVE  SchemaInv'
<1>1. PICK c, t, a, c2, t2, a2 : /\ c = collection /\ t = table /\ a = addition
                                 /\ c2 = collection' /\ t2 = table' /\ a2 = addition'
  OBVIOUS
<1>2. SchemaIs(c, t, a)
  BY <1>1 DEF SchemaInv
<1>3. SUFFICES SchemaIs(c2, t2, a2)
  BY <1>1 DEF SchemaInv
<1>4. PICK fields, pk : fields = c.fields /\ pk = c.key
  OBVIOUS
<1>5. /\ fields \in Seq(Fields) /\ c.timestamps \in BOOLEAN /\ c.registered \in BOOLEAN
      /\ a \in Seq(Fields)
  BY <1>2, <1>4 DEF SchemaIs
<1>6. ASSUME NEW f \in Fields, DefineField(f) PROVE SchemaIs(c2, t2, a2)
  <2>1. ~c.registered /\ t = <<>> /\ c2 = [c EXCEPT !.fields = Append(@, f)] /\ t2 = t /\ a2 = a
    BY <1>1, <1>6 DEF DefineField
  <2>2. PICK all : all = Append(fields, f)
    OBVIOUS
  <2>20. c2 = [c EXCEPT !.fields = all] /\ all \in Seq(Fields)
    BY <1>4, <1>5, <2>1, <2>2
  <2>21. c \in [fields : Seq(Fields), timestamps : BOOLEAN, key : Keys, registered : BOOLEAN]
    BY <1>2 DEF SchemaIs
  <2>3. c2.fields = all /\ c2.registered = c.registered /\ c2.key = pk
        /\ c2 \in [fields : Seq(Fields), timestamps : BOOLEAN, key : Keys, registered : BOOLEAN]
    BY <1>4, <2>20, <2>21
  <2> QED
    BY <1>2, <1>5, <2>1, <2>3 DEF SchemaIs
<1>7. ASSUME NEW f \in Fields, Extend(f) PROVE SchemaIs(c2, t2, a2)
  <2>1. /\ t # <<>> /\ c2 = [c EXCEPT !.fields = Append(@, f)] /\ CollectionIsValid(c2)
        /\ a2 = Append(a, f) /\ t2 = t
    BY <1>1, <1>7 DEF Extend
  <2>2. PICK all : all = Append(fields, f)
    OBVIOUS
  <2>20. c2 = [c EXCEPT !.fields = all] /\ all \in Seq(Fields)
    BY <1>4, <1>5, <2>1, <2>2
  <2>21. c \in [fields : Seq(Fields), timestamps : BOOLEAN, key : Keys, registered : BOOLEAN]
    BY <1>2 DEF SchemaIs
  <2>3. c2.fields = all /\ c2.registered = c.registered /\ c2.key = pk
        /\ c2 \in [fields : Seq(Fields), timestamps : BOOLEAN, key : Keys, registered : BOOLEAN]
    BY <1>4, <2>20, <2>21
  <2>5. FieldsAreValid(all)
    BY <2>1, <2>20, <2>3, ValidIs
  <2>6. TableIs(t, fields, a, pk)
    BY <1>2, <1>4, <2>1 DEF SchemaIs
  <2>7. TableIs(t, all, a2, pk)
    BY <1>5, <2>1, <2>2, <2>6, OneFieldMore DEF Longer
  <2>8. a2 \in Seq(Fields)
    BY <1>5, <2>1
  <2> QED
    BY <2>1, <2>3, <2>5, <2>7, <2>8 DEF SchemaIs
<1>8. CASE Register
  <2>1. CollectionIsValid(c) /\ c2 = [c EXCEPT !.registered = TRUE] /\ t2 = t /\ a2 = a
    BY <1>1, <1>8 DEF Register
  <2>2. FieldsAreValid(fields)
    BY <1>4, <1>5, <2>1, ValidIs
  <2>10. c \in [fields : Seq(Fields), timestamps : BOOLEAN, key : Keys, registered : BOOLEAN]
    BY <1>2 DEF SchemaIs
  <2>3. c2.fields = fields /\ c2.registered = TRUE /\ c2.key = pk
        /\ c2 \in [fields : Seq(Fields), timestamps : BOOLEAN, key : Keys, registered : BOOLEAN]
    BY <1>4, <2>1, <2>10
  <2> QED
    BY <1>2, <1>4, <1>5, <2>1, <2>2, <2>3 DEF SchemaIs
<1>9. CASE CreateTable
  <2>1. c.registered /\ c2 = c /\ a2 = a
    BY <1>1, <1>9 DEF CreateTable
  <2>2. FieldsAreValid(fields)
    BY <1>2, <1>4, <2>1 DEF SchemaIs
  <2>3. CASE t2 = t
    BY <1>2, <2>1, <2>3
  <2>4. CASE t2 # t
    <3>1. t = <<>> /\ DatabaseAccepts(CreateTableOf(c)) /\ t2 = CreateTableOf(c)
      BY <1>1, <1>9, <2>4 DEF CreateTable
    <3>2. Created(t2, fields, pk)
      BY <1>4, <2>2, <3>1, CreateTableIs
    <3>3. PICK S : t2 \in Seq(S)
      BY <3>2 DEF Created
    <3>4. \A i, j \in 1..Len(t2) : t2[i].name = t2[j].name => i = j
      BY <3>1, <3>3, Distinct
    <3>5. a = <<>> /\ Len(a) = 0
      BY <1>2, <3>1 DEF SchemaIs
    <3>6. TableIs(t2, fields, a, pk)
      BY <3>2, <3>4, <3>5 DEF TableIs, Created
    <3>7. t2 # <<>>
      BY <3>2, <3>3 DEF Created
    <3> QED
      BY <1>2, <1>4, <2>1, <2>2, <3>6, <3>7 DEF SchemaIs
  <2> QED
    BY <2>3, <2>4
<1>10. CASE AlterTable
  <2>1. /\ a # <<>> /\ DatabaseAccepts(t2) /\ t2 = t \o Columns(<<Head(a)>>)
        /\ a2 = Tail(a) /\ c2 = c
    BY <1>1, <1>10 DEF AlterTable
  <2>2. t # <<>>
    BY <1>2, <2>1 DEF SchemaIs
  <2>3. TableIs(t, fields, a, pk) /\ FieldsAreValid(fields)
    BY <1>2, <1>4, <2>2 DEF SchemaIs
  <2>4. IsAltered(t2, t, a)
    BY <2>1 DEF IsAltered
  <2>5. TableIs(t2, fields, a2, pk) /\ t2 # <<>>
    BY <1>5, <2>1, <2>3, <2>4, AlterIs
  <2>6. a2 \in Seq(Fields)
    BY <1>5, <2>1
  <2> QED
    BY <1>2, <1>4, <2>1, <2>3, <2>5, <2>6 DEF SchemaIs
<1>11. CASE Unregister
  <2>1. c2 = [c EXCEPT !.registered = FALSE] /\ t2 = t /\ a2 = a
    BY <1>1, <1>11 DEF Unregister
  <2>10. c \in [fields : Seq(Fields), timestamps : BOOLEAN, key : Keys, registered : BOOLEAN]
    BY <1>2 DEF SchemaIs
  <2>2. c2.fields = fields /\ c2.registered = FALSE /\ c2.key = pk
        /\ c2 \in [fields : Seq(Fields), timestamps : BOOLEAN, key : Keys, registered : BOOLEAN]
    BY <1>4, <2>1, <2>10
  <2> QED
    BY <1>2, <1>4, <1>5, <2>1, <2>2 DEF SchemaIs
<1>12. CASE UNCHANGED schemaVars
  BY <1>1, <1>2, <1>12 DEF schemaVars
<1> QED
  BY <1>6, <1>7, <1>8, <1>9, <1>10, <1>11, <1>12 DEF SchemaNext

LEMMA FormIsFed ==
  ASSUME NEW c, NEW pk, pk = c.key, NEW fields, fields = c.fields, NEW t, FieldsAreValid(fields),
         TableIs(t, fields, <<>>, pk)
  PROVE  /\ \A col \in Range(t) : col.notNull /\ ~col.default =>
              \/ col.name = "id" /\ c.key # "id"
              \/ \E f \in FormFields(c) : f.name = col.name /\ f.required
         /\ \A f \in FormFields(c) : f.component # "Select" => f.name \in NamesOf(t)
         /\ \A f \in FormFields(c), col \in Range(t) :
              f.name = col.name /\ col.name # c.key => f.options = col.check
         /\ TableColumns(c) \subseteq NamesOf(t)
<1>1. DOMAIN t = 1..Len(t) /\ DOMAIN fields = 1..Len(fields)
  BY LenProperties DEF TableIs, FieldsAreValid
<1>2. /\ \A col \in Range(t) : IsColumnOf(col, fields, pk)
      /\ \A col \in Range(t) : \E i \in 1..Len(t) : col = t[i]
      /\ \A g \in Range(fields) : \E i \in 1..Len(fields) : g = fields[i]
      /\ \A i \in 1..Len(fields) : fields[i] \in Range(fields)
      /\ \A i \in 1..Len(t) : t[i].name \in NamesOf(t)
  BY <1>1 DEF Range, TableIs, NamesOf
<1>3. ASSUME NEW f \in FormFields(c)
      PROVE  \E i \in 1..Len(fields) : fields[i].name # "id" /\ f = FieldToFormField(fields[i])
  BY <1>2 DEF FormFields
<1>4. ASSUME NEW i \in 1..Len(fields), fields[i].name # "id"
      PROVE  FieldToFormField(fields[i]) \in FormFields(c)
  BY <1>2, <1>4 DEF FormFields
<1>5. ASSUME NEW i \in 1..Len(fields), fields[i].name # pk, fields[i].type # "hasMany"
      PROVE  \E k \in 1..Len(t) : t[k] = FieldToColumn(fields[i]) /\ t[k].name = fields[i].name
  <2>1. HasColumn(t, fields[i])
    <3>1. Len(<<>>) = 0 /\ 1..0 = {}
      OBVIOUS
    <3> QED
      BY <1>5, <3>1 DEF TableIs
  <2> QED
    BY <2>1, ColumnFacts DEF HasColumn, FieldsAreValid
<1>6. ASSUME NEW f
      PROVE  /\ FieldToFormField(f).name = f.name
             /\ FieldToFormField(f).required = (f.required /\ f.type \notin {"boolean", "hasMany"})
             /\ FieldToFormField(f).options = IF f.type = "enum" THEN f.enumValues ELSE {}
             /\ f.type = "hasMany" => FieldToFormField(f).component = "Select"
  BY DEF FieldToFormField, Component
<1>11. pk \in NamesOf(t)
  <2>1. PICK k \in 1..Len(t) : t[k] = KeyColumn(pk)
    BY DEF TableIs
  <2> QED
    BY <1>2, <2>1, ColumnsGiven
<1>7. ASSUME NEW col \in Range(t), col.notNull, ~col.default, ~(col.name = "id" /\ pk # "id")
      PROVE  \E f \in FormFields(c) : f.name = col.name /\ f.required
  <2>1. PICK i \in 1..Len(fields) :
          fields[i].type # "hasMany" /\ fields[i].name # pk /\ col = FieldToColumn(fields[i])
    <3>1. IsColumnOf(col, fields, pk)
      BY <1>2, <1>7
    <3>2. col # KeyColumn(pk) /\ ~IsStamp(col)
      BY <1>7, ColumnsGiven DEF IsStamp
    <3> QED
      BY <3>1, <3>2 DEF IsColumnOf
  <2>2. PICK g : g = fields[i]
    OBVIOUS
  <2>3. g.type \in FieldTypes /\ g.required \in BOOLEAN /\ g.type # "hasMany" /\ col = FieldToColumn(g)
    BY <2>1, <2>2 DEF FieldsAreValid
  <2>4. g.required /\ g.type \notin {"boolean", "hasMany"} /\ col.name = g.name
    BY <1>7, <2>3, ColumnFacts DEF FieldTypes
  <2>40. g.name # "id"
    BY <1>7, <2>1, <2>2, <2>4
  <2>5. PICK h : h = FieldToFormField(g)
    OBVIOUS
  <2>6. h \in FormFields(c)
    BY <1>4, <2>1, <2>2, <2>40, <2>5
  <2>7. h.name = col.name /\ h.required
    BY <1>6, <2>4, <2>5
  <2> QED
    BY <2>6, <2>7
<1>8. ASSUME NEW f \in FormFields(c), f.component # "Select" PROVE f.name \in NamesOf(t)
  <2>1. PICK i \in 1..Len(fields) : fields[i].name # "id" /\ f = FieldToFormField(fields[i])
    BY <1>3
  <2>2. PICK g : g = fields[i]
    OBVIOUS
  <2>3. f.name = g.name /\ g.type # "hasMany"
    BY <1>6, <1>8, <2>1, <2>2
  <2>4. CASE g.name # pk
    <3>1. PICK k \in 1..Len(t) : t[k].name = g.name
      BY <1>5, <2>2, <2>3, <2>4
    <3> QED
      BY <1>2, <2>3, <3>1
  <2> QED
    BY <1>11, <2>3, <2>4
<1>9. ASSUME NEW f \in FormFields(c), NEW col \in Range(t), f.name = col.name, col.name # pk
      PROVE  f.options = col.check
  <2>1. PICK i \in 1..Len(fields) : fields[i].name # "id" /\ f = FieldToFormField(fields[i])
    BY <1>3
  <2>2. PICK j \in 1..Len(t) : col = t[j]
    BY <1>2
  <2>3. PICK g : g = fields[i]
    OBVIOUS
  <2>4. g.name = col.name /\ g.name # pk /\ f.options = IF g.type = "enum" THEN g.enumValues ELSE {}
    BY <1>6, <1>9, <2>1, <2>3
  <2>5. g.type \in FieldTypes /\ g.required \in BOOLEAN
    BY <2>3 DEF FieldsAreValid
  <2>6. CASE g.type # "hasMany"
    <3>1. PICK k \in 1..Len(t) : t[k] = FieldToColumn(g) /\ t[k].name = g.name
      BY <1>5, <2>3, <2>4, <2>6
    <3>2. k = j
      BY <2>2, <2>4, <3>1 DEF TableIs
    <3> QED
      BY <2>2, <2>4, <2>5, <3>1, <3>2, ColumnFacts
  <2>7. CASE g.type = "hasMany"
    <3>1. IsColumnOf(col, fields, pk)
      BY <1>2
    <3>2. ASSUME NEW k \in 1..Len(fields), fields[k].type # "hasMany", col = FieldToColumn(fields[k])
          PROVE  FALSE
      <4>1. fields[k].name = g.name
        BY <2>4, <3>2, ColumnFacts DEF FieldsAreValid
      <4>2. k = i
        BY <2>3, <4>1 DEF FieldsAreValid
      <4> QED
        BY <2>3, <2>7, <3>2, <4>2
    <3>3. col.check = {}
      BY <3>1, <3>2, ColumnsGiven DEF IsColumnOf, IsStamp
    <3> QED
      BY <2>4, <2>7, <3>3
  <2> QED
    BY <2>6, <2>7
<1>10. TableColumns(c) \subseteq NamesOf(t)
  <2>1. ASSUME NEW x \in TableColumns(c) PROVE x \in NamesOf(t)
    <3>1. PICK i \in 1..Len(fields) : fields[i].type # "hasMany" /\ x = fields[i].name
      BY <1>2 DEF TableColumns
    <3> QED
      BY <1>2, <1>5, <1>11, <3>1
  <2> QED
    BY <2>1
<1> QED
  BY <1>7, <1>8, <1>9, <1>10

\* schema-engine: whatever fields, registrations, tables and additions come in which order, the form of
\* a collection whose table has all its fields gives the table what it demands, but for a field "id"
\* beside another primary key.
THEOREM FormFeedsTableEver == SchemaInit /\ [][SchemaNext]_schemaVars => []FormFeedsTable
<1>1. SchemaInit => SchemaInv
  BY SchemaInitially
<1>2. SchemaInv /\ [SchemaNext]_schemaVars => SchemaInv'
  BY SchemaStep
<1>3. SchemaInv => FormFeedsTable
  <2> SUFFICES ASSUME SchemaInv PROVE FormFeedsTable
    OBVIOUS
  <2>1. PICK c, t, a, fields : c = collection /\ t = table /\ a = addition /\ fields = c.fields
    OBVIOUS
  <2>2. SchemaIs(c, t, a)
    BY <2>1 DEF SchemaInv
  <2>3. c.registered \/ t # <<>> => FieldsAreValid(fields)
    BY <2>1, <2>2 DEF SchemaIs
  <2>4. ASSUME t # <<>>, a = <<>>
        PROVE  /\ \A col \in Range(t) : col.notNull /\ ~col.default =>
                    \/ col.name = "id" /\ c.key # "id"
                    \/ \E f \in FormFields(c) : f.name = col.name /\ f.required
               /\ \A f \in FormFields(c) : f.component # "Select" => f.name \in NamesOf(t)
               /\ \A f \in FormFields(c), col \in Range(t) :
                    f.name = col.name /\ col.name # c.key => f.options = col.check
               /\ TableColumns(c) \subseteq NamesOf(t)
    <3>1. TableIs(t, fields, <<>>, c.key)
      BY <2>1, <2>2, <2>4 DEF SchemaIs
    <3> QED
      BY <2>1, <2>3, <2>4, <3>1, FormIsFed
  <2>5. ASSUME c.registered, NEW made, made = CreateTableOf(c)
        PROVE  \A i, j \in DOMAIN made :
                 made[i].name = made[j].name => i = j \/ made[i].name \in {"created_at", "updated_at"}
    <3>1. Created(made, fields, c.key)
      BY <2>1, <2>3, <2>5, CreateTableIs
    <3>2. DOMAIN made = 1..Len(made)
      BY <3>1, LenProperties DEF Created
    <3> QED
      BY <3>1, <3>2 DEF Created
  <2> QED
    BY <2>1, <2>4, <2>5 DEF FormFeedsTable
<1> QED
  BY <1>1, <1>2, <1>3, PTL

-----------------------------------------------------------------------------
(* Texts of languages and texts of namespaces.                             *)

\* Files i of those loaded that give a language the text of a key.
GivenBy(files, l, key) == {i \in DOMAIN files : files[i].locale = l /\ key \in DOMAIN Content(files[i])}

TextsAre(texts, files) ==
  /\ files \in Seq(LocaleFiles) /\ \A i \in DOMAIN files : Readable(files[i])
  /\ \A l, key : l \in DOMAIN texts /\ key \in DOMAIN texts[l] <=> GivenBy(files, l, key) # {}
  /\ \A l, key : \A i \in GivenBy(files, l, key) :
       (\A m \in GivenBy(files, l, key) : m <= i) => texts[l][key] = Content(files[i])[key]

LEMMA NoTexts == TextsAre(<<>>, <<>>)
<1>1. DOMAIN <<>> = {} /\ <<>> \in Seq(LocaleFiles)
  OBVIOUS
<1> QED
  BY <1>1 DEF TextsAre, GivenBy

\* The texts after a file more, and the files.
GivenMore(texts2, texts, files2, files, f) ==
  /\ files2 = Append(files, f)
  /\ texts2 = [l \in DOMAIN texts \cup {f.locale} |->
       IF l # f.locale THEN texts[l]
       ELSE Merged(IF l \in DOMAIN texts THEN texts[l] ELSE <<>>, Content(f))]

LEMMA OneFileMore ==
  ASSUME NEW texts, NEW files, TextsAre(texts, files), NEW f \in LocaleFiles, Readable(f),
         NEW texts2, NEW files2, GivenMore(texts2, texts, files2, files, f)
  PROVE  TextsAre(texts2, files2)
<1>1. PICK n, given : n = Len(files) /\ given = Content(f)
  OBVIOUS
<1>2. n \in Nat /\ DOMAIN files = 1..n /\ files \in Seq(LocaleFiles)
  BY <1>1, LenProperties DEF TextsAre
<1>3. /\ files2 \in Seq(LocaleFiles) /\ DOMAIN files2 = 1..(n + 1)
      /\ files2[n + 1] = f /\ \A i \in 1..n : files2[i] = files[i]
  BY <1>1, <1>2 DEF GivenMore
<1>4. \A i \in DOMAIN files2 : Readable(files2[i])
  BY <1>2, <1>3 DEF TextsAre
<1>5. ASSUME NEW l, NEW key
      PROVE  GivenBy(files2, l, key) = GivenBy(files, l, key)
               \cup (IF f.locale = l /\ key \in DOMAIN given THEN {n + 1} ELSE {})
  BY <1>1, <1>2, <1>3 DEF GivenBy
<1>6. PICK old : old = IF f.locale \in DOMAIN texts THEN texts[f.locale] ELSE <<>>
  OBVIOUS
<1>7. /\ DOMAIN texts2 = DOMAIN texts \cup {f.locale}
      /\ \A l \in DOMAIN texts : l # f.locale => texts2[l] = texts[l]
      /\ texts2[f.locale] = Merged(old, given)
  BY <1>1, <1>6 DEF GivenMore
<1>8. PICK new : new = Merged(old, given)
  OBVIOUS
<1>9. /\ DOMAIN new = DOMAIN old \cup DOMAIN given
      /\ \A k \in DOMAIN given : new[k] = given[k]
      /\ \A k \in DOMAIN old : k \notin DOMAIN given => new[k] = old[k]
  BY <1>8 DEF Merged
<1>10. \A key : key \in DOMAIN old <=> f.locale \in DOMAIN texts /\ key \in DOMAIN texts[f.locale]
  <2>1. DOMAIN <<>> = {}
    OBVIOUS
  <2> QED
    BY <1>6, <2>1
<1>11. ASSUME NEW l, NEW key
       PROVE  l \in DOMAIN texts2 /\ key \in DOMAIN texts2[l] <=> GivenBy(files2, l, key) # {}
  <2>1. l \in DOMAIN texts /\ key \in DOMAIN texts[l] <=> GivenBy(files, l, key) # {}
    BY DEF TextsAre
  <2>2. CASE l # f.locale
    BY <1>5, <1>7, <2>1, <2>2
  <2>3. CASE l = f.locale
    <3>1. key \in DOMAIN texts2[l] <=> key \in DOMAIN old \/ key \in DOMAIN given
      BY <1>7, <1>8, <1>9, <2>3
    <3> QED
      BY <1>5, <1>7, <1>10, <2>1, <2>3, <3>1
  <2> QED
    BY <2>2, <2>3
<1>12. ASSUME NEW l, NEW key, NEW i \in GivenBy(files2, l, key), \A m \in GivenBy(files2, l, key) : m <= i
       PROVE  texts2[l][key] = Content(files2[i])[key]
  <2>1. CASE f.locale = l /\ key \in DOMAIN given
    <3>1. n + 1 \in GivenBy(files2, l, key) /\ i \in 1..(n + 1)
      BY <1>3, <1>5, <2>1 DEF GivenBy
    <3>2. i = n + 1
      BY <1>2, <1>12, <3>1
    <3> QED
      BY <1>1, <1>3, <1>7, <1>8, <1>9, <2>1, <3>2
  <2>2. CASE ~(f.locale = l /\ key \in DOMAIN given)
    <3>1. GivenBy(files2, l, key) = GivenBy(files, l, key)
      BY <1>5, <2>2
    <3>2. texts[l][key] = Content(files[i])[key] /\ files2[i] = files[i]
      <4>1. i \in 1..n
        BY <1>2, <3>1 DEF GivenBy
      <4> QED
        BY <1>3, <1>12, <3>1, <4>1 DEF TextsAre
    <3>3. l \in DOMAIN texts /\ key \in DOMAIN texts[l]
      BY <3>1 DEF TextsAre
    <3>4. CASE l # f.locale
      BY <1>7, <3>2, <3>3, <3>4
    <3>5. CASE l = f.locale
      <4>1. key \in DOMAIN old /\ key \notin DOMAIN given
        BY <1>10, <2>2, <3>3, <3>5
      <4>2. old = texts[l]
        BY <1>6, <3>3, <3>5
      <4> QED
        BY <1>7, <1>8, <1>9, <3>2, <3>5, <4>1, <4>2
    <3> QED
      BY <3>4, <3>5
  <2> QED
    BY <2>1, <2>2
<1> QED
  BY <1>3, <1>4, <1>11, <1>12 DEF TextsAre

\* The first language of a chain of three that has a text of the key gives it.
LEMMA AskedInTurn ==
  ASSUME TextsAre(translations, loads), NEW locale, NEW key, NEW chain,
         chain = <<locale, DefaultLocale, FallbackLocale>>, NEW text, text = LookupRaw(locale, key)
  PROVE  /\ (\A j \in 1..3 : GivenBy(loads, chain[j], key) = {}) => text = ItsKey(key)
         /\ \A j \in 1..3 :
              GivenBy(loads, chain[j], key) # {} /\ (\A m \in 1..j - 1 : GivenBy(loads, chain[m], key) = {})
                => text = translations[chain[j]][key]
         /\ \/ text = ItsKey(key)
            \/ \E j \in 1..3 : GivenBy(loads, chain[j], key) # {} /\ text = translations[chain[j]][key]
<1>1. PICK known : known = {i \in 1..3 : chain[i] \in DOMAIN translations /\ key \in DOMAIN translations[chain[i]]}
  OBVIOUS
<1>2. known = {i \in 1..3 : GivenBy(loads, chain[i], key) # {}}
  BY <1>1 DEF TextsAre
<1>3. text = IF known = {} THEN ItsKey(key)
             ELSE translations[chain[CHOOSE i \in known : \A j \in known : i <= j]][key]
  BY <1>1 DEF LookupRaw
<1>4. PICK first : first = CHOOSE i \in known : \A j \in known : i <= j
  OBVIOUS
<1>5. ASSUME known # {} PROVE first \in known /\ \A j \in known : first <= j
  <2>1. \E i \in known : \A j \in known : i <= j
    <3>1. known \subseteq 1..3
      BY <1>2
    <3>2. CASE 1 \in known
      BY <3>1, <3>2
    <3>3. CASE 1 \notin known /\ 2 \in known
      BY <3>1, <3>3
    <3>4. CASE 1 \notin known /\ 2 \notin known
      <4>1. \A i \in known : i = 3
        BY <3>1, <3>4
      <4> QED
        BY <1>5, <4>1
    <3> QED
      BY <3>2, <3>3, <3>4
  <2> QED
    BY <1>4, <2>1, Zenon
<1>6. (\A j \in 1..3 : GivenBy(loads, chain[j], key) = {}) => text = ItsKey(key)
  BY <1>2, <1>3
<1>7. ASSUME NEW j \in 1..3, GivenBy(loads, chain[j], key) # {},
             \A m \in 1..j - 1 : GivenBy(loads, chain[m], key) = {}
      PROVE  text = translations[chain[j]][key]
  <2>1. j \in known /\ known # {}
    BY <1>2, <1>7
  <2>2. first \in 1..3 /\ first <= j /\ first \in known
    BY <1>2, <1>5, <2>1
  <2>3. GivenBy(loads, chain[first], key) # {}
    BY <1>2, <2>2
  <2>4. first = j
    BY <1>7, <2>2, <2>3
  <2> QED
    BY <1>3, <1>4, <2>1, <2>4
<1>8. known # {} => \E j \in 1..3 : GivenBy(loads, chain[j], key) # {} /\ text = translations[chain[j]][key]
  <2> SUFFICES ASSUME known # {} PROVE GivenBy(loads, chain[first], key) # {} /\ first \in 1..3
                                        /\ text = translations[chain[first]][key]
    OBVIOUS
  <2>1. first \in known
    BY <1>5
  <2>2. text = translations[chain[first]][key]
    BY ONLY <1>3, <1>4, known # {}
  <2> QED
    BY <1>2, <2>1, <2>2
<1> QED
  BY <1>3, <1>6, <1>7, <1>8

\* What is in sequences put together is what is in one of them.
LEMMA FlatParts ==
  ASSUME NEW S, NEW ss \in Seq(Seq(S)), NEW flat, flat = FlattenSeq(ss)
  PROVE  /\ flat \in Seq(S) /\ IsSequence(flat)
         /\ \A x \in ToSet(flat) : \E i \in DOMAIN ss : x \in ToSet(ss[i])
         /\ \A i \in DOMAIN ss : \A x \in ToSet(ss[i]) : x \in ToSet(flat)
<1>1. PICK n, l : n = Len(ss) /\ l = Len(flat)
  OBVIOUS
<1>2. flat \in Seq(S) /\ DOMAIN flat = 1..l /\ DOMAIN ss = 1..n /\ n \in Nat
  BY <1>1, FlattenPlaces, LenProperties
<1>3. PICK blk, off : FlatOf(flat, l, ss, n, blk, off)
  BY <1>1, FlattenPlaces DEF FlatAt
<1>4. IsSequence(flat)
  <2>1. PICK U : U = ToSet(flat)
    OBVIOUS
  <2>2. \A k \in 1..l : flat[k] \in U
    BY <1>2, <2>1 DEF ToSet
  <2>3. l \in Nat /\ flat = [k \in 1..l |-> flat[k]]
    BY <1>1, <1>2, LenProperties
  <2>4. flat \in Seq(U)
    BY ONLY <2>2, <2>3
  <2> QED
    BY <2>1, <2>4 DEF IsSequence
<1>5. ASSUME NEW i \in 1..n PROVE DOMAIN ss[i] = 1..Len(ss[i])
  BY <1>1, <1>2, LenProperties
<1>6. ASSUME NEW x \in ToSet(flat) PROVE \E i \in DOMAIN ss : x \in ToSet(ss[i])
  <2>1. PICK k \in 1..l : x = flat[k]
    BY <1>2 DEF ToSet
  <2>2. blk[k] \in 1..n /\ off[k] \in 1..Len(ss[blk[k]]) /\ x = ss[blk[k]][off[k]]
    BY <1>3, <2>1 DEF FlatOf
  <2>3. x \in ToSet(ss[blk[k]])
    BY <1>5, <2>2 DEF ToSet
  <2> QED
    BY <1>2, <2>2, <2>3
<1>7. ASSUME NEW i \in DOMAIN ss, NEW x \in ToSet(ss[i]) PROVE x \in ToSet(flat)
  <2>1. i \in 1..n
    BY <1>2
  <2>2. PICK o \in 1..Len(ss[i]) : x = ss[i][o]
    BY <1>5, <2>1 DEF ToSet
  <2>3. PICK k \in 1..l : blk[k] = i /\ off[k] = o
    BY <1>3, <2>1, <2>2 DEF FlatOf
  <2>4. flat[k] = x
    BY <1>3, <2>2, <2>3 DEF FlatOf
  <2> QED
    BY <1>2, <2>4 DEF ToSet
<1> QED
  BY <1>2, <1>4, <1>6, <1>7

LEMMA PartsAreThere ==
  ASSUME NEW text, IsSequence(text)
  PROVE  /\ \A i \in DOMAIN text : text[i] \in ToSet(text)
         /\ \A p \in ToSet(text) : \E i \in DOMAIN text : p = text[i]
         /\ DOMAIN text = 1..Len(text) /\ Len(text) \in Nat
BY LenProperties DEF ToSet, IsSequence

LEMMA FillPartIs ==
  ASSUME NEW p, NEW params, NEW keep \in BOOLEAN, NEW out, out = FillPart(p, params, keep)
  PROVE  /\ out = <<>> \/ out = <<p>> \/ out = <<Filled(params[p.name])>>
         /\ p.part # "place" => out = <<p>>
         /\ p.part = "place" /\ p.name \in DOMAIN params => out = <<Filled(params[p.name])>>
         /\ p.part = "place" /\ p.name \notin DOMAIN params => out = IF keep THEN <<p>> ELSE <<>>
BY DEF FillPart

LEMMA SetOfOne == ToSet(<<>>) = {} /\ \A x : ToSet(<<x>>) = {x}
<1>1. DOMAIN <<>> = {} /\ \A x : DOMAIN <<x>> = {1} /\ <<x>>[1] = x
  OBVIOUS
<1> QED
  BY <1>1 DEF ToSet

\* The parts of a text that is filled in are those of its parts, each filled in.
LEMMA FillFlatIs ==
  ASSUME NEW text, IsSequence(text), NEW params, NEW keep \in BOOLEAN, NEW flat, flat = FillFlat(text, params, keep)
  PROVE  /\ IsSequence(flat)
         /\ \A x \in ToSet(flat) : \E p \in ToSet(text) : x \in ToSet(FillPart(p, params, keep))
         /\ \A p \in ToSet(text) : \A x \in ToSet(FillPart(p, params, keep)) : x \in ToSet(flat)
<1>1. PICK ss : ss = [i \in DOMAIN text |-> FillPart(text[i], params, keep)]
  OBVIOUS
<1>2. PICK S : S = ToSet(text) \cup {Filled(params[p.name]) : p \in ToSet(text)}
  OBVIOUS
<1>3. DOMAIN ss = DOMAIN text /\ \A i \in DOMAIN text : ss[i] = FillPart(text[i], params, keep)
  BY <1>1
<1>4. ss \in Seq(Seq(S))
  <2>1. ASSUME NEW i \in DOMAIN text PROVE ss[i] \in Seq(S)
    <3>1. PICK p, v : p = text[i] /\ v = Filled(params[p.name])
      OBVIOUS
    <3>2. p \in ToSet(text) /\ p \in S /\ v \in S
      BY <1>2, <3>1, PartsAreThere
    <3>3. ss[i] = <<>> \/ ss[i] = <<p>> \/ ss[i] = <<v>>
      BY <1>3, <3>1, FillPartIs
    <3> QED
      <4>1. <<>> \in Seq(S) /\ <<p>> \in Seq(S) /\ <<v>> \in Seq(S)
        BY ONLY <3>2
      <4> QED
        BY ONLY <3>3, <4>1
  <2>2. DOMAIN text = 1..Len(text) /\ Len(text) \in Nat
    BY PartsAreThere
  <2>3. ss = [i \in 1..Len(text) |-> ss[i]]
    BY <1>1, <2>2
  <2> QED
    BY <2>1, <2>2, <2>3
<1>5. flat = FlattenSeq(ss)
  BY <1>1 DEF FillFlat
<1>6. /\ IsSequence(flat)
      /\ \A x \in ToSet(flat) : \E i \in DOMAIN ss : x \in ToSet(ss[i])
      /\ \A i \in DOMAIN ss : \A x \in ToSet(ss[i]) : x \in ToSet(flat)
  BY <1>4, <1>5, FlatParts
<1>7. ASSUME NEW x \in ToSet(flat) PROVE \E p \in ToSet(text) : x \in ToSet(FillPart(p, params, keep))
  <2>1. PICK i \in DOMAIN text : x \in ToSet(ss[i])
    BY <1>3, <1>6
  <2> QED
    BY <1>3, <2>1, PartsAreThere
<1>8. ASSUME NEW p \in ToSet(text), NEW x \in ToSet(FillPart(p, params, keep)) PROVE x \in ToSet(flat)
  <2>1. PICK i \in DOMAIN text : p = text[i]
    BY PartsAreThere
  <2>2. x \in ToSet(ss[i]) /\ i \in DOMAIN ss
    BY <1>3, <1>8, <2>1
  <2> QED
    BY <1>6, <2>2
<1> QED
  BY <1>6, <1>7, <1>8

\* So are those of one whose places are filled in, their branches aside.
LEMMA FillPlacesIs ==
  ASSUME NEW text, IsSequence(text), NEW params, NEW keep \in BOOLEAN, NEW flat, flat = FillPlaces(text, params, keep)
  PROVE  /\ IsSequence(flat)
         /\ \A x \in ToSet(flat) : \E p \in ToSet(text) :
              x \in ToSet(FillPart(FillWithin(p, params, keep), params, keep))
         /\ \A p \in ToSet(text) :
              \A x \in ToSet(FillPart(FillWithin(p, params, keep), params, keep)) : x \in ToSet(flat)
<1>1. PICK inner : inner = [i \in DOMAIN text |-> FillWithin(text[i], params, keep)]
  OBVIOUS
<1>2. flat = FillFlat(inner, params, keep)
  BY <1>1 DEF FillPlaces
<1>3. DOMAIN text = 1..Len(text) /\ Len(text) \in Nat
  BY PartsAreThere
<1>4. DOMAIN inner = 1..Len(text) /\ \A i \in 1..Len(text) : inner[i] = FillWithin(text[i], params, keep)
  BY <1>1, <1>3
<1>5. IsSequence(inner)
  <2>1. \A i \in 1..Len(text) : inner[i] \in ToSet(inner)
    BY <1>4 DEF ToSet
  <2>2. inner = [i \in 1..Len(text) |-> inner[i]]
    BY <1>1, <1>3
  <2> QED
    BY <1>3, <2>1, <2>2 DEF IsSequence
<1>6. /\ IsSequence(flat)
      /\ \A x \in ToSet(flat) : \E q \in ToSet(inner) : x \in ToSet(FillPart(q, params, keep))
      /\ \A q \in ToSet(inner) : \A x \in ToSet(FillPart(q, params, keep)) : x \in ToSet(flat)
  BY <1>2, <1>5, FillFlatIs
<1>7. ASSUME NEW q \in ToSet(inner) PROVE \E p \in ToSet(text) : q = FillWithin(p, params, keep)
  <2>1. PICK i \in 1..Len(text) : q = inner[i]
    BY <1>4 DEF ToSet
  <2> QED
    BY <1>3, <1>4, <2>1, PartsAreThere
<1>8. ASSUME NEW p \in ToSet(text) PROVE FillWithin(p, params, keep) \in ToSet(inner)
  <2>1. PICK i \in 1..Len(text) : p = text[i]
    BY <1>3, PartsAreThere
  <2> QED
    BY <1>4, <2>1 DEF ToSet
<1> QED
  BY <1>6, <1>7, <1>8

\* Of branches that fit, all with one selector, the last is the best if no other selector that
\* fits is above theirs.
LEMMA BestIs ==
  ASSUME NEW branches, IsSequence(branches), NEW n, NEW those \in SUBSET DOMAIN branches, NEW last \in those,
         \A j \in those : /\ j <= last /\ Fits(branches[j], n)
                          /\ branches[j].selector = branches[last].selector,
         \A j \in DOMAIN branches : Fits(branches[j], n) /\ j \notin those =>
           /\ branches[j].selector # branches[last].selector
           /\ Above(branches[last], branches[j]) /\ ~Above(branches[j], branches[last])
  PROVE  Best(branches, n) = {last}
<1>1. DOMAIN branches \subseteq Nat
  BY PartsAreThere
<1>2. ~Above(branches[last], branches[last])
  BY DEF Above
<1>3. last \in Best(branches, n)
  BY DEF Best
<1>4. ASSUME NEW i \in Best(branches, n) PROVE i = last
  <2>1. /\ i \in DOMAIN branches /\ Fits(branches[i], n)
        /\ Above(branches[i], branches[last]) \/ (branches[i].selector = branches[last].selector /\ last <= i)
    BY <1>4 DEF Best
  <2>2. i \in those
    <3>1. CASE Above(branches[i], branches[last])
      BY <2>1, <3>1
    <3>2. CASE branches[i].selector = branches[last].selector
      BY <2>1, <3>2
    <3> QED
      BY <2>1, <3>1, <3>2
  <2>3. ~Above(branches[i], branches[last])
    BY <2>2 DEF Above
  <2>4. i <= last /\ last <= i /\ i \in Nat /\ last \in Nat
    BY <1>1, <2>1, <2>2, <2>3
  <2> QED
    BY <2>4
<1> QED
  BY <1>3, <1>4

LEMMA ChosenIs ==
  ASSUME NEW branches, IsSequence(branches), NEW count, count.number, NEW n, n = count.v
  PROVE  \/ Best(branches, n) = {} /\ Chosen(branches, count) = <<>>
         \/ \E i \in DOMAIN branches : Best(branches, n) = {i} /\ Chosen(branches, count) = branches[i].text
<1>1. DOMAIN branches = 1..Len(branches) /\ Len(branches) \in Nat
  BY PartsAreThere
<1>2. PICK exact, keyword, fit :
        /\ exact = {i \in {k \in DOMAIN branches : branches[k].selector = "="} :
                     count.number /\ branches[i].n = count.v}
        /\ keyword = (IF count.number /\ count.v = 1 THEN {k \in DOMAIN branches : branches[k].selector = "one"} ELSE {})
        /\ fit = (IF exact # {} THEN exact ELSE IF keyword # {} THEN keyword
                  ELSE {k \in DOMAIN branches : branches[k].selector = "other"})
  OBVIOUS
<1>3. Chosen(branches, count) =
        IF fit = {} THEN <<>> ELSE branches[CHOOSE i \in fit : \A j \in fit : j <= i].text
  BY <1>2 DEF Chosen
<1>20. PICK other : other = {k \in DOMAIN branches : branches[k].selector = "other"}
  OBVIOUS
<1>21. /\ exact = {i \in DOMAIN branches : branches[i].selector = "=" /\ branches[i].n = n}
       /\ keyword = (IF n = 1 THEN {i \in DOMAIN branches : branches[i].selector = "one"} ELSE {})
       /\ fit = (IF exact # {} THEN exact ELSE IF keyword # {} THEN keyword ELSE other)
  BY <1>2, <1>20
<1>4. \A j \in DOMAIN branches : Fits(branches[j], n) <=> j \in exact \/ j \in keyword \/ j \in other
  BY <1>20, <1>21 DEF Fits
<1>5. CASE fit = {}
  <2>1. exact = {} /\ keyword = {} /\ other = {}
    BY <1>20, <1>21, <1>5
  <2>2. Best(branches, n) = {}
    BY <1>4, <2>1 DEF Best
  <2> QED
    BY <1>3, <1>5, <2>2
<1>6. CASE fit # {}
  <2>1. fit \subseteq 1..Len(branches) /\ fit \in SUBSET Nat /\ IsFiniteSet(fit)
    <3>1. fit \subseteq 1..Len(branches)
      BY <1>1, <1>20, <1>21
    <3>2. 1 \in Int /\ Len(branches) \in Int
      BY <1>1
    <3>3. IsFiniteSet(1..Len(branches))
      BY ONLY <3>2, FS_Interval, Zenon
    <3>4. IsFiniteSet(fit)
      BY ONLY <3>1, <3>3, FS_Subset, Zenon
    <3> QED
      BY <1>1, <3>1, <3>4
  <2>2. \E i \in fit : \A j \in fit : j <= i
    BY <1>6, <2>1, Extremes
  <2>3. PICK last : last = CHOOSE i \in fit : \A j \in fit : j <= i
    OBVIOUS
  <2>4. last \in fit /\ \A j \in fit : j <= last
    BY <2>2, <2>3, Zenon
  <2>5. Chosen(branches, count) = branches[last].text
    BY ONLY <1>3, <1>6, <2>3
  <2>6. Best(branches, n) = {last}
    <3>1. fit \in SUBSET DOMAIN branches
      BY <1>1, <2>1
    <3>2. \A j \in fit : Fits(branches[j], n) /\ branches[j].selector = branches[last].selector
      BY <1>20, <1>21, <1>4, <2>4, <3>1
    <3>3. ASSUME NEW j \in DOMAIN branches, Fits(branches[j], n), j \notin fit
          PROVE  /\ branches[j].selector # branches[last].selector
                 /\ Above(branches[last], branches[j]) /\ ~Above(branches[j], branches[last])
      <4>1. CASE exact # {}
        <5>1. branches[last].selector = "=" /\ j \notin exact
          BY <1>20, <1>21, <2>4, <3>3, <4>1
        <5>2. branches[j].selector = "one" \/ branches[j].selector = "other"
          BY <1>20, <1>21, <1>4, <3>3, <5>1
        <5> QED
          BY <5>1, <5>2 DEF Above
      <4>2. CASE exact = {} /\ keyword # {}
        <5>1. branches[last].selector = "one" /\ j \notin keyword
          BY <1>20, <1>21, <2>4, <3>3, <4>2
        <5>2. branches[j].selector = "other"
          BY <1>20, <1>21, <1>4, <3>3, <4>2, <5>1
        <5> QED
          BY <5>1, <5>2 DEF Above
      <4>3. CASE exact = {} /\ keyword = {}
        BY <1>20, <1>21, <1>4, <3>3, <4>3
      <4> QED
        BY <4>1, <4>2, <4>3
    <3> QED
      BY <2>4, <3>1, <3>2, <3>3, BestIs
  <2> QED
    BY <2>1, <1>1, <2>4, <2>5, <2>6
<1> QED
  BY <1>5, <1>6

LEMMA FillWithinIs ==
  ASSUME NEW p, NEW params, NEW keep, "part" \in DOMAIN p, "branches" \in DOMAIN p, NEW q, q = FillWithin(p, params, keep)
  PROVE  DOMAIN q = DOMAIN p /\ q.part = p.part /\ ("name" \in DOMAIN p => q.name = p.name)
<1>1. PICK filled : filled = FillBranches(p.branches, params, keep)
  OBVIOUS
<1>2. q = [p EXCEPT !.branches = filled]
  BY <1>1 DEF FillWithin
<1> QED
  BY <1>2

\* A part once plurals are replaced.
NoPlural(p, params) ==
  /\ "part" \in DOMAIN p /\ "branches" \in DOMAIN p /\ p.part \in {"word", "place", "count", "value"}
  /\ p.part \in {"word", "place"} => "name" \in DOMAIN p
  /\ p.part = "place" => p.name \in DOMAIN params

LEMMA FilledPart == ASSUME NEW v, NEW p, p = Filled(v)
                    PROVE  "part" \in DOMAIN p /\ "branches" \in DOMAIN p /\ p.part = "value"
BY DEF Filled

LEMMA WordIs ==
  ASSUME NEW text PROVE \A w : w \in Words(text) <=> \E p \in ToSet(text) : p.part = "word" /\ w = p.name
BY DEF Words

LEMMA PlacesFilled ==
  ASSUME NEW text, IsSequence(text), NEW params, \A p \in ToSet(text) : NoPlural(p, params),
         NEW flat, flat = InterpolateSimple(text, params)
  PROVE  /\ \A x \in ToSet(flat) : x.part \notin {"place", "plural"}
         /\ \A p \in ToSet(text) : p.part = "place" => Filled(params[p.name]) \in ToSet(flat)
         /\ Words(flat) = Words(text)
<1>0. PICK keep : keep = FALSE /\ flat = FillPlaces(text, params, keep)
  BY DEF InterpolateSimple
<1>1. ASSUME NEW p \in ToSet(text), NEW q, q = FillWithin(p, params, keep),
             NEW out, out = FillPart(q, params, keep)
      PROVE  /\ p.part = "place" => out = <<Filled(params[p.name])>>
             /\ p.part # "place" => out = <<q>> /\ q.part = p.part /\ (p.part = "word" => q.name = p.name)
  <2>1. keep \in BOOLEAN
    BY <1>0
  <2>2. "part" \in DOMAIN p /\ "branches" \in DOMAIN p
    BY DEF NoPlural
  <2>3. DOMAIN q = DOMAIN p /\ q.part = p.part /\ ("name" \in DOMAIN p => q.name = p.name)
    BY ONLY <1>1, <2>2, FillWithinIs
  <2>4. p.part \in {"place", "word"} => q.name = p.name
    BY <2>3 DEF NoPlural
  <2>5. /\ q.part # "place" => out = <<q>>
        /\ q.part = "place" /\ q.name \in DOMAIN params => out = <<Filled(params[q.name])>>
    BY ONLY <1>1, <2>1, FillPartIs
  <2> QED
    BY <2>3, <2>4, <2>5 DEF NoPlural
<1>2. /\ \A x \in ToSet(flat) : \E p \in ToSet(text) :
           x \in ToSet(FillPart(FillWithin(p, params, keep), params, keep))
      /\ \A p \in ToSet(text) :
           \A x \in ToSet(FillPart(FillWithin(p, params, keep), params, keep)) : x \in ToSet(flat)
  <2>1. keep \in BOOLEAN
    BY <1>0
  <2> QED
    BY <1>0, <2>1, FillPlacesIs
<1>3. ASSUME NEW x \in ToSet(flat)
      PROVE  /\ x.part \notin {"place", "plural"}
             /\ x.part = "word" => \E p \in ToSet(text) : p.part = "word" /\ x.name = p.name
  <2>1. PICK p \in ToSet(text) : x \in ToSet(FillPart(FillWithin(p, params, keep), params, keep))
    BY <1>2
  <2>2. PICK q, out : q = FillWithin(p, params, keep) /\ out = FillPart(q, params, keep)
    OBVIOUS
  <2>3. x \in ToSet(out)
    BY <2>1, <2>2
  <2>4. CASE p.part = "place"
    <3>1. x = Filled(params[p.name])
      BY <1>1, <2>2, <2>3, <2>4, SetOfOne
    <3> QED
      BY <3>1, FilledPart
  <2>5. CASE p.part # "place"
    <3>1. x = q /\ q.part = p.part /\ (p.part = "word" => q.name = p.name)
      BY <1>1, <2>2, <2>3, <2>5, SetOfOne
    <3>2. p.part \in {"word", "count", "value"}
      BY <2>5 DEF NoPlural
    <3> QED
      BY <3>1, <3>2
  <2> QED
    BY <2>4, <2>5
<1>4. ASSUME NEW p \in ToSet(text)
      PROVE  /\ p.part = "place" => Filled(params[p.name]) \in ToSet(flat)
             /\ p.part = "word" => \E x \in ToSet(flat) : x.part = "word" /\ x.name = p.name
  <2>1. PICK q, out : q = FillWithin(p, params, keep) /\ out = FillPart(q, params, keep)
    OBVIOUS
  <2>2. \A x \in ToSet(out) : x \in ToSet(flat)
    BY <1>2, <2>1
  <2>3. CASE p.part = "place"
    BY <1>1, <2>1, <2>2, <2>3, SetOfOne
  <2>4. CASE p.part = "word"
    <3>1. out = <<q>> /\ q.part = "word" /\ q.name = p.name
      BY <1>1, <2>1, <2>4
    <3> QED
      BY <2>2, <2>4, <3>1, SetOfOne
  <2> QED
    BY <2>3, <2>4
<1>5. Words(flat) = Words(text)
  <2>1. \A w : w \in Words(flat) <=> w \in Words(text)
    BY <1>3, <1>4, WordIs
  <2> QED
    BY <2>1
<1> QED
  BY <1>3, <1>4, <1>5

\* What a part becomes when plurals are replaced.
Pluralled(out, p, params) ==
  /\ IsSequence(out) /\ \A x \in ToSet(out) : NoPlural(x, params)
  /\ p.part # "plural" => out = <<p>>
  /\ p.part = "plural" => Words(out) = UNION {Words(p.branches[i].text) : i \in Best(p.branches, params[p.name].v)}

GivesAll(p, params) ==
  /\ DOMAIN p = {"part", "name", "branches"} /\ p.part \in {"word", "place", "count", "plural"}
  /\ IsSequence(p.branches) /\ \A b \in ToSet(p.branches) : AreParts(b.text, {"word", "place", "count"})
  /\ p.part \in {"place", "plural"} => p.name \in DOMAIN params
  /\ p.part = "plural" => params[p.name].number /\ ~Stands(p)

LEMMA PluralPartIs ==
  ASSUME NEW p, NEW params, GivesAll(p, params), NEW out, out = PluralPart(p, params)
  PROVE  Pluralled(out, p, params)
<1>1. CASE p.part # "plural"
  <2>1. out = <<p>>
    BY <1>1 DEF PluralPart
  <2>2. ToSet(out) = {p}
    BY <2>1, SetOfOne
  <2>3. IsSequence(out)
    BY <2>1, <2>2 DEF IsSequence
  <2>4. NoPlural(p, params)
    BY <1>1 DEF GivesAll, NoPlural
  <2> QED
    BY <1>1, <2>1, <2>2, <2>3, <2>4 DEF Pluralled
<1>2. CASE p.part = "plural"
  <2>1. PICK count, branch : count = CountOf(p.name, params) /\ branch = Chosen(p.branches, count)
    OBVIOUS
  <2>2. ~Stands(p) /\ count = params[p.name] /\ count.number
    BY <1>2, <2>1 DEF GivesAll, CountOf
  <2>3. out = [j \in DOMAIN branch |-> IF branch[j].part = "count" THEN Filled(count) ELSE branch[j]]
    BY <1>2, <2>1, <2>2 DEF PluralPart
  <2>4. PICK n, branches : n = count.v /\ branches = p.branches
    OBVIOUS
  <2>5. IsSequence(branches) /\ (\A b \in ToSet(branches) : AreParts(b.text, {"word", "place", "count"}))
        /\ \A b \in ToSet(branches) : \A x \in ToSet(b.text) : x.part # "place"
    BY <2>2, <2>4 DEF GivesAll, Stands
  <2>6. \/ Best(branches, n) = {} /\ branch = <<>>
        \/ \E i \in DOMAIN branches : Best(branches, n) = {i} /\ branch = branches[i].text
    BY <2>1, <2>2, <2>4, <2>5, ChosenIs
  <2>7. /\ IsSequence(branch)
        /\ \A x \in ToSet(branch) : /\ DOMAIN x = {"part", "name", "branches"} /\ x.part \in {"word", "count"}
    <3>1. CASE branch = <<>>
      <4>1. ToSet(branch) = {}
        BY <3>1, SetOfOne
      <4> QED
        BY <3>1, <4>1 DEF IsSequence
    <3>2. ASSUME NEW i \in DOMAIN branches, branch = branches[i].text
          PROVE  /\ IsSequence(branch)
                 /\ \A x \in ToSet(branch) : DOMAIN x = {"part", "name", "branches"} /\ x.part \in {"word", "count"}
      <4>1. branches[i] \in ToSet(branches)
        BY <2>5, PartsAreThere
      <4> QED
        BY <2>5, <3>2, <4>1 DEF AreParts
    <3> QED
      BY <2>6, <3>1, <3>2
  <2>8. Words(branch) = UNION {Words(branches[i].text) : i \in Best(branches, n)}
    <3>1. Words(<<>>) = {}
      BY SetOfOne, WordIs
    <3> QED
      BY <2>6, <3>1
  <2>9. /\ DOMAIN branch = 1..Len(branch) /\ Len(branch) \in Nat
        /\ \A j \in DOMAIN branch : branch[j] \in ToSet(branch)
        /\ \A x \in ToSet(branch) : \E j \in DOMAIN branch : x = branch[j]
    BY <2>7, PartsAreThere
  <2>10. /\ DOMAIN out = 1..Len(branch)
         /\ \A j \in 1..Len(branch) : out[j] = IF branch[j].part = "count" THEN Filled(count) ELSE branch[j]
         /\ out = [j \in 1..Len(branch) |-> out[j]]
    BY <2>3, <2>9
  <2>11. PICK elements : elements = ToSet(out)
    OBVIOUS
  <2>12. (\A j \in 1..Len(branch) : out[j] \in elements) /\ \A x \in elements : \E j \in 1..Len(branch) : x = out[j]
    BY <2>10, <2>11 DEF ToSet
  <2>13. IsSequence(out)
    <3>1. out \in Seq(elements)
      BY ONLY <2>9, <2>10, <2>12
    <3> QED
      BY <2>11, <3>1 DEF IsSequence
  <2>14. ASSUME NEW x \in elements PROVE NoPlural(x, params)
    <3>1. PICK j \in 1..Len(branch) : x = out[j]
      BY <2>12
    <3>2. CASE branch[j].part = "count"
      <4>1. x = Filled(count)
        BY <2>10, <3>1, <3>2
      <4> QED
        BY <4>1, FilledPart DEF NoPlural
    <3>3. CASE branch[j].part # "count"
      <4>1. x = branch[j] /\ DOMAIN x = {"part", "name", "branches"} /\ x.part = "word"
        BY <2>7, <2>9, <2>10, <3>1, <3>3
      <4> QED
        BY <4>1 DEF NoPlural
    <3> QED
      BY <3>2, <3>3
  <2>15. Words(out) = Words(branch)
    <3>1. ASSUME NEW x \in elements, x.part = "word" PROVE x \in ToSet(branch)
      <4>1. PICK j \in 1..Len(branch) : x = out[j]
        BY <2>12
      <4>2. branch[j].part # "count"
        BY <2>10, <3>1, <4>1, FilledPart
      <4> QED
        BY <2>9, <2>10, <4>1, <4>2
    <3>2. ASSUME NEW x \in ToSet(branch), x.part = "word" PROVE x \in elements
      <4>1. PICK j \in DOMAIN branch : x = branch[j]
        BY <2>9
      <4>2. out[j] = x /\ j \in 1..Len(branch)
        BY <2>9, <2>10, <3>2, <4>1
      <4> QED
        BY <2>12, <4>2
    <3>3. \A w : w \in Words(out) <=> w \in Words(branch)
      BY <2>11, <3>1, <3>2, WordIs
    <3> QED
      BY <3>3
  <2> QED
    BY <1>2, <2>2, <2>4, <2>8, <2>11, <2>13, <2>14, <2>15 DEF Pluralled
<1> QED
  BY <1>1, <1>2

LEMMA TextsOfSpaces ==
  ASSUME NEW key, NEW text, text = TextOfKey(key), text # <<>>
  PROVE  IsTemplate(text)
<1>1. PICK space, path : space = (IF key.space = NoSpace THEN "client" ELSE key.space) /\ path = key.path
  OBVIOUS
<1>2. text = IF space \in DOMAIN Spaces /\ path \in DOMAIN Spaces[space] THEN Spaces[space][path] ELSE <<>>
  BY <1>1 DEF TextOfKey
<1>3. space \in DOMAIN Spaces /\ path \in DOMAIN Spaces[space] /\ text = Spaces[space][path]
  BY <1>2
<1> QED
  BY <1>3, TextsAssumption

LEMMA TextIsFilled ==
  ASSUME NEW key, NEW params, params # NoParams, NEW text, text = TextOfKey(key), text # <<>>,
         Supplied(text, params), NEW filled, filled = TextFor(key, params)
  PROVE  /\ \A p \in ToSet(filled) : p.part \notin {"place", "plural"}
         /\ \A p \in ToSet(text) : p.part = "place" => Filled(params[p.name]) \in ToSet(filled)
         /\ \A w : w \in Words(filled) <=>
              \/ w \in Words(text)
              \/ \E p \in ToSet(text) : \E i \in Best(p.branches, params[p.name].v) :
                   p.part = "plural" /\ w \in Words(p.branches[i].text)
<1>1. IsTemplate(text) /\ IsSequence(text)
  BY TextsOfSpaces DEF IsTemplate, AreParts
<1>2. PICK plain : plain = InterpolatePlural(text, params)
  OBVIOUS
<1>3. filled = InterpolateSimple(plain, params)
  BY <1>2 DEF TextFor
<1>4. PICK ss : ss = [i \in DOMAIN text |-> PluralPart(text[i], params)]
  OBVIOUS
<1>5. /\ DOMAIN text = 1..Len(text) /\ Len(text) \in Nat
      /\ \A i \in DOMAIN text : text[i] \in ToSet(text)
      /\ \A p \in ToSet(text) : \E i \in DOMAIN text : p = text[i]
  BY <1>1, PartsAreThere
<1>6. ASSUME NEW i \in DOMAIN text PROVE ss[i] = PluralPart(text[i], params) /\ Pluralled(ss[i], text[i], params)
  <2>1. GivesAll(text[i], params)
    <3>1. PICK p : p = text[i]
      OBVIOUS
    <3>2. p \in ToSet(text)
      BY <1>5, <3>1
    <3>3. GivesAll(p, params)
      BY <1>1, <3>2 DEF GivesAll, IsTemplate, AreParts, Supplied
    <3> QED
      BY <3>1, <3>3
  <2>2. ss[i] = PluralPart(text[i], params)
    BY <1>4
  <2> QED
    BY <2>1, <2>2, PluralPartIs
<1>7. plain = FlattenSeq(ss)
  BY <1>2, <1>4 DEF InterpolatePlural
<1>8. PICK S : S = UNION {ToSet(ss[i]) : i \in DOMAIN text}
  OBVIOUS
<1>9. ss \in Seq(Seq(S)) /\ DOMAIN ss = DOMAIN text
  <2>1. ASSUME NEW i \in DOMAIN text PROVE ss[i] \in Seq(S)
    <3>1. IsSequence(ss[i]) /\ ToSet(ss[i]) \subseteq S
      BY <1>6, <1>8 DEF Pluralled
    <3>2. PICK s, elements : s = ss[i] /\ elements = ToSet(ss[i])
      OBVIOUS
    <3>3. s \in Seq(elements) /\ elements \subseteq S
      BY <3>1, <3>2 DEF IsSequence
    <3> QED
      BY ONLY <3>2, <3>3
  <2>2. ss = [i \in 1..Len(text) |-> ss[i]]
    BY <1>4, <1>5
  <2> QED
    BY <1>4, <1>5, <2>1, <2>2
<1>10. /\ IsSequence(plain)
       /\ \A x \in ToSet(plain) : \E i \in DOMAIN text : x \in ToSet(ss[i])
       /\ \A i \in DOMAIN text : \A x \in ToSet(ss[i]) : x \in ToSet(plain)
  BY <1>7, <1>9, FlatParts
<1>11. \A x \in ToSet(plain) : NoPlural(x, params)
  BY <1>6, <1>10 DEF Pluralled
<1>12. /\ \A x \in ToSet(filled) : x.part \notin {"place", "plural"}
       /\ \A p \in ToSet(plain) : p.part = "place" => Filled(params[p.name]) \in ToSet(filled)
       /\ Words(filled) = Words(plain)
  BY <1>3, <1>10, <1>11, PlacesFilled
<1>13. ASSUME NEW i \in DOMAIN text, text[i].part # "plural" PROVE ToSet(ss[i]) = {text[i]}
  BY <1>6, <1>13, SetOfOne DEF Pluralled
<1>14. ASSUME NEW p \in ToSet(text), p.part = "place" PROVE Filled(params[p.name]) \in ToSet(filled)
  <2>1. PICK i \in DOMAIN text : p = text[i]
    BY <1>5
  <2>2. p \in ToSet(plain)
    BY <1>10, <1>13, <1>14, <2>1
  <2> QED
    BY <1>12, <1>14, <2>2
<1>15. ASSUME NEW i \in DOMAIN text, text[i].part = "plural", NEW w
       PROVE  w \in Words(ss[i]) <=> \E k \in Best(text[i].branches, params[text[i].name].v) :
                                       w \in Words(text[i].branches[k].text)
  BY <1>6, <1>15 DEF Pluralled
<1>16. ASSUME NEW w
       PROVE  w \in Words(plain) <=> \E i \in DOMAIN text : w \in Words(ss[i])
  BY <1>10, WordIs
<1>17. ASSUME NEW w, NEW i \in DOMAIN text, text[i].part # "plural"
       PROVE  w \in Words(ss[i]) <=> text[i].part = "word" /\ w = text[i].name
  BY <1>13, <1>17, WordIs
<1>18. ASSUME NEW w, w \in Words(plain)
       PROVE  \/ w \in Words(text)
              \/ \E p \in ToSet(text) : \E i \in Best(p.branches, params[p.name].v) :
                   p.part = "plural" /\ w \in Words(p.branches[i].text)
  <2>1. PICK i \in DOMAIN text : w \in Words(ss[i])
    BY <1>16, <1>18
  <2>2. text[i] \in ToSet(text)
    BY <1>5
  <2>3. CASE text[i].part # "plural"
    BY <1>17, <2>1, <2>2, <2>3, WordIs
  <2>4. CASE text[i].part = "plural"
    BY <1>15, <2>1, <2>2, <2>4
  <2> QED
    BY <2>3, <2>4
<1>19. ASSUME NEW w, w \in Words(text) PROVE w \in Words(plain)
  <2>1. PICK p \in ToSet(text) : p.part = "word" /\ w = p.name
    BY <1>19, WordIs
  <2>2. PICK i \in DOMAIN text : p = text[i]
    BY <1>5
  <2>3. w \in Words(ss[i])
    BY <1>17, <2>1, <2>2
  <2> QED
    BY <1>16, <2>3
<1>20. ASSUME NEW w, NEW p \in ToSet(text), NEW k \in Best(p.branches, params[p.name].v), p.part = "plural",
              w \in Words(p.branches[k].text)
       PROVE  w \in Words(plain)
  <2>1. PICK i \in DOMAIN text : p = text[i]
    BY <1>5
  <2>2. w \in Words(ss[i])
    BY <1>15, <1>20, <2>1
  <2> QED
    BY <1>16, <2>2
<1> QED
  BY <1>12, <1>14, <1>18, <1>19, <1>20

\* What the engine has of a text once places are filled in.
LEMMA EngineKeeps ==
  ASSUME NEW raw, IsSequence(raw), NEW params, NEW filled, filled = Interpolate(raw, params)
  PROVE  \A p \in ToSet(filled) : p.part = "place" => p.name \notin DOMAIN params
<1>1. PICK keep : keep = TRUE
  OBVIOUS
<1>2. keep \in BOOLEAN /\ filled = FillPlaces(raw, params, keep)
  BY <1>1 DEF Interpolate
<1> SUFFICES ASSUME NEW x \in ToSet(filled), x.part = "place" PROVE x.name \notin DOMAIN params
  OBVIOUS
<1>3. PICK p \in ToSet(raw) : x \in ToSet(FillPart(FillWithin(p, params, keep), params, keep))
  BY <1>2, FillPlacesIs
<1>4. PICK q, out : q = FillWithin(p, params, keep) /\ out = FillPart(q, params, keep)
  OBVIOUS
<1>5. x \in ToSet(out)
  BY <1>3, <1>4
<1>6. /\ q.part # "place" => out = <<q>>
      /\ q.part = "place" /\ q.name \in DOMAIN params => out = <<Filled(params[q.name])>>
      /\ q.part = "place" /\ q.name \notin DOMAIN params => out = IF keep THEN <<q>> ELSE <<>>
  BY ONLY <1>2, <1>4, FillPartIs
<1>7. CASE q.part = "place" /\ q.name \in DOMAIN params
  <2>1. x = Filled(params[q.name])
    BY <1>5, <1>6, <1>7, SetOfOne
  <2> QED
    BY <2>1, FilledPart
<1>8. CASE q.part # "place"
  BY <1>5, <1>6, <1>8, SetOfOne
<1>9. CASE q.part = "place" /\ q.name \notin DOMAIN params
  <2>1. out = <<q>>
    BY <1>1, <1>6, <1>9
  <2> QED
    BY <1>5, <1>9, <2>1, SetOfOne
<1> QED
  BY <1>7, <1>8, <1>9

LEMMA LastOfMany ==
  ASSUME NEW files, files \in Seq(LocaleFiles), NEW l, NEW key, GivenBy(files, l, key) # {}
  PROVE  \E i \in GivenBy(files, l, key) : \A m \in GivenBy(files, l, key) : m <= i
<1>1. PICK given, n : given = GivenBy(files, l, key) /\ n = Len(files)
  OBVIOUS
<1>2. n \in Nat /\ given \subseteq 1..n
  BY <1>1, LenProperties DEF GivenBy
<1>3. 1 \in Int /\ n \in Int /\ given \in SUBSET Nat
  BY <1>2
<1>4. IsFiniteSet(1..n)
  BY ONLY <1>3, FS_Interval, Zenon
<1>5. IsFiniteSet(given)
  BY ONLY <1>2, <1>4, FS_Subset, Zenon
<1> QED
  BY <1>1, <1>3, <1>5, Extremes

\* Every text of a language is one of a file.
LEMMA TextsOfFiles ==
  ASSUME NEW texts, NEW files, TextsAre(texts, files), NEW l, NEW key, GivenBy(files, l, key) # {}
  PROVE  IsSequence(texts[l][key])
<1>1. files \in Seq(LocaleFiles)
  BY DEF TextsAre
<1>2. PICK i \in GivenBy(files, l, key) : \A m \in GivenBy(files, l, key) : m <= i
  BY <1>1, LastOfMany
<1>3. texts[l][key] = Content(files[i])[key] /\ key \in DOMAIN Content(files[i]) /\ i \in DOMAIN files
  BY <1>2 DEF TextsAre, GivenBy
<1>4. PICK f : f = files[i]
  OBVIOUS
<1>5. f \in LocaleFiles /\ Readable(f)
  BY <1>1, <1>3, <1>4, LenProperties DEF TextsAre
<1>6. f.state = "flat" /\ Content(f) = f.texts
  <2>1. DOMAIN <<>> = {} /\ key \in DOMAIN Content(f)
    BY <1>3, <1>4
  <2> QED
    BY <1>5, <2>1 DEF Content, Readable
<1> QED
  BY <1>3, <1>4, <1>5, <1>6, TextsAssumption DEF IsTemplate, AreParts

\* What is shown was translated from the texts of some moment.
ShownIs(s) ==
  s # NothingShown /\ s.params # NoParams =>
    /\ s.translator = TextFor(s.key, s.params)
    /\ \A p \in ToSet(s.engine) : p.part = "place" => p.name \notin DOMAIN s.params

TextsInv == TextsAre(translations, loads) /\ ShownIs(shown)

LEMMA ShowIs ==
  ASSUME TextsAre(translations, loads), NEW l, NEW key, NEW params, NEW s,
         s = [key |-> key, params |-> params, engine |-> Translate(l, key, params),
              translator |-> TextFor(key, params)]
  PROVE  ShownIs(s)
<1>1. s.key = key /\ s.params = params /\ s.engine = Translate(l, key, params) /\ s.translator = TextFor(key, params)
  OBVIOUS
<1> SUFFICES ASSUME params # NoParams PROVE \A p \in ToSet(s.engine) : p.part = "place" => p.name \notin DOMAIN params
  BY <1>1 DEF ShownIs
<1>2. PICK raw, chain : raw = LookupRaw(l, key) /\ chain = <<l, DefaultLocale, FallbackLocale>>
  OBVIOUS
<1>3. s.engine = Interpolate(raw, params)
  BY <1>1, <1>2 DEF Translate
<1>4. \/ raw = ItsKey(key)
      \/ \E j \in 1..3 : GivenBy(loads, chain[j], key) # {} /\ raw = translations[chain[j]][key]
  BY <1>2, AskedInTurn
<1>5. IsSequence(raw)
  <2>1. CASE raw = ItsKey(key)
    <3>1. PICK x : raw = <<x>>
      BY <2>1 DEF ItsKey
    <3>2. ToSet(raw) = {x}
      BY <3>1, SetOfOne
    <3> QED
      BY <3>1, <3>2 DEF IsSequence
  <2>2. ASSUME NEW j \in 1..3, GivenBy(loads, chain[j], key) # {}, raw = translations[chain[j]][key]
        PROVE  IsSequence(raw)
    BY <2>2, TextsOfFiles
  <2> QED
    BY <1>4, <2>1, <2>2
<1> QED
  BY <1>3, <1>5, EngineKeeps

LEMMA TextsStep ==
  ASSUME TextsInv, [TranslationsNext]_textVars
  PROVE  TextsInv'
<1>1. PICK texts, files, s, texts2, files2, s2 :
        /\ texts = translations /\ files = loads /\ s = shown
        /\ texts2 = translations' /\ files2 = loads' /\ s2 = shown'
  OBVIOUS
<1>2. TextsAre(texts, files) /\ ShownIs(s)
  BY <1>1 DEF TextsInv
<1>3. SUFFICES TextsAre(texts2, files2) /\ ShownIs(s2)
  BY <1>1 DEF TextsInv
<1>4. ASSUME NEW f \in LocaleFiles, LoadLocale(f) PROVE TextsAre(texts2, files2) /\ ShownIs(s2)
  <2>1. Readable(f) /\ s2 = NothingShown
    BY <1>1, <1>4 DEF LoadLocale
  <2>2. GivenMore(texts2, texts, files2, files, f)
    BY <1>1, <1>4 DEF LoadLocale, GivenMore
  <2>3. TextsAre(texts2, files2)
    BY <1>2, <2>1, <2>2, OneFileMore
  <2> QED
    BY <2>1, <2>3 DEF ShownIs
<1>5. ASSUME NEW l \in Locales, NEW key \in TextKeys, NEW params \in ParamSets \cup {NoParams},
             Show(l, key, params)
      PROVE  TextsAre(texts2, files2) /\ ShownIs(s2)
  <2>1. texts2 = texts /\ files2 = files
    BY <1>1, <1>5 DEF Show
  <2>2. s2 = [key |-> key, params |-> params, engine |-> Translate(l, key, params),
              translator |-> TextFor(key, params)]
    BY <1>1, <1>5 DEF Show
  <2>3. TextsAre(translations, loads)
    BY <1>1, <1>2
  <2>4. ShownIs(s2)
    BY <2>2, <2>3, ShowIs
  <2> QED
    BY <1>2, <2>1, <2>4
<1>6. CASE UNCHANGED textVars
  BY <1>1, <1>2, <1>6 DEF textVars
<1> QED
  BY <1>4, <1>5, <1>6 DEF TranslationsNext, LoadFails

LEMMA LastLoaded == ASSUME TextsInv PROVE LastLoadedFirstAsked
<1>1. TextsAre(translations, loads)
  BY DEF TextsInv
<1>2. ASSUME NEW l \in Locales, NEW key \in TextKeys, NEW chain, chain = <<l, DefaultLocale, FallbackLocale>>,
             NEW text, text = LookupRaw(l, key)
      PROVE  /\ (\A j \in 1 .. 3 : GivenBy(loads, chain[j], key) = {}) => text = ItsKey(key)
             /\ \A j \in 1 .. 3 : \A i \in GivenBy(loads, chain[j], key) :
                  (\A m \in 1 .. j - 1 : GivenBy(loads, chain[m], key) = {})
                    /\ (\A m \in GivenBy(loads, chain[j], key) : m <= i)
                    => text = Content(loads[i])[key]
  <2>1. /\ (\A j \in 1..3 : GivenBy(loads, chain[j], key) = {}) => text = ItsKey(key)
        /\ \A j \in 1..3 :
             GivenBy(loads, chain[j], key) # {} /\ (\A m \in 1..j - 1 : GivenBy(loads, chain[m], key) = {})
               => text = translations[chain[j]][key]
    BY <1>1, <1>2, AskedInTurn
  <2>2. \A k, x : \A i \in GivenBy(loads, k, x) :
          (\A m \in GivenBy(loads, k, x) : m <= i) => translations[k][x] = Content(loads[i])[x]
    BY <1>1 DEF TextsAre
  <2> QED
    BY <2>1, <2>2
<1>3. ASSUME NEW l \in Locales, NEW key \in TextKeys
      PROVE  /\ (\A j \in 1 .. 3 : GivenBy(loads, <<l, DefaultLocale, FallbackLocale>>[j], key) = {})
                  => LookupRaw(l, key) = ItsKey(key)
             /\ \A j \in 1 .. 3 : \A i \in GivenBy(loads, <<l, DefaultLocale, FallbackLocale>>[j], key) :
                  (\A m \in 1 .. j - 1 : GivenBy(loads, <<l, DefaultLocale, FallbackLocale>>[m], key) = {})
                    /\ (\A m \in GivenBy(loads, <<l, DefaultLocale, FallbackLocale>>[j], key) : m <= i)
                    => LookupRaw(l, key) = Content(loads[i])[key]
  <2>1. PICK chain, text : chain = <<l, DefaultLocale, FallbackLocale>> /\ text = LookupRaw(l, key)
    OBVIOUS
  <2>2. /\ (\A j \in 1 .. 3 : GivenBy(loads, chain[j], key) = {}) => text = ItsKey(key)
        /\ \A j \in 1 .. 3 : \A i \in GivenBy(loads, chain[j], key) :
             (\A m \in 1 .. j - 1 : GivenBy(loads, chain[m], key) = {})
               /\ (\A m \in GivenBy(loads, chain[j], key) : m <= i)
               => text = Content(loads[i])[key]
    BY <1>2, <2>1
  <2> QED
    BY ONLY <2>1, <2>2, Zenon
<1> QED
  BY ONLY <1>3, Zenon DEF LastLoadedFirstAsked, GivenBy

\* i18n: whatever files are loaded in whichever order, a text is the one last loaded for the first language
\* asked that has one, and what is shown of it has every value and the branches that fit, and no place left.
THEOREM TextsAreRightEver == TranslationsInit /\ [][TranslationsNext]_textVars => []TextsAreRight
<1>1. TranslationsInit => TextsInv
  BY NoTexts DEF TranslationsInit, TextsInv, ShownIs
<1>2. TextsInv /\ [TranslationsNext]_textVars => TextsInv'
  BY TextsStep
<1>3. TextsInv => TextsAreRight
  <2> SUFFICES ASSUME TextsInv PROVE FilledIn
    BY LastLoaded DEF TextsAreRight
  <2>1. PICK s : s = shown
    OBVIOUS
  <2>2. ShownIs(s)
    BY <2>1 DEF TextsInv
  <2>3. ASSUME s # NothingShown, s.params # NoParams,
               NEW text, text = TextOfKey(s.key), text # <<>>, Supplied(text, s.params)
        PROVE  /\ \A p \in ToSet(s.translator) : p.part \notin {"place", "plural"}
               /\ \A p \in ToSet(text) : p.part = "place" => Filled(s.params[p.name]) \in ToSet(s.translator)
               /\ \A w : w \in Words(s.translator) <=>
                    \/ w \in Words(text)
                    \/ \E p \in ToSet(text) : \E i \in Best(p.branches, s.params[p.name].v) :
                         p.part = "plural" /\ w \in Words(p.branches[i].text)
    BY <2>2, <2>3, TextIsFilled DEF ShownIs
  <2>4. ASSUME NEW text, NEW params, NEW some,
               \A w : w \in some <=>
                    \/ w \in Words(text)
                    \/ \E p \in ToSet(text) : \E i \in Best(p.branches, params[p.name].v) :
                         p.part = "plural" /\ w \in Words(p.branches[i].text)
        PROVE  some = Words(text) \cup UNION {Words(t) : t \in UNION {
                        {p.branches[i].text : i \in Best(p.branches, params[p.name].v)} :
                          p \in {q \in ToSet(text) : q.part = "plural"}}}
    BY <2>4
  <2> QED
    BY <2>1, <2>2, <2>3, <2>4 DEF FilledIn, ShownIs
<1> QED
  BY <1>1, <1>2, <1>3, PTL

-----------------------------------------------------------------------------
(* Versions and their order.                                               *)

Identifiers == [number : BOOLEAN, v : Int]
IdLess(x, y) == \/ x.number /\ ~y.number
                \/ x.number = y.number /\ x.v < y.v

LEMMA IdOrder ==
  ASSUME NEW x \in Identifiers, NEW y \in Identifiers, NEW z \in Identifiers
  PROVE  /\ ~IdLess(x, x)
         /\ IdLess(x, y) /\ IdLess(y, z) => IdLess(x, z)
         /\ IdLess(x, y) \/ x = y \/ IdLess(y, x)
<1>1. x.number \in BOOLEAN /\ y.number \in BOOLEAN /\ z.number \in BOOLEAN /\ x.v \in Int /\ y.v \in Int /\ z.v \in Int
  BY DEF Identifiers
<1>2. x.number = y.number /\ x.v = y.v => x = y
  BY DEF Identifiers
<1> QED
  BY <1>1, <1>2 DEF IdLess

LEMMA ComparedIds ==
  ASSUME NEW x \in Identifiers, NEW y \in Identifiers, NEW c, c = CompareIdentifiers(x, y)
  PROVE  c \in Int /\ (c = 0 <=> x = y) /\ (c > 0 <=> IdLess(y, x))
<1>1. x.number \in BOOLEAN /\ y.number \in BOOLEAN /\ x.v \in Int /\ y.v \in Int
  BY DEF Identifiers
<1>2. x.number = y.number /\ x.v = y.v => x = y
  BY DEF Identifiers
<1>3. CASE x.number = y.number
  <2>1. PICK d : d = x.v - y.v
    OBVIOUS
  <2>2. c = IF d > 0 THEN 1 ELSE IF d < 0 THEN -1 ELSE 0
    BY <1>3, <2>1 DEF CompareIdentifiers, Sign
  <2> QED
    BY <1>1, <1>2, <1>3, <2>1, <2>2 DEF IdLess
<1>4. CASE x.number # y.number
  BY <1>1, <1>4 DEF CompareIdentifiers, IdLess
<1> QED
  BY <1>3, <1>4

\* The place where a loop finds the first difference.
LEMMA LeastOf ==
  ASSUME NEW n \in Nat, NEW D \in SUBSET (1..n), D # {}, NEW first, first = CHOOSE i \in D : \A j \in D : i <= j
  PROVE  first \in D /\ \A j \in D : first <= j
<1>1. 1 \in Int /\ n \in Int /\ D \in SUBSET Nat
  BY ONLY n \in Nat, D \in SUBSET (1..n)
<1>2. IsFiniteSet(1..n)
  BY ONLY <1>1, FS_Interval, Zenon
<1>3. IsFiniteSet(D)
  BY ONLY D \in SUBSET (1..n), <1>2, FS_Subset, Zenon
<1>4. \E i \in D : \A j \in D : i <= j
  BY <1>1, <1>3, Extremes
<1> QED
  BY <1>4, Zenon

\* p is below q from place i on.
BelowAt(p, q, i) ==
  /\ i \in 1..Len(q) /\ i <= Len(p) + 1
  /\ \A j \in 1..i - 1 : p[j] = q[j]
  /\ i <= Len(p) => IdLess(p[i], q[i])

LEMMA BelowIs == \A p, q : Below(p, q) <=> \E i \in 1..Len(q) : BelowAt(p, q, i)
BY DEF Below, BelowAt, IdLess

LEMMA BelowTransitive ==
  ASSUME NEW p \in Seq(Identifiers), NEW q \in Seq(Identifiers), NEW r \in Seq(Identifiers), Below(p, q), Below(q, r)
  PROVE  Below(p, r)
<1>1. PICK i \in 1..Len(q) : BelowAt(p, q, i)
  BY BelowIs
<1>2. PICK j \in 1..Len(r) : BelowAt(q, r, j)
  BY BelowIs
<1>3. /\ Len(p) \in Nat /\ Len(q) \in Nat /\ Len(r) \in Nat
      /\ \A k \in 1..Len(p) : p[k] \in Identifiers
      /\ \A k \in 1..Len(q) : q[k] \in Identifiers
      /\ \A k \in 1..Len(r) : r[k] \in Identifiers
  BY LenProperties
<1>4. /\ i <= Len(p) + 1 /\ j <= Len(q) + 1
      /\ \A k \in 1..i - 1 : p[k] = q[k]
      /\ \A k \in 1..j - 1 : q[k] = r[k]
      /\ i <= Len(p) => IdLess(p[i], q[i])
      /\ j <= Len(q) => IdLess(q[j], r[j])
  BY <1>1, <1>2 DEF BelowAt
<1>5. CASE i < j
  <2>1. i \in 1..Len(r) /\ i \in 1..j - 1 /\ \A k \in 1..i - 1 : k \in 1..j - 1
    BY <1>3, <1>4, <1>5
  <2>2. (\A k \in 1..i - 1 : p[k] = r[k]) /\ q[i] = r[i]
    BY <1>4, <2>1
  <2> QED
    BY <1>4, <2>1, <2>2, BelowIs DEF BelowAt
<1>6. CASE i = j
  <2>1. \A k \in 1..i - 1 : p[k] = r[k]
    BY <1>4, <1>6
  <2>2. ASSUME i <= Len(p) PROVE IdLess(p[i], r[i])
    <3>1. i \in 1..Len(p) /\ i \in 1..Len(q) /\ i \in 1..Len(r) /\ j <= Len(q)
      BY <1>3, <1>4, <1>6, <2>2
    <3>2. IdLess(p[i], q[i]) /\ IdLess(q[i], r[i])
      BY <1>4, <1>6, <2>2, <3>1
    <3> QED
      BY <1>3, <3>1, <3>2, IdOrder
  <2> QED
    BY <1>4, <1>6, <2>1, <2>2, BelowIs DEF BelowAt
<1>7. CASE j < i
  <2>1. j \in 1..i - 1 /\ j <= Len(q) /\ j <= Len(p) + 1 /\ \A k \in 1..j - 1 : k \in 1..i - 1
    BY <1>3, <1>4, <1>7
  <2>2. (\A k \in 1..j - 1 : p[k] = r[k]) /\ p[j] = q[j] /\ IdLess(q[j], r[j])
    BY <1>4, <2>1
  <2> QED
    BY <1>4, <2>1, <2>2, BelowIs DEF BelowAt
<1> QED
  BY <1>3, <1>5, <1>6, <1>7

LEMMA BelowIrreflexive == ASSUME NEW p \in Seq(Identifiers) PROVE ~Below(p, p)
<1> SUFFICES ASSUME NEW i \in 1..Len(p), BelowAt(p, p, i) PROVE FALSE
  BY BelowIs
<1>1. Len(p) \in Nat /\ p[i] \in Identifiers
  BY LenProperties
<1>2. IdLess(p[i], p[i])
  BY <1>1 DEF BelowAt
<1> QED
  BY <1>1, <1>2, IdOrder

\* The places at which both have an identifier, and not the same.
Differ(p, q) == {i \in 1..Len(p) : i <= Len(q) /\ p[i] # q[i]}

LEMMA DifferIs ==
  ASSUME NEW p \in Seq(Identifiers), NEW q \in Seq(Identifiers)
  PROVE  /\ Differ(p, q) = {} => (Below(p, q) <=> Len(p) < Len(q)) /\ (Len(p) = Len(q) => p = q)
         /\ \A first \in Differ(p, q) : (\A j \in Differ(p, q) : first <= j) =>
              /\ p[first] \in Identifiers /\ q[first] \in Identifiers /\ p[first] # q[first]
              /\ Below(p, q) <=> IdLess(p[first], q[first])
<1>1. PICK n, m : n = Len(p) /\ m = Len(q)
  OBVIOUS
<1>2. /\ n \in Nat /\ m \in Nat
      /\ \A k \in 1..n : p[k] \in Identifiers
      /\ \A k \in 1..m : q[k] \in Identifiers
      /\ p = [k \in 1..n |-> p[k]] /\ q = [k \in 1..m |-> q[k]]
  BY <1>1, LenProperties
<1>3. ASSUME Differ(p, q) = {} PROVE (Below(p, q) <=> n < m) /\ (n = m => p = q)
  <2>1. \A k \in 1..n : k <= m => p[k] = q[k]
    BY <1>1, <1>3 DEF Differ
  <2>2. n = m => p = q
    <3> SUFFICES ASSUME n = m PROVE \A k \in 1..n : p[k] = q[k]
      BY <1>2
    <3> QED
      BY <1>2, <2>1
  <2>3. ASSUME n < m PROVE Below(p, q)
    <3>1. PICK i : i = n + 1
      OBVIOUS
    <3>2. i \in 1..m /\ ~(i <= n) /\ \A k \in 1..i - 1 : k \in 1..n /\ k <= m
      BY <1>2, <2>3, <3>1
    <3>3. \A k \in 1..i - 1 : p[k] = q[k]
      BY <2>1, <3>2
    <3>4. BelowAt(p, q, i)
      <4>1. i \in 1..Len(q) /\ i <= Len(p) + 1 /\ ~(i <= Len(p))
        BY <1>1, <1>2, <3>1, <3>2
      <4> QED
        BY <3>3, <4>1 DEF BelowAt
    <3> QED
      BY <1>1, <3>2, <3>4, BelowIs
  <2>4. ASSUME Below(p, q) PROVE n < m
    <3>1. PICK i \in 1..m : BelowAt(p, q, i)
      BY <1>1, <2>4, BelowIs
    <3>2. ASSUME i <= n PROVE FALSE
      <4>1. i \in 1..n /\ i <= m /\ IdLess(p[i], q[i])
        BY <1>1, <1>2, <3>1, <3>2 DEF BelowAt
      <4>2. p[i] = q[i] /\ p[i] \in Identifiers
        BY <1>2, <2>1, <4>1
      <4> QED
        BY <4>1, <4>2, IdOrder
    <3> QED
      BY <1>2, <3>1, <3>2
  <2> QED
    BY <2>2, <2>3, <2>4
<1>4. ASSUME NEW first \in Differ(p, q), \A j \in Differ(p, q) : first <= j
      PROVE  /\ p[first] \in Identifiers /\ q[first] \in Identifiers /\ p[first] # q[first]
             /\ Below(p, q) <=> IdLess(p[first], q[first])
  <2>1. first \in 1..n /\ first \in 1..m /\ first <= m /\ p[first] # q[first]
    BY <1>1, <1>2 DEF Differ
  <2>2. \A k \in 1..first - 1 : p[k] = q[k]
    <3> SUFFICES ASSUME NEW k \in 1..first - 1, p[k] # q[k] PROVE FALSE
      OBVIOUS
    <3>1. k \in 1..n /\ k <= m /\ k < first /\ k \in Int
      BY <1>2, <2>1
    <3>2. k \in Differ(p, q)
      BY <1>1, <3>1 DEF Differ
    <3> QED
      BY <1>4, <2>1, <3>1, <3>2
  <2>3. ASSUME IdLess(p[first], q[first]) PROVE Below(p, q)
    <3>1. first <= n + 1
      BY <1>2, <2>1
    <3>2. BelowAt(p, q, first)
      BY <1>1, <2>1, <2>2, <2>3, <3>1 DEF BelowAt
    <3> QED
      BY <1>1, <2>1, <3>2, BelowIs
  <2>4. ASSUME Below(p, q) PROVE IdLess(p[first], q[first])
    <3>1. PICK i \in 1..m : BelowAt(p, q, i)
      BY <1>1, <2>4, BelowIs
    <3>2. i <= n + 1 /\ (\A k \in 1..i - 1 : p[k] = q[k]) /\ (i <= n => IdLess(p[i], q[i]))
      BY <1>1, <3>1 DEF BelowAt
    <3>3. ~(first < i)
      <4> SUFFICES ASSUME first < i PROVE FALSE
        OBVIOUS
      <4>1. first \in 1..i - 1
        BY <1>2, <2>1
      <4> QED
        BY <2>1, <3>2, <4>1
    <3>4. ~(i < first)
      <4> SUFFICES ASSUME i < first PROVE FALSE
        OBVIOUS
      <4>1. i \in 1..first - 1 /\ i \in 1..n /\ i <= n
        BY <1>2, <2>1
      <4>2. p[i] = q[i] /\ p[i] \in Identifiers
        BY <1>2, <2>2, <4>1
      <4>3. IdLess(p[i], q[i])
        BY <3>2, <4>1
      <4> QED
        BY <4>2, <4>3, IdOrder
    <3>5. i = first
      BY <1>2, <2>1, <3>3, <3>4
    <3> QED
      BY <1>2, <2>1, <3>2, <3>5
  <2> QED
    BY <1>2, <2>1, <2>3, <2>4
<1> QED
  BY <1>1, <1>3, <1>4

\* p is the prerelease of a version below one with q.
PreBelow(p, q) == p # <<>> /\ (q = <<>> \/ Below(p, q))

LEMMA SignIs == \A n \in Int : (Sign(n) > 0 <=> n > 0) /\ Sign(n) \in Int
BY DEF Sign

LEMMA EmptyIs == \A s \in Seq(Identifiers) : Len(s) \in Nat /\ (s = <<>> <=> Len(s) = 0)
<1> SUFFICES ASSUME NEW s \in Seq(Identifiers) PROVE Len(s) \in Nat /\ (s = <<>> <=> Len(s) = 0)
  OBVIOUS
<1>1. Len(s) \in Nat /\ s = [k \in 1..Len(s) |-> s[k]]
  BY LenProperties
<1>2. Len(<<>>) = 0
  OBVIOUS
<1>3. Len(s) = 0 => s = <<>>
  BY EmptySeq
<1> QED
  BY <1>1, <1>2, <1>3

LEMMA ComparedPre ==
  ASSUME NEW p \in Seq(Identifiers), NEW q \in Seq(Identifiers), NEW c, c = ComparePrerelease(p, q)
  PROVE  c > 0 <=> PreBelow(q, p)
<1>1. PICK n, least : n = Len(p) /\ least = IF Len(p) < Len(q) THEN Len(p) ELSE Len(q)
  OBVIOUS
<1>2. /\ Len(p) \in Nat /\ Len(q) \in Nat /\ least \in Nat
      /\ (p = <<>> <=> Len(p) = 0) /\ (q = <<>> <=> Len(q) = 0)
      /\ \A k \in 1..Len(p) : p[k] \in Identifiers
      /\ \A k \in 1..Len(q) : q[k] \in Identifiers
  BY <1>1, EmptyIs, LenProperties
<1>3. PICK differ : differ = {i \in 1..least : CompareIdentifiers(p[i], q[i]) # 0}
  OBVIOUS
<1>4. c = IF p = <<>> \/ q = <<>> THEN Sign(Len(q) - Len(p))
          ELSE IF differ # {} THEN CompareIdentifiers(p[CHOOSE i \in differ : \A j \in differ : i <= j],
                                                      q[CHOOSE i \in differ : \A j \in differ : i <= j])
          ELSE Sign(Len(p) - Len(q))
  BY <1>1, <1>3 DEF ComparePrerelease
<1>5. ASSUME NEW k \in 1..least PROVE CompareIdentifiers(p[k], q[k]) # 0 <=> p[k] # q[k]
  <2>1. k \in 1..Len(p) /\ k \in 1..Len(q)
    BY <1>1, <1>2
  <2>2. p[k] \in Identifiers /\ q[k] \in Identifiers
    BY <1>2, <2>1
  <2>3. PICK x, y, d : x = p[k] /\ y = q[k] /\ d = CompareIdentifiers(x, y)
    OBVIOUS
  <2>4. d = 0 <=> x = y
    BY ONLY <2>2, <2>3, ComparedIds
  <2> QED
    BY ONLY <2>3, <2>4
<1>6. differ = Differ(p, q) /\ differ = Differ(q, p)
  <2>1. \A k : k \in 1..least <=> k \in 1..Len(p) /\ k <= Len(q)
    BY <1>1, <1>2
  <2>2. \A k : k \in 1..least <=> k \in 1..Len(q) /\ k <= Len(p)
    BY <1>1, <1>2
  <2>3. differ = {k \in 1..least : p[k] # q[k]}
    BY <1>3, <1>5
  <2> QED
    BY <2>1, <2>2, <2>3 DEF Differ
<1>7. CASE p = <<>> \/ q = <<>>
  <2>1. c > 0 <=> Len(q) > Len(p)
    <3>1. Len(q) - Len(p) \in Int /\ c = Sign(Len(q) - Len(p))
      BY <1>2, <1>4, <1>7
    <3>2. c > 0 <=> Len(q) - Len(p) > 0
      BY ONLY <3>1, SignIs
    <3> QED
      BY <1>2, <3>2
  <2>2. p = <<>> => (Len(q) > Len(p) <=> q # <<>>)
    BY <1>2
  <2>3. q = <<>> => ~(Len(q) > Len(p))
    BY <1>2
  <2> QED
    BY <1>7, <2>1, <2>2, <2>3 DEF PreBelow
<1>8. CASE p # <<>> /\ q # <<>> /\ differ # {}
  <2>1. PICK first : first = CHOOSE i \in differ : \A j \in differ : i <= j
    OBVIOUS
  <2>2. differ \in SUBSET (1..least)
    BY <1>3
  <2>3. first \in differ /\ \A j \in differ : first <= j
    BY ONLY <1>2, <1>8, <2>1, <2>2, LeastOf
  <2>4. c = CompareIdentifiers(p[first], q[first])
    BY ONLY <1>4, <1>8, <2>1
  <2>5. p[first] \in Identifiers /\ q[first] \in Identifiers /\ (Below(q, p) <=> IdLess(q[first], p[first]))
    BY ONLY p \in Seq(Identifiers), q \in Seq(Identifiers), <1>6, <2>3, DifferIs
  <2> QED
    BY <1>8, <2>4, <2>5, ComparedIds DEF PreBelow
<1>9. CASE p # <<>> /\ q # <<>> /\ differ = {}
  <2>1. Below(q, p) <=> Len(q) < Len(p)
    BY <1>6, <1>9, DifferIs
  <2>2. Len(p) - Len(q) \in Int /\ c = Sign(Len(p) - Len(q))
    BY <1>2, <1>4, <1>9
  <2>3. c > 0 <=> Len(p) - Len(q) > 0
    BY ONLY <2>2, SignIs
  <2> QED
    BY <1>2, <1>9, <2>1, <2>3 DEF PreBelow
<1> QED
  BY <1>7, <1>8, <1>9

LEMMA PreOrder ==
  ASSUME NEW p \in Seq(Identifiers), NEW q \in Seq(Identifiers), NEW r \in Seq(Identifiers)
  PROVE  /\ ~PreBelow(p, p)
         /\ PreBelow(p, q) /\ PreBelow(q, r) => PreBelow(p, r)
         /\ PreBelow(p, q) \/ p = q \/ PreBelow(q, p)
<1>1. ~PreBelow(p, p)
  BY BelowIrreflexive DEF PreBelow
<1>2. PreBelow(p, q) /\ PreBelow(q, r) => PreBelow(p, r)
  BY BelowTransitive DEF PreBelow
<1>3. Below(p, q) \/ p = q \/ Below(q, p)
  <2>1. Len(p) \in Nat /\ Len(q) \in Nat
    BY EmptyIs
  <2>2. Differ(p, q) = Differ(q, p)
    BY <2>1 DEF Differ
  <2>3. CASE Differ(p, q) = {}
    <3>1. (Below(p, q) <=> Len(p) < Len(q)) /\ (Len(p) = Len(q) => p = q)
      BY <2>3, DifferIs
    <3>2. Below(q, p) <=> Len(q) < Len(p)
      BY <2>2, <2>3, DifferIs
    <3> QED
      BY <2>1, <3>1, <3>2
  <2>4. CASE Differ(p, q) # {}
    <3>1. PICK differ, n, first :
            /\ differ = Differ(p, q) /\ n = Len(p) /\ first = CHOOSE i \in differ : \A j \in differ : i <= j
      OBVIOUS
    <3>2. differ \in SUBSET (1..n) /\ n \in Nat /\ differ # {}
      BY <2>1, <2>4, <3>1 DEF Differ
    <3>3. first \in differ /\ \A j \in differ : first <= j
      BY ONLY <3>1, <3>2, LeastOf
    <3>4. /\ p[first] \in Identifiers /\ q[first] \in Identifiers /\ p[first] # q[first]
          /\ (Below(p, q) <=> IdLess(p[first], q[first])) /\ (Below(q, p) <=> IdLess(q[first], p[first]))
      BY ONLY p \in Seq(Identifiers), q \in Seq(Identifiers), <2>2, <3>1, <3>3, DifferIs
    <3> QED
      BY <3>4, IdOrder
  <2> QED
    BY <2>3, <2>4
<1>4. PreBelow(p, q) \/ p = q \/ PreBelow(q, p)
  BY <1>3 DEF PreBelow
<1> QED
  BY <1>1, <1>2, <1>4

IsRelease(a) == a.core \in [1..3 -> Nat] /\ a.pre \in Seq(Identifiers)

CoreBelow(x, y) ==
  \/ x[1] < y[1]
  \/ x[1] = y[1] /\ x[2] < y[2]
  \/ x[1] = y[1] /\ x[2] = y[2] /\ x[3] < y[3]

LEMMA CoreBelowIs ==
  ASSUME NEW x \in [1..3 -> Nat], NEW y \in [1..3 -> Nat]
  PROVE  /\ (\E i \in 1..3 : x[i] < y[i] /\ \A j \in 1..i - 1 : x[j] = y[j]) <=> CoreBelow(x, y)
         /\ CoreBelow(x, y) \/ x = y \/ CoreBelow(y, x)
<1>1. /\ x[1] \in Nat /\ x[2] \in Nat /\ x[3] \in Nat /\ y[1] \in Nat /\ y[2] \in Nat /\ y[3] \in Nat
      /\ 1..3 = {1, 2, 3} /\ 1..0 = {} /\ 1..1 = {1} /\ 1..2 = {1, 2} /\ 1 - 1 = 0 /\ 2 - 1 = 1 /\ 3 - 1 = 2
  OBVIOUS
<1>2. (\E i \in 1..3 : x[i] < y[i] /\ \A j \in 1..i - 1 : x[j] = y[j]) <=>
        \/ x[1] < y[1] /\ \A j \in 1..0 : x[j] = y[j]
        \/ x[2] < y[2] /\ \A j \in 1..1 : x[j] = y[j]
        \/ x[3] < y[3] /\ \A j \in 1..2 : x[j] = y[j]
  BY <1>1
<1>3. x[1] = y[1] /\ x[2] = y[2] /\ x[3] = y[3] => x = y
  BY <1>1
<1> QED
  BY <1>1, <1>2, <1>3 DEF CoreBelow

LEMMA PrecedesIs ==
  ASSUME NEW a, NEW b, IsRelease(a), IsRelease(b)
  PROVE  Precedes(a, b) <=> CoreBelow(a.core, b.core) \/ (a.core = b.core /\ PreBelow(a.pre, b.pre))
<1>1. PICK x, y : x = a.core /\ y = b.core
  OBVIOUS
<1>2. x \in [1..3 -> Nat] /\ y \in [1..3 -> Nat]
  BY <1>1 DEF IsRelease
<1>3. (\E i \in 1..3 : x[i] < y[i] /\ \A j \in 1..i - 1 : x[j] = y[j]) <=> CoreBelow(x, y)
  BY <1>2, CoreBelowIs
<1> QED
  BY <1>1, <1>3 DEF Precedes, PreBelow

\* isVersionGt() is the precedence of SemVer.
LEMMA ComparedVersions ==
  ASSUME NEW a, NEW b, IsRelease(a), IsRelease(b)
  PROVE  IsVersionGt(a, b) <=> Precedes(b, a)
<1>1. PICK x, y, c : x = a.core /\ y = b.core /\ c = CompareVersions(a, b)
  OBVIOUS
<1>2. x \in [1..3 -> Nat] /\ y \in [1..3 -> Nat]
  BY <1>1 DEF IsRelease
<1>3. PICK differ : differ = {i \in 1..3 : x[i] # y[i]}
  OBVIOUS
<1>4. PICK first : first = CHOOSE i \in differ : \A j \in differ : i <= j
  OBVIOUS
<1>5. c = IF differ # {} THEN Sign(x[first] - y[first]) ELSE ComparePrerelease(a.pre, b.pre)
  BY <1>1, <1>3, <1>4 DEF CompareVersions
<1>6. IsVersionGt(a, b) <=> c > 0
  BY <1>1 DEF IsVersionGt
<1>7. CASE differ = {}
  <2>1. x = y
    BY <1>2, <1>3, <1>7
  <2>2. ~CoreBelow(y, x)
    BY <1>2, <2>1 DEF CoreBelow
  <2>3. PICK p, q : p = a.pre /\ q = b.pre
    OBVIOUS
  <2>4. p \in Seq(Identifiers) /\ q \in Seq(Identifiers) /\ c = ComparePrerelease(p, q)
    BY <1>5, <1>7, <2>3 DEF IsRelease
  <2>5. c > 0 <=> PreBelow(q, p)
    BY ONLY <2>4, ComparedPre
  <2> QED
    BY <1>1, <1>6, <2>1, <2>2, <2>3, <2>5, PrecedesIs
<1>8. CASE differ # {}
  <2>1. differ \in SUBSET (1..3) /\ 3 \in Nat
    BY <1>3
  <2>2. first \in differ /\ \A j \in differ : first <= j
    BY ONLY <1>4, <1>8, <2>1, LeastOf
  <2>3. first \in 1..3 /\ x[first] # y[first] /\ \A j \in 1..3 : j < first => x[j] = y[j]
    <3>1. \A j \in 1..3 : j < first => ~(first <= j)
      BY <2>1, <2>2
    <3> QED
      BY <1>3, <2>2, <3>1
  <2>4. x # y
    BY <2>3
  <2>5. x[first] - y[first] \in Int /\ c = Sign(x[first] - y[first])
    BY <1>2, <1>5, <1>8, <2>3
  <2>6. c > 0 <=> x[first] - y[first] > 0
    BY ONLY <2>5, SignIs
  <2>7. c > 0 <=> y[first] < x[first]
    BY <1>2, <2>3, <2>6
  <2>8. CoreBelow(y, x) <=> y[first] < x[first]
    <3>1. x[1] \in Nat /\ x[2] \in Nat /\ x[3] \in Nat /\ y[1] \in Nat /\ y[2] \in Nat /\ y[3] \in Nat
      BY <1>2
    <3>2. first = 1 \/ (first = 2 /\ x[1] = y[1]) \/ (first = 3 /\ x[1] = y[1] /\ x[2] = y[2])
      BY <2>3
    <3> QED
      BY <2>3, <3>1, <3>2 DEF CoreBelow
  <2> QED
    BY <1>1, <1>6, <2>4, <2>7, <2>8, PrecedesIs
<1> QED
  BY <1>7, <1>8

\* It orders releases, those of one precedence aside.
LEMMA PrecedesOrders ==
  ASSUME NEW a, NEW b, NEW c, IsRelease(a), IsRelease(b), IsRelease(c)
  PROVE  /\ ~Precedes(b, a) /\ ~Precedes(c, b) => ~Precedes(c, a)
         /\ Precedes(a, b) => ~Precedes(b, a)
<1>1. PICK x, y, z, p, q, r : /\ x = a.core /\ y = b.core /\ z = c.core
                              /\ p = a.pre /\ q = b.pre /\ r = c.pre
  OBVIOUS
<1>2. /\ x \in [1..3 -> Nat] /\ y \in [1..3 -> Nat] /\ z \in [1..3 -> Nat]
      /\ p \in Seq(Identifiers) /\ q \in Seq(Identifiers) /\ r \in Seq(Identifiers)
  BY <1>1 DEF IsRelease
<1>3. /\ CoreBelow(x, y) \/ x = y \/ CoreBelow(y, x)
      /\ CoreBelow(y, z) \/ y = z \/ CoreBelow(z, y)
      /\ PreBelow(p, q) \/ p = q \/ PreBelow(q, p)
      /\ PreBelow(q, r) \/ q = r \/ PreBelow(r, q)
      /\ PreBelow(p, q) /\ PreBelow(q, r) => PreBelow(p, r)
      /\ PreBelow(p, r) /\ PreBelow(r, p) => PreBelow(p, p)
      /\ PreBelow(p, q) /\ PreBelow(q, p) => PreBelow(p, p)
      /\ PreBelow(r, p) /\ PreBelow(p, r) => PreBelow(r, r)
      /\ ~PreBelow(p, p) /\ ~PreBelow(q, q) /\ ~PreBelow(r, r)
  BY <1>2, CoreBelowIs, PreOrder
<1>4. /\ CoreBelow(x, y) /\ CoreBelow(y, z) => CoreBelow(x, z)
      /\ CoreBelow(x, z) => ~CoreBelow(z, x)
      /\ CoreBelow(x, y) => ~CoreBelow(y, x)
      /\ ~CoreBelow(x, x) /\ ~CoreBelow(y, y) /\ ~CoreBelow(z, z)
  <2>1. /\ x[1] \in Nat /\ x[2] \in Nat /\ x[3] \in Nat /\ y[1] \in Nat /\ y[2] \in Nat /\ y[3] \in Nat
        /\ z[1] \in Nat /\ z[2] \in Nat /\ z[3] \in Nat
    BY <1>2
  <2> QED
    BY <2>1 DEF CoreBelow
<1>5. /\ Precedes(b, a) <=> CoreBelow(y, x) \/ (y = x /\ PreBelow(q, p))
      /\ Precedes(a, b) <=> CoreBelow(x, y) \/ (x = y /\ PreBelow(p, q))
      /\ Precedes(c, b) <=> CoreBelow(z, y) \/ (z = y /\ PreBelow(r, q))
      /\ Precedes(c, a) <=> CoreBelow(z, x) \/ (z = x /\ PreBelow(r, p))
  BY <1>1, PrecedesIs
<1>6. Precedes(a, b) => ~Precedes(b, a)
  BY <1>3, <1>4, <1>5
<1>7. ~Precedes(b, a) /\ ~Precedes(c, b) => ~Precedes(c, a)
  <2> SUFFICES ASSUME ~Precedes(b, a), ~Precedes(c, b) PROVE ~Precedes(c, a)
    OBVIOUS
  <2>1. CASE CoreBelow(x, y) /\ CoreBelow(y, z)
    BY <1>4, <1>5, <2>1
  <2>2. CASE CoreBelow(x, y) /\ y = z
    BY <1>4, <1>5, <2>2
  <2>3. CASE x = y /\ CoreBelow(y, z)
    BY <1>4, <1>5, <2>3
  <2>4. CASE x = y /\ y = z
    <3>1. ~PreBelow(q, p) /\ ~PreBelow(r, q)
      BY <1>5, <2>4
    <3>2. ~PreBelow(r, p)
      BY <1>3, <3>1
    <3> QED
      BY <1>4, <1>5, <2>4, <3>2
  <2> QED
    BY <1>3, <1>5, <2>1, <2>2, <2>3, <2>4
<1> QED
  BY <1>6, <1>7

-----------------------------------------------------------------------------
(* The sort of versions.                                                   *)

\* What goes by the rounds of a loop is what the loop makes.
Follows(f, S, base, step, n) ==
  f[0] = base /\ \A i \in 1..n : f[i - 1] \in S => f[i] = step[<<f[i - 1], i>>]

LEMMA SameRounds ==
  ASSUME NEW S, NEW base, NEW step, NEW n \in Nat, NEW f, NEW g, Rounds(g, S, base, step, n),
         Follows(f, S, base, step, n)
  PROVE  \A i \in 0..n : f[i] = g[i]
<1>1. PICK good : good = {i \in 0..n : f[i] = g[i]}
  OBVIOUS
<1>2. g \in [0..n -> S] /\ g[0] = base /\ \A i \in 1..n : g[i] = step[<<g[i - 1], i>>]
  BY DEF Rounds
<1>3. 0 \in good
  <2>1. 0 \in 0..n
    OBVIOUS
  <2> QED
    BY <1>1, <1>2, <2>1 DEF Follows
<1>4. ASSUME NEW i \in 0..n, i \in good, i < n PROVE i + 1 \in good
  <2>1. PICK k : k = i + 1
    OBVIOUS
  <2>2. k \in 1..n /\ k \in 0..n /\ k - 1 = i
    BY <1>4, <2>1
  <2>3. f[i] = g[i] /\ g[i] \in S
    BY <1>1, <1>2, <1>4
  <2>4. f[k] = step[<<f[i], k>>] /\ g[k] = step[<<g[i], k>>]
    BY <1>2, <2>2, <2>3 DEF Follows
  <2> QED
    BY <1>1, <2>1, <2>2, <2>3, <2>4
<1>5. Climbs(good, n)
  BY <1>3, <1>4 DEF Climbs
<1> QED
  BY <1>1, <1>5, Upwards

\* The place behind which a version goes.
BehindAt(last, sorted, v) ==
  /\ last \in 0..Len(sorted)
  /\ last # 0 => ~IsVersionGt(sorted[last], v)
  /\ \A i \in 1..Len(sorted) : last < i => IsVersionGt(sorted[i], v)

PutBehind(last, sorted, v, out) ==
  \A i \in 1..Len(sorted) + 1 :
    out[i] = IF i <= last THEN sorted[i] ELSE IF i = last + 1 THEN v ELSE sorted[i - 1]
IsInserted(out, sorted, v) == out = Insert(sorted, v)

LEMMA InsertAtPlace ==
  ASSUME NEW R, NEW sorted \in Seq(R), NEW v \in R, NEW out, IsInserted(out, sorted, v)
  PROVE  /\ out \in Seq(R) /\ Len(out) = Len(sorted) + 1
         /\ \E last : BehindAt(last, sorted, v) /\ PutBehind(last, sorted, v, out)
<1>1. PICK n : n = Len(sorted)
  OBVIOUS
<1>2. n \in Nat /\ DOMAIN sorted = 1..n /\ \A i \in 1..n : sorted[i] \in R
  BY <1>1, LenProperties
<1>3. PICK below : below = {0} \cup {i \in DOMAIN sorted : ~IsVersionGt(sorted[i], v)}
  OBVIOUS
<1>4. below \subseteq 0..n /\ below \in SUBSET Nat /\ below # {}
  BY <1>2, <1>3
<1>5. IsFiniteSet(below)
  <2>1. 0 \in Int /\ n \in Int
    BY <1>2
  <2>2. IsFiniteSet(0..n)
    BY ONLY <2>1, FS_Interval, Zenon
  <2> QED
    BY ONLY <1>4, <2>2, FS_Subset, Zenon
<1>6. \E i \in below : \A j \in below : j <= i
  BY ONLY <1>4, <1>5, Extremes
<1>7. PICK last : last = CHOOSE i \in below : \A j \in below : j <= i
  OBVIOUS
<1>8. last \in below /\ \A j \in below : j <= last
  BY ONLY <1>6, <1>7, Zenon
<1>9. BehindAt(last, sorted, v)
  <2>1. last \in 0..n
    BY <1>4, <1>8
  <2>2. last # 0 => ~IsVersionGt(sorted[last], v)
    BY <1>3, <1>8
  <2>3. ASSUME NEW i \in 1..n, last < i PROVE IsVersionGt(sorted[i], v)
    <3>1. i \notin below
      <4>1. ~(i <= last)
        BY <2>1, <2>3
      <4> QED
        BY <1>8, <4>1
    <3> QED
      BY <1>2, <1>3, <3>1
  <2> QED
    BY <1>1, <2>1, <2>2, <2>3 DEF BehindAt
<1>10. out = [i \in 1..n + 1 |-> IF i <= last THEN sorted[i] ELSE IF i = last + 1 THEN v ELSE sorted[i - 1]]
  BY <1>1, <1>3, <1>7 DEF Insert, IsInserted
<1>11. last \in 0..n
  BY <1>4, <1>8
<1>12. ASSUME NEW i \in 1..n + 1
       PROVE  (IF i <= last THEN sorted[i] ELSE IF i = last + 1 THEN v ELSE sorted[i - 1]) \in R
  <2>1. i <= last => i \in 1..n
    BY ONLY <1>2, <1>11, i \in 1..n + 1
  <2>2. ~(i <= last) /\ i # last + 1 => i - 1 \in 1..n
    BY <1>2, <1>11
  <2>3. PICK s : s = sorted
    OBVIOUS
  <2>4. PICK j : j = i - 1
    OBVIOUS
  <2>5. (\A m \in 1..n : s[m] \in R) /\ v \in R
    BY <1>2, <2>3
  <2>6. (IF i <= last THEN s[i] ELSE IF i = last + 1 THEN v ELSE s[j]) \in R
    <3>1. i <= last => s[i] \in R
      BY ONLY <2>1, <2>5
    <3>2. ~(i <= last) /\ i # last + 1 => s[j] \in R
      BY ONLY <2>2, <2>4, <2>5
    <3> QED
      BY ONLY <2>5, <3>1, <3>2
  <2> QED
    BY ONLY <2>3, <2>4, <2>6
<1>13. out \in Seq(R) /\ Len(out) = n + 1
  <2>1. n + 1 \in Nat
    BY <1>2
  <2>2. out \in [1..n + 1 -> R]
    BY <1>10, <1>12
  <2> QED
    BY ONLY <2>1, <2>2
<1>14. PutBehind(last, sorted, v, out)
  BY <1>1, <1>10 DEF PutBehind
<1> QED
  BY <1>1, <1>9, <1>13, <1>14

\* The first k versions, sorted.
Placed(place, sorted, vs, k) ==
  /\ place \in [1..k -> 1..k]
  /\ \A i \in 1..k : sorted[place[i]] = vs[i]
  /\ \A i, j \in 1..k : place[i] = place[j] => i = j
  /\ \A i, j \in 1..k : i < j /\ place[j] < place[i] => Precedes(vs[j], vs[i])
SortedUpTo(sorted, vs, k, R) ==
  /\ sorted \in Seq(R) /\ Len(sorted) = k
  /\ \A i, j \in 1..k : i < j => ~Precedes(sorted[j], sorted[i])
  /\ \E place : Placed(place, sorted, vs, k)

LEMMA OneVersionMore ==
  ASSUME NEW R, \A a \in R : IsRelease(a), NEW vs \in Seq(R), NEW k \in Nat, k < Len(vs),
         NEW old, SortedUpTo(old, vs, k, R), NEW v, v = vs[k + 1], NEW new, IsInserted(new, old, v)
  PROVE  SortedUpTo(new, vs, k + 1, R)
<1>1. old \in Seq(R) /\ Len(old) = k /\ (\A i, j \in 1..k : i < j => ~Precedes(old[j], old[i]))
  BY DEF SortedUpTo
<1>2. PICK place : Placed(place, old, vs, k)
  BY DEF SortedUpTo
<1>3. (\A i \in 1..k : old[i] \in R) /\ (\A i \in 1..k + 1 : vs[i] \in R) /\ v \in R
  <2>1. (\A i \in 1..Len(old) : old[i] \in R) /\ (\A i \in 1..Len(vs) : vs[i] \in R) /\ Len(vs) \in Nat
    BY <1>1, LenProperties
  <2>2. \A i \in 1..k + 1 : i \in 1..Len(vs)
    BY <2>1
  <2>3. k + 1 \in 1..k + 1
    OBVIOUS
  <2> QED
    BY <1>1, <2>1, <2>2, <2>3
<1>4. /\ new \in Seq(R) /\ Len(new) = Len(old) + 1
      /\ \E last : BehindAt(last, old, v) /\ PutBehind(last, old, v, new)
  BY <1>1, <1>3, InsertAtPlace
<1>5. PICK last :
        /\ BehindAt(last, old, v)
        /\ \A i \in 1..k + 1 : new[i] = IF i <= last THEN old[i] ELSE IF i = last + 1 THEN v ELSE old[i - 1]
  BY <1>1, <1>4 DEF PutBehind
<1>6. /\ last \in 0..k
      /\ last # 0 => ~Precedes(v, old[last])
      /\ \A i \in 1..k : last < i => Precedes(v, old[i])
  <2>1. /\ last \in 0..k /\ (last # 0 => ~IsVersionGt(old[last], v))
        /\ \A i \in 1..k : last < i => IsVersionGt(old[i], v)
    BY <1>1, <1>5 DEF BehindAt
  <2>2. \A i \in 1..k : IsVersionGt(old[i], v) <=> Precedes(v, old[i])
    BY <1>3, ComparedVersions
  <2>3. last # 0 => last \in 1..k
    BY <2>1
  <2> QED
    BY <2>1, <2>2, <2>3
<1>7. ASSUME NEW i \in 1..k, i <= last PROVE ~Precedes(v, old[i])
  <2>1. last \in 1..k /\ last # 0
    BY <1>6, <1>7
  <2>2. CASE i = last
    BY <1>6, <2>1, <2>2
  <2>3. CASE i < last
    <3>1. ~Precedes(old[last], old[i]) /\ ~Precedes(v, old[last])
      BY <1>1, <1>6, <2>1, <2>3
    <3>2. IsRelease(old[i]) /\ IsRelease(old[last]) /\ IsRelease(v)
      BY <1>3, <2>1
    <3> QED
      BY <3>1, <3>2, PrecedesOrders
  <2> QED
    BY <1>6, <1>7, <2>1, <2>2, <2>3
<1>8. ASSUME NEW i \in 1..k, last < i PROVE ~Precedes(old[i], v)
  BY <1>3, <1>6, <1>8, PrecedesOrders
<1>9. ASSUME NEW i \in 1..k + 1, NEW j \in 1..k + 1, i < j PROVE ~Precedes(new[j], new[i])
  <2>1. CASE j <= last
    <3>1. i \in 1..k /\ j \in 1..k /\ i <= last
      BY <1>6, <1>9, <2>1
    <3> QED
      BY <1>1, <1>5, <1>9, <2>1, <3>1
  <2>2. CASE j = last + 1
    <3>1. i \in 1..k /\ i <= last /\ ~(j <= last)
      BY <1>6, <1>9, <2>2
    <3>2. new[j] = v /\ new[i] = old[i]
      BY <1>5, <2>2, <3>1
    <3> QED
      BY <1>7, <3>1, <3>2
  <2>3. CASE j > last + 1
    <3>1. j - 1 \in 1..k /\ last < j - 1 /\ ~(j <= last) /\ j # last + 1
      BY <1>6, <2>3
    <3>2. new[j] = old[j - 1]
      BY <1>5, <3>1
    <3>3. CASE i <= last
      <4>1. i \in 1..k /\ i < j - 1 /\ new[i] = old[i]
        BY <1>5, <1>6, <3>1, <3>3
      <4> QED
        BY <1>1, <3>1, <3>2, <4>1
    <3>4. CASE i = last + 1
      <4>1. new[i] = v
        <5>1. ~(i <= last)
          BY <1>6, <3>4
        <5> QED
          BY <1>5, <3>4, <5>1
      <4> QED
        BY <1>8, <3>1, <3>2, <4>1
    <3>5. CASE i > last + 1
      <4>1. i - 1 \in 1..k /\ i - 1 < j - 1 /\ ~(i <= last) /\ i # last + 1
        BY <1>6, <1>9, <3>5
      <4>2. new[i] = old[i - 1]
        BY <1>5, <4>1
      <4> QED
        BY <1>1, <3>1, <3>2, <4>1, <4>2
    <3> QED
      BY <1>6, <3>3, <3>4, <3>5
  <2> QED
    BY <1>6, <2>1, <2>2, <2>3
<1>10. PICK place2 : place2 = [i \in 1..k + 1 |-> IF i = k + 1 THEN last + 1
                                              ELSE IF place[i] <= last THEN place[i] ELSE place[i] + 1]
  OBVIOUS
<1>11. /\ \A i \in 1..k : place[i] \in 1..k /\ old[place[i]] = vs[i]
       /\ \A i, j \in 1..k : place[i] = place[j] => i = j
       /\ \A i, j \in 1..k : i < j /\ place[j] < place[i] => Precedes(vs[j], vs[i])
  BY <1>2 DEF Placed
<1>12. /\ place2[k + 1] = last + 1
       /\ \A i \in 1..k : place2[i] = IF place[i] <= last THEN place[i] ELSE place[i] + 1
       /\ \A i \in 1..k + 1 : i = k + 1 \/ i \in 1..k
  BY <1>10
<1>13. place2 \in [1..k + 1 -> 1..k + 1]
  <2>1. ASSUME NEW i \in 1..k + 1 PROVE place2[i] \in 1..k + 1
    <3>1. CASE i = k + 1
      BY <1>6, <1>12, <3>1
    <3>2. CASE i \in 1..k
      <4>1. PICK p : p = place[i]
        OBVIOUS
      <4>2. p \in 1..k /\ place2[i] = (IF p <= last THEN p ELSE p + 1)
        BY <1>11, <1>12, <3>2, <4>1
      <4> QED
        BY <1>6, <4>2
    <3> QED
      BY <1>12, <3>1, <3>2
  <2> QED
    BY <1>10, <2>1
<1>14. ASSUME NEW i \in 1..k + 1 PROVE new[place2[i]] = vs[i]
  <2>1. CASE i = k + 1
    <3>1. last + 1 \in 1..k + 1 /\ ~(last + 1 <= last)
      BY <1>6
    <3> QED
      BY <1>5, <1>12, <2>1, <3>1
  <2>2. CASE i \in 1..k
    <3>1. PICK p : p = place[i]
      OBVIOUS
    <3>2. p \in 1..k /\ old[p] = vs[i]
      BY <1>11, <2>2, <3>1
    <3>3. CASE p <= last
      <4>1. place2[i] = p /\ p \in 1..k + 1
        BY <1>12, <2>2, <3>1, <3>2, <3>3
      <4> QED
        BY <1>5, <3>2, <3>3, <4>1
    <3>4. CASE ~(p <= last)
      <4>1. PICK p2 : p2 = p + 1
        OBVIOUS
      <4>2. place2[i] = p2 /\ p2 \in 1..k + 1 /\ ~(p2 <= last) /\ p2 # last + 1 /\ p2 - 1 = p
        BY <1>6, <1>12, <2>2, <3>1, <3>2, <3>4, <4>1
      <4> QED
        BY <1>5, <3>2, <4>2
    <3> QED
      BY <3>3, <3>4
  <2> QED
    BY <1>12, <2>1, <2>2
<1>15. ASSUME NEW i \in 1..k + 1, NEW j \in 1..k + 1
       PROVE  /\ place2[i] = place2[j] => i = j
              /\ i < j /\ place2[j] < place2[i] => Precedes(vs[j], vs[i])
  <2>1. CASE i \in 1..k /\ j \in 1..k
    <3>1. PICK p, q : p = place[i] /\ q = place[j]
      OBVIOUS
    <3>2. /\ p \in 1..k /\ q \in 1..k /\ (p = q => i = j) /\ (i < j /\ q < p => Precedes(vs[j], vs[i]))
          /\ place2[i] = (IF p <= last THEN p ELSE p + 1) /\ place2[j] = (IF q <= last THEN q ELSE q + 1)
      BY <1>11, <1>12, <2>1, <3>1
    <3> QED
      BY <1>6, <3>2
  <2>2. CASE i \in 1..k /\ j = k + 1
    <3>1. PICK p : p = place[i]
      OBVIOUS
    <3>2. /\ p \in 1..k /\ old[p] = vs[i] /\ place2[j] = last + 1
          /\ place2[i] = (IF p <= last THEN p ELSE p + 1)
      BY <1>11, <1>12, <2>2, <3>1
    <3>3. place2[i] # place2[j] /\ (place2[j] < place2[i] => last < p)
      BY <1>6, <3>2
    <3>4. last < p => Precedes(v, vs[i])
      BY <1>6, <3>2
    <3> QED
      BY <2>2, <3>3, <3>4
  <2>3. CASE i = k + 1 /\ j \in 1..k
    <3>1. PICK p : p = place[j]
      OBVIOUS
    <3>2. p \in 1..k /\ place2[i] = last + 1 /\ place2[j] = (IF p <= last THEN p ELSE p + 1)
      BY <1>11, <1>12, <2>3, <3>1
    <3> QED
      BY <1>6, <2>3, <3>2
  <2>4. CASE i = k + 1 /\ j = k + 1
    BY <2>4
  <2> QED
    BY <1>12, <2>1, <2>2, <2>3, <2>4
<1>16. Placed(place2, new, vs, k + 1)
  BY <1>13, <1>14, <1>15 DEF Placed
<1>17. new \in Seq(R) /\ Len(new) = k + 1
  BY ONLY <1>1, <1>4
<1> QED
  BY <1>9, <1>16, <1>17 DEF SortedUpTo

LEMMA SortIs ==
  ASSUME NEW R, \A a \in R : IsRelease(a), NEW vs \in Seq(R)
  PROVE  SortedUpTo(SemverSort(vs), vs, Len(vs), R)
<1>1. PICK n, S : n = Len(vs) /\ S = Seq(R)
  OBVIOUS
<1>2. n \in Nat /\ \A i \in 1..n : vs[i] \in R
  BY <1>1, LenProperties
<1>3. PICK step : step = [p \in S \X (1..n) |-> Insert(p[1], vs[p[2]])]
  OBVIOUS
<1>4. step \in [S \X (1..n) -> S] /\ \A s \in S, i \in 1..n : step[<<s, i>>] = Insert(s, vs[i])
  <2>1. ASSUME NEW p \in S \X (1..n) PROVE Insert(p[1], vs[p[2]]) \in S
    <3>1. PICK s, v : s = p[1] /\ v = vs[p[2]]
      OBVIOUS
    <3>2. s \in Seq(R) /\ v \in R
      BY <1>1, <1>2, <3>1
    <3>3. PICK new : IsInserted(new, s, v)
      BY DEF IsInserted
    <3>4. new \in Seq(R) /\ new = Insert(s, v)
      <4>1. new \in Seq(R)
        BY ONLY <3>2, <3>3, InsertAtPlace
      <4> QED
        BY <3>3, <4>1 DEF IsInserted
    <3> QED
      BY <1>1, <3>1, <3>4
  <2> QED
    BY <1>3, <2>1
<1>5. <<>> \in S
  BY <1>1
<1>6. PICK g : Rounds(g, S, <<>>, step, n)
  BY <1>2, <1>4, <1>5, RoundsExist
<1>7. g \in [0..n -> S] /\ g[0] = <<>> /\ \A i \in 1..n : g[i] = step[<<g[i - 1], i>>]
  BY <1>6 DEF Rounds
<1>8. \A i \in 1..n : i - 1 \in 0..n /\ i \in 0..n
  BY <1>2
<1>9. \A i \in 1..n : g[i] = Insert(g[i - 1], vs[i])
  BY <1>4, <1>7, <1>8
<1> DEFINE sorted[i \in 0..n] == IF i = 0 THEN <<>> ELSE Insert(sorted[i - 1], vs[i])
<1>10. SemverSort(vs) = sorted[n]
  BY <1>1, Zenon DEF SemverSort
<1>11. g = [i \in 0..n |-> IF i = 0 THEN <<>> ELSE Insert(g[i - 1], vs[i])]
  <2>1. \A i \in 0..n : i # 0 => i \in 1..n
    BY <1>2
  <2> QED
    BY <1>7, <1>9, <2>1
<1>12. sorted = [i \in 0..n |-> IF i = 0 THEN <<>> ELSE Insert(sorted[i - 1], vs[i])]
  BY <1>11
<1> HIDE DEF sorted
<1>13. PICK f : f = sorted
  OBVIOUS
<1>14. \A i \in 0..n : f[i] = IF i = 0 THEN <<>> ELSE Insert(f[i - 1], vs[i])
  BY <1>12, <1>13
<1>15. f[0] = <<>> /\ \A i \in 1..n : f[i] = Insert(f[i - 1], vs[i])
  <2>1. 0 \in 0..n /\ \A i \in 1..n : i \in 0..n /\ i # 0
    BY <1>2
  <2> QED
    BY <1>14, <2>1
<1>16. PICK good : good = {i \in 0..n : SortedUpTo(f[i], vs, i, R)}
  OBVIOUS
<1>17. 0 \in good
  <2>1. 1..0 = {} /\ Len(<<>>) = 0 /\ <<>> \in Seq(R)
    OBVIOUS
  <2>2. Placed(<<>>, <<>>, vs, 0)
    BY <2>1 DEF Placed
  <2>3. SortedUpTo(<<>>, vs, 0, R)
    BY <2>1, <2>2 DEF SortedUpTo
  <2>4. 0 \in 0..n
    BY <1>2
  <2> QED
    BY <1>15, <1>16, <2>3, <2>4
<1>18. ASSUME NEW i \in 0..n, i \in good, i < n PROVE i + 1 \in good
  <2>1. PICK k, old, v, new : k = i + 1 /\ old = f[i] /\ v = vs[k] /\ new = Insert(old, v)
    OBVIOUS
  <2>2. k \in 1..n /\ k \in 0..n /\ k - 1 = i /\ i \in Nat
    <3>1. k = i + 1
      BY <2>1
    <3> QED
      BY ONLY <1>2, <1>18, <3>1
  <2>3. SortedUpTo(old, vs, i, R) /\ f[k] = new
    BY <1>15, <1>16, <1>18, <2>1, <2>2
  <2>4. i < Len(vs) /\ v = vs[i + 1]
    BY <1>1, <1>18, <2>1
  <2>5. IsInserted(new, old, v)
    BY <2>1 DEF IsInserted
  <2>6. SortedUpTo(new, vs, i + 1, R)
    BY ONLY \A a \in R : IsRelease(a), vs \in Seq(R), <2>2, <2>3, <2>4, <2>5, OneVersionMore
  <2> QED
    BY <1>16, <2>1, <2>2, <2>3, <2>6
<1>19. Climbs(good, n)
  BY <1>17, <1>18 DEF Climbs
<1>20. n \in good
  BY <1>2, <1>19, Upwards
<1> QED
  BY <1>1, <1>10, <1>13, <1>16, <1>20


-----------------------------------------------------------------------------
(* The merge of fields.                                                    *)

\* The codes of the errors of resolve(), with "" for none.
Codes == {"", "DUPLICATE_FIELD", "TYPE_CONFLICT"}
Accs(All) == [fields : Seq(All), error : Codes]

Alike(f, g) == f.name = g.name /\ f.type = g.type
Unlike(f, g) == f.name = g.name /\ f.type # g.type
EachOnce(s) == \A i, j \in DOMAIN s : s[i].name = s[j].name => i = j

\* Of the first n fields of a declaration: one named twice, one of another type than known, and
\* all of them, with those known, in A.
TwiceIn(fields, n) == \E i, j \in 1..n : j < i /\ fields[i].name = fields[j].name
ClashIn(K, fields, n) == \E g \in K : \E i \in 1..n : Unlike(g, fields[i])
Spans(A, K, fields, n) ==
  /\ \A g \in A : (\E f \in K : Alike(f, g)) \/ \E i \in 1..n : Alike(fields[i], g)
  /\ \A f \in K : \E g \in A : Alike(f, g)
  /\ \A i \in 1..n : \E g \in A : Alike(fields[i], g)

AddedUpTo(acc, known, fields, n) ==
  /\ acc.error # "" <=> TwiceIn(fields, n) \/ ClashIn(ToSet(known), fields, n)
  /\ acc.error = "" => EachOnce(acc.fields) /\ Spans(ToSet(acc.fields), ToSet(known), fields, n)

LEMMA ToSetIs == \A s : ToSet(s) = {s[i] : i \in DOMAIN s}
  BY DEF ToSet

LEMMA OneMoreIn ==
  ASSUME NEW All, NEW s \in Seq(All), NEW f \in All, NEW new, Longer(new, s, f)
  PROVE  /\ new \in Seq(All) /\ ToSet(new) = ToSet(s) \cup {f}
         /\ EachOnce(s) /\ (\A g \in ToSet(s) : g.name # f.name) => EachOnce(new)
<1>1. PICK n : n = Len(s)
  OBVIOUS
<1>2. n \in Nat /\ DOMAIN s = 1..n
  BY <1>1
<1>3. /\ new \in Seq(All) /\ DOMAIN new = 1..n + 1 /\ new[n + 1] = f
      /\ \A i \in 1..n : new[i] = s[i]
  BY <1>1 DEF Longer
<1>4. \A i \in 1..n + 1 : i = n + 1 \/ i \in 1..n
  BY <1>2
<1>5. n + 1 \in 1..n + 1 /\ \A i \in 1..n : i \in 1..n + 1
  BY <1>2
<1>6. ToSet(new) = ToSet(s) \cup {f}
  <2>1. ToSet(new) = {new[i] : i \in 1..n + 1} /\ ToSet(s) = {s[i] : i \in 1..n}
    BY <1>2, <1>3, ToSetIs
  <2> QED
    BY ONLY <2>1, <1>3, <1>4, <1>5
<1>7. ASSUME EachOnce(s), \A g \in ToSet(s) : g.name # f.name PROVE EachOnce(new)
  <2>1. \A i, j \in 1..n : s[i].name = s[j].name => i = j
    BY <1>2, <1>7 DEF EachOnce
  <2>2. \A i \in 1..n : s[i].name # f.name
    BY <1>2, <1>7, ToSetIs
  <2>3. \A i, j \in 1..n + 1 : new[i].name = new[j].name => i = j
    BY ONLY <1>3, <1>4, <2>1, <2>2
  <2> QED
    BY <1>3, <2>3 DEF EachOnce
<1> QED
  BY <1>3, <1>6, <1>7

\* What a round of the loop does, as the cases of its conditions.
AddsField(acc, fields, i, new) ==
  \/ acc.error # "" /\ new = acc
  \/ acc.error = "" /\ (\E j \in 1..i - 1 : fields[j].name = fields[i].name) /\ new.error = "DUPLICATE_FIELD"
  \/ acc.error = "" /\ (\E g \in ToSet(acc.fields) : Unlike(g, fields[i])) /\ new.error = "TYPE_CONFLICT"
  \/ /\ acc.error = "" /\ new.error = ""
     /\ ~ \E j \in 1..i - 1 : fields[j].name = fields[i].name
     /\ ~ \E g \in ToSet(acc.fields) : Unlike(g, fields[i])
     /\ \/ new.fields = acc.fields /\ \E g \in ToSet(acc.fields) : g.name = fields[i].name
        \/ Longer(new.fields, acc.fields, fields[i]) /\ \A g \in ToSet(acc.fields) : g.name # fields[i].name

LEMMA AddFieldIs ==
  ASSUME NEW All, NEW acc \in Accs(All), NEW fields \in Seq(All), NEW i \in DOMAIN fields
  PROVE  /\ AddField(acc, fields, i) \in Accs(All)
         /\ AddsField(acc, fields, i, AddField(acc, fields, i))
<1>1. PICK f, same : f = fields[i] /\ same = {g \in ToSet(acc.fields) : g.name = f.name}
  OBVIOUS
<1>2. acc.fields \in Seq(All) /\ acc.error \in Codes /\ acc = [fields |-> acc.fields, error |-> acc.error] /\ f \in All
  BY <1>1 DEF Accs
<1>3. PICK longer, new : longer = Append(acc.fields, f) /\ new = AddField(acc, fields, i)
  OBVIOUS
<1>4. longer \in Seq(All) /\ Longer(longer, acc.fields, f)
  BY <1>2, <1>3 DEF Longer
<1>5. new = IF acc.error # "" THEN acc
            ELSE IF \E j \in 1..i - 1 : fields[j].name = f.name
              THEN [fields |-> acc.fields, error |-> "DUPLICATE_FIELD"]
            ELSE IF \E g \in same : g.type # f.type THEN [fields |-> acc.fields, error |-> "TYPE_CONFLICT"]
            ELSE IF same # {} THEN acc
            ELSE [fields |-> longer, error |-> ""]
  BY <1>1, <1>3 DEF AddField
<1>6. /\ (\E g \in same : g.type # f.type) <=> \E g \in ToSet(acc.fields) : Unlike(g, f)
      /\ same # {} <=> \E g \in ToSet(acc.fields) : g.name = f.name
  BY <1>1 DEF Unlike
<1>7. new \in Accs(All)
  BY <1>2, <1>4, <1>5 DEF Accs, Codes
<1>8. AddsField(acc, fields, i, new)
  <2>1. CASE acc.error # ""
    BY <1>5, <2>1 DEF AddsField
  <2>2. CASE acc.error = "" /\ \E j \in 1..i - 1 : fields[j].name = f.name
    BY <1>1, <1>5, <2>2 DEF AddsField
  <2>3. CASE acc.error = "" /\ ~(\E j \in 1..i - 1 : fields[j].name = f.name) /\ \E g \in same : g.type # f.type
    <3>1. new.error = "TYPE_CONFLICT"
      BY <1>5, <2>3
    <3> QED
      BY <1>1, <1>6, <2>3, <3>1 DEF AddsField
  <2>4. CASE acc.error = "" /\ ~(\E j \in 1..i - 1 : fields[j].name = f.name) /\ ~ \E g \in same : g.type # f.type
    <3>1. CASE same # {}
      <4>1. new = acc
        BY <1>5, <2>4, <3>1
      <4> QED
        BY <1>1, <1>6, <2>4, <3>1, <4>1 DEF AddsField
    <3>2. CASE same = {}
      <4>1. new.error = "" /\ new.fields = longer
        BY <1>5, <2>4, <3>2
      <4> QED
        BY <1>1, <1>4, <1>6, <2>4, <3>2, <4>1 DEF AddsField
    <3> QED
      BY <3>1, <3>2
  <2> QED
    BY <2>1, <2>2, <2>3, <2>4
<1> QED
  BY <1>3, <1>7, <1>8

LEMMA OneFieldAdded ==
  ASSUME NEW All, NEW known \in Seq(All), NEW fields \in Seq(All), NEW n \in Nat, n + 1 \in DOMAIN fields,
         NEW acc \in Accs(All), AddedUpTo(acc, known, fields, n),
         NEW new \in Accs(All), AddsField(acc, fields, n + 1, new)
  PROVE  AddedUpTo(new, known, fields, n + 1)
<1>1. PICK k, f, K, A : k = n + 1 /\ f = fields[k] /\ K = ToSet(known) /\ A = ToSet(acc.fields)
  OBVIOUS
<1>2. /\ k \in 1..k /\ k - 1 = n /\ \A i \in 1..k : i = k \/ i \in 1..n
      /\ \A i \in 1..n : i \in 1..k /\ i < k
      /\ \A i \in 1..k : ~(k < i)
  BY <1>1
<1>3. acc.fields \in Seq(All) /\ f \in All
  BY <1>1 DEF Accs
<1>4. /\ acc.error # "" <=> TwiceIn(fields, n) \/ ClashIn(K, fields, n)
      /\ acc.error = "" => EachOnce(acc.fields) /\ Spans(A, K, fields, n)
  BY <1>1 DEF AddedUpTo
<1>5. TwiceIn(fields, k) <=> TwiceIn(fields, n) \/ \E j \in 1..n : fields[j].name = f.name
  BY <1>1, <1>2 DEF TwiceIn
<1>6. ClashIn(K, fields, k) <=> ClashIn(K, fields, n) \/ \E g \in K : Unlike(g, f)
  BY <1>1, <1>2 DEF ClashIn
<1>7. (\E j \in 1..k - 1 : fields[j].name = f.name) <=> \E j \in 1..n : fields[j].name = f.name
  BY <1>2
<1>8. CASE acc.error # "" /\ new = acc
  BY <1>1, <1>4, <1>5, <1>6, <1>8 DEF AddedUpTo
<1>9. CASE acc.error = "" /\ (\E j \in 1..n : fields[j].name = f.name) /\ new.error = "DUPLICATE_FIELD"
  BY <1>1, <1>5, <1>9 DEF AddedUpTo
<1>10. CASE acc.error = "" /\ (\E g \in A : Unlike(g, f)) /\ new.error = "TYPE_CONFLICT"
  <2>1. PICK g \in A : Unlike(g, f)
    BY <1>10
  <2>2. (\E h \in K : Alike(h, g)) \/ \E i \in 1..n : Alike(fields[i], g)
    BY <1>4, <1>10 DEF Spans
  <2>3. (\E h \in K : Unlike(h, f)) \/ \E j \in 1..n : fields[j].name = f.name
    BY <2>1, <2>2 DEF Alike, Unlike
  <2> QED
    BY <1>1, <1>5, <1>6, <1>10, <2>3 DEF AddedUpTo
<1>11. CASE /\ acc.error = "" /\ new.error = ""
            /\ ~ \E j \in 1..n : fields[j].name = f.name
            /\ ~ \E g \in A : Unlike(g, f)
            /\ \/ new.fields = acc.fields /\ \E g \in A : g.name = f.name
               \/ Longer(new.fields, acc.fields, f) /\ \A g \in A : g.name # f.name
  <2>1. Spans(A, K, fields, n) /\ EachOnce(acc.fields) /\ ~TwiceIn(fields, k)
    BY <1>4, <1>5, <1>11
  <2>2. ~ClashIn(K, fields, k)
    <3>1. ASSUME NEW g \in K, Unlike(g, f) PROVE FALSE
      <4>1. PICK h \in A : Alike(g, h)
        BY <2>1 DEF Spans
      <4> QED
        BY <1>11, <3>1, <4>1 DEF Alike, Unlike
    <3> QED
      BY <1>4, <1>6, <1>11, <3>1
  <2>3. CASE new.fields = acc.fields /\ \E g \in A : g.name = f.name
    <3>1. \E g \in A : Alike(f, g)
      BY <1>11, <2>3 DEF Alike, Unlike
    <3>2. Spans(A, K, fields, k)
      BY <1>1, <1>2, <2>1, <3>1 DEF Spans
    <3> QED
      BY <1>1, <1>11, <2>1, <2>2, <2>3, <3>2 DEF AddedUpTo
  <2>4. CASE Longer(new.fields, acc.fields, f) /\ \A g \in A : g.name # f.name
    <3>1. PICK B : B = ToSet(new.fields)
      OBVIOUS
    <3>2. B = A \cup {f} /\ EachOnce(new.fields)
      BY <1>1, <1>3, <2>1, <2>4, <3>1, OneMoreIn
    <3>3. Alike(f, f)
      BY DEF Alike
    <3>4. Spans(B, K, fields, k)
      <4>1. ASSUME NEW g \in B
            PROVE  (\E h \in K : Alike(h, g)) \/ \E i \in 1..k : Alike(fields[i], g)
        BY <1>1, <1>2, <2>1, <3>2, <3>3, <4>1 DEF Spans
      <4>2. ASSUME NEW h \in K PROVE \E g \in B : Alike(h, g)
        BY <2>1, <3>2, <4>2 DEF Spans
      <4>3. ASSUME NEW i \in 1..k PROVE \E g \in B : Alike(fields[i], g)
        BY <1>1, <1>2, <2>1, <3>2, <3>3, <4>3 DEF Spans
      <4> QED
        BY <4>1, <4>2, <4>3 DEF Spans
    <3> QED
      BY <1>1, <1>11, <2>1, <2>2, <3>1, <3>2, <3>4 DEF AddedUpTo
  <2> QED
    BY <1>11, <2>3, <2>4
<1> QED
  BY <1>1, <1>7, <1>8, <1>9, <1>10, <1>11 DEF AddsField

\* mergeDeclaration() ends in an error exactly if a name is twice in the declaration, or known of
\* another type; else it knows each field once.
LEMMA AddFieldsIs ==
  ASSUME NEW All, NEW known \in Seq(All), NEW fields \in Seq(All)
  PROVE  /\ AddFields(known, fields) \in Accs(All)
         /\ EachOnce(known) => AddedUpTo(AddFields(known, fields), known, fields, Len(fields))
<1>1. PICK n, S, base : n = Len(fields) /\ S = Accs(All) /\ base = [fields |-> known, error |-> ""]
  OBVIOUS
<1>2. n \in Nat /\ DOMAIN fields = 1..n
  BY <1>1, LenProperties
<1>3. PICK step : step = [p \in S \X (1..n) |-> AddField(p[1], fields, p[2])]
  OBVIOUS
<1>4. step \in [S \X (1..n) -> S] /\ \A s \in S, i \in 1..n : step[<<s, i>>] = AddField(s, fields, i)
  <2>1. ASSUME NEW p \in S \X (1..n) PROVE AddField(p[1], fields, p[2]) \in S
    BY <1>1, <1>2, AddFieldIs
  <2> QED
    BY <1>3, <2>1
<1>5. base \in S
  BY <1>1 DEF Accs, Codes
<1>6. PICK g : Rounds(g, S, base, step, n)
  BY <1>2, <1>4, <1>5, RoundsExist
<1>7. g \in [0..n -> S] /\ g[0] = base /\ \A i \in 1..n : g[i] = step[<<g[i - 1], i>>]
  BY <1>6 DEF Rounds
<1>8. \A i \in 1..n : i - 1 \in 0..n /\ i \in 0..n
  BY <1>2
<1>9. \A i \in 1..n : g[i] = AddField(g[i - 1], fields, i)
  BY <1>4, <1>7, <1>8
<1> DEFINE acc[i \in 0..n] == IF i = 0 THEN base ELSE AddField(acc[i - 1], fields, i)
<1>10. AddFields(known, fields) = acc[n]
  BY <1>1, Zenon DEF AddFields
<1>11. g = [i \in 0..n |-> IF i = 0 THEN base ELSE AddField(g[i - 1], fields, i)]
  <2>1. \A i \in 0..n : i # 0 => i \in 1..n
    BY <1>2
  <2> QED
    BY <1>7, <1>9, <2>1
<1>12. acc = [i \in 0..n |-> IF i = 0 THEN base ELSE AddField(acc[i - 1], fields, i)]
  BY <1>11
<1> HIDE DEF acc
<1>13. PICK f : f = acc
  OBVIOUS
<1>14. \A i \in 0..n : f[i] = IF i = 0 THEN base ELSE AddField(f[i - 1], fields, i)
  BY <1>12, <1>13
<1>15. f[0] = base /\ \A i \in 1..n : f[i] = AddField(f[i - 1], fields, i)
  <2>1. 0 \in 0..n /\ \A i \in 1..n : i \in 0..n /\ i # 0
    BY <1>2
  <2> QED
    BY <1>14, <2>1
<1>16. \A i \in 0..n : f[i] = g[i]
  <2>1. \A i \in 1..n : f[i - 1] \in S => f[i] = step[<<f[i - 1], i>>]
    BY <1>4, <1>15
  <2>2. Follows(f, S, base, step, n)
    BY <1>15, <2>1 DEF Follows
  <2> QED
    BY ONLY <1>2, <1>6, <2>2, SameRounds
<1>17. \A i \in 0..n : f[i] \in S
  BY <1>7, <1>16
<1>18. ASSUME EachOnce(known) PROVE AddedUpTo(f[n], known, fields, n)
  <2>1. PICK good : good = {i \in 0..n : AddedUpTo(f[i], known, fields, i)}
    OBVIOUS
  <2>2. 0 \in good
    <3>1. PICK K : K = ToSet(known)
      OBVIOUS
    <3>2. base.error = "" /\ base.fields = known
      BY <1>1
    <3>3. 1..0 = {} /\ \A f1 : Alike(f1, f1)
      BY DEF Alike
    <3>4. ~TwiceIn(fields, 0) /\ ~ClashIn(K, fields, 0) /\ Spans(K, K, fields, 0)
      BY <3>3 DEF TwiceIn, ClashIn, Spans
    <3>5. AddedUpTo(base, known, fields, 0)
      BY <1>18, <3>1, <3>2, <3>4 DEF AddedUpTo
    <3>6. 0 \in 0..n
      BY <1>2
    <3> QED
      BY <1>15, <2>1, <3>5, <3>6
  <2>3. ASSUME NEW i \in 0..n, i \in good, i < n PROVE i + 1 \in good
    <3>1. PICK k, old, new : k = i + 1 /\ old = f[i] /\ new = f[k]
      OBVIOUS
    <3>2. k \in 1..n /\ k \in 0..n /\ k - 1 = i /\ i \in Nat
      BY ONLY <1>2, <2>3, <3>1
    <3>3. old \in Accs(All) /\ new \in Accs(All) /\ AddedUpTo(old, known, fields, i)
      BY <1>1, <1>17, <2>1, <2>3, <3>1, <3>2
    <3>4. new = AddField(old, fields, k)
      BY <1>15, <3>1, <3>2
    <3>5. AddsField(old, fields, k, new)
      BY <1>2, <3>2, <3>3, <3>4, AddFieldIs
    <3>6. i + 1 \in DOMAIN fields /\ AddsField(old, fields, i + 1, new)
      BY <1>2, <3>1, <3>2, <3>5
    <3>7. AddedUpTo(new, known, fields, i + 1)
      BY ONLY known \in Seq(All), fields \in Seq(All), <3>2, <3>3, <3>6, OneFieldAdded
    <3> QED
      BY <2>1, <3>1, <3>2, <3>7
  <2>4. Climbs(good, n)
    BY <2>2, <2>3 DEF Climbs
  <2>5. n \in good
    BY <1>2, <2>4, Upwards
  <2> QED
    BY <2>1, <2>5
<1>19. n \in 0..n
  BY <1>2
<1> QED
  BY <1>1, <1>10, <1>13, <1>17, <1>18, <1>19

-----------------------------------------------------------------------------
(* The merge of declarations.                                              *)

FieldsOffered == UNION {ToSet(m.addFields) : m \in Loadable}
Plugins == {m.plugin : m \in Loadable}
Extended == {m.collection : m \in Loadable}
Entries == [fields : Seq(FieldsOffered), sources : Seq(Plugins)]
Tables == UNION {[C -> Entries] : C \in SUBSET Extended}
Resolved == [error : Codes, entries : Tables]

\* What a collection is given by the first n declarations.
EntryIs(e, ds, n, c) ==
  /\ e \in Entries /\ EachOnce(e.fields)
  /\ \A g \in ToSet(e.fields) :
       \E i \in 1..n : ds[i].collection = c /\ \E f \in ToSet(ds[i].addFields) : Alike(f, g)
  /\ \A i \in 1..n : ds[i].collection = c =>
       \A f \in ToSet(ds[i].addFields) : \E g \in ToSet(e.fields) : Alike(f, g)
  /\ \A p : p \in ToSet(e.sources) <=> \E i \in 1..n : ds[i].collection = c /\ p = ds[i].plugin

TwiceNamed(m) == TwiceIn(m.addFields, Len(m.addFields))
ClashOf(m, d) ==
  m.collection = d.collection /\ \E f \in ToSet(m.addFields), g \in ToSet(d.addFields) : Unlike(f, g)
Bad(ds, n) == (\E i \in 1..n : TwiceNamed(ds[i])) \/ \E i, j \in 1..n : ClashOf(ds[i], ds[j])

MergedUpTo(r, ds, n) ==
  /\ r.error # "" <=> Bad(ds, n)
  /\ r.error = "" => /\ \A c : c \in DOMAIN r.entries <=> \E i \in 1..n : c = ds[i].collection
                     /\ \A c \in DOMAIN r.entries : EntryIs(r.entries[c], ds, n, c)

NoEntry == [fields |-> <<>>, sources |-> <<>>]
IsEntry(e, r, c) == e = IF c \in DOMAIN r.entries THEN r.entries[c] ELSE NoEntry
IsAdded(a, e, d) == a = AddFields(e.fields, d.addFields)

\* What a round of resolve() does, as the cases of its conditions.
MergesOne(r, d, new) ==
  \E e, a : /\ IsEntry(e, r, d.collection) /\ IsAdded(a, e, d)
            /\ \/ r.error # "" /\ new = r
               \/ r.error = "" /\ a.error # "" /\ new.error # ""
               \/ /\ r.error = "" /\ a.error = "" /\ new.error = ""
                  /\ DOMAIN new.entries = DOMAIN r.entries \cup {d.collection}
                  /\ new.entries[d.collection].fields = a.fields
                  /\ ToSet(new.entries[d.collection].sources) = ToSet(e.sources) \cup {d.plugin}
                  /\ \A c \in DOMAIN r.entries : c # d.collection => new.entries[c] = r.entries[c]

LEMMA LoadableIs ==
  \A m \in Loadable :
    /\ m.addFields \in Seq(FieldsOffered) /\ m.plugin \in Plugins /\ m.collection \in Extended
    /\ ToSet(m.addFields) = {m.addFields[i] : i \in 1..Len(m.addFields)} /\ Len(m.addFields) \in Nat
<1> SUFFICES ASSUME NEW m \in Loadable
             PROVE  /\ m.addFields \in Seq(FieldsOffered) /\ m.plugin \in Plugins /\ m.collection \in Extended
                    /\ ToSet(m.addFields) = {m.addFields[i] : i \in 1..Len(m.addFields)} /\ Len(m.addFields) \in Nat
  OBVIOUS
<1>1. PICK s, T : s = m.addFields /\ T = ToSet(s)
  OBVIOUS
<1>2. s \in Seq(T)
  BY <1>1, ManifestsAssumption
<1>3. T \subseteq FieldsOffered
  BY <1>1 DEF FieldsOffered
<1>4. Len(s) \in Nat /\ DOMAIN s = 1..Len(s) /\ \A i \in 1..Len(s) : s[i] \in T
  BY <1>2, LenProperties
<1>5. s \in Seq(FieldsOffered)
  <2>1. s \in [1..Len(s) -> T]
    BY <1>2
  <2>2. s \in [1..Len(s) -> FieldsOffered]
    BY <1>3, <2>1
  <2> QED
    BY <1>4, <2>2
<1>6. T = {s[i] : i \in 1..Len(s)}
  BY <1>1, <1>4, ToSetIs
<1> QED
  BY <1>1, <1>4, <1>5, <1>6 DEF Plugins, Extended

LEMMA EntryThere ==
  ASSUME NEW r \in Resolved, NEW c, NEW e, IsEntry(e, r, c)
  PROVE  e \in Entries /\ e.fields \in Seq(FieldsOffered) /\ e.sources \in Seq(Plugins)
<1>1. PICK t : t = r.entries
  OBVIOUS
<1>2. t \in Tables
  BY <1>1 DEF Resolved
<1>3. PICK C \in SUBSET Extended : t \in [C -> Entries]
  BY <1>2 DEF Tables
<1>4. CASE c \in DOMAIN t
  BY <1>1, <1>3, <1>4 DEF IsEntry, Entries
<1>5. CASE c \notin DOMAIN t
  BY <1>1, <1>5 DEF IsEntry, Entries, NoEntry
<1> QED
  BY <1>4, <1>5

LEMMA MergeIs ==
  ASSUME NEW r \in Resolved, NEW d \in Loadable, NEW new, new = MergeDeclaration(r, d)
  PROVE  new \in Resolved /\ MergesOne(r, d, new)
<1>1. PICK c, p, t : c = d.collection /\ p = d.plugin /\ t = r.entries
  OBVIOUS
<1>2. PICK e : e = IF c \in DOMAIN t THEN t[c] ELSE NoEntry
  OBVIOUS
<1>3. IsEntry(e, r, d.collection) /\ IsEntry(e, r, c)
  BY <1>1, <1>2 DEF IsEntry
<1>4. /\ e \in Entries /\ e.fields \in Seq(FieldsOffered) /\ e.sources \in Seq(Plugins)
      /\ c \in Extended /\ p \in Plugins /\ d.addFields \in Seq(FieldsOffered)
  BY <1>1, <1>3, EntryThere, LoadableIs
<1>5. PICK a : a = AddFields(e.fields, d.addFields)
  OBVIOUS
<1>6. IsAdded(a, e, d)
  BY <1>5 DEF IsAdded
<1>7. a \in Accs(FieldsOffered)
  BY <1>4, <1>5, AddFieldsIs
<1>8. a.fields \in Seq(FieldsOffered) /\ a.error \in Codes
  BY <1>7 DEF Accs
<1>9. PICK sources : sources = IF p \in ToSet(e.sources) THEN e.sources ELSE Append(e.sources, p)
  OBVIOUS
<1>10. sources \in Seq(Plugins) /\ ToSet(sources) = ToSet(e.sources) \cup {p}
  <2>1. CASE p \in ToSet(e.sources)
    BY <1>4, <1>9, <2>1
  <2>2. CASE p \notin ToSet(e.sources)
    <3>1. Longer(sources, e.sources, p)
      BY <1>9, <2>2 DEF Longer
    <3>2. PICK old : old = e.sources
      OBVIOUS
    <3>3. old \in Seq(Plugins) /\ Longer(sources, old, p)
      BY <1>4, <3>1, <3>2
    <3>4. sources \in Seq(Plugins) /\ ToSet(sources) = ToSet(old) \cup {p}
      BY ONLY <1>4, <3>3, OneMoreIn
    <3> QED
      BY <3>2, <3>4
  <2> QED
    BY <2>1, <2>2
<1>11. PICK one, made : /\ one = [fields |-> a.fields, sources |-> sources]
                         /\ made = [k \in DOMAIN t \cup {c} |-> IF k = c THEN one ELSE t[k]]
  OBVIOUS
<1>12. new = IF r.error # "" THEN r
             ELSE IF a.error # "" THEN [error |-> a.error, entries |-> <<>>]
             ELSE [error |-> "", entries |-> made]
  BY <1>1, <1>2, <1>5, <1>9, <1>11 DEF MergeDeclaration, NoEntry
<1>13. PICK C \in SUBSET Extended : t \in [C -> Entries]
  <2>1. t \in Tables
    BY <1>1 DEF Resolved
  <2> QED
    BY <2>1 DEF Tables
<1>14. one \in Entries /\ one.fields = a.fields /\ one.sources = sources
  BY <1>8, <1>10, <1>11 DEF Entries
<1>15. made \in Tables
  <2>1. C \cup {c} \in SUBSET Extended /\ DOMAIN t = C
    BY <1>4, <1>13
  <2>2. made \in [C \cup {c} -> Entries]
    BY <1>11, <1>13, <1>14, <2>1
  <2> QED
    BY <2>1, <2>2 DEF Tables
<1>16. <<>> \in Tables
  <2>1. <<>> \in [{} -> Entries] /\ {} \in SUBSET Extended
    OBVIOUS
  <2> QED
    BY <2>1 DEF Tables
<1>121. PICK failed, merges : failed = [error |-> a.error, entries |-> <<>>] /\ merges = [error |-> "", entries |-> made]
  OBVIOUS
<1>122. /\ r.error # "" => new = r
        /\ r.error = "" /\ a.error # "" => new = failed
        /\ r.error = "" /\ a.error = "" => new = merges
  BY ONLY <1>12, <1>121
<1>123. failed.error = a.error /\ merges.error = "" /\ merges.entries = made
  BY <1>121
<1>17. new \in Resolved
  <2>1. CASE r.error # ""
    BY <1>122, <2>1
  <2>2. CASE r.error = "" /\ a.error # ""
    <3>1. failed \in Resolved
      BY <1>8, <1>16, <1>121 DEF Resolved
    <3> QED
      BY ONLY <1>122, <2>2, <3>1
  <2>3. CASE r.error = "" /\ a.error = ""
    <3>1. merges \in Resolved
      BY <1>15, <1>121 DEF Resolved, Codes
    <3> QED
      BY ONLY <1>122, <2>3, <3>1
  <2> QED
    BY <2>1, <2>2, <2>3
<1>18. \/ r.error # "" /\ new = r
       \/ r.error = "" /\ a.error # "" /\ new.error # ""
       \/ /\ r.error = "" /\ a.error = "" /\ new.error = ""
          /\ DOMAIN new.entries = DOMAIN t \cup {c}
          /\ new.entries[c].fields = a.fields
          /\ ToSet(new.entries[c].sources) = ToSet(e.sources) \cup {p}
          /\ \A k \in DOMAIN t : k # c => new.entries[k] = t[k]
  <2>1. CASE r.error # ""
    BY <1>122, <2>1
  <2>2. CASE r.error = "" /\ a.error # ""
    BY ONLY <1>122, <1>123, <2>2
  <2>3. CASE r.error = "" /\ a.error = ""
    <3>1. new.error = "" /\ new.entries = made
      BY ONLY <1>122, <1>123, <2>3
    <3>2. /\ DOMAIN made = DOMAIN t \cup {c} /\ made[c] = one
          /\ \A k \in DOMAIN t : k # c => made[k] = t[k]
      BY <1>11
    <3> QED
      BY <1>10, <1>14, <2>3, <3>1, <3>2
  <2> QED
    BY <2>1, <2>2, <2>3
<1> QED
  BY <1>1, <1>3, <1>6, <1>17, <1>18 DEF MergesOne

LEMMA ClashTurns == \A m, d : ClashOf(m, d) <=> ClashOf(d, m)
  BY DEF ClashOf, Unlike

\* A declaration that gives a field two types names it twice.
LEMMA ClashInOne ==
  ASSUME NEW d \in Loadable, ClashOf(d, d)
  PROVE  TwiceNamed(d)
<1>1. PICK s, n : s = d.addFields /\ n = Len(s)
  OBVIOUS
<1>2. PICK f \in ToSet(s), g \in ToSet(s) : Unlike(f, g)
  BY <1>1 DEF ClashOf
<1>3. n \in Nat /\ ToSet(s) = {s[i] : i \in 1..n}
  BY <1>1, LoadableIs
<1>4. PICK i \in 1..n, j \in 1..n : s[i] = f /\ s[j] = g
  BY <1>3
<1>5. s[i].name = s[j].name /\ i # j
  BY <1>2, <1>4 DEF Unlike
<1>6. i < j \/ j < i
  BY <1>5
<1>7. TwiceIn(s, n)
  BY <1>5, <1>6 DEF TwiceIn
<1> QED
  BY <1>1, <1>7 DEF TwiceNamed

LEMMA OneMerged ==
  ASSUME NEW ds \in Seq(Loadable), NEW n \in Nat, n + 1 \in DOMAIN ds,
         NEW r \in Resolved, MergedUpTo(r, ds, n),
         NEW new \in Resolved, MergesOne(r, ds[n + 1], new)
  PROVE  MergedUpTo(new, ds, n + 1)
<1>1. PICK k, d, c : k = n + 1 /\ d = ds[k] /\ c = d.collection
  OBVIOUS
<1>2. /\ k \in 1..k /\ \A i \in 1..k : i = k \/ i \in 1..n
      /\ \A i \in 1..n : i \in 1..k
  BY <1>1
<1>3. d \in Loadable /\ \A i \in 1..k : ds[i] \in Loadable
  <2>1. DOMAIN ds = 1..Len(ds) /\ \A i \in 1..Len(ds) : ds[i] \in Loadable
    BY LenProperties
  <2>2. k \in 1..Len(ds)
    BY <1>1, <2>1
  <2>3. \A i \in 1..k : i \in 1..Len(ds)
    BY ONLY <2>2
  <2> QED
    BY <1>1, <2>1, <2>2, <2>3
<1>4. PICK e, a : /\ IsEntry(e, r, c) /\ IsAdded(a, e, d)
            /\ \/ r.error # "" /\ new = r
               \/ r.error = "" /\ a.error # "" /\ new.error # ""
               \/ /\ r.error = "" /\ a.error = "" /\ new.error = ""
                  /\ DOMAIN new.entries = DOMAIN r.entries \cup {c}
                  /\ new.entries[c].fields = a.fields
                  /\ ToSet(new.entries[c].sources) = ToSet(e.sources) \cup {d.plugin}
                  /\ \A b \in DOMAIN r.entries : b # c => new.entries[b] = r.entries[b]
  BY <1>1 DEF MergesOne
<1>5. /\ r.error # "" <=> Bad(ds, n)
      /\ r.error = "" => /\ \A b : b \in DOMAIN r.entries <=> \E i \in 1..n : b = ds[i].collection
                         /\ \A b \in DOMAIN r.entries : EntryIs(r.entries[b], ds, n, b)
  BY DEF MergedUpTo
<1>6. Bad(ds, n) => Bad(ds, k)
  BY <1>2 DEF Bad
<1>7. CASE r.error # ""
  <2>1. new.error # "" /\ Bad(ds, k)
    BY <1>4, <1>5, <1>6, <1>7
  <2> QED
    BY <1>1, <2>1 DEF MergedUpTo
<1>8. CASE r.error = ""
  <2>1. PICK known, fields, m : known = e.fields /\ fields = d.addFields /\ m = Len(fields)
    OBVIOUS
  <2>2. /\ e \in Entries /\ known \in Seq(FieldsOffered) /\ fields \in Seq(FieldsOffered) /\ m \in Nat
        /\ ToSet(fields) = {fields[i] : i \in 1..m}
    BY <1>3, <1>4, <2>1, EntryThere, LoadableIs
  <2>3. EntryIs(e, ds, n, c)
    <3>1. CASE c \in DOMAIN r.entries
      BY <1>4, <1>5, <1>8, <3>1 DEF IsEntry
    <3>2. CASE c \notin DOMAIN r.entries
      <4>1. e = NoEntry /\ \A i \in 1..n : c # ds[i].collection
        BY <1>4, <1>5, <1>8, <3>2 DEF IsEntry
      <4>2. e.fields = <<>> /\ e.sources = <<>> /\ ToSet(<<>>) = {} /\ DOMAIN <<>> = {}
        BY <4>1, SetOfOne DEF NoEntry
      <4> QED
        BY <2>2, <4>1, <4>2 DEF EntryIs, EachOnce
    <3> QED
      BY <3>1, <3>2
  <2>4. PICK K : K = ToSet(known)
    OBVIOUS
  <2>5. /\ EachOnce(known)
        /\ \A g \in K : \E i \in 1..n : ds[i].collection = c /\ \E f \in ToSet(ds[i].addFields) : Alike(f, g)
        /\ \A i \in 1..n : ds[i].collection = c =>
             \A f \in ToSet(ds[i].addFields) : \E g \in K : Alike(f, g)
        /\ \A p : p \in ToSet(e.sources) <=> \E i \in 1..n : ds[i].collection = c /\ p = ds[i].plugin
    BY <2>1, <2>3, <2>4 DEF EntryIs
  <2>6. a = AddFields(known, fields)
    BY <1>4, <2>1 DEF IsAdded
  <2>7. a \in Accs(FieldsOffered) /\ AddedUpTo(a, known, fields, m)
    BY <2>1, <2>2, <2>5, <2>6, AddFieldsIs
  <2>8. /\ a.error # "" <=> TwiceIn(fields, m) \/ ClashIn(K, fields, m)
        /\ a.error = "" => EachOnce(a.fields) /\ Spans(ToSet(a.fields), K, fields, m)
    BY <2>4, <2>7 DEF AddedUpTo
  <2>9. TwiceIn(fields, m) <=> TwiceNamed(d)
    BY <2>1 DEF TwiceNamed
  <2>10. ClashIn(K, fields, m) <=> \E i \in 1..n : ClashOf(ds[i], d)
    <3>1. ASSUME ClashIn(K, fields, m) PROVE \E i \in 1..n : ClashOf(ds[i], d)
      <4>1. PICK g \in K, j \in 1..m : Unlike(g, fields[j])
        BY <3>1 DEF ClashIn
      <4>20. PICK i \in 1..n : ds[i].collection = c /\ \E f \in ToSet(ds[i].addFields) : Alike(f, g)
        BY <2>5
      <4>2. PICK f \in ToSet(ds[i].addFields) : ds[i].collection = c /\ Alike(f, g)
        BY <4>20
      <4>3. fields[j] \in ToSet(fields) /\ Unlike(f, fields[j])
        BY <2>2, <4>1, <4>2 DEF Alike, Unlike
      <4>4. ClashOf(ds[i], d)
        BY <1>1, <2>1, <4>2, <4>3 DEF ClashOf
      <4> QED
        BY <4>4
    <3>2. ASSUME NEW i \in 1..n, ClashOf(ds[i], d) PROVE ClashIn(K, fields, m)
      <4>1. ds[i].collection = c
        BY <1>1, <3>2 DEF ClashOf
      <4>2. PICK f \in ToSet(ds[i].addFields), h \in ToSet(fields) : Unlike(f, h)
        BY <2>1, <3>2 DEF ClashOf
      <4>3. PICK g \in K : Alike(f, g)
        BY <2>5, <4>1
      <4>4. PICK j \in 1..m : h = fields[j]
        BY <2>2
      <4>5. Unlike(g, fields[j])
        BY <4>2, <4>3, <4>4 DEF Alike, Unlike
      <4> QED
        BY <4>5 DEF ClashIn
    <3> QED
      BY <3>1, <3>2
  <2>11. ~Bad(ds, n)
    BY <1>5, <1>8
  <2>12. Bad(ds, k) <=> TwiceNamed(d) \/ \E i \in 1..n : ClashOf(ds[i], d)
    <3>1. (\E i \in 1..k : TwiceNamed(ds[i])) <=> TwiceNamed(d)
      BY <1>1, <1>2, <2>11 DEF Bad
    <3>2. (\E i \in 1..n : ClashOf(ds[i], d)) => \E i, j \in 1..k : ClashOf(ds[i], ds[j])
      BY <1>1, <1>2
    <3>3. ASSUME NEW i \in 1..k, NEW j \in 1..k, ClashOf(ds[i], ds[j])
          PROVE  TwiceNamed(d) \/ \E h \in 1..n : ClashOf(ds[h], d)
      <4>1. CASE i \in 1..n /\ j \in 1..n
        BY <2>11, <3>3, <4>1 DEF Bad
      <4>2. CASE i \in 1..n /\ j = k
        BY <1>1, <3>3, <4>2
      <4>3. CASE i = k /\ j \in 1..n
        <5>1. ClashOf(ds[j], d)
          BY <1>1, <3>3, <4>3, ClashTurns
        <5> QED
          BY <4>3, <5>1
      <4>4. CASE i = k /\ j = k
        BY <1>1, <1>3, <3>3, <4>4, ClashInOne
      <4> QED
        BY <1>2, <4>1, <4>2, <4>3, <4>4
    <3> QED
      BY <3>1, <3>2, <3>3 DEF Bad
  <2>13. a.error # "" <=> Bad(ds, k)
    BY <2>8, <2>9, <2>10, <2>12
  <2>14. CASE a.error # ""
    <3>1. new.error # ""
      BY <1>4, <1>8, <2>14
    <3> QED
      BY <1>1, <2>13, <2>14, <3>1 DEF MergedUpTo
  <2>15. CASE a.error = ""
    <3>1. PICK t, u : t = r.entries /\ u = new.entries
      OBVIOUS
    <3>2. /\ new.error = "" /\ DOMAIN u = DOMAIN t \cup {c} /\ u[c].fields = a.fields
          /\ ToSet(u[c].sources) = ToSet(e.sources) \cup {d.plugin}
          /\ \A b \in DOMAIN t : b # c => u[b] = t[b]
      BY <1>4, <1>8, <2>15, <3>1
    <3>3. /\ \A b : b \in DOMAIN t <=> \E i \in 1..n : b = ds[i].collection
          /\ \A b \in DOMAIN t : EntryIs(t[b], ds, n, b)
      BY <1>5, <1>8, <3>1
    <3>4. \A b : b \in DOMAIN u <=> \E i \in 1..k : b = ds[i].collection
      BY ONLY <1>1, <1>2, <3>2, <3>3
    <3>5. ASSUME NEW b \in DOMAIN u, b # c PROVE EntryIs(u[b], ds, k, b)
      <4>1. u[b] = t[b] /\ b \in DOMAIN t
        BY <3>2, <3>5
      <4>2. EntryIs(u[b], ds, n, b)
        BY <3>3, <4>1
      <4>3. \A i \in 1..k : ds[i].collection = b => i \in 1..n
        BY <1>1, <1>2, <3>5
      <4>4. PICK o : o = u[b]
        OBVIOUS
      <4>5. EntryIs(o, ds, k, b)
        BY <1>2, <4>2, <4>3, <4>4 DEF EntryIs
      <4> QED
        BY <4>4, <4>5
    <3>6. PICK o, F : o = u[c] /\ F = ToSet(a.fields)
      OBVIOUS
    <3>7. o \in Entries
      <4>1. u \in Tables
        BY <3>1 DEF Resolved
      <4>2. PICK C \in SUBSET Extended : u \in [C -> Entries]
        BY <4>1 DEF Tables
      <4>3. c \in DOMAIN u
        BY <3>2
      <4> QED
        BY <3>6, <4>2, <4>3
    <3>8. /\ EachOnce(a.fields)
          /\ \A g \in F : (\E f \in K : Alike(f, g)) \/ \E i \in 1..m : Alike(fields[i], g)
          /\ \A f \in K : \E g \in F : Alike(f, g)
          /\ \A i \in 1..m : \E g \in F : Alike(fields[i], g)
      BY <2>8, <2>15, <3>6 DEF Spans
    <3>9. o.fields = a.fields /\ ToSet(o.fields) = F /\ ToSet(o.sources) = ToSet(e.sources) \cup {d.plugin}
      BY <3>2, <3>6
    <3>10. ASSUME NEW g \in F
           PROVE  \E i \in 1..k : ds[i].collection = c /\ \E f \in ToSet(ds[i].addFields) : Alike(f, g)
      <4>1. CASE \E f \in K : Alike(f, g)
        <5>1. PICK f \in K : Alike(f, g)
          BY <4>1
        <5>20. PICK i \in 1..n : ds[i].collection = c /\ \E h \in ToSet(ds[i].addFields) : Alike(h, f)
          BY <2>5
        <5>2. PICK h \in ToSet(ds[i].addFields) : ds[i].collection = c /\ Alike(h, f)
          BY <5>20
        <5>3. Alike(h, g)
          BY <5>1, <5>2 DEF Alike
        <5> QED
          BY <1>2, <5>2, <5>3
      <4>2. CASE \E i \in 1..m : Alike(fields[i], g)
        <5>1. PICK i \in 1..m : Alike(fields[i], g)
          BY <4>2
        <5>2. fields[i] \in ToSet(ds[k].addFields) /\ ds[k].collection = c
          BY <1>1, <2>1, <2>2
        <5> QED
          BY <1>2, <5>1, <5>2
      <4> QED
        BY <3>8, <4>1, <4>2
    <3>11. ASSUME NEW i \in 1..k, ds[i].collection = c, NEW f \in ToSet(ds[i].addFields)
           PROVE  \E g \in F : Alike(f, g)
      <4>1. CASE i \in 1..n
        <5>1. PICK h \in K : Alike(f, h)
          BY <2>5, <3>11, <4>1
        <5>2. PICK g \in F : Alike(h, g)
          BY <3>8
        <5>3. Alike(f, g)
          BY <5>1, <5>2 DEF Alike
        <5> QED
          BY <5>3
      <4>2. CASE i = k
        <5>1. f \in ToSet(fields)
          BY <1>1, <2>1, <3>11, <4>2
        <5>2. PICK j \in 1..m : f = fields[j]
          BY <2>2, <5>1
        <5> QED
          BY <3>8, <5>2
      <4> QED
        BY <1>2, <4>1, <4>2
    <3>12. \A p : p \in ToSet(o.sources) <=> \E i \in 1..k : ds[i].collection = c /\ p = ds[i].plugin
      BY ONLY <1>1, <1>2, <2>5, <3>9
    <3>13. EntryIs(o, ds, k, c)
      BY <3>7, <3>8, <3>9, <3>10, <3>11, <3>12 DEF EntryIs
    <3>14. \A b \in DOMAIN u : EntryIs(u[b], ds, k, b)
      BY <3>5, <3>6, <3>13
    <3> QED
      BY <1>1, <2>13, <2>15, <3>1, <3>2, <3>4, <3>14 DEF MergedUpTo
  <2> QED
    BY <2>14, <2>15
<1> QED
  BY <1>7, <1>8

\* resolve() ends in an error exactly if a declaration names a field twice or two disagree on
\* the type of one; else each collection has what is declared for it.
LEMMA MergedExtends ==
  ASSUME NEW ds \in Seq(Loadable)
  PROVE  MergedUpTo(ResolveExtends(ds), ds, Len(ds))
<1>1. PICK n, S, base : n = Len(ds) /\ S = Resolved /\ base = NothingMerged
  OBVIOUS
<1>2. n \in Nat /\ DOMAIN ds = 1..n /\ \A i \in 1..n : ds[i] \in Loadable
  BY <1>1, LenProperties
<1>3. PICK step : step = [p \in S \X (1..n) |-> MergeDeclaration(p[1], ds[p[2]])]
  OBVIOUS
<1>4. step \in [S \X (1..n) -> S] /\ \A s \in S, i \in 1..n : step[<<s, i>>] = MergeDeclaration(s, ds[i])
  <2>1. ASSUME NEW p \in S \X (1..n) PROVE MergeDeclaration(p[1], ds[p[2]]) \in S
    <3>1. PICK r, d : r = p[1] /\ d = ds[p[2]]
      OBVIOUS
    <3>2. r \in Resolved /\ d \in Loadable
      BY <1>1, <1>2, <3>1
    <3>3. PICK new : new = MergeDeclaration(r, d)
      OBVIOUS
    <3>4. new \in Resolved
      BY ONLY <3>2, <3>3, MergeIs
    <3> QED
      BY <1>1, <3>1, <3>3, <3>4
  <2> QED
    BY <1>3, <2>1
<1>5. base \in S /\ base.error = "" /\ base.entries = <<>>
  <2>1. <<>> \in [{} -> Entries] /\ {} \in SUBSET Extended
    OBVIOUS
  <2>2. <<>> \in Tables
    BY <2>1 DEF Tables
  <2>3. base = [error |-> "", entries |-> <<>>]
    BY <1>1 DEF NothingMerged
  <2>4. base \in Resolved
    BY ONLY <2>2, <2>3 DEF Resolved, Codes
  <2>5. base.error = "" /\ base.entries = <<>>
    BY ONLY <2>3
  <2>6. S = Resolved
    BY <1>1
  <2> QED
    BY ONLY <2>4, <2>5, <2>6
<1>6. PICK g : Rounds(g, S, base, step, n)
  BY ONLY <1>2, <1>4, <1>5, RoundsExist
<1>7. g \in [0..n -> S] /\ g[0] = base /\ \A i \in 1..n : g[i] = step[<<g[i - 1], i>>]
  BY <1>6 DEF Rounds
<1>8. \A i \in 1..n : i - 1 \in 0..n /\ i \in 0..n
  BY <1>2
<1>9. \A i \in 1..n : g[i] = MergeDeclaration(g[i - 1], ds[i])
  BY <1>4, <1>7, <1>8
<1> DEFINE rounds[i \in 0..n] == IF i = 0 THEN NothingMerged ELSE MergeDeclaration(rounds[i - 1], ds[i])
<1>10. ResolveExtends(ds) = rounds[n]
  BY <1>1, Zenon DEF ResolveExtends
<1>11. g = [i \in 0..n |-> IF i = 0 THEN NothingMerged ELSE MergeDeclaration(g[i - 1], ds[i])]
  <2>1. \A i \in 0..n : i # 0 => i \in 1..n
    BY <1>2
  <2> QED
    BY <1>1, <1>7, <1>9, <2>1
<1>12. rounds = [i \in 0..n |-> IF i = 0 THEN NothingMerged ELSE MergeDeclaration(rounds[i - 1], ds[i])]
  BY <1>11
<1> HIDE DEF rounds
<1>13. PICK f : f = rounds
  OBVIOUS
<1>14. \A i \in 0..n : f[i] = IF i = 0 THEN NothingMerged ELSE MergeDeclaration(f[i - 1], ds[i])
  BY <1>12, <1>13
<1>15. f[0] = base /\ \A i \in 1..n : f[i] = MergeDeclaration(f[i - 1], ds[i])
  <2>1. 0 \in 0..n /\ \A i \in 1..n : i \in 0..n /\ i # 0
    BY <1>2
  <2> QED
    BY <1>1, <1>14, <2>1
<1>16. \A i \in 0..n : f[i] = g[i]
  <2>1. \A i \in 1..n : f[i - 1] \in S => f[i] = step[<<f[i - 1], i>>]
    BY <1>4, <1>15
  <2>2. Follows(f, S, base, step, n)
    BY <1>15, <2>1 DEF Follows
  <2> QED
    BY ONLY <1>2, <1>6, <2>2, SameRounds
<1>17. \A i \in 0..n : f[i] \in S
  BY <1>7, <1>16
<1>18. PICK good : good = {i \in 0..n : MergedUpTo(f[i], ds, i)}
  OBVIOUS
<1>19. 0 \in good
  <2>1. 1..0 = {} /\ DOMAIN <<>> = {}
    OBVIOUS
  <2>2. ~Bad(ds, 0)
    BY <2>1 DEF Bad
  <2>3. MergedUpTo(base, ds, 0)
    BY <1>5, <2>1, <2>2 DEF MergedUpTo
  <2>4. 0 \in 0..n
    BY <1>2
  <2> QED
    BY <1>15, <1>18, <2>3, <2>4
<1>20. ASSUME NEW i \in 0..n, i \in good, i < n PROVE i + 1 \in good
  <2>1. PICK k, old, new, d : k = i + 1 /\ old = f[i] /\ new = f[k] /\ d = ds[k]
    OBVIOUS
  <2>2. k \in 1..n /\ k \in 0..n /\ k - 1 = i /\ i \in Nat
    BY ONLY <1>2, <1>20, <2>1
  <2>3. old \in Resolved /\ new \in Resolved /\ MergedUpTo(old, ds, i) /\ d \in Loadable
    BY <1>1, <1>2, <1>17, <1>18, <1>20, <2>1, <2>2
  <2>4. new = MergeDeclaration(old, d)
    BY <1>15, <2>1, <2>2
  <2>5. MergesOne(old, d, new)
    BY ONLY <2>3, <2>4, MergeIs
  <2>6. i + 1 \in DOMAIN ds /\ MergesOne(old, ds[i + 1], new)
    BY <1>2, <2>1, <2>2, <2>5
  <2>7. MergedUpTo(new, ds, i + 1)
    BY ONLY ds \in Seq(Loadable), <2>2, <2>3, <2>6, OneMerged
  <2> QED
    BY <1>18, <2>1, <2>2, <2>7
<1>21. Climbs(good, n)
  BY <1>19, <1>20 DEF Climbs
<1>22. n \in good
  BY <1>2, <1>21, Upwards
<1> QED
  BY <1>1, <1>10, <1>13, <1>18, <1>22

\* There are as many names as fields exactly if each name is there once.
LEMMA NamesCounted ==
  ASSUME NEW s \in Seq(FieldsOffered), NEW names, names = {f.name : f \in ToSet(s)}
  PROVE  /\ Cardinality(names) = Len(s) <=> EachOnce(s)
         /\ Cardinality(names) < Len(s) <=> TwiceIn(s, Len(s))
<1>1. PICK n : n = Len(s)
  OBVIOUS
<1>2. n \in Nat /\ DOMAIN s = 1..n
  BY <1>1, LenProperties
<1>3. PICK name : name = [i \in 1..n |-> s[i].name]
  OBVIOUS
<1>4. names = {name[i] : i \in 1..n} /\ \A i \in 1..n : name[i] = s[i].name
  BY <1>2, <1>3, ToSetIs
<1>5. name \in Surjection(1..n, names)
  <2>1. name \in [1..n -> names]
    BY <1>3, <1>4
  <2> QED
    BY <1>4, <2>1 DEF Surjection
<1>6. IsFiniteSet(1..n) /\ Cardinality(1..n) = n
  <2>1. 1 \in Int /\ n \in Int /\ (1 > n <=> n = 0) /\ n - 1 + 1 = n
    BY <1>2
  <2>2. IsFiniteSet(1..n) /\ Cardinality(1..n) = IF 1 > n THEN 0 ELSE n - 1 + 1
    BY ONLY <2>1, FS_Interval, Zenon
  <2> QED
    BY ONLY <1>2, <2>1, <2>2
<1>7. /\ Cardinality(names) \in Nat /\ Cardinality(names) <= n
      /\ Cardinality(names) = n <=> name \in Injection(1..n, names)
  <2>1. /\ IsFiniteSet(names) /\ Cardinality(names) <= Cardinality(1..n)
        /\ Cardinality(names) = Cardinality(1..n) <=> name \in Injection(1..n, names)
    BY ONLY <1>5, <1>6, FS_Surjection, Zenon
  <2>2. Cardinality(names) \in Nat
    BY ONLY <2>1, FS_CardinalityType, Zenon
  <2> QED
    BY ONLY <1>6, <2>1, <2>2
<1>8. name \in Injection(1..n, names) <=> \A i, j \in 1..n : name[i] = name[j] => i = j
  <2>1. name \in [1..n -> names]
    BY <1>5 DEF Surjection
  <2> QED
    BY <2>1 DEF Injection, IsInjective
<1>9. EachOnce(s) <=> \A i, j \in 1..n : name[i] = name[j] => i = j
  BY <1>2, <1>4 DEF EachOnce
<1>10. TwiceIn(s, n) <=> ~EachOnce(s)
  <2>1. \A i, j \in 1..n : i # j => i < j \/ j < i
    BY <1>2
  <2>2. \A i, j \in 1..n : j < i => i # j
    BY <1>2
  <2> QED
    BY ONLY <1>2, <2>1, <2>2 DEF TwiceIn, EachOnce
<1>11. PICK many : many = Cardinality(names)
  OBVIOUS
<1>12. many \in Nat /\ many <= n /\ (many < n <=> many # n)
  BY ONLY <1>2, <1>7, <1>11
<1> QED
  BY ONLY <1>1, <1>7, <1>8, <1>9, <1>10, <1>11, <1>12

\* What is loaded, merged and sorted.
ManifestsAre(ds, r, vs) ==
  /\ ds \in Seq(Loadable) /\ MergedUpTo(r, ds, Len(ds))
  /\ \E given : /\ Len(given) = Len(ds) /\ \A i \in 1..Len(ds) : given[i] = ds[i].version
                /\ SortedUpTo(vs, given, Len(ds), {m.version : m \in Loadable})

LEMMA Releases == \A m \in Loadable : IsRelease(m.version)
  BY ManifestsAssumption DEF IsRelease, Identifiers

\* What the two properties say, of what is loaded, merged and sorted.
MergedIsOf(ds, r) ==
  LET Of(c) == {i \in DOMAIN ds : ds[i].collection = c}
      Given(c) == UNION {ToSet(ds[i].addFields) : i \in Of(c)}
      Twice(i) == Cardinality({f.name : f \in ToSet(ds[i].addFields)}) < Len(ds[i].addFields)
      Collections == {ds[i].collection : i \in DOMAIN ds}
      Clash == \E c \in Collections : \E f, g \in Given(c) : f.name = g.name /\ f.type # g.type
  IN IF (\E i \in DOMAIN ds : Twice(i)) \/ Clash THEN r.error # ""
     ELSE /\ r.error = "" /\ DOMAIN r.entries = Collections
          /\ \A c \in Collections :
               LET fields == r.entries[c].fields
               IN /\ {<<f.name, f.type>> : f \in ToSet(fields)} = {<<f.name, f.type>> : f \in Given(c)}
                  /\ Cardinality({f.name : f \in ToSet(fields)}) = Len(fields)
                  /\ ToSet(r.entries[c].sources) = {ds[i].plugin : i \in Of(c)}
SortIsOf(ds, vs) ==
  \E place \in [DOMAIN ds -> DOMAIN ds] :
    /\ DOMAIN vs = DOMAIN ds
    /\ \A i \in DOMAIN ds : vs[place[i]] = ds[i].version
    /\ \A i, j \in DOMAIN ds :
         /\ place[i] = place[j] => i = j
         /\ place[i] < place[j] => ~Precedes(ds[j].version, ds[i].version)
         /\ i < j /\ place[j] < place[i] => Precedes(ds[j].version, ds[i].version)

LEMMA AsStated ==
  /\ OrderDoesNotMatter <=> MergedIsOf(declared, merged)
  /\ SortedBySemver <=> SortIsOf(declared, ordered)
<1>1. OrderDoesNotMatter <=> MergedIsOf(declared, merged)
  BY Zenon DEF OrderDoesNotMatter, MergedIsOf
<1>2. SortedBySemver <=> SortIsOf(declared, ordered)
  BY Zenon DEF SortedBySemver, SortIsOf
<1> QED
  BY <1>1, <1>2

LEMMA ManifestsAreAgreed ==
  ASSUME ManifestsAre(declared, merged, ordered)
  PROVE  ExtensionsAgree
<1>1. PICK ds, n, r : ds = declared /\ n = Len(ds) /\ r = merged
  OBVIOUS
<1>2. /\ ds \in Seq(Loadable) /\ MergedUpTo(r, ds, n) /\ n \in Nat
      /\ DOMAIN ds = 1..n /\ \A i \in 1..n : ds[i] \in Loadable
  BY <1>1, LenProperties DEF ManifestsAre
<1> DEFINE Of(c) == {i \in DOMAIN ds : ds[i].collection = c}
           Given(c) == UNION {ToSet(ds[i].addFields) : i \in Of(c)}
           Twice(i) == Cardinality({f.name : f \in ToSet(ds[i].addFields)}) < Len(ds[i].addFields)
           Collections == {ds[i].collection : i \in DOMAIN ds}
           Clash == \E c \in Collections : \E f, g \in Given(c) : f.name = g.name /\ f.type # g.type
           KeepsAll(c) ==
             LET fields == r.entries[c].fields
             IN /\ {<<f.name, f.type>> : f \in ToSet(fields)} = {<<f.name, f.type>> : f \in Given(c)}
                /\ Cardinality({f.name : f \in ToSet(fields)}) = Len(fields)
                /\ ToSet(r.entries[c].sources) = {ds[i].plugin : i \in Of(c)}
<1>3. MergedIsOf(ds, r) <=>
        IF (\E i \in DOMAIN ds : Twice(i)) \/ Clash THEN r.error # ""
        ELSE r.error = "" /\ DOMAIN r.entries = Collections /\ \A c \in Collections : KeepsAll(c)
  BY Zenon DEF MergedIsOf
<1>4. \A c, f : f \in Given(c) <=> \E i \in 1..n : ds[i].collection = c /\ f \in ToSet(ds[i].addFields)
  BY <1>2
<1>5. \A c : c \in Collections <=> \E i \in 1..n : c = ds[i].collection
  BY <1>2
<1>6. ASSUME NEW i \in 1..n PROVE Twice(i) <=> TwiceNamed(ds[i])
  <2>1. PICK s : s = ds[i].addFields
    OBVIOUS
  <2>2. s \in Seq(FieldsOffered)
    BY <1>2, <2>1, LoadableIs
  <2>3. PICK names : names = {f.name : f \in ToSet(s)}
    OBVIOUS
  <2>4. Cardinality(names) < Len(s) <=> TwiceIn(s, Len(s))
    BY ONLY <2>2, <2>3, NamesCounted
  <2> QED
    BY <2>1, <2>3, <2>4 DEF TwiceNamed
<1>7. Clash <=> \E i, j \in 1..n : ClashOf(ds[i], ds[j])
  <2>1. ASSUME Clash PROVE \E i, j \in 1..n : ClashOf(ds[i], ds[j])
    <3>1. PICK c \in Collections : \E f, g \in Given(c) : f.name = g.name /\ f.type # g.type
      BY <2>1
    <3>2. PICK f \in Given(c), g \in Given(c) : f.name = g.name /\ f.type # g.type
      BY <3>1
    <3>3. PICK i \in 1..n, j \in 1..n : /\ ds[i].collection = c /\ f \in ToSet(ds[i].addFields)
                                        /\ ds[j].collection = c /\ g \in ToSet(ds[j].addFields)
      BY <1>4, <3>2
    <3>4. ClashOf(ds[i], ds[j])
      BY <3>2, <3>3 DEF ClashOf, Unlike
    <3> QED
      BY <3>4
  <2>2. ASSUME NEW i \in 1..n, NEW j \in 1..n, ClashOf(ds[i], ds[j]) PROVE Clash
    <3>1. PICK c : c = ds[i].collection
      OBVIOUS
    <3>2. ds[j].collection = c /\ \E f \in ToSet(ds[i].addFields), g \in ToSet(ds[j].addFields) : Unlike(f, g)
      BY <2>2, <3>1 DEF ClashOf
    <3>3. PICK f \in ToSet(ds[i].addFields), g \in ToSet(ds[j].addFields) : Unlike(f, g)
      BY <3>2
    <3>4. f \in Given(c) /\ g \in Given(c) /\ c \in Collections
      BY <1>4, <1>5, <3>1, <3>2
    <3> QED
      BY <3>3, <3>4 DEF Unlike
  <2> QED
    BY <2>1, <2>2
<1>8. Bad(ds, n) <=> (\E i \in DOMAIN ds : Twice(i)) \/ Clash
  BY <1>2, <1>6, <1>7 DEF Bad
<1>9. /\ r.error # "" <=> Bad(ds, n)
      /\ r.error = "" => /\ \A c : c \in DOMAIN r.entries <=> \E i \in 1..n : c = ds[i].collection
                         /\ \A c \in DOMAIN r.entries : EntryIs(r.entries[c], ds, n, c)
  BY <1>2 DEF MergedUpTo
<1>10. ASSUME r.error = "" PROVE DOMAIN r.entries = Collections
  BY <1>5, <1>9, <1>10
<1>11. ASSUME r.error = "", NEW c \in Collections PROVE KeepsAll(c)
  <2>1. PICK e, fields, F, sources : e = r.entries[c] /\ fields = e.fields /\ F = ToSet(fields) /\ sources = ToSet(e.sources)
    OBVIOUS
  <2>2. EntryIs(e, ds, n, c)
    BY <1>9, <1>10, <1>11, <2>1
  <2>3. /\ EachOnce(fields)
        /\ \A g \in F : \E i \in 1..n : ds[i].collection = c /\ \E f \in ToSet(ds[i].addFields) : Alike(f, g)
        /\ \A i \in 1..n : ds[i].collection = c =>
             \A f \in ToSet(ds[i].addFields) : \E g \in F : Alike(f, g)
        /\ \A p : p \in sources <=> \E i \in 1..n : ds[i].collection = c /\ p = ds[i].plugin
    BY <2>1, <2>2 DEF EntryIs
  <2>4. fields \in Seq(FieldsOffered)
    BY <2>1, <2>2 DEF EntryIs, Entries
  <2>5. PICK G : G = Given(c)
    OBVIOUS
  <2>6. (\A g \in F : \E f \in G : Alike(f, g)) /\ (\A f \in G : \E g \in F : Alike(f, g))
    BY <1>4, <2>3, <2>5
  <2>7. {<<f.name, f.type>> : f \in F} = {<<f.name, f.type>> : f \in G}
    <3>1. \A f, g : Alike(f, g) => <<f.name, f.type>> = <<g.name, g.type>>
      BY DEF Alike
    <3>2. {<<f.name, f.type>> : f \in F} \subseteq {<<f.name, f.type>> : f \in G}
      BY ONLY <2>6, <3>1
    <3>3. {<<f.name, f.type>> : f \in G} \subseteq {<<f.name, f.type>> : f \in F}
      BY ONLY <2>6, <3>1
    <3> QED
      BY ONLY <3>2, <3>3
  <2>8. Cardinality({f.name : f \in F}) = Len(fields)
    <3>1. PICK names : names = {f.name : f \in ToSet(fields)}
      OBVIOUS
    <3>2. Cardinality(names) = Len(fields) <=> EachOnce(fields)
      BY ONLY <2>4, <3>1, NamesCounted
    <3> QED
      BY <2>1, <2>3, <3>1, <3>2
  <2>9. sources = {ds[i].plugin : i \in Of(c)}
    <3>1. \A p : p \in {ds[i].plugin : i \in Of(c)} <=> \E i \in 1..n : ds[i].collection = c /\ p = ds[i].plugin
      BY <1>2
    <3> QED
      BY <2>3, <3>1
  <2> HIDE DEF Given, Of
  <2> QED
    BY <2>1, <2>5, <2>7, <2>8, <2>9
<1>12. MergedIsOf(ds, r)
  <2> HIDE DEF Twice, Clash, Collections, KeepsAll
  <2> QED
    BY <1>3, <1>8, <1>9, <1>10, <1>11
<1>13. SortIsOf(ds, ordered)
  <2>1. PICK vs, given, R : vs = ordered /\ R = {m.version : m \in Loadable}
                            /\ Len(given) = n /\ (\A i \in 1..n : given[i] = ds[i].version)
                            /\ SortedUpTo(vs, given, n, R)
    BY <1>1 DEF ManifestsAre
  <2>2. /\ DOMAIN vs = 1..n
        /\ \A i, j \in 1..n : i < j => ~Precedes(vs[j], vs[i])
        /\ \E place : Placed(place, vs, given, n)
    BY <2>1, LenProperties DEF SortedUpTo
  <2>3. PICK place : Placed(place, vs, given, n)
    BY <2>2
  <2>4. /\ place \in [1..n -> 1..n]
        /\ \A i \in 1..n : vs[place[i]] = given[i]
        /\ \A i, j \in 1..n : place[i] = place[j] => i = j
        /\ \A i, j \in 1..n : i < j /\ place[j] < place[i] => Precedes(given[j], given[i])
    BY <2>3 DEF Placed
  <2>5. ASSUME NEW i \in 1..n, NEW j \in 1..n, place[i] < place[j]
        PROVE  ~Precedes(ds[j].version, ds[i].version)
    <3>1. PICK p \in 1..n, q \in 1..n : p = place[i] /\ q = place[j]
      BY <2>4
    <3>2. ~Precedes(vs[q], vs[p])
      BY <2>2, <2>5, <3>1
    <3>3. vs[q] = ds[j].version /\ vs[p] = ds[i].version
      BY <2>1, <2>4, <3>1
    <3> QED
      BY <3>2, <3>3
  <2>6. /\ \A i \in 1..n : vs[place[i]] = ds[i].version
        /\ \A i, j \in 1..n : i < j /\ place[j] < place[i] => Precedes(ds[j].version, ds[i].version)
    BY <2>1, <2>4
  <2>7. /\ place \in [DOMAIN ds -> DOMAIN ds] /\ DOMAIN vs = DOMAIN ds
        /\ \A i \in DOMAIN ds : vs[place[i]] = ds[i].version
        /\ \A i, j \in DOMAIN ds :
             /\ place[i] = place[j] => i = j
             /\ place[i] < place[j] => ~Precedes(ds[j].version, ds[i].version)
             /\ i < j /\ place[j] < place[i] => Precedes(ds[j].version, ds[i].version)
    BY ONLY <1>2, <2>2, <2>4, <2>5, <2>6
  <2>8. SortIsOf(ds, vs)
    BY ONLY <2>7, Zenon DEF SortIsOf
  <2> QED
    BY <2>1, <2>8
<1>14. OrderDoesNotMatter /\ SortedBySemver
  BY <1>1, <1>12, <1>13, AsStated
<1> QED
  BY <1>14 DEF ExtensionsAgree

LEMMA ManifestsMade ==
  ASSUME NEW ds \in Seq(Loadable), NEW r, r = ResolveExtends(ds),
         NEW vs, vs = SemverSort([i \in DOMAIN ds |-> ds[i].version])
  PROVE  ManifestsAre(ds, r, vs)
<1>1. MergedUpTo(r, ds, Len(ds))
  BY MergedExtends
<1>2. PICK given, R, n : /\ given = [i \in DOMAIN ds |-> ds[i].version]
                         /\ R = {m.version : m \in Loadable} /\ n = Len(ds)
  OBVIOUS
<1>3. n \in Nat /\ DOMAIN ds = 1..n /\ \A i \in 1..n : ds[i] \in Loadable
  BY <1>2, LenProperties
<1>4. given \in Seq(R) /\ Len(given) = n /\ \A i \in 1..n : given[i] = ds[i].version
  <2>1. given \in [1..n -> R] /\ \A i \in 1..n : given[i] = ds[i].version
    BY <1>2, <1>3
  <2> QED
    BY ONLY <1>3, <2>1
<1>5. \A a \in R : IsRelease(a)
  BY <1>2, Releases
<1>6. SortedUpTo(SemverSort(given), given, Len(given), R)
  BY ONLY <1>4, <1>5, SortIs
<1>7. SortedUpTo(vs, given, n, R)
  BY <1>2, <1>4, <1>6
<1> QED
  BY <1>1, <1>2, <1>4, <1>7 DEF ManifestsAre

\* Whatever manifests are loaded, in whatever order: resolve() fails exactly if a declaration
\* names a field twice or two give one field different types, and else returns for each collection
\* each of its fields once and all its plugins; and semverSort() returns all the versions in the
\* order of SemVer, those of one precedence in the order of loading.
THEOREM ExtensionsAgreeEver == ManifestsInit /\ [][ManifestsNext]_manifestVars => []ExtensionsAgree
<1> DEFINE Inv == ManifestsAre(declared, merged, ordered)
<1>1. ManifestsInit => Inv
  <2> SUFFICES ASSUME ManifestsInit PROVE Inv
    OBVIOUS
  <2>1. PICK ds : ds = <<>>
    OBVIOUS
  <2>2. ds \in Seq(Loadable) /\ Len(ds) = 0 /\ 1..0 = {} /\ DOMAIN <<>> = {}
    BY <2>1
  <2>3. declared = ds /\ merged = NothingMerged /\ ordered = <<>>
    BY <2>1 DEF ManifestsInit
  <2>4. MergedUpTo(NothingMerged, ds, 0)
    <3>1. NothingMerged.error = "" /\ NothingMerged.entries = <<>>
      BY DEF NothingMerged
    <3>2. ~Bad(ds, 0)
      BY <2>2 DEF Bad
    <3> QED
      BY <2>2, <3>1, <3>2 DEF MergedUpTo
  <2>5. SortedUpTo(<<>>, ds, 0, {m.version : m \in Loadable})
    <3>1. Placed(<<>>, <<>>, ds, 0)
      BY <2>2 DEF Placed
    <3>2. <<>> \in Seq({m.version : m \in Loadable}) /\ Len(<<>>) = 0
      OBVIOUS
    <3> QED
      BY <2>2, <3>1, <3>2 DEF SortedUpTo
  <2> QED
    BY <2>2, <2>3, <2>4, <2>5 DEF ManifestsAre
<1>2. Inv /\ [ManifestsNext]_manifestVars => Inv'
  <2> SUFFICES ASSUME Inv, [ManifestsNext]_manifestVars PROVE Inv'
    OBVIOUS
  <2>1. CASE ManifestsNext
    <3>1. PICK m \in Loadable : LoadManifest(m)
      BY <2>1 DEF ManifestsNext
    <3>2. PICK ds, r, vs : ds = declared' /\ r = merged' /\ vs = ordered'
      OBVIOUS
    <3>3. declared \in Seq(Loadable)
      BY DEF ManifestsAre
    <3>4. /\ declared' = Append(declared, m) /\ merged' = ResolveExtends(declared')
          /\ ordered' = SemverSort([i \in DOMAIN declared' |-> declared'[i].version])
      BY <3>1 DEF LoadManifest
    <3>5. ds \in Seq(Loadable)
      BY <3>2, <3>3, <3>4
    <3>6. r = ResolveExtends(ds) /\ vs = SemverSort([i \in DOMAIN ds |-> ds[i].version])
      BY <3>2, <3>4
    <3>7. ManifestsAre(ds, r, vs)
      BY <3>5, <3>6, ManifestsMade
    <3> QED
      BY <3>2, <3>7
  <2>2. CASE UNCHANGED manifestVars
    BY <2>2 DEF manifestVars
  <2> QED
    BY <2>1, <2>2
<1>3. Inv => ExtensionsAgree
  BY ManifestsAreAgreed
<1> QED
  BY <1>1, <1>2, <1>3, PTL

-----------------------------------------------------------------------------
(* Record rules.  Trees are known level by level.                          *)

TreesOver(S) == S \cup [operator : Joiners, conditions : Seq(S) \ {<<>>}]
LevelsTo(lv, base, n) == lv = [k \in 0..n |-> IF k = 0 THEN base ELSE TreesOver(lv[k - 1])]

LEMMA LevelsAre ==
  ASSUME NEW base, NEW n \in Nat, NEW lv, LevelsTo(lv, base, n)
  PROVE  lv[0] = base /\ \A k \in 0..n : k < n => lv[k + 1] = TreesOver(lv[k])
<1>1. \A k \in 0..n : lv[k] = IF k = 0 THEN base ELSE TreesOver(lv[k - 1])
  BY DEF LevelsTo
<1>2. 0 \in 0..n /\ \A k \in 0..n : k < n => k + 1 \in 0..n /\ k + 1 # 0 /\ (k + 1) - 1 = k
  OBVIOUS
<1> QED
  BY <1>1, <1>2

LEMMA LevelsExist ==
  ASSUME NEW base, NEW n \in Nat
  PROVE  \E lv : LevelsTo(lv, base, n)
<1>1. PICK good : good = {k \in 0..n : \E lv : LevelsTo(lv, base, k)}
  OBVIOUS
<1>2. LevelsTo([k \in 0..0 |-> base], base, 0)
  BY DEF LevelsTo
<1>3. ASSUME NEW k \in 0..n, k \in good, k < n PROVE k + 1 \in good
  <2>1. PICK lv : LevelsTo(lv, base, k)
    BY <1>1, <1>3
  <2>2. k \in Nat /\ k + 1 \in 0..n
    BY <1>3
  <2>3. lv[0] = base /\ \A i \in 0..k : i < k => lv[i + 1] = TreesOver(lv[i])
    BY <2>1, <2>2, LevelsAre
  <2>4. PICK h : h = [i \in 0..(k + 1) |-> IF i = k + 1 THEN TreesOver(lv[k]) ELSE lv[i]]
    OBVIOUS
  <2>5. h[k + 1] = TreesOver(lv[k]) /\ \A i \in 0..k : h[i] = lv[i]
    BY <2>2, <2>4
  <2>6. ASSUME NEW i \in 0..(k + 1) PROVE h[i] = IF i = 0 THEN base ELSE TreesOver(h[i - 1])
    <3>1. CASE i = 0
      BY <2>2, <2>3, <2>5, <3>1
    <3>2. CASE i = k + 1
      <4>1. i # 0 /\ i - 1 = k /\ k \in 0..k
        BY <2>2, <3>2
      <4> QED
        BY <2>5, <3>2, <4>1
    <3>3. CASE i # 0 /\ i # k + 1
      <4>1. i \in 0..k /\ i - 1 \in 0..k /\ i - 1 < k /\ (i - 1) + 1 = i
        BY <2>2, <3>3
      <4> QED
        BY <2>3, <2>5, <3>3, <4>1
    <3> QED
      BY <3>1, <3>2, <3>3
  <2>7. LevelsTo(h, base, k + 1)
    <3>1. h = [i \in 0..(k + 1) |-> h[i]]
      BY <2>4
    <3> QED
      BY <2>6, <3>1 DEF LevelsTo
  <2> QED
    BY <1>1, <2>2, <2>7
<1>4. Climbs(good, n)
  BY <1>1, <1>2, <1>3 DEF Climbs
<1> QED
  BY <1>1, <1>4, Upwards

\* The levels of what Trees makes of base.
Levels(lv, base) ==
  /\ Trees(base) = lv[MaxDepth] /\ lv[0] = base
  /\ \A k \in 0..MaxDepth : k < MaxDepth => lv[k + 1] = TreesOver(lv[k])
  /\ \A j, k \in 0..MaxDepth : j <= k => lv[j] \subseteq lv[k]

LEMMA TreesAre ==
  ASSUME NEW base
  PROVE  \E lv : Levels(lv, base)
<1>0. MaxDepth \in Nat /\ MaxDepth \in 0..MaxDepth
  <2>1. MaxDepth \in Nat
    BY FiltersAssumption, Zenon
  <2> QED
    BY <2>1
<1> DEFINE level[k \in 0..MaxDepth] ==
             IF k = 0 THEN base
             ELSE level[k - 1] \cup [operator : Joiners, conditions : Seq(level[k - 1]) \ {<<>>}]
<1>1. Trees(base) = level[MaxDepth]
  BY Zenon DEF Trees
<1>2. PICK lv : LevelsTo(lv, base, MaxDepth)
  BY <1>0, LevelsExist
<1>3. lv = [k \in 0..MaxDepth |->
              IF k = 0 THEN base ELSE lv[k - 1] \cup [operator : Joiners, conditions : Seq(lv[k - 1]) \ {<<>>}]]
  BY <1>2 DEF LevelsTo, TreesOver
<1>4. level = [k \in 0..MaxDepth |->
              IF k = 0 THEN base ELSE level[k - 1] \cup [operator : Joiners, conditions : Seq(level[k - 1]) \ {<<>>}]]
  BY <1>3
<1> HIDE DEF level
<1>5. PICK f : f = level
  OBVIOUS
<1>6. LevelsTo(f, base, MaxDepth)
  BY <1>4, <1>5 DEF LevelsTo, TreesOver
<1>7. f[0] = base /\ \A k \in 0..MaxDepth : k < MaxDepth => f[k + 1] = TreesOver(f[k])
  BY <1>0, <1>6, LevelsAre
<1>8. \A k \in 0..MaxDepth : k < MaxDepth => f[k] \subseteq f[k + 1]
  BY <1>7 DEF TreesOver
<1>9. ASSUME NEW j \in 0..MaxDepth, NEW k \in 0..MaxDepth, j <= k PROVE f[j] \subseteq f[k]
  <2>1. PICK good : good = {i \in 0..(MaxDepth - j) : f[j] \subseteq f[j + i]}
    OBVIOUS
  <2>2. PICK n : n = MaxDepth - j
    OBVIOUS
  <2>3. n \in Nat /\ j \in Nat /\ j + 0 = j /\ k - j \in 0..n /\ j + (k - j) = k
    BY <1>0, <1>9, <2>2
  <2>4. 0 \in good
    BY <2>1, <2>2, <2>3
  <2>5. ASSUME NEW i \in 0..n, i \in good, i < n PROVE i + 1 \in good
    <3>1. j + i \in 0..MaxDepth /\ j + i < MaxDepth /\ (j + i) + 1 = j + (i + 1) /\ i + 1 \in 0..n
      BY <1>0, <2>2, <2>3, <2>5
    <3>2. f[j] \subseteq f[j + i] /\ f[j + i] \subseteq f[(j + i) + 1]
      BY <1>8, <2>1, <2>5, <3>1
    <3> QED
      BY <2>1, <2>2, <3>1, <3>2
  <2>6. Climbs(good, n)
    BY <2>4, <2>5 DEF Climbs
  <2>7. k - j \in good
    BY <2>3, <2>6, Upwards
  <2> QED
    BY <2>1, <2>3, <2>7
<1> QED
  BY <1>1, <1>5, <1>7, <1>9 DEF Levels

Joined(d, S) == d \in [operator : Joiners, conditions : Seq(S) \ {<<>>}]
AreLeaves(base) == \A l \in base : l.operator \notin Joiners

\* A tree is a leaf or joined of trees of a level below.
NodeAt(d, base, lv, k) == (d.operator \notin Joiners /\ d \in base) \/ (k > 0 /\ Joined(d, lv[k - 1]))

LEMMA JoinedMore ==
  ASSUME NEW S, NEW T, S \subseteq T, NEW d, Joined(d, S)
  PROVE  Joined(d, T)
<1>1. Seq(S) \subseteq Seq(T)
  OBVIOUS
<1> QED
  BY <1>1 DEF Joined

LEMMA NodesAre ==
  ASSUME NEW base, AreLeaves(base), NEW lv, Levels(lv, base)
  PROVE  \A k \in 0..MaxDepth : \A d \in lv[k] : NodeAt(d, base, lv, k)
<1>1. /\ lv[0] = base
      /\ \A k \in 0..MaxDepth : k < MaxDepth => lv[k + 1] = TreesOver(lv[k])
      /\ \A j, k \in 0..MaxDepth : j <= k => lv[j] \subseteq lv[k]
  BY DEF Levels
<1>2. MaxDepth \in Nat
  BY FiltersAssumption, Zenon
<1>3. PICK good : good = {k \in 0..MaxDepth : \A d \in lv[k] : NodeAt(d, base, lv, k)}
  OBVIOUS
<1>4. 0 \in good
  BY <1>1, <1>2, <1>3 DEF NodeAt, AreLeaves
<1>5. ASSUME NEW k \in 0..MaxDepth, k \in good, k < MaxDepth PROVE k + 1 \in good
  <2>1. k + 1 \in 0..MaxDepth /\ (k + 1) - 1 = k /\ k + 1 > 0 /\ k \in Nat
    BY <1>2, <1>5
  <2>2. ASSUME NEW d \in lv[k + 1] PROVE NodeAt(d, base, lv, k + 1)
    <3>1. d \in lv[k] \/ Joined(d, lv[k])
      BY <1>1, <1>5, <2>2 DEF TreesOver, Joined
    <3>2. CASE Joined(d, lv[k])
      BY <2>1, <3>2 DEF NodeAt
    <3>3. CASE d \in lv[k]
      <4>1. NodeAt(d, base, lv, k)
        BY <1>3, <1>5, <3>3
      <4>2. ASSUME k > 0, Joined(d, lv[k - 1]) PROVE Joined(d, lv[k])
        <5>1. k - 1 \in 0..MaxDepth /\ k - 1 <= k
          BY <1>2, <1>5, <4>2
        <5>2. lv[k - 1] \subseteq lv[k]
          BY <1>1, <5>1
        <5> QED
          BY <4>2, <5>2, JoinedMore
      <4> QED
        BY <2>1, <4>1, <4>2 DEF NodeAt
    <3> QED
      BY <3>1, <3>2, <3>3
  <2> QED
    BY <1>3, <2>1, <2>2
<1>6. Climbs(good, MaxDepth)
  BY <1>4, <1>5 DEF Climbs
<1> QED
  BY <1>2, <1>3, <1>6, Upwards

\* What is true of d, if g says what is true of its conditions.
DecidedAt(g, d, truth) ==
  CASE d.operator = "&" -> \A i \in 1 .. Len(d.conditions) : g[d.conditions[i]]
    [] d.operator = "|" -> \E i \in 1 .. Len(d.conditions) : g[d.conditions[i]]
    [] d.operator = "!" -> ~g[d.conditions[1]]
    [] OTHER -> truth[d]
Decides(g, truth, S) == g = [d \in S |-> DecidedAt(g, d, truth)]

LEMMA ConditionsAre ==
  ASSUME NEW S, NEW d, Joined(d, S)
  PROVE  /\ d.operator \in Joiners /\ Len(d.conditions) \in Nat \ {0} /\ 1 \in 1..Len(d.conditions)
         /\ d.conditions \in Seq(S) /\ \A i \in 1..Len(d.conditions) : d.conditions[i] \in S
<1>1. PICK cs : cs = d.conditions
  OBVIOUS
<1>2. cs \in Seq(S) /\ cs # <<>> /\ d.operator \in Joiners
  BY <1>1 DEF Joined
<1>3. Len(cs) \in Nat /\ Len(cs) # 0 /\ \A i \in 1..Len(cs) : cs[i] \in S
  BY <1>2, EmptySeq
<1> QED
  BY <1>1, <1>2, <1>3

NodeOn(d, S) == d.operator \notin Joiners \/ Joined(d, S)
SameOn(g, h, S) == \A x \in S : g[x] = h[x]

LEMMA SameDecided ==
  ASSUME NEW S, NEW d, NodeOn(d, S), NEW g, NEW h, SameOn(g, h, S), NEW truth
  PROVE  DecidedAt(g, d, truth) = DecidedAt(h, d, truth)
<1>1. CASE d.operator \notin Joiners
  BY <1>1 DEF DecidedAt, Joiners
<1>2. CASE Joined(d, S)
  <2>1. /\ d.operator \in Joiners /\ 1 \in 1..Len(d.conditions)
        /\ \A i \in 1..Len(d.conditions) : g[d.conditions[i]] = h[d.conditions[i]]
    BY <1>2, ConditionsAre DEF SameOn
  <2>2. CASE d.operator = "&"
    BY <2>1, <2>2 DEF DecidedAt
  <2>3. CASE d.operator = "|"
    BY <2>1, <2>3 DEF DecidedAt
  <2>4. CASE d.operator = "!"
    BY <2>1, <2>4 DEF DecidedAt
  <2> QED
    BY <2>1, <2>2, <2>3, <2>4 DEF Joiners
<1> QED
  BY <1>1, <1>2 DEF NodeOn

LEMMA DecidesExist ==
  ASSUME NEW truth, AreLeaves(DOMAIN truth), NEW lv, Levels(lv, DOMAIN truth)
  PROVE  \E g : Decides(g, truth, lv[MaxDepth])
<1>1. MaxDepth \in Nat
  BY FiltersAssumption, Zenon
<1>2. \A k \in 0..MaxDepth : \A d \in lv[k] : NodeAt(d, DOMAIN truth, lv, k)
  BY NodesAre
<1>3. /\ lv[0] = DOMAIN truth
      /\ \A j, k \in 0..MaxDepth : j <= k => lv[j] \subseteq lv[k]
  BY DEF Levels
<1>4. PICK good : good = {k \in 0..MaxDepth : \E g : Decides(g, truth, lv[k])}
  OBVIOUS
<1>5. 0 \in good
  <2>1. PICK g : g = [d \in lv[0] |-> truth[d]]
    OBVIOUS
  <2>2. \A d \in lv[0] : DecidedAt(g, d, truth) = truth[d]
    BY <1>3 DEF DecidedAt, AreLeaves, Joiners
  <2>3. Decides(g, truth, lv[0])
    BY <2>1, <2>2 DEF Decides
  <2> QED
    BY <1>1, <1>4, <2>3
<1>6. ASSUME NEW k \in 0..MaxDepth, k \in good, k < MaxDepth PROVE k + 1 \in good
  <2>1. PICK g : Decides(g, truth, lv[k])
    BY <1>4, <1>6
  <2>2. k + 1 \in 0..MaxDepth /\ (k + 1) - 1 = k /\ k \in Nat /\ k <= k + 1
    BY <1>1, <1>6
  <2>3. PICK S, T : S = lv[k] /\ T = lv[k + 1]
    OBVIOUS
  <2>4. S \subseteq T
    BY <1>3, <2>2, <2>3
  <2>5. PICK h : h = [d \in T |-> DecidedAt(g, d, truth)]
    OBVIOUS
  <2>6. \A d \in S : g[d] = DecidedAt(g, d, truth)
    BY <2>1, <2>3 DEF Decides
  <2>7. SameOn(g, h, S)
    BY <2>4, <2>5, <2>6 DEF SameOn
  <2>8. ASSUME NEW d \in T PROVE DecidedAt(g, d, truth) = DecidedAt(h, d, truth)
    <3>1. NodeOn(d, S)
      BY <1>2, <2>2, <2>3 DEF NodeAt, NodeOn
    <3> QED
      BY <2>7, <3>1, SameDecided
  <2>9. Decides(h, truth, T)
    BY <2>5, <2>8 DEF Decides
  <2> QED
    BY <1>4, <2>2, <2>3, <2>9
<1>7. Climbs(good, MaxDepth)
  BY <1>4, <1>5, <1>6 DEF Climbs
<1> QED
  BY <1>1, <1>4, <1>7, Upwards

\* A tree is decided by what its parts are.
LEMMA DecidedIs ==
  ASSUME NEW truth, NEW base, base = DOMAIN truth, AreLeaves(base)
  PROVE  /\ \A d \in base : Decided(d, truth) = truth[d]
         /\ \A d \in Trees(base) : d.operator \in Joiners =>
              /\ d.operator = "&" => (Decided(d, truth) <=> \A i \in 1..Len(d.conditions) : Decided(d.conditions[i], truth))
              /\ d.operator = "|" => (Decided(d, truth) <=> \E i \in 1..Len(d.conditions) : Decided(d.conditions[i], truth))
              /\ d.operator = "!" => (Decided(d, truth) <=> ~Decided(d.conditions[1], truth))
<1>0. MaxDepth \in Nat
  BY FiltersAssumption, Zenon
<1>1. PICK lv : Levels(lv, base)
  BY TreesAre
<1>2. PICK g : Decides(g, truth, lv[MaxDepth])
  BY <1>1, DecidesExist
<1>3. Trees(base) = lv[MaxDepth] /\ base \subseteq Trees(base)
  BY <1>0, <1>1 DEF Levels
<1> DEFINE decided[d \in Trees(base)] ==
             CASE d.operator = "&" -> \A i \in 1 .. Len(d.conditions) : decided[d.conditions[i]]
               [] d.operator = "|" -> \E i \in 1 .. Len(d.conditions) : decided[d.conditions[i]]
               [] d.operator = "!" -> ~decided[d.conditions[1]]
               [] OTHER -> truth[d]
<1>4. \A c : Decided(c, truth) = decided[c]
  BY Zenon DEF Decided
<1>5. g = [d \in Trees(base) |->
             CASE d.operator = "&" -> \A i \in 1 .. Len(d.conditions) : g[d.conditions[i]]
               [] d.operator = "|" -> \E i \in 1 .. Len(d.conditions) : g[d.conditions[i]]
               [] d.operator = "!" -> ~g[d.conditions[1]]
               [] OTHER -> truth[d]]
  BY <1>2, <1>3, Zenon DEF Decides, DecidedAt
<1>6. decided = [d \in Trees(base) |->
             CASE d.operator = "&" -> \A i \in 1 .. Len(d.conditions) : decided[d.conditions[i]]
               [] d.operator = "|" -> \E i \in 1 .. Len(d.conditions) : decided[d.conditions[i]]
               [] d.operator = "!" -> ~decided[d.conditions[1]]
               [] OTHER -> truth[d]]
  BY <1>5, Zenon
<1> HIDE DEF decided
<1>7. PICK f : f = decided
  OBVIOUS
<1>8. \A d \in Trees(base) : f[d] = DecidedAt(f, d, truth)
  BY <1>6, <1>7 DEF DecidedAt
<1>9. \A d \in base : f[d] = truth[d]
  BY <1>3, <1>8 DEF AreLeaves, DecidedAt, Joiners
<1>10. ASSUME NEW d \in Trees(base), d.operator \in Joiners
       PROVE  /\ d.operator = "&" => (f[d] <=> \A i \in 1..Len(d.conditions) : f[d.conditions[i]])
              /\ d.operator = "|" => (f[d] <=> \E i \in 1..Len(d.conditions) : f[d.conditions[i]])
              /\ d.operator = "!" => (f[d] <=> ~f[d.conditions[1]])
  BY <1>8, <1>10 DEF DecidedAt
<1>11. \A c : Decided(c, truth) = f[c]
  BY <1>4, <1>7
<1>12. \A d \in base : Decided(d, truth) = truth[d]
  BY <1>9, <1>11
<1>13. ASSUME NEW d \in Trees(base), d.operator \in Joiners
       PROVE  /\ d.operator = "&" => (Decided(d, truth) <=> \A i \in 1..Len(d.conditions) : Decided(d.conditions[i], truth))
              /\ d.operator = "|" => (Decided(d, truth) <=> \E i \in 1..Len(d.conditions) : Decided(d.conditions[i], truth))
              /\ d.operator = "!" => (Decided(d, truth) <=> ~Decided(d.conditions[1], truth))
  <2>1. Decided(d, truth) = f[d] /\ Decided(d.conditions[1], truth) = f[d.conditions[1]]
    BY <1>11
  <2>2. \A i : Decided(d.conditions[i], truth) = f[d.conditions[i]]
    BY <1>11
  <2> QED
    BY <1>10, <1>13, <2>1, <2>2
<1> QED
  BY <1>12, <1>13

-----------------------------------------------------------------------------
(* The compiler of record rules.                                           *)

\* A loop of n rounds that starts with nothing and adds the clause and the items of a condition in each.
NoneDone == [sql |-> <<>>, params |-> <<>>]
OneDone(old, next) == [sql |-> Append(old.sql, next.sql), params |-> old.params \o next.params]
DoneNext(old, compiled, cs, n, k) == OneDone(old, compiled[cs[k]][n + Len(old.params)])
DoneTo(f, compiled, cs, n, k) ==
  f = [j \in 0..k |-> IF j = 0 THEN NoneDone ELSE DoneNext(f[j - 1], compiled, cs, n, j)]
DoneBy(f, compiled, cs, n, k) ==
  f[0] = NoneDone /\ \A j \in 1..k : f[j] = DoneNext(f[j - 1], compiled, cs, n, j)

LEMMA DoneIs ==
  ASSUME NEW k \in Nat, NEW compiled, NEW cs, NEW n, NEW f, DoneTo(f, compiled, cs, n, k)
  PROVE  DoneBy(f, compiled, cs, n, k)
<1>1. \A j \in 0..k : f[j] = IF j = 0 THEN NoneDone ELSE DoneNext(f[j - 1], compiled, cs, n, j)
  BY DEF DoneTo
<1>2. 0 \in 0..k /\ \A j \in 1..k : j \in 0..k /\ j # 0
  OBVIOUS
<1> QED
  BY <1>1, <1>2 DEF DoneBy

LEMMA DoneExists ==
  ASSUME NEW l \in Nat, NEW compiled, NEW cs, NEW n
  PROVE  \E f : DoneTo(f, compiled, cs, n, l)
<1>1. PICK good : good = {k \in 0..l : \E f : DoneTo(f, compiled, cs, n, k)}
  OBVIOUS
<1>2. DoneTo([k \in 0..0 |-> NoneDone], compiled, cs, n, 0)
  BY DEF DoneTo
<1>3. ASSUME NEW k \in 0..l, k \in good, k < l PROVE k + 1 \in good
  <2>1. PICK f : DoneTo(f, compiled, cs, n, k)
    BY <1>1, <1>3
  <2>2. k \in Nat /\ k + 1 \in 0..l
    BY <1>3
  <2>3. f[0] = NoneDone /\ \A j \in 1..k : f[j] = DoneNext(f[j - 1], compiled, cs, n, j)
    BY <2>1, <2>2, DoneIs DEF DoneBy
  <2>4. PICK h : h = [j \in 0..(k + 1) |-> IF j = k + 1 THEN DoneNext(f[k], compiled, cs, n, k + 1) ELSE f[j]]
    OBVIOUS
  <2>5. h[k + 1] = DoneNext(f[k], compiled, cs, n, k + 1) /\ \A j \in 0..k : h[j] = f[j]
    BY <2>2, <2>4
  <2>6. ASSUME NEW j \in 0..(k + 1)
        PROVE  h[j] = IF j = 0 THEN NoneDone ELSE DoneNext(h[j - 1], compiled, cs, n, j)
    <3>1. CASE j = 0
      BY <2>2, <2>3, <2>5, <3>1
    <3>2. CASE j = k + 1
      <4>1. j # 0 /\ j - 1 = k /\ k \in 0..k
        BY <2>2, <3>2
      <4> QED
        BY <2>5, <3>2, <4>1
    <3>3. CASE j # 0 /\ j # k + 1
      <4>1. j \in 1..k /\ j \in 0..k /\ j - 1 \in 0..k
        BY <2>2, <3>3
      <4> QED
        BY <2>3, <2>5, <3>3, <4>1
    <3> QED
      BY <3>1, <3>2, <3>3
  <2>7. DoneTo(h, compiled, cs, n, k + 1)
    <3>1. h = [j \in 0..(k + 1) |-> h[j]]
      BY <2>4
    <3> QED
      BY <2>6, <3>1 DEF DoneTo
  <2> QED
    BY <1>1, <2>2, <2>7
<1>4. Climbs(good, l)
  BY <1>1, <1>2, <1>3 DEF Climbs
<1> QED
  BY <1>1, <1>4, Upwards

LEMMA CompileAllIs ==
  ASSUME NEW compiled, NEW cs, NEW n, Len(cs) \in Nat
  PROVE  \E f : DoneBy(f, compiled, cs, n, Len(cs)) /\ CompileAll(compiled, cs, n) = f[Len(cs)]
<1>1. PICK l : l = Len(cs)
  OBVIOUS
<1> DEFINE done[k \in 0..l] ==
             IF k = 0 THEN [sql |-> <<>>, params |-> <<>>]
             ELSE LET next == compiled[cs[k]][n + Len(done[k - 1].params)]
                  IN [sql |-> Append(done[k - 1].sql, next.sql), params |-> done[k - 1].params \o next.params]
<1>2. CompileAll(compiled, cs, n) = done[l]
  BY <1>1, Zenon DEF CompileAll
<1>3. PICK f : DoneTo(f, compiled, cs, n, l)
  BY <1>1, DoneExists
<1>4. f = [k \in 0..l |->
             IF k = 0 THEN [sql |-> <<>>, params |-> <<>>]
             ELSE LET next == compiled[cs[k]][n + Len(f[k - 1].params)]
                  IN [sql |-> Append(f[k - 1].sql, next.sql), params |-> f[k - 1].params \o next.params]]
  BY <1>3, Zenon DEF DoneTo, DoneNext, OneDone, NoneDone
<1>5. done = [k \in 0..l |->
             IF k = 0 THEN [sql |-> <<>>, params |-> <<>>]
             ELSE LET next == compiled[cs[k]][n + Len(done[k - 1].params)]
                  IN [sql |-> Append(done[k - 1].sql, next.sql), params |-> done[k - 1].params \o next.params]]
  BY <1>4, Zenon
<1> HIDE DEF done
<1>6. DoneTo(done, compiled, cs, n, l)
  BY <1>5, Zenon DEF DoneTo, DoneNext, OneDone, NoneDone
<1>7. DoneBy(done, compiled, cs, n, l)
  BY <1>1, <1>6, DoneIs
<1> QED
  BY <1>1, <1>2, <1>7

LEMMA SameAll ==
  ASSUME NEW S, NEW cs \in Seq(S), NEW g, NEW h, SameOn(g, h, S), NEW n
  PROVE  CompileAll(g, cs, n) = CompileAll(h, cs, n)
<1>1. PICK l : l = Len(cs)
  OBVIOUS
<1>2. l \in Nat /\ \A k \in 1..l : g[cs[k]] = h[cs[k]]
  BY <1>1 DEF SameOn
<1>3. PICK a : DoneBy(a, g, cs, n, l) /\ CompileAll(g, cs, n) = a[l]
  BY <1>1, <1>2, CompileAllIs
<1>4. PICK b : DoneBy(b, h, cs, n, l) /\ CompileAll(h, cs, n) = b[l]
  BY <1>1, <1>2, CompileAllIs
<1>5. PICK good : good = {k \in 0..l : a[k] = b[k]}
  OBVIOUS
<1>6. 0 \in good
  BY <1>2, <1>3, <1>4, <1>5 DEF DoneBy
<1>7. ASSUME NEW k \in 0..l, k \in good, k < l PROVE k + 1 \in good
  <2>1. k + 1 \in 1..l /\ k + 1 \in 0..l /\ (k + 1) - 1 = k
    BY <1>2, <1>7
  <2>2. PICK j : j = k + 1
    OBVIOUS
  <2>3. a[j] = DoneNext(a[j - 1], g, cs, n, j) /\ b[j] = DoneNext(b[j - 1], h, cs, n, j)
    BY <1>3, <1>4, <2>1, <2>2 DEF DoneBy
  <2>4. a[j - 1] = b[j - 1] /\ g[cs[j]] = h[cs[j]]
    BY <1>2, <1>5, <1>7, <2>1, <2>2
  <2> QED
    BY <1>5, <2>1, <2>2, <2>3, <2>4 DEF DoneNext
<1>8. Climbs(good, l)
  BY <1>6, <1>7 DEF Climbs
<1>9. l \in good
  BY <1>2, <1>8, Upwards
<1> QED
  BY <1>3, <1>4, <1>5, <1>9

\* The clauses of d for any number of items before, if g has those of its conditions.
ClauseOf(d, all) == [sql |-> [operator |-> d.operator, conditions |-> all.sql], params |-> all.params]
CompiledAt(g, d) ==
  [m \in Nat |-> IF d.operator \in Joiners THEN ClauseOf(d, CompileAll(g, d.conditions, m)) ELSE CompileLeaf(d, m)]
Compiles(g, S) == g = [d \in S |-> CompiledAt(g, d)]

LEMMA SameCompiled ==
  ASSUME NEW S, NEW d, NodeOn(d, S), NEW g, NEW h, SameOn(g, h, S)
  PROVE  CompiledAt(g, d) = CompiledAt(h, d)
<1>1. CASE d.operator \notin Joiners
  BY <1>1 DEF CompiledAt
<1>2. CASE Joined(d, S)
  <2>1. d.conditions \in Seq(S)
    BY <1>2, ConditionsAre
  <2>2. \A m : CompileAll(g, d.conditions, m) = CompileAll(h, d.conditions, m)
    BY <2>1, SameAll
  <2> QED
    BY <2>2 DEF CompiledAt
<1> QED
  BY <1>1, <1>2 DEF NodeOn

LEMMA CompilesExist ==
  ASSUME NEW base, AreLeaves(base), NEW lv, Levels(lv, base)
  PROVE  \E g : Compiles(g, lv[MaxDepth])
<1>1. MaxDepth \in Nat
  BY FiltersAssumption, Zenon
<1>2. \A k \in 0..MaxDepth : \A d \in lv[k] : NodeAt(d, base, lv, k)
  BY NodesAre
<1>3. /\ lv[0] = base
      /\ \A j, k \in 0..MaxDepth : j <= k => lv[j] \subseteq lv[k]
  BY DEF Levels
<1>4. PICK good : good = {k \in 0..MaxDepth : \E g : Compiles(g, lv[k])}
  OBVIOUS
<1>5. 0 \in good
  <2>1. PICK g : g = [d \in lv[0] |-> [m \in Nat |-> CompileLeaf(d, m)]]
    OBVIOUS
  <2>2. \A d \in lv[0] : CompiledAt(g, d) = [m \in Nat |-> CompileLeaf(d, m)]
    BY <1>3 DEF CompiledAt, AreLeaves
  <2>3. Compiles(g, lv[0])
    BY <2>1, <2>2 DEF Compiles
  <2> QED
    BY <1>1, <1>4, <2>3
<1>6. ASSUME NEW k \in 0..MaxDepth, k \in good, k < MaxDepth PROVE k + 1 \in good
  <2>1. PICK g : Compiles(g, lv[k])
    BY <1>4, <1>6
  <2>2. k + 1 \in 0..MaxDepth /\ (k + 1) - 1 = k /\ k \in Nat /\ k <= k + 1
    BY <1>1, <1>6
  <2>3. PICK S, T : S = lv[k] /\ T = lv[k + 1]
    OBVIOUS
  <2>4. S \subseteq T
    BY <1>3, <2>2, <2>3
  <2>5. PICK h : h = [d \in T |-> CompiledAt(g, d)]
    OBVIOUS
  <2>6. \A d \in S : g[d] = CompiledAt(g, d)
    BY <2>1, <2>3 DEF Compiles
  <2>7. SameOn(g, h, S)
    BY <2>4, <2>5, <2>6 DEF SameOn
  <2>8. ASSUME NEW d \in T PROVE CompiledAt(g, d) = CompiledAt(h, d)
    <3>1. NodeOn(d, S)
      BY <1>2, <2>2, <2>3 DEF NodeAt, NodeOn
    <3> QED
      BY <2>7, <3>1, SameCompiled
  <2>9. Compiles(h, T)
    BY <2>5, <2>8 DEF Compiles
  <2> QED
    BY <1>4, <2>2, <2>3, <2>9
<1>7. Climbs(good, MaxDepth)
  BY <1>4, <1>5, <1>6 DEF Climbs
<1> QED
  BY <1>1, <1>4, <1>7, Upwards

LEMMA ComparisonsAreLeaves == AreLeaves(Comparisons)
<1> SUFFICES ASSUME NEW l \in Comparisons PROVE l.operator \notin Joiners
  BY DEF AreLeaves
<1>1. PICK f \in Filters : IsComparison(f) /\ l = ComparisonOf(f)
  BY DEF Comparisons
<1>2. l.operator = f[2]
  BY <1>1 DEF ComparisonOf
<1>3. f[2] \in Operators
  BY <1>1 DEF IsComparison, OperatorIsValid
<1> QED
  BY <1>2, <1>3 DEF Operators, Joiners

LEMMA CompileConditionIs ==
  \E f : /\ \A d \in Trees(Comparisons) : f[d] = CompiledAt(f, d)
         /\ \A c, n : CompileCondition(c, n) = f[c][n]
<1>1. PICK lv : Levels(lv, Comparisons)
  BY TreesAre
<1>2. PICK g : Compiles(g, lv[MaxDepth])
  BY <1>1, ComparisonsAreLeaves, CompilesExist
<1>3. Trees(Comparisons) = lv[MaxDepth]
  BY <1>1 DEF Levels
<1> DEFINE compiled[d \in Trees(Comparisons)] ==
             [m \in Nat |->
                IF d.operator \in Joiners
                  THEN LET all == CompileAll(compiled, d.conditions, m)
                       IN [sql |-> [operator |-> d.operator, conditions |-> all.sql], params |-> all.params]
                  ELSE CompileLeaf(d, m)]
<1>4. \A c, n : CompileCondition(c, n) = compiled[c][n]
  BY Zenon DEF CompileCondition
<1>5. g = [d \in Trees(Comparisons) |->
             [m \in Nat |->
                IF d.operator \in Joiners
                  THEN LET all == CompileAll(g, d.conditions, m)
                       IN [sql |-> [operator |-> d.operator, conditions |-> all.sql], params |-> all.params]
                  ELSE CompileLeaf(d, m)]]
  BY <1>2, <1>3, Zenon DEF Compiles, CompiledAt, ClauseOf
<1>6. compiled = [d \in Trees(Comparisons) |->
             [m \in Nat |->
                IF d.operator \in Joiners
                  THEN LET all == CompileAll(compiled, d.conditions, m)
                       IN [sql |-> [operator |-> d.operator, conditions |-> all.sql], params |-> all.params]
                  ELSE CompileLeaf(d, m)]]
  BY <1>5, Zenon
<1> HIDE DEF compiled
<1>7. Compiles(compiled, Trees(Comparisons))
  BY <1>6, Zenon DEF Compiles, CompiledAt, ClauseOf
<1>8. \A d \in Trees(Comparisons) : compiled[d] = CompiledAt(compiled, d)
  BY <1>7 DEF Compiles
<1> QED
  BY <1>4, <1>8

-----------------------------------------------------------------------------
(* The parser of record rules.                                             *)

PartsOf(g, f) == [i \in 1 .. Len(f) - 1 |-> g[f[i + 1]]]
JoinedOf(g, f, enough) ==
  IF enough /\ \A i \in 1 .. Len(f) - 1 : PartsOf(g, f)[i] # Malformed
    THEN [operator |-> f[1], conditions |-> PartsOf(g, f)]
    ELSE Malformed

\* What f is parsed to, if g has what its parts are.
ParsedAt(g, f) ==
  CASE f = <<>> -> Malformed
    [] f # <<>> /\ f[1] \in {"&", "|"} -> JoinedOf(g, f, Len(f) >= 3)
    [] f # <<>> /\ f[1] = "!" -> JoinedOf(g, f, Len(f) = 2)
    [] OTHER -> IF IsComparison(f) THEN ComparisonOf(f) ELSE Malformed
Parses(g, S) == g = [f \in S |-> ParsedAt(g, f)]

JoinsOf(f, S) == f # <<>> /\ f[1] \in Joiners => \A i \in 2 .. Len(f) : f[i] \in S

LEMMA SameParsed ==
  ASSUME NEW S, NEW f, Len(f) \in Nat, JoinsOf(f, S), NEW g, NEW h, SameOn(g, h, S)
  PROVE  ParsedAt(g, f) = ParsedAt(h, f)
<1>1. ASSUME f # <<>>, f[1] \in Joiners PROVE PartsOf(g, f) = PartsOf(h, f)
  <2>1. \A i \in 1 .. Len(f) - 1 : i + 1 \in 2 .. Len(f)
    OBVIOUS
  <2>2. \A i \in 1 .. Len(f) - 1 : g[f[i + 1]] = h[f[i + 1]]
    BY <1>1, <2>1 DEF JoinsOf, SameOn
  <2> QED
    BY <2>2 DEF PartsOf
<1>2. ASSUME f # <<>>, f[1] \in Joiners, NEW enough PROVE JoinedOf(g, f, enough) = JoinedOf(h, f, enough)
  BY <1>1, <1>2 DEF JoinedOf
<1>3. CASE f = <<>>
  BY <1>3 DEF ParsedAt
<1>4. CASE f # <<>> /\ f[1] \in {"&", "|"}
  BY <1>2, <1>4 DEF ParsedAt, Joiners
<1>5. CASE f # <<>> /\ f[1] = "!"
  <2>1. f[1] \in Joiners /\ f[1] \notin {"&", "|"}
    BY <1>5 DEF Joiners
  <2> QED
    BY <1>2, <1>5, <2>1 DEF ParsedAt
<1>6. CASE f # <<>> /\ f[1] \notin {"&", "|"} /\ f[1] # "!"
  BY <1>6 DEF ParsedAt
<1> QED
  BY <1>3, <1>4, <1>5, <1>6

Shallower(k) == {f \in Filters : Height[f] < k}

LEMMA FiltersAre ==
  /\ MaxDepth \in Nat
  /\ \A f \in Filters : Len(f) \in Nat /\ f = [i \in 1..Len(f) |-> f[i]]
                        /\ Height[f] \in 0..MaxDepth /\ JoinsOf(f, Shallower(Height[f]))
<1>1. MaxDepth \in Nat /\ \A f \in Filters : Height[f] \in 0..MaxDepth
  BY FiltersAssumption, Zenon
<1>2. \A f \in Filters : Len(f) \in Nat /\ f = [i \in 1..Len(f) |-> f[i]]
  BY FiltersAssumption, Zenon
<1>3. \A f \in Filters : f # <<>> /\ f[1] \in Joiners => \A i \in 2 .. Len(f) : f[i] \in Filters /\ Height[f[i]] < Height[f]
  BY FiltersAssumption, Zenon
<1>4. \A f \in Filters : JoinsOf(f, Shallower(Height[f]))
  BY <1>3 DEF JoinsOf, Shallower
<1> QED
  BY <1>1, <1>2, <1>4

LEMMA HeightsAre ==
  /\ MaxDepth \in Nat /\ Shallower(0) = {} /\ Shallower(MaxDepth + 1) = Filters
  /\ \A f \in Filters : Height[f] \in Nat /\ Height[f] <= MaxDepth
  /\ \A j, k \in Nat : j <= k => Shallower(j) \subseteq Shallower(k)
  /\ \A k \in Nat : \A f \in Filters : Height[f] <= k <=> f \in Shallower(k + 1)
<1>1. MaxDepth \in Nat /\ \A f \in Filters : Height[f] \in 0..MaxDepth
  BY FiltersAre
<1>2. ASSUME NEW f \in Filters PROVE Height[f] \in Nat /\ Height[f] <= MaxDepth
  <2>1. PICK h : h = Height[f]
    OBVIOUS
  <2>2. h \in 0..MaxDepth
    BY <1>1, <2>1
  <2>3. h \in Nat /\ h <= MaxDepth
    BY ONLY <2>2, <1>1
  <2> QED
    BY <2>1, <2>3
<1>3. Shallower(0) = {}
  BY <1>2 DEF Shallower
<1>4. Shallower(MaxDepth + 1) = Filters
  BY <1>1, <1>2 DEF Shallower
<1>5. \A j, k \in Nat : j <= k => Shallower(j) \subseteq Shallower(k)
  BY <1>2 DEF Shallower
<1>6. ASSUME NEW k \in Nat, NEW f \in Filters PROVE Height[f] <= k <=> f \in Shallower(k + 1)
  <2>1. PICK h : h = Height[f]
    OBVIOUS
  <2>2. h <= k <=> h < k + 1
    BY <1>2, <2>1
  <2> QED
    BY <2>1, <2>2 DEF Shallower
<1> QED
  BY <1>1, <1>2, <1>3, <1>4, <1>5, <1>6

LEMMA ParsesExist == \E g : Parses(g, Filters)
<1>1. MaxDepth \in Nat /\ \A f \in Filters : Len(f) \in Nat /\ Height[f] \in 0..MaxDepth /\ JoinsOf(f, Shallower(Height[f]))
  BY FiltersAre
<1>2. PICK n : n = MaxDepth + 1
  OBVIOUS
<1>3. n \in Nat /\ Shallower(0) = {} /\ Shallower(n) = Filters
  BY <1>2, HeightsAre
<1>4. PICK good : good = {k \in 0..n : \E g : Parses(g, Shallower(k))}
  OBVIOUS
<1>5. 0 \in good
  <2>1. Parses([f \in {} |-> Malformed], Shallower(0))
    BY <1>3 DEF Parses
  <2> QED
    BY <1>3, <1>4, <2>1
<1>6. ASSUME NEW k \in 0..n, k \in good, k < n PROVE k + 1 \in good
  <2>1. PICK g : Parses(g, Shallower(k))
    BY <1>4, <1>6
  <2>2. PICK h : h = [f \in Shallower(k + 1) |-> ParsedAt(g, f)]
    OBVIOUS
  <2>3. k \in Nat /\ k + 1 \in 0..n
    BY <1>3, <1>6
  <2>8. Shallower(k) \subseteq Shallower(k + 1)
    <3>1. k + 1 \in Nat /\ k <= k + 1
      BY <2>3
    <3> QED
      BY <2>3, <3>1, HeightsAre
  <2>4. \A f \in Shallower(k) : g[f] = ParsedAt(g, f)
    BY <2>1 DEF Parses
  <2>5. SameOn(g, h, Shallower(k))
    BY <2>2, <2>4, <2>8 DEF SameOn
  <2>6. ASSUME NEW f \in Shallower(k + 1) PROVE ParsedAt(g, f) = ParsedAt(h, f)
    <3>0. f \in Filters
      BY <2>6 DEF Shallower
    <3>1. Height[f] \in Nat /\ Height[f] <= k
      BY <2>3, <2>6, <3>0, HeightsAre
    <3>2. Shallower(Height[f]) \subseteq Shallower(k)
      BY <2>3, <3>1, HeightsAre
    <3>3. JoinsOf(f, Shallower(k)) /\ Len(f) \in Nat
      BY <1>1, <3>0, <3>2 DEF JoinsOf
    <3> QED
      BY <2>5, <3>3, SameParsed
  <2>7. Parses(h, Shallower(k + 1))
    BY <2>2, <2>6 DEF Parses
  <2> QED
    BY <1>4, <2>3, <2>7
<1>7. Climbs(good, n)
  BY <1>5, <1>6 DEF Climbs
<1>8. n \in good
  BY <1>3, <1>7, Upwards
<1> QED
  BY <1>3, <1>4, <1>8

LEMMA ParseFilterIs ==
  \E p : (\A f \in Filters : p[f] = ParsedAt(p, f)) /\ \A f : ParseFilter(f) = p[f]
<1>1. PICK p : Parses(p, Filters)
  BY ParsesExist
<1> DEFINE parsed[g \in Filters] ==
             LET trees == [i \in 1 .. Len(g) - 1 |-> parsed[g[i + 1]]]
                 Joining(enough) ==
                   IF enough /\ \A i \in 1 .. Len(g) - 1 : trees[i] # Malformed
                     THEN [operator |-> g[1], conditions |-> trees]
                     ELSE Malformed
             IN CASE g = <<>> -> Malformed
                  [] g # <<>> /\ g[1] \in {"&", "|"} -> Joining(Len(g) >= 3)
                  [] g # <<>> /\ g[1] = "!" -> Joining(Len(g) = 2)
                  [] OTHER -> IF IsComparison(g) THEN ComparisonOf(g) ELSE Malformed
<1>2. \A f : ParseFilter(f) = parsed[f]
  BY Zenon DEF ParseFilter
<1>3. p = [g \in Filters |->
             LET trees == [i \in 1 .. Len(g) - 1 |-> p[g[i + 1]]]
                 Joining(enough) ==
                   IF enough /\ \A i \in 1 .. Len(g) - 1 : trees[i] # Malformed
                     THEN [operator |-> g[1], conditions |-> trees]
                     ELSE Malformed
             IN CASE g = <<>> -> Malformed
                  [] g # <<>> /\ g[1] \in {"&", "|"} -> Joining(Len(g) >= 3)
                  [] g # <<>> /\ g[1] = "!" -> Joining(Len(g) = 2)
                  [] OTHER -> IF IsComparison(g) THEN ComparisonOf(g) ELSE Malformed]
  BY <1>1, Zenon DEF Parses, ParsedAt, JoinedOf, PartsOf
<1>4. parsed = [g \in Filters |->
             LET trees == [i \in 1 .. Len(g) - 1 |-> parsed[g[i + 1]]]
                 Joining(enough) ==
                   IF enough /\ \A i \in 1 .. Len(g) - 1 : trees[i] # Malformed
                     THEN [operator |-> g[1], conditions |-> trees]
                     ELSE Malformed
             IN CASE g = <<>> -> Malformed
                  [] g # <<>> /\ g[1] \in {"&", "|"} -> Joining(Len(g) >= 3)
                  [] g # <<>> /\ g[1] = "!" -> Joining(Len(g) = 2)
                  [] OTHER -> IF IsComparison(g) THEN ComparisonOf(g) ELSE Malformed]
  BY <1>3, Zenon
<1> HIDE DEF parsed
<1>5. Parses(parsed, Filters)
  BY <1>4, Zenon DEF Parses, ParsedAt, JoinedOf, PartsOf
<1>6. \A f \in Filters : parsed[f] = ParsedAt(parsed, f)
  BY <1>5 DEF Parses
<1> QED
  BY <1>2, <1>6

\* What one filter is parsed to, if its parts are parsed to members of S.
LEMMA ParsedInto ==
  ASSUME NEW S, NEW p, NEW f \in Filters, p[f] = ParsedAt(p, f),
         f # <<>> /\ f[1] \in Joiners => \A i \in 2..Len(f) : p[f[i]] \in S \cup {Malformed}
  PROVE  \/ p[f] = Malformed \/ p[f] \in Comparisons
         \/ Len(f) >= 2 /\ f # <<>> /\ f[1] \in Joiners /\ Joined(p[f], S)
<1>1. Len(f) \in Nat
  BY FiltersAre
<1>2. ASSUME f # <<>>, f[1] \in Joiners, NEW enough, enough => Len(f) >= 2, p[f] = JoinedOf(p, f, enough)
      PROVE  p[f] = Malformed \/ (Len(f) >= 2 /\ Joined(p[f], S))
  <2>1. SUFFICES ASSUME p[f] # Malformed PROVE Len(f) >= 2 /\ Joined(p[f], S)
    OBVIOUS
  <2>2. PICK cs : cs = PartsOf(p, f)
    OBVIOUS
  <2>3. enough /\ (\A i \in 1 .. Len(f) - 1 : cs[i] # Malformed) /\ p[f] = [operator |-> f[1], conditions |-> cs]
    BY <1>2, <2>1, <2>2 DEF JoinedOf
  <2>4. Len(f) - 1 \in Nat /\ Len(f) - 1 > 0 /\ \A i \in 1 .. Len(f) - 1 : i + 1 \in 2..Len(f)
    BY <1>1, <1>2, <2>3
  <2>5. PICK m : m = Len(f) - 1
    OBVIOUS
  <2>6. cs = [i \in 1..m |-> p[f[i + 1]]]
    BY <2>2, <2>5 DEF PartsOf
  <2>7. \A i \in 1..m : cs[i] \in S
    BY <1>2, <2>3, <2>4, <2>5, <2>6
  <2>8. cs \in Seq(S) /\ Len(cs) = m
    BY <2>4, <2>5, <2>6, <2>7
  <2>9. cs # <<>>
    BY <2>4, <2>5, <2>8
  <2>10. f[1] \in Joiners /\ cs \in Seq(S) \ {<<>>}
    BY <1>2, <2>8, <2>9
  <2>11. Joined(p[f], S)
    BY <2>3, <2>10 DEF Joined
  <2> QED
    BY <1>2, <2>3, <2>11
<1>3. CASE f = <<>>
  BY <1>3 DEF ParsedAt
<1>4. CASE f # <<>> /\ f[1] \in {"&", "|"}
  <2>1. f[1] \in Joiners /\ p[f] = JoinedOf(p, f, Len(f) >= 3) /\ (Len(f) >= 3 => Len(f) >= 2)
    BY <1>1, <1>4 DEF ParsedAt, Joiners
  <2> QED
    BY <1>2, <1>4, <2>1
<1>5. CASE f # <<>> /\ f[1] = "!"
  <2>1. f[1] \in Joiners /\ f[1] \notin {"&", "|"}
    BY <1>5 DEF Joiners
  <2>2. p[f] = JoinedOf(p, f, Len(f) = 2) /\ (Len(f) = 2 => Len(f) >= 2)
    BY <1>5, <2>1 DEF ParsedAt
  <2> QED
    BY <1>2, <1>5, <2>1, <2>2
<1>6. CASE f # <<>> /\ f[1] \notin {"&", "|"} /\ f[1] # "!"
  <2>1. p[f] = IF IsComparison(f) THEN ComparisonOf(f) ELSE Malformed
    BY <1>6 DEF ParsedAt
  <2> QED
    BY <2>1 DEF Comparisons
<1> QED
  BY <1>3, <1>4, <1>5, <1>6

\* A filter is parsed to a tree of comparisons.
LEMMA ParsedAreTrees ==
  ASSUME NEW f \in Filters, ParseFilter(f) # Malformed
  PROVE  ParseFilter(f) \in Trees(Comparisons)
<1>1. PICK p : (\A g \in Filters : p[g] = ParsedAt(p, g)) /\ \A g : ParseFilter(g) = p[g]
  BY ParseFilterIs
<1>2. PICK lv : Levels(lv, Comparisons)
  BY TreesAre
<1>3. MaxDepth \in Nat /\ \A g \in Filters : Height[g] \in 0..MaxDepth /\ Len(g) \in Nat /\ JoinsOf(g, Shallower(Height[g]))
  BY FiltersAre
<1>4. /\ Trees(Comparisons) = lv[MaxDepth] /\ lv[0] = Comparisons
      /\ \A k \in 0..MaxDepth : k < MaxDepth => lv[k + 1] = TreesOver(lv[k])
      /\ \A j, k \in 0..MaxDepth : j <= k => lv[j] \subseteq lv[k]
  BY <1>2 DEF Levels
<1>5. PICK good : good = {k \in 0..MaxDepth : \A g \in Filters : Height[g] <= k => p[g] \in lv[k] \cup {Malformed}}
  OBVIOUS
<1>6. 0 \in good
  <2>1. ASSUME NEW g \in Filters, Height[g] <= 0 PROVE p[g] \in lv[0] \cup {Malformed}
    <3>1. Shallower(Height[g]) = {}
      <4>1. Height[g] = 0
        BY <2>1, HeightsAre
      <4> QED
        BY <4>1, HeightsAre
    <3>2. g # <<>> /\ g[1] \in Joiners => \A i \in 2..Len(g) : FALSE
      BY <1>3, <3>1 DEF JoinsOf
    <3>3. g # <<>> /\ g[1] \in Joiners => ~(Len(g) >= 2)
      <4>1. Len(g) \in Nat
        BY <1>3
      <4>2. Len(g) >= 2 => 2 \in 2..Len(g)
        BY <4>1
      <4> QED
        BY <3>2, <4>2
    <3>4. p[g] = Malformed \/ p[g] \in Comparisons
      BY <1>1, <3>2, <3>3, ParsedInto
    <3> QED
      BY <1>4, <3>4
  <2> QED
    BY <1>3, <1>5, <2>1
<1>7. ASSUME NEW k \in 0..MaxDepth, k \in good, k < MaxDepth PROVE k + 1 \in good
  <2>1. k + 1 \in 0..MaxDepth /\ 0 \in 0..MaxDepth /\ 0 <= k + 1
    BY <1>3, <1>7
  <2>2. ASSUME NEW g \in Filters, Height[g] <= k + 1 PROVE p[g] \in lv[k + 1] \cup {Malformed}
    <3>1. \A e \in Shallower(Height[g]) : e \in Filters /\ Height[e] <= k
      <4>1. k \in Nat /\ k + 1 \in Nat /\ Height[g] \in Nat
        BY <1>7, HeightsAre
      <4>2. Shallower(Height[g]) \subseteq Shallower(k + 1)
        BY <2>2, <4>1, HeightsAre
      <4>3. Shallower(k + 1) \subseteq Filters
        BY DEF Shallower
      <4> QED
        BY <4>1, <4>2, <4>3, HeightsAre
    <3>2. \A e \in Shallower(Height[g]) : p[e] \in lv[k] \cup {Malformed}
      BY <1>5, <1>7, <3>1
    <3>3. g # <<>> /\ g[1] \in Joiners => \A i \in 2..Len(g) : p[g[i]] \in lv[k] \cup {Malformed}
      BY <1>3, <3>2 DEF JoinsOf
    <3>4. p[g] = Malformed \/ p[g] \in Comparisons \/ Joined(p[g], lv[k])
      BY <1>1, <3>3, ParsedInto
    <3>5. Comparisons \subseteq lv[k + 1] /\ lv[k + 1] = TreesOver(lv[k])
      BY <1>4, <1>7, <2>1
    <3> QED
      BY <3>4, <3>5 DEF Joined, TreesOver
  <2> QED
    BY <1>5, <2>1, <2>2
<1>8. Climbs(good, MaxDepth)
  BY <1>6, <1>7 DEF Climbs
<1>9. MaxDepth \in good
  BY <1>3, <1>8, Upwards
<1>10. Height[f] <= MaxDepth
  BY <1>3
<1>11. p[f] \in lv[MaxDepth] \cup {Malformed}
  BY <1>5, <1>9, <1>10
<1> QED
  BY <1>1, <1>4, <1>11
-----------------------------------------------------------------------------
(* A clause says of a row what its condition says.                         *)

IsList(s) == Len(s) \in Nat /\ s = [i \in 1..Len(s) |-> s[i]]

LEMMA ListsAre ==
  ASSUME NEW s, IsList(s), NEW t, IsList(t)
  PROVE  /\ IsList(s \o t) /\ Len(s \o t) = Len(s) + Len(t)
         /\ \A i \in 1..Len(s) : (s \o t)[i] = s[i]
         /\ \A i \in 1..Len(t) : (s \o t)[Len(s) + i] = t[i]
<1>1. PICK S : S = {s[i] : i \in 1..Len(s)} \cup {t[i] : i \in 1..Len(t)}
  OBVIOUS
<1>2. PICK m, n : m = Len(s) /\ n = Len(t)
  OBVIOUS
<1>3. m \in Nat /\ n \in Nat /\ s = [i \in 1..m |-> s[i]] /\ t = [i \in 1..n |-> t[i]]
  BY <1>2 DEF IsList
<1>4. s \in Seq(S) /\ t \in Seq(S)
  <2>1. (\A i \in 1..m : s[i] \in S) /\ \A i \in 1..n : t[i] \in S
    BY <1>1, <1>2
  <2>2. s \in Seq(S)
    BY <1>3, <2>1
  <2>3. t \in Seq(S)
    BY <1>3, <2>1
  <2> QED
    BY <2>2, <2>3
<1>5. PICK u : u = s \o t
  OBVIOUS
<1>6. u \in Seq(S) /\ Len(u) = m + n /\ \A i \in 1..(m + n) : u[i] = IF i <= m THEN s[i] ELSE t[i - m]
  BY <1>2, <1>4, <1>5, ConcatProperties
<1>7. ASSUME NEW i \in 1..m PROVE u[i] = s[i]
  <2>1. i \in 1..(m + n) /\ i <= m
    BY <1>3
  <2> QED
    BY <1>6, <2>1
<1>9. ASSUME NEW i \in 1..n PROVE u[m + i] = t[i]
  <2>1. m + i \in 1..(m + n) /\ ~(m + i <= m) /\ (m + i) - m = i
    BY <1>3
  <2> QED
    BY <1>6, <2>1
<1>8. IsList(u)
  BY <1>6 DEF IsList
<1> QED
  BY <1>2, <1>5, <1>6, <1>7, <1>8, <1>9

\* Items are among the parameters from $(n + 1) on.
Carries(q, n, items) == \A i \in 1..Len(items) : q[n + i] = items[i]

LEMMA CarriesBoth ==
  ASSUME NEW q, NEW n \in Nat, NEW s, IsList(s), NEW t, IsList(t), Carries(q, n, s \o t)
  PROVE  Carries(q, n, s) /\ Carries(q, n + Len(s), t)
<1>1. PICK u, l, m : u = s \o t /\ l = Len(s) /\ m = Len(t)
  OBVIOUS
<1>2. Len(u) = l + m /\ (\A i \in 1..l : u[i] = s[i]) /\ \A i \in 1..m : u[l + i] = t[i]
  BY <1>1, ListsAre
<1>3. l \in Nat /\ m \in Nat
  BY <1>1 DEF IsList
<1>4. \A i \in 1..(l + m) : q[n + i] = u[i]
  BY <1>1, <1>2 DEF Carries
<1>5. \A i \in 1..l : q[n + i] = s[i]
  BY <1>2, <1>3, <1>4
<1>6. ASSUME NEW i \in 1..m PROVE q[(n + l) + i] = t[i]
  <2>1. l + i \in 1..(l + m) /\ n + (l + i) = (n + l) + i
    BY <1>3
  <2> QED
    BY <1>2, <1>4, <2>1
<1> QED
  BY <1>1, <1>5, <1>6 DEF Carries

FullRow(row) == row \in Rows /\ \A f \in DOMAIN row : ~IsNull(row[f])

LEMMA ComparisonsAre ==
  ASSUME NEW c \in Comparisons
  PROVE  /\ c.operator \in Operators /\ c.field \in DOMAIN ColumnType /\ IsList(c.value.items)
         /\ c.operator \notin {"in", "not in"} => Len(c.value.items) = 1
<1>1. PICK f \in Filters : IsComparison(f) /\ c = ComparisonOf(f)
  BY DEF Comparisons
<1>2. c.operator = f[2] /\ c.field = f[1] /\ c.value = f[3]
  BY <1>1 DEF ComparisonOf
<1>3. f[2] \in Operators /\ f[1] \in DOMAIN ColumnType
  BY <1>1 DEF IsComparison, OperatorIsValid, FieldIsValid
<1>4. PICK items : items = f[3].items
  OBVIOUS
<1>5. /\ Len(items) \in Nat /\ items = [i \in 1 .. Len(items) |-> items[i]]
      /\ f[2] \notin {"in", "not in"} => Len(items) = 1
  BY <1>1, <1>4, FiltersAssumption, Zenon
<1> QED
  BY <1>2, <1>3, <1>4, <1>5 DEF IsList

\* A cell and an item of the column's type are told apart by both sides alike.
LEMMA CellsAgree ==
  ASSUME NEW row, FullRow(row), NEW f \in DOMAIN ColumnType, NEW item, item.type = ColumnType[f]
  PROVE  /\ ~IsNull(row[f])
         /\ CoerceEqual(row[f], item) <=> row[f].v = item.v
         /\ CoerceLess(row[f], item) <=> SqlLess(ColumnType[f], row[f].v, item.v)
         /\ CoerceLess(item, row[f]) <=> SqlLess(ColumnType[f], item.v, row[f].v)
<1>1. PICK cell, type : cell = row[f] /\ type = ColumnType[f]
  OBVIOUS
<1>2. type \in {"num", "text"} /\ cell.type \in {type, "null"} /\ f \in DOMAIN row
  <2>1. row \in Rows
    BY DEF FullRow
  <2>2. DOMAIN row = DOMAIN ColumnType /\ \A e \in DOMAIN row : row[e].type \in {ColumnType[e], "null"}
    BY <2>1, RowsAssumption
  <2>3. ColumnType[f] \in {"num", "text"}
    BY RowsAssumption
  <2> QED
    BY <1>1, <2>2, <2>3
<1>3. cell.type = type /\ item.type = type /\ type # "null"
  BY <1>1, <1>2 DEF FullRow, IsNull
<1>4. ~IsNull(cell) /\ ~IsNull(item)
  BY <1>3 DEF IsNull
<1>5. CoerceEqual(cell, item) <=> cell.v = item.v
  BY <1>4 DEF CoerceEqual
<1>6. CASE type = "num"
  <2>1. CoerceLess(cell, item) <=> cell.v < item.v
    BY <1>3, <1>4, <1>6 DEF CoerceLess
  <2>2. CoerceLess(item, cell) <=> item.v < cell.v
    BY <1>3, <1>4, <1>6 DEF CoerceLess
  <2>3. \A u, v : SqlLess(type, u, v) <=> u < v
    BY <1>6 DEF SqlLess
  <2> QED
    BY <1>1, <1>4, <1>5, <2>1, <2>2, <2>3
<1>7. CASE type = "text"
  <2>1. CoerceLess(cell, item) <=> TextRank[cell.v] < TextRank[item.v]
    BY <1>3, <1>4, <1>7 DEF CoerceLess
  <2>2. CoerceLess(item, cell) <=> TextRank[item.v] < TextRank[cell.v]
    BY <1>3, <1>4, <1>7 DEF CoerceLess
  <2>3. \A u, v : SqlLess(type, u, v) <=> TextRank[u] < TextRank[v]
    BY <1>7 DEF SqlLess
  <2> QED
    BY <1>1, <1>4, <1>5, <2>1, <2>2, <2>3
<1> QED
  BY <1>2, <1>6, <1>7

LEMMA LeavesAgree ==
  ASSUME NEW c \in Comparisons, IsTyped(c), NEW n \in Nat, NEW q, Carries(q, n, c.value.items),
         NEW row, FullRow(row), NEW leaf, leaf = CompileLeaf(c, n).sql
  PROVE  ClauseHolds(leaf, q, row) <=> MatchLeaf(c, row)
<1>1. PICK items, f, op, cell, type :
        items = c.value.items /\ f = c.field /\ op = c.operator /\ cell = row[f] /\ type = ColumnType[f]
  OBVIOUS
<1>2. /\ op \in Operators /\ f \in DOMAIN ColumnType /\ Len(items) \in Nat
      /\ op \notin {"in", "not in"} => Len(items) = 1
  BY <1>1, ComparisonsAre DEF IsList
<1>3. PICK marks : marks = Marks(n, items)
  OBVIOUS
<1>4. Len(marks) = Len(items) /\ \A i \in 1..Len(items) : marks[i] = n + i
  <2>1. PICK l : l = Len(items)
    OBVIOUS
  <2>2. marks = [i \in 1..l |-> n + i] /\ l \in Nat
    BY <1>2, <1>3, <2>1 DEF Marks
  <2>3. \A i \in 1..l : marks[i] = n + i
    BY <2>2
  <2>4. Len(marks) = l
    BY <2>2
  <2> QED
    BY <2>1, <2>3, <2>4
<1>5. leaf.operator = op /\ leaf.field = f /\ leaf.marks = marks
  BY <1>1, <1>3 DEF CompileLeaf
<1>6. \A i \in 1..Len(items) : q[marks[i]] = items[i]
  BY <1>1, <1>4 DEF Carries
<1>7. \A i \in 1..Len(items) : items[i].type = ColumnType[f]
  BY <1>1 DEF IsTyped
<1>8. ASSUME NEW i \in 1..Len(items)
      PROVE  /\ ~IsNull(cell) /\ (CoerceEqual(cell, items[i]) <=> cell.v = q[marks[i]].v)
             /\ CoerceLess(cell, items[i]) <=> SqlLess(type, cell.v, q[marks[i]].v)
             /\ CoerceLess(items[i], cell) <=> SqlLess(type, q[marks[i]].v, cell.v)
  <2>1. PICK item : item = items[i]
    OBVIOUS
  <2>2. item.type = ColumnType[f] /\ q[marks[i]] = item
    BY <1>6, <1>7, <2>1
  <2>3. /\ ~IsNull(row[f])
        /\ CoerceEqual(row[f], item) <=> row[f].v = item.v
        /\ CoerceLess(row[f], item) <=> SqlLess(ColumnType[f], row[f].v, item.v)
        /\ CoerceLess(item, row[f]) <=> SqlLess(ColumnType[f], item.v, row[f].v)
    BY <1>2, <2>2, CellsAgree
  <2> QED
    BY <1>1, <2>1, <2>2, <2>3
<1>9. CASE op \in {"in", "not in"}
  <2>1. (\E i \in 1..Len(items) : CoerceEqual(cell, items[i])) <=> \E i \in 1..Len(marks) : cell.v = q[marks[i]].v
    BY <1>4, <1>8
  <2>2. op = "in" => (MatchLeaf(c, row) <=> \E i \in 1..Len(items) : CoerceEqual(cell, items[i]))
    BY <1>1 DEF MatchLeaf
  <2>3. op = "not in" => (MatchLeaf(c, row) <=> ~\E i \in 1..Len(items) : CoerceEqual(cell, items[i]))
    BY <1>1 DEF MatchLeaf
  <2>4. op = "in" => (ClauseHolds(leaf, q, row) <=> \E i \in 1..Len(marks) : cell.v = q[marks[i]].v)
    BY <1>1, <1>5 DEF ClauseHolds
  <2>5. op = "not in" => (ClauseHolds(leaf, q, row) <=> ~\E i \in 1..Len(marks) : cell.v = q[marks[i]].v)
    BY <1>1, <1>5 DEF ClauseHolds
  <2> QED
    BY <1>9, <2>1, <2>2, <2>3, <2>4, <2>5
<1>10. CASE op \notin {"in", "not in"}
  <2>1. PICK item, u, v : item = items[1] /\ u = q[marks[1]].v /\ v = cell.v
    OBVIOUS
  <2>2. 1 \in 1..Len(items)
    <3>1. Len(items) = 1
      BY <1>2, <1>10, Zenon
    <3> QED
      BY <3>1
  <2>3. /\ ~IsNull(cell) /\ (CoerceEqual(cell, item) <=> v = u) /\ item.v = u
        /\ CoerceLess(cell, item) <=> SqlLess(type, v, u)
        /\ CoerceLess(item, cell) <=> SqlLess(type, u, v)
    BY <1>6, <1>8, <2>1, <2>2
  <2>4. MatchLeaf(c, row) <=>
          CASE op = "=" -> CoerceEqual(cell, item)
            [] op = "!=" -> ~CoerceEqual(cell, item)
            [] op = ">" -> CoerceLess(item, cell)
            [] op = "<" -> CoerceLess(cell, item)
            [] op = ">=" -> ~CoerceLess(cell, item)
            [] op = "<=" -> ~CoerceLess(item, cell)
            [] OTHER -> ~IsNull(cell) /\ <<item.v, cell.v>> \in Within
    BY <1>1, <1>10, <2>1 DEF MatchLeaf
  <2>5. ClauseHolds(leaf, q, row) <=>
          CASE op = "=" -> v = u
            [] op = "!=" -> v # u
            [] op = ">" -> SqlLess(type, u, v)
            [] op = "<" -> SqlLess(type, v, u)
            [] op = ">=" -> ~SqlLess(type, v, u)
            [] op = "<=" -> ~SqlLess(type, u, v)
            [] OTHER -> <<u, v>> \in Within
    BY <1>1, <1>5, <1>10, <2>1 DEF ClauseHolds
  <2> QED
    BY <2>1, <2>3, <2>4, <2>5
<1> QED
  BY <1>9, <1>10

LEMMA TreesMore ==
  ASSUME NEW S, NEW T, S \subseteq T
  PROVE  Trees(S) \subseteq Trees(T)
<1>0. MaxDepth \in Nat
  BY FiltersAssumption, Zenon
<1>1. PICK lv : Levels(lv, S)
  BY TreesAre
<1>2. PICK tv : Levels(tv, T)
  BY TreesAre
<1>3. /\ lv[0] = S /\ tv[0] = T /\ Trees(S) = lv[MaxDepth] /\ Trees(T) = tv[MaxDepth]
      /\ \A k \in 0..MaxDepth : k < MaxDepth => lv[k + 1] = TreesOver(lv[k]) /\ tv[k + 1] = TreesOver(tv[k])
  BY <1>1, <1>2 DEF Levels
<1>4. PICK good : good = {k \in 0..MaxDepth : lv[k] \subseteq tv[k]}
  OBVIOUS
<1>5. 0 \in good
  BY <1>0, <1>3, <1>4
<1>6. ASSUME NEW k \in 0..MaxDepth, k \in good, k < MaxDepth PROVE k + 1 \in good
  <2>1. PICK a, b : a = lv[k] /\ b = tv[k]
    OBVIOUS
  <2>2. a \subseteq b /\ k + 1 \in 0..MaxDepth
    BY <1>0, <1>4, <1>6, <2>1
  <2>3. \A d : Joined(d, a) => Joined(d, b)
    BY <2>2, JoinedMore
  <2>4. TreesOver(a) \subseteq TreesOver(b)
    BY <2>2, <2>3 DEF TreesOver, Joined
  <2> QED
    BY <1>3, <1>4, <1>6, <2>1, <2>2, <2>4
<1>7. Climbs(good, MaxDepth)
  BY <1>5, <1>6 DEF Climbs
<1>8. MaxDepth \in good
  BY <1>0, <1>7, Upwards
<1> QED
  BY <1>3, <1>4, <1>8

Truths(q, row) == [c \in Clauses |-> ClauseHolds(c, q, row)]

\* Wherever its items are put, the clause of d is in S and says of the row what d says.
Agrees(d, comp, S, row) ==
  \A n \in Nat :
    /\ comp[d][n].sql \in S /\ IsList(comp[d][n].params)
    /\ \A q : Carries(q, n, comp[d][n].params) => (Decided(comp[d][n].sql, Truths(q, row)) <=> EvaluateCondition(d, row))

LEMMA ClausesAre ==
  /\ AreLeaves(Clauses) /\ \A q, row : DOMAIN Truths(q, row) = Clauses
  /\ \A q, row : \A c \in Clauses : Truths(q, row)[c] = ClauseHolds(c, q, row)
<1>1. \A c \in Clauses : c.operator \in Operators
  BY DEF Clauses
<1>2. AreLeaves(Clauses)
  BY <1>1 DEF AreLeaves, Operators, Joiners
<1> QED
  BY <1>2 DEF Truths

LEMMA LeafAgrees ==
  ASSUME NEW c \in Comparisons, IsTyped(c), NEW row, FullRow(row), NEW comp, comp[c] = CompiledAt(comp, c)
  PROVE  Agrees(c, comp, Clauses, row)
<1> SUFFICES ASSUME NEW n \in Nat
             PROVE  /\ comp[c][n].sql \in Clauses /\ IsList(comp[c][n].params)
                    /\ \A q : Carries(q, n, comp[c][n].params) =>
                         (Decided(comp[c][n].sql, Truths(q, row)) <=> EvaluateCondition(c, row))
  BY Zenon DEF Agrees
<1>1. c.operator \notin Joiners
  BY ComparisonsAreLeaves DEF AreLeaves
<1>2. comp[c][n] = CompileLeaf(c, n)
  BY <1>1 DEF CompiledAt
<1>3. PICK leaf, items : leaf = CompileLeaf(c, n).sql /\ items = c.value.items
  OBVIOUS
<1>4. comp[c][n].sql = leaf /\ comp[c][n].params = items
  BY <1>2, <1>3 DEF CompileLeaf
<1>5. c.operator \in Operators /\ c.field \in DOMAIN ColumnType /\ IsList(items)
  BY <1>3, ComparisonsAre
<1>6. leaf \in Clauses
  <2>1. PICK marks : marks = Marks(n, items)
    OBVIOUS
  <2>2. PICK l : l = Len(items)
    OBVIOUS
  <2>3. l \in Nat /\ marks = [i \in 1..l |-> n + i]
    BY <1>5, <2>1, <2>2 DEF IsList, Marks
  <2>4. marks \in Seq(Nat)
    BY <2>3
  <2>5. leaf = [operator |-> c.operator, field |-> c.field, marks |-> marks]
    BY <1>3, <2>1 DEF CompileLeaf
  <2> QED
    BY <1>5, <2>4, <2>5 DEF Clauses
<1>7. ASSUME NEW q, Carries(q, n, items) PROVE Decided(leaf, Truths(q, row)) <=> EvaluateCondition(c, row)
  <2>1. PICK truth : truth = Truths(q, row)
    OBVIOUS
  <2>2. AreLeaves(Clauses) /\ Clauses = DOMAIN truth /\ truth[leaf] = ClauseHolds(leaf, q, row)
    BY <1>6, <2>1, ClausesAre
  <2>3. Decided(leaf, truth) = truth[leaf]
    BY <1>6, <2>2, DecidedIs
  <2>4. PICK seen : seen = [l \in Comparisons |-> MatchLeaf(l, row)]
    OBVIOUS
  <2>5. Comparisons = DOMAIN seen /\ seen[c] = MatchLeaf(c, row)
    BY <2>4
  <2>6. Decided(c, seen) = seen[c]
    BY <2>5, ComparisonsAreLeaves, DecidedIs
  <2>7. EvaluateCondition(c, row) = Decided(c, seen)
    BY <2>4 DEF EvaluateCondition
  <2>8. ClauseHolds(leaf, q, row) <=> MatchLeaf(c, row)
    BY <1>3, <1>7, LeavesAgree
  <2>9. Decided(leaf, truth) = ClauseHolds(leaf, q, row)
    BY <2>2, <2>3
  <2>10. EvaluateCondition(c, row) = MatchLeaf(c, row)
    BY <2>5, <2>6, <2>7
  <2> QED
    BY <2>1, <2>8, <2>9, <2>10
<1> QED
  BY <1>4, <1>5, <1>6, <1>7

\* The first j of cs are compiled.
AllAgree(r, cs, j, n, S, row) ==
  /\ IsList(r.params) /\ r.sql \in Seq(S) /\ Len(r.sql) = j
  /\ \A q : Carries(q, n, r.params) =>
       \A i \in 1..j : Decided(r.sql[i], Truths(q, row)) <=> EvaluateCondition(cs[i], row)

LEMMA OneAgrees ==
  ASSUME NEW comp, NEW cs, NEW j \in Nat, NEW n \in Nat, NEW S, NEW row, NEW old, AllAgree(old, cs, j, n, S, row),
         Agrees(cs[j + 1], comp, S, row)
  PROVE  AllAgree(DoneNext(old, comp, cs, n, j + 1), cs, j + 1, n, S, row)
<1>1. PICK p, m, next, d : p = old.params /\ m = n + Len(p) /\ d = cs[j + 1] /\ next = comp[d][m]
  OBVIOUS
<1>2. PICK r : r = DoneNext(old, comp, cs, n, j + 1)
  OBVIOUS
<1>3. r.sql = Append(old.sql, next.sql) /\ r.params = p \o next.params
  BY <1>1, <1>2 DEF DoneNext, OneDone
<1>4. IsList(p) /\ old.sql \in Seq(S) /\ Len(old.sql) = j
  BY <1>1 DEF AllAgree
<1>5. m \in Nat
  BY <1>1, <1>4 DEF IsList
<1>6. /\ next.sql \in S /\ IsList(next.params)
      /\ \A q : Carries(q, m, next.params) => (Decided(next.sql, Truths(q, row)) <=> EvaluateCondition(d, row))
  BY <1>1, <1>5 DEF Agrees
<1>7. IsList(r.params)
  BY <1>3, <1>4, <1>6, ListsAre
<1>8. PICK s, t, u : s = old.sql /\ t = next.sql /\ u = r.sql
  OBVIOUS
<1>9. s \in Seq(S) /\ t \in S /\ u = Append(s, t) /\ Len(s) = j
  BY <1>3, <1>4, <1>6, <1>8
<1>10. u \in Seq(S) /\ Len(u) = j + 1
  BY <1>9
<1>11. u[j + 1] = t
  BY <1>9
<1>12. ASSUME NEW i \in 1..j PROVE u[i] = s[i]
  BY <1>9
<1>13. ASSUME NEW q, Carries(q, n, r.params), NEW i \in 1..(j + 1)
       PROVE  Decided(u[i], Truths(q, row)) <=> EvaluateCondition(cs[i], row)
  <2>1. Carries(q, n, p) /\ Carries(q, m, next.params)
    <3>1. PICK more : more = next.params
      OBVIOUS
    <3>2. IsList(p) /\ IsList(more) /\ Carries(q, n, p \o more)
      BY <1>3, <1>4, <1>6, <1>13, <3>1
    <3>3. Carries(q, n, p) /\ Carries(q, n + Len(p), more)
      BY <3>2, CarriesBoth
    <3> QED
      BY <1>1, <3>1, <3>3
  <2>2. CASE i = j + 1
    BY <1>1, <1>6, <1>8, <1>11, <2>1, <2>2
  <2>3. CASE i # j + 1
    <3>1. i \in 1..j
      BY <2>3
    <3>2. \A h \in 1..j : Decided(s[h], Truths(q, row)) <=> EvaluateCondition(cs[h], row)
      BY <1>1, <1>8, <2>1 DEF AllAgree
    <3> QED
      BY <1>12, <3>1, <3>2
  <2> QED
    BY <2>2, <2>3
<1> QED
  BY <1>2, <1>7, <1>8, <1>10, <1>13 DEF AllAgree

LEMMA ManyAgree ==
  ASSUME NEW T, NEW cs \in Seq(T), NEW comp, NEW S, NEW row, \A x \in T : Agrees(x, comp, S, row), NEW n \in Nat
  PROVE  AllAgree(CompileAll(comp, cs, n), cs, Len(cs), n, S, row)
<1>1. PICK l : l = Len(cs)
  OBVIOUS
<1>2. l \in Nat /\ \A j \in 1..l : Agrees(cs[j], comp, S, row)
  BY <1>1
<1>3. PICK a : DoneBy(a, comp, cs, n, l) /\ CompileAll(comp, cs, n) = a[l]
  BY <1>1, <1>2, CompileAllIs
<1>4. PICK good : good = {j \in 0..l : AllAgree(a[j], cs, j, n, S, row)}
  OBVIOUS
<1>5. AllAgree(NoneDone, cs, 0, n, S, row)
  <2>1. NoneDone.params = <<>> /\ NoneDone.sql = <<>>
    BY DEF NoneDone
  <2>2. IsList(<<>>)
    BY DEF IsList
  <2>3. <<>> \in Seq(S) /\ Len(<<>>) = 0
    BY EmptySeq
  <2> QED
    BY <2>1, <2>2, <2>3 DEF AllAgree
<1>6. 0 \in good
  BY <1>2, <1>3, <1>4, <1>5 DEF DoneBy
<1>7. ASSUME NEW j \in 0..l, j \in good, j < l PROVE j + 1 \in good
  <2>1. j \in Nat /\ j + 1 \in 1..l /\ j + 1 \in 0..l /\ (j + 1) - 1 = j
    BY <1>2, <1>7
  <2>2. AllAgree(a[j], cs, j, n, S, row) /\ Agrees(cs[j + 1], comp, S, row)
    BY <1>2, <1>4, <1>7, <2>1
  <2>3. AllAgree(DoneNext(a[j], comp, cs, n, j + 1), cs, j + 1, n, S, row)
    BY <2>1, <2>2, OneAgrees
  <2>4. a[j + 1] = DoneNext(a[j], comp, cs, n, j + 1)
    BY <1>3, <2>1 DEF DoneBy
  <2> QED
    BY <1>4, <2>1, <2>3, <2>4
<1>8. Climbs(good, l)
  BY <1>6, <1>7 DEF Climbs
<1>9. l \in good
  BY <1>2, <1>8, Upwards
<1> QED
  BY <1>1, <1>3, <1>4, <1>9

LEMMA JoinedAgrees ==
  ASSUME NEW d \in Trees(Comparisons), NEW T, Joined(d, T), NEW comp, comp[d] = CompiledAt(comp, d),
         NEW S, TreesOver(S) \subseteq Trees(Clauses), NEW row, \A x \in T : Agrees(x, comp, S, row)
  PROVE  Agrees(d, comp, TreesOver(S), row)
<1> SUFFICES ASSUME NEW n \in Nat
             PROVE  /\ comp[d][n].sql \in TreesOver(S) /\ IsList(comp[d][n].params)
                    /\ \A q : Carries(q, n, comp[d][n].params) =>
                         (Decided(comp[d][n].sql, Truths(q, row)) <=> EvaluateCondition(d, row))
  BY Zenon DEF Agrees
<1>1. PICK cs, l : cs = d.conditions /\ l = Len(cs)
  OBVIOUS
<1>2. d.operator \in Joiners /\ cs \in Seq(T) /\ l \in Nat \ {0} /\ 1 \in 1..l
  BY <1>1, ConditionsAre
<1>3. PICK all : all = CompileAll(comp, cs, n)
  OBVIOUS
<1>4. AllAgree(all, cs, l, n, S, row)
  BY <1>1, <1>2, <1>3, ManyAgree
<1>5. comp[d][n] = ClauseOf(d, all)
  BY <1>1, <1>2, <1>3 DEF CompiledAt
<1>6. PICK s : s = comp[d][n].sql
  OBVIOUS
<1>7. /\ s = [operator |-> d.operator, conditions |-> all.sql] /\ comp[d][n].params = all.params
      /\ s.operator = d.operator /\ s.conditions = all.sql
  BY <1>5, <1>6 DEF ClauseOf
<1>8. all.sql \in Seq(S) /\ Len(all.sql) = l /\ IsList(all.params)
  BY <1>4 DEF AllAgree
<1>9. all.sql \in Seq(S) \ {<<>>}
  BY <1>2, <1>8, EmptySeq
<1>10. s \in TreesOver(S) /\ s \in Trees(Clauses)
  BY <1>2, <1>7, <1>9 DEF TreesOver
<1>11. ASSUME NEW q, Carries(q, n, all.params) PROVE Decided(s, Truths(q, row)) <=> EvaluateCondition(d, row)
  <2>1. PICK truth, seen : truth = Truths(q, row) /\ seen = [c \in Comparisons |-> MatchLeaf(c, row)]
    OBVIOUS
  <2>2. Clauses = DOMAIN truth /\ AreLeaves(Clauses) /\ Comparisons = DOMAIN seen
    BY <2>1, ClausesAre
  <2>3. \A c : EvaluateCondition(c, row) = Decided(c, seen)
    BY <2>1 DEF EvaluateCondition
  <2>4. PICK parts : parts = all.sql
    OBVIOUS
  <2>5. \A i \in 1..l : Decided(parts[i], truth) <=> EvaluateCondition(cs[i], row)
    BY <1>4, <1>11, <2>1, <2>4 DEF AllAgree
  <2>6. \A i \in 1..l : Decided(parts[i], truth) <=> Decided(cs[i], seen)
    BY <2>3, <2>5
  <2>7. /\ s.operator = "&" => (Decided(s, truth) <=> \A i \in 1..l : Decided(parts[i], truth))
        /\ s.operator = "|" => (Decided(s, truth) <=> \E i \in 1..l : Decided(parts[i], truth))
        /\ s.operator = "!" => (Decided(s, truth) <=> ~Decided(parts[1], truth))
    <3>1. s.operator \in Joiners /\ s.conditions = parts /\ Len(s.conditions) = l
      BY <1>2, <1>7, <1>8, <2>4
    <3>2. /\ s.operator = "&" => (Decided(s, truth) <=> \A i \in 1..Len(s.conditions) : Decided(s.conditions[i], truth))
          /\ s.operator = "|" => (Decided(s, truth) <=> \E i \in 1..Len(s.conditions) : Decided(s.conditions[i], truth))
          /\ s.operator = "!" => (Decided(s, truth) <=> ~Decided(s.conditions[1], truth))
      BY <1>10, <2>2, <3>1, DecidedIs
    <3> QED
      BY <3>1, <3>2
  <2>8. /\ d.operator = "&" => (Decided(d, seen) <=> \A i \in 1..l : Decided(cs[i], seen))
        /\ d.operator = "|" => (Decided(d, seen) <=> \E i \in 1..l : Decided(cs[i], seen))
        /\ d.operator = "!" => (Decided(d, seen) <=> ~Decided(cs[1], seen))
    <3>1. /\ d.operator = "&" => (Decided(d, seen) <=> \A i \in 1..Len(d.conditions) : Decided(d.conditions[i], seen))
          /\ d.operator = "|" => (Decided(d, seen) <=> \E i \in 1..Len(d.conditions) : Decided(d.conditions[i], seen))
          /\ d.operator = "!" => (Decided(d, seen) <=> ~Decided(d.conditions[1], seen))
      BY <1>2, <2>2, ComparisonsAreLeaves, DecidedIs
    <3> QED
      BY <1>1, <3>1
  <2>9. Decided(s, truth) <=> Decided(d, seen)
    <3>1. CASE d.operator = "&"
      BY <1>7, <2>6, <2>7, <2>8, <3>1
    <3>2. CASE d.operator = "|"
      BY <1>7, <2>6, <2>7, <2>8, <3>2
    <3>3. CASE d.operator = "!"
      BY <1>2, <1>7, <2>6, <2>7, <2>8, <3>3
    <3> QED
      BY <1>2, <3>1, <3>2, <3>3 DEF Joiners
  <2> QED
    BY <2>1, <2>3, <2>9
<1> QED
  BY <1>6, <1>7, <1>8, <1>10, <1>11

LEMMA AgreesMore ==
  ASSUME NEW S, NEW T, S \subseteq T, NEW d, NEW comp, NEW row, Agrees(d, comp, S, row)
  PROVE  Agrees(d, comp, T, row)
BY DEF Agrees

LEMMA TreesAgree ==
  ASSUME NEW comp, \A d \in Trees(Comparisons) : comp[d] = CompiledAt(comp, d), NEW row, FullRow(row)
  PROVE  \A d : Typed(d) => Agrees(d, comp, Trees(Clauses), row)
<1>0. MaxDepth \in Nat
  BY FiltersAssumption, Zenon
<1>1. PICK typed : typed = {l \in Comparisons : IsTyped(l)}
  OBVIOUS
<1>2. PICK lv : Levels(lv, typed)
  BY TreesAre
<1>3. PICK sv : Levels(sv, Clauses)
  BY TreesAre
<1>4. /\ lv[0] = typed /\ sv[0] = Clauses /\ Trees(typed) = lv[MaxDepth] /\ Trees(Clauses) = sv[MaxDepth]
      /\ \A k \in 0..MaxDepth : k < MaxDepth => lv[k + 1] = TreesOver(lv[k]) /\ sv[k + 1] = TreesOver(sv[k])
      /\ \A j, k \in 0..MaxDepth : j <= k => lv[j] \subseteq lv[k] /\ sv[j] \subseteq sv[k]
  BY <1>2, <1>3 DEF Levels
<1>5. Trees(typed) \subseteq Trees(Comparisons)
  BY <1>1, TreesMore
<1>6. \A k \in 0..MaxDepth : k <= MaxDepth /\ lv[k] \subseteq Trees(Comparisons) /\ sv[k] \subseteq Trees(Clauses)
  <2>1. MaxDepth \in 0..MaxDepth /\ \A k \in 0..MaxDepth : k <= MaxDepth
    BY <1>0
  <2> QED
    BY <1>4, <1>5, <2>1
<1>7. PICK good : good = {k \in 0..MaxDepth : \A d \in lv[k] : Agrees(d, comp, sv[k], row)}
  OBVIOUS
<1>8. 0 \in good
  <2>1. 0 \in 0..MaxDepth
    BY <1>0
  <2>2. ASSUME NEW d \in typed PROVE Agrees(d, comp, Clauses, row)
    <3>1. d \in Comparisons /\ IsTyped(d) /\ comp[d] = CompiledAt(comp, d)
      BY <1>1, <1>4, <1>6, <2>1
    <3> QED
      BY <3>1, LeafAgrees
  <2> QED
    BY <1>4, <1>7, <2>1, <2>2
<1>9. ASSUME NEW k \in 0..MaxDepth, k \in good, k < MaxDepth PROVE k + 1 \in good
  <2>1. k + 1 \in 0..MaxDepth
    BY <1>0, <1>9
  <2>2. PICK T, S : T = lv[k] /\ S = sv[k]
    OBVIOUS
  <2>3. lv[k + 1] = TreesOver(T) /\ sv[k + 1] = TreesOver(S) /\ TreesOver(T) \subseteq Trees(Comparisons) /\ TreesOver(S) \subseteq Trees(Clauses)
    BY <1>4, <1>6, <1>9, <2>1, <2>2
  <2>4. \A x \in T : Agrees(x, comp, S, row)
    BY <1>7, <1>9, <2>2
  <2>5. ASSUME NEW d \in TreesOver(T) PROVE Agrees(d, comp, TreesOver(S), row)
    <3>1. d \in Trees(Comparisons) /\ comp[d] = CompiledAt(comp, d)
      BY <2>3
    <3>2. d \in T \/ Joined(d, T)
      BY DEF TreesOver, Joined
    <3>3. CASE d \in T
      <4>1. S \subseteq TreesOver(S)
        BY DEF TreesOver
      <4> QED
        BY <2>4, <3>3, <4>1, AgreesMore
    <3>4. CASE Joined(d, T)
      BY <2>3, <2>4, <3>1, <3>4, JoinedAgrees
    <3> QED
      BY <3>2, <3>3, <3>4
  <2> QED
    BY <1>7, <2>1, <2>3, <2>5
<1>10. Climbs(good, MaxDepth)
  BY <1>8, <1>9 DEF Climbs
<1>11. MaxDepth \in good
  BY <1>0, <1>10, Upwards
<1> QED
  BY <1>1, <1>4, <1>7, <1>11 DEF Typed

\* What is known of a rule once it is parsed, and of its clause once it is generated.
RuleSound(r, c, w) ==
  /\ r = [at |-> r.at, filter |-> r.filter, tenant |-> r.tenant]
  /\ r.at = "given" => r.filter \in Filters
  /\ r.at \in {"parsed", "compiled"} => c \in Trees(Comparisons)
  /\ r.at = "compiled" =>
       LET tenant == TenantClause(r.tenant)
           all == CompileCondition(c, Len(tenant.params))
       IN w = [sql |-> Append(tenant.sql, all.sql), params |-> tenant.params \o all.params]

LEMMA TenantsAre ==
  ASSUME NEW t
  PROVE  /\ IsList(TenantClause(t).params) /\ Len(TenantClause(t).params) \in {0, 1}
         /\ t = NoTenant => TenantClause(t).params = <<>> /\ TenantClause(t).sql = <<>>
         /\ t # NoTenant => /\ TenantClause(t).params = <<t>>
                            /\ TenantClause(t).sql = <<[operator |-> "tenant", marks |-> <<1>>]>>
<1>1. CASE t = NoTenant
  BY <1>1 DEF TenantClause, IsList
<1>2. CASE t # NoTenant
  BY <1>2 DEF TenantClause, IsList
<1> QED
  BY <1>1, <1>2

LEMMA TreesOfClauses ==
  ASSUME NEW s \in Trees(Clauses)
  PROVE  s.operator # "tenant"
<1>0. MaxDepth \in Nat /\ MaxDepth \in 0..MaxDepth
  <2>1. MaxDepth \in Nat
    BY FiltersAssumption, Zenon
  <2> QED
    BY <2>1
<1>1. PICK sv : Levels(sv, Clauses)
  BY TreesAre
<1>2. NodeAt(s, Clauses, sv, MaxDepth)
  <2>1. s \in sv[MaxDepth]
    BY <1>1 DEF Levels
  <2> QED
    BY <1>0, <1>1, <2>1, ClausesAre, NodesAre
<1>3. s.operator \in Operators \/ s.operator \in Joiners
  BY <1>2 DEF NodeAt, Joined, Clauses
<1> QED
  BY <1>3 DEF Operators, Joiners

\* The clause of a typed rule selects the rows it says.
LEMMA WhereAgrees ==
  ASSUME NEW r, NEW c, NEW w, RuleSound(r, c, w), r.at = "compiled", Typed(c),
         NEW row, FullRow(row), NEW t
  PROVE  (\A i \in 1 .. Len(w.sql) : SqlHolds(w.sql[i], w.params, row, t))
           <=> EvaluateCondition(c, row) /\ r.tenant \in {t, NoTenant}
<1>1. PICK ten, n : ten = TenantClause(r.tenant) /\ n = Len(ten.params)
  OBVIOUS
<1>2. PICK comp : /\ \A d \in Trees(Comparisons) : comp[d] = CompiledAt(comp, d)
                  /\ \A d, m : CompileCondition(d, m) = comp[d][m]
  BY CompileConditionIs
<1>3. PICK all, s, p : all = CompileCondition(c, n) /\ s = all.sql /\ p = all.params
  OBVIOUS
<1>4. w = [sql |-> Append(ten.sql, s), params |-> ten.params \o p]
  BY <1>1, <1>3 DEF RuleSound
<1>5. PICK q : q = ten.params \o p
  OBVIOUS
<1>6. w.params = q /\ w.sql = Append(ten.sql, s)
  BY <1>4, <1>5
<1>7. IsList(ten.params) /\ n \in Nat
  BY <1>1, TenantsAre DEF IsList
<1>8. Agrees(c, comp, Trees(Clauses), row)
  BY <1>2, TreesAgree
<1>9. /\ s \in Trees(Clauses) /\ IsList(p)
      /\ Carries(q, n, p) => (Decided(s, Truths(q, row)) <=> EvaluateCondition(c, row))
  BY <1>2, <1>3, <1>7, <1>8 DEF Agrees
<1>10. Carries(q, n, p) /\ \A i \in 1..n : q[i] = ten.params[i]
  BY <1>1, <1>5, <1>7, <1>9, ListsAre DEF Carries
<1>11. SqlHolds(s, q, row, t) <=> EvaluateCondition(c, row)
  <2>1. s.operator # "tenant"
    BY <1>9, TreesOfClauses
  <2>2. SqlHolds(s, q, row, t) = Decided(s, Truths(q, row))
    BY <2>1 DEF SqlHolds, Truths
  <2> QED
    BY <1>9, <1>10, <2>2
<1>12. CASE r.tenant = NoTenant
  <2>1. w.sql = Append(<<>>, s)
    BY <1>1, <1>6, <1>12, TenantsAre
  <2>2. Len(w.sql) = 1 /\ w.sql[1] = s
    BY <2>1
  <2>3. (\A i \in 1 .. Len(w.sql) : SqlHolds(w.sql[i], q, row, t)) <=> SqlHolds(s, q, row, t)
    BY <2>2
  <2> QED
    BY <1>6, <1>11, <1>12, <2>3
<1>13. CASE r.tenant # NoTenant
  <2>1. PICK one : one = [operator |-> "tenant", marks |-> <<1>>]
    OBVIOUS
  <2>2. w.sql = Append(<<one>>, s) /\ ten.params = <<r.tenant>> /\ n = 1
    BY <1>1, <1>6, <1>13, <2>1, TenantsAre
  <2>3. Len(w.sql) = 2 /\ w.sql[1] = one /\ w.sql[2] = s
    BY <2>2
  <2>4. q[1] = r.tenant
    BY <1>10, <2>2
  <2>5. SqlHolds(one, q, row, t) <=> r.tenant = t
    BY <2>1, <2>4 DEF SqlHolds
  <2>6. (\A i \in 1 .. Len(w.sql) : SqlHolds(w.sql[i], q, row, t))
          <=> SqlHolds(one, q, row, t) /\ SqlHolds(s, q, row, t)
    BY <2>3
  <2> QED
    BY <1>6, <1>11, <1>13, <2>5, <2>6
<1> QED
  BY <1>12, <1>13

\* Whatever rules a manifest has, rows are selected alike in the server and in the database.
\* parseDomainFilter(), evaluateCondition() and generateWhereClause() of packages/rbac: a rule
\* whose comparisons are typed selects the same full rows by its WHERE clause as in memory,
\* and of the tenant asked for only, for filters nested to any depth.
THEOREM BothWaysAgreeEver == RulesInit /\ [][RulesNext]_rulesVars => []BothWaysAgree
<1> DEFINE Sound == RuleSound(rule, condition, where)
<1>1. RulesInit => Sound
  <2>1. SUFFICES ASSUME RulesInit PROVE Sound
    OBVIOUS
  <2>2. rule.at = "none" /\ rule = [at |-> rule.at, filter |-> rule.filter, tenant |-> rule.tenant]
    BY <2>1 DEF RulesInit
  <2> QED
    BY <2>2 DEF RuleSound
<1>2. Sound /\ [RulesNext]_rulesVars => Sound'
  <2>1. SUFFICES ASSUME Sound, [RulesNext]_rulesVars PROVE Sound'
    OBVIOUS
  <2>2. CASE GiveRule
    <3>1. /\ rule'.at = "given" /\ rule'.filter \in Filters
          /\ rule' = [at |-> rule'.at, filter |-> rule'.filter, tenant |-> rule'.tenant]
      BY <2>2 DEF GiveRule
    <3> QED
      BY <3>1 DEF RuleSound
  <2>3. CASE ParseDomainFilter
    <3>1. rule.at = "given" /\ condition' = ParseFilter(rule.filter) /\ rule.filter \in Filters
      BY <2>1, <2>3 DEF ParseDomainFilter, RuleSound
    <3>2. CASE condition' = Malformed
      <4>1. rule' = [at |-> "thrown", filter |-> rule.filter, tenant |-> rule.tenant]
        BY <2>1, <2>3, <3>2 DEF ParseDomainFilter, RuleSound
      <4> QED
        BY <4>1 DEF RuleSound
    <3>3. CASE condition' # Malformed
      <4>1. rule' = [at |-> "parsed", filter |-> rule.filter, tenant |-> rule.tenant]
        BY <2>1, <2>3, <3>3 DEF ParseDomainFilter, RuleSound
      <4>2. condition' \in Trees(Comparisons)
        BY <3>1, <3>3, ParsedAreTrees
      <4> QED
        BY <4>1, <4>2 DEF RuleSound
    <3> QED
      BY <3>2, <3>3
  <2>4. CASE GenerateWhereClause
    <3>1. rule.at = "parsed" /\ condition' = condition
      BY <2>4 DEF GenerateWhereClause
    <3>2. rule' = [at |-> "compiled", filter |-> rule.filter, tenant |-> rule.tenant]
      BY <2>1, <2>4 DEF GenerateWhereClause, RuleSound
    <3>3. condition' \in Trees(Comparisons)
      BY <2>1, <3>1 DEF RuleSound
    <3> QED
      BY <2>4, <3>1, <3>2, <3>3 DEF RuleSound, GenerateWhereClause
  <2>5. CASE UNCHANGED rulesVars
    BY <2>1, <2>5 DEF rulesVars, RuleSound
  <2> QED
    BY <2>1, <2>2, <2>3, <2>4, <2>5 DEF RulesNext
<1>3. Sound => BothWaysAgree
  <2>1. SUFFICES ASSUME Sound, rule.at = "compiled", Typed(condition), NEW row \in Rows, NEW t \in RowTenants,
                        \A f \in DOMAIN row : ~IsNull(row[f])
                 PROVE  (\A i \in 1 .. Len(where.sql) : SqlHolds(where.sql[i], where.params, row, t))
                          <=> EvaluateCondition(condition, row) /\ rule.tenant \in {t, NoTenant}
    BY DEF BothWaysAgree
  <2>2. FullRow(row)
    BY <2>1 DEF FullRow
  <2> QED
    BY <2>1, <2>2, WhereAgrees
<1> QED
  BY <1>1, <1>2, <1>3, PTL
=============================================================================

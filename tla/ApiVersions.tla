---------------------------- MODULE ApiVersions ----------------------------
(***************************************************************************)
(* ApiVersionRouter of packages/api-versioning.  A path is its segments;   *)
(* the first one of a request may be a version, the segment ":id" of a     *)
(* route matches any.                                                      *)
(***************************************************************************)
EXTENDS Naturals, Sequences, FiniteSets, SequencesExt

CONSTANTS
  Majors,        \* versions that are registered
  Methods, RoutePaths, RequestPaths,
  NoMajor,       \* no version in the URL
  MaxRoutes      \* routes of one version

ASSUME MajorsAssumption ==
  /\ Majors \subseteq Nat \ {0} /\ IsFiniteSet(Majors)
  /\ NoMajor \notin Majors

VARIABLES
  versions,      \* ApiVersionRouter.versions: the registered ones
  routes         \* ApiVersionRouter.routes: per version, in order of insertion

routerVars == <<versions, routes>>

NoRoute == [method |-> "none", path |-> <<>>, deprecated |-> FALSE, handler |-> 0]

RouterInit == versions = {} /\ routes = [v \in Majors |-> <<>>]

\* Segment by segment; there must be as many.
PathMatches(route, request) ==
  /\ Len(route) = Len(request)
  /\ \A i \in DOMAIN route : route[i] \in {":id", request[i]}

\* The place of a route key in the map of a version, 0 if it is not there.
PlaceOf(v, method, path) ==
  LET here == {i \in DOMAIN routes[v] : routes[v][i].method = method /\ routes[v][i].path = path}
  IN IF here = {} THEN 0 ELSE CHOOSE i \in here : TRUE

GetDefaultVersion == IF versions = {} THEN 0 ELSE CHOOSE v \in versions : \A w \in versions : w <= v

\* The first of a version's routes, in order of insertion, that matches.
FirstMatch(v, method, request) ==
  LET fits == {i \in DOMAIN routes[v] : /\ routes[v][i].method = method
                                        /\ PathMatches(routes[v][i].path, request)}
  IN IF v \notin versions \/ fits = {} THEN NoRoute
     ELSE routes[v][CHOOSE i \in fits : \A j \in fits : i <= j]

\* A URL without a version is one of the latest, without looking at earlier ones.
ResolveRoute(major, method, request) ==
  LET v == IF major = NoMajor THEN GetDefaultVersion ELSE major
  IN IF v = 0 THEN NoRoute ELSE FirstMatch(v, method, request)

RegisterVersion(v) ==
  /\ versions' = versions \cup {v}
  /\ UNCHANGED routes

\* Throws for a version that is not registered.  A route that is there keeps its
\* place, but gets the new handler and is deprecated no more.
RegisterRoute(v, method, path, handler) ==
  /\ v \in versions
  /\ LET route == [method |-> method, path |-> path, deprecated |-> FALSE, handler |-> handler]
         at == PlaceOf(v, method, path)
     IN /\ at # 0 \/ Len(routes[v]) < MaxRoutes
        /\ routes' = [routes EXCEPT ![v] = IF at = 0 THEN Append(@, route) ELSE [@ EXCEPT ![at] = route]]
  /\ UNCHANGED versions

\* Mutant of MarkDeprecated: a path is deprecated whatever the version.
MarkAllDeprecated(v, method, path) ==
  /\ routes' = [w \in Majors |-> [i \in DOMAIN routes[w] |->
       IF routes[w][i].path = path THEN [routes[w][i] EXCEPT !.deprecated = TRUE] ELSE routes[w][i]]]
  /\ UNCHANGED versions

\* Nothing happens where there is no such route.
MarkDeprecated(v, method, path) ==
  /\ LET at == PlaceOf(v, method, path)
     IN routes' = IF at = 0 THEN routes ELSE [routes EXCEPT ![v][at].deprecated = TRUE]
  /\ UNCHANGED versions

RouterNext ==
  \E v \in Majors : \/ RegisterVersion(v)
                    \/ \E m \in Methods, p \in RoutePaths :
                         \/ \E h \in 1..2 : RegisterRoute(v, m, p, h)
                         \/ MarkDeprecated(v, m, p)

RouterSpec == RouterInit /\ [][RouterNext]_routerVars

-----------------------------------------------------------------------------

\* A change of one version leaves the answers of all others alone; URLs without a
\* version get other answers only with the version that is now the latest; and a
\* route that is not replaced stays the answer for its own path, unless an earlier
\* one with a parameter has always caught it.
VersionsAreApart ==
  [][\A m \in Methods, p \in RequestPaths :
       /\ \A v, w \in versions :
            routes[v] # routes'[v] /\ v # w => ResolveRoute(w, m, p)' = ResolveRoute(w, m, p)
       /\ ResolveRoute(NoMajor, m, p)' # ResolveRoute(NoMajor, m, p) =>
            \/ GetDefaultVersion' # GetDefaultVersion
            \/ routes'[GetDefaultVersion] # routes[GetDefaultVersion]
       /\ \A v \in versions : ResolveRoute(v, m, p) # NoRoute =>
            ResolveRoute(v, m, p)'.path = ResolveRoute(v, m, p).path]_routerVars
=============================================================================

-------------------------- MODULE PermissionEngine --------------------------
(***************************************************************************)
(* Who may do what: the role tables (roles.ts) and the permission engine   *)
(* over them (engine.ts) of packages/rbac.                                 *)
(*                                                                         *)
(* The tables are in a PostgreSQL database under its default isolation     *)
(* level, READ COMMITTED.  assignRole is one idempotent insert and         *)
(* createRole one transaction of inserts; both take effect at once.        *)
(* revokeRole is a transaction of three statements that reads before it    *)
(* deletes, so that other transactions commit between its statements.      *)
(*                                                                         *)
(* The engine answers can() and getUserPermissions() from the database or  *)
(* from a cache in the memory of one server process, whose entries live    *)
(* for TTL.  A call of getUserPermissions that misses the cache queries    *)
(* the database and fills the cache after the await: roles change and the  *)
(* cache is invalidated in between.                                        *)
(***************************************************************************)
EXTENDS Naturals, FiniteSets

CONSTANTS
  Users,       \* users
  Roles,       \* ids of roles, existing or to be created
  Perms,       \* permissions: [action, resource]
  Revokers,    \* revokeRole calls that may run at once
  Readers,     \* getUserPermissions calls that may run at once
  TTL,         \* lifetime of a cache entry (CACHE_TTL_MS)
  MaxQuery,    \* longest time from the miss to the fill (statement timeout)
  MaxTime      \* bound: the clock stops here

ASSUME ClockAssumption == TTL \in Nat /\ MaxQuery \in Nat /\ MaxTime \in Nat

VARIABLES
  roles,       \* rows of roles: the roles that exist
  userRoles,   \* rows of user_roles: pairs <<user, role>>
  rolePerms,   \* rows of role_permissions: pairs <<role, permission>>
  revoke,      \* the revokeRole transactions in flight; history: overtaken or not
  cache,       \* entry of each user, or NoEntry
  read,        \* getUserPermissions calls in flight
  now,         \* Date.now()
  changed      \* history: when the permissions of a user last changed

roleVars == <<roles, userRoles, rolePerms, revoke>>
engineVars == <<cache, read, now>>
vars == <<roleVars, engineVars, changed>>

-----------------------------------------------------------------------------
(* The role tables.                                                        *)

RolesOf(u) == {r \in Roles : <<u, r>> \in userRoles}

\* The join of user_roles, role_permissions and permissions for one user.
PermsOf(u) == {p \in Perms : \E r \in RolesOf(u) : <<r, p>> \in rolePerms}

NoRevoke == [step |-> "idle"]

RoleInit ==
  /\ roles \in SUBSET Roles
  /\ userRoles \in SUBSET (Users \X roles)
  /\ \A u \in Users : RolesOf(u) # {}
  /\ rolePerms \in SUBSET (roles \X Perms)
  /\ revoke = [k \in Revokers |-> NoRevoke]

\* createRole: a new role with its permissions, in one transaction.
CreateRole(r, ps) ==
  /\ r \notin roles
  /\ roles' = roles \cup {r}
  /\ rolePerms' = rolePerms \cup {<<r, p>> : p \in ps}
  /\ UNCHANGED <<userRoles, revoke>>

\* Mutant of AssignRole: user_roles has no foreign key to roles.
AssignRoleAny(u, r) ==
  /\ userRoles' = userRoles \cup {<<u, r>>}
  /\ UNCHANGED <<roles, rolePerms, revoke>>

\* assignRole: a foreign key keeps out roles that do not exist.
AssignRole(u, r) ==
  /\ r \in roles
  /\ userRoles' = userRoles \cup {<<u, r>>}
  /\ UNCHANGED <<roles, rolePerms, revoke>>

\* revokeRole, first statement: the role must exist, or the call throws.
RevokeBegin(k, u, r) ==
  /\ revoke[k] = NoRevoke
  /\ r \in roles
  /\ revoke' = [revoke EXCEPT ![k] = [step |-> "count", user |-> u, role |-> r,
                                      overtaken |-> FALSE]]
  /\ UNCHANGED <<roles, userRoles, rolePerms>>

\* Mutant of RevokeCount: the last role may go as well.
RevokeCountAny(k) ==
  /\ revoke[k].step = "count"
  /\ revoke' = [revoke EXCEPT ![k].step = "delete"]
  /\ UNCHANGED <<roles, userRoles, rolePerms>>

\* Second statement: with one role or none left the call throws.
RevokeCount(k) ==
  /\ revoke[k].step = "count"
  /\ revoke' = IF Cardinality(RolesOf(revoke[k].user)) <= 1
               THEN [revoke EXCEPT ![k] = NoRevoke]
               ELSE [revoke EXCEPT ![k].step = "delete"]
  /\ UNCHANGED <<roles, userRoles, rolePerms>>

\* The calls that have counted the roles of user u.
Counted(u) == {k \in Revokers : revoke[k].step = "delete" /\ revoke[k].user = u}

\* Third statement and commit: the row goes, if there is one.  History: other
\* calls that have counted it are overtaken.
RevokeDelete(k) ==
  /\ revoke[k].step = "delete"
  /\ userRoles' = userRoles \ {<<revoke[k].user, revoke[k].role>>}
  /\ revoke' = [l \in Revokers |->
       IF l = k THEN NoRevoke
       ELSE IF l \in Counted(revoke[k].user) THEN [revoke[l] EXCEPT !.overtaken = TRUE]
       ELSE revoke[l]]
  /\ UNCHANGED <<roles, rolePerms>>

\* A statement fails: the transaction is rolled back.
RevokeFails(k) ==
  /\ revoke[k] # NoRevoke
  /\ revoke' = [revoke EXCEPT ![k] = NoRevoke]
  /\ UNCHANGED <<roles, userRoles, rolePerms>>

RoleNext ==
  \/ \E r \in Roles, ps \in SUBSET Perms : CreateRole(r, ps)
  \/ \E u \in Users, r \in Roles : AssignRole(u, r)
  \/ \E k \in Revokers, u \in Users, r \in Roles : RevokeBegin(k, u, r)
  \/ \E k \in Revokers : RevokeCount(k) \/ RevokeDelete(k) \/ RevokeFails(k)

-----------------------------------------------------------------------------
(* The cache of the engine.                                                *)

NoEntry == [is |-> "absent"]
Entry(ps, until) == [is |-> "cached", perms |-> ps, expiresAt |-> until]
Cached(u) == cache[u].is = "cached"

\* getFromCache finds an entry that has not expired.
Fresh(u) == Cached(u) /\ now <= cache[u].expiresAt

NoRead == [step |-> "idle"]

Init ==
  /\ RoleInit
  /\ cache = [u \in Users |-> NoEntry]
  /\ read = [k \in Readers |-> NoRead]
  /\ now = 0
  /\ changed = [u \in Users |-> 0]

-----------------------------------------------------------------------------
\* The role tables change; the engine is not told.
RolesChange ==
  /\ RoleNext
  /\ LET touched == {u \in Users : PermsOf(u)' # PermsOf(u)}
     IN  changed' = [u \in Users |-> IF u \in touched THEN now ELSE changed[u]]
  /\ UNCHANGED engineVars

\* Mutant of Miss: an expired entry is returned once more, and renewed.
MissRenews(k, u) ==
  /\ read[k] = NoRead
  /\ ~Fresh(u)
  /\ IF Cached(u)
     THEN cache' = [cache EXCEPT ![u].expiresAt = now + TTL] /\ UNCHANGED read
     ELSE /\ read' = [read EXCEPT ![k] = [step |-> "query", user |-> u, since |-> now]]
          /\ UNCHANGED cache
  /\ UNCHANGED <<roleVars, now, changed>>

\* getUserPermissions misses the cache, drops an expired entry and queries.
\* (A hit returns the entry and changes nothing.)
Miss(k, u) ==
  /\ read[k] = NoRead
  /\ ~Fresh(u)
  /\ cache' = [cache EXCEPT ![u] = NoEntry]
  /\ read' = [read EXCEPT ![k] = [step |-> "query", user |-> u, since |-> now]]
  /\ UNCHANGED <<roleVars, now, changed>>

\* can() misses the cache: it drops an expired entry and does not fill it.
CanMiss(u) ==
  /\ ~Fresh(u)
  /\ cache' = [cache EXCEPT ![u] = NoEntry]
  /\ UNCHANGED <<roleVars, read, now, changed>>

\* The database runs the query of a call.
Query(k) ==
  /\ read[k].step = "query"
  /\ read' = [read EXCEPT ![k] = [step |-> "answered", user |-> read[k].user,
                                  since |-> read[k].since,
                                  perms |-> PermsOf(read[k].user)]]
  /\ UNCHANGED <<roleVars, cache, now, changed>>

\* The continuation fills the cache with what the query returned.
Fill(k) ==
  /\ read[k].step = "answered"
  /\ cache' = [cache EXCEPT ![read[k].user] = Entry(read[k].perms, now + TTL)]
  /\ read' = [read EXCEPT ![k] = NoRead]
  /\ UNCHANGED <<roleVars, now, changed>>

\* The query fails and the call throws.
QueryFails(k) ==
  /\ read[k].step = "query"
  /\ read' = [read EXCEPT ![k] = NoRead]
  /\ UNCHANGED <<roleVars, cache, now, changed>>

\* invalidateCache, which is to be called after a change of roles.
InvalidateCache(u) ==
  /\ cache' = [cache EXCEPT ![u] = NoEntry]
  /\ UNCHANGED <<roleVars, read, now, changed>>

InvalidateAllCache ==
  /\ cache' = [u \in Users |-> NoEntry]
  /\ UNCHANGED <<roleVars, read, now, changed>>

\* Time passes, but no query lasts longer than MaxQuery.
Tick ==
  /\ now < MaxTime
  /\ \A k \in Readers : read[k] # NoRead => now < read[k].since + MaxQuery
  /\ now' = now + 1
  /\ UNCHANGED <<roleVars, cache, read, changed>>

Next ==
  \/ RolesChange
  \/ \E k \in Readers, u \in Users : Miss(k, u)
  \/ \E u \in Users : CanMiss(u) \/ InvalidateCache(u)
  \/ \E k \in Readers : Query(k) \/ Fill(k) \/ QueryFails(k)
  \/ InvalidateAllCache
  \/ Tick

Spec == Init /\ [][Next]_vars

-----------------------------------------------------------------------------
(* What can() answers.                                                     *)

\* From a cache entry: either wildcard is enough.
CanCached(ps, action, resource) ==
  \E p \in ps :
    \/ p.action = "manage"
    \/ p.resource = "*"
    \/ p.action = action /\ p.resource = resource

\* From the database: the action and the resource must both match.
CanQueried(ps, action, resource) ==
  \E p \in ps : /\ p.action = action \/ p.action = "manage"
                /\ p.resource = resource \/ p.resource = "*"

-----------------------------------------------------------------------------
Times == 0..MaxTime

\* Every row of the link tables refers to a role that exists.
RoleTypeOK ==
  /\ roles \subseteq Roles
  /\ userRoles \subseteq Users \X roles
  /\ rolePerms \subseteq roles \X Perms
  /\ revoke \in [Revokers ->
       {NoRevoke} \cup [step : {"count", "delete"}, user : Users, role : Roles,
                       overtaken : BOOLEAN]]

\* Type correctness of the tables, the cache and the calls in flight.
TypeOK ==
  /\ RoleTypeOK
  /\ cache \in [Users -> {NoEntry} \cup
                 [is : {"cached"}, perms : SUBSET Perms, expiresAt : 0..(MaxTime + TTL)]]
  /\ read \in [Readers -> {NoRead}
                 \cup [step : {"query"}, user : Users, since : Times]
                 \cup [step : {"answered"}, user : Users, since : Times,
                       perms : SUBSET Perms]]
  /\ now \in Times
  /\ changed \in [Users -> Times]

\* roles.ts:140 says that a user's last role cannot be revoked: a user who has
\* a role keeps at least one, whatever is assigned and revoked meanwhile.
KeepsARole == \A u \in Users : RolesOf(u) # {}

\* A user's last role goes only to a revocation that another one has overtaken,
\* by deleting a role of the same user after the first has counted them; how
\* ever many revocations and assignments interleave, any other call leaves the
\* user a role, as roles.ts:140 says.
LastRoleIsKept ==
  [][\A u \in Users : RolesOf(u) # {} /\ RolesOf(u)' = {} =>
       \E k \in Counted(u) : revoke[k].overtaken /\ revoke'[k] = NoRevoke]_vars

\* An answer from the cache is out of date for at most the lifetime of an entry
\* plus the time of one query, even if nobody ever invalidates the cache and
\* however fills, expiries and role changes interleave.
BoundedStaleness ==
  \A u \in Users :
    Fresh(u) /\ cache[u].perms # PermsOf(u) => now <= changed[u] + TTL + MaxQuery

\* engine.ts:31 gives "manage" and "*" one meaning, all permissions, whether
\* the answer comes from the cache or from the database: an up-to-date cache
\* entry changes no answer of can().
CacheChangesNoAnswer ==
  \A u \in Users : \A p \in Perms :
    Fresh(u) /\ cache[u].perms = PermsOf(u) =>
      (CanCached(cache[u].perms, p.action, p.resource)
         <=> CanQueried(PermsOf(u), p.action, p.resource))
=============================================================================

---------------------------- MODULE ServerProofs ----------------------------
(***************************************************************************)
(* Proofs about roles, the cache of the permission engine and sessions,    *)
(* for any users, roles, permissions and number of requests, about the     *)
(* merge of collections, for any declarations and order of calls, and type *)
(* correctness of the server they are parts of.                            *)
(***************************************************************************)
EXTENDS MCServer, WorkflowEngineProofs, Arrays, FiniteSetTheorems, TLAPS

-----------------------------------------------------------------------------
(* Bounded staleness.                                                      *)

\* The clock facts the argument needs, apart from the shape of the records.
Clocks ==
  /\ now \in Nat
  /\ \A u \in Users : changed[u] \in Nat /\ changed[u] <= now
  /\ DOMAIN cache = Users /\ DOMAIN read = Readers
  /\ \A u \in Users : Cached(u) =>
       cache[u].expiresAt \in Nat /\ cache[u].expiresAt <= now + TTL
  /\ \A k \in Readers : read[k] # NoRead =>
       /\ read[k].user \in Users
       /\ read[k].since \in Nat
       /\ read[k].since <= now
       /\ now <= read[k].since + MaxQuery

\* The inductive form of BoundedStaleness: an entry that is out of date, and
\* the answer of a query that is, each date from before the last change.
Dated ==
  /\ \A u \in Users : Cached(u) =>
       \/ cache[u].perms = PermsOf(u)
       \/ cache[u].expiresAt <= changed[u] + TTL + MaxQuery
  /\ \A k \in Readers : read[k].step = "answered" =>
       \/ read[k].perms = PermsOf(read[k].user)
       \/ read[k].since <= changed[read[k].user]

StaleInv == Clocks /\ Dated

LEMMA StaleInit == Init => StaleInv
BY ClockAssumption DEF Init, StaleInv, Clocks, Dated, Cached, NoEntry, NoRead

\* A change of the role tables makes entries and answers old, not older than
\* the change.
LEMMA StaleRoles == StaleInv /\ RolesChange => StaleInv'
<1> SUFFICES ASSUME StaleInv, RolesChange PROVE StaleInv'
  OBVIOUS
<1>1. /\ UNCHANGED <<cache, read, now>>
      /\ \A u \in Users : \/ changed'[u] = now
                          \/ changed'[u] = changed[u] /\ PermsOf(u)' = PermsOf(u)
  BY DEF RolesChange, engineVars
<1>2. Clocks'
  BY <1>1 DEF StaleInv, Clocks, Cached
<1>3. ASSUME NEW u \in Users, Cached(u)
      PROVE  \/ cache[u].perms = PermsOf(u)'
             \/ cache[u].expiresAt <= changed'[u] + TTL + MaxQuery
  BY <1>1, <1>3, ClockAssumption DEF StaleInv, Clocks, Dated, Cached
<1>4. ASSUME NEW k \in Readers, read[k].step = "answered"
      PROVE  \/ read[k].perms = PermsOf(read[k].user)'
             \/ read[k].since <= changed'[read[k].user]
  <2>1. read[k] # NoRead
    BY <1>4 DEF NoRead
  <2> QED
    BY <1>1, <1>4, <2>1 DEF StaleInv, Clocks, Dated, Cached
<1> QED
  BY <1>1, <1>2, <1>3, <1>4 DEF StaleInv, Dated, Cached

LEMMA StaleStep == StaleInv /\ [Next]_vars => StaleInv'
<1> SUFFICES ASSUME StaleInv, [Next]_vars PROVE StaleInv'
  OBVIOUS
<1> USE ClockAssumption
\* Everything but RolesChange leaves the tables, hence PermsOf, alone.
<1>1. ASSUME UNCHANGED roleVars PROVE \A u : PermsOf(u)' = PermsOf(u)
  BY <1>1 DEF roleVars, PermsOf, RolesOf
<1>2. ASSUME NEW k \in Readers, NEW u \in Users, Miss(k, u) PROVE StaleInv'
  BY <1>2, <1>1 DEF Miss, StaleInv, Clocks, Dated, Cached, NoEntry, NoRead
<1>3. ASSUME NEW u \in Users, CanMiss(u) PROVE StaleInv'
  BY <1>3, <1>1 DEF CanMiss, StaleInv, Clocks, Dated, Cached, NoEntry
<1>4. ASSUME NEW u \in Users, InvalidateCache(u) PROVE StaleInv'
  BY <1>4, <1>1 DEF InvalidateCache, StaleInv, Clocks, Dated, Cached, NoEntry
<1>5. ASSUME NEW k \in Readers, Query(k) PROVE StaleInv'
  BY <1>5, <1>1 DEF Query, StaleInv, Clocks, Dated, Cached, NoRead
<1>6. ASSUME NEW k \in Readers, Fill(k) PROVE StaleInv'
  BY <1>6, <1>1 DEF Fill, Entry, StaleInv, Clocks, Dated, Cached, NoRead
<1>7. ASSUME NEW k \in Readers, QueryFails(k) PROVE StaleInv'
  BY <1>7, <1>1 DEF QueryFails, StaleInv, Clocks, Dated, Cached, NoRead
<1>8. CASE InvalidateAllCache
  BY <1>8, <1>1 DEF InvalidateAllCache, StaleInv, Clocks, Dated, Cached, NoEntry
<1>9. CASE Tick
  BY <1>9, <1>1 DEF Tick, StaleInv, Clocks, Dated, Cached
<1>10. CASE UNCHANGED vars
  BY <1>10, <1>1 DEF vars, engineVars, StaleInv, Clocks, Dated, Cached
<1> QED
  BY <1>2, <1>3, <1>4, <1>5, <1>6, <1>7, <1>8, <1>9, <1>10, StaleRoles DEF Next

\* An answer from the cache is at most TTL + MaxQuery out of date.
THEOREM BoundedStalenessEver == Spec => []BoundedStaleness
<1>1. StaleInv => BoundedStaleness
  BY ClockAssumption DEF StaleInv, Clocks, Dated, Cached, BoundedStaleness, Fresh
<1> QED
  BY <1>1, StaleInit, StaleStep, PTL DEF Spec

-----------------------------------------------------------------------------
(* Type correctness.                                                       *)

LEMMA RoleTypeStep == RoleTypeOK /\ RoleNext => RoleTypeOK'
<1> SUFFICES ASSUME RoleTypeOK, RoleNext PROVE RoleTypeOK'
  OBVIOUS
<1>1. ASSUME NEW r \in Roles, NEW ps \in SUBSET Perms, CreateRole(r, ps)
      PROVE  RoleTypeOK'
  BY <1>1 DEF CreateRole, RoleTypeOK
<1>2. ASSUME NEW u \in Users, NEW r \in Roles, AssignRole(u, r) PROVE RoleTypeOK'
  BY <1>2 DEF AssignRole, RoleTypeOK
<1>3. ASSUME NEW k \in Revokers, NEW u \in Users, NEW r \in Roles, RevokeBegin(k, u, r)
      PROVE  RoleTypeOK'
  BY <1>3 DEF RevokeBegin, RoleTypeOK
<1>4. ASSUME NEW k \in Revokers, RevokeCount(k) PROVE RoleTypeOK'
  BY <1>4 DEF RevokeCount, RoleTypeOK, NoRevoke
<1>5. ASSUME NEW k \in Revokers, RevokeDelete(k) PROVE RoleTypeOK'
  <2>1. ASSUME NEW l \in Revokers, revoke[l] # NoRevoke
        PROVE  [revoke[l] EXCEPT !.overtaken = TRUE] \in
                 [step : {"count", "delete"}, user : Users, role : Roles, overtaken : BOOLEAN]
    BY <2>1 DEF RoleTypeOK
  <2>2. \A u \in Users : \A l \in Counted(u) : l \in Revokers /\ revoke[l] # NoRevoke
    BY DEF Counted, NoRevoke
  <2>3. revoke[k] # NoRevoke /\ revoke[k].user \in Users
    BY <1>5 DEF RevokeDelete, RoleTypeOK, NoRevoke
  <2>4. revoke' \in [Revokers -> {NoRevoke} \cup
          [step : {"count", "delete"}, user : Users, role : Roles, overtaken : BOOLEAN]]
    BY <1>5, <2>1, <2>2, <2>3 DEF RevokeDelete, RoleTypeOK
  <2> QED
    BY <1>5, <2>4 DEF RevokeDelete, RoleTypeOK
<1>6. ASSUME NEW k \in Revokers, RevokeFails(k) PROVE RoleTypeOK'
  BY <1>6 DEF RevokeFails, RoleTypeOK
<1> QED
  BY <1>1, <1>2, <1>3, <1>4, <1>5, <1>6 DEF RoleNext

\* The steps of a query keep within the clock: the part of StaleInv that
\* TypeOK needs is now <= MaxTime, which Tick's bound gives.
LEMMA TypeStep == TypeOK /\ [Next]_vars => TypeOK'
<1> SUFFICES ASSUME TypeOK, [Next]_vars PROVE TypeOK'
  OBVIOUS
<1> USE ClockAssumption
<1>1. UNCHANGED roleVars => RoleTypeOK'
  BY DEF TypeOK, RoleTypeOK, roleVars
<1>2. ASSUME RolesChange PROVE TypeOK'
  <2>1. RoleTypeOK'
    BY <1>2, RoleTypeStep DEF RolesChange, TypeOK
  <2>2. changed' \in [Users -> Times]
    BY <1>2 DEF RolesChange, TypeOK
  <2> QED
    BY <2>1, <2>2, <1>2 DEF RolesChange, engineVars, TypeOK
<1>3. ASSUME NEW k \in Readers, NEW u \in Users, Miss(k, u) PROVE TypeOK'
  BY <1>3, <1>1 DEF Miss, TypeOK
<1>4. ASSUME NEW u \in Users, CanMiss(u) PROVE TypeOK'
  BY <1>4, <1>1 DEF CanMiss, TypeOK
<1>5. ASSUME NEW u \in Users, InvalidateCache(u) PROVE TypeOK'
  BY <1>5, <1>1 DEF InvalidateCache, TypeOK
<1>6. ASSUME NEW k \in Readers, Query(k) PROVE TypeOK'
  <2>1. read[k].user \in Users /\ read[k].since \in Times
    BY <1>6 DEF Query, TypeOK, NoRead
  <2>2. PermsOf(read[k].user) \in SUBSET Perms
    BY DEF PermsOf
  <2> QED
    BY <2>1, <2>2, <1>6, <1>1 DEF Query, TypeOK
<1>7. ASSUME NEW k \in Readers, Fill(k) PROVE TypeOK'
  <2>1. read[k].user \in Users /\ read[k].perms \in SUBSET Perms
    BY <1>7 DEF Fill, TypeOK, NoRead
  <2>2. now + TTL \in 0..(MaxTime + TTL)
    BY DEF TypeOK, Times
  <2> QED
    BY <2>1, <2>2, <1>7, <1>1 DEF Fill, Entry, TypeOK
<1>8. ASSUME NEW k \in Readers, QueryFails(k) PROVE TypeOK'
  BY <1>8, <1>1 DEF QueryFails, TypeOK
<1>9. CASE InvalidateAllCache
  BY <1>9, <1>1 DEF InvalidateAllCache, TypeOK
<1>10. CASE Tick
  BY <1>10, <1>1 DEF Tick, TypeOK, Times
<1>11. CASE UNCHANGED vars
  BY <1>11, <1>1 DEF vars, engineVars, TypeOK
<1> QED
  BY <1>2, <1>3, <1>4, <1>5, <1>6, <1>7, <1>8, <1>9, <1>10, <1>11 DEF Next

\* The tables, the cache and the calls in flight are well typed.
THEOREM TypeCorrect == Spec => []TypeOK
<1>1. Init => TypeOK
  BY ClockAssumption DEF Init, RoleInit, TypeOK, RoleTypeOK, Times
<1> QED
  BY <1>1, TypeStep, PTL DEF Spec

-----------------------------------------------------------------------------
(* The last role.                                                          *)

\* Until another call deletes a role of the user, a call that has counted more than one
\* leaves the user a role besides the one that it takes.
OtherRoleLeft ==
  \A k \in Revokers : revoke[k].step = "delete" /\ ~revoke[k].overtaken =>
    \E r \in RolesOf(revoke[k].user) : r # revoke[k].role

RoleInv == TypeOK /\ OtherRoleLeft

\* The count of a set with more than one element leaves one besides any r.
LEMMA MoreThanOne ==
  ASSUME NEW S, NEW r, ~(Cardinality(S) <= 1)
  PROVE  \E s \in S : s # r
<1> SUFFICES ASSUME \A s \in S : s = r PROVE FALSE
  OBVIOUS
<1>1. CASE S = {}
  BY <1>1, FS_EmptySet
<1>2. CASE S # {}
  <2>1. S = {r}
    BY <1>2
  <2> QED
    BY <2>1, FS_Singleton
<1> QED
  BY <1>1, <1>2

\* Roles that are only added, and calls that only end, leave the others what they have.
LEMMA NoRoleGoes ==
  ASSUME RoleInv, userRoles \subseteq userRoles',
         \A l \in Revokers : revoke'[l].step = "delete" => revoke'[l] = revoke[l]
  PROVE  OtherRoleLeft'
BY DEF RoleInv, OtherRoleLeft, RolesOf

LEMMA RoleInvStep == RoleInv /\ [Next]_vars => RoleInv'
<1> SUFFICES ASSUME RoleInv, [Next]_vars PROVE RoleInv'
  OBVIOUS
<1>1. TypeOK' /\ TypeOK /\ DOMAIN revoke = Revokers
  BY TypeStep DEF RoleInv, TypeOK, RoleTypeOK
<1>2. ASSUME UNCHANGED roleVars PROVE RoleInv'
  BY <1>1, <1>2 DEF RoleInv, roleVars, OtherRoleLeft, RolesOf
<1>3. ASSUME NEW r \in Roles, NEW ps \in SUBSET Perms, CreateRole(r, ps)
      PROVE  RoleInv'
  BY <1>1, <1>3, NoRoleGoes DEF CreateRole, RoleInv
<1>4. ASSUME NEW u \in Users, NEW r \in Roles, AssignRole(u, r) PROVE RoleInv'
  BY <1>1, <1>4, NoRoleGoes DEF AssignRole, RoleInv
<1>5. ASSUME NEW k \in Revokers, NEW u \in Users, NEW r \in Roles, RevokeBegin(k, u, r)
      PROVE  RoleInv'
  BY <1>1, <1>5, NoRoleGoes DEF RevokeBegin, RoleInv
<1>6. ASSUME NEW k \in Revokers, RevokeCount(k) PROVE RoleInv'
  <2>1. UNCHANGED userRoles
    BY <1>6 DEF RevokeCount
  <2>2. CASE Cardinality(RolesOf(revoke[k].user)) <= 1
    BY <1>1, <2>1, <2>2, <1>6, NoRoleGoes DEF RevokeCount, RoleInv, NoRevoke
  <2>3. CASE ~(Cardinality(RolesOf(revoke[k].user)) <= 1)
    <3>1. revoke' = [revoke EXCEPT ![k] = [revoke[k] EXCEPT !.step = "delete"]]
      BY <2>3, <1>6 DEF RevokeCount
    <3>2. \E r \in RolesOf(revoke[k].user) : r # revoke[k].role
      <4> DEFINE S == RolesOf(revoke[k].user)
      <4>1. ~(Cardinality(S) <= 1)
        BY <2>3
      <4> HIDE DEF S
      <4>2. \E r \in S : r # revoke[k].role
        BY ONLY <4>1, MoreThanOne, SMT
      <4> QED
        BY <4>2 DEF S
    <3>3. revoke'[k].user = revoke[k].user /\ revoke'[k].role = revoke[k].role
      <4>1. revoke[k] \in [step : {"count", "delete"}, user : Users, role : Roles,
                           overtaken : BOOLEAN]
        BY <1>1, <1>6 DEF RevokeCount, TypeOK, RoleTypeOK, NoRevoke
      <4>2. revoke'[k] = [revoke[k] EXCEPT !.step = "delete"]
        BY <1>1, <3>1
      <4> QED
        BY <4>1, <4>2
    <3>4. \A l \in Revokers : l # k => revoke'[l] = revoke[l]
      BY <1>1, <3>1
    <3>5. OtherRoleLeft'
      BY <2>1, <3>2, <3>3, <3>4 DEF RoleInv, OtherRoleLeft, RolesOf
    <3> QED
      BY <1>1, <3>5 DEF RoleInv
  <2> QED
    BY <2>2, <2>3
<1>7. ASSUME NEW k \in Revokers, RevokeDelete(k) PROVE RoleInv'
  <2> DEFINE u == revoke[k].user
  <2>1. ASSUME NEW l \in Revokers, revoke'[l].step = "delete", ~revoke'[l].overtaken
        PROVE  revoke'[l] = revoke[l] /\ revoke[l].user # u
    <3>1. l # k
      BY <1>7, <2>1 DEF RevokeDelete, NoRevoke
    <3>2. ASSUME l \in Counted(u) PROVE FALSE
      <4>1. revoke'[l] = [revoke[l] EXCEPT !.overtaken = TRUE]
        BY <1>7, <3>1, <3>2 DEF RevokeDelete
      <4>2. revoke[l] \in [step : {"count", "delete"}, user : Users, role : Roles,
                           overtaken : BOOLEAN]
        BY <1>1, <3>2 DEF Counted, TypeOK, RoleTypeOK, NoRevoke
      <4> QED
        BY <2>1, <4>1, <4>2
    <3>3. revoke'[l] = revoke[l]
      BY <1>7, <3>1, <3>2 DEF RevokeDelete
    <3> QED
      BY <2>1, <3>2, <3>3 DEF Counted
  <2>2. \A v \in Users : v # u => RolesOf(v)' = RolesOf(v)
    BY <1>7 DEF RevokeDelete, RolesOf
  <2>3. \A l \in Revokers : revoke[l].step = "delete" => revoke[l].user \in Users
    BY <1>1 DEF TypeOK, RoleTypeOK, NoRevoke
  <2> HIDE DEF u
  <2>4. OtherRoleLeft'
    BY <2>1, <2>2, <2>3 DEF RoleInv, OtherRoleLeft
  <2> QED
    BY <1>1, <2>4 DEF RoleInv
<1>8. ASSUME NEW k \in Revokers, RevokeFails(k) PROVE RoleInv'
  BY <1>1, <1>8, NoRoleGoes DEF RevokeFails, RoleInv, NoRevoke
<1>9. RoleNext => RoleInv'
  BY <1>3, <1>4, <1>5, <1>6, <1>7, <1>8 DEF RoleNext
<1>10. ASSUME [Next]_vars, ~RolesChange PROVE UNCHANGED roleVars
  BY <1>10 DEF Next, Miss, CanMiss, Query, Fill, QueryFails, InvalidateCache,
         InvalidateAllCache, Tick, vars
<1> QED
  BY <1>2, <1>9, <1>10 DEF RolesChange

\* What a step takes from a user who is left without a role, an overtaken call takes.
LEMMA LastRoleStep ==
  ASSUME RoleInv, [Next]_vars, NEW u \in Users, RolesOf(u) # {}, RolesOf(u)' = {}
  PROVE  \E k \in Counted(u) : revoke[k].overtaken /\ revoke'[k] = NoRevoke
<1>1. ~(userRoles \subseteq userRoles')
  BY DEF RolesOf
<1>2. RoleNext
  BY <1>1 DEF Next, RolesChange, Miss, CanMiss, Query, Fill, QueryFails, InvalidateCache,
         InvalidateAllCache, Tick, vars, roleVars
<1>3. PICK k \in Revokers : RevokeDelete(k)
  BY <1>1, <1>2 DEF RoleNext, CreateRole, AssignRole, RevokeBegin, RevokeCount, RevokeFails
<1>4. revoke[k].user = u
  BY <1>3 DEF RevokeDelete, RolesOf
<1>5. k \in Counted(u) /\ revoke'[k] = NoRevoke
  BY <1>3, <1>4 DEF RevokeDelete, Counted
<1>6. RolesOf(u) \subseteq {revoke[k].role}
  BY <1>3, <1>4 DEF RevokeDelete, RolesOf
<1>7. revoke[k].overtaken \in BOOLEAN
  BY <1>5 DEF Counted, RoleInv, TypeOK, RoleTypeOK, NoRevoke
<1>8. ASSUME ~revoke[k].overtaken PROVE FALSE
  BY <1>4, <1>5, <1>6, <1>8 DEF RoleInv, OtherRoleLeft, Counted
<1> QED
  BY <1>5, <1>7, <1>8

\* However many revocations and assignments overlap, only a revocation whose count another
\* one has overtaken takes a user's last role.
THEOREM LastRoleIsKeptEver == Spec => LastRoleIsKept
<1>1. Init => TypeOK
  BY ClockAssumption DEF Init, RoleInit, TypeOK, RoleTypeOK, Times
<1>2. Init => RoleInv
  BY <1>1 DEF Init, RoleInit, RoleInv, OtherRoleLeft, NoRevoke
<1>3. RoleInv /\ [Next]_vars => RoleInv'
  BY RoleInvStep
<1>4. RoleInv /\ [Next]_vars =>
        [\A u \in Users : RolesOf(u) # {} /\ RolesOf(u)' = {} =>
           \E k \in Counted(u) : revoke[k].overtaken /\ revoke'[k] = NoRevoke]_vars
  BY LastRoleStep
<1> QED
  BY <1>2, <1>3, <1>4, PTL DEF Spec, LastRoleIsKept

-----------------------------------------------------------------------------
(* The type invariant.                                                     *)

Row == [user : Accounts, tenantOf : Accounts, revoked : BOOLEAN, again : BOOLEAN]

\* A request while n rows of refresh_tokens are there.
Request(n) ==
  [at : {"idle", "findUser", "user", "findToken", "token", "verify", "verified", "mismatch",
         "bcrypt", "write", "revoke", "sign", "insert", "stamp"},
   op : {"none", "login", "refresh", "logout", "change", "other"},
   user : Accounts \cup {NoRow}, version : 0..MaxVersion,
   token : (1..n) \cup {NoRow}, revoked : BOOLEAN,
   target : Accounts \cup (1..n) \cup {NoRow}, again : BOOLEAN]

\* What a request q has read by the time it waits for something, with n rows of
\* refresh_tokens and an adapter that remembers the user lu and the token lt.
Ready(q, n, lu, lt) ==
  /\ q.at \in {"findUser", "user"} =>
       q.op \in {"login", "change"} \/ (q.op = "refresh" /\ lt \in 1..n)
  /\ q.at \in {"findToken", "token"} => q.op \in {"refresh", "logout"}
  /\ q.at = "token" => q.token \in 1..n
  /\ q.at \in {"verify", "verified", "mismatch"} => q.user \in Accounts
  /\ q.at \in {"user", "bcrypt", "write", "sign", "insert", "stamp"} => q.user \in Accounts
  /\ q.at = "revoke" => q.op \in {"refresh", "logout"} /\ q.target \in 1..n /\ (q.op = "refresh" => q.user \in Accounts /\ lu \in Accounts)
  /\ q.at = "bcrypt" => q.op \in {"login", "change"} /\ lu \in Accounts
  /\ q.at = "write" => q.op = "change" /\ q.target \in Accounts
  /\ q.at \in {"user", "bcrypt", "write"} /\ q.op = "change" => q.version < MaxVersion
  /\ q.at = "sign" => q.op = "refresh" /\ lu \in Accounts
  /\ q.at = "insert" => q.op \in {"login", "refresh"} /\ q.target \in Accounts /\ lu \in Accounts
  /\ q.at = "stamp" => q.op = "login" /\ q.target \in Accounts

Access == [user : Accounts, version : 0..MaxVersion]

SessionShape ==
  /\ version \in [Accounts -> 0..MaxVersion]
  /\ tokens \in Seq(Row) /\ Len(tokens) <= MaxTokens
  /\ lastUser \in Accounts \cup {NoRow}
  /\ lastToken \in (1..Len(tokens)) \cup {NoRow}
  /\ request \in [Clients -> Request(Len(tokens))]
  /\ \A k \in Clients : Ready(request[k], Len(tokens), lastUser, lastToken)
  /\ issued \subseteq Access /\ outdated \subseteq Access /\ overwritten \subseteq Accounts

\* What one step does: the request of k is now q, with n rows of refresh_tokens.
\* The adapter forgets nothing that it remembers.
LEMMA OneRequest ==
  ASSUME SessionShape, NEW k \in Clients, NEW q \in Request(Len(tokens')),
         request' = [request EXCEPT ![k] = q],
         tokens' \in Seq(Row), Len(tokens') \in Len(tokens)..MaxTokens,
         lastUser' = lastUser \/ lastUser' \in Accounts,
         lastToken' = lastToken \/ lastToken' \in 1..Len(tokens),
         Ready(q, Len(tokens'), lastUser', lastToken'),
         version' \in [Accounts -> 0..MaxVersion],
         issued' \subseteq Access, outdated' \subseteq Access, overwritten' \subseteq Accounts
  PROVE  SessionShape'
<1> DEFINE n == Len(tokens)
           m == Len(tokens')
<1>1. n \in Nat /\ m \in Nat /\ n <= m /\ 1..n \subseteq 1..m
  BY SessionAssumption DEF SessionShape
<1>2. Request(n) \subseteq Request(m)
  BY <1>1 DEF Request
<1>3. lastUser' \in Accounts \cup {NoRow} /\ lastToken' \in (1..m) \cup {NoRow}
  BY <1>1 DEF SessionShape
<1>4. request' \in [Clients -> Request(m)]
  BY <1>2 DEF SessionShape
<1>5. /\ lastUser \in Accounts => lastUser' \in Accounts
      /\ lastToken \in 1..n => lastToken' \in 1..m
  BY <1>1
<1> HIDE DEF n, m
<1>6. ASSUME NEW i \in Clients, i # k PROVE Ready(request'[i], m, lastUser', lastToken')
  <2>1. request'[i] = request[i] /\ Ready(request[i], n, lastUser, lastToken)
    BY <1>6 DEF SessionShape, n
  <2> QED
    BY <2>1, <1>1, <1>5 DEF Ready
<1>7. request'[k] = q
  BY DEF SessionShape
<1> QED
  BY <1>3, <1>4, <1>6, <1>7 DEF SessionShape, m

LEMMA SessionShapeInit == SessionInit => SessionShape
<1> SUFFICES ASSUME SessionInit PROVE SessionShape
  OBVIOUS
<1>1. tokens = <<>> /\ <<>> \in Seq(Row) /\ Len(tokens) = 0
  BY DEF SessionInit
<1>2. 1 \in 0..MaxVersion /\ 0 \in 0..MaxVersion
  BY SessionAssumption
<1>3. Served \in Request(0) /\ Ready(Served, 0, NoRow, NoRow)
  BY <1>2 DEF Served, Request, Ready
<1>4. /\ version \in [Accounts -> 0..MaxVersion] /\ request \in [Clients -> Request(0)]
      /\ \A k \in Clients : request[k] = Served
  BY <1>2, <1>3 DEF SessionInit
<1> QED
  BY <1>1, <1>3, <1>4, SessionAssumption DEF SessionInit, SessionShape

LEMMA SessionShapeNext == SessionShape /\ [SessionNext]_sessionVars => SessionShape'
<1> SUFFICES ASSUME SessionShape, [SessionNext]_sessionVars PROVE SessionShape'
  OBVIOUS
<1> DEFINE n == Len(tokens)
<1>0. /\ n \in Nat /\ n <= MaxTokens /\ MaxTokens \in Nat /\ n \in n..MaxTokens
      /\ tokens \in Seq(Row)
      /\ version \in [Accounts -> 0..MaxVersion]
      /\ request \in [Clients -> Request(n)]
      /\ issued \subseteq Access /\ outdated \subseteq Access /\ overwritten \subseteq Accounts
  BY SessionAssumption DEF SessionShape
<1>00. ASSUME NEW k \in Clients
       PROVE  request[k] \in Request(n) /\ Ready(request[k], n, lastUser, lastToken)
  BY <1>00 DEF SessionShape
<1>01. Served \in Request(n)
  <2>1. 0 \in 0..MaxVersion
    BY SessionAssumption
  <2> QED
    BY <2>1 DEF Served, Request
<1>02. \A lu, lt : Ready(Served, n, lu, lt) /\ Ready(Served, n + 1, lu, lt)
  BY DEF Served, Ready
<1>1. ASSUME NEW k \in Clients, Login(k) PROVE SessionShape'
  <2> DEFINE q == [Served EXCEPT !.at = "findUser", !.op = "login"]
  <2>1. request' = [request EXCEPT ![k] = q] /\ UNCHANGED <<version, tokens, adapterVars, historyVars>>
    BY <1>1 DEF Login
  <2>2. q \in Request(n)
    BY <1>01 DEF Request
  <2>3. q.at = "findUser" /\ q.op = "login"
    BY DEF Served
  <2> HIDE DEF q
  <2>4. Ready(q, n, lastUser, lastToken)
    BY <2>3 DEF Ready
  <2> QED
    BY <1>0, <2>1, <2>2, <2>4, OneRequest DEF adapterVars, historyVars
<1>2. ASSUME NEW k \in Clients, NEW op \in {"refresh", "logout"}, Keep(k, op) PROVE SessionShape'
  <2> DEFINE q == [Served EXCEPT !.at = "findToken", !.op = op]
  <2>1. request' = [request EXCEPT ![k] = q] /\ UNCHANGED <<version, tokens, adapterVars, historyVars>>
    BY <1>2 DEF Keep
  <2>2. q \in Request(n)
    BY <1>01 DEF Request
  <2>3. q.at = "findToken" /\ q.op = op
    BY DEF Served
  <2> HIDE DEF q
  <2>4. Ready(q, n, lastUser, lastToken)
    BY <2>3 DEF Ready
  <2> QED
    BY <1>0, <2>1, <2>2, <2>4, OneRequest DEF adapterVars, historyVars
<1>3. ASSUME NEW k \in Clients, NEW access \in issued, NEW op \in {"change", "other"},
             Protected(k, access, op)
      PROVE  SessionShape'
  <2> DEFINE q == [Served EXCEPT !.at = "verify", !.op = op, !.user = access.user,
                                 !.version = access.version]
  <2>1. request' = [request EXCEPT ![k] = q] /\ UNCHANGED <<version, tokens, adapterVars, historyVars>>
    BY <1>3 DEF Protected
  <2>2. access.user \in Accounts /\ access.version \in 0..MaxVersion
    BY <1>0 DEF Access
  <2>3. q \in Request(n)
    BY <1>01, <2>2 DEF Request
  <2>4. q.at = "verify" /\ q.op = op /\ q.user \in Accounts
    BY <2>2 DEF Served
  <2> HIDE DEF q
  <2>5. Ready(q, n, lastUser, lastToken)
    BY <2>4 DEF Ready
  <2> QED
    BY <1>0, <2>1, <2>3, <2>5, OneRequest DEF adapterVars, historyVars
<1>4. ASSUME NEW k \in Clients, NEW u \in Accounts, FindUser(k, u) PROVE SessionShape'
  <2> DEFINE q == [request[k] EXCEPT !.at = "user", !.user = u, !.version = version[u]]
  <2>1. request' = [request EXCEPT ![k] = q] /\ UNCHANGED <<version, tokens, adapterVars, historyVars>>
    BY <1>0, <1>4 DEF FindUser
  <2>2. version[u] \in 0..MaxVersion
    BY <1>0
  <2>3. q \in Request(n)
    BY <1>00, <2>2 DEF Request
  <2>4. Ready(q, n, lastUser, lastToken)
    BY <1>00, <1>4, <2>2, SessionAssumption DEF Request, Ready, FindUser
  <2> QED
    BY <1>0, <2>1, <2>3, <2>4, OneRequest DEF adapterVars, historyVars
<1>5. ASSUME NEW k \in Clients, NEW t \in DOMAIN tokens, FindToken(k, t) PROVE SessionShape'
  <2> DEFINE r == request[k]
             v == tokens[t].revoked
             q == [r EXCEPT !.at = "token", !.token = t, !.revoked = v]
  <2>1. request' = [request EXCEPT ![k] = q] /\ UNCHANGED <<version, tokens, adapterVars, historyVars>>
    BY <1>0, <1>5 DEF FindToken
  <2>2. t \in 1..n /\ v \in BOOLEAN
    <3>1. t \in 1..n /\ tokens[t] \in Row
      BY <1>0
    <3> QED
      BY <3>1 DEF Row
  <2>3. r \in Request(n) /\ r.op \in {"refresh", "logout"}
    BY <1>00, <1>5 DEF FindToken, Ready
  <2> HIDE DEF r, v
  <2>4. q \in Request(n)
    BY <2>2, <2>3 DEF Request
  <2>5. q.at = "token" /\ q.op = r.op /\ q.token = t
    BY <2>3 DEF Request
  <2> HIDE DEF q
  <2>6. Ready(q, n, lastUser, lastToken)
    BY <2>2, <2>3, <2>5 DEF Ready
  <2> QED
    BY <1>0, <2>1, <2>4, <2>6, OneRequest DEF adapterVars, historyVars
<1>6. ASSUME NEW k \in Clients, FindOwner(k) PROVE SessionShape'
  <2> DEFINE q == [request[k] EXCEPT !.at =
                     IF request[k].version = version[request[k].user] THEN "verified" ELSE "mismatch"]
  <2>1. request' = [request EXCEPT ![k] = q] /\ UNCHANGED <<version, tokens, adapterVars, historyVars>>
    BY <1>0, <1>6 DEF FindOwner
  <2>2. q \in Request(n) /\ Ready(q, n, lastUser, lastToken)
    BY <1>00, <1>6 DEF Request, Ready, FindOwner
  <2> QED
    BY <1>0, <2>1, <2>2, OneRequest DEF adapterVars, historyVars
<1>7. ASSUME NEW k \in Clients, Verified(k) PROVE SessionShape'
  <2> DEFINE again == [Served EXCEPT !.at = "findUser", !.op = "change"]
             q == IF request[k].at = "verified" /\ request[k].op = "change" THEN again ELSE Served
  <2>1. /\ request' = [request EXCEPT ![k] = q] /\ lastUser' = request[k].user
        /\ UNCHANGED <<version, tokens, lastToken, historyVars>>
    BY <1>7 DEF Verified
  <2>2. request[k].user \in Accounts
    BY <1>00, <1>7 DEF Verified, Ready
  <2>3. again \in Request(n)
    BY <1>01 DEF Request
  <2>4. again.at = "findUser" /\ again.op = "change"
    BY DEF Served
  <2> HIDE DEF again
  <2>5. Ready(again, n, lastUser', lastToken)
    BY <2>4 DEF Ready
  <2>6. q \in Request(n) /\ Ready(q, n, lastUser', lastToken)
    BY <1>01, <1>02, <2>3, <2>5
  <2> HIDE DEF q
  <2> QED
    BY <1>0, <2>1, <2>2, <2>6, OneRequest DEF historyVars
<1>8. ASSUME NEW k \in Clients, UserRead(k) PROVE SessionShape'
  <2> DEFINE q == IF request[k].op = "refresh"
                  THEN [request[k] EXCEPT !.at = "revoke", !.target = lastToken]
                  ELSE [request[k] EXCEPT !.at = "bcrypt"]
  <2>1. /\ request' = [request EXCEPT ![k] = q] /\ lastUser' = request[k].user
        /\ UNCHANGED <<version, tokens, lastToken, historyVars>>
    BY <1>0, <1>8 DEF UserRead
  <2>2. request[k].user \in Accounts /\ (request[k].op = "refresh" => lastToken \in 1..n)
    BY <1>00, <1>8 DEF UserRead, Ready
  <2>3. q \in Request(n)
    <3>1. [request[k] EXCEPT !.at = "bcrypt"] \in Request(n)
      BY <1>00 DEF Request
    <3>2. ASSUME lastToken \in 1..n
          PROVE  [request[k] EXCEPT !.at = "revoke", !.target = lastToken] \in Request(n)
      BY <1>00, <3>2 DEF Request
    <3> QED
      BY <2>2, <3>1, <3>2
  <2>4. Ready(q, n, lastUser', lastToken)
    BY <1>00, <1>8, <2>1, <2>2 DEF UserRead, Request, Ready
  <2> QED
    BY <1>0, <2>1, <2>2, <2>3, <2>4, OneRequest DEF historyVars
<1>9. ASSUME NEW k \in Clients, TokenRead(k) PROVE SessionShape'
  <2> DEFINE r == request[k]
             q == CASE r.op = "refresh" /\ r.revoked -> Served
                    [] r.op = "refresh" /\ ~r.revoked -> [r EXCEPT !.at = "findUser"]
                    [] r.op = "logout" -> [r EXCEPT !.at = "revoke", !.target = lastToken']
  <2>1. /\ request' = [request EXCEPT ![k] = q] /\ lastToken' = r.token
        /\ UNCHANGED <<version, tokens, lastUser, historyVars>>
    BY <1>9 DEF TokenRead
  <2>2. r.op \in {"refresh", "logout"} /\ r.token \in 1..n /\ r.revoked \in BOOLEAN /\ r \in Request(n)
    BY <1>00, <1>9 DEF TokenRead, Ready, Request
  <2>3. q \in Request(n) /\ Ready(q, n, lastUser, lastToken')
    <3>1. CASE r.op = "refresh" /\ r.revoked
      BY <1>01, <1>02, <3>1
    <3>2. CASE r.op = "refresh" /\ ~r.revoked
      <4>1. q = [r EXCEPT !.at = "findUser"]
        BY <3>2
      <4> HIDE DEF q, r
      <4> QED
        BY <2>1, <2>2, <3>2, <4>1 DEF Request, Ready
    <3>3. CASE r.op = "logout"
      <4>1. q = [r EXCEPT !.at = "revoke", !.target = r.token]
        BY <2>1, <3>3
      <4> HIDE DEF q, r
      <4> QED
        BY <2>1, <2>2, <3>3, <4>1 DEF Request, Ready
    <3> QED
      BY <2>2, <3>1, <3>2, <3>3
  <2> HIDE DEF q, r
  <2> QED
    BY <1>0, <2>1, <2>2, <2>3, OneRequest DEF historyVars
<1>10. ASSUME NEW k \in Clients, PasswordRight(k) PROVE SessionShape'
  <2> DEFINE q == [request[k] EXCEPT !.at = IF request[k].op = "login" THEN "insert" ELSE "write",
                                     !.target = lastUser]
  <2>1. request' = [request EXCEPT ![k] = q] /\ UNCHANGED <<version, tokens, adapterVars, historyVars>>
    BY <1>0, <1>10 DEF PasswordRight
  <2>2. q \in Request(n)
    <3> DEFINE r == request[k]
    <3>1. r \in Request(n) /\ lastUser \in Accounts \cup {NoRow}
      BY <1>00 DEF SessionShape
    <3> HIDE DEF r
    <3>2. [r EXCEPT !.at = "insert", !.target = lastUser] \in Request(n)
      BY <3>1 DEF Request
    <3>3. [r EXCEPT !.at = "write", !.target = lastUser] \in Request(n)
      BY <3>1 DEF Request
    <3> QED
      BY <3>2, <3>3 DEF r
  <2>3. Ready(q, n, lastUser, lastToken)
    BY <1>00, <1>10 DEF Request, Ready, PasswordRight
  <2> QED
    BY <1>0, <2>1, <2>2, <2>3, OneRequest DEF adapterVars, historyVars
<1>11. ASSUME NEW k \in Clients, WritePassword(k) PROVE SessionShape'
  <2> DEFINE r == request[k]
  <2>1. /\ request' = [request EXCEPT ![k] = Served]
        /\ version' = [version EXCEPT ![r.target] = r.version + 1]
        /\ outdated' = outdated \cup {e \in issued : e.user = r.target}
        /\ overwritten' \subseteq overwritten \cup {r.target}
        /\ UNCHANGED <<tokens, adapterVars, issued, logins>>
    BY <1>11 DEF WritePassword
  <2>2. r.target \in Accounts /\ r.version < MaxVersion /\ r.version \in 0..MaxVersion
    BY <1>00, <1>11 DEF WritePassword, Ready, Request
  <2>3. r.version + 1 \in 0..MaxVersion
    BY <2>2, SessionAssumption
  <2> HIDE DEF r
  <2>4. version' \in [Accounts -> 0..MaxVersion]
    BY <1>0, <2>1, <2>3
  <2>5. outdated' \subseteq Access /\ overwritten' \subseteq Accounts
    BY <1>0, <2>1, <2>2
  <2> QED
    BY <1>0, <1>01, <1>02, <2>1, <2>4, <2>5, OneRequest DEF adapterVars
<1>12. ASSUME NEW k \in Clients, Revoke(k) PROVE SessionShape'
  <2> DEFINE r == request[k]
             u == r.target
             old == tokens[u]
             twice == old.revoked \/ old.again
             q == IF r.op = "refresh" THEN [r EXCEPT !.at = "sign", !.again = twice] ELSE Served
  <2>1. /\ request' = [request EXCEPT ![k] = q]
        /\ tokens' = [tokens EXCEPT ![u].revoked = TRUE]
        /\ UNCHANGED <<version, adapterVars, historyVars>>
    BY <1>12 DEF Revoke
  <2>2. /\ u \in 1..n /\ (r.op = "refresh" => r.user \in Accounts /\ lastUser \in Accounts)
        /\ r \in Request(n) /\ r.at = "revoke"
    BY <1>00, <1>12 DEF Revoke, Ready
  <2>3. old \in Row /\ twice \in BOOLEAN
    <3>1. old \in Row
      BY <1>0, <2>2
    <3> HIDE DEF old
    <3> QED
      BY <3>1 DEF Row
  <2> HIDE DEF r, u, twice
  <2>4. tokens' \in Seq(Row) /\ Len(tokens') = n
    <3>1. [old EXCEPT !.revoked = TRUE] \in Row
      <4> HIDE DEF old
      <4> QED
        BY <2>3 DEF Row
    <3>2. tokens' = [tokens EXCEPT ![u] = [old EXCEPT !.revoked = TRUE]]
      BY <2>1
    <3> HIDE DEF old
    <3> QED
      BY <1>0, <2>2, <3>1, <3>2
  <2>5. q \in Request(n) /\ Ready(q, n, lastUser, lastToken)
    <3>1. CASE r.op = "refresh"
      <4>1. q = [r EXCEPT !.at = "sign", !.again = twice]
        BY <3>1
      <4> HIDE DEF q
      <4> QED
        BY <2>2, <2>3, <3>1, <4>1 DEF Request, Ready
    <3>2. CASE r.op # "refresh"
      BY <1>01, <1>02, <3>2
    <3> QED
      BY <3>1, <3>2
  <2> HIDE DEF q
  <2> QED
    BY <1>0, <2>1, <2>4, <2>5, OneRequest DEF adapterVars, historyVars
<1>13. ASSUME NEW k \in Clients, Signed(k) PROVE SessionShape'
  <2> DEFINE q == [request[k] EXCEPT !.at = "insert", !.target = lastUser]
  <2>1. request' = [request EXCEPT ![k] = q] /\ UNCHANGED <<version, tokens, adapterVars, historyVars>>
    BY <1>0, <1>13 DEF Signed
  <2>2. q \in Request(n) /\ Ready(q, n, lastUser, lastToken)
    BY <1>00, <1>13 DEF Request, Ready, Signed
  <2> QED
    BY <1>0, <2>1, <2>2, OneRequest DEF adapterVars, historyVars
<1>14. ASSUME NEW k \in Clients, Insert(k) PROVE SessionShape'
  <2> DEFINE r == request[k]
             t == [user |-> r.user, tenantOf |-> r.target, revoked |-> FALSE, again |-> r.again]
             q == IF r.op = "login" THEN [r EXCEPT !.at = "stamp", !.target = lastUser] ELSE Served
  <2>1. /\ request' = [request EXCEPT ![k] = q] /\ n < MaxTokens
        /\ tokens' = Append(tokens, t)
        /\ issued' = issued \/ issued' = issued \cup {[user |-> r.user, version |-> r.version]}
        /\ UNCHANGED <<version, adapterVars, outdated, overwritten>>
    BY <1>0, <1>14 DEF Insert
  <2>2. /\ r.user \in Accounts /\ r.target \in Accounts /\ lastUser \in Accounts
        /\ r.version \in 0..MaxVersion /\ r \in Request(n) /\ r.again \in BOOLEAN
    BY <1>00, <1>14 DEF Insert, Ready, Request
  <2> HIDE DEF r
  <2>3. t \in Row
    BY <2>2 DEF Row
  <2> HIDE DEF t
  <2>4. tokens' \in Seq(Row) /\ Len(tokens') = n + 1 /\ n + 1 \in n..MaxTokens
    BY <1>0, <2>1, <2>3
  <2>5. issued' \subseteq Access
    BY <1>0, <2>1, <2>2 DEF Access
  <2>6. r \in Request(n + 1) /\ Served \in Request(n + 1) /\ lastUser \in Accounts \cup {NoRow}
    <3>1. 1..n \subseteq 1..(n + 1)
      BY <1>0
    <3>2. Request(n) \subseteq Request(n + 1)
      BY <3>1 DEF Request
    <3> QED
      BY <1>01, <2>2, <3>2 DEF SessionShape
  <2>7. q \in Request(n + 1)
    <3>1. [r EXCEPT !.at = "stamp", !.target = lastUser] \in Request(n + 1)
      BY <2>6 DEF Request
    <3> QED
      BY <2>6, <3>1
  <2>8. Ready(q, n + 1, lastUser, lastToken)
    <3>1. CASE r.op = "login"
      <4>1. q.at = "stamp" /\ q.op = "login" /\ q.user = r.user /\ q.target = lastUser
        BY <2>2, <3>1 DEF Request
      <4> HIDE DEF q
      <4> QED
        BY <2>2, <4>1 DEF Ready
    <3>2. CASE r.op # "login"
      BY <3>2 DEF Ready, Served
    <3> QED
      BY <3>1, <3>2
  <2> HIDE DEF q
  <2> QED
    BY <1>0, <2>1, <2>4, <2>5, <2>7, <2>8, OneRequest DEF adapterVars
<1>15. ASSUME NEW k \in Clients, Stamp(k) PROVE SessionShape'
  <2> DEFINE r == request[k]
  <2>1. /\ request' = [request EXCEPT ![k] = Served]
        /\ issued' = issued \cup {[user |-> r.user, version |-> r.version]}
        /\ UNCHANGED <<version, tokens, adapterVars, outdated, overwritten, logins>>
    BY <1>15 DEF Stamp
  <2>2. r.user \in Accounts /\ r.version \in 0..MaxVersion
    BY <1>00, <1>15 DEF Stamp, Ready, Request
  <2>3. issued' \subseteq Access
    BY <1>0, <2>1, <2>2 DEF Access
  <2> QED
    BY <1>0, <1>01, <1>02, <2>1, <2>3, OneRequest DEF adapterVars
<1>16. ASSUME NEW k \in Clients, Refuse(k) PROVE SessionShape'
  <2> DEFINE r == request[k]
  <2>1. /\ request' = [request EXCEPT ![k] = Served]
        /\ lastUser' = IF r.at = "user" THEN r.user ELSE lastUser
        /\ lastToken' = IF r.at = "token" THEN r.token ELSE lastToken
        /\ UNCHANGED <<version, tokens, historyVars>>
    BY <1>16 DEF Refuse
  <2>2. (r.at = "user" => r.user \in Accounts) /\ (r.at = "token" => r.token \in 1..n)
    BY <1>00 DEF Ready
  <2> HIDE DEF r
  <2> QED
    BY <1>0, <1>01, <1>02, <2>1, <2>2, OneRequest DEF historyVars
<1>17. ASSUME NEW k \in Clients, StatementFails(k) PROVE SessionShape'
  BY <1>0, <1>01, <1>02, <1>17, OneRequest DEF StatementFails, adapterVars, historyVars
<1>18. CASE UNCHANGED sessionVars
  BY <1>18 DEF sessionVars, adapterVars, historyVars, SessionShape
<1> QED
  BY <1>1, <1>2, <1>3, <1>4, <1>5, <1>6, <1>7, <1>8, <1>9, <1>10, <1>11, <1>12, <1>13, <1>14,
     <1>15, <1>16, <1>17, <1>18 DEF SessionNext, Route, Lookup, Write

\* Type correctness of the tables, the adapter and the requests.
THEOREM SessionTypeCorrect == SessionSpec => []SessionTypeOK
<1>1. ASSUME SessionShape PROVE SessionTypeOK
  <2>1. DOMAIN tokens = 1..Len(tokens) /\ \A t \in 1..Len(tokens) : tokens[t] \in Row
    BY <1>1 DEF SessionShape
  <2>2. request \in [Clients -> Request(Len(tokens))] /\ issued \cup outdated \subseteq Access
    BY <1>1 DEF SessionShape
  <2> QED
    BY <1>1, <2>1, <2>2 DEF SessionShape, SessionTypeOK, Row, Request, Access
<1> QED
  BY <1>1, SessionShapeInit, SessionShapeNext, PTL DEF SessionSpec

-----------------------------------------------------------------------------
(* Refresh tokens rotate.                                                  *)

\* The tokens that are not revoked and come of no token which was refreshed twice.
First == {t \in Live : ~tokens[t].again}

\* A refresh that has revoked the token it is for, and is yet to insert the next one.
Spares(q) == q.op = "refresh" /\ q.at \in {"sign", "insert"} /\ ~q.again
Pending == {k \in Clients : Spares(request[k])}

\* A refresh in between makes up for the token that it has revoked.
RotationInv ==
  /\ IsFiniteSet(Pending) /\ logins \in Nat
  /\ Cardinality(First) + Cardinality(Pending) <= logins

LEMMA FirstIsFinite ==
  ASSUME tokens \in Seq(Row)
  PROVE  IsFiniteSet(First) /\ Cardinality(First) \in Nat /\ First \subseteq 1..Len(tokens)
<1>1. First \subseteq 1..Len(tokens) /\ Len(tokens) \in Nat
  BY DEF Live, First
<1>2. IsFiniteSet(1..Len(tokens))
  BY <1>1, FS_Interval
<1> QED
  BY <1>1, <1>2, FS_Subset, FS_CardinalityType

\* One request becomes q.
LEMMA PendingIs ==
  ASSUME SessionShape, NEW k \in Clients, NEW q, request' = [request EXCEPT ![k] = q]
  PROVE  Pending' = IF Spares(q) THEN Pending \cup {k} ELSE Pending \ {k}
BY DEF SessionShape, Pending

\* Steps that leave tokens and logins alone, and after which no more refreshes are pending.
LEMMA RotationStands ==
  ASSUME SessionShape, RotationInv, NEW k \in Clients, NEW q,
         request' = [request EXCEPT ![k] = q],
         Spares(q) => Spares(request[k]),
         UNCHANGED <<tokens, logins>>
  PROVE  RotationInv'
<1>1. First' = First
  BY DEF First, Live
<1>2. Pending' \subseteq Pending
  BY PendingIs DEF Pending
<1>3. IsFiniteSet(Pending') /\ Cardinality(Pending') <= Cardinality(Pending)
      /\ Cardinality(Pending') \in Nat /\ Cardinality(Pending) \in Nat
  BY <1>2, FS_Subset, FS_CardinalityType DEF RotationInv
<1>4. Cardinality(First) \in Nat
  BY FirstIsFinite DEF SessionShape
<1> QED
  BY <1>1, <1>3, <1>4 DEF RotationInv

LEMMA RotationInit == SessionInit => RotationInv
<1> SUFFICES ASSUME SessionInit PROVE RotationInv
  OBVIOUS
<1>1. First = {} /\ Pending = {}
  BY DEF SessionInit, Live, First, Pending, Spares, Served
<1>2. Cardinality({}) = 0 /\ IsFiniteSet({})
  BY FS_EmptySet
<1> QED
  BY <1>1, <1>2 DEF SessionInit, RotationInv

LEMMA RotationNext ==
  SessionShape /\ SessionShape' /\ RotationInv /\ [SessionNext]_sessionVars => RotationInv'
<1> SUFFICES ASSUME SessionShape, SessionShape', RotationInv, [SessionNext]_sessionVars
             PROVE  RotationInv'
  OBVIOUS
<1> DEFINE c == Cardinality(First)
           p == Cardinality(Pending)
<1>0. /\ DOMAIN request = Clients
      /\ tokens \in Seq(Row) /\ IsFiniteSet(First) /\ c \in Nat /\ First \subseteq 1..Len(tokens)
      /\ logins \in Nat /\ c + p <= logins /\ IsFiniteSet(Pending) /\ p \in Nat
  BY FirstIsFinite, FS_CardinalityType DEF SessionShape, RotationInv
<1>00. ASSUME NEW k \in Clients
       PROVE  /\ Ready(request[k], Len(tokens), lastUser, lastToken)
              /\ request[k] \in Request(Len(tokens))
  BY DEF SessionShape
<1>01. ~Spares(Served)
  BY DEF Served, Spares
\* A request that goes on to something else than to insert a token.
<1>1. ASSUME NEW k \in Clients, NEW q, request' = [request EXCEPT ![k] = q],
             UNCHANGED <<tokens, logins>>,
             q.op # "refresh" \/ q.at \notin {"sign", "insert"}
      PROVE  RotationInv'
  BY <1>1, RotationStands DEF Spares
<1>2. ASSUME NEW k \in Clients, Login(k) PROVE RotationInv'
  <2> DEFINE q == [Served EXCEPT !.at = "findUser", !.op = "login"]
  <2>1. request' = [request EXCEPT ![k] = q] /\ UNCHANGED <<tokens, logins>>
    BY <1>2 DEF Login, historyVars
  <2>2. q.op = "login"
    BY DEF Served
  <2> HIDE DEF q
  <2> QED
    BY <1>1, <2>1, <2>2
<1>3. ASSUME NEW k \in Clients, NEW op \in {"refresh", "logout"}, Keep(k, op) PROVE RotationInv'
  <2> DEFINE q == [Served EXCEPT !.at = "findToken", !.op = op]
  <2>1. request' = [request EXCEPT ![k] = q] /\ UNCHANGED <<tokens, logins>>
    BY <1>3 DEF Keep, historyVars
  <2>2. q.at = "findToken"
    BY DEF Served
  <2> HIDE DEF q
  <2> QED
    BY <1>1, <2>1, <2>2
<1>4. ASSUME NEW k \in Clients, NEW access \in issued, NEW op \in {"change", "other"},
             Protected(k, access, op)
      PROVE  RotationInv'
  <2> DEFINE q == [Served EXCEPT !.at = "verify", !.op = op, !.user = access.user,
                                 !.version = access.version]
  <2>1. request' = [request EXCEPT ![k] = q] /\ UNCHANGED <<tokens, logins>>
    BY <1>4 DEF Protected, historyVars
  <2>2. q.at = "verify"
    BY DEF Served
  <2> HIDE DEF q
  <2> QED
    BY <1>1, <2>1, <2>2
<1>5. ASSUME NEW k \in Clients, NEW u \in Accounts, FindUser(k, u) PROVE RotationInv'
  <2> DEFINE q == [request[k] EXCEPT !.at = "user", !.user = u, !.version = version[u]]
  <2>1. request' = [request EXCEPT ![k] = q] /\ UNCHANGED <<tokens, logins>>
    BY <1>0, <1>5 DEF FindUser, historyVars
  <2>2. q.at = "user"
    BY <1>00 DEF Request
  <2> HIDE DEF q
  <2> QED
    BY <1>1, <2>1, <2>2
<1>6. ASSUME NEW k \in Clients, NEW t \in DOMAIN tokens, FindToken(k, t) PROVE RotationInv'
  <2> DEFINE q == [request[k] EXCEPT !.at = "token", !.token = t, !.revoked = tokens[t].revoked]
  <2>1. request' = [request EXCEPT ![k] = q] /\ UNCHANGED <<tokens, logins>>
    BY <1>0, <1>6 DEF FindToken, historyVars
  <2>2. q.at = "token"
    BY <1>00 DEF Request
  <2> HIDE DEF q
  <2> QED
    BY <1>1, <2>1, <2>2
<1>7. ASSUME NEW k \in Clients, FindOwner(k) PROVE RotationInv'
  <2> DEFINE r == request[k]
             q == [r EXCEPT !.at = IF r.version = version[r.user] THEN "verified" ELSE "mismatch"]
  <2>1. request' = [request EXCEPT ![k] = q] /\ UNCHANGED <<tokens, logins>>
    BY <1>0, <1>7 DEF FindOwner, historyVars
  <2>2. q.at \in {"verified", "mismatch"}
    BY <1>00 DEF Request
  <2> HIDE DEF q
  <2> QED
    BY <1>1, <2>1, <2>2
<1>8. ASSUME NEW k \in Clients, Verified(k) PROVE RotationInv'
  <2> DEFINE q == IF request[k].at = "verified" /\ request[k].op = "change"
                  THEN [Served EXCEPT !.at = "findUser", !.op = "change"] ELSE Served
  <2>1. request' = [request EXCEPT ![k] = q] /\ UNCHANGED <<tokens, logins>>
    BY <1>8 DEF Verified, historyVars
  <2>2. q.op \in {"change", "none"}
    BY DEF Served
  <2> HIDE DEF q
  <2> QED
    BY <1>1, <2>1, <2>2
<1>9. ASSUME NEW k \in Clients, UserRead(k) PROVE RotationInv'
  <2> DEFINE r == request[k]
             q == IF r.op = "refresh" THEN [r EXCEPT !.at = "revoke", !.target = lastToken]
                  ELSE [r EXCEPT !.at = "bcrypt"]
  <2>1. request' = [request EXCEPT ![k] = q] /\ UNCHANGED <<tokens, logins>>
    BY <1>0, <1>9 DEF UserRead, historyVars
  <2>2. q.at \in {"revoke", "bcrypt"}
    BY <1>00 DEF Request
  <2> HIDE DEF q
  <2> QED
    BY <1>1, <2>1, <2>2
<1>10. ASSUME NEW k \in Clients, TokenRead(k) PROVE RotationInv'
  <2> DEFINE r == request[k]
             q == CASE r.op = "refresh" /\ r.revoked -> Served
                    [] r.op = "refresh" /\ ~r.revoked -> [r EXCEPT !.at = "findUser"]
                    [] r.op = "logout" -> [r EXCEPT !.at = "revoke", !.target = lastToken']
  <2>1. request' = [request EXCEPT ![k] = q] /\ UNCHANGED <<tokens, logins>> /\ r.at = "token"
    BY <1>10 DEF TokenRead, historyVars
  <2>2. r.op \in {"refresh", "logout"} /\ r.revoked \in BOOLEAN /\ r \in Request(Len(tokens))
    BY <1>00, <2>1 DEF Ready, Request
  <2> HIDE DEF r
  <2>3. q.at \in {"idle", "findUser", "revoke"}
    <3>1. CASE r.op = "refresh" /\ r.revoked
      BY <3>1 DEF Served
    <3>2. CASE r.op = "refresh" /\ ~r.revoked
      BY <2>2, <3>2 DEF Request
    <3>3. CASE r.op = "logout"
      BY <2>2, <3>3 DEF Request
    <3> QED
      BY <2>2, <3>1, <3>2, <3>3
  <2> HIDE DEF q
  <2> QED
    BY <1>1, <2>1, <2>3
<1>11. ASSUME NEW k \in Clients, PasswordRight(k) PROVE RotationInv'
  <2> DEFINE r == request[k]
             q == [r EXCEPT !.at = IF r.op = "login" THEN "insert" ELSE "write", !.target = lastUser]
  <2>1. /\ request' = [request EXCEPT ![k] = q] /\ UNCHANGED <<tokens, logins>>
        /\ r.op \in {"login", "change"}
    BY <1>0, <1>00, <1>11 DEF PasswordRight, Ready, historyVars
  <2>2. q.op = r.op
    BY <1>00 DEF Request
  <2> HIDE DEF q
  <2> QED
    BY <1>1, <2>1, <2>2
<1>12. ASSUME NEW k \in Clients,
              WritePassword(k) \/ Stamp(k) \/ StatementFails(k) \/ Refuse(k)
       PROVE  RotationInv'
  <2>1. request' = [request EXCEPT ![k] = Served] /\ UNCHANGED <<tokens, logins>>
    BY <1>12 DEF WritePassword, Stamp, StatementFails, Refuse, historyVars
  <2>2. Served.op = "none"
    BY DEF Served
  <2> QED
    BY <1>1, <2>1, <2>2
\* The token of the request is revoked: if it was live and the first of its kind, there is
\* one of them less, and one refresh more that is to insert another.
<1>13. ASSUME NEW k \in Clients, Revoke(k) PROVE RotationInv'
  <2> DEFINE r == request[k]
             u == r.target
             old == tokens[u]
             twice == old.revoked \/ old.again
             q == IF r.op = "refresh" THEN [r EXCEPT !.at = "sign", !.again = twice] ELSE Served
  <2>1. /\ request' = [request EXCEPT ![k] = q]
        /\ tokens' = [tokens EXCEPT ![u].revoked = TRUE]
        /\ logins' = logins /\ r.at = "revoke"
    BY <1>13 DEF Revoke, historyVars
  <2>2. u \in 1..Len(tokens) /\ r \in Request(Len(tokens)) /\ old \in Row
    <3>1. u \in 1..Len(tokens) /\ r \in Request(Len(tokens))
      BY <1>00, <2>1 DEF Ready
    <3> QED
      BY <1>0, <3>1
  <2>3. First' = First \ {u}
    <3>1. DOMAIN tokens = 1..Len(tokens) /\ DOMAIN tokens' = DOMAIN tokens
      BY <1>0, <2>1
    <3>2. \A t \in DOMAIN tokens : t # u => tokens'[t] = tokens[t]
      BY <2>1
    <3>3. tokens'[u].revoked
      <4>1. tokens'[u] = [old EXCEPT !.revoked = TRUE]
        BY <2>1, <2>2, <3>1
      <4> HIDE DEF old, u
      <4> QED
        BY <2>2, <4>1 DEF Row
    <3> QED
      BY <2>2, <3>1, <3>2, <3>3 DEF Live, First
  <2>4. u \in First <=> ~twice
    <3>1. u \in DOMAIN tokens
      BY <1>0, <2>2
    <3> QED
      BY <3>1 DEF First, Live
  <2>5. Spares(q) <=> r.op = "refresh" /\ ~twice
    <3>1. CASE r.op = "refresh"
      <4>1. q.op = "refresh" /\ q.at = "sign" /\ q.again = twice
        BY <2>2, <3>1 DEF Request
      <4> HIDE DEF q, twice
      <4> QED
        BY <3>1, <4>1 DEF Spares
    <3>2. CASE r.op # "refresh"
      BY <1>01, <3>2
    <3> QED
      BY <3>1, <3>2
  <2>6. k \notin Pending
    BY <2>1 DEF Pending, Spares
  <2> HIDE DEF r, u, old, twice, q
  <2>7. Pending' = IF Spares(q) THEN Pending \cup {k} ELSE Pending
    BY <2>1, <2>6, PendingIs
  <2>8. CASE ~twice
    <3>1. Cardinality(First') = c - 1
      BY <1>0, <2>3, <2>4, <2>8, FS_RemoveElement
    <3>2. IsFiniteSet(Pending') /\ (Cardinality(Pending') = p \/ Cardinality(Pending') = p + 1)
      BY <1>0, <2>6, <2>7, FS_AddElement
    <3> QED
      BY <1>0, <2>1, <3>1, <3>2 DEF RotationInv
  <2>9. CASE twice
    <3>1. First' = First /\ Pending' = Pending
      BY <2>3, <2>4, <2>5, <2>7, <2>9
    <3> QED
      BY <1>0, <2>1, <3>1 DEF RotationInv
  <2> QED
    BY <2>8, <2>9
<1>14. ASSUME NEW k \in Clients, Signed(k) PROVE RotationInv'
  <2> DEFINE r == request[k]
             q == [r EXCEPT !.at = "insert", !.target = lastUser]
  <2>1. request' = [request EXCEPT ![k] = q] /\ UNCHANGED <<tokens, logins>> /\ r.at = "sign"
    BY <1>0, <1>14 DEF Signed, historyVars
  <2>2. q.op = r.op /\ q.again = r.again
    BY <1>00 DEF Request
  <2> HIDE DEF q
  <2>3. Spares(q) => Spares(r)
    BY <2>1, <2>2 DEF Spares
  <2> QED
    BY <2>1, <2>3, RotationStands
<1>15. ASSUME NEW k \in Clients, Insert(k) PROVE RotationInv'
  <2> DEFINE r == request[k]
             n == Len(tokens)
             t == [user |-> r.user, tenantOf |-> r.target, revoked |-> FALSE, again |-> r.again]
             q == IF r.op = "login" THEN [r EXCEPT !.at = "stamp", !.target = lastUser] ELSE Served
  <2>1. /\ request' = [request EXCEPT ![k] = q] /\ tokens' = Append(tokens, t)
        /\ logins' = (IF r.op = "login" THEN logins + 1 ELSE logins)
        /\ r.at = "insert" /\ r \in Request(n)
    BY <1>0, <1>00, <1>15 DEF Insert
  <2>2. r.op \in {"login", "refresh"} /\ r.again \in BOOLEAN
    BY <1>00, <2>1 DEF Ready, Request
  <2>3. t.revoked = FALSE /\ t.again = r.again
    OBVIOUS
  <2>4. ~Spares(q)
    <3>1. CASE r.op = "login"
      BY <2>1, <3>1 DEF Request, Spares
    <3>2. CASE r.op # "login"
      BY <1>01, <3>2
    <3> QED
      BY <3>1, <3>2
  <2> HIDE DEF t, q
  <2>5. /\ n \in Nat /\ DOMAIN tokens = 1..n /\ DOMAIN tokens' = 1..(n + 1) /\ tokens'[n + 1] = t
        /\ \A i \in 1..n : tokens'[i] = tokens[i]
    <3>1. tokens' \in Seq(Row)
      BY DEF SessionShape
    <3> QED
      BY <1>0, <2>1, <3>1
  <2>6. /\ n + 1 \notin First
        /\ First' = IF r.again THEN First ELSE First \cup {n + 1}
    BY <2>2, <2>3, <2>5 DEF Live, First
  <2> HIDE DEF n
  <2>7. Cardinality(First') = IF r.again THEN c ELSE c + 1
    BY <1>0, <2>6, FS_AddElement
  <2>8. Pending' = Pending \ {k}
    BY <2>1, <2>4, PendingIs
  <2>9. k \in Pending <=> r.op = "refresh" /\ ~r.again
    BY <2>1 DEF Pending, Spares
  <2> HIDE DEF r
  <2>10. IsFiniteSet(Pending')
         /\ Cardinality(Pending') = IF r.op = "refresh" /\ ~r.again THEN p - 1 ELSE p
    <3>1. CASE k \in Pending
      BY <1>0, <2>8, <2>9, <3>1, FS_RemoveElement
    <3>2. CASE k \notin Pending
      <4>1. Pending' = Pending
        BY <2>8, <3>2
      <4> QED
        BY <1>0, <2>9, <3>2, <4>1
    <3> QED
      BY <3>1, <3>2
  <2>11. Cardinality(First') + Cardinality(Pending') <= logins' /\ logins' \in Nat
    <3>1. CASE r.op = "login"
      BY <1>0, <2>1, <2>2, <2>7, <2>10, <3>1
    <3>2. CASE r.op = "refresh" /\ ~r.again
      BY <1>0, <2>1, <2>7, <2>10, <3>2
    <3>3. CASE r.op = "refresh" /\ r.again
      BY <1>0, <2>1, <2>7, <2>10, <3>3
    <3> QED
      BY <2>2, <3>1, <3>2, <3>3
  <2> QED
    BY <2>10, <2>11 DEF RotationInv
<1>16. CASE UNCHANGED sessionVars
  BY <1>16 DEF sessionVars, historyVars, RotationInv, First, Live, Pending
<1> QED
  BY <1>2, <1>3, <1>4, <1>5, <1>6, <1>7, <1>8, <1>9, <1>10, <1>11, <1>12, <1>13, <1>14,
     <1>15, <1>16 DEF SessionNext, Route, Lookup, Write

\* There are never more live sessions than logins but for those of a token that was refreshed
\* when it was revoked already, however many requests refresh, log in or out at once.
THEOREM SessionsComeFromLoginsEver == SessionSpec => []SessionsComeFromLogins
<1> DEFINE Inv == SessionShape /\ RotationInv
<1>1. SessionInit => Inv
  BY SessionShapeInit, RotationInit
<1>2. Inv /\ [SessionNext]_sessionVars => Inv'
  BY SessionShapeNext, RotationNext
<1>3. ASSUME Inv PROVE SessionsComeFromLogins
  <2>1. Cardinality(First) \in Nat /\ Cardinality(Pending) \in Nat
    BY <1>3, FirstIsFinite, FS_CardinalityType DEF SessionShape, RotationInv
  <2> QED
    BY <1>3, <2>1 DEF RotationInv, SessionsComeFromLogins, First
<1> QED
  BY <1>1, <1>2, <1>3, PTL DEF SessionSpec

-----------------------------------------------------------------------------
(* A change of password outdates tokens.                                   *)

\* A request q carries no version that is still to come, while the users have the versions v
\* and nobody has written over a version of theirs but those in ow.
Follows(q, v, ow) == q.user \in Accounts \ ow => q.version <= v[q.user]

VersionInv ==
  /\ \A k \in Clients : Follows(request[k], version, overwritten)
  /\ \A e \in issued : e.user \in overwritten \/ e.version <= version[e.user]
  /\ \A e \in outdated : e.user \in overwritten \/ e.version < version[e.user]

LEMMA VersionInit == SessionInit => VersionInv
BY SessionAssumption DEF SessionInit, VersionInv, Follows, Served

\* Steps that change no version.
LEMMA VersionStands ==
  ASSUME SessionShape, VersionInv, NEW k \in Clients, NEW q,
         request' = [request EXCEPT ![k] = q],
         Follows(q, version, overwritten),
         UNCHANGED <<version, outdated, overwritten>>,
         issued' = issued \/ (request[k].user \in Accounts
                              /\ issued' = issued \cup {[user |-> request[k].user,
                                                         version |-> request[k].version]})
  PROVE  VersionInv'
<1>1. DOMAIN request = Clients
  BY DEF SessionShape
<1>2. ASSUME NEW i \in Clients PROVE Follows(request'[i], version, overwritten)
  <2>1. CASE i = k
    BY <1>1, <2>1
  <2>2. CASE i # k
    BY <1>1, <2>2 DEF VersionInv
  <2> QED
    BY <2>1, <2>2
<1>3. ASSUME NEW e \in issued' PROVE e.user \in overwritten \/ e.version <= version[e.user]
  <2>1. CASE e \in issued
    BY <2>1 DEF VersionInv
  <2>2. CASE e \notin issued
    <3>1. e.user = request[k].user /\ e.version = request[k].version /\ request[k].user \in Accounts
      BY <1>3, <2>2
    <3>2. Follows(request[k], version, overwritten)
      BY DEF VersionInv
    <3> QED
      BY <3>1, <3>2 DEF Follows
  <2> QED
    BY <2>1, <2>2
<1> QED
  BY <1>2, <1>3 DEF VersionInv

LEMMA VersionNext ==
  SessionShape /\ VersionInv /\ [SessionNext]_sessionVars => VersionInv'
<1> SUFFICES ASSUME SessionShape, VersionInv, [SessionNext]_sessionVars
             PROVE  VersionInv'
  OBVIOUS
<1> DEFINE n == Len(tokens)
<1>0. ASSUME NEW k \in Clients
      PROVE  /\ request[k] \in Request(n) /\ Ready(request[k], n, lastUser, lastToken)
             /\ Follows(request[k], version, overwritten)
  BY DEF VersionInv, SessionShape
<1>00. /\ version \in [Accounts -> 0..MaxVersion] /\ DOMAIN request = Clients
       /\ issued \subseteq Access /\ outdated \subseteq Access /\ MaxVersion \in Nat
  BY SessionAssumption DEF SessionShape
<1>01. Follows(Served, version, overwritten)
  BY SessionAssumption DEF Served, Follows
<1> HIDE DEF n
\* A request that goes on with the user and the version that it has.
<1>1. ASSUME NEW k \in Clients, NEW q, request' = [request EXCEPT ![k] = q],
             UNCHANGED <<version, issued, outdated, overwritten>>,
             q.user = request[k].user, q.version = request[k].version
      PROVE  VersionInv'
  <2>1. Follows(q, version, overwritten)
    BY <1>0, <1>1 DEF Follows
  <2> QED
    BY <1>0, <1>1, <2>1, VersionStands
<1>2. ASSUME NEW k \in Clients, NEW q, request' = [request EXCEPT ![k] = q],
             UNCHANGED <<version, issued, outdated, overwritten>>,
             Follows(q, version, overwritten)
      PROVE  VersionInv'
  BY <1>2, VersionStands
<1>3. ASSUME NEW k \in Clients, Login(k) PROVE VersionInv'
  <2> DEFINE q == [Served EXCEPT !.at = "findUser", !.op = "login"]
  <2>1. request' = [request EXCEPT ![k] = q] /\ UNCHANGED <<version, issued, outdated, overwritten>>
    BY <1>3 DEF Login, historyVars
  <2>2. q.user = NoRow
    BY DEF Served
  <2> HIDE DEF q
  <2> QED
    BY <1>2, <2>1, <2>2, SessionAssumption DEF Follows
<1>4. ASSUME NEW k \in Clients, NEW op \in {"refresh", "logout"}, Keep(k, op) PROVE VersionInv'
  <2> DEFINE q == [Served EXCEPT !.at = "findToken", !.op = op]
  <2>1. request' = [request EXCEPT ![k] = q] /\ UNCHANGED <<version, issued, outdated, overwritten>>
    BY <1>4 DEF Keep, historyVars
  <2>2. q.user = NoRow
    BY DEF Served
  <2> HIDE DEF q
  <2> QED
    BY <1>2, <2>1, <2>2, SessionAssumption DEF Follows
<1>5. ASSUME NEW k \in Clients, NEW access \in issued, NEW op \in {"change", "other"},
             Protected(k, access, op)
      PROVE  VersionInv'
  <2> DEFINE q == [Served EXCEPT !.at = "verify", !.op = op, !.user = access.user,
                                 !.version = access.version]
  <2>1. request' = [request EXCEPT ![k] = q] /\ UNCHANGED <<version, issued, outdated, overwritten>>
    BY <1>5 DEF Protected, historyVars
  <2>2. q.user = access.user /\ q.version = access.version
    BY DEF Served
  <2>3. access.user \in overwritten \/ access.version <= version[access.user]
    BY DEF VersionInv
  <2> HIDE DEF q
  <2> QED
    BY <1>2, <2>1, <2>2, <2>3 DEF Follows
<1>6. ASSUME NEW k \in Clients, NEW u \in Accounts, FindUser(k, u) PROVE VersionInv'
  <2> DEFINE r == request[k]
             q == [r EXCEPT !.at = "user", !.user = u, !.version = version[u]]
  <2>1. request' = [request EXCEPT ![k] = q] /\ UNCHANGED <<version, issued, outdated, overwritten>>
    BY <1>00, <1>6 DEF FindUser, historyVars
  <2>2. q.user = u /\ q.version = version[u]
    BY <1>0 DEF Request
  <2>3. version[u] \in Nat
    BY <1>00
  <2> HIDE DEF q
  <2>4. Follows(q, version, overwritten)
    BY <2>2, <2>3 DEF Follows
  <2> QED
    BY <1>0, <1>2, <2>1, <2>2, <2>4
<1>7. ASSUME NEW k \in Clients, NEW t \in DOMAIN tokens, FindToken(k, t) PROVE VersionInv'
  <2> DEFINE r == request[k]
             q == [r EXCEPT !.at = "token", !.token = t, !.revoked = tokens[t].revoked]
  <2>1. request' = [request EXCEPT ![k] = q] /\ UNCHANGED <<version, issued, outdated, overwritten>>
    BY <1>00, <1>7 DEF FindToken, historyVars
  <2>2. q.user = r.user /\ q.version = r.version
    BY <1>0 DEF Request
  <2> HIDE DEF q
  <2> QED
    BY <1>1, <2>1, <2>2
<1>8. ASSUME NEW k \in Clients, FindOwner(k) PROVE VersionInv'
  <2> DEFINE r == request[k]
             q == [r EXCEPT !.at = IF r.version = version[r.user] THEN "verified" ELSE "mismatch"]
  <2>1. request' = [request EXCEPT ![k] = q] /\ UNCHANGED <<version, issued, outdated, overwritten>>
    BY <1>00, <1>8 DEF FindOwner, historyVars
  <2>2. q.user = r.user /\ q.version = r.version
    BY <1>0 DEF Request
  <2> HIDE DEF q
  <2> QED
    BY <1>1, <2>1, <2>2
<1>9. ASSUME NEW k \in Clients, Verified(k) PROVE VersionInv'
  <2> DEFINE r == request[k]
             q == IF r.at = "verified" /\ r.op = "change"
                  THEN [Served EXCEPT !.at = "findUser", !.op = "change"] ELSE Served
  <2>1. request' = [request EXCEPT ![k] = q] /\ UNCHANGED <<version, issued, outdated, overwritten>>
    BY <1>9 DEF Verified, historyVars
  <2>2. q.user = NoRow
    BY DEF Served
  <2> HIDE DEF q
  <2>3. Follows(q, version, overwritten)
    BY <2>2, SessionAssumption DEF Follows
  <2> QED
    BY <1>0, <1>2, <2>1, <2>2, <2>3
<1>10. ASSUME NEW k \in Clients, UserRead(k) PROVE VersionInv'
  <2> DEFINE r == request[k]
             q == IF r.op = "refresh" THEN [r EXCEPT !.at = "revoke", !.target = lastToken]
                  ELSE [r EXCEPT !.at = "bcrypt"]
  <2>1. request' = [request EXCEPT ![k] = q] /\ UNCHANGED <<version, issued, outdated, overwritten>>
    BY <1>00, <1>10 DEF UserRead, historyVars
  <2>2. q.user = r.user /\ q.version = r.version
    BY <1>0 DEF Request
  <2> HIDE DEF q
  <2> QED
    BY <1>1, <2>1, <2>2
<1>11. ASSUME NEW k \in Clients, TokenRead(k) PROVE VersionInv'
  <2> DEFINE r == request[k]
             q == CASE r.op = "refresh" /\ r.revoked -> Served
                    [] r.op = "refresh" /\ ~r.revoked -> [r EXCEPT !.at = "findUser"]
                    [] r.op = "logout" -> [r EXCEPT !.at = "revoke", !.target = lastToken']
  <2>1. request' = [request EXCEPT ![k] = q] /\ UNCHANGED <<version, issued, outdated, overwritten>> /\ r.at = "token"
    BY <1>11 DEF TokenRead, historyVars
  <2>2. r.op \in {"refresh", "logout"} /\ r.revoked \in BOOLEAN /\ r \in Request(n)
    BY <1>0, <2>1 DEF Ready, Request
  <2> HIDE DEF r
  <2>3. CASE r.op = "refresh" /\ r.revoked
    BY <1>01, <1>2, <2>1, <2>3
  <2>4. CASE ~(r.op = "refresh" /\ r.revoked)
    <3>1. q = [r EXCEPT !.at = "findUser"] \/ q = [r EXCEPT !.at = "revoke", !.target = lastToken']
      BY <2>2, <2>4
    <3>2. q.user = r.user /\ q.version = r.version
      BY <2>2, <3>1 DEF Request
    <3> HIDE DEF q
    <3> QED
      BY <1>1, <2>1, <3>2 DEF r
  <2> QED
    BY <2>3, <2>4
<1>12. ASSUME NEW k \in Clients, PasswordRight(k) PROVE VersionInv'
  <2> DEFINE r == request[k]
             q == [r EXCEPT !.at = IF r.op = "login" THEN "insert" ELSE "write", !.target = lastUser]
  <2>1. request' = [request EXCEPT ![k] = q] /\ UNCHANGED <<version, issued, outdated, overwritten>>
    BY <1>00, <1>12 DEF PasswordRight, historyVars
  <2>2. q.user = r.user /\ q.version = r.version
    BY <1>0 DEF Request
  <2> HIDE DEF q
  <2> QED
    BY <1>1, <2>1, <2>2
<1>13. ASSUME NEW k \in Clients, WritePassword(k) PROVE VersionInv'
  <2> DEFINE r == request[k]
             u == r.target
  <2>1. /\ request' = [request EXCEPT ![k] = Served]
        /\ version' = [version EXCEPT ![u] = r.version + 1]
        /\ outdated' = outdated \cup {e \in issued : e.user = u}
        /\ overwritten' = (IF r.version = version[u] THEN overwritten ELSE overwritten \cup {u})
        /\ issued' = issued /\ r.at = "write"
    BY <1>13 DEF WritePassword
  <2>2. u \in Accounts /\ version[u] \in Nat /\ r.version \in Nat
    BY <1>0, <1>00, <2>1 DEF Ready, Request
  <2> HIDE DEF r, u
  \* Whoever nobody has written over has the next version, or the one they had.
  <2>3. ASSUME NEW v \in Accounts, v \notin overwritten'
        PROVE  /\ v \notin overwritten /\ version[v] \in Nat /\ version'[v] \in Nat
               /\ IF v = u THEN version'[v] = version[v] + 1 ELSE version'[v] = version[v]
    BY <1>00, <2>1, <2>2, <2>3
  <2>4. ASSUME NEW i \in Clients PROVE Follows(request'[i], version', overwritten')
    <3>1. CASE i = k
      <4>1. request'[i] = Served /\ Served.user = NoRow
        BY <1>00, <2>1, <3>1 DEF Served
      <4> QED
        BY <4>1, SessionAssumption DEF Follows
    <3>2. CASE i # k
      <4>1. request'[i] = request[i] /\ request[i] \in Request(n)
            /\ Follows(request[i], version, overwritten)
        BY <1>0, <1>00, <2>1, <3>2
      <4>2. request[i].version \in Nat
        BY <1>00, <4>1 DEF Request
      <4> QED
        BY <2>3, <4>1, <4>2 DEF Follows
    <3> QED
      BY <3>1, <3>2
  <2>5. ASSUME NEW e \in issued, e.user \notin overwritten'
        PROVE  e.version <= version'[e.user] /\ (e.user = u => e.version < version'[e.user])
    <3>1. e.user \in Accounts /\ e.version \in Nat
      BY <1>00 DEF Access
    <3>2. e.version <= version[e.user]
      BY <2>3, <2>5, <3>1 DEF VersionInv
    <3> QED
      BY <2>3, <2>5, <3>1, <3>2
  <2>6. ASSUME NEW e \in outdated, e.user \notin overwritten' PROVE e.version < version'[e.user]
    <3>1. e.user \in Accounts /\ e.version \in Nat
      BY <1>00 DEF Access
    <3>2. e.version < version[e.user]
      BY <2>3, <2>6, <3>1 DEF VersionInv
    <3> QED
      BY <2>3, <2>6, <3>1, <3>2
  <2> QED
    BY <2>1, <2>4, <2>5, <2>6 DEF VersionInv
<1>14. ASSUME NEW k \in Clients, Revoke(k) PROVE VersionInv'
  <2> DEFINE r == request[k]
             old == tokens[r.target]
             twice == old.revoked \/ old.again
             q == IF r.op = "refresh" THEN [r EXCEPT !.at = "sign", !.again = twice] ELSE Served
  <2>1. request' = [request EXCEPT ![k] = q] /\ UNCHANGED <<version, issued, outdated, overwritten>>
    BY <1>14 DEF Revoke, historyVars
  <2>2. CASE r.op = "refresh"
    <3>1. q.user = r.user /\ q.version = r.version
      BY <1>0, <2>2 DEF Request
    <3> HIDE DEF q
    <3> QED
      BY <1>1, <2>1, <3>1
  <2>3. CASE r.op # "refresh"
    BY <1>01, <1>2, <2>1, <2>3
  <2> QED
    BY <2>2, <2>3
<1>15. ASSUME NEW k \in Clients, Signed(k) PROVE VersionInv'
  <2> DEFINE r == request[k]
             q == [r EXCEPT !.at = "insert", !.target = lastUser]
  <2>1. request' = [request EXCEPT ![k] = q] /\ UNCHANGED <<version, issued, outdated, overwritten>>
    BY <1>00, <1>15 DEF Signed, historyVars
  <2>2. q.user = r.user /\ q.version = r.version
    BY <1>0 DEF Request
  <2> HIDE DEF q
  <2> QED
    BY <1>1, <2>1, <2>2
<1>16. ASSUME NEW k \in Clients, Insert(k) PROVE VersionInv'
  <2> DEFINE r == request[k]
  <2>1. CASE r.op = "login"
    <3> DEFINE q == [r EXCEPT !.at = "stamp", !.target = lastUser]
    <3>1. request' = [request EXCEPT ![k] = q] /\ UNCHANGED <<version, issued, outdated, overwritten>>
      BY <1>00, <1>16, <2>1 DEF Insert
    <3>2. q.user = r.user /\ q.version = r.version
      BY <1>0 DEF Request
    <3> HIDE DEF q
    <3> QED
      BY <1>1, <3>1, <3>2
  <2>2. CASE r.op # "login"
    <3>1. /\ request' = [request EXCEPT ![k] = Served] /\ UNCHANGED <<version, outdated, overwritten>>
          /\ issued' = issued \cup {[user |-> r.user, version |-> r.version]} /\ r.at = "insert"
      BY <1>16, <2>2 DEF Insert
    <3>2. r.user \in Accounts
      BY <1>0, <3>1 DEF Ready
    <3> QED
      BY <1>01, <3>1, <3>2, VersionStands
  <2> QED
    BY <2>1, <2>2
<1>17. ASSUME NEW k \in Clients, Stamp(k) PROVE VersionInv'
  <2> DEFINE r == request[k]
  <2>1. /\ request' = [request EXCEPT ![k] = Served] /\ UNCHANGED <<version, outdated, overwritten>>
        /\ issued' = issued \cup {[user |-> r.user, version |-> r.version]} /\ r.at = "stamp"
    BY <1>17 DEF Stamp
  <2>2. r.user \in Accounts
    BY <1>0, <2>1 DEF Ready
  <2> QED
    BY <1>01, <2>1, <2>2, VersionStands
<1>18. ASSUME NEW k \in Clients, Refuse(k) \/ StatementFails(k) PROVE VersionInv'
  <2>1. request' = [request EXCEPT ![k] = Served] /\ UNCHANGED <<version, issued, outdated, overwritten>>
    BY <1>18 DEF Refuse, StatementFails, historyVars
  <2> QED
    BY <1>01, <1>2, <2>1
<1>19. CASE UNCHANGED sessionVars
  BY <1>19 DEF sessionVars, historyVars, VersionInv
<1> QED
  BY <1>3, <1>4, <1>5, <1>6, <1>7, <1>8, <1>9, <1>10, <1>11, <1>12, <1>13, <1>14,
     <1>15, <1>16, <1>17, <1>18, <1>19 DEF SessionNext, Route, Lookup, Write

\* However many requests overlap, and whichever rows the adapter sends their updates to: a
\* token survives a change of password only if a change has written over a version that it
\* had not read, and a session beyond one per login comes of a token refreshed twice.
THEOREM NoStraySessionEver == SessionSpec => []NoStraySession
<1> DEFINE Inv == SessionShape /\ VersionInv
<1>1. SessionInit => Inv
  BY SessionShapeInit, VersionInit
<1>2. Inv /\ [SessionNext]_sessionVars => Inv'
  BY SessionShapeNext, VersionNext
<1>3. ASSUME Inv, SessionsComeFromLogins PROVE NoStraySession
  <2>1. ASSUME NEW e \in outdated PROVE e.version # version[e.user] \/ e.user \in overwritten
    <3>1. e.user \in Accounts /\ e.version \in 0..MaxVersion /\ version[e.user] \in 0..MaxVersion
      BY <1>3 DEF SessionShape, Access
    <3>2. e.user \in overwritten \/ e.version < version[e.user]
      BY <1>3 DEF VersionInv
    <3> QED
      BY <3>1, <3>2, SessionAssumption
  <2> QED
    BY <1>3, <2>1 DEF NoStraySession, ChangeInvalidates
<1> QED
  BY <1>1, <1>2, <1>3, SessionsComeFromLoginsEver, PTL DEF SessionSpec

-----------------------------------------------------------------------------
(* The server as a whole.                                                  *)

\* A step of the server is a step of one part, and none of the others.
LEMMA ServerStep ==
  ASSUME [ServerNext]_<<part, sessionVars, vars, collections, flowVars>>
  PROVE  [SessionNext]_sessionVars /\ [Next]_vars /\ [FlowNext]_flowVars
BY DEF ServerNext

\* Type correctness of sessions, roles, the cache, instances, tasks and calls.
THEOREM ServerTypeCorrect == ServerSpec => []ServerTypeOK
<1>1. ServerInit => SessionInit /\ Init /\ FlowInit
  BY DEF ServerInit
<1>2. SessionSpec /\ Spec /\ FlowSpec => []ServerTypeOK
  BY SessionTypeCorrect, TypeCorrect, FlowTypeCorrect, PTL DEF ServerTypeOK
<1> QED
  BY <1>1, <1>2, ServerStep, PTL DEF ServerSpec, SessionSpec, Spec, FlowSpec

-----------------------------------------------------------------------------
(* Collections and their extensions.                                       *)

\* What fields are made of.
DeclaredFields == UNION {Range(d) : d \in Declarations}
AnyField ==
  [name : {f.name : f \in DeclaredFields}, type : {f.type : f \in DeclaredFields},
   strict : SUBSET UNION {f.strict : f \in DeclaredFields}]

\* One type for a name.
Agrees(fields, name) ==
  \A i, j \in 1..Len(fields) :
    fields[i].name = name /\ fields[j].name = name => fields[i].type = fields[j].type

\* The place where a name is declared first, and all that any declaration of it demands.
IsFirst(fields, i) == i \in 1..Len(fields) /\ \A h \in 1..(i - 1) : fields[h].name # fields[i].name
Demanded(fields, name) == UNION {fields[i].strict : i \in {h \in 1..Len(fields) : fields[h].name = name}}

\* The places of merged fields in what is kept of the declarations: the nb base fields stay
\* where they are, and the others are the first of their names.
FieldPlaces(place, merged, fields, nb) ==
  /\ place \in [1..Len(merged) -> 1..Len(fields)]
  /\ \A j \in 1..Len(merged) :
       /\ merged[j].name = fields[place[j]].name /\ merged[j].type = fields[place[j]].type
       /\ (j \in 1..nb /\ place[j] = j) \/ IsFirst(fields, place[j])
  /\ \A j, k \in 1..Len(merged) : j < k => place[j] < place[k]

\* The merged fields have all that was declared, and nothing else.
Merges(merged, fields, nb) ==
  /\ merged \in Seq(AnyField)
  /\ \E place : FieldPlaces(place, merged, fields, nb)
  /\ \A i \in 1..Len(fields) : \E j \in 1..Len(merged) : merged[j].name = fields[i].name
  /\ \A j \in 1..Len(merged) : merged[j].strict = Demanded(fields, merged[j].name)

LEMMA AnyFieldIs ==
  ASSUME NEW f \in AnyField
  PROVE  \A g \in AnyField : [g EXCEPT !.strict = g.strict \cup f.strict] \in AnyField
BY DEF AnyField

\* The fields with one more.
OneFieldMore(more, fields, f) ==
  /\ Len(more) = Len(fields) + 1 /\ more[Len(fields) + 1] = f
  /\ \A i \in 1..Len(fields) : more[i] = fields[i]

LEMMA DemandedMore ==
  ASSUME NEW fields \in Seq(AnyField), NEW f \in AnyField, NEW more, OneFieldMore(more, fields, f)
  PROVE  \A name : Demanded(more, name) =
           Demanded(fields, name) \cup (IF name = f.name THEN f.strict ELSE {})
<1>1. PICK n : n = Len(fields)
  OBVIOUS
<1>2. /\ n \in Nat /\ Len(more) = n + 1 /\ more[n + 1] = f
      /\ \A i \in 1..n : more[i] = fields[i]
  BY <1>1, LenProperties DEF OneFieldMore
<1>3. \A i : i \in 1..(n + 1) <=> i \in 1..n \/ i = n + 1
  BY <1>2
<1>4. ASSUME NEW name PROVE Demanded(more, name) = Demanded(fields, name) \cup (IF name = f.name THEN f.strict ELSE {})
  <2>1. ASSUME NEW x \in Demanded(more, name)
        PROVE  x \in Demanded(fields, name) \cup (IF name = f.name THEN f.strict ELSE {})
    <3>1. PICK i \in 1..(n + 1) : more[i].name = name /\ x \in more[i].strict
      BY <1>2, <2>1 DEF Demanded
    <3>2. CASE i = n + 1
      BY <1>2, <3>1, <3>2
    <3>3. CASE i \in 1..n
      <4>1. fields[i].name = name /\ x \in fields[i].strict
        BY <1>2, <3>1, <3>3
      <4> QED
        BY <1>1, <3>3, <4>1 DEF Demanded
    <3> QED
      BY <1>3, <3>2, <3>3
  <2>2. ASSUME NEW x \in Demanded(fields, name) PROVE x \in Demanded(more, name)
    <3>1. PICK i \in 1..n : fields[i].name = name /\ x \in fields[i].strict
      BY <1>1, <2>2 DEF Demanded
    <3>2. i \in 1..(n + 1) /\ more[i].name = name /\ x \in more[i].strict
      BY <1>2, <1>3, <3>1
    <3> QED
      BY <1>2, <3>2 DEF Demanded
  <2>3. ASSUME name = f.name, NEW x \in f.strict PROVE x \in Demanded(more, name)
    <3>1. n + 1 \in 1..(n + 1) /\ more[n + 1].name = name /\ x \in more[n + 1].strict
      BY <1>2, <2>3
    <3> QED
      BY <1>2, <3>1 DEF Demanded
  <2> QED
    BY <2>1, <2>2, <2>3
<1> QED
  BY <1>1, <1>2, <1>4

\* One more field.
LEMMA MergesOneMore ==
  ASSUME NEW merged, NEW fields \in Seq(AnyField), NEW f \in AnyField, NEW nb,
         Merges(merged, fields, nb), NEW more, OneFieldMore(more, fields, f)
  PROVE  Merges(MergeField(merged, f), more, nb)
<1>1. PICK n, m : n = Len(fields) /\ m = Len(merged)
  OBVIOUS
<1>2. merged \in Seq(AnyField) /\ m \in Nat /\ n \in Nat /\ DOMAIN merged = 1..m
      /\ \A j \in 1..m : merged[j] \in AnyField
  BY <1>1, LenProperties DEF Merges
<1>3. /\ Len(more) = n + 1 /\ more[n + 1] = f
      /\ \A i \in 1..n : more[i] = fields[i]
      /\ \A name : Demanded(more, name) =
              Demanded(fields, name) \cup (IF name = f.name THEN f.strict ELSE {})
  BY <1>1, DemandedMore DEF OneFieldMore
<1>4. \A i : i \in 1..(n + 1) <=> i \in 1..n \/ i = n + 1
  BY <1>2
<1>6. PICK place : FieldPlaces(place, merged, fields, nb)
  BY DEF Merges
<1>7. /\ place \in [1..m -> 1..n]
      /\ \A j \in 1..m :
           /\ merged[j].name = fields[place[j]].name /\ merged[j].type = fields[place[j]].type
           /\ (j \in 1..nb /\ place[j] = j) \/ IsFirst(fields, place[j])
      /\ \A j, k \in 1..m : j < k => place[j] < place[k]
  BY <1>1, <1>6 DEF FieldPlaces
<1>8. /\ \A i \in 1..n : \E j \in 1..m : merged[j].name = fields[i].name
      /\ \A j \in 1..m : merged[j].strict = Demanded(fields, merged[j].name)
  BY <1>1 DEF Merges
<1>9. \A i \in 1..n : IsFirst(fields, i) => IsFirst(more, i)
  <2> SUFFICES ASSUME NEW i \in 1..n, IsFirst(fields, i) PROVE IsFirst(more, i)
    OBVIOUS
  <2>1. i \in 1..(n + 1) /\ \A h \in 1..(i - 1) : h \in 1..n
    BY <1>2, <1>4
  <2>2. \A h \in 1..(i - 1) : fields[h].name # fields[i].name
    BY DEF IsFirst
  <2>3. \A h \in 1..(i - 1) : more[h].name # more[i].name
    BY <1>3, <2>1, <2>2
  <2> QED
    BY <1>3, <2>1, <2>3 DEF IsFirst
<1>10. PICK next : next = MergeField(merged, f)
  OBVIOUS
<1>11. ASSUME NEW j0 \in 1..m, merged[j0].name = f.name PROVE Merges(next, more, nb)
  <2>1. next = [i \in 1..m |-> IF merged[i].name = f.name
                                 THEN [merged[i] EXCEPT !.strict = merged[i].strict \cup f.strict]
                                 ELSE merged[i]]
    BY <1>2, <1>10, <1>11, Zenon DEF MergeField
  <2>2. ASSUME NEW i \in 1..m
        PROVE  /\ next[i] \in AnyField
               /\ next[i].name = merged[i].name /\ next[i].type = merged[i].type
               /\ next[i].strict = merged[i].strict \cup (IF merged[i].name = f.name THEN f.strict ELSE {})
    <3>1. merged[i] \in AnyField
      BY <1>2
    <3>2. CASE merged[i].name = f.name
      <4>1. next[i] = [merged[i] EXCEPT !.strict = merged[i].strict \cup f.strict]
        BY <2>1, <3>2
      <4>2. next[i] \in AnyField
        BY <3>1, <4>1, AnyFieldIs
      <4> QED
        BY <3>1, <3>2, <4>1, <4>2 DEF AnyField
    <3>3. CASE merged[i].name # f.name
      BY <2>1, <3>1, <3>3
    <3> QED
      BY <3>2, <3>3
  <2>3. next \in Seq(AnyField) /\ Len(next) = m
    <3>1. next \in [1..m -> AnyField]
      BY <2>1, <2>2
    <3> QED
      BY <1>2, <3>1
  <2>4. FieldPlaces(place, next, more, nb)
    <3>1. place \in [1..m -> 1..(n + 1)]
      BY <1>4, <1>7
    <3>2. ASSUME NEW j \in 1..m
          PROVE  /\ next[j].name = more[place[j]].name /\ next[j].type = more[place[j]].type
                 /\ (j \in 1..nb /\ place[j] = j) \/ IsFirst(more, place[j])
      <4>1. place[j] \in 1..n /\ more[place[j]] = fields[place[j]]
        BY <1>3, <1>7
      <4> QED
        BY <1>7, <1>9, <2>2, <4>1
    <3> QED
      BY <1>3, <1>7, <2>3, <3>1, <3>2 DEF FieldPlaces
  <2>5. ASSUME NEW i \in 1..(n + 1) PROVE \E j \in 1..m : next[j].name = more[i].name
    <3>1. CASE i \in 1..n
      BY <1>3, <1>8, <2>2, <3>1
    <3>2. CASE i = n + 1
      BY <1>3, <1>11, <2>2, <3>2
    <3> QED
      BY <1>4, <3>1, <3>2
  <2>6. ASSUME NEW j \in 1..m PROVE next[j].strict = Demanded(more, next[j].name)
    <3>1. PICK name : name = merged[j].name
      OBVIOUS
    <3>2. Demanded(more, name) = Demanded(fields, name) \cup (IF name = f.name THEN f.strict ELSE {})
      BY <1>3
    <3>3. merged[j].strict = Demanded(fields, name)
      BY <1>8, <3>1
    <3>4. next[j].name = name /\ next[j].strict = merged[j].strict \cup (IF name = f.name THEN f.strict ELSE {})
      BY <2>2, <3>1
    <3> QED
      BY <3>2, <3>3, <3>4
  <2> QED
    BY <1>3, <2>3, <2>4, <2>5, <2>6 DEF Merges
<1>12. ASSUME \A j \in 1..m : merged[j].name # f.name PROVE Merges(next, more, nb)
  <2>1. next = Append(merged, f)
    BY <1>2, <1>10, <1>12, Zenon DEF MergeField
  <2>2. /\ next \in Seq(AnyField) /\ Len(next) = m + 1 /\ next[m + 1] = f
        /\ \A j \in 1..m : next[j] = merged[j]
    BY <1>1, <1>2, <2>1
  <2>3. \A j : j \in 1..(m + 1) <=> j \in 1..m \/ j = m + 1
    BY <1>2
  <2>4. \A i \in 1..n : fields[i].name # f.name
    BY <1>8, <1>12
  <2>5. IsFirst(more, n + 1)
    <3>1. n + 1 \in 1..(n + 1) /\ \A h \in 1..((n + 1) - 1) : h \in 1..n
      BY <1>2
    <3>2. \A h \in 1..((n + 1) - 1) : more[h].name # more[n + 1].name
      BY <1>3, <2>4, <3>1
    <3> QED
      BY <1>3, <3>1, <3>2 DEF IsFirst
  <2>6. PICK at : at = [j \in 1..(m + 1) |-> IF j = m + 1 THEN n + 1 ELSE place[j]]
    OBVIOUS
  <2>7. /\ at \in [1..(m + 1) -> 1..(n + 1)] /\ at[m + 1] = n + 1
        /\ \A j \in 1..m : at[j] = place[j] /\ at[j] \in 1..n
    BY <1>2, <1>4, <1>7, <2>3, <2>6
  <2>8. \A j, k \in 1..(m + 1) : j < k => at[j] < at[k]
    <3>1. ASSUME NEW j \in 1..m PROVE at[j] < at[m + 1]
      BY <1>2, <2>7
    <3>2. \A j, k \in 1..(m + 1) : j < k => j \in 1..m /\ (k \in 1..m \/ k = m + 1)
      BY <1>2
    <3> QED
      BY <1>7, <2>7, <3>1, <3>2
  <2>9. ASSUME NEW j \in 1..(m + 1)
        PROVE  /\ next[j].name = more[at[j]].name /\ next[j].type = more[at[j]].type
               /\ (j \in 1..nb /\ at[j] = j) \/ IsFirst(more, at[j])
    <3>1. CASE j \in 1..m
      <4>1. place[j] \in 1..n /\ at[j] = place[j] /\ next[j] = merged[j]
            /\ more[place[j]] = fields[place[j]]
        BY <1>3, <1>7, <2>2, <2>7, <3>1
      <4> QED
        BY <1>7, <1>9, <3>1, <4>1
    <3>2. CASE j = m + 1
      BY <1>3, <2>2, <2>5, <2>7, <3>2
    <3> QED
      BY <2>3, <3>1, <3>2
  <2>10. FieldPlaces(at, next, more, nb)
    BY <1>3, <2>2, <2>7, <2>8, <2>9 DEF FieldPlaces
  <2>11. ASSUME NEW i \in 1..(n + 1) PROVE \E j \in 1..(m + 1) : next[j].name = more[i].name
    <3>1. CASE i \in 1..n
      BY <1>3, <1>8, <2>2, <2>3, <3>1
    <3>2. CASE i = n + 1
      BY <1>3, <2>2, <2>3, <3>2
    <3> QED
      BY <1>4, <3>1, <3>2
  <2>12. ASSUME NEW j \in 1..(m + 1) PROVE next[j].strict = Demanded(more, next[j].name)
    <3>1. CASE j \in 1..m
      <4>1. PICK name : name = merged[j].name
        OBVIOUS
      <4>2. Demanded(more, name) = Demanded(fields, name) \cup (IF name = f.name THEN f.strict ELSE {})
        BY <1>3
      <4>3. name # f.name /\ merged[j].strict = Demanded(fields, name) /\ next[j] = merged[j]
        BY <1>8, <1>12, <2>2, <3>1, <4>1
      <4> QED
        BY <4>1, <4>2, <4>3
    <3>2. Demanded(fields, f.name) = {}
      BY <1>1, <2>4 DEF Demanded
    <3>3. CASE j = m + 1
      BY <1>3, <2>2, <3>2, <3>3
    <3> QED
      BY <2>3, <3>1, <3>3
  <2> QED
    BY <1>3, <2>2, <2>10, <2>11, <2>12 DEF Merges
<1> QED
  BY <1>10, <1>11, <1>12

\* Without extensions the fields are the base fields, all of a name being the same.
LEMMA BaseMerges ==
  ASSUME NEW base \in Seq(AnyField), \A i, j \in 1..Len(base) : base[i].name = base[j].name => base[i] = base[j]
  PROVE  Merges(base, base, Len(base))
<1>1. PICK n : n = Len(base)
  OBVIOUS
<1>2. n \in Nat /\ \A i \in 1..n : base[i] \in AnyField
  BY <1>1, LenProperties
<1>3. PICK at : at = [i \in 1..n |-> i]
  OBVIOUS
<1>5. FieldPlaces(at, base, base, n)
  <2>1. at \in [1..n -> 1..n] /\ \A i \in 1..n : at[i] = i
    BY <1>3
  <2>2. \A j, k \in 1..n : j < k => at[j] < at[k]
    BY <2>1
  <2> QED
    BY <1>1, <2>1, <2>2 DEF FieldPlaces
<1>6. ASSUME NEW j \in 1..n PROVE base[j].strict = Demanded(base, base[j].name)
  <2>1. \A h \in 1..n : base[h].name = base[j].name => base[h].strict = base[j].strict
    BY <1>1
  <2> QED
    BY <1>1, <2>1 DEF Demanded
<1> QED
  BY <1>1, <1>5, <1>6 DEF Merges

LEMMA MergeFieldType ==
  ASSUME NEW m \in Seq(AnyField), NEW f \in AnyField
  PROVE  MergeField(m, f) \in Seq(AnyField)
<1>1. DOMAIN m = 1..Len(m) /\ Len(m) \in Nat /\ \A i \in 1..Len(m) : m[i] \in AnyField
  BY LenProperties
<1>2. CASE \E i \in DOMAIN m : m[i].name = f.name
  <2>1. PICK next : next = [i \in DOMAIN m |-> IF m[i].name = f.name
                                                 THEN [m[i] EXCEPT !.strict = m[i].strict \cup f.strict]
                                                 ELSE m[i]]
    OBVIOUS
  <2>2. MergeField(m, f) = next
    BY <1>2, <2>1, Zenon DEF MergeField
  <2>3. ASSUME NEW i \in 1..Len(m) PROVE next[i] \in AnyField
    <3>1. [m[i] EXCEPT !.strict = m[i].strict \cup f.strict] \in AnyField
      BY <1>1, AnyFieldIs
    <3> QED
      BY <1>1, <2>1, <3>1
  <2>4. next \in [1..Len(m) -> AnyField]
    BY <1>1, <2>1, <2>3
  <2> QED
    BY <1>1, <2>2, <2>4
<1>3. CASE ~\E i \in DOMAIN m : m[i].name = f.name
  <2>1. MergeField(m, f) = Append(m, f)
    BY <1>3, Zenon DEF MergeField
  <2> QED
    BY <2>1
<1> QED
  BY <1>2, <1>3

\* The loop over the fields of extensions.
Turns(g, base, later) ==
  /\ g \in [0..Len(later) -> Seq(AnyField)] /\ g[0] = base
  /\ \A i \in 1..Len(later) : g[i] = MergeField(g[i - 1], later[i])

LEMMA MergedIs ==
  ASSUME NEW base \in Seq(AnyField), NEW later \in Seq(AnyField)
  PROVE  \E g : Turns(g, base, later) /\ Merged(base, later) = g[Len(later)]
<1>1. PICK n : n = Len(later)
  OBVIOUS
<1>2. n \in Nat /\ \A i \in 1..n : later[i] \in AnyField
  BY <1>1, LenProperties
<1>3. PICK step : step = [p \in Seq(AnyField) \X (1..n) |-> MergeField(p[1], later[p[2]])]
  OBVIOUS
<1>4. /\ step \in [Seq(AnyField) \X (1..n) -> Seq(AnyField)]
      /\ \A s \in Seq(AnyField), i \in 1..n : step[<<s, i>>] = MergeField(s, later[i])
  <2>1. \A p \in Seq(AnyField) \X (1..n) : MergeField(p[1], later[p[2]]) \in Seq(AnyField)
    BY <1>2, MergeFieldType
  <2> QED
    BY <1>3, <2>1
<1>5. PICK g : Rounds(g, Seq(AnyField), base, step, n)
  BY <1>2, <1>4, RoundsExist
<1>6. g \in [0..n -> Seq(AnyField)] /\ g[0] = base /\ \A i \in 1..n : g[i] = step[<<g[i - 1], i>>]
  BY <1>5 DEF Rounds
<1>7. \A i \in 1..n : i - 1 \in 0..n /\ i \in 0..n
  BY <1>2
<1>8. \A i \in 1..n : g[i] = MergeField(g[i - 1], later[i])
  BY <1>4, <1>6, <1>7
<1>9. Turns(g, base, later)
  BY <1>1, <1>6, <1>8 DEF Turns
<1> DEFINE merged[i \in 0..n] == IF i = 0 THEN base ELSE MergeField(merged[i - 1], later[i])
<1>10. Merged(base, later) = merged[n]
  BY <1>1, Zenon DEF Merged
<1>11. g = [i \in 0..n |-> IF i = 0 THEN base ELSE MergeField(g[i - 1], later[i])]
  <2>1. \A i \in 0..n : i # 0 => i \in 1..n
    BY <1>2
  <2> QED
    BY <1>6, <1>8, <2>1
<1>12. merged = [i \in 0..n |-> IF i = 0 THEN base ELSE MergeField(merged[i - 1], later[i])]
  BY <1>11
<1> HIDE DEF merged
<1>13. PICK f : f = merged
  OBVIOUS
<1>14. ASSUME NEW i \in 0..n PROVE f[i] = IF i = 0 THEN base ELSE MergeField(f[i - 1], later[i])
  BY <1>12, <1>13
<1>15. PICK good : good = {i \in 0..n : f[i] = g[i]}
  OBVIOUS
<1>16. ASSUME NEW i \in 0..n, i \in good, i < n PROVE i + 1 \in good
  <2>1. i + 1 \in 1..n /\ i + 1 \in 0..n /\ i + 1 # 0 /\ (i + 1) - 1 = i
    BY <1>2, <1>16
  <2>2. f[i + 1] = MergeField(f[i], later[i + 1])
    BY <1>14, <2>1
  <2>3. g[i + 1] = MergeField(g[i], later[i + 1])
    BY <1>8, <2>1
  <2>4. f[i] = g[i]
    BY <1>15, <1>16
  <2> QED
    BY <1>15, <2>1, <2>2, <2>3, <2>4
<1>17. 0 \in good
  <2>1. 0 \in 0..n
    BY <1>2
  <2> QED
    BY <1>6, <1>14, <1>15, <2>1
<1>18. Climbs(good, n)
  BY <1>16, <1>17 DEF Climbs
<1>19. f[n] = g[n]
  BY <1>2, <1>15, <1>18, Upwards
<1> QED
  BY <1>1, <1>9, <1>10, <1>13, <1>19

\* What resolveEntry returns.
LEMMA MergedMerges ==
  ASSUME NEW base \in Seq(AnyField), NEW later \in Seq(AnyField),
         \A i, j \in 1..Len(base) : base[i].name = base[j].name => base[i] = base[j]
  PROVE  Merges(Merged(base, later), base \o later, Len(base))
<1>1. PICK lb, n, all : lb = Len(base) /\ n = Len(later) /\ all = base \o later
  OBVIOUS
<1>2. /\ lb \in Nat /\ n \in Nat /\ all \in Seq(AnyField) /\ Len(all) = lb + n
      /\ \A i \in 1..lb : all[i] = base[i]
      /\ \A i \in 1..n : all[lb + i] = later[i] /\ later[i] \in AnyField
      /\ \A i \in 1..(lb + n) : all[i] \in AnyField
  BY <1>1, LenProperties
<1>0. lb \in Nat /\ n \in Nat
  BY <1>2
<1>3. PICK upto : upto = [i \in 0..n |-> [k \in 1..(lb + i) |-> all[k]]]
  OBVIOUS
<1>4. ASSUME NEW i \in 0..n
      PROVE  /\ upto[i] \in Seq(AnyField) /\ Len(upto[i]) = lb + i
             /\ \A k \in 1..(lb + i) : upto[i][k] = all[k] /\ k \in 1..(lb + n)
  <2>1. \A k \in 1..(lb + i) : k \in 1..(lb + n)
    BY <1>2
  <2>2. upto[i] = [k \in 1..(lb + i) |-> all[k]] /\ lb + i \in Nat
    BY <1>2, <1>3
  <2>3. upto[i] \in [1..(lb + i) -> AnyField]
    BY <1>2, <2>1, <2>2
  <2> QED
    BY <2>1, <2>2, <2>3
<1>5. PICK g : Turns(g, base, later) /\ Merged(base, later) = g[n]
  BY <1>1, MergedIs
<1>6. g[0] = base /\ \A i \in 1..n : g[i] = MergeField(g[i - 1], later[i])
  BY <1>1, <1>5 DEF Turns
<1>7. PICK good : good = {i \in 0..n : Merges(g[i], upto[i], lb)}
  OBVIOUS
<1>8. 0 \in good
  <2>1. 0 \in 0..n /\ lb + 0 = lb
    BY <1>2
  <2>2. upto[0] = base
    BY <1>1, <1>2, <1>3, <2>1
  <2>3. Merges(base, base, lb)
    BY <1>1, BaseMerges
  <2> QED
    BY <1>6, <1>7, <2>1, <2>2, <2>3
<1>9. ASSUME NEW i \in 0..n, i \in good, i < n PROVE i + 1 \in good
  <2>1. i + 1 \in 1..n /\ i + 1 \in 0..n /\ (i + 1) - 1 = i /\ lb + (i + 1) = (lb + i) + 1
    BY <1>0, <1>9
  <2>2. Merges(g[i], upto[i], lb) /\ g[i + 1] = MergeField(g[i], later[i + 1])
    BY <1>6, <1>7, <1>9, <2>1
  <2>3. PICK fields, more, f : fields = upto[i] /\ more = upto[i + 1] /\ f = later[i + 1]
    OBVIOUS
  <2>4. /\ fields \in Seq(AnyField) /\ Len(fields) = lb + i
        /\ \A k \in 1..(lb + i) : fields[k] = all[k]
    BY <1>4, <2>3
  <2>5. /\ Len(more) = lb + (i + 1)
        /\ \A k \in 1..(lb + (i + 1)) : more[k] = all[k] /\ k \in 1..(lb + n)
    BY <1>4, <2>1, <2>3
  <2>6. (lb + i) + 1 \in 1..(lb + (i + 1)) /\ \A k \in 1..(lb + i) : k \in 1..(lb + (i + 1))
    BY <1>0, <2>1
  <2>7. f \in AnyField /\ all[(lb + i) + 1] = f
    BY <1>2, <2>1, <2>3
  <2>8. OneFieldMore(more, fields, f)
    BY <2>1, <2>4, <2>5, <2>6, <2>7 DEF OneFieldMore
  <2>10. Merges(MergeField(g[i], f), more, lb)
    BY <2>2, <2>3, <2>4, <2>7, <2>8, MergesOneMore
  <2> QED
    BY <1>7, <2>1, <2>2, <2>3, <2>10
<1>10. Climbs(good, n)
  BY <1>8, <1>9 DEF Climbs
<1>11. Merges(g[n], upto[n], lb)
  BY <1>2, <1>7, <1>10, Upwards
<1>12. upto[n] = all
  <2>1. n \in 0..n
    BY <1>2
  <2>2. upto[n] = [k \in 1..(lb + n) |-> all[k]]
    BY <1>3, <2>1
  <2>3. DOMAIN all = 1..(lb + n)
    BY <1>2, LenProperties
  <2>4. all = [k \in DOMAIN all |-> all[k]]
    BY <1>2
  <2> QED
    BY <2>2, <2>3, <2>4
<1> QED
  BY <1>1, <1>5, <1>11, <1>12

LEMMA DeclarationIs ==
  ASSUME NEW d \in Declarations
  PROVE  d \in Seq(AnyField)
<1>1. d \in Seq(Range(d)) /\ DOMAIN d = 1..Len(d) /\ Len(d) \in Nat
  BY DeclarationsAssumption, LenProperties
<1>2. Range(d) \subseteq DeclaredFields
  BY DEF DeclaredFields
<1>3. ASSUME NEW f \in Range(d) PROVE f \in AnyField
  <2>1. f \in [name : {f.name}, type : {f.type}, strict : SUBSET f.strict] /\ f \in DeclaredFields
    BY <1>2, DeclarationsAssumption
  <2>2. f.name \in {g.name : g \in DeclaredFields} /\ f.type \in {g.type : g \in DeclaredFields}
    BY <2>1
  <2>3. f.strict \in SUBSET UNION {g.strict : g \in DeclaredFields}
    BY <2>1
  <2>4. f \in [name : {g.name : g \in DeclaredFields}, type : {g.type : g \in DeclaredFields},
              strict : SUBSET UNION {g.strict : g \in DeclaredFields}]
    BY <2>1, <2>2, <2>3
  <2> QED
    BY <2>4 DEF AnyField
<1>4. \A i \in 1..Len(d) : d[i] \in AnyField
  BY <1>1, <1>3 DEF Range
<1> QED
  BY <1>1, <1>4

\* The place of a name that the map of base fields holds.
HeldOf(base, name) ==
  CHOOSE j \in DOMAIN base : base[j].name = name /\ \A h \in DOMAIN base : base[h].name = name => h <= j

LEMMA HeldIs ==
  ASSUME NEW base \in Seq(AnyField), NEW i \in 1..Len(base), NEW name, name = base[i].name,
         NEW j, j = HeldOf(base, name)
  PROVE  j \in 1..Len(base) /\ base[j].name = name
<1>1. PICK n : n = Len(base)
  OBVIOUS
<1>2. n \in Nat /\ DOMAIN base = 1..n
  BY <1>1, LenProperties
<1>3. PICK same : same = {h \in 1..n : base[h].name = name}
  OBVIOUS
<1>4. same \in SUBSET (1..n) /\ same \in SUBSET Nat /\ i \in same
  BY <1>1, <1>2, <1>3
<1>5. IsFiniteSet(same)
  <2>1. IsFiniteSet(1..n)
    BY <1>2, FS_Interval
  <2> QED
    BY <1>4, <2>1, FS_Subset
<1>6. PICK k \in same : \A h \in same : h <= k
  BY <1>4, <1>5, Extremes
<1>7. k \in DOMAIN base /\ base[k].name = name /\ \A h \in DOMAIN base : base[h].name = name => h <= k
  BY <1>2, <1>3, <1>6
<1>8. j \in DOMAIN base /\ base[j].name = name
  BY <1>7, Zenon DEF HeldOf
<1> QED
  BY <1>1, <1>2, <1>8

\* The map keeps the names of the base in their places, one field of the base for each.
OneForEachName(base, seeds) ==
  /\ seeds \in Seq(AnyField) /\ Len(seeds) = Len(base)
  /\ \A i \in 1..Len(base) : seeds[i].name = base[i].name /\ \E h \in 1..Len(base) : seeds[i] = base[h]
  /\ \A i, j \in 1..Len(base) : seeds[i].name = seeds[j].name => seeds[i] = seeds[j]

LEMMA SeededIs ==
  ASSUME NEW base \in Seq(AnyField), NEW seeds, seeds = Seeded(base)
  PROVE  OneForEachName(base, seeds)
<1> DEFINE n == Len(base)
<1>2. n \in Nat /\ DOMAIN base = 1..n /\ \A i \in 1..n : base[i] \in AnyField
  BY LenProperties
<1> HIDE DEF n
<1>3. seeds = [i \in DOMAIN base |-> base[HeldOf(base, base[i].name)]]
  BY Zenon DEF Seeded, HeldOf
<1>4. ASSUME NEW i \in 1..n
      PROVE  HeldOf(base, base[i].name) \in 1..n
             /\ base[HeldOf(base, base[i].name)].name = base[i].name
  <2>1. PICK name, j : name = base[i].name /\ j = HeldOf(base, name)
    OBVIOUS
  <2>2. j \in 1..n /\ base[j].name = name
    BY <2>1, HeldIs DEF n
  <2> QED
    BY <2>1, <2>2
<1>5. \A i \in 1..n : seeds[i] = base[HeldOf(base, base[i].name)]
  BY <1>2, <1>3
<1>6. \A i \in 1..n : seeds[i].name = base[i].name /\ \E h \in 1..n : seeds[i] = base[h]
  BY <1>4, <1>5
<1>7. seeds \in Seq(AnyField) /\ Len(seeds) = n
  <2>1. \A i \in 1..n : seeds[i] \in AnyField
    BY <1>2, <1>6
  <2>2. seeds \in [1..n -> AnyField]
    BY <1>2, <1>3, <2>1
  <2> QED
    BY <1>2, <2>2
<1>8. ASSUME NEW i \in 1..n, NEW j \in 1..n, seeds[i].name = seeds[j].name PROVE seeds[i] = seeds[j]
  <2>1. base[i].name = base[j].name
    BY <1>6, <1>8
  <2> QED
    BY <1>5, <2>1
<1> QED
  BY <1>6, <1>7, <1>8 DEF n, OneForEachName

\* The base lists a name at most once.
ListsOnce(base, name) ==
  \A k, l \in 1..Len(base) : base[k].name = name /\ base[l].name = name => k = l

\* The places of two arrays, one after the other.
LEMMA JoinedIs ==
  ASSUME NEW S, NEW s1 \in Seq(S), NEW s2 \in Seq(S), NEW joined, joined = s1 \o s2
  PROVE  /\ joined \in Seq(S) /\ Len(joined) = Len(s1) + Len(s2)
         /\ \A i \in 1..Len(s1) : joined[i] = s1[i]
         /\ \A i \in 1..Len(s2) : joined[Len(s1) + i] = s2[i]
<1>1. Len(s1) \in Nat /\ Len(s2) \in Nat
  BY LenProperties
<1> QED
  BY <1>1

\* What is kept of the declarations, and all of them: the same names in the same places.
IsKept(base, later, all, kept) == all = base \o later /\ kept = Seeded(base) \o later
KeepsPlaces(base, all, kept) ==
  /\ kept \in Seq(AnyField) /\ all \in Seq(AnyField) /\ Len(kept) = Len(all)
  /\ \A i \in 1..Len(all) : kept[i].name = all[i].name /\ \E h \in 1..Len(all) : kept[i] = all[h]
  /\ \A i \in 1..Len(all) : ListsOnce(base, all[i].name) => kept[i] = all[i]

LEMMA KeptIs ==
  ASSUME NEW base \in Seq(AnyField), NEW later \in Seq(AnyField), NEW all, NEW kept,
         IsKept(base, later, all, kept)
  PROVE  KeepsPlaces(base, all, kept)
<1>0. PICK seeds : seeds = Seeded(base) /\ all = base \o later /\ kept = seeds \o later
  BY DEF IsKept
<1>1. PICK nb, nl : nb = Len(base) /\ nl = Len(later)
  OBVIOUS
<1>2. /\ seeds \in Seq(AnyField) /\ Len(seeds) = nb
      /\ \A i \in 1..nb : seeds[i].name = base[i].name /\ \E h \in 1..nb : seeds[i] = base[h]
  BY <1>0, <1>1, SeededIs DEF OneForEachName
<1>9. nb \in Nat /\ nl \in Nat
  BY <1>1, LenProperties
<1>3. /\ nb \in Nat /\ nl \in Nat /\ all \in Seq(AnyField) /\ kept \in Seq(AnyField)
      /\ Len(all) = nb + nl /\ Len(kept) = nb + nl
      /\ \A i \in 1..nb : all[i] = base[i] /\ kept[i] = seeds[i]
      /\ \A i \in 1..nl : all[nb + i] = later[i] /\ kept[nb + i] = later[i]
  <2>1. /\ all \in Seq(AnyField) /\ Len(all) = nb + nl
        /\ \A i \in 1..nb : all[i] = base[i]
        /\ \A i \in 1..nl : all[nb + i] = later[i]
    BY <1>0, <1>1, JoinedIs
  <2>2. /\ kept \in Seq(AnyField) /\ Len(kept) = nb + nl
        /\ \A i \in 1..nb : kept[i] = seeds[i]
        /\ \A i \in 1..nl : kept[nb + i] = later[i]
    <3>1. seeds \in Seq(AnyField) /\ Len(seeds) = nb
      BY <1>2
    <3>2. kept = seeds \o later
      BY <1>0
    <3>3. /\ kept \in Seq(AnyField) /\ Len(kept) = Len(seeds) + Len(later)
          /\ \A i \in 1..Len(seeds) : kept[i] = seeds[i]
          /\ \A i \in 1..Len(later) : kept[Len(seeds) + i] = later[i]
      BY <3>1, <3>2, JoinedIs
    <3> QED
      BY <1>1, <3>1, <3>3
  <2> QED
    BY <1>9, <2>1, <2>2
<1>4. ASSUME NEW i \in 1..Len(all)
      PROVE  /\ kept[i].name = all[i].name /\ \E h \in 1..Len(all) : kept[i] = all[h]
             /\ ListsOnce(base, all[i].name) => kept[i] = all[i]
  <2>0. Len(all) \in Nat /\ Len(all) = nb + nl
    BY <1>3
  <2>1. CASE i \in 1..nb
    <3>1. all[i] = base[i] /\ kept[i] = seeds[i] /\ seeds[i].name = base[i].name
      BY <1>2, <1>3, <2>1
    <3>2. PICK h \in 1..nb : seeds[i] = base[h]
      BY <1>2, <2>1
    <3>3. h \in 1..Len(all) /\ kept[i] = all[h]
      <4>1. h \in 1..Len(all)
        BY <1>9, <2>0
      <4> QED
        BY <1>3, <3>1, <3>2, <4>1
    <3>4. ListsOnce(base, all[i].name) => h = i
      BY <1>1, <2>1, <3>1, <3>2 DEF ListsOnce
    <3> QED
      BY <3>1, <3>2, <3>3, <3>4
  <2>2. CASE i \notin 1..nb
    <3>1. i - nb \in 1..nl /\ i = nb + (i - nb)
      BY <1>9, <2>0, <2>2
    <3>2. kept[i] = all[i]
      BY <1>3, <3>1
    <3> QED
      BY <3>2
  <2> QED
    BY <2>1, <2>2
<1>5. /\ \A i \in 1..Len(all) : kept[i].name = all[i].name /\ \E h \in 1..Len(all) : kept[i] = all[h]
      /\ \A i \in 1..Len(all) : ListsOnce(base, all[i].name) => kept[i] = all[i]
  BY <1>4, Zenon
<1>6. Len(all) = Len(kept) /\ kept \in Seq(AnyField) /\ all \in Seq(AnyField)
  BY <1>3
<1> QED
  BY <1>5, <1>6, Zenon DEF KeepsPlaces

\* One declaration lists a name with two types.
MixedIn(entry, name) ==
  \E d \in DOMAIN entry : \E i, j \in DOMAIN entry[d] :
    entry[d][i].name = name /\ entry[d][j].name = name /\ entry[d][i].type # entry[d][j].type

\* An entry of the registry: the base and the extensions are what was declared, and all of
\* them agree on the type of a name that no single one gives two.
Whole(entry) ==
  /\ entry[1] \in Declarations
  /\ FlattenSeq(entry) = entry[1] \o FlattenSeq(Tail(entry))
  /\ \A name : ~MixedIn(entry, name) => Agrees(FlattenSeq(entry), name)

LEMMA FlattenOne ==
  ASSUME NEW d \in Seq(AnyField)
  PROVE  FlattenSeq(<<>>) = <<>> /\ FlattenSeq(<<d>>) = d
<1>1. FlattenSeq(<<>>) = <<>>
  BY DEF FlattenSeq
<1>2. <<>> \in Seq(Seq(AnyField)) /\ Append(<<>>, d) = <<d>>
  OBVIOUS
<1>3. FlattenSeq(Append(<<>>, d)) = FlattenSeq(<<>>) \o d
  BY <1>2, FlattenFacts
<1> QED
  BY <1>1, <1>2, <1>3

LEMMA WholeFirst ==
  ASSUME NEW d \in Declarations
  PROVE  Whole(<<d>>)
<1>1. d \in Seq(AnyField)
  BY DeclarationIs
<1>2. FlattenSeq(<<d>>) = d /\ FlattenSeq(<<>>) = <<>> /\ Tail(<<d>>) = <<>> /\ <<d>>[1] = d
  BY <1>1, FlattenOne
<1>3. d \o <<>> = d
  BY <1>1
<1>4. DOMAIN d = 1..Len(d) /\ 1 \in DOMAIN <<d>>
  BY <1>1, LenProperties
<1>5. ASSUME NEW name, ~MixedIn(<<d>>, name) PROVE Agrees(d, name)
  BY <1>2, <1>4, <1>5 DEF Agrees, MixedIn
<1> QED
  BY <1>2, <1>3, <1>5 DEF Whole

\* A name that is there is somewhere there first.
LEMMA IsThereFirst ==
  ASSUME NEW all \in Seq(AnyField), NEW i \in 1..Len(all)
  PROVE  \E h \in 1..Len(all) : IsFirst(all, h) /\ all[h].name = all[i].name
<1>1. PICK la : la = Len(all)
  OBVIOUS
<1>2. la \in Nat
  BY <1>1, LenProperties
<1>3. PICK same : same = {h \in 1..la : all[h].name = all[i].name}
  OBVIOUS
<1>4. same \in SUBSET (1..la) /\ same \in SUBSET Nat /\ i \in same
  BY <1>1, <1>2, <1>3
<1>5. IsFiniteSet(same)
  <2>1. IsFiniteSet(1..la)
    BY <1>2, FS_Interval
  <2> QED
    BY <1>4, <2>1, FS_Subset
<1>6. PICK h \in same : \A k \in same : h <= k
  BY <1>4, <1>5, Extremes
<1>7. h \in 1..la /\ all[h].name = all[i].name
  BY <1>3
<1>8. \A k \in 1..(h - 1) : k \in 1..la /\ ~(h <= k)
  BY <1>2, <1>7
<1>9. \A k \in 1..(h - 1) : all[k].name # all[h].name
  BY <1>3, <1>6, <1>7, <1>8
<1> QED
  BY <1>1, <1>7, <1>9 DEF IsFirst

\* Two arrays, each with one type for a name, the same for both.
LEMMA AgreesMore ==
  ASSUME NEW all \in Seq(AnyField), NEW fields \in Seq(AnyField), NEW name,
         Agrees(all, name), Agrees(fields, name),
         \A i \in 1..Len(all), j \in 1..Len(fields) :
           all[i].name = name /\ fields[j].name = name => all[i].type = fields[j].type
  PROVE  Agrees(all \o fields, name)
<1>1. PICK la, lf, both : la = Len(all) /\ lf = Len(fields) /\ both = all \o fields
  OBVIOUS
<1>2. /\ la \in Nat /\ lf \in Nat /\ Len(both) = la + lf
      /\ \A i \in 1..la : both[i] = all[i]
      /\ \A i \in 1..lf : both[la + i] = fields[i]
  BY <1>1, LenProperties
<1>3. \A i \in 1..(la + lf) : i \in 1..la \/ (i - la \in 1..lf /\ i = la + (i - la))
  BY <1>2
<1>4. \A i \in 1..(la + lf) :
        (\E h \in 1..la : both[i] = all[h]) \/ (\E h \in 1..lf : both[i] = fields[h])
  BY <1>2, <1>3
<1>5. ASSUME NEW i \in 1..(la + lf), NEW j \in 1..(la + lf), both[i].name = name, both[j].name = name
      PROVE  both[i].type = both[j].type
  <2>1. ASSUME NEW h \in 1..la, both[i] = all[h] PROVE both[i].type = both[j].type
    <3>1. ASSUME NEW k \in 1..la, both[j] = all[k] PROVE all[h].type = all[k].type
      BY <1>1, <1>5, <2>1, <3>1 DEF Agrees
    <3>2. ASSUME NEW k \in 1..lf, both[j] = fields[k] PROVE all[h].type = fields[k].type
      BY <1>1, <1>5, <2>1, <3>2
    <3> QED
      BY <1>4, <2>1, <3>1, <3>2
  <2>2. ASSUME NEW h \in 1..lf, both[i] = fields[h] PROVE both[i].type = both[j].type
    <3>1. ASSUME NEW k \in 1..la, both[j] = all[k] PROVE all[k].type = fields[h].type
      BY <1>1, <1>5, <2>2, <3>1
    <3>2. ASSUME NEW k \in 1..lf, both[j] = fields[k] PROVE fields[h].type = fields[k].type
      BY <1>1, <1>5, <2>2, <3>2 DEF Agrees
    <3> QED
      BY <1>4, <2>2, <3>1, <3>2
  <2> QED
    BY <1>4, <2>1, <2>2
<1> QED
  BY <1>1, <1>2, <1>5 DEF Agrees

\* The first field of each name.
FirstFields(all) == {all[i] : i \in {j \in DOMAIN all : \A h \in 1..(j - 1) : all[h].name # all[j].name}}

LEMMA WholeMore ==
  ASSUME NEW entry \in Seq(Declarations), entry # <<>>, Whole(entry), NEW fields \in Declarations,
         NEW kept, kept = Seeded(entry[1]) \o FlattenSeq(Tail(entry)),
         \A i \in DOMAIN fields : \A f \in FirstFields(kept) :
           f.name = fields[i].name => f.type = fields[i].type
  PROVE  Whole(Append(entry, fields))
<1>1. entry \in Seq(Seq(AnyField)) /\ fields \in Seq(AnyField) /\ entry[1] \in Seq(AnyField)
  <2>1. Declarations \subseteq Seq(AnyField)
    BY DeclarationIs
  <2> QED
    BY <2>1 DEF Whole
<1>2. PICK more, n : more = Append(entry, fields) /\ n = Len(entry)
  OBVIOUS
<1>3. /\ more[1] = entry[1] /\ Tail(more) = Append(Tail(entry), fields)
      /\ Tail(entry) \in Seq(Seq(AnyField))
      /\ n \in Nat /\ DOMAIN entry = 1..n /\ DOMAIN more = 1..(n + 1) /\ more[n + 1] = fields
      /\ \A d \in 1..n : more[d] = entry[d]
  <2>1. Len(entry) \in Nat \ {0}
    BY <1>1, EmptySeq, LenProperties
  <2>2. /\ more \in Seq(Seq(AnyField)) /\ Len(more) = Len(entry) + 1 /\ more[1] = entry[1]
        /\ more[n + 1] = fields /\ \A d \in 1..n : more[d] = entry[d]
    BY <1>1, <1>2, <2>1
  <2>3. Tail(entry) \in Seq(Seq(AnyField)) /\ Tail(more) = Append(Tail(entry), fields)
    BY <1>1, <1>2, <2>1, <2>2
  <2>4. DOMAIN entry = 1..n /\ DOMAIN more = 1..(n + 1)
    BY <1>1, <1>2, <2>2, LenProperties
  <2> QED
    BY <1>2, <2>1, <2>2, <2>3, <2>4
<1>4. PICK all, rest, tail, first :
        all = FlattenSeq(entry) /\ rest = FlattenSeq(tail) /\ tail = Tail(entry) /\ first = entry[1]
  OBVIOUS
<1>5. all \in Seq(AnyField) /\ FlattenSeq(more) = all \o fields
  BY <1>1, <1>2, <1>4, FlattenFacts
<1>6. rest \in Seq(AnyField) /\ FlattenSeq(Tail(more)) = rest \o fields
  <2>1. tail \in Seq(Seq(AnyField)) /\ Tail(more) = Append(tail, fields)
    BY <1>3, <1>4
  <2> QED
    BY <1>1, <1>4, <2>1, FlattenFacts
<1>7. all = first \o rest /\ \A name : ~MixedIn(entry, name) => Agrees(all, name)
  BY <1>4 DEF Whole
<1>8. FlattenSeq(more) = more[1] \o FlattenSeq(Tail(more))
  <2>1. first \in Seq(AnyField) /\ more[1] = first
    BY <1>1, <1>3, <1>4
  <2>2. (first \o rest) \o fields = first \o (rest \o fields)
    <3>1. first \in Seq(AnyField) /\ rest \in Seq(AnyField) /\ fields \in Seq(AnyField)
      BY <1>1, <1>6, <2>1
    <3>2. \A s1, s2, s3 \in Seq(AnyField) : (s1 \o s2) \o s3 = s1 \o (s2 \o s3)
      BY ConcatAssociative
    <3> QED
      BY <3>1, <3>2, Zenon
  <2>3. FlattenSeq(more) = (first \o rest) \o fields
    BY <1>5, <1>7
  <2>4. FlattenSeq(more) = first \o (rest \o fields)
    BY <2>2, <2>3
  <2> QED
    BY <1>6, <2>1, <2>4
<1>9. DOMAIN fields = 1..Len(fields)
  BY <1>1, LenProperties
<1>10. /\ kept \in Seq(AnyField) /\ DOMAIN kept = 1..Len(all) /\ Len(kept) = Len(all)
       /\ \A i \in 1..Len(all) : kept[i].name = all[i].name /\ \E h \in 1..Len(all) : kept[i] = all[h]
  <2>1. first \in Seq(AnyField)
    BY <1>1, <1>4
  <2>2. rest \in Seq(AnyField) /\ all = first \o rest /\ kept = Seeded(first) \o rest
    BY <1>4, <1>6, <1>7
  <2>3. IsKept(first, rest, all, kept)
    BY <2>2 DEF IsKept
  <2>4. KeepsPlaces(first, all, kept)
    BY <2>1, <2>2, <2>3, KeptIs
  <2> QED
    BY <2>4, LenProperties DEF KeepsPlaces
<1>11. ASSUME NEW name, ~MixedIn(more, name) PROVE Agrees(all \o fields, name)
  <2>1. ~MixedIn(entry, name)
    <3>1. \A d \in DOMAIN entry : d \in DOMAIN more /\ more[d] = entry[d]
      BY <1>3
    <3> QED
      BY <1>11, <3>1 DEF MixedIn
  <2>2. Agrees(fields, name)
    <3>1. n + 1 \in DOMAIN more /\ more[n + 1] = fields
      BY <1>3
    <3> QED
      BY <1>9, <1>11, <3>1 DEF MixedIn, Agrees
  <2>3. ASSUME NEW i \in 1..Len(all), NEW j \in 1..Len(fields), all[i].name = name, fields[j].name = name
        PROVE  all[i].type = fields[j].type
    <3>1. kept[i].name = name /\ i \in 1..Len(kept)
      BY <1>10, <2>3
    <3>2. PICK h \in 1..Len(kept) : IsFirst(kept, h) /\ kept[h].name = name
      BY <1>10, <3>1, IsThereFirst
    <3>3. kept[h] \in FirstFields(kept)
      BY <1>10, <3>2 DEF IsFirst, FirstFields
    <3>4. kept[h].type = fields[j].type
      BY <1>9, <2>3, <3>2, <3>3
    <3>5. PICK k \in 1..Len(all) : kept[h] = all[k]
      BY <1>10
    <3>6. all[k].type = all[i].type
      <4>1. Agrees(all, name)
        BY <1>7, <2>1
      <4>2. all[k].name = name /\ all[i].name = name
        BY <2>3, <3>2, <3>5
      <4> QED
        BY <4>1, <4>2 DEF Agrees
    <3> QED
      BY <3>4, <3>5, <3>6
  <2>4. Agrees(all, name)
    BY <1>7, <2>1
  <2> QED
    BY <1>1, <1>5, <2>2, <2>3, <2>4, AgreesMore
<1> QED
  <2>1. \A name : ~MixedIn(more, name) => Agrees(FlattenSeq(more), name)
    BY <1>5, <1>11
  <2> QED
    BY <1>2, <1>3, <1>8, <2>1 DEF Whole

RegistryInv ==
  /\ collections \in [Collections -> Seq(Declarations)]
  /\ \A c \in Collections : collections[c] # <<>> => Whole(collections[c])

LEMMA RegistryStep ==
  ASSUME RegistryInv, [RegistryNext]_collections
  PROVE  RegistryInv'
<1>1. ASSUME NEW c \in Collections, NEW entry \in Seq(Declarations), Whole(entry),
             collections' = [collections EXCEPT ![c] = entry]
      PROVE  RegistryInv'
  BY <1>1 DEF RegistryInv
<1>2. ASSUME NEW c \in Collections, NEW fields \in Declarations, Register(c, fields) PROVE RegistryInv'
  <2>1. PICK entry : entry = <<fields>>
    OBVIOUS
  <2>2. entry \in Seq(Declarations) /\ Whole(entry)
    BY <2>1, WholeFirst
  <2>3. collections' = [collections EXCEPT ![c] = entry]
    BY <1>2, <2>1 DEF Register
  <2> QED
    BY <1>1, <2>2, <2>3
<1>3. ASSUME NEW c \in Collections, NEW fields \in Declarations, Extend(c, fields) PROVE RegistryInv'
  <2>1. PICK entry, more, kept :
          entry = collections[c] /\ more = Append(entry, fields)
          /\ kept = Seeded(entry[1]) \o FlattenSeq(Tail(entry))
    OBVIOUS
  <2>2. entry # <<>> /\ entry \in Seq(Declarations) /\ Whole(entry)
    BY <1>3, <2>1 DEF Extend, Registered, RegistryInv
  <2>3. ExistingFields(c) = FirstFields(kept)
    BY <2>1 DEF ExistingFields, FirstFields, Base, Extensions
  <2>4. \A i \in DOMAIN fields : \A f \in FirstFields(kept) :
          f.name = fields[i].name => f.type = fields[i].type
    BY <1>3, <2>3 DEF Extend
  <2>5. more \in Seq(Declarations) /\ Whole(more)
    <3>1. Whole(more)
      BY <2>1, <2>2, <2>4, WholeMore
    <3> QED
      BY <2>1, <2>2, <3>1
  <2>6. collections' = [collections EXCEPT ![c] = more]
    BY <1>3, <2>1 DEF Extend
  <2> QED
    BY <1>1, <2>5, <2>6
<1>4. CASE UNCHANGED collections
  BY <1>4 DEF RegistryInv
<1> QED
  BY <1>2, <1>3, <1>4 DEF RegistryNext

\* The first place of a name is the one that is first.
Named(fields, i, name) == fields[i].name = name
FirstOf(fields, name) ==
  CHOOSE k \in DOMAIN fields : fields[k].name = name /\ \A j \in 1..(k - 1) : fields[j].name # name

LEMMA FirstIs ==
  ASSUME NEW S, NEW fields \in Seq(S), NEW i, IsFirst(fields, i),
         NEW name, Named(fields, i, name)
  PROVE  FirstOf(fields, name) = i
<1>0. DOMAIN fields = 1..Len(fields) /\ Len(fields) \in Nat /\ fields[i].name = name
  BY LenProperties DEF Named
<1>1. i \in 1..Len(fields) /\ \A h \in 1..(i - 1) : fields[h].name # name
  BY <1>0 DEF IsFirst
<1>2. ASSUME NEW k \in 1..Len(fields), fields[k].name = name, \A j \in 1..(k - 1) : fields[j].name # name
      PROVE  k = i
  <2>1. k \notin 1..(i - 1) /\ i \notin 1..(k - 1)
    BY <1>0, <1>1, <1>2
  <2> QED
    BY <1>0, <1>1, <2>1
<1>3. PICK k : k = FirstOf(fields, name)
  OBVIOUS
<1>4. k \in DOMAIN fields /\ fields[k].name = name /\ \A j \in 1..(k - 1) : fields[j].name # name
  <2>1. \E h \in DOMAIN fields : fields[h].name = name /\ \A j \in 1..(h - 1) : fields[j].name # name
    BY <1>0, <1>1
  <2> QED
    BY <1>3, <2>1, Zenon DEF FirstOf
<1>5. k = i
  BY <1>0, <1>2, <1>4
<1> QED
  BY <1>3, <1>5

\* collection-registry.ts:112, whoever extends a collection how often, in whatever order and
\* with whatever declarations: the merged collection has every declared name, with the type of
\* each of its declarations unless a single call gives it two; and a name that the base does
\* not list twice once, where it was first declared, with every attribute that one of its
\* declarations is strict about.
THEOREM MergeIsStrictestEver == RegistrySpec => []MergeIsStrictest
<1>1. RegistryInit => RegistryInv
  BY DEF RegistryInit, RegistryInv
<1>2. RegistryInv /\ [RegistryNext]_collections => RegistryInv'
  BY RegistryStep
<1>3. RegistryInv => MergeIsStrictest
  <2> SUFFICES ASSUME RegistryInv, NEW c \in Collections, Registered(c),
                      NEW merged, merged = AllFields(c), NEW declared, declared = Declared(c)
               PROVE  LET First0(name) == CHOOSE i \in DOMAIN declared :
                                            /\ declared[i].name = name
                                            /\ \A j \in 1..(i - 1) : declared[j].name # name
                      IN  /\ \A i \in DOMAIN declared : \E j \in DOMAIN merged :
                               /\ merged[j].name = declared[i].name
                               /\ merged[j].type = declared[i].type \/ Mixed(c, declared[i].name)
                          /\ \A i, j \in DOMAIN merged :
                               i < j /\ ~Repeated(c, merged[j].name)
                                 => First0(merged[i].name) < First0(merged[j].name)
                          /\ \A i \in DOMAIN merged : ~Repeated(c, merged[i].name) =>
                               merged[i].strict = UNION {declared[j].strict :
                                 j \in {h \in DOMAIN declared : declared[h].name = merged[i].name}}
    BY DEF MergeIsStrictest
  <2> DEFINE First0(name) == CHOOSE i \in DOMAIN declared :
                               /\ declared[i].name = name
                               /\ \A j \in 1..(i - 1) : declared[j].name # name
  <2>1. PICK entry : entry = collections[c]
    OBVIOUS
  <2>2. entry # <<>> /\ entry \in Seq(Declarations) /\ Whole(entry)
    BY <2>1 DEF RegistryInv, Registered
  <2>3. PICK base, later, seeds, kept, nb :
          /\ base = entry[1] /\ later = FlattenSeq(Tail(entry)) /\ seeds = Seeded(base)
          /\ kept = seeds \o later /\ nb = Len(base)
    OBVIOUS
  <2>4. /\ merged = Merged(seeds, later) /\ declared = base \o later
        /\ \A name : ~MixedIn(entry, name) => Agrees(declared, name)
    BY <2>1, <2>2, <2>3 DEF AllFields, Base, Extensions, Declared, Whole
  <2>5. base \in Seq(AnyField) /\ DOMAIN base = 1..nb /\ nb \in Nat
    BY <2>2, <2>3, DeclarationIs, LenProperties DEF Whole
  <2>6. later \in Seq(AnyField)
    <3>1. Declarations \subseteq Seq(AnyField)
      BY DeclarationIs
    <3>2. PICK tail : tail = Tail(entry)
      OBVIOUS
    <3>3. entry \in Seq(Seq(AnyField)) /\ Len(entry) \in Nat \ {0}
      BY <2>2, <3>1, EmptySeq, LenProperties
    <3>4. tail \in Seq(Seq(AnyField)) /\ later = FlattenSeq(tail)
      BY <2>3, <3>2, <3>3
    <3> QED
      BY <2>5, <3>4, FlattenFacts
  <2>7. /\ seeds \in Seq(AnyField) /\ Len(seeds) = nb
        /\ \A i, j \in 1..nb : seeds[i].name = seeds[j].name => seeds[i] = seeds[j]
    <3>1. seeds = Seeded(base) /\ nb = Len(base)
      BY <2>3
    <3>2. OneForEachName(base, seeds)
      BY <2>5, <3>1, SeededIs
    <3> QED
      BY <3>1, <3>2 DEF OneForEachName
  <2>8. Merges(merged, kept, nb)
    BY <2>3, <2>4, <2>6, <2>7, MergedMerges
  <2>9. /\ declared \in Seq(AnyField) /\ Len(kept) = Len(declared)
        /\ \A i \in 1..Len(declared) : kept[i].name = declared[i].name
                                       /\ \E h \in 1..Len(declared) : kept[i] = declared[h]
        /\ \A i \in 1..Len(declared) : ListsOnce(base, declared[i].name) => kept[i] = declared[i]
    <3>1. IsKept(base, later, declared, kept)
      BY <2>3, <2>4 DEF IsKept
    <3>2. KeepsPlaces(base, declared, kept)
      BY <2>5, <2>6, <3>1, KeptIs
    <3> QED
      BY <3>2 DEF KeepsPlaces
  <2>10. /\ DOMAIN merged = 1..Len(merged) /\ Len(merged) \in Nat
         /\ DOMAIN declared = 1..Len(declared) /\ Len(declared) \in Nat
    BY <2>8, <2>9, LenProperties DEF Merges
  <2> HIDE DEF First0
  <2>11. PICK place : FieldPlaces(place, merged, kept, nb)
    BY <2>8 DEF Merges
  <2>12. /\ \A j \in 1..Len(merged) :
              /\ place[j] \in 1..Len(declared)
              /\ merged[j].name = kept[place[j]].name /\ merged[j].type = kept[place[j]].type
              /\ (j \in 1..nb /\ place[j] = j) \/ IsFirst(kept, place[j])
         /\ \A j, k \in 1..Len(merged) : j < k => place[j] < place[k]
    BY <2>9, <2>11 DEF FieldPlaces
  <2>13. ASSUME NEW name PROVE First0(name) = FirstOf(declared, name)
    BY Zenon DEF First0, FirstOf
  <2>14. ASSUME NEW name, ~Repeated(c, name) PROVE ListsOnce(base, name)
    <3>1. Base(c) = base /\ nb = Len(base)
      BY <2>1, <2>3 DEF Base
    <3>2. ASSUME NEW k \in DOMAIN base, NEW l \in DOMAIN base, base[k].name = name, base[l].name = name
          PROVE  k = l
      BY <2>14, <3>1, <3>2 DEF Repeated
    <3> QED
      BY <2>5, <3>1, <3>2 DEF ListsOnce
  <2>15. ASSUME NEW i \in DOMAIN declared
         PROVE  \E j \in DOMAIN merged :
                  /\ merged[j].name = declared[i].name
                  /\ merged[j].type = declared[i].type \/ Mixed(c, declared[i].name)
    <3>1. PICK name : name = declared[i].name
      OBVIOUS
    <3>2. i \in 1..Len(kept) /\ kept[i].name = name
      BY <2>9, <2>10, <3>1
    <3>3. PICK j \in 1..Len(merged) : merged[j].name = name
      BY <2>8, <3>2 DEF Merges
    <3>4. PICK h \in 1..Len(declared) : kept[place[j]] = declared[h]
      BY <2>9, <2>12
    <3>5. declared[h].name = name /\ merged[j].type = declared[h].type
      BY <2>12, <3>3, <3>4
    <3>6. ASSUME ~Mixed(c, name) PROVE merged[j].type = declared[i].type
      <4>1. ~MixedIn(entry, name)
        BY <2>1, <3>6 DEF Mixed, MixedIn
      <4> QED
        BY <2>4, <2>10, <3>1, <3>5, <4>1 DEF Agrees
    <3> QED
      BY <2>10, <3>1, <3>3, <3>6
  <2>16. ASSUME NEW i \in DOMAIN merged, NEW j \in DOMAIN merged, i < j, ~Repeated(c, merged[j].name)
         PROVE  First0(merged[i].name) < First0(merged[j].name)
    <3>1. PICK mine, other, at, before :
            /\ mine = merged[j].name /\ other = merged[i].name
            /\ at = place[j] /\ before = place[i]
      OBVIOUS
    <3>2. /\ at \in 1..Len(declared) /\ before \in 1..Len(declared) /\ before < at
          /\ declared[at].name = mine /\ declared[before].name = other
      <4>1. i \in 1..Len(merged) /\ j \in 1..Len(merged)
        BY <2>10
      <4>2. /\ at \in 1..Len(declared) /\ before \in 1..Len(declared)
            /\ kept[at].name = mine /\ kept[before].name = other
        BY <2>12, <3>1, <4>1
      <4>3. before < at
        BY <2>12, <2>16, <3>1, <4>1
      <4> QED
        BY <2>9, <4>2, <4>3
    <3>3. IsFirst(declared, at)
      <4>1. ASSUME NEW h \in 1..(at - 1), declared[h].name = mine PROVE FALSE
        <5>1. h \in 1..Len(declared) /\ h # at /\ kept[h].name = mine /\ kept[at].name = mine
          <6>1. at \in 1..Len(declared) /\ Len(declared) \in Nat
            BY <2>10, <3>2
          <6>2. h \in 1..Len(declared) /\ h # at
            BY <6>1
          <6> QED
            BY <2>9, <3>2, <4>1, <6>1, <6>2
        <5>2. CASE j \in 1..nb /\ at = j
          <6>1. h \in 1..nb /\ at \in 1..nb /\ base[h] = declared[h] /\ base[at] = declared[at]
            BY <2>3, <2>4, <2>5, <2>6, <3>2, <4>1, <5>2
          <6>2. ListsOnce(base, mine)
            BY <2>14, <2>16, <3>1
          <6> QED
            BY <2>3, <3>2, <4>1, <5>1, <6>1, <6>2 DEF ListsOnce
        <5>3. CASE IsFirst(kept, at)
          BY <4>1, <5>1, <5>3 DEF IsFirst
        <5> QED
          BY <2>10, <2>12, <3>1, <5>2, <5>3
      <4> QED
        BY <3>2, <4>1 DEF IsFirst
    <3>4. FirstOf(declared, mine) = at
      <4>1. Named(declared, at, mine)
        BY <3>2 DEF Named
      <4> QED
        BY <2>9, <3>3, <4>1, FirstIs
    <3>5. FirstOf(declared, other) \in Nat /\ FirstOf(declared, other) <= before
      <4>1. PICK h \in 1..Len(declared) : IsFirst(declared, h) /\ declared[h].name = other
        BY <2>9, <3>2, IsThereFirst
      <4>2. FirstOf(declared, other) = h
        <5>1. Named(declared, h, other)
          BY <4>1 DEF Named
        <5> QED
          BY <2>9, <4>1, <5>1, FirstIs
      <4>3. before \notin 1..(h - 1)
        BY <3>2, <4>1 DEF IsFirst
      <4> QED
        BY <2>10, <3>2, <4>2, <4>3
    <3>6. First0(other) = FirstOf(declared, other) /\ First0(mine) = FirstOf(declared, mine)
      BY <2>13
    <3>7. First0(other) < First0(mine)
      BY <2>10, <3>2, <3>4, <3>5, <3>6
    <3> QED
      BY <3>1, <3>7
  <2>17. ASSUME NEW i \in DOMAIN merged, ~Repeated(c, merged[i].name)
         PROVE  merged[i].strict = UNION {declared[j].strict :
                  j \in {h \in DOMAIN declared : declared[h].name = merged[i].name}}
    <3>1. PICK name : name = merged[i].name
      OBVIOUS
    <3>2. merged[i].strict = Demanded(kept, name)
      BY <2>8, <2>10, <3>1 DEF Merges
    <3>3. \A h \in 1..Len(declared) :
            /\ kept[h].name = name <=> declared[h].name = name
            /\ declared[h].name = name => kept[h] = declared[h]
      BY <2>9, <2>14, <2>17, <3>1
    <3>4. Demanded(kept, name) = UNION {declared[j].strict :
            j \in {h \in DOMAIN declared : declared[h].name = name}}
      <4>1. PICK these : these = {h \in 1..Len(declared) : declared[h].name = name}
        OBVIOUS
      <4>2. {h \in 1..Len(kept) : kept[h].name = name} = these
        BY <2>9, <3>3, <4>1
      <4>3. \A h \in these : kept[h].strict = declared[h].strict
        BY <3>3, <4>1
      <4>4. Demanded(kept, name) = UNION {kept[h].strict : h \in these}
        BY <4>2 DEF Demanded
      <4>5. {h \in DOMAIN declared : declared[h].name = name} = these
        BY <2>10, <4>1
      <4> QED
        BY <4>3, <4>4, <4>5
    <3> QED
      BY <3>1, <3>2, <3>4
  <2> QED
    BY <2>15, <2>16, <2>17 DEF First0
<1> QED
  BY <1>1, <1>2, <1>3, PTL DEF RegistrySpec
=============================================================================

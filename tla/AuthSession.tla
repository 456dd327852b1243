---------------------------- MODULE AuthSession ----------------------------
(***************************************************************************)
(* Sessions: AuthService of packages/auth (auth-service.ts) over the       *)
(* adapter to the database that core builds for it (createAuthDbAdapter in *)
(* core/src/app.ts), and the routes that call it.                          *)
(*                                                                         *)
(* The service looks rows up without a condition, and updates without one: *)
(* the adapter keeps the user and the refresh token that were read last,   *)
(* by whichever request, and sends the update there.  A lookup without a   *)
(* condition may return any row.                                           *)
(***************************************************************************)
EXTENDS Naturals, Sequences, FiniteSets

CONSTANTS
  Accounts,    \* rows of users
  Clients,     \* requests that may be served at once
  Changers,    \* those of them that may change a password
  Keepers,     \* those of them that may refresh a session or end it
  NoRow,       \* no row has been read
  MaxVersion,  \* bound: token versions
  MaxTokens    \* bound: rows of refresh_tokens

ASSUME SessionAssumption ==
  /\ Changers \subseteq Clients /\ Keepers \subseteq Clients
  /\ NoRow \notin Accounts /\ NoRow \notin Nat
  /\ MaxVersion \in Nat \ {0} /\ MaxTokens \in Nat

VARIABLES
  version,     \* users.token_version
  tokens,      \* rows of refresh_tokens, in the order of their insertion;
               \* history: whether a row comes of a token refreshed more than once
  lastUser,    \* the adapter's lastUserId; its lastTenantId is of the same row
  lastToken,   \* the adapter's lastTokenId
  request,     \* the requests being served: what each has read and waits for
  issued,      \* history: access tokens given out
  outdated,    \* history: those of a user whose password has changed since
  overwritten, \* history: users whose version a request wrote that had read another
  logins       \* history: sessions begun by a login

adapterVars == <<lastUser, lastToken>>
historyVars == <<issued, outdated, overwritten, logins>>
sessionVars == <<version, tokens, adapterVars, request, historyVars>>

Live == {t \in DOMAIN tokens : ~tokens[t].revoked}

\* A request before it has read anything.
Served == [at |-> "idle", op |-> "none", user |-> NoRow, version |-> 0,
           token |-> NoRow, revoked |-> FALSE, target |-> NoRow, again |-> FALSE]

SessionInit ==
  /\ version = [u \in Accounts |-> 1]
  /\ tokens = <<>>
  /\ lastUser = NoRow
  /\ lastToken = NoRow
  /\ request = [k \in Clients |-> Served]
  /\ issued = {}
  /\ outdated = {}
  /\ overwritten = {}
  /\ logins = 0

-----------------------------------------------------------------------------
(* The routes.                                                             *)

\* POST /api/auth/login.  The name of the user is not used.
Login(k) ==
  /\ request[k] = Served
  /\ request' = [request EXCEPT ![k] = [Served EXCEPT !.at = "findUser", !.op = "login"]]
  /\ UNCHANGED <<version, tokens, adapterVars, historyVars>>

\* POST /api/auth/refresh and /logout.  The token of the client is not used.
Keep(k, op) ==
  /\ k \in Keepers
  /\ request[k] = Served
  /\ request' = [request EXCEPT ![k] = [Served EXCEPT !.at = "findToken", !.op = op]]
  /\ UNCHANGED <<version, tokens, adapterVars, historyVars>>

\* A protected route first has an access token verified (requireAuth): "change"
\* is POST /api/auth/change-password, "other" stands for all other routes.
Protected(k, access, op) ==
  /\ op = "change" => k \in Changers
  /\ request[k] = Served
  /\ request' = [request EXCEPT ![k] =
       [Served EXCEPT !.at = "verify", !.op = op, !.user = access.user,
                      !.version = access.version]]
  /\ UNCHANGED <<version, tokens, adapterVars, historyVars>>

-----------------------------------------------------------------------------
(* Lookups.  The database runs the query, and some time later the adapter  *)
(* notes the row and the service goes on with it.                          *)

\* users.findFirst() without a condition.  (A password is changed only while
\* the bound on versions allows it.)
FindUser(k, u) ==
  /\ request[k].at = "findUser"
  /\ request[k].op = "change" => version[u] < MaxVersion
  /\ request' = [request EXCEPT ![k].at = "user", ![k].user = u, ![k].version = version[u]]
  /\ UNCHANGED <<version, tokens, adapterVars, historyVars>>

\* refresh_tokens.findFirst() without a condition.
FindToken(k, t) ==
  /\ request[k].at = "findToken"
  /\ request' = [request EXCEPT ![k].at = "token", ![k].token = t,
                                ![k].revoked = tokens[t].revoked]
  /\ UNCHANGED <<version, tokens, adapterVars, historyVars>>

\* verifyAccessToken looks the user of the token up, and compares versions.
\* The reply is "verified" or "mismatch".
FindOwner(k) ==
  /\ request[k].at = "verify"
  /\ request' = [request EXCEPT ![k].at =
       IF request[k].version = version[request[k].user] THEN "verified" ELSE "mismatch"]
  /\ UNCHANGED <<version, tokens, adapterVars, historyVars>>

\* The reply reaches the adapter and the service: a request of another route
\* is served, a change of password goes on to look its user up.
Verified(k) ==
  /\ request[k].at \in {"verified", "mismatch"}
  /\ lastUser' = request[k].user
  /\ request' = [request EXCEPT ![k] =
       IF request[k].at = "verified" /\ request[k].op = "change"
       THEN [Served EXCEPT !.at = "findUser", !.op = "change"]
       ELSE Served]
  /\ UNCHANGED <<version, tokens, lastToken, historyVars>>

\* The row of a user is there.  login and changePassword go on to bcrypt; it
\* is here that refresh sends the update of the token, wherever that goes.
UserRead(k) ==
  /\ request[k].at = "user"
  /\ lastUser' = request[k].user
  /\ request' = IF request[k].op = "refresh"
                THEN [request EXCEPT ![k].at = "revoke", ![k].target = lastToken]
                ELSE [request EXCEPT ![k].at = "bcrypt"]
  /\ UNCHANGED <<version, tokens, lastToken, historyVars>>

\* The row of a refresh token is there.  refresh() refuses a revoked one;
\* logout() sends the update.
TokenRead(k) ==
  /\ request[k].at = "token"
  /\ lastToken' = request[k].token
  /\ request' = [request EXCEPT ![k] =
       CASE @.op = "refresh" /\ @.revoked -> Served
         [] @.op = "refresh" /\ ~@.revoked -> [@ EXCEPT !.at = "findUser"]
         [] @.op = "logout" -> [@ EXCEPT !.at = "revoke", !.target = lastToken']]
  /\ UNCHANGED <<version, tokens, lastUser, historyVars>>

-----------------------------------------------------------------------------
(* Updates and inserts.  The adapter chooses the row when it is called, and *)
(* the database changes it some time later.                                *)

\* bcrypt has found the password right: login signs an access token and inserts
\* a refresh token, under the tenant the adapter remembers; changePassword
\* sends the update of the user.
PasswordRight(k) ==
  /\ request[k].at = "bcrypt"
  /\ request' = [request EXCEPT ![k].at = IF request[k].op = "login" THEN "insert" ELSE "write",
                                ![k].target = lastUser]
  /\ UNCHANGED <<version, tokens, adapterVars, historyVars>>

\* Mutant of WritePassword: the version is left as it was.
WritePasswordOnly(k) ==
  /\ request[k].at = "write"
  /\ LET u == request[k].target
     IN  /\ version' = [version EXCEPT ![u] = request[k].version]
         /\ outdated' = outdated \cup {a \in issued : a.user = u}
         /\ overwritten' = IF request[k].version = version[u] THEN overwritten
                           ELSE overwritten \cup {u}
  /\ request' = [request EXCEPT ![k] = Served]
  /\ UNCHANGED <<tokens, adapterVars, issued, logins>>

\* The update of the user's password and version is done.
WritePassword(k) ==
  /\ request[k].at = "write"
  /\ LET u == request[k].target
     IN  /\ version' = [version EXCEPT ![u] = request[k].version + 1]
         /\ outdated' = outdated \cup {a \in issued : a.user = u}
         /\ overwritten' = IF request[k].version = version[u] THEN overwritten
                           ELSE overwritten \cup {u}
  /\ request' = [request EXCEPT ![k] = Served]
  /\ UNCHANGED <<tokens, adapterVars, issued, logins>>

\* The update of the refresh token is done; refresh() signs a new access token.
Revoke(k) ==
  /\ request[k].at = "revoke"
  /\ LET old == tokens[request[k].target]
     IN  /\ tokens' = [tokens EXCEPT ![request[k].target].revoked = TRUE]
         /\ request' = [request EXCEPT ![k] =
              IF @.op = "refresh" THEN [@ EXCEPT !.at = "sign", !.again = old.revoked \/ old.again]
              ELSE Served]
  /\ UNCHANGED <<version, adapterVars, historyVars>>

\* The access token is signed, and refresh() inserts a new refresh token.
Signed(k) ==
  /\ request[k].at = "sign"
  /\ request' = [request EXCEPT ![k].at = "insert", ![k].target = lastUser]
  /\ UNCHANGED <<version, tokens, adapterVars, historyVars>>

\* The refresh token is inserted: login sends the update of last_login_at,
\* refresh() returns its two tokens.
Insert(k) ==
  /\ request[k].at = "insert"
  /\ Len(tokens) < MaxTokens
  /\ tokens' = Append(tokens, [user |-> request[k].user, tenantOf |-> request[k].target,
                               revoked |-> FALSE, again |-> request[k].again])
  /\ IF request[k].op = "login"
     THEN /\ request' = [request EXCEPT ![k].at = "stamp", ![k].target = lastUser]
          /\ logins' = logins + 1
          /\ UNCHANGED issued
     ELSE /\ request' = [request EXCEPT ![k] = Served]
          /\ issued' = issued \cup {[user |-> request[k].user, version |-> request[k].version]}
          /\ UNCHANGED logins
  /\ UNCHANGED <<version, adapterVars, outdated, overwritten>>

\* last_login_at is updated and login returns its two tokens.
Stamp(k) ==
  /\ request[k].at = "stamp"
  /\ request' = [request EXCEPT ![k] = Served]
  /\ issued' = issued \cup {[user |-> request[k].user, version |-> request[k].version]}
  /\ UNCHANGED <<version, tokens, adapterVars, outdated, overwritten, logins>>

\* A check refuses: the user is inactive, the refresh token expired, the
\* password wrong or to be changed first.
Refuse(k) ==
  /\ \/ request[k].at = "user" /\ request[k].op = "login"
     \/ request[k].at = "token" /\ request[k].op = "refresh"
     \/ request[k].at = "bcrypt"
  /\ lastUser' = IF request[k].at = "user" THEN request[k].user ELSE lastUser
  /\ lastToken' = IF request[k].at = "token" THEN request[k].token ELSE lastToken
  /\ request' = [request EXCEPT ![k] = Served]
  /\ UNCHANGED <<version, tokens, historyVars>>

\* A statement fails, or a lookup finds nothing, and the request is answered
\* with an error.
StatementFails(k) ==
  /\ request[k].at \in {"findUser", "findToken", "verify", "write", "revoke", "insert", "stamp"}
  /\ request' = [request EXCEPT ![k] = Served]
  /\ UNCHANGED <<version, tokens, adapterVars, historyVars>>

Route(k) ==
  \/ Login(k)
  \/ \E op \in {"refresh", "logout"} : Keep(k, op)
  \/ \E access \in issued, op \in {"change", "other"} : Protected(k, access, op)

Lookup(k) ==
  \/ \E u \in Accounts : FindUser(k, u)
  \/ \E t \in DOMAIN tokens : FindToken(k, t)
  \/ FindOwner(k) \/ Verified(k) \/ UserRead(k) \/ TokenRead(k)

Write(k) ==
  PasswordRight(k) \/ WritePassword(k) \/ Revoke(k) \/ Signed(k) \/ Insert(k) \/ Stamp(k)

SessionNext == \E k \in Clients :
  Route(k) \/ Lookup(k) \/ Write(k) \/ Refuse(k) \/ StatementFails(k)

SessionSpec == SessionInit /\ [][SessionNext]_sessionVars

-----------------------------------------------------------------------------
(* Properties.                                                             *)

\* Type correctness of the tables, the adapter and the requests.
SessionTypeOK ==
  /\ version \in [Accounts -> 0..MaxVersion]
  /\ Len(tokens) <= MaxTokens
  /\ \A t \in DOMAIN tokens :
       tokens[t] \in [user : Accounts, tenantOf : Accounts, revoked : BOOLEAN, again : BOOLEAN]
  /\ lastUser \in Accounts \cup {NoRow}
  /\ lastToken \in DOMAIN tokens \cup {NoRow}
  /\ request \in [Clients ->
       [at : {"idle", "findUser", "user", "findToken", "token", "verify", "verified", "mismatch",
              "bcrypt", "write", "revoke", "sign", "insert", "stamp"},
        op : {"none", "login", "refresh", "logout", "change", "other"},
        user : Accounts \cup {NoRow}, version : 0..MaxVersion,
        token : DOMAIN tokens \cup {NoRow}, revoked : BOOLEAN,
        target : Accounts \cup DOMAIN tokens \cup {NoRow}, again : BOOLEAN]]
  /\ overwritten \subseteq Accounts
  /\ issued \cup outdated \subseteq [user : Accounts, version : 0..MaxVersion]

\* The adapter is to send each update to the right row (core/src/app.ts:72):
\* the row that the request which makes the update has read, and a refresh
\* token is stored under the tenant of its own user.
WritesItsRow ==
  /\ \A k \in Clients :
       /\ request[k].at \in {"write", "insert", "stamp"} => request[k].target = request[k].user
       /\ request[k].at = "revoke" => request[k].target = request[k].token
  /\ \A t \in DOMAIN tokens : tokens[t].tenantOf = tokens[t].user

\* A change of password is to invalidate old tokens (auth-service.ts:221): no
\* access token that was given out before the change carries the version of
\* its user afterwards, whichever logins were under way during the change.  Only
\* where two changes overlap, so that one writes over a version that it has not
\* read, may a token come back to life.
ChangeInvalidates ==
  \A a \in outdated : a.version # version[a.user] \/ a.user \in overwritten

\* Refresh tokens rotate (auth-service.ts:138): refresh() revokes one for each
\* that it inserts, however many requests overlap, and wherever the adapter
\* sends their updates.  The only sessions there may be beyond one per login are
\* those that come of a token which was revoked already when its refresh
\* revoked it.
SessionsComeFromLogins == Cardinality({t \in Live : ~tokens[t].again}) <= logins

\* No access token outlives the password it was given out under, and no session
\* comes from anything but a login, unless requests overlap in the one way that
\* each part names.
NoStraySession == ChangeInvalidates /\ SessionsComeFromLogins

=============================================================================

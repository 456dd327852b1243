---------------------------- MODULE AdminSession ----------------------------
(***************************************************************************)
(* Who is signed in to packages/admin-ui: App, LoginPage and the HTTP      *)
(* client (api/client.ts), in tabs that share one localStorage.  Answers   *)
(* arrive in any order, and a token may be refused while it is in use.     *)
(***************************************************************************)
EXTENDS Naturals

CONSTANTS
  Tabs,
  NoToken,
  MaxLogins,   \* bound: tokens the server gives out
  MaxCalls     \* bound: requests of a tab under way at once

ASSUME NoTokenAssumption == NoToken \notin Nat

VARIABLES
  stored,      \* aude_access_token in localStorage
  good,        \* tokens the server accepts
  logins,      \* tokens given out so far
  view,        \* per tab: App's isAuthed: checking (null), app, or login
  calls,       \* requests under way: their tab, number, kind and token
  clearedBy    \* history: the tab that emptied the store last

uiVars == <<stored, good, logins, view, calls, clearedBy>>

UiInit ==
  /\ stored = NoToken /\ good = {} /\ logins = 0
  /\ view = [t \in Tabs |-> "closed"]
  /\ calls = {} /\ clearedBy = NoToken

CallsOf(t) == {c \in calls : c.tab = t}
NewCall(t, kind) ==
  [tab |-> t, nr |-> CHOOSE n \in 1..MaxCalls : \A c \in CallsOf(t) : c.nr # n,
   kind |-> kind, token |-> stored]
MayCall(t) == \E n \in 1..MaxCalls : \A c \in CallsOf(t) : c.nr # n

ClearTokens(t) == stored' = NoToken /\ clearedBy' = t

\* App mounts: without a token the login page; with one that has run out, too,
\* and it is cleared; else the spinner until the server has confirmed it.
Load(t) ==
  /\ \/ /\ stored = NoToken
        /\ view' = [view EXCEPT ![t] = "login"]
        /\ calls' = calls \ CallsOf(t)
        /\ UNCHANGED <<stored, clearedBy>>
     \/ /\ stored # NoToken /\ stored \notin good
        /\ ClearTokens(t)
        /\ view' = [view EXCEPT ![t] = "login"]
        /\ calls' = calls \ CallsOf(t)
     \/ /\ stored # NoToken
        /\ view' = [view EXCEPT ![t] = "checking"]
        /\ calls' = (calls \ CallsOf(t))
                    \cup {[tab |-> t, nr |-> 1, kind |-> "me", token |-> stored]}
        /\ UNCHANGED <<stored, clearedBy>>
  /\ UNCHANGED <<good, logins>>

\* handleSubmit() of LoginPage, or any request of a page that is shown.
Call(t) ==
  /\ MayCall(t)
  /\ \/ view[t] = "login" /\ calls' = calls \cup {NewCall(t, "login")}
     \/ view[t] = "app" /\ calls' = calls \cup {NewCall(t, "data")}
  /\ UNCHANGED <<stored, good, logins, view, clearedBy>>

\* A 2xx answer: /api/auth/me confirms, a login brings a token, others data.
Accepted200(c) ==
  /\ IF c.kind = "login"
     THEN /\ logins < MaxLogins
          /\ logins' = logins + 1
          /\ stored' = logins + 1
          /\ good' = good \cup {logins + 1}
     ELSE c.token \in good /\ UNCHANGED <<logins, stored, good>>
  /\ view' = IF c.kind = "data" THEN view ELSE [view EXCEPT ![c.tab] = "app"]
  /\ calls' = calls \ {c}
  /\ UNCHANGED clearedBy

\* Mutant of Refused401: nobody listens to aude:unauthorized.
RefusedSilently(c) ==
  /\ c.kind = "login" \/ c.token \notin good
  /\ ClearTokens(c.tab)
  /\ view' = IF c.kind = "me" THEN [view EXCEPT ![c.tab] = "login"] ELSE view
  /\ calls' = calls \ {c}
  /\ UNCHANGED <<good, logins>>

\* A 401 empties the store, whichever token it was about, and its event takes
\* the tab to the login page; so does the refusal of a login.
Refused401(c) ==
  /\ c.kind = "login" \/ c.token \notin good
  /\ ClearTokens(c.tab)
  /\ view' = [view EXCEPT ![c.tab] = "login"]
  /\ calls' = calls \ {c}
  /\ UNCHANGED <<good, logins>>

\* Another error or none at all: only the check at the start gives up on it.
Failed(c) ==
  /\ IF c.kind = "me"
     THEN ClearTokens(c.tab) /\ view' = [view EXCEPT ![c.tab] = "login"]
     ELSE UNCHANGED <<stored, clearedBy, view>>
  /\ calls' = calls \ {c}
  /\ UNCHANGED <<good, logins>>

\* handleLogout(): the store is emptied and the page loaded again.
SignOut(t) ==
  /\ view[t] = "app"
  /\ ClearTokens(t)
  /\ view' = [view EXCEPT ![t] = "login"]
  /\ calls' = calls \ CallsOf(t)
  /\ UNCHANGED <<good, logins>>

\* A token runs out, or its user changes the password.
Expire(token) == good' = good \ {token} /\ UNCHANGED <<stored, logins, view, calls, clearedBy>>

UiNext ==
  \/ \E t \in Tabs : Load(t) \/ Call(t) \/ SignOut(t)
  \/ \E c \in calls : Accepted200(c) \/ Refused401(c) \/ Failed(c)
  \/ \E token \in good : Expire(token)

UiSpec == UiInit /\ [][UiNext]_uiVars

-----------------------------------------------------------------------------

\* A tab that shows the application has a token to send, unless another tab was
\* the last to empty the store they share: late refusals of earlier tokens, of
\* requests sent before a login or by other tabs, never leave it shown without.
AppHasToken ==
  \A t \in Tabs : view[t] = "app" /\ stored = NoToken => clearedBy # t
=============================================================================

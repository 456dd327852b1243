----------------------------- MODULE AdminPages -----------------------------
(***************************************************************************)
(* Pages of packages/admin-ui.  A list page (users, roles or plugins) with *)
(* the routes of packages/core that it calls, and the audit hook on their  *)
(* answers: requests of one page overlap; the database may refuse a        *)
(* statement, an answer may be lost on its way, and other clients change   *)
(* nothing.  And the three components that ask again every few seconds:    *)
(* the hook useAgentPolling, RealtimeMonitor and DeviceStatusPanel.  Each  *)
(* keeps the timer it made last in a ref; effects run on mount and on a    *)
(* change of what is polled, and clean up before.                          *)
(***************************************************************************)
EXTENDS Naturals, FiniteSets

CONSTANTS
  Ids,         \* rows that exist or may be created
  NoList,      \* nothing has been loaded
  MaxWrites,   \* bound: requests that write
  MaxOpen,     \* bound: such requests under way at once
  MaxTimers    \* bound: timers made

VARIABLES
  kind,        \* "users", "roles" or "plugins"
  rows,        \* per id: absent, active, inactive (deleted or disabled)
  edits,       \* per id: how often it was written
  list,        \* what the page shows: rows and edits as they were read
  fetch,       \* the query under way: [at, answer], the latter what the server read
  dialog,      \* the dialog that is open: what it will send, or nothing
  sending,     \* requests under way
  writes,      \* requests that write so far
  audit,       \* rows of audit_log: the requests they are about
  committed,   \* history: requests whose statement took effect
  unheard      \* history: no query was sent after a change, or none succeeded

pageVars == <<kind, rows, edits, list, fetch, dialog, sending, writes, audit, committed, unheard>>

NoFetch == [at |-> "none", answer |-> NoList]
Sent == [at |-> "sent", answer |-> NoList]
NoDialog == [op |-> "none", id |-> NoList]

PagesInit ==
  /\ kind \in {"users", "roles", "plugins"}
  /\ rows \in [Ids -> {"absent", "active"}]
  /\ edits = [i \in Ids |-> 0]
  /\ list = NoList /\ fetch = Sent
  /\ dialog = NoDialog
  /\ sending = {} /\ writes = 0
  /\ audit = {} /\ committed = {} /\ unheard = FALSE

Shown(i) == list # NoList /\ list.rows[i] # "absent"

-----------------------------------------------------------------------------
(* The page.                                                               *)

\* GET: all rows, those deleted softly with the others, or an error, on which
\* the page stays without a list (useUsers, useRoles, usePlugins).
ServeList ==
  /\ fetch.at = "sent"
  /\ fetch' \in {[at |-> "served", answer |-> [rows |-> rows, edits |-> edits]],
                 [at |-> "failed", answer |-> NoList]}
  /\ UNCHANGED <<kind, rows, edits, list, dialog, sending, writes, audit, committed, unheard>>

ShowList ==
  /\ fetch.at \in {"served", "failed"}
  /\ list' = IF fetch.at = "failed" THEN list ELSE fetch.answer
  /\ fetch' = NoFetch
  /\ unheard' = (unheard \/ fetch.at = "failed")
  /\ UNCHANGED <<kind, rows, edits, dialog, sending, writes, audit, committed>>

\* openCreate, openEdit and handleDelete; a dialog may also be closed.
OpenDialog ==
  /\ kind # "plugins" /\ list # NoList
  /\ \/ \E i \in Ids : ~Shown(i) /\ dialog' = [op |-> "create", id |-> i]
     \/ \E i \in Ids, op \in {"edit", "delete"} : Shown(i) /\ dialog' = [op |-> op, id |-> i]
     \/ dialog' = NoDialog
  /\ dialog' # dialog
  /\ UNCHANGED <<kind, rows, edits, list, fetch, sending, writes, audit, committed, unheard>>

Send(op, id) ==
  /\ writes < MaxWrites /\ Cardinality(sending) < MaxOpen
  /\ writes' = writes + 1
  /\ sending' = sending \cup {[nr |-> writes + 1, op |-> op, id |-> id, at |-> "sent"]}
  /\ UNCHANGED <<kind, rows, edits, list, fetch, dialog, audit, committed, unheard>>

\* OK of a dialog, which stays open, so that it may be pressed again; the two
\* buttons of a plugin need no dialog.
Submit ==
  \/ dialog.op # "none" /\ Send(dialog.op, dialog.id)
  \/ kind = "plugins" /\ \E i \in Ids, op \in {"enable", "disable"} : Shown(i) /\ Send(op, i)

-----------------------------------------------------------------------------
(* The routes: one statement each, and the answer.                         *)

\* A name is taken, or the row to change is not there: 500 or 404.  A DELETE
\* of a row that is not there is a success.
Applies(r) ==
  CASE r.op = "create" -> rows[r.id] = "absent"
    [] r.op = "delete" -> TRUE
    [] OTHER           -> rows[r.id] # "absent"

\* Users are marked, roles are removed (and user_roles with them).
Written(r) ==
  CASE rows[r.id] = "absent" /\ r.op # "create" -> "absent"
    [] r.op \in {"create", "enable"}            -> "active"
    [] r.op = "delete" /\ kind = "roles"        -> "absent"
    [] r.op \in {"delete", "disable"}           -> "inactive"
    [] OTHER                                    -> rows[r.id]

At(r, step) == sending' = (sending \ {r}) \cup {[r EXCEPT !.at = step]}

RunStatement(r) ==
  /\ r.at = "sent"
  /\ \/ /\ Applies(r)
        /\ rows' = [rows EXCEPT ![r.id] = Written(r)]
        /\ edits' = [edits EXCEPT ![r.id] = @ + 1]
        /\ committed' = committed \cup {r.nr}
        /\ At(r, "2xx")
     \/ At(r, "error") /\ UNCHANGED <<rows, edits, committed>>
  /\ UNCHANGED <<kind, list, fetch, dialog, writes, audit, unheard>>

\* Mutant of AuditHook: whatever the route has answered.
AuditHookAll(r) ==
  /\ r.at \in {"2xx", "error"}
  /\ audit' \in {audit, audit \cup {r.nr}}
  /\ At(r, IF r.at = "2xx" THEN "ok" ELSE "refused")
  /\ UNCHANGED <<kind, rows, edits, list, fetch, dialog, writes, committed, unheard>>

\* onSend: the answer waits for log(), which writes a row for a 2xx or drops
\* it, and never fails.
AuditHook(r) ==
  /\ r.at \in {"2xx", "error"}
  /\ audit' \in {audit, IF r.at = "2xx" THEN audit \cup {r.nr} ELSE audit}
  /\ At(r, IF r.at = "2xx" THEN "ok" ELSE "refused")
  /\ UNCHANGED <<kind, rows, edits, list, fetch, dialog, writes, committed, unheard>>

\* Mutant of Answered: only the dialog is closed.
AnsweredOnly(r) ==
  /\ r.at = "ok"
  /\ dialog' = NoDialog
  /\ sending' = sending \ {r}
  /\ UNCHANGED <<kind, rows, edits, list, fetch, writes, audit, committed, unheard>>

\* Success: the list is invalidated, which drops a query under way and sends a
\* new one, and a dialog closes, be it for this row or for another by now.
Answered(r) ==
  /\ r.at = "ok"
  /\ fetch' = Sent
  /\ dialog' = IF kind = "plugins" \/ (r.op = "delete") # (dialog.op = "delete")
               THEN dialog ELSE NoDialog
  /\ sending' = sending \ {r}
  /\ unheard' = FALSE
  /\ UNCHANGED <<kind, rows, edits, list, writes, audit, committed>>

\* An error is shown, and so is the loss of an answer; the list stays.
Lost(r) ==
  /\ sending' = sending \ {r}
  /\ unheard' = (unheard \/ r.nr \in committed)
  /\ UNCHANGED <<kind, rows, edits, list, fetch, dialog, writes, audit, committed>>

PagesNext ==
  \/ ServeList \/ ShowList \/ OpenDialog \/ Submit
  \/ \E r \in sending : RunStatement(r) \/ AuditHook(r) \/ Answered(r) \/ Lost(r)

-----------------------------------------------------------------------------

\* Once nothing is under way the page shows the rows as they are, unless a
\* query failed or an answer was lost: whatever overlapped, and in whatever
\* order statements ran, answers came and queries were sent again.
ShownIsCurrent ==
  sending = {} /\ fetch = NoFetch /\ list # NoList /\ ~unheard => list = [rows |-> rows, edits |-> edits]

\* A row of the audit log is about a request whose statement took effect, be
\* its answer lost or not: the hook runs before the answer is sent.
AuditedWereDone == audit \subseteq committed

-----------------------------------------------------------------------------
(* What polls.                                                             *)

VARIABLES
  widget,      \* "hook", "monitor" or "panel"
  mounted,
  hidden,      \* document.hidden
  timers,      \* intervals that run
  ref,         \* intervalRef.current
  made,        \* timers made so far
  wasPaused    \* RealtimeMonitor: the pause began with this run of the effect

pollVars == <<widget, mounted, hidden, timers, ref, made, wasPaused>>

PollInit ==
  /\ widget \in {"hook", "monitor", "panel"}
  /\ mounted = FALSE /\ hidden \in BOOLEAN
  /\ timers = {} /\ ref = 0 /\ made = 0 /\ wasPaused = FALSE

\* setInterval() into the ref, after what was cleared.
Restart(cleared) ==
  /\ made < MaxTimers
  /\ made' = made + 1
  /\ ref' = made + 1
  /\ timers' = (timers \ cleared) \cup {made + 1}

Mount ==
  /\ ~mounted
  /\ mounted' = TRUE /\ wasPaused' = FALSE
  /\ Restart({})
  /\ UNCHANGED <<widget, hidden>>

\* The url, the job or the device changes: clean up, and both effects again.
Retarget ==
  /\ mounted
  /\ Restart({ref})
  /\ wasPaused' = FALSE
  /\ UNCHANGED <<widget, mounted, hidden>>

Unmount ==
  /\ mounted
  /\ mounted' = FALSE
  /\ timers' = timers \ {ref}
  /\ UNCHANGED <<widget, hidden, ref, made, wasPaused>>

\* The tab is hidden; the panel does not listen.
Hide ==
  /\ ~hidden
  /\ hidden' = TRUE
  /\ IF mounted /\ widget # "panel"
     THEN timers' = timers \ {ref} /\ wasPaused' = TRUE
     ELSE UNCHANGED <<timers, wasPaused>>
  /\ UNCHANGED <<widget, mounted, ref, made>>

\* The tab is shown again: the hook restarts whatever the ref holds, the
\* monitor only where this run of its effect has seen the pause begin.
Show ==
  /\ hidden
  /\ hidden' = FALSE
  /\ \/ mounted /\ widget = "hook" /\ Restart({ref})
     \/ mounted /\ widget = "monitor" /\ wasPaused /\ Restart({})
     \/ /\ ~(mounted /\ widget = "hook") /\ ~(mounted /\ widget = "monitor" /\ wasPaused)
        /\ UNCHANGED <<timers, ref, made>>
  /\ wasPaused' = FALSE
  /\ UNCHANGED <<widget, mounted>>

PollNext == Mount \/ Retarget \/ Unmount \/ Hide \/ Show

PollSpec == PollInit /\ [][PollNext]_pollVars

-----------------------------------------------------------------------------

\* One timer runs while the component is shown, at most one while the tab is
\* hidden, and none is left behind when it is gone, in whatever order mounts,
\* changes of the target and of the tab come.
OneTimer ==
  /\ timers \subseteq {ref}
  /\ mounted /\ ~hidden => timers # {}
  /\ ~mounted => timers = {}
=============================================================================

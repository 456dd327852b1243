----------------------------- MODULE MCServices -----------------------------
EXTENDS FileStore, WsRooms, PubSub, RateLimit, Notifications, AdminSession,
        AdminPages, Diagnostics, TLC

CONSTANTS tab1, tab2, c1, c2, up1, up2, h1, h2, pub1, pub2, ip

TwoTabs == {tab1, tab2}
TwoUploads == {up1, up2}
TwoHandlers == {h1, h2}
TwoPublishers == {pub1, pub2}
OneKey == {ip}
OneTenant == {"acme"}
AllTypes == {"png", "docx", "xlsx"}
SomeFiles ==
  {[content |-> 1, magic |-> "zip", suffix |-> "docx", large |-> FALSE],
   [content |-> 1, magic |-> "zip", suffix |-> "none", large |-> FALSE],
   [content |-> 2, magic |-> "unknown", suffix |-> "docx", large |-> FALSE],
   [content |-> 3, magic |-> "png", suffix |-> "none", large |-> TRUE]}
TwoClients == {c1, c2}
TwoTenants == c1 :> "acme" @@ c2 :> "umbrella"
TwoTopics == {"orders", "users"}
Named == {"create", "delete", "purge"}
ThreeProviders == {"email", "in-app", "hook"}
BothRecipients == {[email |-> TRUE], [email |-> FALSE]}
TwoStatements == {"a", "b"}

VARIABLE part

Idle(p, vars) == IF part = p THEN TRUE ELSE UNCHANGED vars

ServicesInit ==
  /\ part \in {"files", "rooms", "pubsub", "rates", "notify", "session", "polling", "pages", "health", "queries"}
  /\ FileInit /\ WsInit /\ PubSubInit /\ RateInit /\ NotifyInit
  /\ UiInit /\ PollInit /\ PagesInit /\ DiagnosticsInit
  \* The inputs of a part that stands still do not matter.
  /\ part # "polling" => widget = "hook" /\ ~hidden
  /\ part # "pages" => kind = "users" /\ \A i \in Ids : rows[i] = "absent"

ServicesNext ==
  /\ UNCHANGED part
  /\ \/ part = "files" /\ FileNext
     \/ part = "rooms" /\ WsNext
     \/ part = "pubsub" /\ PubSubNext
     \/ part = "rates" /\ RateNext
     \/ part = "notify" /\ NotifyNext
     \/ part = "session" /\ UiNext
     \/ part = "polling" /\ PollNext
     \/ part = "pages" /\ PagesNext
     \/ part = "health" /\ HealthNext
     \/ part = "queries" /\ QueryNext
  /\ Idle("files", fileVars) /\ Idle("rooms", wsVars) /\ Idle("pubsub", pubsubVars)
  /\ Idle("rates", rateVars) /\ Idle("notify", notifyVars)
  /\ Idle("session", uiVars) /\ Idle("polling", pollVars) /\ Idle("pages", pageVars)
  /\ IF part \in {"health", "queries"} THEN TRUE ELSE UNCHANGED diagnosticsVars

servicesVars == <<part, fileVars, wsVars, pubsubVars, rateVars, notifyVars,
                  uiVars, pollVars, pageVars, diagnosticsVars>>
ServicesSpec == ServicesInit /\ [][ServicesNext]_servicesVars

\* Whatever is handed out to several takers: a message to a room, a message to
\* a channel and a notification each reach those it is for, and the sender
\* learns what became of it.
Deliveries == SentToThoseWhoAsked /\ PublishWaitsForAll /\ FanoutIsTrue

\* Whatever goes by the clock: windows of requests, probes with a limit, the
\* time that a statement took, and the timer of a component that polls.
KeepsTime == LimitsHold /\ ProbesEndInTime /\ WarningsAreTrue /\ OneTimer
=============================================================================

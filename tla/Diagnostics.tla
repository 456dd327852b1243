---------------------------- MODULE Diagnostics ----------------------------
(***************************************************************************)
(* What tells an operator how the process is: the probes of the two health *)
(* services (packages/health-check and packages/core) and of the plugin of *)
(* the first, and the hook of core that reports slow queries.  Time passes *)
(* in ticks; a timer that is due and a reply that is complete are served   *)
(* before the next one.                                                    *)
(***************************************************************************)
EXTENDS Naturals

CONSTANTS
  Statements,   \* queries that may run at once
  ProbeLimit,   \* PROBE_TIMEOUT_MS, in ticks
  Threshold,    \* slowQueryThresholdMs, in ticks
  MaxClock      \* bound: the clock

ASSUME DiagnosticsAssumption ==
  /\ ProbeLimit \in Nat \ {0} /\ Threshold \in Nat \ {0} /\ MaxClock \in Nat
  /\ "null" \notin Statements

Probes == {"db", "redis"}
Unasked == "unasked"   \* the probe is not part of the request, or not sent yet
Open == "open"         \* sent, and neither answered nor given up

VARIABLES
  clock,
  ask,          \* the request that is served: [service, kind, redis, since]
  probe,        \* what it knows of each probe: Unasked, Open, "up", "down", "thrown"
  replied,      \* history: per probe what came back, and when, timed out or not
  told,         \* the response to the last request
  current,      \* startTime and lastSql of slow-query.ts, one pair for all
  begun,        \* when each running statement was sent
  overlapped,   \* history: statements that ran together with another one
  ended         \* history: the last statement that came back

healthVars == <<ask, probe, replied, told>>
queryVars == <<current, begun, overlapped, ended>>
diagnosticsVars == <<clock, healthVars, queryVars>>

NoRequest == [service |-> "none"]
NoReply == [outcome |-> "none", after |-> 0]
NotRunning == MaxClock + 1
NoPair == [sql |-> "null", start |-> 0]

DiagnosticsInit ==
  /\ clock = 0
  /\ ask = NoRequest /\ probe = [p \in Probes |-> Unasked]
  /\ replied = [p \in Probes |-> NoReply] /\ told = NoRequest
  /\ current = NoPair /\ begun = [s \in Statements |-> NotRunning] /\ overlapped = {}
  /\ ended = [sql |-> "null"]

Busy == ask # NoRequest

\* health-check probes both at once, each against a timer of its own; ready asks for the
\* database alone.  The others send the probe of the database and await it.
Asked(service, kind, redis) ==
  [p \in Probes |-> IF p = "db" \/ (service = "service" /\ kind = "check" /\ redis) THEN Open ELSE Unasked]

Begin(service, kind, redis) ==
  /\ ~Busy
  /\ service = "plugin" => ~redis
  /\ ask' = [service |-> service, kind |-> kind, redis |-> redis, since |-> clock]
  /\ probe' = Asked(service, kind, redis)
  /\ replied' = [p \in Probes |-> NoReply]
  /\ UNCHANGED <<clock, told, queryVars>>

\* core pings Redis once the database has answered or refused, for /health/ready, too.
PingIsNext ==
  /\ Busy /\ ask.service = "core" /\ ask.redis
  /\ probe["db"] \in {"up", "down"} /\ probe["redis"] = Unasked

PingAfterwards ==
  /\ PingIsNext
  /\ probe' = [probe EXCEPT !["redis"] = Open]
  /\ UNCHANGED <<clock, ask, replied, told, queryVars>>

\* checkDatabase and checkRedis of health-check take any reply for a sign of life.
JudgeService(outcome) == IF outcome = "error" THEN "down" ELSE "up"

\* core asks for PONG.
JudgeCore(outcome) == IF outcome = "ok" THEN "up" ELSE "down"

\* The plugin passes on what its dbCheck() says, and does not catch what it throws.
JudgePlugin(outcome) == IF outcome = "error" THEN "thrown" ELSE JudgeCore(outcome)

Judge(service, outcome) ==
  CASE service = "service" -> JudgeService(outcome)
    [] service = "core" -> JudgeCore(outcome)
    [] service = "plugin" -> JudgePlugin(outcome)

\* The database or Redis: a probe ends well, with a reply that says no, or with an error; or
\* never.  A reply to a probe that was given up is not looked at.
Settle(p, outcome) ==
  /\ Busy /\ probe[p] # Unasked /\ replied[p] = NoReply
  /\ outcome = "no" => p = "redis" \/ ask.service = "plugin"
  /\ replied' = [replied EXCEPT ![p] = [outcome |-> outcome, after |-> clock - ask.since]]
  /\ probe' = IF probe[p] = Open THEN [probe EXCEPT ![p] = Judge(ask.service, outcome)] ELSE probe
  /\ UNCHANGED <<clock, ask, told, queryVars>>

Due(p) == Busy /\ ask.service = "service" /\ probe[p] = Open /\ clock >= ask.since + ProbeLimit

\* withTimeout: the timer rejects, which counts as down.
TimeOut(p) ==
  /\ Due(p)
  /\ probe' = [probe EXCEPT ![p] = "down"]
  /\ UNCHANGED <<clock, ask, replied, told, queryVars>>

Complete ==
  /\ Busy /\ Open \notin {probe[p] : p \in Probes}
  /\ ask.service = "core" /\ ask.redis => probe["redis"] # Unasked

\* A check is answered with 200 whatever it found; ready with 503 if the database is down.
Code ==
  CASE probe["db"] = "thrown" -> 500
    [] ask.kind = "ready" /\ probe["db"] = "down" -> 503
    [] OTHER -> 200

Report ==
  /\ Complete
  /\ told' = [service |-> ask.service, kind |-> ask.kind, took |-> clock - ask.since,
              code |-> Code, probe |-> probe, replied |-> replied]
  /\ ask' = NoRequest
  /\ probe' = [p \in Probes |-> Unasked]
  /\ replied' = [p \in Probes |-> NoReply]
  /\ UNCHANGED <<clock, queryVars>>

Urgent == Complete \/ PingIsNext \/ \E p \in Probes : Due(p)

Elapse == clock < MaxClock /\ clock' = clock + 1

HealthNext ==
  \/ \E kind \in {"check", "ready"}, redis \in BOOLEAN, service \in {"service", "core", "plugin"} :
       Begin(service, kind, redis)
  \/ PingAfterwards \/ Report
  \/ \E p \in Probes : TimeOut(p) \/ \E o \in {"ok", "no", "error"} : Settle(p, o)
  \/ (~Urgent /\ Elapse /\ UNCHANGED <<healthVars, queryVars>>)

-----------------------------------------------------------------------------
(* Slow queries.                                                           *)

Running == {s \in Statements : begun[s] # NotRunning}

\* onQuery: one start time for the module, that of the statement sent last.
OnQuery(s) ==
  /\ s \notin Running
  /\ begun' = [begun EXCEPT ![s] = clock]
  /\ overlapped' = IF Running = {} THEN overlapped \ {s} ELSE overlapped \cup Running \cup {s}
  /\ current' = [sql |-> s, start |-> clock]
  /\ UNCHANGED <<clock, ended, healthVars>>

Warning ==
  IF current # NoPair /\ clock - current.start >= Threshold
  THEN [sql |-> current.sql, duration |-> clock - current.start,
        truly |-> IF current.sql \in Running THEN clock - begun[current.sql] ELSE 0]
  ELSE NoPair

\* onResult, of whichever statement: measured from the start that is kept, which it clears.
OnResult(s) ==
  /\ s \in Running
  /\ ended' = [sql |-> s, took |-> clock - begun[s], alone |-> s \notin overlapped, warning |-> Warning]
  /\ current' = NoPair
  /\ begun' = [begun EXCEPT ![s] = NotRunning]
  /\ overlapped' = overlapped \ {s}
  /\ UNCHANGED <<clock, healthVars>>

QueryNext ==
  \/ \E s \in Statements : OnQuery(s) \/ OnResult(s)
  \/ (Elapse /\ UNCHANGED <<healthVars, queryVars>>)

-----------------------------------------------------------------------------

\* HealthCheckService answers within the limit of one probe, though both hang, and a
\* probe is called up only if its reply came in time, down only if it failed or did not come.
\* Readiness goes by the database, whatever Redis does.
ProbesEndInTime ==
  /\ Busy /\ ask.service = "service" => clock <= ask.since + ProbeLimit
  /\ told # NoRequest =>
       /\ \A p \in Probes :
            /\ told.probe[p] = "up" => /\ told.replied[p].outcome \in {"ok", "no"}
                                         /\ told.service = "service" => told.replied[p].after <= ProbeLimit
            /\ told.probe[p] = "down" => \/ told.replied[p].outcome \in {"error", "no"}
                                           \/ (told.service = "service" /\ told.took >= ProbeLimit)
       /\ told.kind = "ready" => (told.code = 200 <=> told.probe["db"] = "up")

\* However queries overlap, the one a warning names has been running as long as the warning
\* says; and one that ran alone is reported exactly if it took the threshold.  (Of those that
\* overlap, slow ones may pass unreported: the start is that of the last one sent, and the
\* first result clears it.)
WarningsAreTrue ==
  ended.sql # "null" =>
    /\ ended.warning # NoPair => ended.warning.duration = ended.warning.truly
    /\ ended.alone => (ended.warning # NoPair <=> ended.took >= Threshold)
=============================================================================

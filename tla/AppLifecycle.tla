---------------------------- MODULE AppLifecycle ----------------------------
(***************************************************************************)
(* One run of the server process: main.ts calls start() of CoreApp once,   *)
(* and a signal calls stop(), at any moment.  start() builds the server    *)
(* piece by piece and lets it listen; stop() takes it down meanwhile.      *)
(***************************************************************************)
EXTENDS Sequences

VARIABLES
  field,       \* CoreApp._fastify is set
  built,       \* what has been attached to the server so far
  net,         \* the server: none, new, listening or closed
  sql,         \* the connection to the database: none, open or ended
  worker,      \* the worker of CronManager: none, open or closed
  starter,     \* the await of bootstrap() or start() that main is in
  stopper,     \* the await of stop() that the signal handler is in
  exit         \* the code the process has ended with

appVars == <<field, built, net, sql, worker, starter, stopper, exit>>
Alive == exit = "none"

AppInit ==
  /\ field = FALSE /\ built = <<>> /\ net = "none" /\ sql = "none" /\ worker = "none"
  /\ starter = "main" /\ stopper = "none" /\ exit = "none"

\* bootstrap() up to its first await: the connection and an empty server.
BeginStart ==
  /\ Alive /\ starter = "main"
  /\ field' = TRUE /\ net' = "new" /\ sql' = "open"
  /\ starter' = "seed"
  /\ UNCHANGED <<built, worker, stopper, exit>>

\* The seed and the registration of plugin-core report their errors to nobody.
Swallow(step, after) ==
  /\ Alive /\ starter = step
  /\ starter' = after
  /\ UNCHANGED <<field, built, net, sql, worker, stopper, exit>>

\* main: a rejected start() ends the process.
Reject == exit' = "1" /\ UNCHANGED <<field, built, net, sql, worker, starter, stopper>>

\* The cache of tenants, for which the database has to answer.
LoadCache ==
  /\ Alive /\ starter = "tenants"
  /\ \/ Reject
     \/ /\ sql = "open"
        /\ built' = Append(built, "tenants") /\ starter' = "cors"
        /\ UNCHANGED <<field, net, sql, worker, stopper, exit>>

\* Hooks and routes, in one go once cors is registered; a server that has been
\* closed may refuse them.
Attach ==
  /\ Alive /\ starter = "cors"
  /\ \/ net = "closed" /\ Reject
     \/ /\ built' = built \o <<"cors", "requestId", "rateLimit", "tenant", "errors",
                                 "health", "api">>
          /\ starter' = "listen"
          /\ UNCHANGED <<field, net, sql, worker, stopper, exit>>

\* start(): the field may be null again by now; a port may be taken; and where
\* listen() succeeds the worker of the cron manager is created at once.
Listen ==
  /\ Alive /\ starter = "listen"
  /\ \/ Reject
     \/ /\ field /\ net = "new"
        /\ net' = "listening" /\ worker' = "open" /\ starter' = "done"
        /\ UNCHANGED <<field, built, sql, stopper, exit>>

-----------------------------------------------------------------------------

\* SIGTERM or SIGINT; a second one finds shuttingDown set.
Signal ==
  /\ Alive /\ stopper = "none" /\ starter # "main"
  /\ stopper' = "close"
  /\ UNCHANGED <<field, built, net, sql, worker, starter, exit>>

\* Mutant of CloseServer: only a server that listens is closed.
CloseListening ==
  /\ stopper = "close"
  /\ stopper' = "cron"
  /\ IF net = "listening" THEN field' = FALSE /\ net' = "closed" ELSE UNCHANGED <<field, net>>
  /\ UNCHANGED <<built, sql, worker, starter, exit>>

CloseServer ==
  /\ stopper = "close"
  /\ field' = FALSE /\ net' = "closed" /\ stopper' = "cron"
  /\ UNCHANGED <<built, sql, worker, starter, exit>>

StopCron ==
  /\ stopper = "cron"
  /\ worker' = IF worker = "open" THEN "closed" ELSE worker
  /\ stopper' = "sql"
  /\ UNCHANGED <<field, built, net, sql, starter, exit>>

EndSql ==
  /\ stopper = "sql"
  /\ sql' = "ended" /\ stopper' = "done"
  /\ UNCHANGED <<field, built, net, worker, starter, exit>>

\* main: the process ends when stop() has, or has failed somewhere.
StopFails ==
  /\ stopper \in {"close", "cron", "sql"}
  /\ exit' = "0 after an error"
  /\ UNCHANGED <<field, built, net, sql, worker, starter, stopper>>

ExitZero ==
  /\ stopper = "done"
  /\ exit' = "0"
  /\ UNCHANGED <<field, built, net, sql, worker, starter, stopper>>

Stop == Alive /\ (CloseServer \/ StopCron \/ EndSql \/ ExitZero \/ StopFails)

AppNext ==
  \/ BeginStart \/ Swallow("seed", "core") \/ Swallow("core", "tenants")
  \/ LoadCache \/ Attach \/ Listen \/ Signal \/ Stop

AppSpec == AppInit /\ [][AppNext]_appVars

-----------------------------------------------------------------------------

\* A server that takes requests has its tenants, its hooks and its routes, all
\* of them and in their order, though the field that bootstrap() and stop() go
\* by is set before the first of them.
ServesWhole ==
  net = "listening" =>
    built = <<"tenants", "cors", "requestId", "rateLimit", "tenant", "errors", "health", "api">>

\* A process that ends after a signal has neither a listening server nor an
\* open worker, wherever in its start the signal met it.
QuietExit == exit = "0" => net # "listening" /\ worker # "open"

\* A server is there whole, or not at all.
WholeOrGone == ServesWhole /\ QuietExit

=============================================================================

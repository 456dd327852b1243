---------------------------- MODULE CronManager ----------------------------
(***************************************************************************)
(* The cron manager of packages/cron (cron-manager.ts) and the BullMQ      *)
(* queue in Redis behind it.                                               *)
(*                                                                         *)
(* The manager keeps a map of its jobs, and Redis keeps a scheduler for    *)
(* each of them; add() and remove() change the one at once and the other   *)
(* with a command whose reply they await.  start() creates a worker, which *)
(* takes the jobs that fall due one at a time, and looks each one up in    *)
(* the map.  Calls interleave at each await.                               *)
(***************************************************************************)
EXTENDS Naturals, Sequences, FiniteSets

CONSTANTS
  Names,       \* names of jobs
  Configs,     \* configurations (schedule and handler)
  None,        \* not a configuration
  Calls,       \* add() and remove() calls that may be in flight
  Lifecycles,  \* start() and stop() calls that may be in flight
  MaxWorkers,  \* bound: workers ever created
  MaxTries,    \* attempts at a job (clampRetries gives 1 to 10)
  MaxFires,    \* bound: jobs that fall due
  MaxFaults    \* bound: commands and connections that fail

ASSUME NoneAssumption == None \notin Configs
ASSUME CronBounds ==
  /\ MaxWorkers \in Nat /\ MaxFires \in Nat /\ MaxFaults \in Nat
  /\ MaxTries \in Nat \ {0}

VARIABLES
  jobs,        \* CronManager.jobs: name -> configuration
  schedulers,  \* job schedulers in Redis: name -> configuration
  call,        \* the add() and remove() calls in flight
  wire,        \* the calls whose command Redis has not executed, in order
  queueOpen,   \* CronManager.queue has not been closed
  isStarted,   \* CronManager.isStarted
  worker,      \* CronManager.worker, 0 for null
  workers,     \* the workers created: "open", "closing" or "closed"
  life,        \* the start() and stop() calls in flight
  waiting,     \* jobs in Redis that are due, in order
  running,     \* the job each worker is running
  fires,       \* jobs that fell due so far
  faults,      \* failures so far
  stale,       \* history: calls of remove() whose entry is gone from the map
  lost,        \* history: names whose entry such a call has taken
  failed,      \* history: names with a failed command since they were added
  loose,       \* history: workers that this.worker let go of
  crossed      \* history: a start() failed or met another call, since the last stop() alone

jobVars == <<jobs, schedulers, call, wire, stale, lost, failed>>
lifeVars == <<queueOpen, isStarted, worker, workers, life, loose, crossed>>
runVars == <<waiting, running, fires>>
cronVars == <<jobVars, lifeVars, runVars, faults>>

Idle == [step |-> "idle"]
Made == DOMAIN workers

CronInit ==
  /\ jobs = [n \in Names |-> None]
  /\ schedulers = [n \in Names |-> None]
  /\ call = [k \in Calls |-> Idle]
  /\ wire = <<>>
  /\ queueOpen = TRUE
  /\ isStarted = FALSE
  /\ worker = 0
  /\ workers = <<>>
  /\ life = [l \in Lifecycles |-> Idle]
  /\ waiting = <<>>
  /\ running = <<>>
  /\ fires = 0
  /\ faults = 0
  /\ stale = {} /\ lost = {} /\ failed = {} /\ loose = {} /\ crossed = FALSE

-----------------------------------------------------------------------------
(* add() and remove().                                                     *)

InFlight(n) == {k \in Calls : call[k] # Idle /\ call[k].name = n}
Removing(n) == {k \in InFlight(n) : call[k].op = "remove"}

Send(k, command) ==
  /\ call' = [call EXCEPT ![k] = command]
  /\ wire' = Append(wire, k)

\* add: a name that the map has is a conflict; otherwise the job is in the map
\* before Redis knows of it.  What is being removed is not this entry.
AddJob(k, n, c) ==
  /\ call[k] = Idle
  /\ jobs[n] = None
  /\ jobs' = [jobs EXCEPT ![n] = c]
  /\ Send(k, [step |-> "sent", op |-> "add", name |-> n, config |-> c])
  /\ stale' = stale \cup Removing(n)
  /\ lost' = lost \ {n} /\ failed' = failed \ {n}
  /\ UNCHANGED <<schedulers, lifeVars, runVars, faults>>

\* remove: nothing to do for a name that the map does not have; otherwise the
\* job stays in the map until Redis has replied.
RemoveJob(k, n) ==
  /\ call[k] = Idle
  /\ jobs[n] # None
  /\ Send(k, [step |-> "sent", op |-> "remove", name |-> n, config |-> None])
  /\ UNCHANGED <<jobs, schedulers, stale, lost, failed, lifeVars, runVars, faults>>

Execute(k) == schedulers' = [schedulers EXCEPT ![call[k].name] = call[k].config]

\* Redis executes the next command and replies.
Reply ==
  /\ wire # <<>> /\ queueOpen
  /\ LET k == Head(wire)
     IN  Execute(k) /\ call' = [call EXCEPT ![k].step = "replied"]
  /\ wire' = Tail(wire)
  /\ UNCHANGED <<jobs, stale, lost, failed, lifeVars, runVars, faults>>

\* The command fails, with or without effect, or the queue is closed: the call
\* throws, and the map stays as it is.
CommandFails ==
  /\ wire # <<>>
  /\ IF queueOpen
     THEN /\ faults < MaxFaults /\ faults' = faults + 1
          /\ Execute(Head(wire)) \/ UNCHANGED schedulers
     ELSE UNCHANGED <<schedulers, faults>>
  /\ call' = [call EXCEPT ![Head(wire)] = Idle]
  /\ wire' = Tail(wire)
  /\ failed' = failed \cup {call[Head(wire)].name}
  /\ stale' = stale \ {Head(wire)}
  /\ UNCHANGED <<jobs, lost, lifeVars, runVars>>

\* The rest of add() and remove() after the reply: a removal deletes the entry
\* of its name, the one it was called for or a later one.
Replied(k) ==
  /\ call[k].step = "replied"
  /\ jobs' = IF call[k].op = "remove" THEN [jobs EXCEPT ![call[k].name] = None] ELSE jobs
  /\ call' = [call EXCEPT ![k] = Idle]
  /\ stale' = stale \ {k}
  /\ lost' = IF k \in stale /\ jobs[call[k].name] # None THEN lost \cup {call[k].name} ELSE lost
  /\ UNCHANGED <<schedulers, wire, failed, lifeVars, runVars, faults>>

-----------------------------------------------------------------------------
(* start() and stop().                                                     *)

ByItself(l) == \A m \in Lifecycles \ {l} : life[m] = Idle

\* start: unless the manager is started, a new worker.
Start(l) ==
  /\ life[l] = Idle
  /\ ~isStarted
  /\ Len(workers) < MaxWorkers
  /\ workers' = Append(workers, "open")
  /\ running' = Append(running, Idle)
  /\ worker' = Len(workers) + 1
  /\ loose' = loose \cup ({worker} \ {0})
  /\ crossed' = (crossed \/ ~ByItself(l))
  /\ life' = [life EXCEPT ![l] = [step |-> "ready"]]
  /\ UNCHANGED <<jobVars, queueOpen, isStarted, waiting, fires, faults>>

\* The worker has its connection.
Started(l) ==
  /\ life[l].step = "ready"
  /\ isStarted' = TRUE
  /\ life' = [life EXCEPT ![l] = Idle]
  /\ UNCHANGED <<jobVars, queueOpen, worker, workers, loose, crossed, runVars, faults>>

\* Connecting fails and start() throws; the worker keeps trying.
StartFails(l) ==
  /\ life[l].step = "ready"
  /\ faults < MaxFaults
  /\ faults' = faults + 1
  /\ life' = [life EXCEPT ![l] = Idle]
  /\ crossed' = TRUE
  /\ UNCHANGED <<jobVars, queueOpen, isStarted, worker, workers, loose, runVars>>

\* stop: the worker, if any, takes no more jobs.
Stop(l) ==
  /\ life[l] = Idle
  /\ IF worker # 0
     THEN /\ workers' = [workers EXCEPT ![worker] = IF @ = "open" THEN "closing" ELSE @]
          /\ life' = [life EXCEPT ![l] = [step |-> "closing", worker |-> worker]]
     ELSE /\ life' = [life EXCEPT ![l] = [step |-> "queue"]]
          /\ UNCHANGED workers
  /\ crossed' = (~ByItself(l) /\ (crossed \/ \E m \in Lifecycles : life[m].step = "ready"))
  /\ UNCHANGED <<jobVars, queueOpen, isStarted, worker, loose, runVars, faults>>

\* Mutant of WorkerClosed: stop() does not wait for the job that runs.
WorkerClosedAtOnce(l) ==
  /\ life[l].step = "closing"
  /\ workers' = [workers EXCEPT ![life[l].worker] = "closed"]
  /\ worker' = 0
  /\ loose' = loose \cup ({worker} \ {0, life[l].worker})
  /\ life' = [life EXCEPT ![l] = [step |-> "queue"]]
  /\ UNCHANGED <<jobVars, queueOpen, isStarted, crossed, runVars, faults>>

\* The worker closes when its job is done.
WorkerClosed(l) ==
  /\ life[l].step = "closing"
  /\ running[life[l].worker] = Idle
  /\ workers' = [workers EXCEPT ![life[l].worker] = "closed"]
  /\ worker' = 0
  /\ loose' = loose \cup ({worker} \ {0, life[l].worker})
  /\ life' = [life EXCEPT ![l] = [step |-> "queue"]]
  /\ UNCHANGED <<jobVars, queueOpen, isStarted, crossed, runVars, faults>>

\* The queue is closed and stop() returns.
Stopped(l) ==
  /\ life[l].step = "queue"
  /\ queueOpen' = FALSE
  /\ isStarted' = FALSE
  /\ life' = [life EXCEPT ![l] = Idle]
  /\ UNCHANGED <<jobVars, worker, workers, loose, crossed, runVars, faults>>

-----------------------------------------------------------------------------
(* Jobs that fall due.                                                     *)

\* A scheduler in Redis makes a job that is due.
Fire(n) ==
  /\ schedulers[n] # None
  /\ fires < MaxFires
  /\ fires' = fires + 1
  /\ waiting' = Append(waiting, [name |-> n, tries |-> 0])
  /\ UNCHANGED <<jobVars, lifeVars, running, faults>>

\* A worker takes the next job and calls the handler that the map has for it;
\* for a job that the map does not have it only logs a warning.
Take(w) ==
  /\ workers[w] = "open" /\ running[w] = Idle
  /\ waiting # <<>>
  /\ LET job == Head(waiting)
     IN  running' = IF jobs[job.name] = None THEN running
                    ELSE [running EXCEPT ![w] = [step |-> "handler", name |-> job.name,
                                                 tries |-> job.tries + 1]]
  /\ waiting' = Tail(waiting)
  /\ UNCHANGED <<jobVars, lifeVars, fires, faults>>

HandlerReturns(w) ==
  /\ running[w] # Idle
  /\ running' = [running EXCEPT ![w] = Idle]
  /\ UNCHANGED <<jobVars, lifeVars, waiting, fires, faults>>

\* The handler throws: after a delay the job is due again, unless that was
\* its last attempt.
HandlerThrows(w) ==
  /\ running[w] # Idle
  /\ waiting' = IF running[w].tries < MaxTries
                THEN Append(waiting, [name |-> running[w].name, tries |-> running[w].tries])
                ELSE waiting
  /\ running' = [running EXCEPT ![w] = Idle]
  /\ UNCHANGED <<jobVars, lifeVars, fires, faults>>

-----------------------------------------------------------------------------
Manage ==
  \/ \E k \in Calls, n \in Names, c \in Configs : AddJob(k, n, c)
  \/ \E k \in Calls, n \in Names : RemoveJob(k, n)
  \/ \E k \in Calls : Replied(k)
  \/ Reply \/ CommandFails

Control ==
  \E l \in Lifecycles :
    Start(l) \/ Started(l) \/ StartFails(l) \/ Stop(l) \/ WorkerClosed(l) \/ Stopped(l)

HandlerEnds(w) == HandlerReturns(w) \/ HandlerThrows(w)

Work ==
  \/ \E n \in Names : Fire(n)
  \/ \E w \in Made : Take(w) \/ HandlerEnds(w)

CronNext == Manage \/ Control \/ Work

CronSpec == CronInit /\ [][CronNext]_cronVars

-----------------------------------------------------------------------------
(* Properties.                                                             *)

\* Type correctness of the manager, its calls and the queue.
CronTypeOK ==
  /\ jobs \in [Names -> Configs \cup {None}]
  /\ schedulers \in [Names -> Configs \cup {None}]
  /\ call \in [Calls -> {Idle} \cup [step : {"sent", "replied"}, op : {"add", "remove"},
                                     name : Names, config : Configs \cup {None}]]
  /\ wire \in Seq(Calls)
  /\ \A k \in Calls : (\E i \in DOMAIN wire : wire[i] = k) <=> call[k].step = "sent"
  /\ queueOpen \in BOOLEAN /\ isStarted \in BOOLEAN
  /\ worker \in {0} \cup Made
  /\ workers \in Seq({"open", "closing", "closed"}) /\ Len(workers) <= MaxWorkers
  /\ life \in [Lifecycles -> {Idle} \cup [step : {"ready", "queue"}]
                              \cup [step : {"closing"}, worker : Made]]
  /\ \A i \in DOMAIN waiting : waiting[i] \in [name : Names, tries : 0..(MaxTries - 1)]
  /\ DOMAIN running = Made
  /\ \A w \in Made : running[w] = Idle
       \/ running[w] \in [step : {"handler"}, name : Names, tries : 1..MaxTries]

\* The test at cron-manager.test.ts:216 says that list() returns all jobs that
\* are registered.  Of a name with no call in flight: a job that the map has is
\* scheduled in Redis as the map says, unless a command about it has failed
\* since it was added; and a job that the map has not is not scheduled, unless
\* a remove() called before it was added has taken its entry.
ListedIsScheduled ==
  \A n \in Names : InFlight(n) = {} =>
    /\ jobs[n] # None /\ n \notin failed => schedulers[n] = jobs[n]
    /\ jobs[n] = None /\ n \notin lost => schedulers[n] = None

\* docs/archive/cron-sdd.md:265 promises one worker and serial processing.
\* Handlers run one at a time over restarts, failures and calls that overlap,
\* those of the workers aside that the manager has let go of.
Serial == Cardinality({w \in Made \ loose : running[w] # Idle}) <= 1

\* Between the calls of start() and stop(), if none of them crossed: a manager
\* that is started has one worker that takes jobs, the one that stop() will
\* close, and a manager that is not runs nothing.
StoppedIsSilent ==
  ~crossed /\ (\A l \in Lifecycles : life[l] = Idle) =>
    /\ isStarted <=> worker # 0
    /\ {w \in Made \ loose : workers[w] = "open"} = IF isStarted THEN {worker} ELSE {}
    /\ ~isStarted => \A w \in Made \ loose : running[w] = Idle

\* One worker, or none, besides those that the manager let go of; and it lets go
\* of one only when a start() fails or meets another call of start() or stop().
\* A stop() by itself puts all in order again.
OneWorkerRuns ==
  /\ [](Serial /\ StoppedIsSilent)
  /\ [][loose' = loose \/ crossed']_cronVars

Due(n) == \E i \in DOMAIN waiting : waiting[i].name = n
Accepting == worker # 0 /\ workers[worker] = "open"

\* A job that is due is taken, unless the manager stops, however often other
\* jobs fail: docs/archive/cron-sdd.md:188 says that they are not blocked.
JobsAreTaken == \A n \in Names : Due(n) ~> (~Accepting \/ ~Due(n))
=============================================================================

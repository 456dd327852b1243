---------------------------- MODULE BullScheduler ----------------------------
(***************************************************************************)
(* BullScheduler of packages/cron (scheduler.ts) over the repeatable jobs  *)
(* of BullMQ in Redis, as registerCronPlugin() uses it: jobs are declared, *)
(* the scheduler is started once, plugins add and remove jobs meanwhile,   *)
(* and it is stopped when the server closes.  Repeatable jobs have a name  *)
(* and a pattern, and outlive the process.                                 *)
(***************************************************************************)
EXTENDS Naturals, Sequences, FiniteSets, SequencesExt

CONSTANTS
  BullNames,     \* names of jobs
  BullPatterns,  \* their schedules
  NoJob,
  BullCalls,     \* add() and remove() calls that may be under way
  MaxCommands    \* bound: commands ever sent to Redis

ASSUME BullNamesAssumption == IsFiniteSet(BullNames)

VARIABLES
  bullJobs,      \* BullScheduler.jobs; handlers has the same names
  repeats,       \* repeatable jobs in Redis: <<name, pattern>>
  bullCall,      \* per call: the job it is about, and whether it removes it
  toRedis,       \* commands that Redis has not executed, in order
  stage,         \* new, starting, running, failed or stopped
  pending,       \* start(): jobs of its copy that are still to be added
  commands,      \* commands sent so far
  refused        \* history: names whose command Redis did not execute

bullVars == <<bullJobs, repeats, bullCall, toRedis, stage, pending, commands, refused>>

FreeCall == [op |-> "none"]

\* Mutant of QueueThere: the flag that start() sets at its end.
QueueThereStarted == stage = "running"

QueueThere == stage \in {"starting", "running", "failed"}

BullInit ==
  /\ bullJobs = [n \in BullNames |-> NoJob]
  /\ repeats \in SUBSET {<<n, CHOOSE p \in BullPatterns : TRUE>> : n \in BullNames}
  /\ bullCall = [k \in BullCalls |-> FreeCall]
  /\ toRedis = <<>> /\ stage = "new" /\ pending = <<>>
  /\ commands = 0 /\ refused = {}

BullSends(by, op, n, p) ==
  /\ commands < MaxCommands
  /\ commands' = commands + 1
  /\ toRedis' = Append(toRedis, [by |-> by, op |-> op, name |-> n, pattern |-> p])

\* add(): the map at once; Redis, if there is a queue by now.
BullAdd(k, n, p) ==
  /\ bullCall[k] = FreeCall
  /\ bullJobs' = [bullJobs EXCEPT ![n] = p]
  /\ IF QueueThere
     THEN BullSends(k, "add", n, p) /\ bullCall' = [bullCall EXCEPT ![k] = [op |-> "add", name |-> n]]
     ELSE UNCHANGED <<toRedis, commands, bullCall>>
  /\ UNCHANGED <<repeats, stage, pending, refused>>

Forget(n) == bullJobs' = [bullJobs EXCEPT ![n] = NoJob]

\* remove(): Redis, by the pattern in the map, and then the map.  Without an
\* entry the pattern is one that no job has.
BullRemove(k, n) ==
  /\ bullCall[k] = FreeCall
  /\ IF QueueThere
     THEN /\ BullSends(k, "remove", n, bullJobs[n])
          /\ bullCall' = [bullCall EXCEPT ![k] = [op |-> "remove", name |-> n]]
          /\ UNCHANGED bullJobs
     ELSE Forget(n) /\ UNCHANGED <<toRedis, commands, bullCall>>
  /\ UNCHANGED <<repeats, stage, pending, refused>>

\* start(): a queue, and a copy of the map, added one by one.
BullStart ==
  /\ stage = "new"
  /\ stage' = "starting"
  /\ pending' = SetToSeq({[name |-> n, pattern |-> bullJobs[n]] :
                            n \in {m \in BullNames : bullJobs[m] # NoJob}})
  /\ UNCHANGED <<bullJobs, repeats, bullCall, toRedis, commands, refused>>

Awaits(by) == \E i \in DOMAIN toRedis : toRedis[i].by = by

StartNext ==
  /\ stage = "starting" /\ ~Awaits("start")
  /\ \/ /\ pending # <<>>
        /\ BullSends("start", "add", Head(pending).name, Head(pending).pattern)
        /\ pending' = Tail(pending)
        /\ UNCHANGED stage
     \/ pending = <<>> /\ stage' = "running" /\ UNCHANGED <<toRedis, commands, pending>>
  /\ UNCHANGED <<bullJobs, repeats, bullCall, refused>>

\* The reply to a call: remove() forgets the job now, start() goes on, or
\* either is rejected.
BullReplies(c, ok) ==
  /\ bullCall' = IF c.by = "start" THEN bullCall ELSE [bullCall EXCEPT ![c.by] = FreeCall]
  /\ IF c.op = "remove" /\ ok THEN Forget(c.name) ELSE UNCHANGED bullJobs
  /\ stage' = IF c.by = "start" /\ ~ok THEN "failed" ELSE stage
  /\ toRedis' = Tail(toRedis)
  /\ UNCHANGED <<pending, commands>>

RedisExecutes ==
  /\ toRedis # <<>>
  /\ LET c == Head(toRedis)
     IN /\ repeats' = IF c.op = "add" THEN repeats \cup {<<c.name, c.pattern>>}
                      ELSE repeats \ {<<c.name, c.pattern>>}
        /\ BullReplies(c, TRUE)
        /\ UNCHANGED refused

RedisRefuses ==
  /\ toRedis # <<>>
  /\ refused' = refused \cup {Head(toRedis).name}
  /\ BullReplies(Head(toRedis), FALSE)
  /\ UNCHANGED repeats

\* stop(), on the close of the server: the worker and the queue.
BullStop ==
  /\ stage = "running"
  /\ stage' = "stopped"
  /\ UNCHANGED <<bullJobs, repeats, bullCall, toRedis, pending, commands, refused>>

BullNext ==
  \/ \E k \in BullCalls, n \in BullNames :
       BullRemove(k, n) \/ \E p \in BullPatterns : BullAdd(k, n, p)
  \/ BullStart \/ StartNext \/ RedisExecutes \/ RedisRefuses \/ BullStop

-----------------------------------------------------------------------------

\* While the scheduler runs and no call is under way, every job in its map is
\* in Redis under its own pattern, so that it falls due and list() names it:
\* however additions, removals and the start interleaved, unless Redis refused
\* a command about that name.
MapIsInRedis ==
  stage = "running" /\ toRedis = <<>> =>
    \A n \in BullNames \ refused : bullJobs[n] # NoJob => <<n, bullJobs[n]>> \in repeats
=============================================================================

------------------------------- MODULE MCLive -------------------------------
(***************************************************************************)
(* What has to happen in the end, in the parts of the system where someone *)
(* waits for it.  The parts share no state: `part' says which one a        *)
(* behaviour is about, and the others stand still.  Fairness is what the   *)
(* runtime guarantees: the event loop runs what is ready, the database     *)
(* replies, timers fire, and BullMQ hands out the jobs that are due.       *)
(***************************************************************************)
EXTENDS Integers, Sequences, FiniteSets, TLC

CONSTANTS
  NoOne,                   \* nobody, nothing
  s1, s2, s3,              \* servers
  i1, low, high, k1, k2,   \* an instance of a workflow, its contexts, calls
  p1, p2, l1, l2, m1,      \* plugins, loads, a method
  r1, r2, r3,              \* requests
  j1, j2, c1, w1           \* jobs, a configuration, start and stop

VARIABLES
  part,
  rows, registered, pc, next, boots, cached, crashes, bootFaults,
  state, node, context, listed, store, flowCall, ready, flowFaults,
  instances, load, importing, sequence, unloads, ran, history,
  services, rpcCall, handler, departed,
  jobs, schedulers, cronCall, wire, queueOpen, isStarted, worker, workers, life, waiting,
  running, fires, cronFaults, stale, lost, failed, loose, crossed

bootVars == <<rows, registered, pc, next, boots, cached, crashes, bootFaults>>
flowVars == <<state, node, context, listed, store, flowCall, ready, flowFaults>>
hostVars == <<instances, load, importing, sequence, unloads, ran, history>>
rpcVars == <<services, rpcCall, handler, departed>>
cronVars == <<jobs, schedulers, cronCall, wire, queueOpen, isStarted, worker, workers, life,
              waiting, running, fires, cronFaults, stale, lost, failed, loose, crossed>>

\* Three servers, the five permissions of the code, and nothing that fails.
Boot == INSTANCE Bootstrap WITH
  Procs <- {s1, s2, s3}, NPerms <- 5, MaxBoots <- 1, MaxCrashes <- 0, MaxFaults <- 0,
  NoRun <- NoOne, faults <- bootFaults

\* A workflow with a condition that sends low amounts round through a script
\* for ever, and high amounts to a parallel node with two tasks, one of which
\* has a transition that leads nowhere.  Users act on any task of the store.
FlowNodes == {"start", "check", "script", "fork", "a", "b", "end"}
FlowKind ==
  "start" :> "start" @@ "check" :> "condition" @@ "script" :> "script" @@
  "fork" :> "parallel" @@ "a" :> "task" @@ "b" :> "task" @@ "end" :> "end"
FlowOut ==
  "start" :> <<"check">> @@ "check" :> <<"script", "fork">> @@ "script" :> <<"check">> @@
  "fork" :> <<"a", "missing", "b", "end">> @@ "a" :> <<"end">> @@ "b" :> <<"missing">> @@
  "end" :> <<>>
FlowMatch ==
  low :> [n \in FlowNodes |-> NoOne] @@
  high :> [n \in FlowNodes |-> IF n = "check" THEN "fork" ELSE NoOne]

Flow == INSTANCE WorkflowEngine WITH
  Nodes <- FlowNodes, Kind <- FlowKind, Out <- FlowOut, StartNode <- "start",
  Contexts <- {low, high}, Match <- FlowMatch, NoMatch <- NoOne, Instances <- {i1},
  MaxTasks <- 4, Calls <- {k1, k2}, MaxIter <- 4, MaxFaults <- 0, Worklist <- TRUE,
  call <- flowCall, faults <- flowFaults

\* Two loads of two plugins with one hook.
Host == INSTANCE PluginHost WITH
  Plugins <- {p1, p2}, Phases <- <<"load">>, Hooks <- [p \in {p1, p2} |-> {"load"}],
  None <- NoOne, Calls <- {l1, l2}, MaxUnloads <- 1

\* Three requests of one plugin to itself, nested up to three deep.
Rpc == INSTANCE PluginRpc WITH
  Peers <- {p1}, Methods <- {m1}, Guarded <- {m1}, Friends <- {p1}, Typed <- {m1},
  Messages <- {r1, r2, r3}, call <- rpcCall

\* Two jobs whose handlers fail as often as they like, and one worker.
Cron == INSTANCE CronManager WITH
  Names <- {j1, j2}, Configs <- {c1}, None <- NoOne, Calls <- {k1},
  Lifecycles <- {w1}, MaxWorkers <- 1, MaxTries <- 2, MaxFires <- 2, MaxFaults <- 0,
  call <- cronCall, faults <- cronFaults

LiveInit ==
  /\ part \in {"boot", "flow", "host", "rpc", "cron"}
  /\ Boot!Init
  /\ Flow!FlowInit /\ (part # "flow" => context = [i \in {i1} |-> low])
  /\ Host!HostInit
  /\ Rpc!RpcInit
  /\ Cron!CronInit

LiveNext ==
  /\ UNCHANGED part
  /\ \/ /\ part = "boot" /\ Boot!Next
        /\ UNCHANGED <<flowVars, hostVars, rpcVars, cronVars>>
     \/ /\ part = "flow" /\ Flow!FlowNext
        /\ UNCHANGED <<bootVars, hostVars, rpcVars, cronVars>>
     \/ /\ part = "host" /\ Host!HostNext
        /\ UNCHANGED <<bootVars, flowVars, rpcVars, cronVars>>
     \/ /\ part = "rpc" /\ Rpc!RpcNext
        /\ UNCHANGED <<bootVars, flowVars, hostVars, cronVars>>
     \/ /\ part = "cron" /\ Cron!CronNext
        /\ UNCHANGED <<bootVars, flowVars, hostVars, rpcVars>>

liveVars == <<part, bootVars, flowVars, hostVars, rpcVars, cronVars>>

\* A part that stands still is asked nothing.  In the others:
\*  - bootstrap() is one promise chain, whose next continuation the event loop
\*    of the process runs; nothing forces a start;
\*  - the store of the workflow engine settles every promise it has given out,
\*    and the event loop runs the continuation; users need not do anything;
\*  - the timers of loads and of requests fire; imports, hooks and handlers of
\*    requests may hang;
\*  - BullMQ gives the jobs that are due to a worker that is free, and handlers
\*    of jobs are taken to end: the code sets them no limit.
LiveFairness ==
  /\ \A p \in {s1, s2, s3} : WF_bootVars(part = "boot" /\ Boot!Advance(p))
  /\ \A k \in {k1, k2} : WF_flowVars(part = "flow" /\ Flow!Continue(k))
  /\ \A c \in {l1, l2} :
       /\ WF_hostVars(part = "host" /\ Host!TimerFires(c))
       /\ WF_hostVars(part = "host" /\ \E json \in BOOLEAN : Host!DelayEnds(c, json))
  /\ \A c \in {r1, r2, r3} : WF_rpcVars(part = "rpc" /\ Rpc!Timeout(c))
  /\ \A w \in {1} :
       /\ WF_cronVars(part = "cron" /\ w \in Cron!Made /\ Cron!Take(w))
       /\ WF_cronVars(part = "cron" /\ w \in Cron!Made /\ Cron!HandlerEnds(w))

LiveSpec == LiveInit /\ [][LiveNext]_liveVars /\ LiveFairness

\* When nothing fails, the first start of any server leads to a complete seed,
\* whichever of the racing servers loses the insert of the tenant.
SeedCompletes == Boot!SeedCompletes

\* Nobody waits for ever: every call of the workflow engine ends, in a workflow
\* with a cycle and with a transition that leads nowhere; so does every load of
\* a plugin, though its import may hang, and every request between plugins,
\* though handlers wait for one another and may never end; and a job that is
\* due is taken, unless the manager stops, however often other jobs fail.
EveryWaitEnds == Flow!CallsEnd /\ Host!LoadsEnd /\ Rpc!RequestsEnd /\ Cron!JobsAreTaken
=============================================================================

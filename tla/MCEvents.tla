------------------------------ MODULE MCEvents ------------------------------
(***************************************************************************)
(* What makes code of the plugins run without a request: events (EventBus) *)
(* and jobs that fall due (CronManager, BullScheduler).  They share no     *)
(* state: `source' says which one a behaviour is about, and the others     *)
(* stand still.                                                            *)
(***************************************************************************)
EXTENDS EventBus, CronManager, BullScheduler

CONSTANTS h1, n1, n2, c1, c2, k1, k2, l1, l2

Created == <<"order", "created">>
Removed == <<"order", "removed">>
TwoSubjects == {Created, Removed}
OneSubject == {Created}
TwoPatterns == {Created, <<"order", Wildcard>>}
OneHandler == {h1}

OneName == {n1}
TwoNames == {n1, n2}
TwoConfigs == {c1, c2}
TwoCalls == {k1, k2}
TwoLifecycles == {l1, l2}

VARIABLE source

EventsInit ==
  /\ source \in {"bus", "jobs", "workers", "bull"}
  /\ Init /\ CronInit /\ BullInit /\ (source = "bull" \/ repeats = {})

EventsNext ==
  /\ UNCHANGED source
  /\ \/ source = "bus" /\ Next /\ UNCHANGED <<cronVars, bullVars>>
     \/ /\ source = "jobs" /\ CronNext /\ UNCHANGED <<vars, bullVars>>
        /\ workers' = <<>> /\ fires' = 0
     \/ /\ source = "workers" /\ CronNext /\ UNCHANGED <<vars, bullVars>>
        /\ call'[k2] = Idle /\ jobs'[n2] = None
     \/ source = "bull" /\ BullNext /\ UNCHANGED <<vars, cronVars>>

EventsSpec == EventsInit /\ [][EventsNext]_<<source, vars, cronVars, bullVars>>

\* Type correctness of the bus and of the manager.
EventsTypeOK == TypeOK /\ CronTypeOK

\* Either way of scheduling jobs: what the process lists is what Redis makes
\* fall due, once the calls are answered, but for the names that each part exempts.
SchedulesAgree == ListedIsScheduled /\ MapIsInRedis
=============================================================================

------------------------------ MODULE PluginHost ------------------------------
(***************************************************************************)
(* The plugin host of packages/plugin-framework (inline-host.ts) and the   *)
(* runner of lifecycle hooks (lifecycle.ts).                               *)
(*                                                                         *)
(* loadPlugin() looks for the plugin in the map of instances, imports its  *)
(* entry file under a time limit, waits for the delay that stands for IPC, *)
(* and puts the instance into the map; other calls run at each await.      *)
(* With the instance in hand the caller runs a sequence of lifecycle       *)
(* phases on it.                                                           *)
(***************************************************************************)
EXTENDS Naturals, Sequences

CONSTANTS
  Plugins,   \* names of plugins
  Phases,    \* the phases that callers run, in order
  Hooks,     \* plugin -> the phases that its module has a hook for
  None,      \* not a call
  Calls,     \* bound: loadPlugin() calls ever made; an instance is named by its call
  MaxUnloads \* bound: unloadPlugin() calls that succeed

ASSUME NoneAssumption == None \notin Calls
ASSUME PhasesAssumption == Phases \in Seq(STRING)
ASSUME HooksAssumption == Hooks \in [Plugins -> SUBSET {Phases[i] : i \in DOMAIN Phases}]
ASSUME BoundAssumption == MaxUnloads \in Nat

VARIABLES
  instances,  \* InlinePluginHost.#instances: plugin -> instance
  load,       \* each loadPlugin() call
  importing,  \* the calls whose import() has not settled
  sequence,   \* what each instance has run of the phases
  unloads,    \* unloadPlugin() calls so far
  ran,        \* history: the hooks each instance has run, with their outcomes
  history     \* history: loads that began or succeeded and unloads, in order

hostVars == <<instances, load, importing, sequence, ran, unloads, history>>

Idle == [at |-> "idle"]
NotRun == [at |-> "idle", next |-> 1]

HostInit ==
  /\ instances = [p \in Plugins |-> None]
  /\ load = [c \in Calls |-> Idle]
  /\ importing = {}
  /\ sequence = [c \in Calls |-> NotRun]
  /\ ran = [c \in Calls |-> <<>>]
  /\ unloads = 0
  /\ history = <<>>

-----------------------------------------------------------------------------
(* loadPlugin() and unloadPlugin().                                        *)

Settle(c, outcome) == load' = [load EXCEPT ![c].at = outcome]
Note(what, c, p) == history' = Append(history, [what |-> what, call |-> c, plugin |-> p])

\* Mutant of LoadPlugin: the name is taken before the import, and not given
\* back when that fails.
LoadPluginEarly(c, p) ==
  /\ load[c] = Idle
  /\ instances[p] = None
  /\ instances' = [instances EXCEPT ![p] = c]
  /\ load' = [load EXCEPT ![c] = [at |-> "import", plugin |-> p]]
  /\ importing' = importing \cup {c}
  /\ Note("began", c, p)
  /\ UNCHANGED <<sequence, ran, unloads>>

\* A plugin that is in the map is an error; otherwise its import begins, and
\* with it the timer.
LoadPlugin(c, p) ==
  /\ load[c] = Idle
  /\ IF instances[p] # None
     THEN /\ load' = [load EXCEPT ![c] = [at |-> "failed", plugin |-> p]]
          /\ UNCHANGED importing
     ELSE /\ load' = [load EXCEPT ![c] = [at |-> "import", plugin |-> p]]
          /\ importing' = importing \cup {c}
  /\ Note("began", c, p)
  /\ UNCHANGED <<instances, sequence, ran, unloads>>

\* import() resolves or rejects; nobody looks at it after the time limit.
ImportSettles(c, outcome) ==
  /\ c \in importing
  /\ importing' = importing \ {c}
  /\ IF load[c].at = "import"
     THEN Settle(c, IF outcome = "resolved" THEN "delay" ELSE "failed")
     ELSE UNCHANGED load
  /\ UNCHANGED <<instances, sequence, ran, unloads, history>>

\* The import takes longer than the time limit: the load fails.
TimerFires(c) ==
  /\ load[c].at = "import"
  /\ Settle(c, "failed")
  /\ UNCHANGED <<instances, importing, sequence, ran, unloads, history>>

\* The delay is over.  An export that JSON cannot hold fails the load;
\* otherwise the instance goes into the map, whatever the map has.
DelayEnds(c, serializable) ==
  /\ load[c].at = "delay"
  /\ IF serializable
     THEN /\ instances' = [instances EXCEPT ![load[c].plugin] = c]
          /\ Settle(c, "loaded")
          /\ Note("loaded", c, load[c].plugin)
     ELSE Settle(c, "failed") /\ UNCHANGED <<instances, history>>
  /\ UNCHANGED <<importing, sequence, ran, unloads>>

\* A plugin that is not in the map is an error.
UnloadPlugin(p) ==
  /\ instances[p] # None
  /\ unloads < MaxUnloads
  /\ instances' = [instances EXCEPT ![p] = None]
  /\ unloads' = unloads + 1
  /\ Note("unloaded", instances[p], p)
  /\ UNCHANGED <<load, importing, sequence, ran>>

-----------------------------------------------------------------------------
(* runLifecycleSequence(), on an instance that a load has returned.        *)

Has(c, i) == Phases[i] \in Hooks[load[c].plugin]

\* The next phase at or after i that the instance has a hook for, or the end:
\* a phase without a hook is skipped.
NextHook(c, i) ==
  LET ahead == {j \in i..Len(Phases) : Has(c, j)}
  IN  IF ahead = {} THEN Len(Phases) + 1 ELSE CHOOSE j \in ahead : \A k \in ahead : j <= k

Continue(c, i) ==
  sequence' = [sequence EXCEPT ![c] =
    LET j == NextHook(c, i)
    IN  [at |-> IF j > Len(Phases) THEN "done" ELSE "hook", next |-> j]]

Ends(c, outcome) ==
  ran' = [ran EXCEPT ![c] = Append(@, [phase |-> sequence[c].next, outcome |-> outcome])]

RunSequence(c) ==
  /\ load[c].at = "loaded"
  /\ sequence[c] = NotRun
  /\ Continue(c, 1)
  /\ UNCHANGED <<instances, load, importing, ran, unloads, history>>

\* A hook that throws stops the sequence, with no rollback.
HookEnds(c, outcome) ==
  /\ sequence[c].at = "hook"
  /\ Ends(c, outcome)
  /\ IF outcome = "resolved"
     THEN Continue(c, sequence[c].next + 1)
     ELSE sequence' = [sequence EXCEPT ![c].at = "failed"]
  /\ UNCHANGED <<instances, load, importing, unloads, history>>

-----------------------------------------------------------------------------
HostNext ==
  \/ \E c \in Calls, p \in Plugins : LoadPlugin(c, p)
  \/ \E c \in Calls, outcome \in {"resolved", "rejected"} :
       ImportSettles(c, outcome) \/ HookEnds(c, outcome)
  \/ \E c \in Calls : TimerFires(c) \/ RunSequence(c)
  \/ \E c \in Calls, serializable \in BOOLEAN : DelayEnds(c, serializable)
  \/ \E p \in Plugins : UnloadPlugin(p)

HostSpec == HostInit /\ [][HostNext]_hostVars

-----------------------------------------------------------------------------
(* Properties.                                                             *)

\* Type correctness of the host and of the calls.
HostTypeOK ==
  /\ instances \in [Plugins -> Calls \cup {None}]
  /\ \A c \in Calls : load[c] = Idle \/
       load[c] \in [at : {"import", "delay", "loaded", "failed"}, plugin : Plugins]
  /\ importing \subseteq {c \in Calls : load[c] # Idle}
  /\ sequence \in [Calls -> [at : {"idle", "hook", "done", "failed"},
                             next : 1..(Len(Phases) + 1)]]
  /\ \A c \in Calls : sequence[c].at # "idle" => load[c] # Idle /\ load[c].at = "loaded"
  /\ unloads \in 0..MaxUnloads

\* What the host holds for a plugin was returned by a load of that plugin that
\* succeeded: a load that failed, even after the import, leaves nothing behind.
HoldsWhatLoaded ==
  \A p \in Plugins :
    instances[p] # None => load[instances[p]] = [at |-> "loaded", plugin |-> p]

At(i, what, p) == history[i].what = what /\ history[i].plugin = p

\* Two loads of one plugin that both succeed, with no unload between the two
\* results, overlap: the check for a duplicate stops any load that begins
\* after the plugin is loaded.
OnlyOverlappingLoadsRepeat ==
  \A p \in Plugins : \A i, j \in DOMAIN history :
    (i < j /\ At(i, "loaded", p) /\ At(j, "loaded", p)) =>
      \/ \E k \in i..j : At(k, "unloaded", p)
      \/ \E k \in 1..i : At(k, "began", p) /\ history[k].call = history[j].call

\* A sequence runs the hooks that its plugin has, in the order of the phases
\* and leaving none out, up to the first one that throws, and none after it.
FailureStops ==
  \A c \in Calls :
    /\ \A i \in DOMAIN ran[c] : ran[c][i].outcome = "rejected" =>
         i = Len(ran[c]) /\ sequence[c] = [at |-> "failed", next |-> ran[c][i].phase]
    /\ \A i, j \in DOMAIN ran[c] : i < j => ran[c][i].phase < ran[c][j].phase
    /\ load[c] # Idle => \A k \in 1..(sequence[c].next - 1) :
         Has(c, k) => \E i \in DOMAIN ran[c] : ran[c][i].phase = k

\* What the host holds was loaded, no load but an overlapping one repeats
\* another, and hooks run in order up to the first failure.
HostIsSound == HoldsWhatLoaded /\ OnlyOverlappingLoadsRepeat /\ FailureStops

\* Every load ends, though its import may hang.
LoadsEnd ==
  \A c \in Calls : load[c] # Idle ~> (load[c] # Idle /\ load[c].at \in {"loaded", "failed"})
=============================================================================

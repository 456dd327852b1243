------------------------------ MODULE Migration ------------------------------
(***************************************************************************)
(* packages/migration: the scanner finds the versions of every plugin on   *)
(* disk, the resolver leaves out those in migration_history, the engine    *)
(* executes what is left, phase by phase over all plugins.  A version is   *)
(* [core, tag]: the three numbers as one, and the text behind the dash.    *)
(***************************************************************************)
EXTENDS Naturals, Sequences, FiniteSets, SequencesExt, Arrays

CONSTANTS
  Disk,          \* one directory per search path: <<[plugin, versions]>> in the
                 \* order readdir gives, a version being [core, tag, files]
  PluginOrder    \* the plugin names in alphabetical order

Phases == <<"preload", "postsync", "postload">>

\* Directories beside each other have different names; that two of them are one version,
\* as 1.0.0 and 1.0.00, is left out.
ASSUME DiskAssumption ==
  /\ Disk \in Seq(Range(Disk))
  /\ \A i \in DOMAIN Disk : \A e \in Range(Disk[i]) :
       /\ e.versions \in Seq(Range(e.versions))
       /\ \A v \in Range(e.versions) : v.core \in Nat /\ v.files \subseteq Range(Phases)
       /\ \A j, k \in DOMAIN e.versions :
            e.versions[j].core = e.versions[k].core /\ e.versions[j].tag = e.versions[k].tag => j = k
  /\ PluginOrder \in Seq(Range(PluginOrder))
  /\ \A i, j \in DOMAIN PluginOrder : PluginOrder[i] = PluginOrder[j] => i = j

VARIABLES
  history,       \* migration_history, which no code of the package writes
  run,           \* the call: [at, mode, found, tasks, turn, log]
  executed       \* phases whose text was given to the database

migrationVars == <<history, run, executed>>

Idle == [at |-> "idle", mode |-> "normal", found |-> <<>>, tasks |-> <<>>, turn |-> 0, log |-> <<>>]

MigrationInit ==
  /\ \E h \in SUBSET {[plugin |-> e.plugin, core |-> v.core, tag |-> v.tag] :
                        e \in UNION {Range(Disk[i]) : i \in DOMAIN Disk},
                        v \in UNION {Range(e.versions) : e \in UNION {Range(Disk[i]) : i \in DOMAIN Disk}}} :
       history = h
  /\ run = Idle
  /\ executed = {}

-----------------------------------------------------------------------------

\* Ascending by the three numbers; what has the same ones stays as it was found.
Sorted(versions) ==
  LET cores == Ascending({v.core : v \in Range(versions)})
  IN FlattenSeq([i \in DOMAIN cores |-> Filter(versions, {v \in Range(versions) : v.core = cores[i]})])

\* discoverMigrations: a directory that cannot be read is as good as none, and of
\* two search paths with a plugin the later counts.
Discover(unread) ==
  LET Finds(i, p) == {e \in Range(Disk[i]) : e.plugin = p /\ <<i, p>> \notin unread /\ e.versions # <<>>}
      paths(p) == {i \in DOMAIN Disk : Finds(i, p) # {}}
      last(p) == CHOOSE i \in paths(p) : \A j \in paths(p) : j <= i
  IN [p \in {q \in Range(PluginOrder) : paths(q) # {}} |->
        Sorted((CHOOSE e \in Finds(last(p), p) : TRUE).versions)]

\* The tasks of plugin p for some of its versions.
TasksOf(p, versions, new) ==
  LET kept == Filter(versions, new)
  IN [i \in DOMAIN kept |->
        [plugin |-> p, core |-> kept[i].core, tag |-> kept[i].tag, files |-> kept[i].files]]

\* Mutant of NewVersions: one executed version of a plugin is taken for all of them.
NewPlugins(p, versions) ==
  {v \in Range(versions) : v.files # {} /\ \A h \in history : h.plugin # p}

\* The versions that are not in the history and have a file.
NewVersions(p, versions) ==
  {v \in Range(versions) : v.files # {} /\ [plugin |-> p, core |-> v.core, tag |-> v.tag] \notin history}

\* resolveTasks: plugin by plugin.
Resolve(found) ==
  FlattenSeq([i \in DOMAIN PluginOrder |->
    LET p == PluginOrder[i]
    IN IF p \in DOMAIN found THEN TasksOf(p, found[p], NewVersions(p, found[p])) ELSE <<>>])

\* buildPhases names the file of a phase; its text stays the empty one.
TextOf(task, phase) == "empty"

\* A text whose first word begins no statement, the empty one included.
IsInvalidSql(text) == text \in {"empty", "no sql"}

\* execute() of one phase: what it throws, or that the database did it.
ExecuteOutcomes(text) ==
  CASE text = "dangerous" -> {"DANGEROUS_OPERATION"}
    [] IsInvalidSql(text) -> {"MIGRATION_PARSE_ERROR"}
    [] OTHER -> {"success", "MIGRATION_EXECUTION_ERROR"}

\* dryRun() of one phase: dangerous operations are reported, nothing else is asked.
ListOutcome(text) == IF text = "dangerous" THEN "blocked" ELSE "listed"

PhaseOf(task, phase) ==
  IF phase \in task.files
  THEN <<[plugin |-> task.plugin, core |-> task.core, tag |-> task.tag, phase |-> phase, text |-> TextOf(task, phase)]>>
  ELSE <<>>

\* migrate(): a phase of all tasks before the next phase.
RunAgenda(tasks) ==
  FlattenSeq([p \in DOMAIN Phases |-> FlattenSeq([t \in DOMAIN tasks |-> PhaseOf(tasks[t], Phases[p])])])

\* dryRun(): the phases of a task before the next task.
DryRunAgenda(tasks) ==
  FlattenSeq([t \in DOMAIN tasks |-> FlattenSeq([p \in DOMAIN Phases |-> PhaseOf(tasks[t], Phases[p])])])

Agenda(tasks, mode) == IF mode = "normal" THEN RunAgenda(tasks) ELSE DryRunAgenda(tasks)

-----------------------------------------------------------------------------

Directories == {<<i, p>> : i \in DOMAIN Disk, p \in Range(PluginOrder)}

\* A call that has read all directories but some.
Scanned(mode, unread) == [Idle EXCEPT !.at = "found", !.mode = mode, !.found = Discover(unread)]

\* migrate() or dryRun(); any directory may fail to be read.
Start ==
  /\ run.at = "idle"
  /\ \E mode \in {"normal", "dry-run"}, unread \in SUBSET Directories :
       run' = Scanned(mode, unread)
  /\ UNCHANGED <<history, executed>>

\* findMany() on the history is awaited in between.
ResolveTasks ==
  /\ run.at = "found"
  /\ run' = [run EXCEPT !.at = "running", !.tasks = Agenda(Resolve(run.found), run.mode)]
  /\ UNCHANGED <<history, executed>>

\* One phase; a failure is logged and blocks neither the plugin nor the others.
NextPhase ==
  /\ run.at = "running" /\ run.turn < Len(run.tasks)
  /\ LET phase == run.tasks[run.turn + 1]
     IN \E status \in IF run.mode = "normal" THEN ExecuteOutcomes(phase.text)
                      ELSE {ListOutcome(phase.text)} :
          /\ run' = [run EXCEPT !.turn = @ + 1, !.log = Append(@, [task |-> phase, status |-> status])]
          /\ executed' = IF status \in {"success", "MIGRATION_EXECUTION_ERROR"}
                           THEN executed \cup {phase} ELSE executed
  /\ UNCHANGED history

Finish ==
  /\ run.at = "running" /\ run.turn = Len(run.tasks)
  /\ run' = [run EXCEPT !.at = "done"]
  /\ UNCHANGED <<history, executed>>

Again ==
  /\ run.at = "done"
  /\ run' = Idle
  /\ UNCHANGED <<history, executed>>

MigrationNext ==
  \/ Start \/ ResolveTasks \/ NextPhase \/ Finish \/ Again

-----------------------------------------------------------------------------

Place(phase) == CHOOSE i \in DOMAIN Phases : Phases[i] = phase

IsRecorded(p, v) == [plugin |-> p, core |-> v.core, tag |-> v.tag] \in history
IsNewer(p, v) == \A h \in history : h.plugin = p => h.core < v.core

\* The places in the log of a call at which a phase of a version was tried.
Tries(p, v, phase) ==
  {j \in DOMAIN run.log :
     LET task == run.log[j].task
     IN task.plugin = p /\ task.core = v.core /\ task.tag = v.tag /\ task.phase = phase}

\* A finished call has gone, whatever failed before, through every phase of every
\* version found that is newer than all that are recorded of its plugin, never
\* through one that is recorded, through no phase twice and through nothing that
\* was not found; when it executes, all plugins have left a phase before one enters
\* the next, and a plugin's versions come in ascending order within a phase.  Of a
\* version that is older than a recorded one and not recorded itself it says only
\* that it is not run twice: the code runs it, resolver.test.ts:58 has it skipped.
EveryPhaseIsTried ==
  run.at = "done" =>
    /\ \A p \in DOMAIN run.found : \A i \in DOMAIN run.found[p] : \A phase \in run.found[p][i].files :
         LET v == run.found[p][i]
         IN /\ Cardinality(Tries(p, v, phase)) \in {0, 1}
            /\ IsRecorded(p, v) => Tries(p, v, phase) = {}
            /\ IsNewer(p, v) => Tries(p, v, phase) # {}
    /\ \A j \in DOMAIN run.log : run.log[j].task.plugin \in DOMAIN run.found
    /\ run.mode = "normal" => \A j, k \in DOMAIN run.log : j < k =>
         LET one == run.log[j].task
             other == run.log[k].task
         IN /\ Place(one.phase) <= Place(other.phase)
            /\ one.plugin = other.plugin /\ one.phase = other.phase => one.core <= other.core

\* A phase that a dry run lists without blocking it is one that migrate() executes.
DryRunForetells ==
  run.at = "done" /\ run.mode = "normal" =>
    \A j \in DOMAIN run.log : run.log[j].task.text # "dangerous" => run.log[j].task \in executed
=============================================================================

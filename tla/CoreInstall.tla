----------------------------- MODULE CoreInstall -----------------------------
(***************************************************************************)
(* The two install procedures of packages/plugin-core: install() of        *)
(* install.ts, the hook that a host runs against its PluginDbContext, and  *)
(* PluginCore.install() of plugin-core.ts.                                 *)
(*                                                                         *)
(* Both look for rows that say that the system is installed and otherwise  *)
(* write their initial data row by row, awaiting each insert, without a    *)
(* transaction.  They differ in the rows they look for, in the rows they   *)
(* write, and in what an insert does where the row is there already, which *)
(* is what `kind' stands for: a database is installed by one of them.  An  *)
(* insert may fail, with or without its effect, and the process may die    *)
(* between two inserts and start over.                                     *)
(*                                                                         *)
(* The database is the caller's.  safeInsert() awaits an insert only where *)
(* what db.insert() returns has values, returning and get, which is the    *)
(* shape that the tests give it and the one taken here.                    *)
(***************************************************************************)
EXTENDS Naturals, Sequences

CONSTANTS
  Installers,   \* server processes that install
  Kinds,        \* the install procedures
  Plans,        \* kind -> the tables of the rows to write, in order
  Guards,       \* kind -> the tables in which any row means installed, as queried
  Once,         \* kind -> the tables whose insert leaves a row alone that is there
  Unique,       \* kind -> the tables that refuse a second row of the same name
  MaxRuns,      \* bound: runs of install()
  MaxFailures   \* bound: queries and inserts that fail

Tables(k) == {Plans[k][i] : i \in DOMAIN Plans[k]}

ASSUME PlanAssumption == \A k \in Kinds : Plans[k] \in Seq(STRING) /\ Plans[k] # <<>>
ASSUME GuardsAssumption == \A k \in Kinds : Guards[k] \in Seq(Tables(k)) /\ Guards[k] # <<>>
ASSUME TablesAssumption == \A k \in Kinds : Once[k] \subseteq Tables(k) /\ Unique[k] \subseteq Tables(k)
ASSUME InstallBounds == MaxRuns \in Nat /\ MaxFailures \in Nat

VARIABLES
  kind,       \* which of the procedures this database is installed by
  data,       \* how often the row of each position of the plan is in the database
  run,        \* where each process stands in install()
  runs,       \* runs of install() so far
  failures,   \* failures so far
  overlapped  \* history: a run began while another one was under way

installVars == <<kind, data, run, runs, failures, overlapped>>

plan == Plans[kind]
guards == Guards[kind]
Positions == DOMAIN plan
NotRunning == [step |-> "down", at |-> 0]
UnderWay(p) == run[p].step \in {"query", "insert"}
Holds(table) == \E i \in Positions : plan[i] = table /\ data[i] > 0

InstallInit ==
  /\ kind \in Kinds
  /\ data = [i \in Positions |-> 0]
  /\ run = [p \in Installers |-> NotRunning]
  /\ runs = 0
  /\ failures = 0
  /\ overlapped = FALSE

Moves(p, step, at) == run' = [run EXCEPT ![p] = [step |-> step, at |-> at]]

\* A process calls install(), for the first time or again.
Start(p) ==
  /\ ~UnderWay(p)
  /\ runs < MaxRuns
  /\ runs' = runs + 1
  /\ overlapped' = (overlapped \/ \E q \in Installers : UnderWay(q))
  /\ Moves(p, "query", 1)
  /\ UNCHANGED <<kind, data, failures>>

\* hasAnyUser(), isBootstrapComplete(): the first query that finds a row ends
\* install(), with success or with ALREADY_INSTALLED.
Query(p) ==
  /\ run[p].step = "query"
  /\ IF Holds(guards[run[p].at]) THEN Moves(p, "skipped", 0)
     ELSE IF run[p].at < Len(guards) THEN Moves(p, "query", run[p].at + 1)
     ELSE Moves(p, "insert", 1)
  /\ UNCHANGED <<kind, data, runs, failures, overlapped>>

Written(i) ==
  IF plan[i] \in Once[kind] /\ data[i] > 0 THEN UNCHANGED data
  ELSE data' = [data EXCEPT ![i] = @ + 1]

\* Mutant of RowRefused: the unique constraints are gone.
RowRefusedNever(i) == plan[i] \in Unique[kind] /\ data[i] < 0

RowRefused(i) == plan[i] \in Unique[kind] /\ data[i] > 0

\* One insert of the plan; after the last one install() returns.
WriteRow(p) ==
  /\ run[p].step = "insert" /\ ~RowRefused(run[p].at)
  /\ Written(run[p].at)
  /\ IF run[p].at < Len(plan)
     THEN Moves(p, "insert", run[p].at + 1)
     ELSE Moves(p, "returned", 0)
  /\ UNCHANGED <<kind, runs, failures, overlapped>>

\* The database refuses the row and install() throws.
RefuseRow(p) ==
  /\ run[p].step = "insert" /\ RowRefused(run[p].at)
  /\ Moves(p, "threw", 0)
  /\ UNCHANGED <<kind, data, runs, failures, overlapped>>

\* Mutant of Fail: an insert that fails is passed over.
FailSkips(p) ==
  /\ run[p].step = "insert" /\ run[p].at < Len(plan)
  /\ failures < MaxFailures
  /\ failures' = failures + 1
  /\ Moves(p, "insert", run[p].at + 1)
  /\ UNCHANGED <<kind, data, runs, overlapped>>

\* A query or an insert fails, the insert perhaps after it took effect:
\* install() throws, and what it wrote stays.
Fail(p) ==
  /\ UnderWay(p)
  /\ failures < MaxFailures
  /\ failures' = failures + 1
  /\ IF run[p].step = "insert" /\ ~RowRefused(run[p].at)
     THEN Written(run[p].at) \/ UNCHANGED data
     ELSE UNCHANGED data
  /\ Moves(p, "threw", 0)
  /\ UNCHANGED <<kind, runs, overlapped>>

\* The process dies; the database does not.
Die(p) ==
  /\ UnderWay(p)
  /\ run' = [run EXCEPT ![p] = NotRunning]
  /\ UNCHANGED <<kind, data, runs, failures, overlapped>>

InstallNext ==
  \E p \in Installers : Start(p) \/ Query(p) \/ WriteRow(p) \/ RefuseRow(p) \/ Fail(p) \/ Die(p)

InstallSpec == InstallInit /\ [][InstallNext]_installVars

-----------------------------------------------------------------------------
(* Properties.                                                             *)

\* Type correctness of the database and of the processes.
InstallTypeOK ==
  /\ kind \in Kinds
  /\ data \in [Positions -> 0..MaxRuns]
  /\ run \in [Installers ->
       [step : {"query", "insert", "down", "skipped", "returned", "threw"}, at : Nat]]
  /\ \A p \in Installers :
       CASE run[p].step = "query"  -> run[p].at \in DOMAIN guards
         [] run[p].step = "insert" -> run[p].at \in Positions
         [] OTHER                  -> run[p].at = 0
  /\ runs \in 0..MaxRuns
  /\ failures \in 0..MaxFailures
  /\ overlapped \in BOOLEAN

\* The rows are written in the order of the plan, whatever fails and dies, so
\* that where a user is there are also the permissions, the roles and the
\* grants that it needs.
EarlierRowsAreThere ==
  \A i, j \in Positions : i < j /\ data[j] > 0 => data[i] > 0

\* What a running install() has passed is in the database.
PassedIsWritten ==
  \A p \in Installers :
    /\ run[p].step = "insert" => \A i \in 1..(run[p].at - 1) : data[i] > 0
    /\ run[p].step = "returned" => \A i \in Positions : data[i] > 0

\* install.ts:158 and plugin-core.ts:118 call install() idempotent: however
\* often runs fail, die and start over, a row of the tables that it looks at is
\* written once, as is a row whose insert leaves one alone that is there.  Where
\* the first row of the plan is unique this holds even of runs that overlap.
GuardRowsAreSole ==
  ~overlapped \/ plan[1] \in Unique[kind] =>
    \A i \in Positions :
      (plan[i] \in Once[kind] \/ \E g \in DOMAIN guards : plan[i] = guards[g]) => data[i] <= 1

\* install.ts:151 says that install() creates the initial data, and 158 that
\* a run that finds a user skips it: an install() that returns, having written
\* the data or skipped it, leaves all of it in place.
ReturnedIsComplete ==
  \A p \in Installers :
    run[p].step \in {"returned", "skipped"} => \A i \in Positions : data[i] > 0
=============================================================================

------------------------------ MODULE Bootstrap ------------------------------
(***************************************************************************)
(* Startup of the server, CoreApp.bootstrap() in packages/core/src/app.ts, *)
(* run by several server processes against one PostgreSQL database.        *)
(*                                                                         *)
(* A process checks whether the database was seeded, writes the seed rows  *)
(* one statement at a time (no transaction), registers plugin-core in the  *)
(* modules table, loads the tenant cache and starts to serve.  Every await *)
(* of the code is a separate action here, so the processes interleave at   *)
(* every database call.  A call may fail, with or without its effect, and  *)
(* a process may be killed between two calls and started again.            *)
(***************************************************************************)
EXTENDS Integers, FiniteSets

CONSTANTS
  Procs,       \* server processes sharing the database
  NPerms,      \* number of core permissions in the seed (5 in the code)
  MaxBoots,    \* bound: starts of one process
  MaxCrashes,  \* bound: processes killed
  MaxFaults,   \* bound: failed database calls
  NoRun        \* not a seed run

ASSUME PermsAssumption == NPerms \in Nat \ {0}
ASSUME BoundsAssumption ==
  /\ MaxBoots \in Nat
  /\ MaxCrashes \in Nat
  /\ MaxFaults \in Nat

\* generateBootstrapData() draws fresh identifiers on every call: the rows of
\* one start of one process are told apart from those of any other start.
Runs == Procs \X (1..MaxBoots)

ASSUME NoRunAssumption == NoRun \notin Runs

VARIABLES
  rows,        \* seed rows in the database
  registered,  \* modules holds the row of @audebase/plugin-core
  pc,          \* where each process stands in bootstrap()
  next,        \* next position of the seed plan, per process
  boots,       \* number of starts, per process
  cached,      \* the process's tenant cache knows the system tenant
  crashes,     \* processes killed so far
  faults       \* database calls failed so far

vars == <<rows, registered, pc, next, boots, cached, crashes, faults>>

-----------------------------------------------------------------------------
(* The seed plan: one insert per position, in the order of runBootstrap(). *)

SeedLen == 6 + 2 * NPerms
Plan == 1..SeedLen

TableOf(k) ==
  CASE k = 1                                   -> "tenants"
    [] k = 2                                   -> "users"
    [] k \in 3..4                              -> "roles"
    [] k \in 5..(4 + NPerms)                   -> "permissions"
    [] k \in (5 + NPerms)..(5 + 2 * NPerms)    -> "role_permissions"
    [] OTHER                                   -> "user_roles"

Run(p) == <<p, boots[p]>>
Row(k, run) == [item |-> k, run |-> run]
RowsIn(table) == {r \in rows : TableOf(r.item) = table}

\* Mutant of Collides: tenants.slug has no unique constraint.
CollidesNever(k) == FALSE

\* tenants.slug is unique and every seed uses the slug 'system'; the other
\* seed tables have no unique column that two seeds would share.
Collides(k) == TableOf(k) = "tenants" /\ RowsIn("tenants") # {}

SeedComplete == \E run \in Runs : \A k \in Plan : Row(k, run) \in rows

-----------------------------------------------------------------------------
Steps == {"down", "users", "modules", "seed", "core", "register", "tenants", "up"}

Init ==
  /\ rows = {}
  /\ registered = FALSE
  /\ pc = [p \in Procs |-> "down"]
  /\ next = [p \in Procs |-> 1]
  /\ boots = [p \in Procs |-> 0]
  /\ cached = [p \in Procs |-> FALSE]
  /\ crashes = 0
  /\ faults = 0

Goto(p, step) == pc' = [pc EXCEPT ![p] = step]

\* main() starts the process: a new CoreApp, with an empty tenant cache.
Boot(p) ==
  /\ pc[p] = "down"
  /\ boots[p] < MaxBoots
  /\ boots' = [boots EXCEPT ![p] = @ + 1]
  /\ next' = [next EXCEPT ![p] = 1]
  /\ cached' = [cached EXCEPT ![p] = FALSE]
  /\ Goto(p, "users")
  /\ UNCHANGED <<rows, registered, crashes, faults>>

\* isBootstrapComplete, first query: any user at all means complete.
CheckUsers(p) ==
  /\ pc[p] = "users"
  /\ Goto(p, IF RowsIn("users") # {} THEN "core" ELSE "modules")
  /\ UNCHANGED <<rows, registered, next, boots, cached, crashes, faults>>

\* Mutant of CheckModules: plugin-core is registered before the seed is written.
CheckModulesRegisters(p) ==
  /\ pc[p] = "modules"
  /\ registered' = TRUE
  /\ Goto(p, IF registered THEN "core" ELSE "seed")
  /\ UNCHANGED <<rows, next, boots, cached, crashes, faults>>

\* isBootstrapComplete, second query: any row of modules means complete.
CheckModules(p) ==
  /\ pc[p] = "modules"
  /\ Goto(p, IF registered THEN "core" ELSE "seed")
  /\ UNCHANGED <<rows, registered, next, boots, cached, crashes, faults>>

\* Either query throws: the code warns and proceeds with the seed.
CheckFault(p) ==
  /\ pc[p] \in {"users", "modules"}
  /\ faults < MaxFaults
  /\ faults' = faults + 1
  /\ Goto(p, "seed")
  /\ UNCHANGED <<rows, registered, next, boots, cached, crashes>>

\* Mutant of Insert: the last row of the plan is left out.
InsertStopsEarly(p) ==
  /\ pc[p] = "seed"
  /\ ~Collides(next[p])
  /\ rows' = rows \cup {Row(next[p], Run(p))}
  /\ next' = [next EXCEPT ![p] = @ + 1]
  /\ Goto(p, IF next[p] = SeedLen - 1 THEN "core" ELSE "seed")
  /\ UNCHANGED <<registered, boots, cached, crashes, faults>>

\* One insert of the seed succeeds.
Insert(p) ==
  /\ pc[p] = "seed"
  /\ ~Collides(next[p])
  /\ rows' = rows \cup {Row(next[p], Run(p))}
  /\ next' = [next EXCEPT ![p] = @ + 1]
  /\ Goto(p, IF next[p] = SeedLen THEN "core" ELSE "seed")
  /\ UNCHANGED <<registered, boots, cached, crashes, faults>>

\* One insert violates a unique constraint: the seed is abandoned, the error
\* is logged and startup continues.
InsertRejected(p) ==
  /\ pc[p] = "seed"
  /\ Collides(next[p])
  /\ Goto(p, "core")
  /\ UNCHANGED <<rows, registered, next, boots, cached, crashes, faults>>

\* Mutant of InsertFault: each insert has a try block of its own.
InsertFaultGoesOn(p) ==
  /\ pc[p] = "seed"
  /\ faults < MaxFaults
  /\ faults' = faults + 1
  /\ next' = [next EXCEPT ![p] = @ + 1]
  /\ Goto(p, IF next[p] = SeedLen THEN "core" ELSE "seed")
  /\ UNCHANGED <<rows, registered, boots, cached, crashes>>

\* One insert throws, before or after the database applied it: same handling.
InsertFault(p) ==
  /\ pc[p] = "seed"
  /\ faults < MaxFaults
  /\ faults' = faults + 1
  /\ \/ UNCHANGED rows
     \/ /\ ~Collides(next[p])
        /\ rows' = rows \cup {Row(next[p], Run(p))}
  /\ Goto(p, "core")
  /\ UNCHANGED <<registered, next, boots, cached, crashes>>

\* registerCorePlugin looks for its own row.
FindCore(p) ==
  /\ pc[p] = "core"
  /\ Goto(p, IF registered THEN "tenants" ELSE "register")
  /\ UNCHANGED <<rows, registered, next, boots, cached, crashes, faults>>

\* It inserts the row; modules.name is unique, and the error of a second
\* insert is swallowed, so both outcomes leave the row there.
Register(p) ==
  /\ pc[p] = "register"
  /\ registered' = TRUE
  /\ Goto(p, "tenants")
  /\ UNCHANGED <<rows, next, boots, cached, crashes, faults>>

\* The lookup or the insert throws; the error is swallowed as well.
CoreFault(p) ==
  /\ pc[p] \in {"core", "register"}
  /\ faults < MaxFaults
  /\ faults' = faults + 1
  /\ \/ UNCHANGED registered
     \/ pc[p] = "register" /\ registered' = TRUE
  /\ Goto(p, "tenants")
  /\ UNCHANGED <<rows, next, boots, cached, crashes>>

\* The tenant cache is filled once, and the process starts to serve.
LoadTenants(p) ==
  /\ pc[p] = "tenants"
  /\ cached' = [cached EXCEPT ![p] = RowsIn("tenants") # {}]
  /\ Goto(p, "up")
  /\ UNCHANGED <<rows, registered, next, boots, crashes, faults>>

\* Loading the cache is outside every try block: start() rejects, main() exits.
LoadFault(p) ==
  /\ pc[p] = "tenants"
  /\ faults < MaxFaults
  /\ faults' = faults + 1
  /\ Goto(p, "down")
  /\ UNCHANGED <<rows, registered, next, boots, cached, crashes>>

\* The process is killed or stopped.
Crash(p) ==
  /\ pc[p] # "down"
  /\ crashes < MaxCrashes
  /\ crashes' = crashes + 1
  /\ Goto(p, "down")
  /\ UNCHANGED <<rows, registered, next, boots, cached, faults>>

\* The steps a started process takes by itself.
Advance(p) ==
  \/ CheckUsers(p)
  \/ CheckModules(p)
  \/ Insert(p)
  \/ InsertRejected(p)
  \/ FindCore(p)
  \/ Register(p)
  \/ LoadTenants(p)

Fault(p) == CheckFault(p) \/ InsertFault(p) \/ CoreFault(p) \/ LoadFault(p)

Next == \E p \in Procs : Boot(p) \/ Advance(p) \/ Fault(p) \/ Crash(p)

Spec == Init /\ [][Next]_vars

-----------------------------------------------------------------------------
\* Type correctness of the database and of every process's local state.
TypeOK ==
  /\ rows \subseteq [item : Plan, run : Runs]
  /\ registered \in BOOLEAN
  /\ pc \in [Procs -> Steps]
  /\ next \in [Procs -> 1..(SeedLen + 1)]
  /\ boots \in [Procs -> 0..MaxBoots]
  /\ cached \in [Procs -> BOOLEAN]
  /\ crashes \in 0..MaxCrashes
  /\ faults \in 0..MaxFaults

\* However many processes start at once, are killed and start again, the seed
\* rows in the database come from one run of runBootstrap(): there is never a
\* second admin user, admin role or set of permissions.  Only the unique slug
\* of the tenant, written first, protects this; the check before it does not.
OneSeeder == \A r, s \in rows : r.run = s.run

\* The rows written are a prefix of the plan: no link row (role_permissions,
\* user_roles) exists without the rows it refers to, whatever failed where.
SeedIsAPrefix ==
  \A r \in rows : \A k \in 1..r.item : Row(k, r.run) \in rows

\* As long as no database call failed, a process that serves has the system
\* tenant in its cache, although the cache is filled once and never refreshed
\* and another process may have written (or abandoned) the seed.
UpKnowsTenant ==
  faults = 0 => \A p \in Procs : pc[p] = "up" => cached[p]

\* When nothing fails, the first start of any process leads to a complete
\* seed, whichever of the racing processes loses the insert of the tenant.
SeedCompletes == (\E p \in Procs : pc[p] # "down") ~> SeedComplete

-----------------------------------------------------------------------------
\* Bootstrap implements the abstract seed.
Owner == IF rows = {} THEN NoRun ELSE (CHOOSE r \in rows : TRUE).run

Abstract == INSTANCE SeedOnce WITH
  Len <- SeedLen,
  owner <- Owner,
  done <- {r.item : r \in rows}

\* Every database state the processes produce is one that the abstract seed
\* allows: claimed by one run and extended row by row in plan order.
ImplementsSeedOnce == Abstract!Spec
==============================================================================

--------------------------- MODULE StartupProofs ---------------------------
(***************************************************************************)
(* Proofs about the start of a server and of its plugins, for any number of*)
(* processes, crashes and failed calls of the database, any plans of rows, *)
(* any plugins, dependencies, phases, methods and calls.                   *)
(*                                                                         *)
(* The seed (Bootstrap): a run that has written its first row (the tenant) *)
(* owns the unique slug.  Every other run is either still at position 1,   *)
(* where the slug stops it, or over.                                       *)
(*                                                                         *)
(* The install procedures (CoreInstall): rows are written in the order of the*)
(* plan; the argument needs what each running install() has passed, and that a*)
(* run passes each position once.                                          *)
(*                                                                         *)
(* The run of the process (AppLifecycle): what is attached goes with the step*)
(* of start(), and past the close of the server nothing opens again.       *)
(*                                                                         *)
(* The load order (DependencySort): the counters count the dependencies that*)
(* are not yet placed, and a plugin is queued or placed when there are none.*)
(*                                                                         *)
(* The host (PluginHost): what has been undone and what is still to be undone*)
(* are read off the journal of the hooks that ran.                         *)
(*                                                                         *)
(* The calls (PluginRpc): a handler belongs to the registration it started *)
(* under, and an outcome is written once.                                  *)
(***************************************************************************)
EXTENDS MCStartup, SequenceTheorems, WellFoundedInduction, TLAPS

-----------------------------------------------------------------------------
(* Facts about the seed plan.                                              *)

\* The plan has at least eight rows, and only its first is the tenant's.
LEMMA PlanFacts ==
  /\ SeedLen \in Nat
  /\ SeedLen >= 8
  /\ \A k \in Plan : TableOf(k) = "tenants" <=> k = 1
  /\ \A k \in Plan : TableOf(k) = "users" <=> k = 2
BY PermsAssumption DEF SeedLen, Plan, TableOf

-----------------------------------------------------------------------------
(* Type correctness.                                                       *)

LEMMA TypeInit == Init => TypeOK
<1> SUFFICES ASSUME Init PROVE TypeOK
  OBVIOUS
<1>1. rows \subseteq [item : Plan, run : Runs] /\ pc \in [Procs -> Steps]
  BY DEF Init, Steps
<1>2. registered \in BOOLEAN /\ cached \in [Procs -> BOOLEAN]
  BY Zenon DEF Init
<1>3. 1 \in 1..(SeedLen + 1) /\ 0 \in 0..MaxBoots /\ 0 \in 0..MaxCrashes
      /\ 0 \in 0..MaxFaults
  BY PlanFacts, BoundsAssumption
<1> QED
  BY <1>1, <1>2, <1>3 DEF Init, TypeOK

\* A started process is at least in its first start, so that its rows carry
\* the identifiers of a run; and the seed begins with the first row of the
\* plan and always has a row of the plan ahead of it.
Started ==
  /\ \A p \in Procs : pc[p] # "down" => boots[p] >= 1
  /\ \A p \in Procs : pc[p] \in {"users", "modules"} => next[p] = 1
  /\ \A p \in Procs : pc[p] = "seed" => next[p] \in Plan

LEMMA RunOfStarted ==
  ASSUME TypeOK, Started, NEW p \in Procs, pc[p] # "down"
  PROVE  Run(p) \in Runs
BY BoundsAssumption DEF TypeOK, Started, Run, Runs

LEMMA TypeStep == TypeOK /\ Started /\ [Next]_vars => TypeOK' /\ Started'
<1> SUFFICES ASSUME TypeOK, Started, [Next]_vars PROVE TypeOK' /\ Started'
  OBVIOUS
<1> USE PlanFacts, BoundsAssumption DEF Steps, Plan
<1>1. ASSUME NEW p \in Procs, Boot(p) PROVE TypeOK' /\ Started'
  BY <1>1 DEF Boot, Goto, TypeOK, Started
<1>2. ASSUME NEW p \in Procs, CheckUsers(p) PROVE TypeOK' /\ Started'
  BY <1>2 DEF CheckUsers, Goto, TypeOK, Started
<1>3. ASSUME NEW p \in Procs, CheckModules(p) PROVE TypeOK' /\ Started'
  BY <1>3 DEF CheckModules, Goto, TypeOK, Started
<1>4. ASSUME NEW p \in Procs, CheckFault(p) PROVE TypeOK' /\ Started'
  BY <1>4 DEF CheckFault, Goto, TypeOK, Started
<1>5. ASSUME NEW p \in Procs, Insert(p) PROVE TypeOK' /\ Started'
  <2>1. Row(next[p], Run(p)) \in [item : Plan, run : Runs]
    BY <1>5, RunOfStarted DEF Insert, Row, Started
  <2> QED
    BY <1>5, <2>1 DEF Insert, Goto, TypeOK, Started
<1>6. ASSUME NEW p \in Procs, InsertRejected(p) PROVE TypeOK' /\ Started'
  BY <1>6 DEF InsertRejected, Goto, TypeOK, Started
<1>7. ASSUME NEW p \in Procs, InsertFault(p) PROVE TypeOK' /\ Started'
  <2>1. Row(next[p], Run(p)) \in [item : Plan, run : Runs]
    BY <1>7, RunOfStarted DEF InsertFault, Row, Started
  <2> QED
    BY <1>7, <2>1 DEF InsertFault, Goto, TypeOK, Started
<1>8. ASSUME NEW p \in Procs, FindCore(p) PROVE TypeOK' /\ Started'
  BY <1>8 DEF FindCore, Goto, TypeOK, Started
<1>9. ASSUME NEW p \in Procs, Register(p) PROVE TypeOK' /\ Started'
  BY <1>9 DEF Register, Goto, TypeOK, Started
<1>10. ASSUME NEW p \in Procs, CoreFault(p) PROVE TypeOK' /\ Started'
  <2>1. registered' \in BOOLEAN
    BY <1>10, Zenon DEF CoreFault, TypeOK
  <2>2. /\ pc' = [pc EXCEPT ![p] = "tenants"]
        /\ faults < MaxFaults /\ faults' = faults + 1
        /\ UNCHANGED <<rows, next, boots, cached, crashes>>
    BY <1>10 DEF CoreFault, Goto
  <2>3. /\ pc' \in [Procs -> Steps]
        /\ faults' \in 0..MaxFaults
        /\ Started'
    BY <2>2, <1>10 DEF CoreFault, TypeOK, Started
  <2> QED
    BY <2>1, <2>2, <2>3, Zenon DEF TypeOK
<1>11. ASSUME NEW p \in Procs, LoadTenants(p) PROVE TypeOK' /\ Started'
  BY <1>11 DEF LoadTenants, Goto, TypeOK, Started
<1>12. ASSUME NEW p \in Procs, LoadFault(p) PROVE TypeOK' /\ Started'
  BY <1>12 DEF LoadFault, Goto, TypeOK, Started
<1>13. ASSUME NEW p \in Procs, Crash(p) PROVE TypeOK' /\ Started'
  BY <1>13 DEF Crash, Goto, TypeOK, Started
<1>14. CASE UNCHANGED vars
  BY <1>14 DEF vars, TypeOK, Started
<1> QED
  BY <1>1, <1>2, <1>3, <1>4, <1>5, <1>6, <1>7, <1>8, <1>9, <1>10, <1>11,
     <1>12, <1>13, <1>14 DEF Next, Advance, Fault

\* Bootstrap is type-correct.
THEOREM TypeCorrect == Spec => []TypeOK
<1>1. Init => TypeOK /\ Started
  BY TypeInit DEF Init, Started
<1> QED
  BY <1>1, TypeStep, PTL DEF Spec

-----------------------------------------------------------------------------
(* One seed, written in order.                                             *)

\* The strengthening of OneSeeder and SeedIsAPrefix that is inductive: a run
\* that is past its first row has its last row in the database, has no row
\* further on, and runs that have not begun have no row at all.
SeedInv ==
  /\ OneSeeder
  /\ SeedIsAPrefix
  /\ \A p \in Procs : pc[p] = "seed" /\ next[p] > 1 =>
       Row(next[p] - 1, Run(p)) \in rows
  /\ \A p \in Procs : pc[p] \in {"users", "modules", "seed"} =>
       \A r \in rows : r.run = Run(p) => r.item < next[p]
  /\ \A r \in rows : r.run[2] <= boots[r.run[1]]

\* A run can write its next row only if no other run has written any.
LEMMA WriterOwns ==
  ASSUME TypeOK, Started, SeedInv,
         NEW p \in Procs, pc[p] = "seed", ~Collides(next[p])
  PROVE  \A r \in rows : r.run = Run(p)
<1>1. CASE next[p] = 1
  <2>1. RowsIn("tenants") = {}
    BY <1>1, PlanFacts DEF Collides, Plan
  <2>2. ASSUME NEW r \in rows PROVE FALSE
    <3>1. r.item \in Plan /\ r.item >= 1
      BY PlanFacts DEF TypeOK, Plan
    <3>2. Row(1, r.run) \in rows
      BY <3>1, PlanFacts DEF SeedInv, SeedIsAPrefix, Plan
    <3>3. Row(1, r.run) \in RowsIn("tenants")
      BY <3>2, PlanFacts DEF RowsIn, Row, Plan
    <3> QED
      BY <3>3, <2>1
  <2> QED
    BY <2>2
<1>2. CASE next[p] > 1
  BY <1>2 DEF SeedInv, OneSeeder, Row
<1> QED
  BY <1>1, <1>2, PlanFacts DEF Started, Plan

\* The invariant survives the write of a row, whether or not the caller
\* learns of it: the common part of Insert and InsertFault.
LEMMA WriteKeepsSeed ==
  ASSUME TypeOK, Started, SeedInv,
         NEW p \in Procs, pc[p] = "seed", ~Collides(next[p]),
         rows' = rows \cup {Row(next[p], Run(p))},
         UNCHANGED boots
  PROVE  OneSeeder' /\ SeedIsAPrefix' /\ (\A r \in rows' : r.run[2] <= boots'[r.run[1]])
<1> DEFINE new == Row(next[p], Run(p))
<1>1. next[p] \in Plan /\ new.item = next[p] /\ new.run = Run(p)
  BY DEF Started, Row
<1>2. OneSeeder'
  BY <1>1, WriterOwns DEF OneSeeder
<1>3. ASSUME NEW r \in rows', NEW k \in 1..r.item PROVE Row(k, r.run) \in rows'
  <2>1. CASE r \in rows
    BY <2>1 DEF SeedInv, SeedIsAPrefix, Row
  <2>2. CASE r = new /\ k = next[p]
    BY <2>2, <1>1
  <2>3. CASE r = new /\ k # next[p]
    <3>1. k \in 1..(next[p] - 1) /\ next[p] > 1
      BY <2>3, <1>1, PlanFacts DEF Plan
    <3>2. Row(next[p] - 1, Run(p)) \in rows
      BY <3>1 DEF SeedInv
    <3>3. Row(k, Run(p)) \in rows
      BY <3>1, <3>2 DEF SeedInv, SeedIsAPrefix, Row
    <3> QED
      BY <3>3, <2>3, <1>1
  <2> QED
    BY <2>1, <2>2, <2>3
<1>4. ASSUME NEW r \in rows' PROVE r.run[2] <= boots'[r.run[1]]
  <2>1. CASE r \in rows
    BY <2>1 DEF SeedInv
  <2>2. CASE r = new
    BY <2>2, <1>1 DEF Run, TypeOK
  <2> QED
    BY <2>1, <2>2
<1> QED
  BY <1>2, <1>3, <1>4 DEF SeedIsAPrefix, Row

LEMMA SeedStep ==
  TypeOK /\ Started /\ SeedInv /\ [Next]_vars => SeedInv'
<1> SUFFICES ASSUME TypeOK, Started, SeedInv, [Next]_vars PROVE SeedInv'
  OBVIOUS
\* Steps that write nothing and neither start a process nor advance a seed.
<1>1. ASSUME NEW p \in Procs, UNCHANGED <<rows, next, boots>>,
             \E step \in Steps \ {"users", "modules", "seed"} : Goto(p, step)
      PROVE  SeedInv'
  BY <1>1 DEF Goto, SeedInv, OneSeeder, SeedIsAPrefix, Run, Row, TypeOK
\* Steps of the completeness check: nothing is written before position 1.
<1>2. ASSUME NEW p \in Procs, UNCHANGED <<rows, next, boots>>,
             pc[p] \in {"users", "modules"},
             \E step \in Steps : Goto(p, step)
      PROVE  SeedInv'
  BY <1>2 DEF Goto, SeedInv, OneSeeder, SeedIsAPrefix, Run, Row, TypeOK, Started
<1>3. ASSUME NEW p \in Procs, Boot(p) PROVE SeedInv'
  <2>1. OneSeeder' /\ SeedIsAPrefix'
    BY <1>3 DEF Boot, SeedInv, OneSeeder, SeedIsAPrefix
  <2>2. \A r \in rows' : r.run[2] <= boots'[r.run[1]]
    BY <1>3 DEF Boot, SeedInv, TypeOK, Runs
  <2>3. \A r \in rows : r.run # Run(p)'
    BY <1>3, BoundsAssumption DEF Boot, SeedInv, Run, TypeOK, Runs
  <2>4. ASSUME NEW q \in Procs, pc'[q] = "seed", next'[q] > 1
        PROVE  (Row(next[q] - 1, Run(q)) \in rows)'
    BY <2>4, <1>3 DEF Boot, Goto, SeedInv, Run, Row, TypeOK
  <2>5. ASSUME NEW q \in Procs, pc'[q] \in {"users", "modules", "seed"},
               NEW r \in rows', r.run = Run(q)'
        PROVE  r.item < next'[q]
    <3>1. CASE q = p
      BY <3>1, <2>3, <2>5, <1>3 DEF Boot
    <3>2. CASE q # p
      BY <3>2, <2>5, <1>3 DEF Boot, Goto, SeedInv, Run, TypeOK
    <3> QED
      BY <3>1, <3>2
  <2> QED
    BY <2>1, <2>2, <2>4, <2>5 DEF SeedInv
<1>4. ASSUME NEW p \in Procs, Insert(p) PROVE SeedInv'
  <2>1. /\ OneSeeder' /\ SeedIsAPrefix'
        /\ \A r \in rows' : r.run[2] <= boots'[r.run[1]]
    BY <1>4, WriteKeepsSeed DEF Insert
  <2>2. \A r \in rows : r.run = Run(p)
    BY <1>4, WriterOwns DEF Insert
  <2>3. ASSUME NEW q \in Procs, pc'[q] = "seed", next'[q] > 1
        PROVE  (Row(next[q] - 1, Run(q)) \in rows)'
    BY <2>3, <1>4, PlanFacts DEF Insert, Goto, SeedInv, Run, Row, TypeOK, Plan
  <2>4. ASSUME NEW q \in Procs, pc'[q] \in {"users", "modules", "seed"},
               NEW r \in rows', r.run = Run(q)'
        PROVE  r.item < next'[q]
    <3>1. Run(q)' = Run(q) /\ (Run(q) = Run(p) => q = p)
      BY <1>4 DEF Insert, Run
    <3>2. next[p] \in Plan /\ next'[p] = next[p] + 1
      BY <1>4 DEF Insert, Started, TypeOK
    <3>3. CASE r \in rows
      <4>1. q = p
        BY <3>1, <3>3, <2>2, <2>4
      <4>2. r.item < next[p]
        BY <4>1, <3>1, <3>3, <2>4, <1>4 DEF Insert, SeedInv
      <4>3. r.item \in Nat
        BY <3>3, PlanFacts DEF TypeOK, Plan
      <4> QED
        BY <4>1, <4>2, <4>3, <3>2, PlanFacts DEF Plan
    <3>4. CASE r = Row(next[p], Run(p))
      BY <3>1, <3>2, <3>4, <2>4, PlanFacts DEF Row, Plan
    <3> QED
      BY <3>3, <3>4, <1>4 DEF Insert
  <2> QED
    BY <2>1, <2>3, <2>4 DEF SeedInv
<1>5. ASSUME NEW p \in Procs, InsertFault(p) PROVE SeedInv'
  <2>1. CASE UNCHANGED rows
    BY <2>1, <1>5, <1>1 DEF InsertFault, Steps
  <2>2. CASE ~Collides(next[p]) /\ rows' = rows \cup {Row(next[p], Run(p))}
    <3>1. /\ OneSeeder' /\ SeedIsAPrefix'
          /\ \A r \in rows' : r.run[2] <= boots'[r.run[1]]
      BY <1>5, <2>2, WriteKeepsSeed DEF InsertFault
    <3>2. ASSUME NEW q \in Procs, pc'[q] \in {"users", "modules", "seed"}
          PROVE  q # p /\ pc[q] = pc'[q] /\ Run(q)' = Run(q) /\ next'[q] = next[q]
      BY <3>2, <1>5 DEF InsertFault, Goto, Run, TypeOK
    <3>3. ASSUME NEW q \in Procs, pc'[q] = "seed", next'[q] > 1
          PROVE  (Row(next[q] - 1, Run(q)) \in rows)'
      BY <3>2, <3>3, <2>2 DEF SeedInv, Row
    <3>4. ASSUME NEW q \in Procs, pc'[q] \in {"users", "modules", "seed"},
                 NEW r \in rows', r.run = Run(q)'
          PROVE  r.item < next'[q]
      <4>1. q # p /\ Run(q) # Run(p)
        BY <3>2, <3>4 DEF Run
      <4>2. r \in rows
        BY <4>1, <3>2, <3>4, <2>2 DEF Row
      <4> QED
        BY <4>2, <3>2, <3>4 DEF SeedInv
    <3> QED
      BY <3>1, <3>3, <3>4 DEF SeedInv
  <2> QED
    BY <1>5, <2>1, <2>2 DEF InsertFault
<1>6. CASE UNCHANGED vars
  BY <1>6 DEF vars, SeedInv, OneSeeder, SeedIsAPrefix, Run, Row
<1>7. ASSUME NEW p \in Procs,
             CheckUsers(p) \/ CheckModules(p) \/ CheckFault(p)
      PROVE  SeedInv'
  <2>1. /\ pc[p] \in {"users", "modules"}
        /\ UNCHANGED <<rows, next, boots>>
        /\ \E step \in Steps : Goto(p, step)
    BY <1>7 DEF CheckUsers, CheckModules, CheckFault, Steps
  <2> QED
    BY <2>1, <1>2
<1>8. ASSUME NEW p \in Procs,
             \/ InsertRejected(p) \/ FindCore(p) \/ Register(p) \/ CoreFault(p)
             \/ LoadTenants(p) \/ LoadFault(p) \/ Crash(p)
      PROVE  SeedInv'
  <2>1. /\ UNCHANGED <<rows, next, boots>>
        /\ \E step \in Steps \ {"users", "modules", "seed"} : Goto(p, step)
    BY <1>8 DEF InsertRejected, FindCore, Register, CoreFault, LoadTenants,
                LoadFault, Crash, Steps
  <2> QED
    BY <2>1, <1>1
<1> QED
  BY <1>3, <1>4, <1>5, <1>6, <1>7, <1>8 DEF Next, Advance, Fault

LEMMA SeedInit == Init => SeedInv
BY DEF Init, SeedInv, OneSeeder, SeedIsAPrefix

LEMMA Invariance == Spec => [](TypeOK /\ Started /\ SeedInv)
<1>1. Init => TypeOK /\ Started /\ SeedInv
  BY TypeInit, SeedInit DEF Init, Started
<1>2. TypeOK /\ Started /\ SeedInv /\ [Next]_vars => (TypeOK /\ Started /\ SeedInv)'
  BY TypeStep, SeedStep
<1> QED
  BY <1>1, <1>2, PTL DEF Spec

\* All seed rows ever written come from one run.
THEOREM OneSeederEver == Spec => []OneSeeder
<1>1. SeedInv => OneSeeder
  BY DEF SeedInv
<1> QED
  BY <1>1, Invariance, PTL

\* The seed rows are always a prefix of the plan.
THEOREM PrefixEver == Spec => []SeedIsAPrefix
<1>1. SeedInv => SeedIsAPrefix
  BY DEF SeedInv
<1> QED
  BY <1>1, Invariance, PTL
-----------------------------------------------------------------------------
(* The seed implements SeedOnce.                                           *)

\* The rows have one owner, whichever of them it is read from.
LEMMA OwnerOfRows == OneSeeder => \A r \in rows : Owner = r.run
BY DEF OneSeeder, Owner

\* The steps that write a row of the seed; no other step touches the rows.
Writes(p) ==
  /\ pc[p] = "seed"
  /\ ~Collides(next[p])
  /\ rows' = rows \cup {Row(next[p], Run(p))}
  /\ UNCHANGED boots

LEMMA OnlyWritesTouchRows == [Next]_vars => UNCHANGED rows \/ \E p \in Procs : Writes(p)
BY DEF Next, Advance, Fault, vars, Writes, Boot, CheckUsers, CheckModules, CheckFault, Insert,
       InsertRejected, InsertFault, FindCore, Register, CoreFault, LoadTenants, LoadFault, Crash

\* A write is the claim of the seed or its extension by the next row.
LEMMA WriteMaps ==
  ASSUME TypeOK, Started, SeedInv, OneSeeder', NEW p \in Procs, Writes(p)
  PROVE  Abstract!Next
<1> DEFINE k == next[p]
<1>1. k \in Plan /\ Run(p) \in Runs /\ Run(p) # NoRun
  BY RunOfStarted, NoRunAssumption DEF Writes, Started
<1>2. \A r \in rows : r.run = Run(p)
  BY WriterOwns DEF Writes
<1>3. Row(k, Run(p)) \in rows' /\ Row(k, Run(p)).run = Run(p) /\ Row(k, Run(p)).item = k
  BY DEF Writes, Row
<1>4. Owner' = Run(p)
  <2>1. OneSeeder' => \A r \in rows' : Owner' = r.run
    BY DEF OneSeeder, Owner
  <2> QED
    BY <1>3, <2>1
<1>5. \A r \in rows : r.item \in Nat /\ 1 <= r.item /\ r.item < k
  BY <1>2, PlanFacts DEF SeedInv, Writes, TypeOK, Plan
<1>6. CASE k = 1
  <2>1. rows = {}
    BY <1>5, <1>6
  <2>2. Owner = NoRun /\ {r.item : r \in rows'} = {1}
    BY <1>3, <1>6, <2>1 DEF Owner, Writes
  <2> QED
    BY <1>1, <1>4, <2>2 DEF Abstract!Next, Abstract!Claim
<1>7. CASE k > 1
  <2>1. Row(k - 1, Run(p)) \in rows
    BY <1>7 DEF SeedInv, Writes
  <2>2. Owner = Run(p)
    BY <2>1, OwnerOfRows DEF SeedInv, Row
  <2>3. ASSUME NEW j \in 1..(k - 1) PROVE j \in {r.item : r \in rows}
    <3>1. Row(j, Run(p)) \in rows
      BY <2>1, <2>3 DEF SeedInv, SeedIsAPrefix, Row
    <3> QED
      BY <3>1 DEF Row
  <2>4. {r.item : r \in rows} = 1..(k - 1)
    <3>1. ASSUME NEW r \in rows PROVE r.item \in 1..(k - 1)
      BY <1>1, <1>5, PlanFacts DEF Plan
    <3> QED
      BY <2>3, <3>1
  <2>5. {r.item : r \in rows'} = {r.item : r \in rows} \cup {k}
    BY <1>3 DEF Writes
  <2>6. {r.item : r \in rows'} = 1..k
    BY <1>1, <2>4, <2>5, PlanFacts DEF Plan
  <2>7. k \in 2..SeedLen
    BY <1>1, <1>7, PlanFacts DEF Plan
  <2> QED
    BY <1>1, <1>4, <2>2, <2>4, <2>6, <2>7 DEF Abstract!Next, Abstract!Extend
<1> QED
  BY <1>1, <1>6, <1>7, PlanFacts DEF Plan

\* Whatever the servers do to the database, and wherever they fail or die, is a
\* seed that one run claims and that is extended row by row.
THEOREM ImplementsSeedOnceEver == Spec => ImplementsSeedOnce
<1>1. Init => Abstract!Init
  BY DEF Init, Abstract!Init, Owner
<1>2. /\ TypeOK /\ Started /\ SeedInv /\ (TypeOK /\ Started /\ SeedInv)'
      /\ [Next]_vars
      => [Abstract!Next]_(Abstract!vars)
  <2> SUFFICES ASSUME TypeOK, Started, SeedInv, SeedInv', [Next]_vars
               PROVE  [Abstract!Next]_(Abstract!vars)
    OBVIOUS
  <2>1. CASE UNCHANGED rows
    BY <2>1 DEF Abstract!vars, Owner
  <2>2. ASSUME NEW p \in Procs, Writes(p) PROVE Abstract!Next
    BY <2>2, WriteMaps DEF SeedInv
  <2> QED
    BY <2>1, <2>2, OnlyWritesTouchRows
<1> QED
  BY <1>1, <1>2, Invariance, PTL DEF Spec, ImplementsSeedOnce, Abstract!Spec

-----------------------------------------------------------------------------
(* A server that is up knows the tenant.                                   *)

TenantIsThere == RowsIn("tenants") # {}

\* As long as nothing failed, the row of the tenant is there from the moment a
\* process is past the seed, its own or one that it found, or the module is
\* registered; it is then there when the process fills its cache.
PastSeedTenant ==
  faults = 0 =>
    /\ registered => TenantIsThere
    /\ \A p \in Procs :
         /\ pc[p] \in {"core", "register", "tenants"} => TenantIsThere
         /\ pc[p] = "up" => cached[p]

\* A row of the seed is there only when the tenant's is.
LEMMA RowsNeedTenant ==
  ASSUME TypeOK, SeedInv, rows # {}
  PROVE  TenantIsThere
<1> PICK r \in rows : TRUE
  OBVIOUS
<1>1. r.item \in Plan /\ 1 \in 1..r.item
  BY PlanFacts DEF TypeOK, Plan
<1>2. Row(1, r.run) \in rows
  BY <1>1 DEF SeedInv, SeedIsAPrefix
<1>3. TableOf(Row(1, r.run).item) = "tenants"
  BY PlanFacts DEF Row, Plan
<1> QED
  BY <1>2, <1>3 DEF TenantIsThere, RowsIn

LEMMA TenantStep ==
  /\ TypeOK /\ Started /\ SeedInv /\ PastSeedTenant
  /\ TypeOK' /\ SeedInv' /\ [Next]_vars
  => PastSeedTenant'
<1> SUFFICES ASSUME TypeOK, Started, SeedInv, PastSeedTenant, TypeOK', SeedInv', [Next]_vars,
                    faults' = 0
             PROVE  /\ registered' => TenantIsThere'
                    /\ \A q \in Procs :
                         /\ pc'[q] \in {"core", "register", "tenants"} => TenantIsThere'
                         /\ pc'[q] = "up" => cached'[q]
  BY DEF PastSeedTenant
<1> USE DEF TypeOK, Steps
<1>1. ASSUME NEW p \in Procs, Fault(p) PROVE FALSE
  BY <1>1 DEF Fault, CheckFault, InsertFault, CoreFault, LoadFault
<1>2. faults = 0
  BY <1>1 DEF Next, Advance, Boot, CheckUsers, CheckModules, Insert, InsertRejected, FindCore,
              Register, LoadTenants, Crash, vars
<1>3. rows \subseteq rows'
  BY OnlyWritesTouchRows DEF Writes
<1>4. TenantIsThere => TenantIsThere'
  BY <1>3 DEF TenantIsThere, RowsIn
<1>5. rows' # {} => TenantIsThere'
  <2> SUFFICES ASSUME NEW r \in rows' PROVE TenantIsThere'
    OBVIOUS
  <2>1. r.item \in Plan /\ 1 \in 1..r.item
    BY PlanFacts DEF Plan
  <2>2. Row(1, r.run) \in rows'
    BY <2>1 DEF SeedInv, SeedIsAPrefix, Row
  <2>3. TableOf(Row(1, r.run).item) = "tenants"
    BY PlanFacts DEF Row, Plan
  <2> QED
    BY <2>2, <2>3 DEF TenantIsThere, RowsIn
<1>6. ASSUME NEW p \in Procs, CheckUsers(p)
      PROVE  /\ UNCHANGED <<registered, cached>>
             /\ pc'[p] # "up"
             /\ pc'[p] = "core" => TenantIsThere
             /\ pc'[p] \notin {"register", "tenants"}
             /\ \A q \in Procs \ {p} : pc'[q] = pc[q]
  <2>1. RowsIn("users") # {} => TenantIsThere
    BY RowsNeedTenant DEF RowsIn
  <2> QED
    BY <1>6, <2>1 DEF CheckUsers, Goto
<1>7. ASSUME NEW p \in Procs, Insert(p)
      PROVE  /\ UNCHANGED <<registered, cached>>
             /\ pc'[p] \in {"core", "seed"}
             /\ TenantIsThere'
             /\ \A q \in Procs \ {p} : pc'[q] = pc[q]
  BY <1>5, <1>7 DEF Insert, Goto
<1>8. ASSUME NEW p \in Procs, InsertRejected(p)
      PROVE  /\ UNCHANGED <<registered, cached>>
             /\ pc'[p] = "core"
             /\ TenantIsThere
             /\ \A q \in Procs \ {p} : pc'[q] = pc[q]
  BY <1>8 DEF InsertRejected, Goto, Collides, TenantIsThere
<1>9. ASSUME NEW p \in Procs, LoadTenants(p)
      PROVE  /\ UNCHANGED registered
             /\ pc'[p] = "up" /\ cached'[p]
             /\ \A q \in Procs \ {p} : pc'[q] = pc[q] /\ cached'[q] = cached[q]
  <2>1. RowsIn("tenants") # {}
    BY <1>2, <1>9 DEF LoadTenants, PastSeedTenant, TenantIsThere
  <2>2. cached' = [cached EXCEPT ![p] = TRUE]
    BY <1>9, <2>1, Zenon DEF LoadTenants
  <2> QED
    BY <1>9, <2>2 DEF LoadTenants, Goto
<1>10. ASSUME NEW p \in Procs, CheckModules(p) \/ FindCore(p) \/ Register(p)
       PROVE  /\ UNCHANGED cached
              /\ pc'[p] # "up"
              /\ registered' \/ pc'[p] \in {"core", "register", "tenants"} => registered \/ pc[p] \in {"core", "register"}
              /\ \A q \in Procs \ {p} : pc'[q] = pc[q]
  BY <1>10 DEF CheckModules, FindCore, Register, Goto
<1>11. ASSUME NEW p \in Procs, Boot(p) \/ Crash(p)
       PROVE  /\ UNCHANGED registered
              /\ pc'[p] \in {"users", "down"}
              /\ \A q \in Procs \ {p} : pc'[q] = pc[q] /\ cached'[q] = cached[q]
  BY <1>11 DEF Boot, Crash, Goto
<1>12. CASE UNCHANGED vars
  BY <1>2, <1>4, <1>12 DEF vars, PastSeedTenant
<1> QED
  BY <1>1, <1>2, <1>4, <1>6, <1>7, <1>8, <1>9, <1>10, <1>11, <1>12
  DEF Next, Advance, PastSeedTenant

\* A server that is up has the tenant in its cache, if no call failed.
THEOREM UpKnowsTenantEver == Spec => []UpKnowsTenant
<1>1. Init => PastSeedTenant
  BY DEF Init, PastSeedTenant
<1>2. PastSeedTenant => UpKnowsTenant
  BY DEF PastSeedTenant, UpKnowsTenant
<1> QED
  BY <1>1, <1>2, TenantStep, Invariance, PTL DEF Spec

-----------------------------------------------------------------------------
\* The parts of the type invariant that the argument rests on.
InstallTyped ==
  /\ kind \in Kinds
  /\ data \in [Positions -> Nat]
  /\ run \in [Installers -> [step : {"query", "insert", "down", "skipped", "returned", "threw"},
                        at : Nat]]
  /\ \A p \in Installers : run[p].step = "insert" => run[p].at \in Positions

IInv == InstallTyped /\ EarlierRowsAreThere /\ PassedIsWritten

LEMMA PlanLength ==
  ASSUME kind \in Kinds
  PROVE  /\ Len(plan) \in Nat \ {0}
         /\ Positions = 1..Len(plan)
BY PlanAssumption DEF Positions, plan

\* The plan is the one of the procedure, which does not change.
LEMMA SamePlan ==
  ASSUME kind' = kind
  PROVE  plan' = plan /\ Positions' = Positions
BY DEF Positions, plan

\* A step that adds the row of a position whose predecessors are all there,
\* or no row, keeps the order.
LEMMA RowsGrow ==
  ASSUME InstallTyped, NEW i \in Positions, Written(i) \/ UNCHANGED data
  PROVE  /\ kind \in Kinds
         /\ data' \in [Positions -> Nat]
         /\ \A j \in Positions : data[j] > 0 => data'[j] > 0
         /\ \A j \in Positions : j # i => data'[j] = data[j]
BY DEF InstallTyped, Written

LEMMA WrittenIsThere ==
  ASSUME InstallTyped, NEW i \in Positions, Written(i)
  PROVE  data'[i] > 0
BY DEF InstallTyped, Written

LEMMA InitIInv == InstallInit => IInv
BY PlanLength DEF InstallInit, IInv, InstallTyped, EarlierRowsAreThere, PassedIsWritten, NotRunning

\* A step that leaves the rows alone and moves p to a place of which nothing
\* is claimed.
LEMMA Elsewhere ==
  ASSUME IInv, NEW p \in Installers,
         NEW r \in [step : {"query", "insert", "down", "skipped", "returned", "threw"}, at : Nat],
         run' = [run EXCEPT ![p] = r], UNCHANGED <<kind, data>>,
         r.step \notin {"insert", "returned"} \/ (r.step = "insert" /\ r.at = 1)
  PROVE  IInv'
<1>1. InstallTyped'
  BY PlanLength, SamePlan DEF IInv, InstallTyped
<1>2. EarlierRowsAreThere'
  BY SamePlan DEF IInv, EarlierRowsAreThere
<1>3. PassedIsWritten'
  BY SamePlan DEF IInv, InstallTyped, PassedIsWritten
<1> QED BY <1>1, <1>2, <1>3 DEF IInv

LEMMA InsertIInv ==
  ASSUME IInv, NEW p \in Installers, WriteRow(p)
  PROVE  IInv'
<1> DEFINE k == run[p].at
<1>1. /\ InstallTyped /\ k \in Positions /\ Written(k)
      /\ \A i \in 1..(k - 1) : data[i] > 0
  BY DEF IInv, InstallTyped, PassedIsWritten, WriteRow
<1>2. /\ data' \in [Positions -> Nat]
      /\ \A j \in Positions : data[j] > 0 => data'[j] > 0
      /\ \A j \in Positions : j # k => data'[j] = data[j]
      /\ data'[k] > 0
  BY <1>1, RowsGrow, WrittenIsThere
<1>3. \A i \in 1..k : data'[i] > 0
  BY <1>1, <1>2, PlanLength DEF InstallTyped
<1>4. /\ run' = [run EXCEPT ![p] = IF k < Len(plan) THEN [step |-> "insert", at |-> k + 1]
                                   ELSE [step |-> "returned", at |-> 0]]
      /\ kind \in Kinds /\ kind' = kind /\ plan' = plan /\ Positions' = Positions
  BY <1>1, SamePlan DEF WriteRow, Moves, InstallTyped
<1>5. InstallTyped'
  BY <1>1, <1>2, <1>4, PlanLength DEF InstallTyped
<1>6. EarlierRowsAreThere'
  BY <1>1, <1>2, <1>3, <1>4, PlanLength DEF IInv, EarlierRowsAreThere
<1>7. ASSUME NEW q \in Installers
      PROVE  /\ run'[q].step = "insert" => \A i \in 1..(run'[q].at - 1) : data'[i] > 0
             /\ run'[q].step = "returned" => \A i \in Positions : data'[i] > 0
  <2>1. CASE q = p
    <3>1. CASE k < Len(plan)
      BY <1>1, <1>3, <1>4, <2>1, <3>1 DEF InstallTyped
    <3>2. CASE ~(k < Len(plan))
      BY <1>1, <1>3, <1>4, <2>1, <3>2, PlanLength DEF InstallTyped
    <3> QED BY <3>1, <3>2
  <2>2. CASE q # p
    <3>1. run'[q] = run[q]
      BY <1>1, <1>4, <2>2 DEF InstallTyped
    <3>2. run[q].step = "insert" => run[q].at \in Positions /\ run[q].at \in Nat
      BY <1>1 DEF InstallTyped
    <3> QED BY <1>2, <1>4, <3>1, <3>2, PlanLength DEF IInv, PassedIsWritten
  <2> QED BY <2>1, <2>2
<1>8. PassedIsWritten'
  BY <1>4, <1>7 DEF PassedIsWritten
<1> QED BY <1>5, <1>6, <1>8 DEF IInv

LEMMA FaultIInv ==
  ASSUME IInv, NEW p \in Installers, Fail(p)
  PROVE  IInv'
<1> DEFINE k == run[p].at
<1>1. CASE UNCHANGED data
  BY <1>1, Elsewhere DEF Fail, Moves
<1>2. CASE run[p].step = "insert" /\ Written(k)
  <2>1. /\ InstallTyped /\ k \in Positions
        /\ \A i \in 1..(k - 1) : data[i] > 0
    BY <1>2 DEF IInv, InstallTyped, PassedIsWritten
  <2>2. /\ data' \in [Positions -> Nat]
        /\ \A j \in Positions : data[j] > 0 => data'[j] > 0
        /\ \A j \in Positions : j # k => data'[j] = data[j]
    BY <1>2, <2>1, RowsGrow
  <2>3. /\ run' = [run EXCEPT ![p] = [step |-> "threw", at |-> 0]]
        /\ kind \in Kinds /\ kind' = kind /\ plan' = plan /\ Positions' = Positions
    BY <2>1, SamePlan DEF Fail, Moves, InstallTyped
  <2>4. InstallTyped'
    BY <2>1, <2>2, <2>3 DEF InstallTyped
  <2>5. EarlierRowsAreThere'
    BY <2>1, <2>2, <2>3, PlanLength DEF IInv, EarlierRowsAreThere
  <2>6. ASSUME NEW q \in Installers
        PROVE  /\ run'[q].step = "insert" => \A i \in 1..(run'[q].at - 1) : data'[i] > 0
               /\ run'[q].step = "returned" => \A i \in Positions : data'[i] > 0
    <3>1. CASE q = p
      BY <2>1, <2>3, <3>1 DEF InstallTyped
    <3>2. CASE q # p
      <4>1. run'[q] = run[q]
        BY <2>1, <2>3, <3>2 DEF InstallTyped
      <4>2. run[q].step = "insert" => run[q].at \in Positions /\ run[q].at \in Nat
        BY <2>1 DEF InstallTyped
      <4> QED BY <2>2, <2>3, <4>1, <4>2, PlanLength DEF IInv, PassedIsWritten
    <3> QED BY <3>1, <3>2
  <2>7. PassedIsWritten'
    BY <2>3, <2>6 DEF PassedIsWritten
  <2> QED BY <2>4, <2>5, <2>7 DEF IInv
<1> QED BY <1>1, <1>2 DEF Fail

LEMMA NextIInv == IInv /\ [InstallNext]_installVars => IInv'
<1> SUFFICES ASSUME IInv, [InstallNext]_installVars PROVE IInv'
  OBVIOUS
<1>1. ASSUME NEW p \in Installers, Start(p) PROVE IInv'
  BY <1>1, Elsewhere DEF Start, Moves
<1>2. ASSUME NEW p \in Installers, Query(p) PROVE IInv'
  <2>1. run[p].at + 1 \in Nat
    BY DEF IInv, InstallTyped
  <2> QED BY <1>2, <2>1, Elsewhere DEF Query, Moves
<1>3. ASSUME NEW p \in Installers, WriteRow(p) PROVE IInv'
  BY <1>3, InsertIInv
<1>4. ASSUME NEW p \in Installers, RefuseRow(p) PROVE IInv'
  BY <1>4, Elsewhere DEF RefuseRow, Moves
<1>5. ASSUME NEW p \in Installers, Fail(p) PROVE IInv'
  BY <1>5, FaultIInv
<1>6. ASSUME NEW p \in Installers, Die(p) PROVE IInv'
  BY <1>6, Elsewhere DEF Die, NotRunning
<1>7. CASE UNCHANGED installVars
  BY <1>7, SamePlan DEF installVars, IInv, InstallTyped, EarlierRowsAreThere, PassedIsWritten
<1> QED BY <1>1, <1>2, <1>3, <1>4, <1>5, <1>6, <1>7 DEF InstallNext

\* Whatever fails and dies and however many processes install, a row is in the
\* database only together with those before it in the plan.
THEOREM EarlierRowsEver == InstallSpec => []EarlierRowsAreThere
<1>1. IInv => EarlierRowsAreThere
  BY DEF IInv
<1> QED BY <1>1, InitIInv, NextIInv, PTL DEF InstallSpec

\* An install() that returns because it has come to the end leaves every row of
\* the plan in the database.
THEOREM PassedIsWrittenEver == InstallSpec => []PassedIsWritten
<1>1. IInv => PassedIsWritten
  BY DEF IInv
<1> QED BY <1>1, InitIInv, NextIInv, PTL DEF InstallSpec

-----------------------------------------------------------------------------
(* How often a row is written.                                             *)

\* The runs under way that have not passed position i.
Pending(i) ==
  {p \in Installers : run[p].step = "query" \/ (run[p].step = "insert" /\ run[p].at <= i)}

\* Every run passes a position once at most.
EachRunOnce ==
  \A i \in Positions : IsFiniteSet(Pending(i)) /\ data[i] + Cardinality(Pending(i)) <= runs

LEMMA GuardLength ==
  ASSUME kind \in Kinds
  PROVE  /\ Len(guards) \in Nat \ {0}
         /\ DOMAIN guards = 1..Len(guards)
<1>1. guards \in Seq(Tables(kind)) /\ guards # <<>>
  BY GuardsAssumption DEF guards
<1> QED
  BY <1>1

\* The places of processes, one step on.
LEMMA InstallPlaces ==
  ASSUME InstallTypeOK, NEW p \in Installers,
         NEW s, NEW n, Moves(p, s, n), UNCHANGED kind,
         \/ s = "query" /\ n \in DOMAIN guards
         \/ s = "insert" /\ n \in Positions
         \/ s \in {"down", "skipped", "returned", "threw"} /\ n = 0
  PROVE  /\ run' \in [Installers ->
              [step : {"query", "insert", "down", "skipped", "returned", "threw"}, at : Nat]]
         /\ \A q \in Installers :
              CASE run'[q].step = "query"  -> run'[q].at \in DOMAIN guards'
                [] run'[q].step = "insert" -> run'[q].at \in Positions'
                [] OTHER                  -> run'[q].at = 0
<1>1. guards' = guards /\ Positions' = Positions
  BY DEF guards, Positions, plan
<1>2. kind \in Kinds /\ DOMAIN guards \subseteq Nat /\ Positions \subseteq Nat
  BY GuardLength, PlanLength DEF InstallTypeOK
<1>3. n \in Nat /\ s \in {"query", "insert", "down", "skipped", "returned", "threw"}
  <2>1. CASE s = "query" /\ n \in DOMAIN guards
    BY <1>2, <2>1
  <2>2. CASE s = "insert" /\ n \in Positions
    BY <1>2, <2>2
  <2>3. CASE s \in {"down", "skipped", "returned", "threw"} /\ n = 0
    BY <2>3
  <2> QED
    BY <2>1, <2>2, <2>3
<1>4. run \in [Installers ->
        [step : {"query", "insert", "down", "skipped", "returned", "threw"}, at : Nat]]
  BY DEF InstallTypeOK
<1>5. run' = [run EXCEPT ![p] = [step |-> s, at |-> n]]
  BY DEF Moves
<1>6. run' \in [Installers ->
        [step : {"query", "insert", "down", "skipped", "returned", "threw"}, at : Nat]]
  BY <1>3, <1>4, <1>5
<1>7. ASSUME NEW q \in Installers
      PROVE  CASE run'[q].step = "query"  -> run'[q].at \in DOMAIN guards
               [] run'[q].step = "insert" -> run'[q].at \in Positions
               [] OTHER                  -> run'[q].at = 0
  <2>1. CASE q # p
    <3>1. run'[q] = run[q]
      BY <1>4, <1>5, <2>1
    <3>2. (CASE run[q].step = "query"  -> run[q].at \in DOMAIN guards
             [] run[q].step = "insert" -> run[q].at \in Positions
             [] OTHER                  -> run[q].at = 0)
      BY Zenon DEF InstallTypeOK
    <3> QED
      BY <3>1, <3>2, Zenon
  <2>2. CASE q = p
    <3>1. run'[q].step = s /\ run'[q].at = n
      BY <1>4, <1>5, <2>2
    <3> QED
      BY <3>1
  <2> QED
    BY <2>1, <2>2
<1> QED
  BY <1>1, <1>6, <1>7, Zenon

\* The type of the places, without CASE.
LEMMA InstallPlace ==
  ASSUME InstallTypeOK, NEW p \in Installers
  PROVE  /\ run[p].step \in {"query", "insert", "down", "skipped", "returned", "threw"}
         /\ run[p].at \in Nat
         /\ run[p].step = "query" => run[p].at \in DOMAIN guards
         /\ run[p].step = "insert" => run[p].at \in Positions
         /\ kind \in Kinds /\ Len(guards) \in Nat \ {0} /\ DOMAIN guards = 1..Len(guards)
         /\ Len(plan) \in Nat \ {0} /\ Positions = 1..Len(plan)
<1>1. (CASE run[p].step = "query"  -> run[p].at \in DOMAIN guards
         [] run[p].step = "insert" -> run[p].at \in Positions
         [] OTHER                  -> run[p].at = 0)
  BY Zenon DEF InstallTypeOK
<1>2. run[p] \in [step : {"query", "insert", "down", "skipped", "returned", "threw"}, at : Nat]
  BY DEF InstallTypeOK
<1>3. kind \in Kinds
  BY DEF InstallTypeOK
<1> QED
  BY <1>1, <1>2, <1>3, PlanLength, GuardLength

\* What a run still has to pass, when only p moves.
LEMMA PendingMoves ==
  ASSUME InstallTypeOK, NEW p \in Installers, NEW s, NEW n \in Nat, Moves(p, s, n), NEW i
  PROVE  /\ s = "query" \/ (s = "insert" /\ n <= i) => Pending(i)' = Pending(i) \cup {p}
         /\ ~(s = "query" \/ (s = "insert" /\ n <= i)) => Pending(i)' = Pending(i) \ {p}
<1>1. \A q \in Installers :
        /\ run[q].step = run[q].step
        /\ q # p => run'[q] = run[q]
        /\ q = p => run'[q].step = s /\ run'[q].at = n
  BY DEF Moves, InstallTypeOK
<1> QED
  BY <1>1 DEF Pending

\* The runs that have to pass a position, with one fewer or one more.
LEMMA PendingGone ==
  ASSUME NEW P, NEW Q, NEW p, IsFiniteSet(P), Q = P \ {p},
         NEW d \in Nat, NEW m \in Nat, d + Cardinality(P) <= m
  PROVE  /\ IsFiniteSet(Q) /\ d + Cardinality(Q) <= m
         /\ p \in P => d + 1 + Cardinality(Q) <= m
<1>1. Cardinality(P) \in Nat
  BY FS_CardinalityType
<1>2. CASE p \in P
  <2>1. IsFiniteSet(Q) /\ Cardinality(Q) = Cardinality(P) - 1
    BY <1>2, FS_RemoveElement
  <2> QED
    BY <1>1, <2>1
<1>3. CASE p \notin P
  <2>1. Q = P
    BY <1>3
  <2> QED
    BY <1>3, <2>1
<1> QED
  BY <1>2, <1>3

LEMMA PendingCame ==
  ASSUME NEW P, NEW Q, NEW p, IsFiniteSet(P), Q = P \cup {p},
         NEW d \in Nat, NEW m \in Nat, d + Cardinality(P) <= m
  PROVE  IsFiniteSet(Q) /\ d + Cardinality(Q) <= m + 1 /\ (p \in P => Q = P)
<1>1. Cardinality(P) \in Nat
  BY FS_CardinalityType
<1>2. CASE p \in P
  <2>1. Q = P
    BY <1>2
  <2> QED
    BY <1>1, <2>1
<1>3. CASE p \notin P
  <2>1. IsFiniteSet(Q) /\ Cardinality(Q) = Cardinality(P) + 1
    BY <1>3, FS_AddElement
  <2> QED
    BY <1>1, <1>3, <2>1
<1> QED
  BY <1>2, <1>3

TypeAndCount == InstallTypeOK /\ EachRunOnce

\* A step that writes no row and starts no run.
LEMMA WritesNothing ==
  ASSUME TypeAndCount, NEW p \in Installers, NEW s, NEW n, Moves(p, s, n),
         UNCHANGED <<kind, data, runs, overlapped>>, failures' \in 0..MaxFailures,
         UnderWay(p),
         \/ s = "query" /\ n \in DOMAIN guards /\ run[p].step = "query"
         \/ s = "insert" /\ n = 1 /\ run[p].step = "query"
         \/ s \in {"down", "skipped", "returned", "threw"} /\ n = 0
  PROVE  TypeAndCount'
<1>1. n \in Nat /\ 1 \in Positions
  BY InstallPlace DEF TypeAndCount
<1>2. InstallTypeOK'
  <2>1. /\ run' \in [Installers ->
              [step : {"query", "insert", "down", "skipped", "returned", "threw"}, at : Nat]]
        /\ \A q \in Installers :
             CASE run'[q].step = "query"  -> run'[q].at \in DOMAIN guards'
               [] run'[q].step = "insert" -> run'[q].at \in Positions'
               [] OTHER                  -> run'[q].at = 0
    BY <1>1, InstallPlaces DEF TypeAndCount
  <2>2. /\ kind' \in Kinds /\ data' \in [Positions' -> 0..MaxRuns] /\ runs' \in 0..MaxRuns
        /\ failures' \in 0..MaxFailures /\ overlapped' \in BOOLEAN
    BY SamePlan DEF TypeAndCount, InstallTypeOK
  <2> QED
    BY <2>1, <2>2, Zenon DEF InstallTypeOK
<1>3. EachRunOnce'
  <2>1. Positions' = Positions
    BY SamePlan
  <2>2. ASSUME NEW i \in Positions PROVE IsFiniteSet(Pending(i)') /\ data'[i] + Cardinality(Pending(i)') <= runs'
    <3>1. PICK P : P = Pending(i)
      OBVIOUS
    <3>2. IsFiniteSet(P) /\ data[i] + Cardinality(P) <= runs /\ data[i] \in Nat /\ runs \in Nat /\ i \in Nat
      BY <3>1, InstallPlace, InstallBounds DEF TypeAndCount, EachRunOnce, InstallTypeOK
    <3>3. Pending(i)' = P \/ Pending(i)' = P \ {p}
      <4>1. CASE s \in {"query", "insert"}
        <5>1. p \in Pending(i)
          BY <4>1 DEF Pending
        <5>2. Pending(i)' = P \cup {p} \/ Pending(i)' = P \ {p}
          BY <1>1, <3>1, PendingMoves DEF TypeAndCount
        <5> QED
          BY <3>1, <5>1, <5>2
      <4>2. CASE s \notin {"query", "insert"}
        BY <1>1, <3>1, <4>2, PendingMoves DEF TypeAndCount
      <4> QED
        BY <4>1, <4>2
    <3>4. PICK Q : Q = Pending(i)'
      OBVIOUS
    <3>5. CASE Q = P \ {p}
      <4>1. IsFiniteSet(Q) /\ data[i] + Cardinality(Q) <= runs
        BY <3>2, <3>5, PendingGone
      <4> QED
        BY <3>4, <4>1
    <3>6. CASE Q = P
      BY <3>2, <3>4, <3>6
    <3> QED
      BY <3>3, <3>4, <3>5, <3>6
  <2> QED
    BY <2>1, <2>2 DEF EachRunOnce
<1> QED
  BY <1>2, <1>3 DEF TypeAndCount

\* A step that may write the row that its process is at, which it passes.
LEMMA WritesOne ==
  ASSUME TypeAndCount, NEW p \in Installers, run[p].step = "insert", NEW s, NEW n, Moves(p, s, n),
         UNCHANGED <<kind, runs, overlapped>>, failures' \in 0..MaxFailures,
         Written(run[p].at),
         \/ s = "insert" /\ n = run[p].at + 1 /\ run[p].at < Len(plan)
         \/ s \in {"returned", "threw"} /\ n = 0
  PROVE  TypeAndCount'
<1>1. PICK k \in Positions : k = run[p].at
  BY InstallPlace DEF TypeAndCount
<1>2. Len(plan) \in Nat /\ Positions = 1..Len(plan) /\ k \in Nat
  BY <1>1, InstallPlace DEF TypeAndCount
<1>3. n \in Nat /\ (s = "insert" => n \in Positions /\ n = k + 1)
  BY <1>1, <1>2
<1>4. /\ data \in [Positions -> 0..MaxRuns] /\ runs \in 0..MaxRuns /\ MaxRuns \in Nat
      /\ \A i \in Positions : data[i] \in Nat
  BY InstallBounds DEF TypeAndCount, InstallTypeOK
<1>5. /\ data' = data \/ data' = [data EXCEPT ![k] = @ + 1]
  BY <1>1 DEF Written
<1>6. Positions' = Positions
  BY SamePlan
<1>7. ASSUME NEW i \in Positions
      PROVE  /\ IsFiniteSet(Pending(i)') /\ data'[i] + Cardinality(Pending(i)') <= runs
             /\ data'[i] \in 0..MaxRuns
  <2>1. PICK P : P = Pending(i)
    OBVIOUS
  <2>2. IsFiniteSet(P) /\ data[i] + Cardinality(P) <= runs /\ data[i] \in Nat /\ runs \in Nat /\ i \in Nat
    BY <1>2, <1>4, <2>1 DEF TypeAndCount, EachRunOnce
  <2>3. PICK Q : Q = Pending(i)'
    OBVIOUS
  <2>4. p \in P <=> k <= i
    BY <1>1, <2>1 DEF Pending
  <2>5. /\ s = "insert" /\ k + 1 <= i => Q = P \cup {p}
        /\ ~(s = "insert" /\ k + 1 <= i) => Q = P \ {p}
    BY <1>3, <2>1, <2>3, PendingMoves DEF TypeAndCount
  <2>6. i # k => data'[i] = data[i]
    BY <1>4, <1>5
  <2>7. i = k => data'[i] = data[i] \/ data'[i] = data[i] + 1
    BY <1>4, <1>5
  <2>8. CASE s = "insert" /\ k + 1 <= i
    <3>1. p \in P /\ i # k
      BY <1>2, <2>2, <2>4, <2>8
    <3>2. Q = P
      BY <2>2, <2>5, <2>8, <3>1, PendingCame
    <3> QED
      BY <1>4, <2>2, <2>3, <2>6, <3>1, <3>2, FS_CardinalityType
  <2>9. CASE ~(s = "insert" /\ k + 1 <= i)
    <3>1. Q = P \ {p}
      BY <2>5, <2>9
    <3>2. IsFiniteSet(Q) /\ data[i] + Cardinality(Q) <= runs
      BY <2>2, <3>1, PendingGone
    <3>3. i = k => data[i] + 1 + Cardinality(Q) <= runs
      <4>1. i = k => p \in P
        BY <1>2, <2>4
      <4> QED
        BY <2>2, <3>1, <4>1, PendingGone
    <3>4. Cardinality(Q) \in Nat
      BY <3>2, FS_CardinalityType
    <3> QED
      BY <1>4, <2>2, <2>3, <2>6, <2>7, <3>2, <3>3, <3>4
  <2> QED
    BY <2>8, <2>9
<1>8. data' \in [Positions -> 0..MaxRuns]
  BY <1>4, <1>5, <1>7
<1>9. InstallTypeOK'
  <2>1. /\ run' \in [Installers ->
              [step : {"query", "insert", "down", "skipped", "returned", "threw"}, at : Nat]]
        /\ \A q \in Installers :
             CASE run'[q].step = "query"  -> run'[q].at \in DOMAIN guards'
               [] run'[q].step = "insert" -> run'[q].at \in Positions'
               [] OTHER                  -> run'[q].at = 0
    BY <1>3, InstallPlaces DEF TypeAndCount
  <2>2. /\ kind' \in Kinds /\ data' \in [Positions' -> 0..MaxRuns] /\ runs' \in 0..MaxRuns
        /\ failures' \in 0..MaxFailures /\ overlapped' \in BOOLEAN
    BY <1>6, <1>8 DEF TypeAndCount, InstallTypeOK
  <2> QED
    BY <2>1, <2>2, Zenon DEF InstallTypeOK
<1>10. EachRunOnce'
  BY <1>6, <1>7 DEF EachRunOnce
<1> QED
  BY <1>9, <1>10 DEF TypeAndCount

LEMMA InstallTypeInit == InstallInit => TypeAndCount
<1> SUFFICES ASSUME InstallInit PROVE TypeAndCount
  OBVIOUS
<1> USE DEF InstallInit, NotRunning
<1>1. \A p \in Installers : run[p].step = "down" /\ run[p].at = 0
  OBVIOUS
<1>2. \A p \in Installers :
        CASE run[p].step = "query"  -> run[p].at \in DOMAIN guards
          [] run[p].step = "insert" -> run[p].at \in Positions
          [] OTHER                  -> run[p].at = 0
  <2> SUFFICES ASSUME NEW p \in Installers
               PROVE  CASE run[p].step = "query"  -> run[p].at \in DOMAIN guards
                        [] run[p].step = "insert" -> run[p].at \in Positions
                        [] OTHER                  -> run[p].at = 0
    OBVIOUS
  <2> QED
    BY <1>1
<1>3. /\ data \in [Positions -> 0..MaxRuns] /\ runs \in 0..MaxRuns /\ failures \in 0..MaxFailures
      /\ run \in [Installers ->
           [step : {"query", "insert", "down", "skipped", "returned", "threw"}, at : Nat]]
  BY InstallBounds
<1>4. InstallTypeOK
  BY <1>2, <1>3, Zenon DEF InstallTypeOK
<1>5. ASSUME NEW i \in Positions PROVE IsFiniteSet(Pending(i)) /\ data[i] + Cardinality(Pending(i)) <= runs
  <2>1. Pending(i) = {}
    BY <1>1 DEF Pending
  <2> QED
    BY <2>1, FS_EmptySet
<1> QED
  BY <1>4, <1>5 DEF TypeAndCount, EachRunOnce

LEMMA InstallTypeStep == TypeAndCount /\ [InstallNext]_installVars => TypeAndCount'
<1> SUFFICES ASSUME TypeAndCount, [InstallNext]_installVars PROVE TypeAndCount'
  OBVIOUS
<1>0. failures \in 0..MaxFailures /\ MaxFailures \in Nat /\ runs \in 0..MaxRuns /\ MaxRuns \in Nat
  BY InstallBounds DEF TypeAndCount, InstallTypeOK
<1>1. ASSUME NEW p \in Installers, Start(p) PROVE TypeAndCount'
  <2>1. Moves(p, "query", 1) /\ UNCHANGED <<kind, data, failures>> /\ runs' = runs + 1 /\ runs < MaxRuns
    BY <1>1 DEF Start
  <2>2. 1 \in DOMAIN guards
    BY InstallPlace DEF TypeAndCount
  <2>3. /\ run' \in [Installers ->
              [step : {"query", "insert", "down", "skipped", "returned", "threw"}, at : Nat]]
        /\ \A q \in Installers :
             CASE run'[q].step = "query"  -> run'[q].at \in DOMAIN guards'
               [] run'[q].step = "insert" -> run'[q].at \in Positions'
               [] OTHER                  -> run'[q].at = 0
    BY <2>1, <2>2, InstallPlaces DEF TypeAndCount
  <2>4. /\ kind' \in Kinds /\ data' \in [Positions' -> 0..MaxRuns] /\ runs' \in 0..MaxRuns
        /\ failures' \in 0..MaxFailures
    BY <1>0, <2>1, SamePlan DEF TypeAndCount, InstallTypeOK
  <2>5. overlapped' \in BOOLEAN
    BY <1>1 DEF Start, TypeAndCount, InstallTypeOK
  <2>6. InstallTypeOK'
    BY <2>3, <2>4, <2>5, Zenon DEF InstallTypeOK
  <2>7. ASSUME NEW i \in Positions PROVE IsFiniteSet(Pending(i)') /\ data'[i] + Cardinality(Pending(i)') <= runs'
    <3>1. PICK P : P = Pending(i)
      OBVIOUS
    <3>2. IsFiniteSet(P) /\ data[i] + Cardinality(P) <= runs /\ data[i] \in Nat /\ runs \in Nat
      BY <1>0, <3>1 DEF TypeAndCount, EachRunOnce, InstallTypeOK
    <3>3. Pending(i)' = P \cup {p}
      BY <2>1, <3>1, PendingMoves DEF TypeAndCount
    <3>4. PICK Q : Q = P \cup {p}
      OBVIOUS
    <3>5. IsFiniteSet(Q) /\ data[i] + Cardinality(Q) <= runs + 1
      BY <3>2, <3>4, PendingCame
    <3> QED
      BY <2>1, <3>3, <3>4, <3>5
  <2>8. EachRunOnce'
    BY <2>1, <2>7, SamePlan DEF EachRunOnce
  <2> QED
    BY <2>6, <2>8 DEF TypeAndCount
<1>2. ASSUME NEW p \in Installers, Query(p) PROVE TypeAndCount'
  <2>1. run[p].step = "query" /\ UnderWay(p) /\ UNCHANGED <<kind, data, runs, failures, overlapped>>
    BY <1>2 DEF Query, UnderWay
  <2>2. \/ Moves(p, "skipped", 0) \/ Moves(p, "insert", 1)
        \/ run[p].at < Len(guards) /\ Moves(p, "query", run[p].at + 1)
    BY <1>2 DEF Query
  <2>3. run[p].at < Len(guards) => run[p].at + 1 \in DOMAIN guards
    BY InstallPlace DEF TypeAndCount
  <2> QED
    BY <1>0, <2>1, <2>2, <2>3, WritesNothing
<1>3. ASSUME NEW p \in Installers, WriteRow(p) PROVE TypeAndCount'
  BY <1>0, <1>3, WritesOne DEF WriteRow
<1>4. ASSUME NEW p \in Installers, RefuseRow(p) PROVE TypeAndCount'
  BY <1>0, <1>4, WritesNothing DEF RefuseRow, UnderWay
<1>5. ASSUME NEW p \in Installers, Fail(p) PROVE TypeAndCount'
  <2>1. failures' \in 0..MaxFailures
    BY <1>0, <1>5 DEF Fail
  <2>2. CASE UNCHANGED data
    BY <1>5, <2>1, <2>2, WritesNothing DEF Fail
  <2>3. CASE ~UNCHANGED data
    BY <1>5, <2>1, <2>3, WritesOne DEF Fail
  <2> QED
    BY <2>2, <2>3
<1>6. ASSUME NEW p \in Installers, Die(p) PROVE TypeAndCount'
  <2>1. Moves(p, "down", 0)
    BY <1>6 DEF Die, Moves, NotRunning
  <2> QED
    BY <1>0, <1>6, <2>1, WritesNothing DEF Die
<1>7. CASE UNCHANGED installVars
  <2>1. guards' = guards /\ plan' = plan /\ Positions' = Positions
    BY <1>7, SamePlan DEF installVars, guards
  <2>2. InstallTypeOK'
    BY <1>7, <2>1, Zenon DEF TypeAndCount, InstallTypeOK, installVars
  <2>3. EachRunOnce'
    BY <1>7, <2>1 DEF TypeAndCount, EachRunOnce, Pending, installVars
  <2> QED
    BY <2>2, <2>3 DEF TypeAndCount
<1> QED
  BY <1>1, <1>2, <1>3, <1>4, <1>5, <1>6, <1>7 DEF InstallNext

-----------------------------------------------------------------------------
(* Rows that are written once.                                             *)

GuardTable(i) == \E g \in DOMAIN guards : plan[i] = guards[g]

\* A row that is left alone or refused where it is there is written once.
OnceIsOnce ==
  \A i \in Positions : plan[i] \in Once[kind] \/ plan[i] \in Unique[kind] => data[i] <= 1

\* Where no runs overlap: one is under way; what it has looked for is not there;
\* and of those rows it has only written what it has passed.
AloneIsOnce ==
  /\ \A p, q \in Installers : UnderWay(p) /\ UnderWay(q) => p = q
  /\ \A p \in Installers : run[p].step = "query" =>
       \A g \in DOMAIN guards : g < run[p].at => ~Holds(guards[g])
  /\ \A p \in Installers : run[p].step = "insert" =>
       \A i \in Positions : run[p].at <= i /\ GuardTable(i) => data[i] = 0
  /\ \A i \in Positions : GuardTable(i) => data[i] <= 1

\* Where the first row is unique: only one run ever gets past it.
FirstIsOnce ==
  /\ \A i \in Positions : data[i] <= 1
  /\ \A p, q \in Installers :
       run[p].step = "insert" /\ run[p].at > 1 /\ run[q].step = "insert" /\ run[q].at > 1 => p = q
  /\ \A p \in Installers : run[p].step = "insert" /\ run[p].at > 1 =>
       \A i \in Positions : run[p].at <= i => data[i] = 0

SoleInv ==
  /\ OnceIsOnce
  /\ ~overlapped => AloneIsOnce
  /\ plan[1] \in Unique[kind] => FirstIsOnce

\* The plan, its tables and who is under way, where only p moves.
LEMMA OnlyOneMoves ==
  ASSUME InstallTypeOK, NEW p \in Installers, NEW s, NEW n, Moves(p, s, n), UNCHANGED kind
  PROVE  /\ plan' = plan /\ guards' = guards /\ Positions' = Positions
         /\ \A i : GuardTable(i)' <=> GuardTable(i)
         /\ run'[p].step = s /\ run'[p].at = n
         /\ \A q \in Installers : q # p => run'[q] = run[q]
         /\ UnderWay(p)' <=> s \in {"query", "insert"}
         /\ \A q \in Installers : q # p => (UnderWay(q)' <=> UnderWay(q))
<1>1. plan' = plan /\ guards' = guards /\ Positions' = Positions
  BY DEF plan, guards, Positions
<1>2. /\ run'[p].step = s /\ run'[p].at = n
      /\ \A q \in Installers : q # p => run'[q] = run[q]
  BY DEF Moves, InstallTypeOK
<1>3. \A i : GuardTable(i)' <=> GuardTable(i)
  BY <1>1 DEF GuardTable
<1> QED
  BY <1>1, <1>2, <1>3 DEF UnderWay

\* A step that writes nothing.
LEMMA SoleWithoutWrite ==
  ASSUME InstallTypeOK, SoleInv, NEW p \in Installers, NEW s, NEW n, Moves(p, s, n),
         UNCHANGED <<kind, data>>,
         ~overlapped' => ~overlapped,
         s \notin {"query", "insert"} \/ s = "query" \/ (s = "insert" /\ n = 1),
         ~overlapped' =>
           /\ s \in {"query", "insert"} => UnderWay(p) \/ \A q \in Installers : ~UnderWay(q)
           /\ s = "query" => \A g \in DOMAIN guards : g < n => ~Holds(guards[g])
           /\ s = "insert" => \A g \in DOMAIN guards : ~Holds(guards[g])
  PROVE  SoleInv'
<1>1. /\ plan' = plan /\ guards' = guards /\ Positions' = Positions
      /\ \A i : GuardTable(i)' <=> GuardTable(i)
      /\ run'[p].step = s /\ run'[p].at = n
      /\ \A q \in Installers : q # p => run'[q] = run[q]
      /\ UnderWay(p)' <=> s \in {"query", "insert"}
      /\ \A q \in Installers : q # p => (UnderWay(q)' <=> UnderWay(q))
  BY OnlyOneMoves
<1>2. OnceIsOnce'
  BY <1>1 DEF SoleInv, OnceIsOnce
<1>3. ASSUME ~overlapped' PROVE AloneIsOnce'
  <2>1. ~overlapped /\ AloneIsOnce
    BY <1>3 DEF SoleInv
  <2>2. \A t : Holds(t)' <=> Holds(t)
    BY <1>1 DEF Holds
  <2>3. ASSUME NEW q \in Installers, NEW r \in Installers, UnderWay(q)', UnderWay(r)' PROVE q = r
    <3>1. CASE s \in {"query", "insert"}
      BY <1>1, <1>3, <2>1, <2>3, <3>1 DEF AloneIsOnce
    <3>2. CASE s \notin {"query", "insert"}
      BY <1>1, <2>1, <2>3, <3>2 DEF AloneIsOnce
    <3> QED
      BY <3>1, <3>2
  <2>4. ASSUME NEW q \in Installers, run'[q].step = "query", NEW g \in DOMAIN guards, g < run'[q].at
        PROVE  ~Holds(guards[g])
    <3>1. CASE q = p
      BY <1>1, <1>3, <2>4, <3>1
    <3>2. CASE q # p
      BY <1>1, <2>1, <2>4, <3>2 DEF AloneIsOnce
    <3> QED
      BY <3>1, <3>2
  <2>5. ASSUME NEW q \in Installers, run'[q].step = "insert",
               NEW i \in Positions, run'[q].at <= i, GuardTable(i)
        PROVE  data[i] = 0
    <3>1. CASE q = p
      <4>1. \A g \in DOMAIN guards : ~Holds(guards[g])
        BY <1>1, <1>3, <2>5, <3>1
      <4>2. ~(data[i] > 0)
        BY <2>5, <4>1 DEF Holds, GuardTable
      <4>3. data[i] \in Nat
        BY InstallBounds DEF InstallTypeOK
      <4> QED
        BY <4>2, <4>3
    <3>2. CASE q # p
      BY <1>1, <2>1, <2>5, <3>2 DEF AloneIsOnce
    <3> QED
      BY <3>1, <3>2
  <2>6. \A i \in Positions : GuardTable(i) => data[i] <= 1
    BY <2>1 DEF AloneIsOnce
  <2>7. \A q \in Installers : run'[q].step = "query" =>
          \A g \in DOMAIN guards' : g < run'[q].at => ~Holds(guards[g])'
    BY <1>1, <2>2, <2>4 DEF Holds
  <2>8. \A q \in Installers : run'[q].step = "insert" =>
          \A i \in Positions' : run'[q].at <= i /\ GuardTable(i)' => data'[i] = 0
    BY <1>1, <2>5
  <2>9. \A i \in Positions' : GuardTable(i)' => data'[i] <= 1
    BY <1>1, <2>6
  <2> QED
    BY <2>3, <2>7, <2>8, <2>9 DEF AloneIsOnce
<1>4. ASSUME (plan[1] \in Unique[kind])' PROVE FirstIsOnce'
  <2>1. FirstIsOnce
    BY <1>1, <1>4 DEF SoleInv
  <2>2. \A q \in Installers : run'[q].step = "insert" /\ run'[q].at > 1 => q # p
    BY <1>1
  <2> QED
    BY <1>1, <2>1, <2>2 DEF FirstIsOnce
<1> QED
  BY <1>2, <1>3, <1>4 DEF SoleInv

\* A step that writes the row that its process is at.
LEMMA SoleWithWrite ==
  ASSUME InstallTypeOK, IInv, SoleInv, NEW p \in Installers, NEW s, NEW n, Moves(p, s, n),
         UNCHANGED <<kind, overlapped>>,
         run[p].step = "insert", ~RowRefused(run[p].at), Written(run[p].at),
         s \notin {"query", "insert"} \/ (s = "insert" /\ n = run[p].at + 1)
  PROVE  SoleInv'
<1>1. /\ plan' = plan /\ guards' = guards /\ Positions' = Positions
      /\ \A i : GuardTable(i)' <=> GuardTable(i)
      /\ run'[p].step = s /\ run'[p].at = n
      /\ \A q \in Installers : q # p => run'[q] = run[q]
      /\ UnderWay(p)' <=> s \in {"query", "insert"}
      /\ \A q \in Installers : q # p => (UnderWay(q)' <=> UnderWay(q))
  BY OnlyOneMoves
<1>2. PICK k \in Positions : k = run[p].at
  BY InstallPlace
<1>3. /\ Len(plan) \in Nat /\ Positions = 1..Len(plan) /\ k \in Nat /\ 1 \in Positions
      /\ \A i \in Positions : data[i] \in Nat
  BY <1>2, InstallPlace, InstallBounds DEF InstallTypeOK
<1>4. /\ \A i \in Positions : i # k => data'[i] = data[i]
      /\ plan[k] \in Once[kind] /\ data[k] > 0 => data'[k] = data[k]
      /\ ~(plan[k] \in Once[kind] /\ data[k] > 0) => data'[k] = data[k] + 1
  BY <1>2 DEF Written, InstallTypeOK
<1>5. plan[k] \in Unique[kind] => data[k] = 0
  BY <1>2, <1>3 DEF RowRefused
<1>6. UnderWay(p)
  BY DEF UnderWay
<1>7. OnceIsOnce'
  <2>1. ASSUME NEW i \in Positions, plan[i] \in Once[kind] \/ plan[i] \in Unique[kind]
        PROVE  data'[i] <= 1
    <3>1. data[i] <= 1
      BY <2>1 DEF SoleInv, OnceIsOnce
    <3>2. CASE i # k
      BY <1>4, <3>1, <3>2
    <3>3. CASE i = k
      BY <1>3, <1>4, <1>5, <2>1, <3>1, <3>3
    <3> QED
      BY <3>2, <3>3
  <2> QED
    BY <1>1, <2>1 DEF OnceIsOnce
<1>8. ASSUME ~overlapped' PROVE AloneIsOnce'
  <2>1. AloneIsOnce
    BY <1>8 DEF SoleInv
  <2>2. ASSUME NEW q \in Installers, UnderWay(q)' PROVE q = p
    BY <1>1, <1>6, <2>1, <2>2 DEF AloneIsOnce
  <2>3. \A i \in Positions : k <= i /\ GuardTable(i) => data[i] = 0
    BY <1>2, <2>1 DEF AloneIsOnce
  <2>4. ASSUME NEW q \in Installers, run'[q].step = "query" PROVE FALSE
    BY <1>1, <2>2, <2>4 DEF UnderWay
  <2>5. ASSUME NEW q \in Installers, run'[q].step = "insert",
               NEW i \in Positions, run'[q].at <= i, GuardTable(i)
        PROVE  data'[i] = 0
    <3>1. q = p
      BY <2>2, <2>5 DEF UnderWay
    <3>2. k + 1 <= i
      BY <1>1, <1>2, <2>5, <3>1
    <3>3. i # k /\ k <= i
      BY <1>3, <3>2
    <3> QED
      BY <1>4, <2>3, <2>5, <3>3
  <2>6. ASSUME NEW i \in Positions, GuardTable(i) PROVE data'[i] <= 1
    <3>1. data[i] <= 1
      BY <2>1, <2>6 DEF AloneIsOnce
    <3>2. CASE i # k
      BY <1>4, <3>1, <3>2
    <3>3. CASE i = k
      BY <1>3, <1>4, <2>3, <2>6, <3>3
    <3> QED
      BY <3>2, <3>3
  <2>7. \A q, r \in Installers : UnderWay(q)' /\ UnderWay(r)' => q = r
    BY <2>2
  <2>8. \A q \in Installers : run'[q].step = "query" =>
          \A g \in DOMAIN guards' : g < run'[q].at => ~Holds(guards[g])'
    BY <2>4
  <2>9. \A q \in Installers : run'[q].step = "insert" =>
          \A i \in Positions' : run'[q].at <= i /\ GuardTable(i)' => data'[i] = 0
    BY <1>1, <2>5
  <2>10. \A i \in Positions' : GuardTable(i)' => data'[i] <= 1
    BY <1>1, <2>6
  <2> QED
    BY <2>7, <2>8, <2>9, <2>10 DEF AloneIsOnce
<1>9. ASSUME (plan[1] \in Unique[kind])' PROVE FirstIsOnce'
  <2>1. FirstIsOnce /\ plan[1] \in Unique[kind]
    BY <1>1, <1>9 DEF SoleInv
  <2>2. \A i \in Positions : k <= i => data[i] = 0
    <3>1. CASE k = 1
      <4>1. data[1] = 0
        BY <1>5, <2>1, <3>1
      <4> QED
        BY <1>3, <4>1 DEF IInv, EarlierRowsAreThere
    <3>2. CASE k # 1
      <4>1. run[p].at > 1
        BY <1>2, <1>3, <3>2
      <4> QED
        BY <1>2, <2>1, <4>1 DEF FirstIsOnce
    <3> QED
      BY <3>1, <3>2
  <2>3. ASSUME NEW q \in Installers, q # p, run[q].step = "insert", run[q].at > 1 PROVE FALSE
    <3>1. CASE k = 1
      <4>1. run[q].at \in Nat /\ 1 \in 1..(run[q].at - 1)
        BY <2>3, InstallPlace
      <4>2. data[1] > 0
        BY <2>3, <4>1 DEF IInv, PassedIsWritten
      <4> QED
        BY <1>3, <2>2, <3>1, <4>2
    <3>2. CASE k # 1
      <4>1. run[p].at > 1
        BY <1>2, <1>3, <3>2
      <4> QED
        BY <2>1, <2>3, <4>1 DEF FirstIsOnce
    <3> QED
      BY <3>1, <3>2
  <2>4. ASSUME NEW i \in Positions PROVE data'[i] <= 1
    <3>1. data[i] <= 1
      BY <2>1 DEF FirstIsOnce
    <3>2. i = k => data[k] = 0
      BY <1>3, <2>2
    <3> QED
      BY <1>3, <1>4, <3>1, <3>2
  <2>5. \A q \in Installers : run'[q].step = "insert" /\ run'[q].at > 1 => q = p
    BY <1>1, <2>3
  <2>6. ASSUME NEW q \in Installers, run'[q].step = "insert", run'[q].at > 1,
               NEW i \in Positions, run'[q].at <= i
        PROVE  data'[i] = 0
    <3>1. q = p /\ k + 1 <= i
      BY <1>1, <1>2, <2>5, <2>6
    <3>2. i # k /\ k <= i
      BY <1>3, <3>1
    <3> QED
      BY <1>4, <2>2, <3>2
  <2> QED
    BY <1>1, <2>4, <2>5, <2>6 DEF FirstIsOnce
<1> QED
  BY <1>7, <1>8, <1>9 DEF SoleInv

LEMMA SoleStep == InstallTypeOK /\ IInv /\ SoleInv /\ [InstallNext]_installVars => SoleInv'
<1> SUFFICES ASSUME InstallTypeOK, IInv, SoleInv, [InstallNext]_installVars PROVE SoleInv'
  OBVIOUS
<1>0. overlapped \in BOOLEAN
  BY DEF InstallTypeOK
<1>1. ASSUME NEW p \in Installers, Start(p) PROVE SoleInv'
  <2>1. Moves(p, "query", 1) /\ UNCHANGED <<kind, data>>
    BY <1>1 DEF Start
  <2>2. overlapped' <=> (overlapped \/ \E q \in Installers : UnderWay(q))
    BY <1>1 DEF Start
  <2>3. \A g \in DOMAIN guards : ~(g < 1)
    BY InstallPlace
  <2> QED
    BY <2>1, <2>2, <2>3, SoleWithoutWrite
<1>2. ASSUME NEW p \in Installers, Query(p) PROVE SoleInv'
  <2>1. run[p].step = "query" /\ UnderWay(p) /\ UNCHANGED <<kind, data, overlapped>>
    BY <1>2 DEF Query, UnderWay
  <2>2. /\ run[p].at \in Nat /\ Len(guards) \in Nat /\ DOMAIN guards = 1..Len(guards) /\ run[p].at \in DOMAIN guards
    BY <2>1, InstallPlace
  <2>3. ~overlapped => \A g \in DOMAIN guards : g < run[p].at => ~Holds(guards[g])
    BY <2>1 DEF SoleInv, AloneIsOnce
  <2>4. CASE Holds(guards[run[p].at])
    <3>1. Moves(p, "skipped", 0)
      BY <1>2, <2>4 DEF Query
    <3> QED
      BY <2>1, <3>1, SoleWithoutWrite
  <2>5. CASE ~Holds(guards[run[p].at]) /\ run[p].at < Len(guards)
    <3>1. Moves(p, "query", run[p].at + 1)
      BY <1>2, <2>5 DEF Query
    <3>2. \A g \in DOMAIN guards : g < run[p].at + 1 => g < run[p].at \/ g = run[p].at
      BY <2>2
    <3>3. ~overlapped => \A g \in DOMAIN guards : g < run[p].at + 1 => ~Holds(guards[g])
      BY <2>3, <2>5, <3>2
    <3> QED
      BY <2>1, <3>1, <3>3, SoleWithoutWrite
  <2>6. CASE ~Holds(guards[run[p].at]) /\ ~(run[p].at < Len(guards))
    <3>1. Moves(p, "insert", 1)
      BY <1>2, <2>6 DEF Query
    <3>2. \A g \in DOMAIN guards : g < run[p].at \/ g = run[p].at
      BY <2>2, <2>6
    <3>3. ~overlapped => \A g \in DOMAIN guards : ~Holds(guards[g])
      BY <2>3, <2>6, <3>2
    <3> QED
      BY <2>1, <3>1, <3>3, SoleWithoutWrite
  <2> QED
    BY <2>4, <2>5, <2>6
<1>3. ASSUME NEW p \in Installers, WriteRow(p) PROVE SoleInv'
  BY <1>3, SoleWithWrite DEF WriteRow
<1>4. ASSUME NEW p \in Installers, RefuseRow(p) PROVE SoleInv'
  BY <1>4, SoleWithoutWrite DEF RefuseRow
<1>5. ASSUME NEW p \in Installers, Fail(p) PROVE SoleInv'
  <2>1. CASE UNCHANGED data
    BY <1>5, <2>1, SoleWithoutWrite DEF Fail
  <2>2. CASE ~UNCHANGED data
    BY <1>5, <2>2, SoleWithWrite DEF Fail
  <2> QED
    BY <2>1, <2>2
<1>6. ASSUME NEW p \in Installers, Die(p) PROVE SoleInv'
  <2>1. Moves(p, "down", 0)
    BY <1>6 DEF Die, Moves, NotRunning
  <2> QED
    BY <1>6, <2>1, SoleWithoutWrite DEF Die
<1>7. CASE UNCHANGED installVars
  <2>1. guards' = guards /\ plan' = plan /\ Positions' = Positions
    BY <1>7, SamePlan DEF installVars, guards
  <2>2. \A i : GuardTable(i)' <=> GuardTable(i)
    BY <2>1 DEF GuardTable
  <2>3. \A p \in Installers : UnderWay(p)' <=> UnderWay(p)
    BY <1>7 DEF installVars, UnderWay
  <2>4. OnceIsOnce' /\ (FirstIsOnce => FirstIsOnce')
    BY <1>7, <2>1 DEF installVars, SoleInv, OnceIsOnce, FirstIsOnce
  <2>5. AloneIsOnce => AloneIsOnce'
    BY <1>7, <2>1, <2>2, <2>3 DEF installVars, AloneIsOnce, Holds
  <2> QED
    BY <1>7, <2>1, <2>4, <2>5 DEF installVars, SoleInv
<1> QED
  BY <1>1, <1>2, <1>3, <1>4, <1>5, <1>6, <1>7 DEF InstallNext

\* Type correctness, and no row more often than there are runs.
THEOREM InstallTypeCorrect == InstallSpec => []InstallTypeOK
<1>1. TypeAndCount => InstallTypeOK
  BY DEF TypeAndCount
<1> QED
  BY <1>1, InstallTypeInit, InstallTypeStep, PTL DEF InstallSpec

\* The rows that install() looks for are written once, if no runs overlap or
\* the first row of the plan is unique.
THEOREM GuardRowsEver == InstallSpec => []GuardRowsAreSole
<1>1. InstallInit => SoleInv
  <2> SUFFICES ASSUME InstallInit PROVE SoleInv
    OBVIOUS
  <2>1. (\A i \in Positions : data[i] = 0) /\ \A p \in Installers : run[p].step = "down" /\ ~UnderWay(p)
    BY DEF InstallInit, NotRunning, UnderWay
  <2> QED
    BY <2>1 DEF SoleInv, OnceIsOnce, AloneIsOnce, FirstIsOnce
<1>2. SoleInv => GuardRowsAreSole
  BY DEF SoleInv, OnceIsOnce, AloneIsOnce, FirstIsOnce, GuardTable, GuardRowsAreSole
<1>3. InstallSpec => [](InstallTypeOK /\ IInv)
  <2>1. IInv /\ TypeAndCount => InstallTypeOK /\ IInv
    BY DEF TypeAndCount
  <2> QED
    BY <2>1, InitIInv, NextIInv, InstallTypeInit, InstallTypeStep, PTL DEF InstallSpec
<1> QED
  BY <1>1, <1>2, <1>3, SoleStep, PTL DEF InstallSpec

-----------------------------------------------------------------------------
(* The run of the process.                                                 *)

Whole == <<"tenants", "cors", "requestId", "rateLimit", "tenant", "errors", "health", "api">>

\* What has been attached goes with the step of start(); only what listens has a
\* worker; once stop() is past the server, nothing opens again.
AppInv ==
  /\ starter \in {"main", "seed", "core", "tenants"} => built = <<>>
  /\ starter = "cors" => built = <<"tenants">>
  /\ starter \in {"listen", "done"} => built = Whole
  /\ net = "listening" \/ worker = "open" => starter = "done"
  /\ stopper # "none" => starter # "main"
  /\ stopper \in {"cron", "sql", "done"} => net = "closed"
  /\ stopper \in {"sql", "done"} => worker # "open"
  /\ exit = "0" => stopper = "done"

\* What is listed is a sequence.
LEMMA IsTuple ==
  ASSUME NEW S, NEW n \in Nat, NEW t, t = [i \in 1..n |-> t[i]], \A i \in 1..n : t[i] \in S
  PROVE  t \in Seq(S) /\ Len(t) = n
<1>1. t \in [1..n -> S]
  OBVIOUS
<1> QED
  BY <1>1

\* Hooks and routes behind the cache of tenants.
LEMMA Attached ==
  <<"tenants">> \o <<"cors", "requestId", "rateLimit", "tenant", "errors", "health", "api">>
    = <<"tenants", "cors", "requestId", "rateLimit", "tenant", "errors", "health", "api">>
<1>1. PICK S : /\ "tenants" \in S /\ "cors" \in S /\ "requestId" \in S /\ "rateLimit" \in S
               /\ "tenant" \in S /\ "errors" \in S /\ "health" \in S /\ "api" \in S
  <2>1. PICK S : S = {"tenants", "cors", "requestId", "rateLimit", "tenant", "errors", "health", "api"}
    OBVIOUS
  <2> QED
    BY <2>1
<1>2. PICK t : t = <<"cors", "requestId", "rateLimit", "tenant", "errors", "health", "api">>
  OBVIOUS
<1>3. PICK s : s = <<"tenants">>
  OBVIOUS
<1>4. PICK w : w = <<"tenants", "cors", "requestId", "rateLimit", "tenant", "errors", "health", "api">>
  OBVIOUS
<1>5. t \in Seq(S) /\ Len(t) = 7 /\ s \in Seq(S) /\ Len(s) = 1
  <2>1. t = [i \in 1..7 |-> t[i]] /\ s = [i \in 1..1 |-> s[i]]
    BY <1>2, <1>3
  <2>2. /\ t[1] \in S /\ t[2] \in S /\ t[3] \in S /\ t[4] \in S /\ t[5] \in S /\ t[6] \in S /\ t[7] \in S
        /\ s[1] \in S
    BY <1>1, <1>2, <1>3
  <2>3. \A i \in 1..7 : i = 1 \/ i = 2 \/ i = 3 \/ i = 4 \/ i = 5 \/ i = 6 \/ i = 7
    OBVIOUS
  <2>4. (\A i \in 1..7 : t[i] \in S) /\ (\A i \in 1..1 : s[i] \in S)
    BY <2>2, <2>3
  <2> QED
    BY <2>1, <2>4, IsTuple
<1>6. w \in Seq(S) /\ Len(w) = 8
  <2>1. w = [i \in 1..8 |-> w[i]]
    BY <1>4
  <2>2. /\ w[1] \in S /\ w[2] \in S /\ w[3] \in S /\ w[4] \in S
        /\ w[5] \in S /\ w[6] \in S /\ w[7] \in S /\ w[8] \in S
    BY <1>1, <1>4
  <2>3. \A i \in 1..8 : i = 1 \/ i = 2 \/ i = 3 \/ i = 4 \/ i = 5 \/ i = 6 \/ i = 7 \/ i = 8
    OBVIOUS
  <2>4. \A i \in 1..8 : w[i] \in S
    BY <2>2, <2>3
  <2> QED
    BY <2>1, <2>4, IsTuple
<1> DEFINE f == s \o t
<1>7. s \in Seq(S) /\ t \in Seq(S)
  BY <1>5
<1>8. /\ f \in Seq(S) /\ Len(f) = Len(s) + Len(t)
      /\ \A i \in 1..Len(s) : f[i] = s[i]
      /\ \A i \in 1..Len(t) : f[Len(s) + i] = t[i]
  BY <1>7
<1> HIDE DEF f
<1>9. /\ f \in Seq(S) /\ Len(f) = 8 /\ f[1] = s[1]
      /\ f[2] = t[1] /\ f[3] = t[2] /\ f[4] = t[3] /\ f[5] = t[4] /\ f[6] = t[5] /\ f[7] = t[6] /\ f[8] = t[7]
  <2>0. /\ \A i \in 1..7 : f[1 + i] = t[i]
        /\ 1 \in 1..7 /\ 2 \in 1..7 /\ 3 \in 1..7 /\ 4 \in 1..7 /\ 5 \in 1..7 /\ 6 \in 1..7 /\ 7 \in 1..7
    BY <1>5, <1>8
  <2>1. /\ f[1 + 1] = t[1] /\ f[1 + 2] = t[2] /\ f[1 + 3] = t[3] /\ f[1 + 4] = t[4]
        /\ f[1 + 5] = t[5] /\ f[1 + 6] = t[6] /\ f[1 + 7] = t[7]
    BY <2>0, Zenon
  <2>2. f[1] = s[1] /\ Len(f) = 8
    BY <1>5, <1>8
  <2>3. 1 + 1 = 2 /\ 1 + 2 = 3 /\ 1 + 3 = 4 /\ 1 + 4 = 5 /\ 1 + 5 = 6 /\ 1 + 6 = 7 /\ 1 + 7 = 8
    OBVIOUS
  <2> QED
    BY <1>8, <2>1, <2>2, <2>3, Zenon
<1>10. /\ f[1] = w[1] /\ f[2] = w[2] /\ f[3] = w[3] /\ f[4] = w[4]
       /\ f[5] = w[5] /\ f[6] = w[6] /\ f[7] = w[7] /\ f[8] = w[8]
  BY <1>2, <1>3, <1>4, <1>9
<1>11. \A i \in 1..8 : i = 1 \/ i = 2 \/ i = 3 \/ i = 4 \/ i = 5 \/ i = 6 \/ i = 7 \/ i = 8
  OBVIOUS
<1>12. \A i \in 1..8 : f[i] = w[i]
  BY <1>10, <1>11
<1>13. f = w
  BY <1>6, <1>9, <1>12
<1> QED
  BY <1>2, <1>3, <1>4, <1>13, Zenon DEF f

LEMMA AppStep == AppInv /\ [AppNext]_appVars => AppInv'
<1> SUFFICES ASSUME AppInv, [AppNext]_appVars PROVE AppInv'
  OBVIOUS
<1> USE DEF AppInv, Alive
<1>1. CASE BeginStart
  BY <1>1 DEF BeginStart
<1>2. CASE Swallow("seed", "core")
  BY <1>2 DEF Swallow
<1>3. CASE Swallow("core", "tenants")
  BY <1>3 DEF Swallow
<1>4. CASE LoadCache
  <2>1. starter = "tenants" /\ built = <<>>
    BY <1>4 DEF LoadCache
  <2>2. Append(<<>>, "tenants") = <<"tenants">>
    OBVIOUS
  <2>3. CASE Reject
    BY <1>4, <2>3 DEF LoadCache, Reject
  <2>4. CASE ~Reject
    BY <1>4, <2>1, <2>2, <2>4 DEF LoadCache
  <2> QED
    BY <2>3, <2>4 DEF Reject
<1>5. CASE Attach
  <2>1. starter = "cors" /\ built = <<"tenants">>
    BY <1>5 DEF Attach
  <2>2. <<"tenants">> \o <<"cors", "requestId", "rateLimit", "tenant", "errors", "health", "api">> = Whole
    BY Attached DEF Whole
  <2>3. CASE Reject
    BY <1>5, <2>3 DEF Attach, Reject
  <2>4. CASE ~Reject
    BY <1>5, <2>1, <2>2, <2>4 DEF Attach
  <2> QED
    BY <2>3, <2>4 DEF Reject
<1>6. CASE Listen
  BY <1>6 DEF Listen, Reject
<1>7. CASE Signal
  BY <1>7 DEF Signal
<1>8. CASE Stop
  BY <1>8 DEF Stop, CloseServer, StopCron, EndSql, StopFails, ExitZero
<1>9. CASE UNCHANGED appVars
  BY <1>9 DEF appVars
<1> QED
  BY <1>1, <1>2, <1>3, <1>4, <1>5, <1>6, <1>7, <1>8, <1>9 DEF AppNext

\* A server that listens has all that bootstrap() attaches, and a process that a
\* signal has ended leaves neither server nor worker behind.
THEOREM WholeOrGoneEver == AppSpec => []WholeOrGone
<1>1. AppInit => AppInv
  BY DEF AppInit, AppInv
<1>2. AppInv => WholeOrGone
  BY DEF AppInv, WholeOrGone, ServesWhole, QuietExit, Whole
<1> QED
  BY <1>1, <1>2, AppStep, PTL DEF AppSpec

-----------------------------------------------------------------------------
\* A set of numbers that is not empty has a least one.
LEMMA LeastExists ==
  ASSUME NEW S \in SUBSET Nat, S # {}
  PROVE  \E n \in S : \A k \in S : n <= k
<1> DEFINE R == OpToRel(<, Nat)
<1>1. IsWellFoundedOn(R, Nat)
  BY NatLessThanWellFounded
<1>2. \A k, n \in Nat : k < n => <<k, n>> \in R
  BY DEF OpToRel
<1> HIDE DEF R
<1>3. PICK n \in S : \A k \in S : ~(<<k, n>> \in R)
  BY <1>1, WFMin
<1>4. \A k \in S : k \in Nat /\ n \in Nat /\ ~(k < n)
  BY <1>2, <1>3, Zenon
<1>5. \A k \in S : n <= k
  BY <1>4
<1> QED
  BY <1>5
-----------------------------------------------------------------------------
(* The load order of plugins.                                              *)

\* No element is twice in s.
Distinct(s) == \A i, j \in DOMAIN s : s[i] = s[j] => i = j

\* The sequence s with the elements of t behind it.
LEMMA Concatenated ==
  ASSUME NEW S, NEW s \in Seq(S), NEW t \in Seq(S)
  PROVE  /\ s \o t \in Seq(S)
         /\ Elems(s \o t) = Elems(s) \cup Elems(t)
         /\ Distinct(s) /\ Distinct(t) /\ Elems(s) \cap Elems(t) = {} => Distinct(s \o t)
<1> DEFINE u == s \o t
<1>1. /\ u \in Seq(S) /\ Len(u) = Len(s) + Len(t) /\ Len(s) \in Nat /\ Len(t) \in Nat
      /\ DOMAIN s = 1..Len(s) /\ DOMAIN t = 1..Len(t) /\ DOMAIN u = 1..(Len(s) + Len(t))
      /\ \A i \in 1..Len(s) : u[i] = s[i]
      /\ \A i \in 1..Len(t) : u[Len(s) + i] = t[i]
  OBVIOUS
<1>2. ASSUME NEW i \in DOMAIN u
      PROVE  \/ i \in DOMAIN s /\ u[i] = s[i]
             \/ i > Len(s) /\ i - Len(s) \in DOMAIN t /\ u[i] = t[i - Len(s)]
  <2>1. CASE i <= Len(s)
    BY <1>1, <2>1
  <2>2. CASE ~(i <= Len(s))
    <3>1. i - Len(s) \in 1..Len(t) /\ i = Len(s) + (i - Len(s))
      BY <1>1, <2>2
    <3> QED
      BY <1>1, <2>2, <3>1
  <2> QED
    BY <2>1, <2>2
<1> HIDE DEF u
<1>3. Elems(u) \subseteq Elems(s) \cup Elems(t)
  BY <1>2 DEF Elems
<1>4. Elems(s) \subseteq Elems(u)
  BY <1>1 DEF Elems
<1>5. Elems(t) \subseteq Elems(u)
  <2>1. \A i \in DOMAIN t : Len(s) + i \in DOMAIN u /\ u[Len(s) + i] = t[i]
    BY <1>1
  <2> QED
    BY <2>1 DEF Elems
<1>6. ASSUME Distinct(s), Distinct(t), Elems(s) \cap Elems(t) = {} PROVE Distinct(u)
  <2>1. \A i \in DOMAIN s, j \in DOMAIN t : s[i] # t[j]
    BY <1>6 DEF Elems
  <2>2. ASSUME NEW i \in DOMAIN u, NEW j \in DOMAIN u, u[i] = u[j] PROVE i = j
    BY <1>1, <1>2, <1>6, <2>1, <2>2 DEF Distinct
  <2> QED
    BY <2>2 DEF Distinct
<1> QED
  BY <1>1, <1>3, <1>4, <1>5, <1>6 DEF u

\* What g keeps of s is in the order of s.
Keeps(s, g) ==
  \A k, l \in DOMAIN g : k < l => \E i, j \in DOMAIN s : i < j /\ s[i] = g[k] /\ s[j] = g[l]

\* What filter() keeps of a sequence without repetitions.
LEMMA Filtered ==
  ASSUME NEW S, NEW s \in Seq(S), NEW T, Distinct(s)
  PROVE  /\ Filter(s, T) \in Seq(S)
         /\ Elems(Filter(s, T)) = Elems(s) \cap T
         /\ Distinct(Filter(s, T))
         /\ Keeps(s, Filter(s, T))
<1>1. PICK f : f = Filter(s, T)
  OBVIOUS
<1>2. f \in Seq(S) /\ DOMAIN f = 1..Len(f) /\ Len(f) \in Nat /\ DOMAIN s = 1..Len(s) /\ Len(s) \in Nat
  BY <1>1, FilterFacts
<1>3. PICK place \in [1..Len(f) -> DOMAIN s] :
        /\ \A k \in 1..Len(f) : f[k] = s[place[k]] /\ s[place[k]] \in T
        /\ \A k, l \in 1..Len(f) : k < l => place[k] < place[l]
        /\ \A i \in DOMAIN s : s[i] \in T => \E k \in 1..Len(f) : place[k] = i
  BY <1>1, FilterFacts
<1>4. Elems(f) = Elems(s) \cap T
  <2>1. Elems(f) \subseteq Elems(s) \cap T
    BY <1>2, <1>3 DEF Elems
  <2>2. ASSUME NEW i \in DOMAIN s, s[i] \in T PROVE s[i] \in Elems(f)
    BY <1>2, <1>3, <2>2 DEF Elems
  <2> QED
    BY <2>1, <2>2 DEF Elems
<1>5. Distinct(f)
  <2>1. ASSUME NEW k \in DOMAIN f, NEW l \in DOMAIN f, f[k] = f[l] PROVE k = l
    <3>1. place[k] \in DOMAIN s /\ place[l] \in DOMAIN s /\ s[place[k]] = s[place[l]]
      BY <1>2, <1>3, <2>1
    <3>2. place[k] = place[l] /\ place[k] \in Nat
      BY <1>2, <3>1, Distinct(s) DEF Distinct
    <3>3. ~(k < l) /\ ~(l < k)
      BY <1>2, <1>3, <3>2
    <3> QED
      BY <1>2, <3>3
  <2> QED
    BY <2>1 DEF Distinct
<1>6. ASSUME NEW k \in DOMAIN f, NEW l \in DOMAIN f, k < l
      PROVE  \E i, j \in DOMAIN s : i < j /\ s[i] = f[k] /\ s[j] = f[l]
  BY <1>2, <1>3, <1>6
<1> QED
  BY <1>1, <1>2, <1>4, <1>5, <1>6 DEF Keeps

\* The elements of T come before the others.
TFirst(f, T) == \A k, l \in DOMAIN f : k < l /\ f[l] \in T => f[k] \in T

\* The elements of T are in the order of s, and so are the others.
KeepsWithin(s, f, T) ==
  \A k, l \in DOMAIN f :
    k < l /\ (f[k] \in T <=> f[l] \in T) => \E i, j \in DOMAIN s : i < j /\ s[i] = f[k] /\ s[j] = f[l]

\* The elements of s that are in T, in their order, and behind them the others in theirs.
LEMMA Joined ==
  ASSUME NEW S, NEW T, NEW s \in Seq(S), NEW g \in Seq(S), NEW h \in Seq(S),
         Keeps(s, g), Keeps(s, h), \A k \in DOMAIN g : g[k] \in T, \A k \in DOMAIN h : h[k] \notin T
  PROVE  TFirst(g \o h, T) /\ KeepsWithin(s, g \o h, T)
<1>1. PICK f : f = g \o h
  OBVIOUS
<1>2. /\ Len(g) \in Nat /\ Len(h) \in Nat /\ DOMAIN g = 1..Len(g) /\ DOMAIN h = 1..Len(h)
      /\ DOMAIN f = 1..(Len(g) + Len(h))
      /\ \A i \in 1..Len(g) : f[i] = g[i]
      /\ \A i \in 1..Len(h) : f[Len(g) + i] = h[i]
  BY <1>1
<1>3. ASSUME NEW k \in DOMAIN f, k <= Len(g)
      PROVE  k \in DOMAIN g /\ f[k] = g[k] /\ f[k] \in T
  BY <1>2, <1>3
<1>4. ASSUME NEW k \in DOMAIN f, ~(k <= Len(g))
      PROVE  k - Len(g) \in DOMAIN h /\ f[k] = h[k - Len(g)] /\ f[k] \notin T
  <2>1. k - Len(g) \in 1..Len(h) /\ k = Len(g) + (k - Len(g))
    BY <1>2, <1>4
  <2> QED
    BY <1>2, <2>1
<1>5. ASSUME NEW k \in DOMAIN f, NEW l \in DOMAIN f, k < l, f[l] \in T PROVE f[k] \in T
  <2>1. k <= Len(g)
    BY <1>2, <1>4, <1>5
  <2> QED
    BY <1>3, <2>1
<1>6. ASSUME NEW k \in DOMAIN f, NEW l \in DOMAIN f, k < l, f[k] \in T <=> f[l] \in T
      PROVE  \E i, j \in DOMAIN s : i < j /\ s[i] = f[k] /\ s[j] = f[l]
  <2>1. CASE l <= Len(g)
    <3>1. k <= Len(g)
      BY <1>2, <1>6, <2>1
    <3>2. k \in DOMAIN g /\ f[k] = g[k] /\ l \in DOMAIN g /\ f[l] = g[l]
      BY <1>3, <2>1, <3>1
    <3> QED
      BY <1>6, <3>2 DEF Keeps
  <2>2. CASE ~(l <= Len(g))
    <3>1. ~(k <= Len(g))
      BY <1>3, <1>4, <1>6, <2>2
    <3>2. k - Len(g) < l - Len(g)
      BY <1>2, <1>6
    <3>3. /\ k - Len(g) \in DOMAIN h /\ f[k] = h[k - Len(g)]
          /\ l - Len(g) \in DOMAIN h /\ f[l] = h[l - Len(g)]
      BY <1>4, <2>2, <3>1
    <3> QED
      BY <3>2, <3>3 DEF Keeps
  <2> QED
    BY <2>1, <2>2
<1>7. TFirst(f, T) /\ KeepsWithin(s, f, T)
  BY <1>5, <1>6 DEF TFirst, KeepsWithin
<1> QED
  BY <1>1, <1>7

\* filter() twice, as the code moves plugins to the front.
LEMMA Split ==
  ASSUME NEW S, NEW s \in Seq(S), Distinct(s), NEW T, NEW U, \A y \in S : y \in U <=> y \notin T
  PROVE  \E f : /\ f = Filter(s, T) \o Filter(s, U)
                /\ f \in Seq(S) /\ Elems(f) = Elems(s) /\ Distinct(f)
                /\ TFirst(f, T) /\ KeepsWithin(s, f, T)
<1>1. PICK g : g = Filter(s, T)
  OBVIOUS
<1>2. PICK h : h = Filter(s, U)
  OBVIOUS
<1>4. g \in Seq(S) /\ Elems(g) = Elems(s) \cap T /\ Distinct(g) /\ Keeps(s, g)
  BY <1>1, Filtered
<1>5. h \in Seq(S) /\ Elems(h) = Elems(s) \cap U /\ Distinct(h) /\ Keeps(s, h)
  BY <1>2, Filtered
<1>6. \A y \in Elems(s) : y \in S
  BY DEF Elems
<1>7. Elems(g) \cap Elems(h) = {} /\ Elems(g) \cup Elems(h) = Elems(s)
  BY <1>4, <1>5, <1>6
<1>8. (\A k \in DOMAIN g : g[k] \in T) /\ \A k \in DOMAIN h : h[k] \notin T
  <2>1. \A k \in DOMAIN g : g[k] \in T
    BY <1>4 DEF Elems
  <2>2. \A k \in DOMAIN h : h[k] \in Elems(h)
    BY DEF Elems
  <2>3. \A y \in Elems(h) : y \notin T
    BY <1>5, <1>6
  <2> QED
    BY <2>1, <2>2, <2>3
<1>9. g \o h \in Seq(S) /\ Elems(g \o h) = Elems(s) /\ Distinct(g \o h)
  BY <1>4, <1>5, <1>7, Concatenated
<1>10. TFirst(g \o h, T) /\ KeepsWithin(s, g \o h, T)
  BY <1>4, <1>5, <1>8, Joined
<1>11. PICK f : f = g \o h
  OBVIOUS
<1>12. f = Filter(s, T) \o Filter(s, U)
  BY <1>1, <1>2, <1>11, Zenon
<1>13. f \in Seq(S) /\ Elems(f) = Elems(s) /\ Distinct(f) /\ TFirst(f, T) /\ KeepsWithin(s, f, T)
  BY <1>9, <1>10, <1>11, Zenon
<1> QED
  BY <1>12, <1>13, Zenon

\* A sequence without repetitions has as many places as elements.
LEMMA Counted ==
  ASSUME NEW S, NEW s \in Seq(S), Distinct(s)
  PROVE  IsFiniteSet(Elems(s)) /\ Cardinality(Elems(s)) = Len(s)
<1>1. Len(s) \in Nat /\ DOMAIN s = 1..Len(s)
  OBVIOUS
<1>2. s \in Surjection(1..Len(s), Elems(s)) /\ s \in Injection(1..Len(s), Elems(s))
  <2>1. s \in [1..Len(s) -> Elems(s)]
    BY <1>1 DEF Elems
  <2> QED
    BY <1>1, <2>1, Distinct(s) DEF Elems, Distinct, Surjection, Injection, IsInjective
<1>3. IsFiniteSet(1..Len(s)) /\ Cardinality(1..Len(s)) = Len(s)
  <2>1. 1 \in Int /\ Len(s) \in Int /\ Len(s) - 1 + 1 = Len(s)
    BY <1>1
  <2> QED
    BY <1>1, <2>1, FS_Interval
<1> QED
  BY <1>2, <1>3, FS_Surjection

\* The manifests are given once each.
LEMMA ManifestsCounted ==
  /\ IsFiniteSet(Manifests) /\ Cardinality(Manifests) = Len(Input)
  /\ Input \in Seq(Manifests) /\ Distinct(Input) /\ Elems(Input) = Manifests
<1>1. Input \in Seq(Manifests) /\ Distinct(Input) /\ Elems(Input) = Manifests
  BY InputAssumption DEF Distinct, Elems, Manifests
<1> QED
  BY <1>1, Counted

\* The plugins of Z in the order in which they are queued.
LEMMA Ready ==
  ASSUME NEW Z \in SUBSET Manifests
  PROVE  \E q \in Seq(Manifests) :
           /\ q = ReadyOrder(Filter(Input, Z)) /\ Elems(q) = Z /\ Distinct(q)
           /\ variant = "manager" /\ Core \in Z => q # <<>> /\ q[1] = Core
<1>1. PICK s : s = Filter(Input, Z)
  OBVIOUS
<1>2. s \in Seq(Manifests) /\ Elems(s) = Z /\ Distinct(s)
  <2>1. Filter(Input, Z) \in Seq(Manifests) /\ Elems(Filter(Input, Z)) = Elems(Input) \cap Z
        /\ Distinct(Filter(Input, Z))
    BY ManifestsCounted, Filtered
  <2>2. Elems(Input) \cap Z = Z
    BY ManifestsCounted
  <2> QED
    BY <1>1, <2>1, <2>2, Zenon
<1>3. CASE variant # "manager"
  <2>1. s = ReadyOrder(Filter(Input, Z))
    BY <1>1, <1>3 DEF ReadyOrder
  <2> QED
    BY <1>2, <1>3, <2>1
<1>4. CASE variant = "manager"
  <2>1. PICK U : U = Manifests \ {Core}
    OBVIOUS
  <2>2. \A p \in Manifests : p \in U <=> p \notin {Core}
    BY <2>1
  <2>3. PICK q : /\ q = Filter(s, {Core}) \o Filter(s, U)
                 /\ q \in Seq(Manifests) /\ Elems(q) = Elems(s) /\ Distinct(q)
                 /\ TFirst(q, {Core}) /\ KeepsWithin(s, q, {Core})
    BY <1>2, <2>2, Split
  <2>4. q = ReadyOrder(Filter(Input, Z))
    BY <1>1, <1>4, <2>1, <2>3, Zenon DEF ReadyOrder, CoreToFront
  <2>5. ASSUME Core \in Z PROVE q # <<>> /\ q[1] = Core
    <3>1. PICK k \in DOMAIN q : q[k] = Core
      BY <1>2, <2>3, <2>5 DEF Elems
    <3>2. Len(q) \in Nat /\ DOMAIN q = 1..Len(q)
      BY <2>3
    <3>3. k \in Nat /\ 1 \in DOMAIN q /\ (k = 1 \/ 1 < k)
      BY <3>1, <3>2
    <3>4. q[1] = Core
      BY <2>3, <3>1, <3>3 DEF TFirst
    <3> QED
      BY <3>2, <3>3, <3>4
  <2> QED
    BY <1>2, <2>3, <2>4, <2>5
<1> QED
  BY <1>3, <1>4

-----------------------------------------------------------------------------

\* Topological(s), of a graph given as a function.
Follows(D, s) == \A i \in DOMAIN s : \A d \in D[s[i]] : \E j \in 1..(i - 1) : s[j] = d

\* While plugins are placed: the queue and the result are plugins, each once;
\* the counters count the dependencies that are not yet placed; a plugin is
\* queued or placed exactly when there are none; what is placed stands behind
\* its dependencies; and plugin-core, which has none, is first.
Placing(D, ind, q, r, v) ==
  /\ q \in Seq(Manifests) /\ r \in Seq(Manifests)
  /\ Distinct(q) /\ Distinct(r) /\ Elems(q) \cap Elems(r) = {}
  /\ ind \in [Manifests -> Nat]
  /\ \A p \in Manifests : ind[p] = Cardinality({d \in D[p] : d \notin Elems(r)})
  /\ \A p \in Manifests : p \in Elems(r) \cup Elems(q) <=> D[p] \subseteq Elems(r)
  /\ Follows(D, r)
  /\ v = "manager" /\ D[Core] = {} =>
       (r = <<>> => q # <<>> /\ q[1] = Core) /\ (r # <<>> => r[1] = Core)

\* A plugin is placed and those that become ready are queued.
LEMMA PlaceOne ==
  ASSUME NEW D \in [Manifests -> SUBSET Manifests], NEW ind, NEW q, NEW r, NEW v,
         Placing(D, ind, q, r, v), q # <<>>,
         NEW c, c = q[1], NEW f \in Seq(Manifests), Distinct(f),
         \A p \in Manifests : p \in Elems(f) <=> c \in D[p] /\ ind[p] = 1,
         NEW ind2, ind2 = [p \in Manifests |-> IF c \in D[p] THEN ind[p] - 1 ELSE ind[p]]
  PROVE  Placing(D, ind2, Tail(q) \o f, Append(r, c), v)
<1>1. PICK t : t = Tail(q)
  OBVIOUS
<1>2. PICK r2 : r2 = Append(r, c)
  OBVIOUS
<1>3. PICK q2 : q2 = t \o f
  OBVIOUS
<1>4. /\ q \in Seq(Manifests) /\ Len(q) \in Nat /\ Len(q) # 0 /\ DOMAIN q = 1..Len(q)
      /\ c \in Manifests /\ c \in Elems(q)
      /\ t \in Seq(Manifests) /\ Len(t) = Len(q) - 1 /\ DOMAIN t = 1..Len(t)
      /\ \A i \in 1..Len(t) : t[i] = q[i + 1]
  <2>1. q \in Seq(Manifests) /\ Len(q) \in Nat /\ Len(q) # 0 /\ DOMAIN q = 1..Len(q)
    BY DEF Placing
  <2>2. 1 \in DOMAIN q /\ c \in Manifests /\ c \in Elems(q)
    BY <2>1 DEF Elems
  <2> QED
    BY <1>1, <2>1, <2>2
<1>5. /\ r \in Seq(Manifests) /\ Len(r) \in Nat /\ DOMAIN r = 1..Len(r)
      /\ r2 \in Seq(Manifests) /\ Len(r2) = Len(r) + 1 /\ DOMAIN r2 = 1..(Len(r) + 1)
      /\ \A i \in 1..Len(r) : r2[i] = r[i]
      /\ r2[Len(r) + 1] = c
  <2>1. r \in Seq(Manifests)
    BY DEF Placing
  <2> QED
    BY <1>2, <1>4, <2>1
<1>6. c \notin Elems(r) /\ Distinct(q) /\ Distinct(r) /\ Elems(q) \cap Elems(r) = {}
  BY <1>4 DEF Placing
<1>7. Distinct(t) /\ \A p : p \in Elems(t) <=> p \in Elems(q) /\ p # c
  <2>1. Distinct(t)
    <3>1. ASSUME NEW i \in DOMAIN t, NEW j \in DOMAIN t, t[i] = t[j] PROVE i = j
      <4>1. i + 1 \in DOMAIN q /\ j + 1 \in DOMAIN q /\ q[i + 1] = q[j + 1] /\ i \in Nat /\ j \in Nat
        BY <1>4, <3>1
      <4>2. i + 1 = j + 1
        BY <1>6, <4>1 DEF Distinct
      <4> QED
        BY <4>1, <4>2
    <3> QED
      BY <3>1 DEF Distinct
  <2>2. ASSUME NEW p, p \in Elems(t) PROVE p \in Elems(q) /\ p # c
    <3>1. PICK i \in DOMAIN t : p = t[i]
      BY <2>2 DEF Elems
    <3>2. i + 1 \in DOMAIN q /\ q[i + 1] = p /\ i + 1 # 1 /\ 1 \in DOMAIN q
      BY <1>4, <3>1
    <3> QED
      BY <1>6, <3>2 DEF Elems, Distinct
  <2>3. ASSUME NEW p, p \in Elems(q), p # c PROVE p \in Elems(t)
    <3>1. PICK i \in DOMAIN q : p = q[i]
      BY <2>3 DEF Elems
    <3>2. i # 1 /\ i - 1 \in DOMAIN t /\ i = (i - 1) + 1
      BY <1>4, <2>3, <3>1
    <3>3. t[i - 1] = p
      BY <1>4, <3>1, <3>2
    <3> QED
      BY <3>2, <3>3 DEF Elems
  <2> QED
    BY <2>1, <2>2, <2>3
<1>8. \A p : p \in Elems(r2) <=> p \in Elems(r) \/ p = c
  <2>1. Elems(r) \subseteq Elems(r2)
    BY <1>5 DEF Elems
  <2>2. c \in Elems(r2)
    BY <1>5 DEF Elems
  <2>3. ASSUME NEW i \in DOMAIN r2 PROVE r2[i] \in Elems(r) \/ r2[i] = c
    <3>1. i \in 1..Len(r) \/ i = Len(r) + 1
      BY <1>5
    <3> QED
      BY <1>5, <3>1 DEF Elems
  <2> QED
    BY <2>1, <2>2, <2>3 DEF Elems
<1>9. /\ ind \in [Manifests -> Nat]
      /\ \A p \in Manifests : ind[p] = Cardinality({d \in D[p] : d \notin Elems(r)})
      /\ \A p \in Manifests : p \in Elems(r) \cup Elems(q) <=> D[p] \subseteq Elems(r)
  BY DEF Placing
<1>10. ASSUME NEW p \in Manifests
       PROVE  /\ ind2[p] \in Nat /\ ind2[p] = Cardinality({d \in D[p] : d \notin Elems(r2)})
              /\ c \in D[p] => ((D[p] \subseteq Elems(r2)) <=> ind[p] = 1)
  <2>1. PICK W : W = {d \in D[p] : d \notin Elems(r)}
    OBVIOUS
  <2>2. PICK V : V = {d \in D[p] : d \notin Elems(r2)}
    OBVIOUS
  <2>3. D[p] \subseteq Manifests /\ W \subseteq Manifests
    BY <2>1
  <2>4. IsFiniteSet(W)
    BY <2>3, ManifestsCounted, FS_Subset
  <2>5. ind[p] = Cardinality(W) /\ ind[p] \in Nat
    BY <1>9, <2>1, Zenon
  <2>6. CASE c \notin D[p]
    <3>1. V = W
      BY <1>8, <2>1, <2>2, <2>6
    <3> QED
      BY <2>2, <2>5, <2>6, <3>1
  <2>7. CASE c \in D[p]
    <3>1. c \in W /\ V = W \ {c}
      BY <1>6, <1>8, <2>1, <2>2, <2>7
    <3>2. IsFiniteSet(V) /\ Cardinality(V) = Cardinality(W) - 1
      BY <2>4, <3>1, FS_RemoveElement
    <3>3. Cardinality(V) \in Nat /\ (Cardinality(V) = 0 <=> V = {})
      BY <3>2, FS_CardinalityType, FS_EmptySet
    <3>4. V = {} <=> D[p] \subseteq Elems(r2)
      BY <2>2
    <3>5. ind2[p] = ind[p] - 1
      BY <2>7
    <3>6. ind2[p] = Cardinality(V)
      BY <2>5, <3>2, <3>5
    <3> QED
      BY <2>2, <2>5, <2>7, <3>2, <3>3, <3>4, <3>6
  <2> QED
    BY <2>6, <2>7
<1>11. ASSUME NEW p \in Manifests, p \in Elems(f) PROVE p \notin Elems(r) /\ p \notin Elems(q)
  <2>1. c \in D[p]
    BY <1>11
  <2> QED
    BY <1>6, <1>9, <2>1
<1>12. /\ q2 \in Seq(Manifests) /\ Elems(q2) = Elems(t) \cup Elems(f) /\ Distinct(q2)
  <2>1. \A p \in Elems(f) : p \in Manifests
    BY DEF Elems
  <2>2. Elems(t) \cap Elems(f) = {}
    BY <1>7, <1>11, <2>1
  <2> QED
    BY <1>3, <1>4, <1>7, <2>2, Concatenated
<1>13. Distinct(r2) /\ Elems(q2) \cap Elems(r2) = {}
  <2>1. ASSUME NEW i \in DOMAIN r2, NEW j \in DOMAIN r2, r2[i] = r2[j] PROVE i = j
    <3>1. (i \in 1..Len(r) \/ i = Len(r) + 1) /\ (j \in 1..Len(r) \/ j = Len(r) + 1)
      BY <1>5
    <3>2. \A k \in 1..Len(r) : r2[k] = r[k] /\ r[k] # c
      BY <1>5, <1>6 DEF Elems
    <3> QED
      BY <1>5, <1>6, <2>1, <3>1, <3>2 DEF Distinct
  <2>2. \A p \in Elems(f) : p \in Manifests
    BY DEF Elems
  <2>3. c \notin Elems(f)
    BY <1>4, <1>11
  <2> QED
    BY <1>6, <1>7, <1>8, <1>11, <1>12, <2>1, <2>2, <2>3 DEF Distinct
<1>14. ASSUME NEW p \in Manifests PROVE p \in Elems(r2) \cup Elems(q2) <=> D[p] \subseteq Elems(r2)
  <2>1. p \in Elems(r2) \cup Elems(q2) <=> p \in Elems(r) \cup Elems(q) \/ p \in Elems(f)
    BY <1>4, <1>7, <1>8, <1>12
  <2>2. D[p] \subseteq Elems(r) => D[p] \subseteq Elems(r2)
    BY <1>8
  <2>3. c \notin D[p] => (D[p] \subseteq Elems(r2) => D[p] \subseteq Elems(r))
    BY <1>8
  <2> QED
    BY <1>9, <1>10, <2>1, <2>2, <2>3
<1>15. Follows(D, r2)
  <2>1. ASSUME NEW i \in DOMAIN r2, NEW d \in D[r2[i]] PROVE \E j \in 1..(i - 1) : r2[j] = d
    <3>1. CASE i \in 1..Len(r)
      <4>1. \E j \in 1..(i - 1) : r[j] = d
        BY <1>5, <2>1, <3>1 DEF Placing, Follows
      <4>2. \A j \in 1..(i - 1) : j \in 1..Len(r)
        BY <1>5, <3>1
      <4> QED
        BY <1>5, <4>1, <4>2
    <3>2. CASE i = Len(r) + 1
      <4>1. d \in D[c]
        BY <1>5, <2>1, <3>2
      <4>2. d \in Elems(r)
        BY <1>4, <1>9, <4>1
      <4>3. PICK j \in 1..Len(r) : r[j] = d
        BY <1>5, <4>2 DEF Elems
      <4> QED
        BY <1>5, <3>2, <4>3
    <3> QED
      BY <1>5, <3>1, <3>2
  <2> QED
    BY <2>1 DEF Follows
<1>16. ASSUME v = "manager", D[Core] = {} PROVE r2 # <<>> /\ r2[1] = Core
  <2>1. CASE r = <<>>
    <3>1. q[1] = Core /\ Len(r) = 0
      BY <1>16, <2>1 DEF Placing
    <3> QED
      BY <1>5, <3>1
  <2>2. CASE r # <<>>
    <3>1. r[1] = Core /\ Len(r) # 0
      BY <1>5, <1>16, <2>2 DEF Placing
    <3>2. 1 \in 1..Len(r)
      BY <1>5, <3>1
    <3> QED
      BY <1>5, <3>1, <3>2
  <2> QED
    BY <2>1, <2>2
<1>17. ind2 \in [Manifests -> Nat]
  BY <1>10
<1>18. Placing(D, ind2, q2, r2, v)
  BY <1>5, <1>10, <1>12, <1>13, <1>14, <1>15, <1>16, <1>17 DEF Placing
<1> QED
  BY <1>1, <1>2, <1>3, <1>18

\* The edges of the graph that deps describes.
Graph == [p \in Manifests |-> Edges(p)]

\* Where nothing is queued any more and a plugin is not placed, those that are
\* not placed wait for each other.
LEMMA StuckIsCyclic ==
  ASSUME NEW ind, NEW r, NEW v, Placing(Graph, ind, <<>>, r, v), Len(r) # Len(Input)
  PROVE  Cyclic
<1>1. PICK D : D = Graph
  OBVIOUS
<1>2. /\ r \in Seq(Manifests) /\ Distinct(r)
      /\ \A p \in Manifests : p \in Elems(r) \cup Elems(<<>>) <=> D[p] \subseteq Elems(r)
  BY <1>1, Zenon DEF Placing
<1>3. Elems(<<>>) = {}
  BY DEF Elems
<1>4. PICK S : S = {p \in Manifests : p \notin Elems(r)}
  OBVIOUS
<1>5. S # {}
  <2>1. ASSUME S = {} PROVE FALSE
    <3>1. Elems(r) \subseteq Manifests
      BY <1>2 DEF Elems
    <3>2. Elems(r) = Manifests
      BY <1>4, <2>1, <3>1
    <3> QED
      BY <1>2, <3>2, Counted, ManifestsCounted
  <2> QED
    BY <2>1
<1>6. ASSUME NEW p \in S PROVE Edges(p) \cap S # {}
  <2>1. p \in Manifests /\ ~(D[p] \subseteq Elems(r))
    BY <1>2, <1>3, <1>4
  <2>2. D[p] = Edges(p) /\ Edges(p) \subseteq Manifests
    BY <1>1, <2>1 DEF Graph, Edges
  <2> QED
    BY <1>4, <2>1, <2>2
<1>7. S \in SUBSET Manifests
  BY <1>4
<1> QED
  BY <1>5, <1>6, <1>7 DEF Cyclic

\* An order with every plugin in it and each behind its dependencies: there is no cycle.
LEMMA OrderedIsAcyclic ==
  ASSUME NEW r \in Seq(Manifests), Elems(r) = Manifests, Follows(Graph, r)
  PROVE  ~Cyclic
<1> SUFFICES ASSUME NEW S \in SUBSET Manifests, S # {}, \A p \in S : Edges(p) \cap S # {}
             PROVE  FALSE
  BY DEF Cyclic
<1>1. Len(r) \in Nat /\ DOMAIN r = 1..Len(r)
  OBVIOUS
<1>2. PICK I : I = {i \in DOMAIN r : r[i] \in S}
  OBVIOUS
<1>3. I \in SUBSET Nat /\ I # {}
  BY <1>1, <1>2 DEF Elems
<1>4. PICK i \in I : \A k \in I : i <= k
  BY <1>3, LeastExists
<1>5. i \in DOMAIN r /\ r[i] \in S /\ r[i] \in Manifests /\ i \in Nat
  BY <1>1, <1>2, <1>4
<1>6. PICK d : d \in Edges(r[i]) /\ d \in S
  BY <1>5
<1>7. Graph[r[i]] = Edges(r[i])
  BY <1>5 DEF Graph
<1>8. PICK j \in 1..(i - 1) : r[j] = d
  BY <1>5, <1>6, <1>7 DEF Follows
<1>9. j \in I /\ j < i
  BY <1>1, <1>2, <1>5, <1>6, <1>8
<1> QED
  BY <1>4, <1>5, <1>9

\* A group of plugins that keeps the order it had: none before its dependencies.
LEMMA GroupInOrder ==
  ASSUME NEW r \in Seq(Manifests), Distinct(r), Follows(Graph, r),
         NEW f \in Seq(Manifests), NEW T, KeepsWithin(r, f, T),
         NEW S, \/ \A p \in Manifests : p \in S => p \in T
                \/ \A p \in Manifests : p \in S => p \notin T
  PROVE  InOrder(f, S)
<1> SUFFICES ASSUME NEW i \in DOMAIN f, NEW j \in DOMAIN f, i < j, f[i] \in S, f[j] \in S, f[j] \in Edges(f[i])
             PROVE  FALSE
  BY DEF InOrder
<1>1. Len(r) \in Nat /\ DOMAIN r = 1..Len(r) /\ f[i] \in Manifests /\ f[j] \in Manifests
  OBVIOUS
<1>2. f[i] \in T <=> f[j] \in T
  BY <1>1
<1>3. PICK k \in DOMAIN r, l \in DOMAIN r : k < l /\ r[k] = f[i] /\ r[l] = f[j]
  BY <1>2 DEF KeepsWithin
<1>4. Graph[r[k]] = Edges(r[k])
  BY <1>1, <1>3 DEF Graph
<1>5. r[l] \in Graph[r[k]]
  BY <1>3, <1>4
<1>6. PICK n \in 1..(k - 1) : r[n] = r[l]
  BY <1>5 DEF Follows
<1>7. n \in DOMAIN r /\ n < l
  BY <1>1, <1>3, <1>6
<1>8. n = l
  BY <1>6, <1>7 DEF Distinct
<1> QED
  BY <1>1, <1>7, <1>8

-----------------------------------------------------------------------------

\* While plugins are placed, the queue, the counters and the order fit together;
\* before that, nothing is queued or placed.
SortInv ==
  /\ SortTypeOK
  /\ LoadOrder
  /\ outcome = "start" => queue = <<>> /\ result = <<>>
  /\ outcome = "sorting" => Placing(Graph, indegree, queue, result, variant)

\* Placing, in the words of SortTypeOK and LoadOrder.
LEMMA PlacingIsTyped ==
  ASSUME NEW ind, NEW q, NEW r, NEW v, Placing(Graph, ind, q, r, v)
  PROVE  /\ q \in Seq(Manifests) /\ r \in Seq(Manifests) /\ ind \in [Manifests -> Nat]
         /\ Distinct(r \o q)
         /\ Topological(r)
<1>1. PICK D : D = Graph
  OBVIOUS
<1>2. /\ q \in Seq(Manifests) /\ r \in Seq(Manifests) /\ ind \in [Manifests -> Nat]
      /\ Distinct(q) /\ Distinct(r) /\ Elems(q) \cap Elems(r) = {} /\ Follows(D, r)
  BY <1>1, Zenon DEF Placing
<1>3. Distinct(r \o q)
  <2>1. Elems(r) \cap Elems(q) = {}
    BY <1>2
  <2> QED
    BY <1>2, <2>1, Concatenated
<1>4. Topological(r)
  <2>1. \A i \in DOMAIN r : D[r[i]] = Edges(r[i])
    BY <1>1, <1>2 DEF Graph
  <2> QED
    BY <1>2, <2>1 DEF Topological, Follows
<1> QED
  BY <1>2, <1>3, <1>4

\* Nothing is queued or placed at the start.
LEMMA SortInitInv == SortInit => SortInv
<1> SUFFICES ASSUME SortInit PROVE SortInv
  OBVIOUS
<1> USE DEF SortInit
<1>1. \A i, j \in DOMAIN (result \o queue) : (result \o queue)[i] = (result \o queue)[j] => i = j
  <2>1. result \o queue = <<>>
    OBVIOUS
  <2> QED
    BY <2>1
<1>2. system \subseteq Manifests
  OBVIOUS
<1>3. queue \in Seq(Manifests) /\ result \in Seq(Manifests) /\ indegree \in [Manifests -> Nat]
  OBVIOUS
<1>4. SortTypeOK
  BY <1>1, <1>2, <1>3 DEF SortTypeOK
<1>5. LoadOrder
  BY DEF LoadOrder
<1> QED
  BY <1>4, <1>5 DEF SortInv

\* Every step keeps the queue, the counters and the order together.
LEMMA SortStep == SortInv /\ [SortNext]_sortVars => SortInv'
<1> SUFFICES ASSUME SortInv, [SortNext]_sortVars PROVE SortInv'
  OBVIOUS
<1>1. /\ deps \in [Manifests -> SUBSET (Manifests \cup Absent)]
      /\ variant \in {"framework", "manager", "engine"}
      /\ system \subseteq Manifests
      /\ indegree \in [Manifests -> Nat] /\ queue \in Seq(Manifests) /\ result \in Seq(Manifests)
  BY DEF SortInv, SortTypeOK
<1>2. PICK D : D = Graph
  OBVIOUS
<1>3. /\ D \in [Manifests -> SUBSET Manifests]
      /\ \A p \in Manifests : D[p] = Edges(p)
  BY <1>1, <1>2 DEF Graph, Edges
<1>4. ASSUME UNCHANGED deps
      PROVE  Graph' = Graph /\ (Cyclic' <=> Cyclic) /\ \A p : Edges(p)' = Edges(p)
  BY <1>4 DEF Graph, Cyclic, Edges
<1>5. ASSUME UNCHANGED <<variant, deps, system>>, outcome' = "sorting",
             Placing(D, indegree', queue', result', variant)
      PROVE  SortInv'
  <2>1. Placing(Graph, indegree', queue', result', variant)
    BY <1>2, <1>5, Zenon
  <2>2. /\ queue' \in Seq(Manifests) /\ result' \in Seq(Manifests) /\ indegree' \in [Manifests -> Nat]
        /\ Distinct(result' \o queue')
        /\ Topological(result')
    BY <2>1, PlacingIsTyped
  <2>3. SortTypeOK'
    BY <1>1, <1>5, <2>2 DEF SortTypeOK, Distinct
  <2>4. Topological(result)'
    BY <1>5, <2>2 DEF Topological, Edges
  <2>5. LoadOrder'
    BY <1>5, <2>4 DEF LoadOrder
  <2>6. Placing(Graph, indegree, queue, result, variant)'
    <3>1. Graph' = Graph /\ variant' = variant
      BY <1>4, <1>5
    <3> QED
      BY <2>1, <3>1 DEF Placing
  <2> QED
    BY <1>5, <2>3, <2>5, <2>6 DEF SortInv
<1>6. CASE Refuse
  <2>1. SortTypeOK'
    BY <1>6 DEF Refuse, SortInv, SortTypeOK
  <2>2. LoadOrder' /\ outcome' = "missing"
    BY <1>6 DEF Refuse, LoadOrder
  <2> QED
    BY <2>1, <2>2 DEF SortInv
<1>7. CASE Build
  <2>1. PICK Z : Z = {p \in Manifests : Edges(p) = {}}
    OBVIOUS
  <2>2. PICK q \in Seq(Manifests) :
          /\ q = ReadyOrder(Filter(Input, Z)) /\ Elems(q) = Z /\ Distinct(q)
          /\ variant = "manager" /\ Core \in Z => q # <<>> /\ q[1] = Core
    BY <2>1, Ready
  <2>3. queue' = q
    BY <1>7, <2>1, <2>2, Zenon DEF Build
  <2>4. /\ indegree' = [p \in Manifests |-> Cardinality(Edges(p))]
        /\ UNCHANGED <<variant, deps, system>> /\ outcome' = "sorting"
        /\ result' = <<>>
    BY <1>7 DEF Build, SortInv
  <2>5. PICK ind : ind = [p \in Manifests |-> Cardinality(Edges(p))]
    OBVIOUS
  <2>6. Elems(<<>>) = {}
    BY DEF Elems
  <2>7. ASSUME NEW p \in Manifests
        PROVE  ind[p] \in Nat /\ ind[p] = Cardinality({d \in D[p] : d \notin Elems(<<>>)})
    <3>1. {d \in D[p] : d \notin Elems(<<>>)} = Edges(p)
      BY <1>3, <2>6
    <3>2. Edges(p) \subseteq Manifests
      BY DEF Edges
    <3>3. Cardinality(Edges(p)) \in Nat
      BY <3>2, ManifestsCounted, FS_Subset, FS_CardinalityType
    <3> QED
      BY <2>5, <3>1, <3>3
  <2>8. ind \in [Manifests -> Nat]
    BY <2>5, <2>7
  <2>9. <<>> \in Seq(Manifests) /\ Distinct(<<>>) /\ Follows(D, <<>>)
    BY DEF Distinct, Follows
  <2>10. ASSUME NEW p \in Manifests PROVE p \in Elems(<<>>) \cup Elems(q) <=> D[p] \subseteq Elems(<<>>)
    BY <1>3, <2>1, <2>2, <2>6
  <2>11. variant = "manager" /\ D[Core] = {} => q # <<>> /\ q[1] = Core
    BY <1>3, <2>1, <2>2, InputAssumption
  <2>12. Placing(D, ind, q, <<>>, variant)
    BY <2>2, <2>6, <2>7, <2>8, <2>9, <2>10, <2>11 DEF Placing
  <2>13. Placing(D, indegree', queue', result', variant)
    BY <2>3, <2>4, <2>5, <2>12, Zenon
  <2> QED
    BY <1>5, <2>4, <2>13
<1>8. CASE Place
  <2>1. outcome = "sorting" /\ queue # <<>> /\ Placing(D, indegree, queue, result, variant)
    BY <1>2, <1>8 DEF Place, SortInv
  <2>2. PICK c : c = queue[1]
    OBVIOUS
  <2>3. Head(queue) = c
    BY <1>1, <2>1, <2>2
  <2>4. PICK Z : Z = {p \in Manifests : c \in Edges(p) /\ indegree[p] = 1}
    OBVIOUS
  <2>5. PICK f \in Seq(Manifests) : f = ReadyOrder(Filter(Input, Z)) /\ Elems(f) = Z /\ Distinct(f)
    BY <2>4, Ready
  <2>6. PICK ind : ind = [p \in Manifests |-> IF c \in D[p] THEN indegree[p] - 1 ELSE indegree[p]]
    OBVIOUS
  <2>7. \A p \in Manifests : p \in Elems(f) <=> c \in D[p] /\ indegree[p] = 1
    BY <1>3, <2>4, <2>5
  <2>8. Placing(D, ind, Tail(queue) \o f, Append(result, c), variant)
    BY <1>3, <2>1, <2>2, <2>5, <2>6, <2>7, PlaceOne
  <2>9. /\ UNCHANGED <<variant, deps, system>> /\ outcome' = "sorting"
        /\ result' = Append(result, c)
        /\ indegree' = [p \in Manifests |-> IF c \in Edges(p) THEN indegree[p] - 1 ELSE indegree[p]]
    BY <1>8, <2>3, Zenon DEF Place
  <2>10. queue' = Tail(queue) \o f
    <3>1. queue' = Tail(queue) \o ReadyOrder(Filter(Input, {p \in Manifests : c \in Edges(p) /\ indegree[p] = 1}))
      BY <1>8, <2>3, Zenon DEF Place
    <3> QED
      BY <2>4, <2>5, <3>1, Zenon
  <2>11. indegree' = ind
    BY <1>3, <2>6, <2>9
  <2>12. Placing(D, indegree', queue', result', variant)
    BY <2>8, <2>9, <2>10, <2>11, Zenon
  <2> QED
    BY <1>5, <2>9, <2>12
<1>9. CASE Finish
  <2>1. /\ outcome = "sorting" /\ queue = <<>> /\ Placing(Graph, indegree, queue, result, variant)
        /\ UNCHANGED <<variant, deps, system, indegree, queue>>
    BY <1>9 DEF Finish, SortInv
  <2>2. Placing(Graph, indegree, <<>>, result, variant)
    BY <2>1, Zenon
  <2>3. /\ Distinct(result) /\ Follows(D, result)
        /\ variant = "manager" /\ D[Core] = {} =>
             (result = <<>> => <<>> # <<>>) /\ (result # <<>> => result[1] = Core)
    BY <1>2, <2>2, Zenon DEF Placing
  <2>4. Topological(result)
    BY <2>2, PlacingIsTyped
  <2>5. Len(result) \in Nat /\ DOMAIN result = 1..Len(result)
    BY <1>1
  <2>6. CASE Len(result) # Len(Input)
    <3>1. outcome' = "cycle" /\ UNCHANGED result
      BY <1>9, <2>6 DEF Finish
    <3>2. Cyclic'
      BY <1>4, <2>1, <2>2, <2>6, StuckIsCyclic
    <3>3. LoadOrder'
      BY <3>1, <3>2 DEF LoadOrder
    <3>4. SortTypeOK'
      BY <2>1, <3>1 DEF SortInv, SortTypeOK
    <3> QED
      BY <3>1, <3>3, <3>4 DEF SortInv
  <2>7. CASE Len(result) = Len(Input)
    <3>1. Elems(result) = Manifests
      <4>1. Elems(result) \subseteq Manifests
        BY <1>1 DEF Elems
      <4>2. IsFiniteSet(Elems(result)) /\ Cardinality(Elems(result)) = Len(result)
        BY <1>1, <2>3, Counted
      <4> QED
        BY <2>7, <4>1, <4>2, ManifestsCounted, FS_Subset
    <3>2. ~Cyclic
      BY <1>1, <1>2, <2>3, <3>1, OrderedIsAcyclic
    <3>3. ~Cyclic' /\ outcome' = "sorted"
      BY <1>4, <1>9, <2>1, <2>7, <3>2 DEF Finish
    <3>4. CASE variant # "framework"
      <4>1. UNCHANGED result
        BY <1>9, <2>7, <3>4 DEF Finish
      <4>2. Topological(result)'
        BY <2>1, <2>4, <4>1 DEF Topological, Edges
      <4>3. variant' = "manager" /\ deps'[Core] = {} => result'[1] = Core
        <5>1. deps[Core] = {} => D[Core] = {}
          BY <1>3, InputAssumption DEF Edges
        <5>2. result # <<>>
          BY <3>1, InputAssumption DEF Elems
        <5> QED
          BY <2>1, <2>3, <4>1, <5>1, <5>2
      <4>4. Elems(result)' = Manifests /\ Len(result)' = Len(Input)
        BY <2>7, <3>1, <4>1 DEF Elems
      <4>5. LoadOrder'
        BY <2>1, <3>3, <3>4, <4>2, <4>3, <4>4 DEF LoadOrder
      <4>6. SortTypeOK'
        BY <2>1, <3>3, <4>1 DEF SortInv, SortTypeOK
      <4> QED
        BY <3>3, <4>5, <4>6 DEF SortInv
    <3>5. CASE variant = "framework"
      <4>1. PICK U : U = Manifests \ system
        OBVIOUS
      <4>2. \A p \in Manifests : p \in U <=> p \notin system
        BY <4>1
      <4>3. PICK f : /\ f = Filter(result, system) \o Filter(result, U)
                     /\ f \in Seq(Manifests) /\ Elems(f) = Elems(result) /\ Distinct(f)
                     /\ TFirst(f, system) /\ KeepsWithin(result, f, system)
        BY <1>1, <2>3, <4>2, Split
      <4>4. result' = f
        BY <1>9, <2>7, <3>5, <4>1, <4>3, Zenon DEF Finish, SystemFirst
      <4>5. Follows(Graph, result)
        BY <1>2, <2>3, Zenon
      <4>6. InOrder(f, system)
        BY <1>1, <2>3, <4>3, <4>5, GroupInOrder
      <4>7. InOrder(f, U)
        BY <1>1, <2>3, <4>2, <4>3, <4>5, GroupInOrder
      <4>8. InOrder(result, system)' /\ InOrder(result, Manifests \ system)'
        BY <2>1, <4>1, <4>4, <4>6, <4>7 DEF InOrder, Edges
      <4>9. Elems(result)' = Manifests /\ Len(result)' = Len(Input)
        <5>1. Elems(f) = Manifests /\ Len(f) = Len(Input)
          BY <3>1, <4>3, Counted, ManifestsCounted
        <5> QED
          BY <4>4, <5>1 DEF Elems
      <4>10. \A i, j \in DOMAIN result' : i < j /\ result'[j] \in system' => result'[i] \in system'
        BY <2>1, <4>3, <4>4 DEF TFirst
      <4>11. LoadOrder'
        BY <2>1, <3>3, <3>5, <4>8, <4>9, <4>10 DEF LoadOrder
      <4>12. \A i, j \in DOMAIN (result' \o queue') : (result' \o queue')[i] = (result' \o queue')[j] => i = j
        <5>1. result' \o queue' = f
          BY <2>1, <4>3, <4>4
        <5> QED
          BY <4>3, <5>1 DEF Distinct
      <4>13. SortTypeOK'
        BY <1>1, <2>1, <3>3, <4>3, <4>4, <4>12 DEF SortTypeOK
      <4> QED
        BY <3>3, <4>11, <4>13 DEF SortInv
    <3> QED
      BY <3>4, <3>5
  <2> QED
    BY <2>6, <2>7
<1>10. CASE UNCHANGED sortVars
  <2> USE <1>10 DEF sortVars
  <2>1. SortTypeOK'
    BY DEF SortInv, SortTypeOK
  <2>2. Topological(result)' <=> Topological(result)
    BY DEF Topological, Edges
  <2>3. (InOrder(result, system)' <=> InOrder(result, system))
        /\ (InOrder(result, Manifests \ system)' <=> InOrder(result, Manifests \ system))
    BY DEF InOrder, Edges
  <2>4. (Cyclic' <=> Cyclic) /\ Elems(result)' = Elems(result) /\ Graph' = Graph
    BY <1>4 DEF Elems
  <2>5. LoadOrder'
    BY <2>2, <2>3, <2>4 DEF SortInv, LoadOrder
  <2>6. Placing(Graph, indegree, queue, result, variant) => Placing(Graph, indegree, queue, result, variant)'
    BY <2>4 DEF Placing
  <2> QED
    BY <2>1, <2>5, <2>6 DEF SortInv
<1> QED
  BY <1>6, <1>7, <1>8, <1>9, <1>10 DEF SortNext

\* LoadOrder, for every set of manifests and every graph of dependencies.
THEOREM LoadOrderEver == SortSpec => [](SortTypeOK /\ LoadOrder)
<1>1. SortInv => SortTypeOK /\ LoadOrder
  BY DEF SortInv
<1> QED
  BY <1>1, SortInitInv, SortStep, PTL DEF SortSpec

-----------------------------------------------------------------------------
\* What Append does to a sequence, and to any set its elements are known of.
LEMMA AppendFacts ==
  ASSUME NEW S, NEW s \in Seq(S), NEW e \in S
  PROVE  /\ Append(s, e) \in Seq(S)
         /\ Len(Append(s, e)) = Len(s) + 1
         /\ DOMAIN s = 1..Len(s) /\ Len(s) \in Nat
         /\ DOMAIN Append(s, e) = DOMAIN s \cup {Len(s) + 1}
         /\ \A i \in DOMAIN s : Append(s, e)[i] = s[i]
         /\ Append(s, e)[Len(s) + 1] = e
OBVIOUS

\* The phase that a sequence stops at: it has a hook for it unless it is past the
\* last one, and for none before it.
LEMMA NextHookFacts ==
  ASSUME NEW c, NEW i \in 1..(Len(Phases) + 1)
  PROVE  /\ NextHook(c, i) \in i..(Len(Phases) + 1)
         /\ \A k \in i..(NextHook(c, i) - 1) : ~Has(c, k)
<1> DEFINE ahead == {j \in i..Len(Phases) : Has(c, j)}
<1>0. Len(Phases) \in Nat /\ i \in Nat
  BY PhasesAssumption
<1>1. CASE ahead = {}
  <2>1. NextHook(c, i) = Len(Phases) + 1
    BY <1>1 DEF NextHook
  <2>2. \A k \in i..Len(Phases) : ~Has(c, k)
    BY <1>1
  <2> QED
    BY <1>0, <2>1, <2>2
<1>2. CASE ahead # {}
  <2>1. ahead \in SUBSET Nat
    BY <1>0
  <2>2. \E j \in ahead : \A k \in ahead : j <= k
    BY <1>2, <2>1, LeastExists
  <2>3. /\ NextHook(c, i) \in ahead
        /\ \A k \in ahead : NextHook(c, i) <= k
    BY <1>2, <2>2 DEF NextHook
  <2>4. NextHook(c, i) \in i..Len(Phases)
    BY <2>3
  <2>5. ASSUME NEW k \in i..(NextHook(c, i) - 1) PROVE ~Has(c, k)
    <3>1. k \in i..Len(Phases) /\ ~(NextHook(c, i) <= k)
      BY <1>0, <2>4
    <3> QED
      BY <2>3, <3>1
  <2> QED
    BY <1>0, <2>4, <2>5
<1> QED
  BY <1>1, <1>2

-----------------------------------------------------------------------------
(* What the host holds.                                                    *)

Stages == {"import", "delay", "loaded", "failed"}

\* The map, the calls and the history are what they should be.
HostShapes ==
  /\ instances \in [Plugins -> Calls \cup {None}]
  /\ load \in [Calls -> {Idle} \cup [at : Stages, plugin : Plugins]]
  /\ importing \subseteq {c \in Calls : load[c] # Idle}

HoldsInv == HostShapes /\ HoldsWhatLoaded

LEMMA HoldsInit == HostInit => HoldsInv
BY NoneAssumption DEF HostInit, HoldsInv, HostShapes, HoldsWhatLoaded

LEMMA HoldsNext == HoldsInv /\ [HostNext]_hostVars => HoldsInv'
<1> SUFFICES ASSUME HoldsInv, [HostNext]_hostVars PROVE HoldsInv'
  OBVIOUS
<1> USE DEF HoldsInv
<1>1. ASSUME NEW c \in Calls, NEW p \in Plugins, LoadPlugin(c, p) PROVE HoldsInv'
  BY <1>1 DEF LoadPlugin, HostShapes, HoldsWhatLoaded, Stages, Idle
<1>2. ASSUME NEW c \in Calls, NEW ends \in {"resolved", "rejected"}, ImportSettles(c, ends)
      PROVE  HoldsInv'
  BY <1>2 DEF ImportSettles, Settle, HostShapes, HoldsWhatLoaded, Stages, Idle
<1>3. ASSUME NEW c \in Calls, TimerFires(c) PROVE HoldsInv'
  BY <1>3 DEF TimerFires, Settle, HostShapes, HoldsWhatLoaded, Stages, Idle
<1>4. ASSUME NEW c \in Calls, NEW serializable \in BOOLEAN, DelayEnds(c, serializable)
      PROVE  HoldsInv'
  BY <1>4, NoneAssumption DEF DelayEnds, Settle, HostShapes, HoldsWhatLoaded, Stages, Idle
<1>5. ASSUME NEW p \in Plugins, UnloadPlugin(p) PROVE HoldsInv'
  BY <1>5 DEF UnloadPlugin, HostShapes, HoldsWhatLoaded
<1>6. CASE UNCHANGED <<instances, load, importing>>
  BY <1>6 DEF HostShapes, HoldsWhatLoaded
<1> QED
  BY <1>1, <1>2, <1>3, <1>4, <1>5, <1>6 DEF HostNext, hostVars, RunSequence, HookEnds

-----------------------------------------------------------------------------
(* Loads of one plugin that both succeed.                                  *)

Event == [what : {"began", "loaded", "unloaded"}, call : Calls, plugin : Plugins]

\* Event i of the history h is of this kind and of this plugin.
Is(h, i, what, p) == h[i].what = what /\ h[i].plugin = p

\* Every success of a load of p up to the moment n is undone by then.
Undone(h, p, n) ==
  \A i \in 1..n : Is(h, i, "loaded", p) => \E k \in i..n : Is(h, k, "unloaded", p)

\* The load c of p began when all loads of p had been undone.
BeganClean(h, c, p) ==
  \E k \in 1..Len(h) : Is(h, k, "began", p) /\ h[k].call = c /\ Undone(h, p, k)

\* OnlyOverlappingLoadsRepeat of any history.
Overlap(h) ==
  \A p \in Plugins : \A i, j \in 1..Len(h) :
    (i < j /\ Is(h, i, "loaded", p) /\ Is(h, j, "loaded", p)) =>
      \/ \E k \in i..j : Is(h, k, "unloaded", p)
      \/ \E k \in 1..i : Is(h, k, "began", p) /\ h[k].call = h[j].call

\* A plugin that is not in the map has had all its loads undone, and so had
\* one whose load is under way at the moment that load began.
RepeatInv ==
  /\ HoldsInv
  /\ history \in Seq(Event)
  /\ \A p \in Plugins : instances[p] = None => Undone(history, p, Len(history))
  /\ \A c \in Calls : load[c].at \in {"import", "delay"} => BeganClean(history, c, load[c].plugin)
  /\ Overlap(history)

LEMMA RepeatInit == HostInit => RepeatInv
<1>1. HostInit => history = <<>> /\ \A c \in Calls : load[c].at = "idle"
  BY DEF HostInit, Idle
<1>2. <<>> \in Seq(Event) /\ Len(<<>>) = 0 /\ 1..0 = {}
  OBVIOUS
<1> QED
  BY <1>1, <1>2, HoldsInit DEF RepeatInv, Undone, Overlap

\* An event is added: those before it stay what they were.
LEMMA EventAdded ==
  ASSUME NEW h \in Seq(Event), NEW e \in Event
  PROVE  /\ Append(h, e) \in Seq(Event)
         /\ Len(h) \in Nat
         /\ Len(Append(h, e)) = Len(h) + 1
         /\ \A i \in 1..Len(h) : Append(h, e)[i] = h[i]
         /\ Append(h, e)[Len(h) + 1] = e
  BY AppendFacts

LEMMA AddedIs ==
  ASSUME NEW h \in Seq(Event), NEW e \in Event
  PROVE  /\ \A i \in 1..Len(h) : \A what, p : Is(Append(h, e), i, what, p) <=> Is(h, i, what, p)
         /\ \A what, p : Is(Append(h, e), Len(h) + 1, what, p) <=> e.what = what /\ e.plugin = p
BY EventAdded DEF Is

\* What was undone stays undone; an event that is no load of p undoes nothing;
\* and an unload undoes all.
LEMMA UndoneStays ==
  ASSUME NEW h \in Seq(Event), NEW e \in Event, NEW p \in Plugins
  PROVE  /\ \A n \in 1..Len(h) : Undone(h, p, n) => Undone(Append(h, e), p, n)
         /\ Undone(h, p, Len(h)) /\ ~(e.what = "loaded" /\ e.plugin = p)
              => Undone(Append(h, e), p, Len(h) + 1)
         /\ e.what = "unloaded" /\ e.plugin = p => Undone(Append(h, e), p, Len(h) + 1)
<1> DEFINE g == Append(h, e)
           n == Len(h)
<1>1. n \in Nat /\ n + 1 \in Nat
  BY EventAdded
<1>2. /\ \A i \in 1..n : \A what, q : Is(g, i, what, q) <=> Is(h, i, what, q)
      /\ \A what, q : Is(g, n + 1, what, q) <=> e.what = what /\ e.plugin = q
  BY AddedIs
<1> HIDE DEF g, n
<1>3. ASSUME NEW m \in 1..n, Undone(h, p, m) PROVE Undone(g, p, m)
  BY <1>1, <1>2, <1>3 DEF Undone
<1>4. ASSUME Undone(h, p, n), ~(e.what = "loaded" /\ e.plugin = p) PROVE Undone(g, p, n + 1)
  <2> SUFFICES ASSUME NEW i \in 1..(n + 1), Is(g, i, "loaded", p)
               PROVE  \E k \in i..(n + 1) : Is(g, k, "unloaded", p)
    BY DEF Undone
  <2>1. i # n + 1
    BY <1>2, <1>4
  <2>2. i \in 1..n /\ Is(h, i, "loaded", p)
    BY <1>1, <1>2, <2>1
  <2>3. PICK k \in i..n : Is(h, k, "unloaded", p)
    BY <1>4, <2>2 DEF Undone
  <2> QED
    BY <1>1, <1>2, <2>2, <2>3
<1>5. ASSUME e.what = "unloaded", e.plugin = p PROVE Undone(g, p, n + 1)
  BY <1>1, <1>2, <1>5 DEF Undone
<1> QED
  BY <1>3, <1>4, <1>5 DEF g, n

\* A load that began clean did so for ever.
LEMMA BeganStays ==
  ASSUME NEW h \in Seq(Event), NEW e \in Event, NEW p \in Plugins, NEW c, BeganClean(h, c, p)
  PROVE  BeganClean(Append(h, e), c, p)
<1>1. PICK k \in 1..Len(h) : Is(h, k, "began", p) /\ h[k].call = c /\ Undone(h, p, k)
  BY DEF BeganClean
<1>2. Is(Append(h, e), k, "began", p) /\ Append(h, e)[k].call = c /\ Undone(Append(h, e), p, k)
  BY <1>1, AddedIs, EventAdded, UndoneStays
<1>3. k \in 1..Len(Append(h, e))
  BY EventAdded
<1> QED
  BY <1>2, <1>3 DEF BeganClean

\* A load may succeed if it began clean, and anything else may happen.
LEMMA OverlapStays ==
  ASSUME NEW h \in Seq(Event), NEW e \in Event, Overlap(h),
         e.what = "loaded" => BeganClean(h, e.call, e.plugin)
  PROVE  Overlap(Append(h, e))
<1> DEFINE g == Append(h, e)
           n == Len(h)
<1>1. n \in Nat /\ Len(g) = n + 1 /\ \A i \in 1..n : g[i] = h[i]
  BY EventAdded
<1>2. g[n + 1] = e
  BY EventAdded
<1>3. /\ \A i \in 1..n : \A what, q : Is(g, i, what, q) <=> Is(h, i, what, q)
      /\ \A what, q : Is(g, n + 1, what, q) <=> e.what = what /\ e.plugin = q
  BY AddedIs
<1>4. e.what = "loaded" =>
        \E k \in 1..n : Is(h, k, "began", e.plugin) /\ h[k].call = e.call /\ Undone(h, e.plugin, k)
  BY DEF BeganClean
<1> HIDE DEF g, n
<1>0. Overlap(g)
  <2> SUFFICES ASSUME NEW p \in Plugins, NEW i \in 1..(n + 1), NEW j \in 1..(n + 1),
                      i < j, Is(g, i, "loaded", p), Is(g, j, "loaded", p)
               PROVE  \/ \E k \in i..j : Is(g, k, "unloaded", p)
                      \/ \E k \in 1..i : Is(g, k, "began", p) /\ g[k].call = g[j].call
    BY <1>1 DEF Overlap
  <2>1. i \in 1..n
    BY <1>1
  <2>2. CASE j \in 1..n
    <3>1. Is(h, i, "loaded", p) /\ Is(h, j, "loaded", p)
      BY <1>3, <2>1, <2>2
    <3>2. \/ \E k \in i..j : Is(h, k, "unloaded", p)
          \/ \E k \in 1..i : Is(h, k, "began", p) /\ h[k].call = h[j].call
      BY <2>1, <2>2, <3>1 DEF Overlap, n
    <3> QED
      BY <1>1, <1>3, <2>1, <2>2, <3>2
  <2>3. CASE j = n + 1
    <3>1. e.what = "loaded" /\ e.plugin = p /\ Is(h, i, "loaded", p)
      BY <1>3, <2>1, <2>3
    <3>2. PICK k \in 1..n : Is(h, k, "began", p) /\ h[k].call = e.call /\ Undone(h, p, k)
      BY <1>4, <3>1
    <3>3. CASE k <= i
      BY <1>1, <1>2, <1>3, <2>1, <2>3, <3>2, <3>3
    <3>4. CASE i < k
      <4>1. PICK l \in i..k : Is(h, l, "unloaded", p)
        BY <2>1, <3>1, <3>2, <3>4 DEF Undone
      <4> QED
        BY <1>1, <1>3, <2>1, <2>3, <4>1
    <3> QED
      BY <1>1, <2>1, <3>3, <3>4
  <2> QED
    BY <1>1, <2>2, <2>3
<1> QED
  BY <1>0 DEF g

\* The stage of a load, and what it is for, when it moves on.
LEMMA SettleFacts ==
  ASSUME HostShapes, NEW c \in Calls, load[c].at \in Stages, NEW stage \in Stages, Settle(c, stage)
  PROVE  /\ load[c].plugin \in Plugins
         /\ load'[c].at = stage /\ load'[c].plugin = load[c].plugin
         /\ \A d \in Calls \ {c} : load'[d] = load[d]
BY DEF HostShapes, Settle, Stages, Idle

\* A step that adds an event e, with what it does to the map and to the loads.
LEMMA RepeatStays ==
  ASSUME RepeatInv, HoldsInv', NEW e \in Event, history' = Append(history, e),
         \A p \in Plugins : instances'[p] = None =>
           \/ instances[p] = None /\ ~(e.what = "loaded" /\ e.plugin = p)
           \/ e.what = "unloaded" /\ e.plugin = p,
         \A c \in Calls : load'[c].at \in {"import", "delay"} =>
           BeganClean(history, c, load'[c].plugin) \/ BeganClean(history', c, load'[c].plugin),
         e.what = "loaded" => BeganClean(history, e.call, e.plugin)
  PROVE  RepeatInv'
<1> USE DEF RepeatInv
<1>1. history' \in Seq(Event) /\ Len(history') = Len(history) + 1
  BY EventAdded
<1>2. ASSUME NEW p \in Plugins, instances'[p] = None PROVE Undone(history', p, Len(history'))
  BY <1>1, <1>2, UndoneStays
<1>3. ASSUME NEW c \in Calls, load'[c].at \in {"import", "delay"}
      PROVE  BeganClean(history', c, load'[c].plugin)
  <2>1. CASE BeganClean(history, c, load'[c].plugin)
    <3>1. load'[c].plugin \in Plugins
      BY <1>3 DEF HoldsInv, HostShapes, Idle, Stages
    <3> QED
      BY <2>1, <3>1, BeganStays
  <2> QED
    BY <1>3, <2>1
<1>4. Overlap(history')
  BY OverlapStays
<1> QED
  BY <1>1, <1>2, <1>3, <1>4

LEMMA RepeatNext == RepeatInv /\ [HostNext]_hostVars => RepeatInv'
<1> SUFFICES ASSUME RepeatInv, [HostNext]_hostVars PROVE RepeatInv'
  OBVIOUS
<1>0. HoldsInv' /\ HostShapes
  BY HoldsNext DEF RepeatInv, HoldsInv
<1>1. ASSUME NEW c \in Calls, NEW p \in Plugins, LoadPlugin(c, p) PROVE RepeatInv'
  <2> DEFINE e == [what |-> "began", call |-> c, plugin |-> p]
  <2>1. e \in Event /\ e.what = "began" /\ e.call = c /\ e.plugin = p
    BY DEF Event
  <2>2. history' = Append(history, e) /\ UNCHANGED instances
    BY <1>1 DEF LoadPlugin, Note
  <2> HIDE DEF e
  <2>3. CASE instances[p] # None
    <3>1. \A d \in Calls : load'[d].at \in {"import", "delay"} => load'[d] = load[d]
      BY <1>0, <1>1, <2>3 DEF LoadPlugin, HostShapes
    <3> QED
      BY <1>0, <2>1, <2>2, <3>1, RepeatStays DEF RepeatInv
  <2>4. CASE instances[p] = None
    <3>1. load'[c].plugin = p /\ \A d \in Calls \ {c} : load'[d] = load[d]
      BY <1>0, <1>1, <2>4 DEF LoadPlugin, HostShapes
    <3>2. Undone(history, p, Len(history)) /\ history \in Seq(Event)
      BY <2>4 DEF RepeatInv
    <3>3. Undone(history', p, Len(history) + 1)
      BY <2>1, <2>2, <3>2, UndoneStays
    <3>4. Is(history', Len(history) + 1, "began", p) /\ history'[Len(history) + 1].call = c
      BY <2>1, <2>2, <3>2, EventAdded, AddedIs
    <3>5. Len(history) + 1 \in 1..Len(history')
      BY <2>1, <2>2, <3>2, EventAdded
    <3>6. BeganClean(history', c, p)
      BY <3>3, <3>4, <3>5 DEF BeganClean
    <3> QED
      BY <1>0, <2>1, <2>2, <3>1, <3>6, RepeatStays DEF RepeatInv
  <2> QED
    BY <2>3, <2>4
<1>2. ASSUME NEW c \in Calls, NEW ends \in {"resolved", "rejected"}, ImportSettles(c, ends)
      PROVE  RepeatInv'
  <2>1. UNCHANGED <<instances, history>>
    BY <1>2 DEF ImportSettles
  <2>2. \A d \in Calls : load'[d].at \in {"import", "delay"} =>
          load[d].at \in {"import", "delay"} /\ load'[d].plugin = load[d].plugin
    BY <1>0, <1>2, SettleFacts DEF ImportSettles, Stages
  <2> QED
    BY <1>0, <2>1, <2>2 DEF RepeatInv
<1>3. ASSUME NEW c \in Calls, TimerFires(c) PROVE RepeatInv'
  <2>1. UNCHANGED <<instances, history>>
    BY <1>3 DEF TimerFires
  <2>2. \A d \in Calls : load'[d].at \in {"import", "delay"} =>
          load[d].at \in {"import", "delay"} /\ load'[d].plugin = load[d].plugin
    BY <1>0, <1>3, SettleFacts DEF TimerFires, Stages
  <2> QED
    BY <1>0, <2>1, <2>2 DEF RepeatInv
<1>4. ASSUME NEW c \in Calls, NEW serializable \in BOOLEAN, DelayEnds(c, serializable)
      PROVE  RepeatInv'
  <2>1. load[c].at = "delay" /\ load[c].plugin \in Plugins
    BY <1>0, <1>4 DEF DelayEnds, HostShapes, Idle, Stages
  <2>2. \A d \in Calls : load'[d].at \in {"import", "delay"} => load'[d] = load[d]
    BY <1>0, <1>4, <2>1, SettleFacts DEF DelayEnds, Stages
  <2>3. CASE serializable
    <3> DEFINE e == [what |-> "loaded", call |-> c, plugin |-> load[c].plugin]
    <3>1. e \in Event /\ e.what = "loaded" /\ e.call = c /\ e.plugin = load[c].plugin
      BY <2>1 DEF Event
    <3>2. history' = Append(history, e) /\ instances' = [instances EXCEPT ![load[c].plugin] = c]
      BY <1>4, <2>3 DEF DelayEnds, Note
    <3> HIDE DEF e
    <3>3. \A p \in Plugins : instances'[p] = None => instances[p] = None /\ p # load[c].plugin
      BY <1>0, <2>1, <3>2, NoneAssumption DEF HostShapes
    <3>4. BeganClean(history, c, load[c].plugin)
      BY <2>1 DEF RepeatInv
    <3> QED
      BY <1>0, <2>2, <3>1, <3>2, <3>3, <3>4, RepeatStays DEF RepeatInv
  <2>4. CASE ~serializable
    BY <1>0, <1>4, <2>2, <2>4 DEF DelayEnds, RepeatInv
  <2> QED
    BY <2>3, <2>4
<1>5. ASSUME NEW p \in Plugins, UnloadPlugin(p) PROVE RepeatInv'
  <2> DEFINE e == [what |-> "unloaded", call |-> instances[p], plugin |-> p]
  <2>1. e \in Event /\ e.what = "unloaded" /\ e.plugin = p
    BY <1>0, <1>5 DEF Event, UnloadPlugin, HostShapes
  <2>2. history' = Append(history, e) /\ instances' = [instances EXCEPT ![p] = None] /\ UNCHANGED load
    BY <1>5 DEF UnloadPlugin, Note
  <2> HIDE DEF e
  <2>3. \A q \in Plugins \ {p} : instances'[q] = instances[q]
    BY <2>2 DEF HostShapes
  <2> QED
    BY <1>0, <2>1, <2>2, <2>3, RepeatStays DEF RepeatInv
<1>6. CASE UNCHANGED <<instances, load, history>>
  BY <1>0, <1>6 DEF RepeatInv
<1> QED
  BY <1>1, <1>2, <1>3, <1>4, <1>5, <1>6 DEF HostNext, hostVars, RunSequence, HookEnds

LEMMA RepeatIsMeant == RepeatInv => OnlyOverlappingLoadsRepeat
<1>1. RepeatInv => DOMAIN history = 1..Len(history)
  BY DEF RepeatInv
<1> QED
  BY <1>1 DEF RepeatInv, Overlap, OnlyOverlappingLoadsRepeat, At, Is

-----------------------------------------------------------------------------
(* The sequences of hooks.                                                 *)

Ended == [phase : 1..Len(Phases), outcome : {"resolved", "rejected"}]

\* FailureStops is inductive once it is known that a sequence that has not begun
\* has run nothing, and that the hook that runs is for a later phase than those
\* that have.
RunsWell(s, r, l) ==
  /\ s \in [at : {"idle", "hook", "done", "failed"}, next : 1..(Len(Phases) + 1)]
  /\ r \in Seq(Ended)
  /\ s.at = "idle" => s = NotRun /\ r = <<>>
  /\ s.at # "idle" => l.at = "loaded"
  /\ s.at = "hook" => s.next <= Len(Phases) /\ \A i \in 1..Len(r) : r[i].phase < s.next
  /\ \A i \in 1..Len(r) : r[i].outcome = "rejected" =>
       i = Len(r) /\ s = [at |-> "failed", next |-> r[i].phase]
  /\ \A i, j \in 1..Len(r) : i < j => r[i].phase < r[j].phase
  /\ \A k \in 1..(s.next - 1) : Phases[k] \in Hooks[l.plugin] => \E i \in 1..Len(r) : r[i].phase = k

HooksInv ==
  /\ HoldsInv
  /\ DOMAIN sequence = Calls /\ DOMAIN ran = Calls
  /\ \A c \in Calls : RunsWell(sequence[c], ran[c], load[c])

LEMMA HooksInit == HostInit => HooksInv
<1> SUFFICES ASSUME HostInit, NEW c \in Calls PROVE RunsWell(sequence[c], ran[c], load[c])
  BY HoldsInit DEF HostInit, HooksInv
<1>1. sequence[c] = NotRun /\ ran[c] = <<>>
  BY DEF HostInit
<1>2. Len(Phases) \in Nat /\ <<>> \in Seq(Ended) /\ Len(<<>>) = 0
  BY PhasesAssumption
<1>3. NotRun.at = "idle" /\ NotRun.next = 1
      /\ NotRun \in [at : {"idle", "hook", "done", "failed"}, next : 1..(Len(Phases) + 1)]
  BY <1>2 DEF NotRun
<1> HIDE DEF NotRun
<1> QED
  BY <1>1, <1>2, <1>3 DEF RunsWell

\* A sequence does not move while its load does, for a load whose sequence has
\* begun is over.
LEMMA HooksStand ==
  ASSUME HooksInv, HoldsInv', UNCHANGED <<sequence, ran>>,
         \A c \in Calls : load[c].at = "loaded" => load'[c] = load[c]
  PROVE  HooksInv'
<1> SUFFICES ASSUME NEW c \in Calls PROVE RunsWell(sequence'[c], ran'[c], load'[c])
  BY DEF HooksInv
<1>1. RunsWell(sequence[c], ran[c], load[c])
  BY DEF HooksInv
<1>2. CASE sequence[c].at # "idle"
  <2>1. load'[c] = load[c]
    BY <1>1, <1>2 DEF RunsWell
  <2> QED
    BY <1>1, <2>1 DEF RunsWell, Has
<1>3. CASE sequence[c].at = "idle"
  <2>1. sequence[c].next - 1 = 0
    BY <1>1, <1>3 DEF RunsWell, NotRun
  <2> QED
    BY <1>1, <1>3, <2>1 DEF RunsWell
<1> QED
  BY <1>2, <1>3

\* Continue takes a sequence over phases that have no hook.
LEMMA ContinueFacts ==
  ASSUME HooksInv, NEW c \in Calls, NEW i \in 1..(Len(Phases) + 1), Continue(c, i)
  PROVE  /\ DOMAIN sequence' = Calls /\ \A d \in Calls \ {c} : sequence'[d] = sequence[d]
         /\ sequence'[c].next \in i..(Len(Phases) + 1)
         /\ sequence'[c] = [at |-> IF sequence'[c].next > Len(Phases) THEN "done" ELSE "hook",
                            next |-> sequence'[c].next]
         /\ \A k \in i..(sequence'[c].next - 1) : ~Has(c, k)
<1> DEFINE j == NextHook(c, i)
<1>1. j \in i..(Len(Phases) + 1) /\ \A k \in i..(j - 1) : ~Has(c, k)
  BY NextHookFacts
<1>2. sequence' = [sequence EXCEPT ![c] = [at |-> IF j > Len(Phases) THEN "done" ELSE "hook", next |-> j]]
  BY DEF Continue
<1> HIDE DEF j
<1> QED
  BY <1>1, <1>2 DEF HooksInv

LEMMA HooksNext == HooksInv /\ [HostNext]_hostVars => HooksInv'
<1> SUFFICES ASSUME HooksInv, [HostNext]_hostVars PROVE HooksInv'
  OBVIOUS
<1>0. HoldsInv' /\ HoldsInv /\ HostShapes /\ Len(Phases) \in Nat
  BY HoldsNext, PhasesAssumption DEF HooksInv, HoldsInv
<1>1. ASSUME NEW c \in Calls, NEW p \in Plugins, LoadPlugin(c, p) PROVE HooksInv'
  BY <1>0, <1>1, HooksStand DEF LoadPlugin, HostShapes, Idle
<1>2. ASSUME NEW c \in Calls, NEW ends \in {"resolved", "rejected"}, ImportSettles(c, ends)
      PROVE  HooksInv'
  BY <1>0, <1>2, HooksStand DEF ImportSettles, Settle, HostShapes
<1>3. ASSUME NEW c \in Calls, TimerFires(c) PROVE HooksInv'
  BY <1>0, <1>3, HooksStand DEF TimerFires, Settle, HostShapes
<1>4. ASSUME NEW c \in Calls, NEW serializable \in BOOLEAN, DelayEnds(c, serializable)
      PROVE  HooksInv'
  BY <1>0, <1>4, HooksStand DEF DelayEnds, Settle, HostShapes
<1>5. ASSUME NEW p \in Plugins, UnloadPlugin(p) PROVE HooksInv'
  BY <1>0, <1>5, HooksStand DEF UnloadPlugin
<1>6. ASSUME NEW c \in Calls, RunSequence(c) PROVE HooksInv'
  <2>1. /\ load[c].at = "loaded" /\ UNCHANGED <<load, ran>>
        /\ RunsWell(sequence[c], ran[c], load[c]) /\ sequence[c].at = "idle" /\ Continue(c, 1)
    BY <1>6 DEF RunSequence, HooksInv, NotRun
  <2>2. /\ DOMAIN sequence' = Calls /\ \A d \in Calls \ {c} : sequence'[d] = sequence[d]
        /\ sequence'[c].next \in 1..(Len(Phases) + 1)
        /\ sequence'[c] = [at |-> IF sequence'[c].next > Len(Phases) THEN "done" ELSE "hook",
                           next |-> sequence'[c].next]
        /\ \A k \in 1..(sequence'[c].next - 1) : ~Has(c, k)
    BY <1>0, <2>1, ContinueFacts
  <2>3. ran'[c] = <<>> /\ Len(<<>>) = 0 /\ <<>> \in Seq(Ended)
    BY <2>1 DEF RunsWell
  <2>4. sequence'[c].at \in {"done", "hook"}
        /\ (sequence'[c].at = "hook" => sequence'[c].next <= Len(Phases))
    BY <1>0, <2>2
  <2>5. RunsWell(sequence'[c], ran'[c], load'[c])
    <3> DEFINE m == sequence'[c].next
    <3>1. /\ sequence'[c] \in [at : {"idle", "hook", "done", "failed"}, next : 1..(Len(Phases) + 1)]
          /\ sequence'[c].at # "idle"
      BY <2>2
    <3>2. \A k \in 1..(m - 1) : ~Has(c, k)'
      BY <2>1, <2>2 DEF Has
    <3> HIDE DEF m
    <3>3. 1..Len(ran'[c]) = {}
      BY <2>3
    <3>4. ran'[c] \in Seq(Ended) /\ load'[c].at = "loaded"
      BY <2>1, <2>3
    <3> QED
      BY <2>4, <3>1, <3>2, <3>3, <3>4 DEF RunsWell, m, Has
  <2>6. \A d \in Calls \ {c} : RunsWell(sequence'[d], ran'[d], load'[d])
    BY <2>1, <2>2 DEF HooksInv
  <2> QED
    BY <1>0, <2>1, <2>2, <2>5, <2>6 DEF HooksInv
<1>7. ASSUME NEW c \in Calls, NEW ends \in {"resolved", "rejected"}, HookEnds(c, ends)
      PROVE  HooksInv'
  <2> DEFINE phase == sequence[c].next
             e == [phase |-> phase, outcome |-> ends]
             n == Len(ran[c])
  <2>1. RunsWell(sequence[c], ran[c], load[c]) /\ sequence[c].at = "hook" /\ phase \in 1..Len(Phases) /\ ran[c] \in Seq(Ended)
    BY <1>0, <1>7 DEF HookEnds, HooksInv, RunsWell
  <2>2. e \in Ended
    BY <2>1 DEF Ended
  <2>3. /\ DOMAIN ran' = Calls /\ ran'[c] = Append(ran[c], e) /\ \A d \in Calls \ {c} : ran'[d] = ran[d]
        /\ UNCHANGED load
    BY <1>7 DEF HookEnds, Ends, HooksInv
  <2>4. /\ ran'[c] \in Seq(Ended) /\ n \in Nat /\ Len(ran'[c]) = n + 1
        /\ \A i \in 1..n : ran'[c][i] = ran[c][i]
        /\ ran'[c][n + 1] = e
    BY <2>1, <2>2, <2>3, AppendFacts
  <2>5. e.phase = phase /\ e.outcome = ends
    OBVIOUS
  <2>6. /\ \A i \in 1..n : ran[c][i].phase < phase
        /\ \A i, j \in 1..n : i < j => ran[c][i].phase < ran[c][j].phase
        /\ \A k \in 1..(phase - 1) : Has(c, k) => \E i \in 1..n : ran[c][i].phase = k
    BY <2>1 DEF RunsWell, Has
  <2>7. ASSUME NEW i \in 1..n PROVE ran[c][i].outcome # "rejected" /\ ran[c][i].phase \in Nat
    <3>1. ran[c][i] \in Ended
      BY <2>1, ElementOfSeq
    <3>2. ran[c][i].outcome = "rejected" => sequence[c] = [at |-> "failed", next |-> ran[c][i].phase]
      BY <2>1 DEF RunsWell
    <3>3. ran[c][i].outcome # "rejected"
      BY <2>1, <3>2
    <3> QED
      BY <3>1, <3>3 DEF Ended
  <2> HIDE DEF phase, e, n
  <2>8. \A i \in 1..n : ran'[c][i].phase = ran[c][i].phase /\ ran'[c][i].outcome = ran[c][i].outcome
    BY <2>4
  <2>9. ran'[c][n + 1].phase = phase /\ ran'[c][n + 1].outcome = ends
    BY <2>4, <2>5
  <2>10. phase \in Nat /\ n \in Nat /\ \A i \in 1..(n + 1) : i = n + 1 \/ i \in 1..n
    BY <2>1, <2>4
  <2>11. \A i, j \in 1..(n + 1) : i < j => ran'[c][i].phase < ran'[c][j].phase
    BY <2>6, <2>8, <2>9, <2>10
  <2>12. \A k \in 1..phase : Has(c, k)' => \E i \in 1..(n + 1) : ran'[c][i].phase = k
    <3> SUFFICES ASSUME NEW k \in 1..phase, Has(c, k)
                 PROVE  \E i \in 1..(n + 1) : ran'[c][i].phase = k
      BY <2>3 DEF Has
    <3>1. CASE k = phase
      BY <2>9, <2>10, <3>1
    <3>2. CASE k \in 1..(phase - 1)
      BY <2>6, <2>8, <2>10, <3>2
    <3> QED
      BY <2>10, <3>1, <3>2
  <2>13. \A i \in 1..(n + 1) : ran'[c][i].outcome = "rejected" => i = n + 1 /\ ends = "rejected"
    BY <2>7, <2>8, <2>9, <2>10
  <2>14. load'[c].at = "loaded"
    BY <2>1, <2>3 DEF RunsWell
  <2>15. CASE ends = "resolved"
    <3> DEFINE m == sequence'[c].next
    <3>1. /\ DOMAIN sequence' = Calls /\ \A d \in Calls \ {c} : sequence'[d] = sequence[d]
          /\ m \in (phase + 1)..(Len(Phases) + 1)
          /\ sequence'[c] = [at |-> IF m > Len(Phases) THEN "done" ELSE "hook", next |-> m]
          /\ \A k \in (phase + 1)..(m - 1) : ~Has(c, k)
      BY <1>0, <1>7, <2>1, <2>10, <2>15, ContinueFacts DEF HookEnds, phase
    <3>2. sequence'[c].at \in {"done", "hook"}
          /\ (sequence'[c].at = "hook" => m <= Len(Phases))
      BY <1>0, <3>1
    <3>3. m \in 1..(Len(Phases) + 1)
      BY <1>0, <2>10, <3>1
    <3>4. sequence'[c] \in [at : {"idle", "hook", "done", "failed"}, next : 1..(Len(Phases) + 1)]
      BY <3>1, <3>3
    <3>5. \A k \in 1..(m - 1) : Has(c, k)' => \E i \in 1..(n + 1) : ran'[c][i].phase = k
      <4> SUFFICES ASSUME NEW k \in 1..(m - 1), Has(c, k)'
                   PROVE  \E i \in 1..(n + 1) : ran'[c][i].phase = k
        OBVIOUS
      <4>1. k \in 1..phase
        BY <1>0, <2>3, <2>10, <3>1, <3>3 DEF Has
      <4> QED
        BY <2>12, <4>1
    <3>6. ASSUME NEW i \in 1..(n + 1) PROVE ran'[c][i].phase < m
      <4>1. m \in Nat /\ phase < m
        BY <1>0, <2>10, <3>1
      <4>2. CASE i \in 1..n
        BY <2>6, <2>7, <2>8, <2>10, <4>1, <4>2
      <4>3. CASE i = n + 1
        BY <2>9, <4>1, <4>3
      <4> QED
        BY <2>10, <4>2, <4>3
    <3> HIDE DEF m
    <3>7. RunsWell(sequence'[c], ran'[c], load'[c])
      BY <2>4, <2>11, <2>13, <2>14, <2>15, <3>2, <3>4, <3>5, <3>6 DEF RunsWell, m, Has
    <3> QED
      BY <1>0, <2>3, <3>1, <3>7 DEF HooksInv
  <2>16. CASE ends = "rejected"
    <3>1. sequence' = [sequence EXCEPT ![c].at = "failed"]
      BY <1>7, <2>16 DEF HookEnds
    <3>2. /\ DOMAIN sequence' = Calls /\ \A d \in Calls \ {c} : sequence'[d] = sequence[d]
          /\ sequence'[c] = [at |-> "failed", next |-> phase]
          /\ sequence'[c] \in [at : {"idle", "hook", "done", "failed"}, next : 1..(Len(Phases) + 1)]
      BY <2>1, <3>1 DEF HooksInv, RunsWell, phase
    <3>3. RunsWell(sequence'[c], ran'[c], load'[c])
      BY <2>4, <2>9, <2>10, <2>11, <2>12, <2>13, <2>14, <3>2 DEF RunsWell, Has
    <3> QED
      BY <1>0, <2>3, <3>2, <3>3 DEF HooksInv
  <2> QED
    BY <2>15, <2>16
<1>8. CASE UNCHANGED <<instances, load, importing, sequence, ran>>
  BY <1>0, <1>8, HooksStand
<1> QED
  BY <1>1, <1>2, <1>3, <1>4, <1>5, <1>6, <1>7, <1>8 DEF HostNext, hostVars

LEMMA HooksAreMeant == HooksInv => FailureStops
<1> SUFFICES ASSUME HooksInv, NEW c \in Calls
             PROVE  /\ \A i \in DOMAIN ran[c] : ran[c][i].outcome = "rejected" =>
                         i = Len(ran[c]) /\ sequence[c] = [at |-> "failed", next |-> ran[c][i].phase]
                    /\ \A i, j \in DOMAIN ran[c] : i < j => ran[c][i].phase < ran[c][j].phase
                    /\ \A k \in 1..(sequence[c].next - 1) :
                         Has(c, k) => \E i \in DOMAIN ran[c] : ran[c][i].phase = k
  BY DEF FailureStops
<1>1. RunsWell(sequence[c], ran[c], load[c]) /\ DOMAIN ran[c] = 1..Len(ran[c])
  BY DEF HooksInv, RunsWell
<1> QED
  BY <1>1 DEF RunsWell, Has

\* What the host holds was returned by a load that succeeded; a load that
\* repeats another one overlaps it; and the hooks of an instance run in order up to
\* the first that throws.
THEOREM HostIsSoundEver == HostSpec => []HostIsSound
<1>1. RepeatInv /\ HooksInv => HostIsSound
  BY RepeatIsMeant, HooksAreMeant DEF HostIsSound, RepeatInv, HoldsInv
<1> QED
  BY <1>1, RepeatInit, RepeatNext, HooksInit, HooksNext, PTL DEF HostSpec

-----------------------------------------------------------------------------
(* Calls between plugins.                                                 *)

Sending(c, m, p, typed, parent) == Request(c, m, p, typed, parent) \/ Notify(c, m, p, parent)

\* Steps that change the registry leave calls and handlers alone, and all
\* others leave the registry alone.
LEMMA RegistrySteps ==
  ASSUME Registry
  PROVE  UNCHANGED <<call, handler>>
BY DEF Registry, RegisterService, Unregister, UnregisterByPlugin

-----------------------------------------------------------------------------
(* Peers that departed.                                                  *)

\* No service is registered by a plugin that departed.
DepartedIsOut ==
  /\ services \in [Methods -> Peers \cup {NoOne}]
  /\ departed \subseteq Peers
  /\ DOMAIN handler = Messages
  /\ \A m \in Methods : services[m] \notin departed

LEMMA AbsentInit == RpcInit => DepartedIsOut
BY NoOneAssumption DEF RpcInit, DepartedIsOut

LEMMA AbsentNext == DepartedIsOut /\ [RpcNext]_rpcVars => DepartedIsOut'
<1> SUFFICES ASSUME DepartedIsOut, [RpcNext]_rpcVars PROVE DepartedIsOut'
  OBVIOUS
<1> USE DEF DepartedIsOut
<1>1. CASE Registry
  <2>1. DOMAIN handler' = Messages
    BY <1>1, RegistrySteps
  <2>2. CASE \E m \in Methods, p \in Peers : RegisterService(m, p)
    BY <2>1, <2>2 DEF RegisterService
  <2>3. CASE \E m \in Methods : Unregister(m)
    BY <2>1, <2>3, NoOneAssumption DEF Unregister
  <2>4. CASE \E p \in Peers : UnregisterByPlugin(p)
    <3>1. PICK p \in Peers : UnregisterByPlugin(p)
      BY <2>4
    <3>2. /\ services' = [m \in Methods |-> IF services[m] = p THEN NoOne ELSE services[m]]
          /\ departed' = departed \cup {p}
      BY <3>1 DEF UnregisterByPlugin
    <3>3. \A m \in Methods : services'[m] \notin departed'
      BY <3>2, NoOneAssumption
    <3> QED BY <2>1, <3>2, <3>3
  <2> QED BY <1>1, <2>2, <2>3, <2>4 DEF Registry
<1>2. CASE Send
  BY <1>2 DEF Send, Request, Notify, Starts
<1>3. CASE Progress
  BY <1>3 DEF Progress, Timeout, HandlerEnds
<1>4. CASE UNCHANGED rpcVars
  BY <1>4 DEF rpcVars
<1> QED BY <1>1, <1>2, <1>3, <1>4 DEF RpcNext

\* A handler that starts belongs to the plugin that the registry names.
LEMMA OnlySendStarts ==
  ASSUME DepartedIsOut, [RpcNext]_rpcVars, NEW c \in Messages,
         handler[c] = NoHandler, handler'[c] # NoHandler
  PROVE  \E m \in Methods : services[m] \in Peers /\ handler'[c].plugin = services[m]
<1>1. CASE Registry
  BY <1>1, RegistrySteps
<1>2. CASE Send
  <2>1. PICK d \in Messages, m \in Methods \cup {NoOne}, p \in Peers, typed \in BOOLEAN,
             parent \in Parents : Sending(d, m, p, typed, parent)
    BY <1>2 DEF Send, Sending
  <2>2. m # NoOne /\ services[m] # NoOne /\ Starts(d, m, parent)
    BY <2>1 DEF Sending, Request, Notify, Verdict
  <2>3. d = c
    BY <2>2 DEF Starts, DepartedIsOut
  <2>4. handler'[c].plugin = services[m]
    BY <2>2, <2>3 DEF Starts, DepartedIsOut
  <2> QED BY <2>2, <2>4 DEF DepartedIsOut
<1>3. CASE Progress
  <2>1. PICK d \in Messages : Timeout(d) \/ \E ending \in {"returned", "threw"} : HandlerEnds(d, ending)
    BY <1>3 DEF Progress
  <2>2. CASE Timeout(d)
    BY <2>2 DEF Timeout
  <2>3. CASE \E ending \in {"returned", "threw"} : HandlerEnds(d, ending)
    <3>1. PICK ending \in {"returned", "threw"} : HandlerEnds(d, ending)
      BY <2>3
    <3>2. d # c
      BY <3>1 DEF HandlerEnds, Running, NoHandler
    <3> QED BY <3>1, <3>2 DEF HandlerEnds
  <2> QED BY <2>1, <2>2, <2>3
<1>4. CASE UNCHANGED rpcVars
  BY <1>4 DEF rpcVars
<1> QED BY <1>1, <1>2, <1>3, <1>4 DEF RpcNext

\* After unregisterByPlugin no handler of the plugin starts until the plugin
\* registers again.
THEOREM DepartedIsSilentEver == RpcSpec => DepartedIsSilent
<1>1. DepartedIsOut /\ [RpcNext]_rpcVars =>
        [\A c \in Messages : handler[c] = NoHandler /\ handler'[c] # NoHandler
           => handler'[c].plugin \notin departed]_rpcVars
  BY OnlySendStarts DEF DepartedIsOut
<1> QED BY <1>1, AbsentInit, AbsentNext, PTL DEF RpcSpec, DepartedIsSilent
-----------------------------------------------------------------------------
(* What a sender is told.                                                  *)

CallRecord == [kind : {"request", "notification"}, parent : Messages \cup {NoOne}, outcome : Outcomes]
HandlerRecord == [state : {"running", "returned", "threw"}, method : Methods, plugin : Peers,
             parent : Messages \cup {NoOne}]

Shapes ==
  /\ RpcTypeOK
  /\ DOMAIN call = Messages
  /\ DOMAIN handler = Messages

\* ToldTheTruth is inductive once it is known that a handler has its call: a call
\* not yet sent has none.
TruthInv ==
  /\ Shapes
  /\ ToldTheTruth
  /\ \A c \in Messages : call[c] = Unsent => handler[c] = NoHandler

LEMMA TruthInit == RpcInit => TruthInv
BY NoOneAssumption DEF RpcInit, TruthInv, Shapes, RpcTypeOK, ToldTheTruth, Sent, Unsent, NoHandler

\* A call that is sent has an outcome, which its handler bears out.
LEMMA SentIsTrue ==
  ASSUME TruthInv, NEW c \in Messages, NEW r \in CallRecord, NEW h \in HandlerRecord \cup {NoHandler},
         call[c] = Unsent, call' = [call EXCEPT ![c] = r],
         \/ h = handler[c] /\ UNCHANGED handler /\ r.outcome \notin {"waiting", "result", "APP_ERROR"}
         \/ handler' = [handler EXCEPT ![c] = h] /\ h.state = "running" /\ r.outcome = "waiting",
         UNCHANGED <<services, departed>>
  PROVE  TruthInv'
<1> USE DEF TruthInv, Shapes, CallRecord, HandlerRecord
<1>1. r # Unsent
  BY DEF Unsent
<1>2. call'[c] = r /\ \A d \in Messages \ {c} : call'[d] = call[d] /\ handler'[d] = handler[d]
  OBVIOUS
<1>3. h = handler'[c] /\ (r.outcome = "waiting" => h.state = "running")
  OBVIOUS
<1>4. RpcTypeOK'
  BY <1>2, <1>3 DEF RpcTypeOK
<1>5. ToldTheTruth'
  BY <1>1, <1>2, <1>3 DEF ToldTheTruth, Sent
<1>6. \A d \in Messages : call'[d] = Unsent => handler'[d] = NoHandler
  BY <1>1, <1>2
<1> QED
  BY <1>4, <1>5, <1>6

LEMMA TruthNext == TruthInv /\ [RpcNext]_rpcVars => TruthInv'
<1> SUFFICES ASSUME TruthInv, [RpcNext]_rpcVars PROVE TruthInv'
  OBVIOUS
<1> USE DEF TruthInv, Shapes
<1>1. CASE Registry
  <2>1. services' \in [Methods -> Peers \cup {NoOne}] /\ departed' \subseteq Peers
    BY <1>1 DEF Registry, RegisterService, Unregister, UnregisterByPlugin, RpcTypeOK
  <2> QED
    BY <1>1, <2>1, RegistrySteps DEF RpcTypeOK, ToldTheTruth, Sent
<1>2. CASE Send
  <2>1. PICK c \in Messages, m \in Methods \cup {NoOne}, p \in Peers, parent \in Parents :
          Notify(c, m, p, parent) \/ \E typed \in BOOLEAN : Request(c, m, p, typed, parent)
    BY <1>2 DEF Send
  <2> DEFINE h == [state |-> "running", method |-> m, plugin |-> services[m], parent |-> parent]
  <2>2. parent \in Messages \cup {NoOne}
    BY DEF Parents
  <2>3. handler[c] \in HandlerRecord \cup {NoHandler}
    BY DEF RpcTypeOK, HandlerRecord
  <2>4. ASSUME m # NoOne, services[m] # NoOne PROVE h \in HandlerRecord
    BY <2>2, <2>4 DEF RpcTypeOK, HandlerRecord
  <2>5. CASE Notify(c, m, p, parent)
    <3>1. CASE m # NoOne /\ services[m] # NoOne
      BY <2>2, <2>4, <2>5, <3>1, SentIsTrue DEF Notify, Starts, CallRecord, Outcomes
    <3>2. CASE ~(m # NoOne /\ services[m] # NoOne)
      BY <2>2, <2>3, <2>5, <3>2, SentIsTrue DEF Notify, CallRecord, Outcomes
    <3> QED
      BY <3>1, <3>2
  <2>6. ASSUME NEW typed \in BOOLEAN, Request(c, m, p, typed, parent) PROVE TruthInv'
    <3>1. CASE Verdict(m, p, typed) = "accepted"
      <4>1. m # NoOne /\ services[m] # NoOne
        BY <3>1 DEF Verdict
      <4> QED
        BY <2>2, <2>4, <2>6, <3>1, <4>1, SentIsTrue DEF Request, Starts, CallRecord, Outcomes
    <3>2. CASE Verdict(m, p, typed) # "accepted"
      <4>1. Verdict(m, p, typed) \in {"INVALID_REQUEST", "METHOD_NOT_FOUND", "FORBIDDEN", "INVALID_PARAMS"}
        BY <3>2 DEF Verdict
      <4> QED
        BY <2>2, <2>3, <2>6, <3>2, <4>1, SentIsTrue DEF Request, CallRecord, Outcomes
    <3> QED
      BY <3>1, <3>2
  <2> QED
    BY <2>1, <2>5, <2>6
<1>3. ASSUME NEW c \in Messages, Timeout(c) PROVE TruthInv'
  <2>1. call[c] \in CallRecord /\ call[c] # Unsent
    BY <1>3 DEF Timeout, Waiting, RpcTypeOK, CallRecord
  <2>2. /\ call'[c] \in CallRecord /\ call'[c].outcome = "timeout"
        /\ \A d \in Messages \ {c} : call'[d] = call[d]
    BY <1>3, <2>1 DEF Timeout, CallRecord, Outcomes
  <2> QED
    BY <1>3, <2>1, <2>2 DEF Timeout, RpcTypeOK, ToldTheTruth, Sent, CallRecord, Unsent
<1>4. ASSUME NEW c \in Messages, NEW ending \in {"returned", "threw"}, HandlerEnds(c, ending)
      PROVE  TruthInv'
  <2>1. handler[c] \in HandlerRecord /\ handler[c].state = "running" /\ call[c] \in CallRecord
    BY <1>4 DEF HandlerEnds, Running, RpcTypeOK, HandlerRecord, CallRecord, NoHandler
  <2>2. /\ handler'[c] \in HandlerRecord /\ handler'[c].state = ending
        /\ \A d \in Messages \ {c} : handler'[d] = handler[d]
    BY <1>4, <2>1 DEF HandlerEnds, HandlerRecord
  <2>3. call[c] # Unsent
    BY <2>1 DEF CallRecord, Unsent
  <2>4. CASE Waiting(c)
    <3>1. /\ call'[c] \in CallRecord /\ call'[c].outcome = Answer(c, ending)
          /\ \A d \in Messages \ {c} : call'[d] = call[d]
      BY <1>4, <2>1, <2>4 DEF HandlerEnds, CallRecord, Answer, Outcomes
    <3>2. call'[c].outcome = "returned" \/ (call'[c].outcome = "result" /\ ending = "returned")
            \/ (call'[c].outcome = "APP_ERROR" /\ ending = "threw")
      BY <3>1 DEF Answer
    <3> QED
      BY <1>4, <2>2, <3>1, <3>2 DEF HandlerEnds, RpcTypeOK, ToldTheTruth, Sent, CallRecord, HandlerRecord, Unsent
  <2>5. CASE ~Waiting(c)
    <3>1. call[c].outcome \notin {"waiting", "result", "APP_ERROR"}
      BY <2>1, <2>3, <2>5 DEF ToldTheTruth, Sent, Waiting
    <3> QED
      BY <1>4, <2>2, <2>3, <2>5, <3>1 DEF HandlerEnds, RpcTypeOK, ToldTheTruth, Sent, HandlerRecord
  <2> QED
    BY <2>4, <2>5
<1>5. CASE UNCHANGED rpcVars
  BY <1>5 DEF rpcVars, RpcTypeOK, ToldTheTruth, Sent
<1> QED
  BY <1>1, <1>2, <1>3, <1>4, <1>5 DEF RpcNext, Progress

\* A sender that has a result or an application error has it of its own handler,
\* and one that waits has a handler that runs.
THEOREM ToldTheTruthEver == RpcSpec => []ToldTheTruth
<1>1. TruthInv => ToldTheTruth
  BY DEF TruthInv
<1> QED
  BY <1>1, TruthInit, TruthNext, PTL DEF RpcSpec

-----------------------------------------------------------------------------
\* The number of unloads, and the sequences as a function.
HostCounts ==
  /\ unloads \in 0..MaxUnloads
  /\ sequence = [c \in Calls |-> sequence[c]]

LEMMA HostCountsStep == HostCounts /\ [HostNext]_hostVars => HostCounts'
<1> SUFFICES ASSUME HostCounts, [HostNext]_hostVars PROVE HostCounts'
  OBVIOUS
<1> USE BoundAssumption DEF HostCounts
<1>1. ASSUME NEW c \in Calls, NEW p \in Plugins, LoadPlugin(c, p) PROVE HostCounts'
  BY <1>1 DEF LoadPlugin
<1>2. ASSUME NEW c \in Calls, NEW ends \in {"resolved", "rejected"}, ImportSettles(c, ends)
      PROVE  HostCounts'
  BY <1>2 DEF ImportSettles
<1>3. ASSUME NEW c \in Calls, NEW ends \in {"resolved", "rejected"}, HookEnds(c, ends)
      PROVE  HostCounts'
  BY <1>3 DEF HookEnds, Continue
<1>4. ASSUME NEW c \in Calls, TimerFires(c) PROVE HostCounts'
  BY <1>4 DEF TimerFires
<1>5. ASSUME NEW c \in Calls, RunSequence(c) PROVE HostCounts'
  BY <1>5 DEF RunSequence, Continue
<1>6. ASSUME NEW c \in Calls, NEW serializable \in BOOLEAN, DelayEnds(c, serializable) PROVE HostCounts'
  BY <1>6 DEF DelayEnds
<1>7. ASSUME NEW p \in Plugins, UnloadPlugin(p) PROVE HostCounts'
  BY <1>7 DEF UnloadPlugin
<1>8. CASE UNCHANGED hostVars
  BY <1>8 DEF hostVars
<1> QED
  BY <1>1, <1>2, <1>3, <1>4, <1>5, <1>6, <1>7, <1>8 DEF HostNext

\* The counts and the shapes are the type of the host.
LEMMA HostIsTyped == HooksInv /\ HostCounts => HostTypeOK
<1> SUFFICES ASSUME HooksInv, HostCounts PROVE HostTypeOK
  OBVIOUS
<1>1. HostShapes
  BY DEF HooksInv, HoldsInv
<1>2. ASSUME NEW c \in Calls
      PROVE  /\ sequence[c] \in [at : {"idle", "hook", "done", "failed"}, next : 1..(Len(Phases) + 1)]
             /\ sequence[c].at # "idle" => load[c].at = "loaded"
  BY DEF HooksInv, RunsWell
<1>3. ASSUME NEW c \in Calls, load[c].at = "loaded" PROVE load[c] # Idle
  BY <1>3 DEF Idle
<1>4. sequence \in [Calls -> [at : {"idle", "hook", "done", "failed"}, next : 1..(Len(Phases) + 1)]]
  BY <1>2 DEF HostCounts
<1>5. \A c \in Calls : load[c] = Idle \/
        load[c] \in [at : {"import", "delay", "loaded", "failed"}, plugin : Plugins]
  BY <1>1 DEF HostShapes, Stages
<1> QED
  BY <1>1, <1>2, <1>3, <1>4, <1>5 DEF HostTypeOK, HostShapes, HostCounts

LEMMA HostCountsInit == HostInit => HostCounts
BY BoundAssumption DEF HostInit, HostCounts

\* Type correctness of the host, for any plugins, phases and calls.
THEOREM HostTypeCorrect == HostSpec => []HostTypeOK
BY HooksInit, HooksNext, HostCountsInit, HostCountsStep, HostIsTyped, PTL DEF HostSpec

-----------------------------------------------------------------------------

CallRecords == [kind : {"request", "notification"}, parent : Messages \cup {NoOne}, outcome : Outcomes]
HandlerRecords == [state : {"running", "returned", "threw"}, method : Methods, plugin : Peers,
                   parent : Messages \cup {NoOne}]

RpcShapes ==
  /\ services \in [Methods -> Peers \cup {NoOne}]
  /\ call \in [Messages -> {Unsent} \cup CallRecords]
  /\ handler \in [Messages -> {NoHandler} \cup HandlerRecords]
  /\ departed \subseteq Peers

\* A handler is started by a message that a service takes.
LEMMA StartsShape ==
  ASSUME RpcShapes, NEW c \in Messages, NEW m \in Methods, NEW parent \in Messages \cup {NoOne},
         services[m] # NoOne, Starts(c, m, parent)
  PROVE  handler' \in [Messages -> {NoHandler} \cup HandlerRecords]
<1>1. PICK h : h = [state |-> "running", method |-> m, plugin |-> services[m], parent |-> parent]
  OBVIOUS
<1>2. services[m] \in Peers
  BY DEF RpcShapes
<1>3. h \in HandlerRecords
  BY <1>1, <1>2 DEF HandlerRecords
<1>4. handler' = [handler EXCEPT ![c] = h]
  BY <1>1 DEF Starts
<1> QED
  BY <1>3, <1>4 DEF RpcShapes

LEMMA RpcShapesStep == RpcShapes /\ [RpcNext]_rpcVars => RpcShapes'
<1> SUFFICES ASSUME RpcShapes, [RpcNext]_rpcVars PROVE RpcShapes'
  OBVIOUS
<1>1. CASE Registry
  BY <1>1 DEF Registry, RegisterService, Unregister, UnregisterByPlugin, RpcShapes
<1>2. CASE Send
  <2>1. PICK c \in Messages, m \in Methods \cup {NoOne}, p \in Peers, parent \in Parents :
          Notify(c, m, p, parent) \/ \E typed \in BOOLEAN : Request(c, m, p, typed, parent)
    BY <1>2 DEF Send
  <2>2. parent \in Messages \cup {NoOne}
    BY <2>1 DEF Parents
  <2>3. CASE Notify(c, m, p, parent)
    <3>1. PICK o : o = IF m # NoOne /\ services[m] # NoOne THEN "waiting" ELSE "returned"
      OBVIOUS
    <3>2. PICK k : k = [kind |-> "notification", parent |-> parent, outcome |-> o]
      OBVIOUS
    <3>3. k \in CallRecords
      BY <2>2, <3>1, <3>2 DEF CallRecords, Outcomes
    <3>4. call' = [call EXCEPT ![c] = k] /\ UNCHANGED <<services, departed>>
      BY <2>3, <3>1, <3>2 DEF Notify
    <3>5. handler' \in [Messages -> {NoHandler} \cup HandlerRecords]
      <4>1. CASE m # NoOne /\ services[m] # NoOne
        <5>1. Starts(c, m, parent) /\ m \in Methods
          BY <2>3, <4>1 DEF Notify
        <5> QED
          BY <2>2, <4>1, <5>1, StartsShape
      <4>2. CASE ~(m # NoOne /\ services[m] # NoOne)
        BY <2>3, <4>2 DEF Notify, RpcShapes
      <4> QED
        BY <4>1, <4>2
    <3> QED
      BY <3>3, <3>4, <3>5 DEF RpcShapes
  <2>4. CASE \E typed \in BOOLEAN : Request(c, m, p, typed, parent)
    <3>1. PICK typed \in BOOLEAN : Request(c, m, p, typed, parent)
      BY <2>4
    <3>2. PICK verdict : verdict = Verdict(m, p, typed)
      OBVIOUS
    <3>3. /\ verdict \in {"INVALID_REQUEST", "METHOD_NOT_FOUND", "FORBIDDEN", "INVALID_PARAMS", "accepted"}
          /\ verdict = "accepted" => m # NoOne /\ services[m] # NoOne
      BY <3>2 DEF Verdict
    <3>4. PICK o : o = IF verdict = "accepted" THEN "waiting" ELSE verdict
      OBVIOUS
    <3>5. PICK k : k = [kind |-> "request", parent |-> parent, outcome |-> o]
      OBVIOUS
    <3>6. k \in CallRecords
      BY <2>2, <3>3, <3>4, <3>5 DEF CallRecords, Outcomes
    <3>7. call' = [call EXCEPT ![c] = k] /\ UNCHANGED <<services, departed>>
      BY <3>1, <3>2, <3>4, <3>5, Zenon DEF Request
    <3>8. handler' \in [Messages -> {NoHandler} \cup HandlerRecords]
      <4>1. CASE verdict = "accepted"
        <5>1. Starts(c, m, parent) /\ m \in Methods
          BY <3>1, <3>2, <3>3, <4>1 DEF Request
        <5> QED
          BY <2>2, <3>3, <4>1, <5>1, StartsShape
      <4>2. CASE verdict # "accepted"
        BY <3>1, <3>2, <4>2 DEF Request, RpcShapes
      <4> QED
        BY <4>1, <4>2
    <3> QED
      BY <3>6, <3>7, <3>8 DEF RpcShapes
  <2> QED
    BY <2>1, <2>3, <2>4
<1>3. CASE Progress
  <2>1. PICK c \in Messages : Timeout(c) \/ \E ending \in {"returned", "threw"} : HandlerEnds(c, ending)
    BY <1>3 DEF Progress
  <2>2. ASSUME NEW o \in Outcomes, Waiting(c)
        PROVE  [call EXCEPT ![c].outcome = o] \in [Messages -> {Unsent} \cup CallRecords]
    <3>1. call[c] \in CallRecords
      BY <2>2 DEF Waiting, RpcShapes
    <3>2. [call[c] EXCEPT !.outcome = o] \in CallRecords
      BY <3>1 DEF CallRecords
    <3> QED
      BY <3>2 DEF RpcShapes
  <2>3. CASE Timeout(c)
    <3>1. "timeout" \in Outcomes
      BY DEF Outcomes
    <3>2. call' \in [Messages -> {Unsent} \cup CallRecords]
      BY <2>2, <2>3, <3>1 DEF Timeout
    <3> QED
      BY <2>3, <3>2 DEF Timeout, RpcShapes
  <2>4. CASE \E ending \in {"returned", "threw"} : HandlerEnds(c, ending)
    <3>1. PICK ending \in {"returned", "threw"} : HandlerEnds(c, ending)
      BY <2>4
    <3>2. Answer(c, ending) \in Outcomes
      BY DEF Answer, Outcomes
    <3>3. call' \in [Messages -> {Unsent} \cup CallRecords]
      <4>1. CASE Waiting(c)
        BY <2>2, <3>1, <3>2, <4>1 DEF HandlerEnds
      <4>2. CASE ~Waiting(c)
        BY <3>1, <4>2 DEF HandlerEnds, RpcShapes
      <4> QED
        BY <4>1, <4>2
    <3>4. handler[c] \in HandlerRecords
      BY <3>1 DEF HandlerEnds, Running, RpcShapes, NoHandler
    <3>5. [handler[c] EXCEPT !.state = ending] \in HandlerRecords
      BY <3>4 DEF HandlerRecords
    <3>6. handler' \in [Messages -> {NoHandler} \cup HandlerRecords]
      BY <3>1, <3>5 DEF HandlerEnds, RpcShapes
    <3> QED
      BY <3>1, <3>3, <3>6 DEF HandlerEnds, RpcShapes
  <2> QED
    BY <2>1, <2>3, <2>4
<1>4. CASE UNCHANGED rpcVars
  BY <1>4 DEF rpcVars, RpcShapes
<1> QED
  BY <1>1, <1>2, <1>3, <1>4 DEF RpcNext

LEMMA RpcShapesInit == RpcInit => RpcShapes
BY DEF RpcInit, RpcShapes

LEMMA RpcIsTyped == RpcShapes => RpcTypeOK
BY DEF RpcShapes, RpcTypeOK, CallRecords, HandlerRecords

\* Type correctness of the registry, the calls and the handlers.
THEOREM RpcTypeCorrect == RpcSpec => []RpcTypeOK
BY RpcShapesInit, RpcShapesStep, RpcIsTyped, PTL DEF RpcSpec

-----------------------------------------------------------------------------
(* The parts together.                                                     *)

\* A step of the start is a step of one part, and none of the others.
LEMMA StartupStep ==
  ASSUME [StartupNext]_<<part, vars, installVars, appVars, sortVars, hostVars, rpcVars>>
  PROVE  /\ [Next]_vars /\ [InstallNext]_installVars /\ [AppNext]_appVars
         /\ [SortNext]_sortVars /\ [HostNext]_hostVars /\ [RpcNext]_rpcVars
BY DEF StartupNext

\* The parts begin as they do alone.
LEMMA StartupBegins ==
  StartupInit => Init /\ InstallInit /\ AppInit /\ SortInit /\ HostInit /\ RpcInit
BY DEF StartupInit

\* Type correctness of all parts of the start.
THEOREM StartupTypeCorrect == StartupSpec => []StartupTypeOK
<1>1. Spec /\ InstallSpec /\ SortSpec /\ HostSpec /\ RpcSpec => []StartupTypeOK
  BY TypeCorrect, InstallTypeCorrect, LoadOrderEver, HostTypeCorrect, RpcTypeCorrect, PTL DEF StartupTypeOK
<1> QED
  BY <1>1, StartupBegins, StartupStep, PTL DEF StartupSpec, Spec, InstallSpec, SortSpec, HostSpec, RpcSpec

=============================================================================

------------------------------ MODULE SeedOnce ------------------------------
(***************************************************************************)
(* What the first-boot seed of the server promises, whoever runs it and    *)
(* however often: the system tenant, the admin user, the roles, the        *)
(* permissions and their links are written at most once, all of them by    *)
(* the one run that wrote the tenant, and in the order of the seed plan.   *)
(* It does not promise that the seed is ever finished: the code in         *)
(* packages/core/src/app.ts uses no transaction (see Bootstrap).           *)
(***************************************************************************)
EXTENDS Naturals

CONSTANTS
  Runs,      \* the runs of the seed, each with fresh identifiers
  Len,       \* number of rows in the seed plan
  NoRun      \* no run has written anything yet

VARIABLES
  owner,     \* the run that owns the seed rows, or NoRun
  done       \* the plan positions already written

vars == <<owner, done>>

Init ==
  /\ owner = NoRun
  /\ done = {}

\* A run claims the seed by writing the first row of the plan.
Claim(run) ==
  /\ owner = NoRun
  /\ owner' = run
  /\ done' = {1}

\* The owner writes the next row of the plan.
Extend ==
  /\ owner # NoRun
  /\ \E k \in 2..Len :
       /\ done = 1..(k - 1)
       /\ done' = 1..k
  /\ UNCHANGED owner

Next == (\E run \in Runs : Claim(run)) \/ Extend

Spec == Init /\ [][Next]_vars
=============================================================================

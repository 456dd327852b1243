----------------------------- MODULE MCStartup -----------------------------
(***************************************************************************)
(* The start of a server and of its plugins: the two procedures that fill  *)
(* an empty database, the seed of core (Bootstrap) and the install         *)
(* procedures of plugin-core (CoreInstall); the run of the process around  *)
(* them (AppLifecycle); and the way of a plugin, which gets its place in   *)
(* the load order (DependencySort), is loaded and runs its hooks           *)
(* (PluginHost), and is called by other plugins (PluginRpc).  Each begins  *)
(* with what the one before it left and shares no state with it: `part'    *)
(* says which one a behaviour is about, and the others stand still.        *)
(***************************************************************************)
EXTENDS Bootstrap, CoreInstall, AppLifecycle, DependencySort, PluginHost, PluginRpc, TLC

CONSTANTS p1, p2, core, a, b, x, m1, m2, k1, k2, k3

OneProc == {p1}
TwoProcs == {p1, p2}

\* install() of install.ts: permissions and roles are inserted if not already
\* present, a grant is assigned to a role, users and menu items are inserted.
\* PluginCore.install(): every insert adds a row, and core/src/db/schema.ts has
\* unique columns in two of the tables.  Both with fewer rows of each table.
BothKinds == {"hook", "core"}
HookOnly == {"hook"}
InstallPlans ==
  "hook" :> <<"permissions", "permissions", "roles", "roles", "grants", "users", "menus", "menus">> @@
  "core" :> <<"tenants", "roles", "roles", "permissions", "role_permissions", "users",
              "user_roles", "menus", "modules">>
InstallGuards == "hook" :> <<"users">> @@ "core" :> <<"users", "modules">>
InstallOnce == "hook" :> {"permissions", "roles", "grants"} @@ "core" :> {}
InstallUnique == "hook" :> {} @@ "core" :> {"tenants", "modules"}

\* All graphs over three plugins and a name that is not given; plugin-core is
\* not the first manifest.
ThreePlugins == <<a, core, b>>
OneAbsent == {x}

TwoPlugins == {p1, p2}
TwoCalls == {k1, k2}
ThreeCalls == {k1, k2, k3}

\* The phases of a plugin that is installed and enabled; p1 has no hook for
\* the second one and p2 only for the last.
Install == <<"beforeLoad", "load", "install", "afterEnable">>
InstallHooks ==
  [p \in Plugins |-> IF p = p1 THEN {"beforeLoad", "install", "afterEnable"} ELSE {"afterEnable"}]

TwoMethods == {m1, m2}
First == {m1}
Second == {m2}
FriendsOfFirst == {p1}

VARIABLE part

NoGraph == deps = [p \in Manifests |-> {}] /\ system = {} /\ variant = "engine"

StartupInit ==
  /\ part \in {"seed", "install", "process", "sort", "host", "rpc"}
  /\ Init
  /\ InstallInit /\ (part = "install" \/ kind = CHOOSE k \in Kinds : TRUE)
  /\ AppInit
  /\ SortInit /\ (part = "sort" \/ NoGraph)
  /\ HostInit
  /\ RpcInit

StartupNext ==
  /\ UNCHANGED part
  /\ \/ /\ part = "seed" /\ Next
        /\ UNCHANGED <<installVars, appVars, sortVars, hostVars, rpcVars>>
     \/ /\ part = "install" /\ InstallNext
        /\ UNCHANGED <<vars, appVars, sortVars, hostVars, rpcVars>>
     \/ /\ part = "process" /\ AppNext
        /\ UNCHANGED <<vars, installVars, sortVars, hostVars, rpcVars>>
     \/ /\ part = "sort" /\ SortNext
        /\ UNCHANGED <<vars, installVars, appVars, hostVars, rpcVars>>
     \/ /\ part = "host" /\ HostNext
        /\ UNCHANGED <<vars, installVars, appVars, sortVars, rpcVars>>
     \/ /\ part = "rpc" /\ RpcNext
        /\ UNCHANGED <<vars, installVars, appVars, sortVars, hostVars>>

StartupSpec ==
  StartupInit /\ [][StartupNext]_<<part, vars, installVars, appVars, sortVars, hostVars, rpcVars>>

\* Type correctness of the database, the procedures that fill it, and the
\* order, the host and the calls of the plugins.
StartupTypeOK == TypeOK /\ InstallTypeOK /\ SortTypeOK /\ HostTypeOK /\ RpcTypeOK
=============================================================================

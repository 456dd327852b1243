CONSTANTS
  p1 = p1
  p2 = p2
  Procs <- OneProc
  NPerms = 1
  MaxBoots = 0
  MaxCrashes = 0
  MaxFaults = 0
  NoRun = NoRun
  Installers <- OneProc
  Kinds <- HookOnly
  Plans <- InstallPlans
  Guards <- InstallGuards
  Once <- InstallOnce
  Unique <- InstallUnique
  MaxRuns = 2
  MaxFailures = 0
  core = core
  a = a
  b = b
  x = x
  m1 = m1
  m2 = m2
  k1 = k1
  k2 = k2
  k3 = k3
  Input <- ThreePlugins
  Core = core
  Absent <- OneAbsent
  Plugins <- TwoPlugins
  Phases <- Install
  Hooks <- InstallHooks
  None = None
  Calls <- ThreeCalls
  MaxUnloads = 1
  Peers <- TwoPlugins
  Methods <- TwoMethods
  Guarded <- First
  Friends <- FriendsOfFirst
  Typed <- Second
  NoOne = NoOne
  Messages <- TwoCalls
SPECIFICATION StartupSpec
INVARIANTS ReturnedIsComplete
CHECK_DEADLOCK FALSE

CONSTANTS
  p1 = p1
  p2 = p2
  Procs <- TwoProcs
  NPerms = 2
  MaxBoots = 2
  MaxCrashes = 2
  MaxFaults = 2
  NoRun = NoRun
  Installers <- TwoProcs
  Kinds <- BothKinds
  Plans <- InstallPlans
  Guards <- InstallGuards
  Once <- InstallOnce
  Unique <- InstallUnique
  MaxRuns = 4
  MaxFailures = 1
  core = core
  a = a
  b = b
  x = x
  m1 = m1
  m2 = m2
  k1 = k1
  k2 = k2
  k3 = k3
  Input <- ThreePlugins
  Core = core
  Absent <- OneAbsent
  Plugins <- TwoPlugins
  Phases <- Install
  Hooks <- InstallHooks
  None = None
  Calls <- ThreeCalls
  MaxUnloads = 1
  Peers <- TwoPlugins
  Methods <- TwoMethods
  Guarded <- First
  Friends <- FriendsOfFirst
  Typed <- Second
  NoOne = NoOne
  Messages <- TwoCalls
SPECIFICATION StartupSpec
INVARIANTS StartupTypeOK OneSeeder UpKnowsTenant EarlierRowsAreThere GuardRowsAreSole WholeOrGone LoadOrder HostIsSound ToldTheTruth
PROPERTIES ImplementsSeedOnce DepartedIsSilent
CHECK_DEADLOCK FALSE

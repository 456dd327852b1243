CONSTANTS
  h1 = h1
  n1 = n1
  n2 = n2
  c1 = c1
  c2 = c2
  k1 = k1
  k2 = k2
  l1 = l1
  l2 = l2
  Subjects <- TwoSubjects
  Patterns <- TwoPatterns
  Handlers <- OneHandler
  MaxSubs = 3
  MaxPublish = 2
  MaxDepth = 2
  None = None
  Names <- TwoNames
  Configs <- TwoConfigs
  Calls <- TwoCalls
  Lifecycles <- TwoLifecycles
  MaxWorkers = 3
  MaxTries = 2
  MaxFires = 2
  MaxFaults = 1
  BullNames <- OneName
  BullPatterns <- TwoConfigs
  NoJob = NoJob
  BullCalls <- TwoCalls
  MaxCommands = 4
SPECIFICATION EventsSpec
INVARIANTS EventsTypeOK EventsArrive SchedulesAgree
PROPERTIES OneWorkerRuns
CHECK_DEADLOCK FALSE

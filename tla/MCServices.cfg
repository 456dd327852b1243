CONSTANTS
  tab1 = tab1
  tab2 = tab2
  Tabs <- TwoTabs
  NoToken = NoToken
  MaxLogins = 3
  MaxCalls = 2
  MaxTimers = 4
  Ids = {1, 2}
  NoList = NoList
  MaxWrites = 2
  MaxOpen = 2
  c1 = c1
  c2 = c2
  up1 = up1
  up2 = up2
  h1 = h1
  h2 = h2
  pub1 = pub1
  pub2 = pub2
  ip = ip
  Tenants <- OneTenant
  Files <- SomeFiles
  AllowedTypes <- AllTypes
  Uploads <- TwoUploads
  NoFile = NoFile
  MaxRecords = 2
  Clients <- TwoClients
  TenantOf <- TwoTenants
  Topics <- TwoTopics
  EventNames <- Named
  Handlers <- TwoHandlers
  Publishers <- TwoPublishers
  Keys <- OneKey
  GlobalMax = 3
  LoginMax = 2
  Window = 3
  TicksPerSecond = 2
  MaxTime = 6
  Providers <- ThreeProviders
  Recipients <- BothRecipients
  Statements <- TwoStatements
  ProbeLimit = 2
  Threshold = 2
  MaxClock = 4
SPECIFICATION ServicesSpec
INVARIANTS LiveRecordsHaveFiles Deliveries KeepsTime AppHasToken ShownIsCurrent AuditedWereDone
CHECK_DEADLOCK FALSE

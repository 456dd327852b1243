CONSTANTS
  Filters <- SomeFilters
  MaxDepth = 2
  Height <- Depths
  Rows <- SomeRows
  ColumnType <- Typing
  TextRank <- Ranks
  Within <- Included
  RowTenants <- BothTenants
  NoTenant = NoTenant
  Documents <- SomeDocuments
  BlankBefore = "anything"
  PluginNames <- SomePlugins
  Versions = {"1.0.0"}
  NoKey = NoKey
  NoValue = NoValue
  Fields <- SomeFields
  SafeNames <- Usable
  TableNames = {"users"}
  Keys = {"id", "code"}
  MaxFields = 3
  Queries <- SomeQueries
  Public <- PublicFields
  GqlTenants <- BothTenants
  NoTenantId = NoTenantId
  MaxRows = 2
  Majors = {1, 2}
  Methods = {"GET"}
  RoutePaths <- SomeRoutes
  RequestPaths <- SomePaths
  NoMajor = NoMajor
  MaxRoutes = 2
  Disk <- SomeDisk
  PluginOrder <- Alphabet
  Requests <- SomeRequests
  Sensitive <- Secret
  NoTenantYet = NoTenantYet
  ZeroTenant = "zero"
  PageSize = 2
  MaxEvents = 3
  MaxNow = 2
  NodeTypes <- SomeNodes
  Transitions <- SomeTransitions
  StartNode = "start"
  Actors <- TwoActors
  Expressions <- SomeExpressions
  NodeVariables <- SomeVariables
  Nothing = Nothing
  Loadable <- SomeManifests
  MaxPlugins = 3
  Locales <- TwoLocales
  DefaultLocale = "de"
  FallbackLocale = "en"
  TextKeys <- SomeKeys
  NoSpace = "none"
  LocaleFiles <- SomeLocaleFiles
  Spaces <- SomeSpaces
  ParamSets <- SomeParams
  NoParams = NoParams
  MaxLoads = 3
SPECIFICATION RulesSpec
INVARIANTS ReadAsWritten
CHECK_DEADLOCK FALSE

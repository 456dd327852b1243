CONSTANTS
  u1 = u1
  u2 = u2
  r1 = r1
  r2 = r2
  k1 = k1
  k2 = k2
  a = a
  b = b
  text = text
  number = number
  broken = broken
  orders = orders
  i1 = i1
  i2 = i2
  low = low
  high = high
  Accounts <- OneUser
  Clients <- OneCall
  Changers <- NoCalls
  Keepers <- NoCalls
  NoRow = NoRow
  MaxVersion = 2
  MaxTokens = 2
  Users <- OneUser
  Roles <- TwoRoles
  Perms <- ReadPosts
  Revokers <- TwoCalls
  Readers <- NoCalls
  TTL = 0
  MaxQuery = 0
  MaxTime = 0
  Collections <- OneCollection
  FieldTypes <- Types
  Declarations <- NoFields
  MaxExtends = 2
  Nodes <- ReviewNodes
  Kind <- ReviewKind
  Out <- ReviewOut
  StartNode = "start"
  Contexts <- TwoContexts
  Match <- ReviewMatch
  NoMatch = NoMatch
  Instances <- TwoInstances
  MaxTasks = 1
  Calls <- OneCall
  MaxIter = 10
  MaxFaults = 0
  Worklist = FALSE
SPECIFICATION ServerSpec
INVARIANTS KeepsARole
CHECK_DEADLOCK FALSE

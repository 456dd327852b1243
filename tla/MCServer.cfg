CONSTANTS
  u1 = u1
  u2 = u2
  r1 = r1
  r2 = r2
  k1 = k1
  k2 = k2
  a = a
  b = b
  text = text
  number = number
  broken = broken
  orders = orders
  i1 = i1
  i2 = i2
  low = low
  high = high
  Accounts <- OneUser
  Clients <- TwoCalls
  Changers <- TwoCalls
  Keepers <- TwoCalls
  NoRow = NoRow
  MaxVersion = 3
  MaxTokens = 3
  Users <- OneUser
  Roles <- TwoRoles
  Perms <- ReadPosts
  Revokers <- TwoCalls
  Readers <- TwoCalls
  TTL = 2
  MaxQuery = 1
  MaxTime = 5
  Collections <- OneCollection
  FieldTypes <- Types
  Declarations <- FewFields
  MaxExtends = 2
  Nodes <- ReviewNodes
  Kind <- ReviewKind
  Out <- ReviewOut
  StartNode = "start"
  Contexts <- TwoContexts
  Match <- ReviewMatch
  NoMatch = NoMatch
  Instances <- TwoInstances
  MaxTasks = 4
  Calls <- TwoCalls
  MaxIter = 10
  MaxFaults = 1
  Worklist = FALSE
SYMMETRY Alike
SPECIFICATION ServerSpec
INVARIANTS ServerTypeOK NoStraySession BoundedStaleness MergeIsStrictest TasksAreSound
PROPERTIES LastRoleIsKept ImplementsWalk
CHECK_DEADLOCK FALSE

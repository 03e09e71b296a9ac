CONSTANTS
  Pushers = {u1, u2}
  Poppers = {p1, p2}
  Nodes = {n1, n2}
  Values = {v1, v2, v3}
  Null = Null
  NoValue = NoValue
  ZeroInit = TRUE
SPECIFICATION FairSpec
INVARIANTS TypeOK NoUseAfterFree NoStaleNext CountsPoppers ListsIntact
PROPERTIES ImplementsStack LockFree AllReclaimed

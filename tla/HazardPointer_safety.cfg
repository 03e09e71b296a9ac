CONSTANTS
  Pushers = {u1}
  Poppers = {p1, p2}
  Nodes = {n1, n2, n3}
  Values = {v1, v2, v3}
  Null = Null
  NoValue = NoValue
  NoThread = NoThread
  MaxHazardPointerSize = 2
  OtherStacks = FALSE
SPECIFICATION Spec
SYMMETRY Symmetry
PROPERTY ImplementsStack
INVARIANTS NoUseAfterFree NoStaleNext DeletedUnwatched ListsIntact
CHECK_DEADLOCK FALSE

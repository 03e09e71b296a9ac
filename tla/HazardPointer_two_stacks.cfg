CONSTANTS
  Pushers = {u1}
  Poppers = {p1, p2}
  Nodes = {n1, n2}
  Values = {v1, v2}
  Null = Null
  NoValue = NoValue
  NoThread = NoThread
  MaxHazardPointerSize = 2
  OtherStacks = TRUE
SPECIFICATION Spec
INVARIANT DeletedUnwatched
CHECK_DEADLOCK FALSE

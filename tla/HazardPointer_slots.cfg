CONSTANTS
  Pushers = {u1}
  Poppers = {p1, p2, p3}
  Nodes = {n1}
  Values = {v1}
  Null = Null
  NoValue = NoValue
  NoThread = NoThread
  MaxHazardPointerSize = 2
  OtherStacks = TRUE
SPECIFICATION Spec
SYMMETRY Symmetry
INVARIANTS SlotsPrivate
CHECK_DEADLOCK FALSE

CONSTANTS
  Pushers = {u1, u2}
  Poppers = {p1, p2}
  Calls = {"try", "wait", "timed"}
  Nodes = {n1, n2, n3}
  Values = {v1, v2, v3}
  Null = Null
  NoValue = NoValue
  NoThread = NoThread
SPECIFICATION Spec
SYMMETRY Symmetry
PROPERTY ImplementsQueue
INVARIANTS NoDataRace NoUseAfterFree ListIntact

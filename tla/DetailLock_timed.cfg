CONSTANTS
  Pushers = {u1}
  Poppers = {p1, p2}
  Calls = {"timed"}
  Nodes = {n1, n2, n3}
  Values = {v1, v2}
  Null = Null
  NoValue = NoValue
  NoThread = NoThread
SPECIFICATION FairSpec
PROPERTY EveryElementPopped

CONSTANTS
  Pushers = {u1}
  Poppers = {p1}
  Calls = {"wait"}
  Nodes = {n1, n2}
  Values = {v1}
  Null = Null
  NoValue = NoValue
  NoThread = NoThread
SPECIFICATION FairSpec
PROPERTY EveryElementPopped
CHECK_DEADLOCK FALSE

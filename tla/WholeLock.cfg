CONSTANTS
  Pushers = {u1, u2}
  Poppers = {p1, p2}
  Calls = {"wait", "try", "is_empty"}
  Values = {v1, v2, v3}
  NoValue = NoValue
  NoThread = NoThread
SPECIFICATION FairSpec
PROPERTIES ImplementsQueue WaitersAreServed
INVARIANTS NoLostWakeup NeverTakesFromEmpty
CHECK_DEADLOCK FALSE

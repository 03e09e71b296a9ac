SPECIFICATION Spec
CONSTANTS
  Keys = {k1, k2, k3, k4}
  Values = {v1, v2}
  Miss = Miss
  Nodes = {n1, n2, n3, n4}
  LRUCaps <- SmallCaps
  LFUCaps <- AllCaps
  MaxFreq = 3
INVARIANTS IteratorsValid LRUKeepsMostRecent FrequenciesMatch
PROPERTIES EvictsLeastUsed ImplementsCache

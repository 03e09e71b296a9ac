CONSTANTS
  Putters = {p1, p2}
  Getters = {g1, g2}
  Keys = {k1, k2}
  Values = {v1, v2}
  NoValue = NoValue
  NoThread = NoThread
  Buckets <- TwoBuckets
  BucketOf <- SharedBucket
SPECIFICATION FairSpec
INVARIANTS NoDataRace OneEntryPerKey
PROPERTIES ImplementsMap CallsReturn

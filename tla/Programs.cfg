SPECIFICATION Spec
CONSTANTS
  Numbers = {1, 2, 3}
  MaxLen = 5
  Below = 2
  MaxA = 24
  Elements = {e1, e2, e3}
  Values = {1, 2, 3}
  Consumers = {c1, c2}
  BatchSize = 2
  MaxBatches = 3
INVARIANTS ArraysSorted FactorsCounted ParallelCallsSort NoThreadOutlivesScope
PROPERTY ProgramsGetDone
CHECK_DEADLOCK FALSE

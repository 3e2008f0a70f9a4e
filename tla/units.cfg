SPECIFICATION UnitsSpec
CONSTANTS
  Producers = {p1, p2, p3}
  Priorities = {0, 1}
  MaxQueue = 2
  MaxTasks = 4
  InitialBlocks = 2
  MaxBlocks = 3
  MaxAllocations = 4
  Holders = {h1, h2}
  Buffers = {v1, v2, v3}
  MinBucket = 1
  MaxBucket = 4
  MaxPerBucket = 1
  Sizes = {0, 1, 2, 3, 4, 5}
  c1 = c1
  c2 = c2
  i1 = i1
  i2 = i2
  i3 = i3
  Callers = {c1, c2}
  Iterations = {i1, i2, i3}
  CallOf <- MCCallOf
  Parties = {t1, t2, t3}
  Count = 2
  MaxRound = 2
CHECK_DEADLOCK FALSE
INVARIANTS
  ProducersWoken
  CancelledNotTaken
  BlocksExclusive
  VectorsFit
  ParallelForWaits
  BarriersTogether

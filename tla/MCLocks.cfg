CONSTANTS
  Threads = {t1, t2, t3}
  Waiters = {t1, t2}
  Initial = 1
  Timeouts = {0, 1}
  MaxTicks = 3
  MaxPosts = 2
  Consumers = {r1, r2}
  Producers = {w1}
  PIPE_BUFF = 2
  MaxChunk = 3
  MaxBytes = 3
  Tasks = {t1, t2}
  a1 = a1
  a2 = a2
  MaxWaits = 2
  MaxCalls = 2
  MaxCount = 1
  NoThread = NoThread
SPECIFICATION MCSpec
INVARIANTS
  CntCountsHolders
  RWExclusion
  UnitsConserved
PROPERTIES
  WaitsEnd
  CloseReleases
  

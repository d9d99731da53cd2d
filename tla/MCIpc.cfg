CONSTANTS
  Readers = {r1, r2}
  Writers = {w1, w2}
  PIPE_BUFF = 2
  MaxChunk = 3
  MaxBytes = 4
  Tasks = {t1, t2, t3}
  a1 = a1
  a2 = a2
  Addrs <- MCAddrs
  RequeuePairs <- MCPairs
  MaxWaits = 3
  MaxCalls = 2
  MaxCount = 1
  NoThread = NoThread
SPECIFICATION MCSpec
CHECK_DEADLOCK FALSE
SYMMETRY Symmetry
INVARIANTS
  SleepersHaveReason
  StreamIntact
  WaitersKept

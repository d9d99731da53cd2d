CONSTANTS
  Tasks = {t1, t2}
  a1 = a1
  a2 = a2
  Addrs <- MCAddrs
  RequeuePairs <- MCPairs
  MaxWaits = 2
  MaxCalls = 1
  MaxCount = 1
  NoThread = NoThread
SPECIFICATION FutexFairSpec
CHECK_DEADLOCK FALSE
PROPERTIES
  SpinsUntilAwoken

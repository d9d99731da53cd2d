SPECIFICATION TcpSpec
CONSTANTS
  Mss = 2
  TcpWnd = 2
  SndBuf = 4
  MaxRtx = 2
  SynMaxRtx = 1
  SeqSpace = 16
  NetCap = 3
  Chunk = 2
  Windows = {5}
  Plans <- MCShutPlans
  Iss <- MCIss
INVARIANT
  NoAssertFails
CHECK_DEADLOCK FALSE

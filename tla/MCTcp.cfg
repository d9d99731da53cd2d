SPECIFICATION TcpSpec
CONSTANTS
  Mss = 2
  TcpWnd = 3
  SndBuf = 4
  MaxRtx = 1
  SynMaxRtx = 1
  SeqSpace = 16
  NetCap = 3
  Chunk = 2
  Windows = {3}
  Plans <- MCPlans
  Iss <- MCIss
INVARIANTS
  
  WindowAccounted
  

  
CHECK_DEADLOCK FALSE

CONSTANTS
  BLOCK_SIZE = 4
  Map <- MCMap
  MaxPages = 3
  Fds = {f1, f2, f3, f4}
  Pairs = {p1, p2, p3, p4}
  PTY_MAX = 3
  NoPair = NoPair
  Sockets = {s1, s2, s3, s4}
  NETPORTS_EPH_START = 3
  NETPORTS_AVAILABLE_PORTS = 6
  PortWidth = 7
  StartSpan = 2
  Data = {0, 1}
  Size = 3
  MaxLen = 3
SPECIFICATION MCSpec
SYMMETRY Interchangeable
CHECK_DEADLOCK FALSE
INVARIANTS
  AllocationsSound
  
  HeldOnce
  NoByteRace
PROPERTIES
  ImplementsFifo
  LockedImplementsFifo

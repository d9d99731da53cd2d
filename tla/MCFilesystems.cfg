CONSTANTS
  Procs = {p1, p2}
  p1 = p1
  p2 = p2
  BlockGroups = 2
  PerGroup = 4
  ByteBits = 2
  FirstInode = 2
  Mounted <- MCBitmaps
  NoProc = NoProc
  fa = fa
  fb = fb
  fc = fc
  Callers = {p1, p2}
  NoCaller = NoProc
  Names <- MCNames
  NameLen <- MCNameLen
  MaxBlocks = 3
  Dot = Dot
  DotDot = DotDot
  BlockSize = 36
  MaxInodes = 3
  MaxPairInodes = 2
  MaxCrashes = 1
  Rooms = {1, 2}
  FileBlocks = {0, 1, 2, 3}
  MaxRange = 3
  MaxAdds = 3
  Objects = {o1, o2, o3}
  NoObject = NoObject
  BadCluster = 100
  PerSector = 2
  CacheMax = 2
  Bpc = 2
  PerCluster = 3
  Limits = {0, 1, 2, 3, 4, 5, 6}
  Listed = {0, 1, 2}
SPECIFICATION MCSpec
CHECK_DEADLOCK FALSE
INVARIANTS
  InodesSound
  
  
  CachesSound
  

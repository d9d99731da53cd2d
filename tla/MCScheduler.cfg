CONSTANTS
  first = first
  dummy = dummy
  helper = helper
  None = None
  Users = {u1, u2}
  TASK_STATE_READY = 1
  TASK_STATE_SIGKILLED = 9
  DEAD = 0
  CREATED = 4
  READY = 1
  BLOCKED = 8
  DUMMY = 69
  GDT_KERNEL_CODE = 40
  UserCS = 83
  MaxTicks = 1
  Words = 2
  Sleeps = {0, 1}
  Timers = {}
  Signals = {"ALRM", "TERM"}
SPECIFICATION Spec
SYMMETRY Symmetry
INVARIANTS
  ContextPreserved
  SleeperHoldsNoLock
PROPERTIES
  OnlyReadyRun
  

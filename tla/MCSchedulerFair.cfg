CONSTANTS
  first = first
  dummy = dummy
  helper = helper
  None = None
  Users = {u1}
  TASK_STATE_READY = 1
  TASK_STATE_SIGKILLED = 9
  DEAD = 0
  CREATED = 4
  READY = 1
  BLOCKED = 8
  DUMMY = 69
  GDT_KERNEL_CODE = 40
  UserCS = 83
  MaxTicks = 2
  Words = 1
  Sleeps = {1}
  Timers = {0, 1}
  Signals = {"ALRM", "TERM"}
SPECIFICATION FairSpec
PROPERTIES
  
  ReadyRuns
  DeadlineHonoured

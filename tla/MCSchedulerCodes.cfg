CONSTANTS
  first = first
  dummy = dummy
  helper = helper
  None = None
  Users = {u1}
  TASK_STATE_READY = 0
  TASK_STATE_SIGKILLED = 5
  DEAD = 0
  CREATED = 1
  READY = 2
  BLOCKED = 3
  DUMMY = 4
  GDT_KERNEL_CODE = 8
  UserCS = 27
  MaxTicks = 1
  Words = 1
  Sleeps = {0, 1}
  Timers = {}
  Signals = {"ALRM", "TERM"}
SPECIFICATION Spec
PROPERTIES
  DeadNeverRuns

SPECIFICATION ExcSpec
CONSTANTS
  main_task = main_task
  new_task = new_task
  Printers = {}
  Tasks = {main_task, new_task}
  idle_task = idle_task
  NULL = NULL
  notify_task_print = notify_task_print
  log_mutex = log_mutex
  Sems = {notify_task_print}
  Mutexes = {log_mutex}
  InitCount <- MCInitCount
  TASK_TIME_SLICE_DEFAULT = 2
  OS_TICKS_MS = 2
  UINT_MOD = 16
  SleepMs = {2}
  MaxCount = 1
  MaxLocker = 2
  LineLen = 1
  Vectors = {0, 14}
  ReportLines = 3
  HexLine = 2
INVARIANTS
  FrameRight
  ReportBalanced
PROPERTY
  FaultStops

SPECIFICATION FairSpec
CONSTANTS
  main_task = main_task
  idle_task = idle_task
  NULL = NULL
  a = a
  b = b
  s = s
  m = m
  Tasks <- MCTasks
  Sems <- MCSems
  Mutexes <- MCMutexes
  InitCount <- MCInitCount
  TASK_TIME_SLICE_DEFAULT = 2
  OS_TICKS_MS = 2
  UINT_MOD = 16
  SleepMs = {0, 1}
  MaxCount = 1
  MaxLocker = 2
INVARIANTS
  TypeOK
  OneQueue
  CurrIsHead
  TickConsistent
  TicksLeft
  StateAgrees
  SemNoLostWakeup
  MutexNoLostWakeup
  SleepPunctual
PROPERTIES
  NoEarlyWake
  OnlySelfBlocks
  FirstComeFirstServed
  SemSpec
  MutexSpec
  NoStarvation
  SleepersRun

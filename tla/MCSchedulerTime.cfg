SPECIFICATION MCFairSpec
CONSTANTS
  a = a
  b = b
  idle = idle
  null = null
  Main <- MainOfTwo
  Tasks <- TwoTasks
  Idle = idle
  NoTask = null
  EventLists = {}
  configMAX_PRIORITIES = 2
  portMAX_DELAY = 3
  configINITIAL_TICK_COUNT = 0
  configUSE_TICKLESS_IDLE = FALSE
  MaxOverflows = 0
  MaxNotifyValue = 0
  Calls <- TimeCalls
  InitialPriorities = {0, 1}
  NewPriorities = {}
  DelayTicks = {0, 2}
  Periods = {2}
  MaxPendedTicks = 1
  MaxSuspendNesting = 0
INVARIANTS
  TypeOK
  DelayedTasksFound
PROPERTIES
  CountsDown
  RoundRobin
  DelaysEnd

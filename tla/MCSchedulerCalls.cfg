SPECIFICATION SpecOfApplications
CONSTANTS
  a = a
  b = b
  idle = idle
  null = null
  Main <- MainOfAny
  Tasks <- TwoTasks
  Idle = idle
  NoTask = null
  EventLists = {}
  configMAX_PRIORITIES = 2
  portMAX_DELAY = 2
  configINITIAL_TICK_COUNT = 0
  configUSE_TICKLESS_IDLE = FALSE
  MaxOverflows = 0
  MaxNotifyValue = 0
  Calls <- TaskCalls
  InitialPriorities = {0, 1}
  NewPriorities = {0, 1}
  DelayTicks = {1, 2}
  Periods = {}
  MaxPendedTicks = 1
  MaxSuspendNesting = 1
INVARIANTS
  ListsConsistent
  HighestPriorityRuns
  ReadyTasksFound
  NothingLeftPending
  NoAssertFails

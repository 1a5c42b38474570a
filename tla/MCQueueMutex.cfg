SPECIFICATION MutexSpec
CONSTANTS
  ta = ta
  tb = tb
  tc = tc
  idle = idle
  null = null
  queue1 = queue1
  queue2 = queue2
  mutex1 = mutex1
  set1 = set1
  item1 = item1
  item2 = item2
  none = none
  noItem = noItem
  Main <- MainOfThree
  Tasks <- ThreeTasks
  Idle = idle
  NoTask = null
  EventLists <- EventListsUsed
  configMAX_PRIORITIES = 3
  portMAX_DELAY = 3
  configINITIAL_TICK_COUNT = 0
  configUSE_TICKLESS_IDLE = FALSE
  MaxOverflows = 0
  MaxNotifyValue = 0
  Calls <- DelayOnly
  InitialPriorities = {0, 1, 2}
  NewPriorities = {}
  DelayTicks = {1}
  Periods = {}
  MaxPendedTicks = 0
  MaxSuspendNesting = 0
  Queues <- OneMutex
  NoQueue = none
  Kind <- KindOf
  Length <- LengthsOf
  Initially <- ZeroAtFirst
  Items = {}
  NoItem = noItem
  SendList <- SendLists
  ReceiveList <- ReceiveLists
  Container <- NoContainers
  TaskUses <- MutexUses
  HandlerUses = {}
  MaxRecursion = 2
INVARIANTS
  PriorityGivenBack
  HolderInherits
  InheritsFromTaker

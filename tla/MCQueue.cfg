SPECIFICATION MCQueueSpec
CONSTANTS
  ta = ta
  tb = tb
  tc = tc
  idle = idle
  null = null
  queue1 = queue1
  queue2 = queue2
  mutex1 = mutex1
  set1 = set1
  item1 = item1
  item2 = item2
  none = none
  noItem = noItem
  Main <- MainOfTwo
  Tasks <- TwoTasks
  Idle = idle
  NoTask = null
  EventLists <- EventListsUsed
  configMAX_PRIORITIES = 2
  portMAX_DELAY = 3
  configINITIAL_TICK_COUNT = 0
  configUSE_TICKLESS_IDLE = FALSE
  MaxOverflows = 1
  MaxNotifyValue = 0
  Calls = {}
  InitialPriorities = {0, 1}
  NewPriorities = {}
  DelayTicks = {}
  Periods = {}
  MaxPendedTicks = 1
  MaxSuspendNesting = 0
  Queues <- QueuesAndSet
  NoQueue = none
  Kind <- KindOf
  Length <- LengthsOf
  Initially <- ZeroAtFirst
  Items = {item1, item2}
  NoItem = noItem
  SendList <- SendLists
  ReceiveList <- ReceiveLists
  Container <- NoContainers
  TaskUses <- Uses
  HandlerUses <- UsesOfHandlers
  MaxRecursion = 0
INVARIANTS
  NoLostWakeup
  LocksAreReleased
  WaitEndsWithTime
  SetCountsItems
PROPERTIES
  TimeIsKept
  ImplementsFifo

SPECIFICATION MCTimersSpec
CONSTANTS
  ta = ta
  tmrTask = tmrTask
  idle = idle
  null = null
  queue1 = queue1
  timer1 = timer1
  timer2 = timer2
  timer3 = timer3
  timer4 = timer4
  timer5 = timer5
  none = none
  noItem = noItem
  noTimer = noTimer
  Main <- MainOfTwo
  Tasks <- TwoTasks
  Idle = idle
  NoTask = null
  EventLists <- Both
  configMAX_PRIORITIES = 2
  portMAX_DELAY = 2
  configINITIAL_TICK_COUNT = 0
  configUSE_TICKLESS_IDLE = FALSE
  MaxOverflows = 1
  MaxNotifyValue = 0
  Calls = {}
  InitialPriorities = {0, 1}
  NewPriorities = {}
  DelayTicks = {}
  Periods = {}
  MaxPendedTicks = 1
  MaxSuspendNesting = 0
  Queues <- QueueOnly
  NoQueue = none
  Kind <- KindOf
  Length <- LengthOf1
  Initially <- ZeroAtFirst
  Items = {}
  NoItem = noItem
  SendList <- SendLists
  ReceiveList <- ReceiveLists
  Container <- NoContainers
  TaskUses = {}
  HandlerUses = {}
  MaxRecursion = 0
  TimerTask = tmrTask
  TimerQueue = queue1
  Timers = {timer1, timer2, timer3, timer4, timer5}
  NoTimer = noTimer
  Period <- Periods5
  AutoReload <- Reloads
  TimerUses <- CommandsOfA
  TimerHandlerUses <- CommandsOfHandlers
  ManageUses <- ManagesOfA
INVARIANTS
  ListedWhenDue
  WakesForTimers
PROPERTIES
  CalledWhenDue
CHECK_DEADLOCK FALSE

SPECIFICATION MCEventsSpec
CONSTANTS
  a = a
  b = b
  c = c
  idle = idle
  null = null
  g = g
  none = none
  bit1 = bit1
  bit2 = bit2
  Main <- MainOfThree
  Tasks <- ThreeTasks
  Idle = idle
  NoTask = null
  EventLists <- OneList
  configMAX_PRIORITIES = 2
  portMAX_DELAY = 3
  configINITIAL_TICK_COUNT = 0
  configUSE_TICKLESS_IDLE = FALSE
  MaxOverflows = 0
  MaxNotifyValue = 3
  Calls = {}
  InitialPriorities = {0, 1}
  NewPriorities = {}
  DelayTicks = {}
  Periods = {}
  MaxPendedTicks = 1
  MaxSuspendNesting = 0
  EventGroups = {g}
  NoGroup = none
  EventBits = {bit1, bit2}
  WaitList <- GroupList
  GroupUses <- GroupCalls
  NotifyUses <- NotifiesOfA
  NotifyHandlerUses <- NotifiesOfHandlers
  WaitUses <- Waits
  StateClearUses <- StateClears
  ValueClearUses <- ValueClears
INVARIANTS
  NotifiedIsAwake
  WaitersUnsatisfied
  DeletedNotRead
PROPERTIES
  ReleasedTogether

SPECIFICATION MCStreamSpec
CONSTANTS
  ta = ta
  tb = tb
  idle = idle
  null = null
  stream1 = stream1
  batch1 = batch1
  message1 = message1
  message2 = message2
  none = none
  byte1 = byte1
  byte2 = byte2
  nil = nil
  Main <- MainOfTwo
  Tasks <- TwoTasks
  Idle = idle
  NoTask = null
  EventLists <- OneList
  configMAX_PRIORITIES = 2
  portMAX_DELAY = 3
  configINITIAL_TICK_COUNT = 1
  configUSE_TICKLESS_IDLE = FALSE
  MaxOverflows = 0
  MaxNotifyValue = 1
  Calls = {}
  InitialPriorities = {0, 1}
  NewPriorities = {}
  DelayTicks = {}
  Periods = {}
  MaxPendedTicks = 1
  MaxSuspendNesting = 0
  NotifyUses = {}
  NotifyHandlerUses = {}
  WaitUses = {}
  StateClearUses = {}
  ValueClearUses = {}
  Buffers = {stream1, batch1, message1, message2}
  NoBuffer = none
  BufferKind <- Kinds
  Size <- Sizes
  Trigger <- Triggers
  NoByte = nil
  PrefixBytes = 1
  SendUses <- Sends
  ReceiveUses <- Receives
  StreamHandlerUses <- HandlersUse
  ManagerUses <- Managers
INVARIANTS
  WaitersAreWoken
PROPERTIES
  ImplementsStream
  ReceivedIsRemoved

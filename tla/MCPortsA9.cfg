SPECIFICATION MCTimersSpec
CONSTANTS
  a = a
  b = b
  idle = idle
  null = null
  Main <- MainOfTwo
  Tasks <- TwoTasks
  Idle = idle
  NoTask = null
  EventLists = {}
  configMAX_PRIORITIES = 2
  portMAX_DELAY = 4
  configINITIAL_TICK_COUNT = 0
  configUSE_TICKLESS_IDLE = TRUE
  MaxOverflows = 0
  MaxNotifyValue = 0
  Calls <- SleepCalls
  InitialPriorities = {0, 1}
  NewPriorities = {}
  DelayTicks = {1, 3}
  Periods = {}
  MaxPendedTicks = 2
  MaxSuspendNesting = 0
  Ports = {"cortex_a9"}
  ulTimerCountsForOneTick = 4
  MaxLatency = 2
  MaxSuppressedTicks = 3
  c = c
  main = main
  Threads = {a, b, c}
  FpuTasks = {a, b}
  MaxNesting = 2
  Chosen = {"cortex_m0", "cortex_m3", "cortex_m4f", "cortex_a9", "cortex_a53", "riscv32"}
  Nesting = {"cortex_m0", "cortex_m3", "cortex_m4f", "cortex_a9"}
PROPERTY
  SleepKeepsTime

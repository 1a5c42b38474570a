SPECIFICATION MCMemorySpec
CONSTANTS
  ta = ta
  daemon = daemon
  idle = idle
  isr = isr
  value1 = value1
  value2 = value2
  tb = tb
  Tasks = {ta, tb}
  Threads = {ta, tb, daemon, idle}
  MaxSize = 127
  portBYTE_ALIGNMENT = 2
  HEAP_STRUCT_SIZE = 2
  GLOBAL_ALLOC_HEADER_SIZE = 1
  UC_HEAP <- UcHeap
  Regions <- RegionsOfHeap5
  MallocUses <- Mallocs
  CallocUses <- Callocs
  LayoutUses <- Layouts
  Daemon = daemon
  Idle = idle
  Isr = isr
  Values = {value1, value2}
  Memory = {1, 2, 3}
  Statics = {10}
  Kinds = {"queue", "timer", "stream", "task"}
  configTIMER_QUEUE_LENGTH = 2
  CallbacksRearm = FALSE
INVARIANTS
  HeapIsSound
  OwnersAreAlive
  CommandsReachTimers
  MemoryIsAccountedFor
PROPERTIES
  LeaksAreDeliberate
  ImplementsAllocator
SYMMETRY Interchangeable
CHECK_DEADLOCK FALSE

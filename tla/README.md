# A TLA+ model of freertos-in-rust

This directory is a verification project for the FreeRTOS kernel in Rust that
lives in `src/`. It models the kernel in TLA+, checks the models with TLC on
small instances, and proves some of the properties with TLAPS for every value
of the constants. Paths below are relative to the repository, and line numbers
are those of the commit the project was written against.

## 1. The system

The repository is a translation to Rust of the FreeRTOS kernel for one core.
Application tasks call kernel functions; interrupt handlers call the `FromISR`
variants; the tick interrupt drives time. All kernel state is global and is
protected in two ways:

* a *critical section* (`taskENTER_CRITICAL`) masks interrupts, so that what is
  inside is atomic;
* *suspending the scheduler* (`vTaskSuspendAll`) keeps the processor with the
  calling task but lets interrupts in. Handlers then do not touch the ready and
  delayed lists: ticks are counted in `xPendedTicks`, woken tasks are put in
  `xPendingReadyList`, and `xTaskResumeAll` makes up for both.

### Inventory

| Component | Source | State | Operations | Hard part |
|---|---|---|---|---|
| Lists | `kernel/list.rs` | ring of items, cursor `pxIndex` | end insertion, sorted insertion, removal, next entry | cursor and insertion move each other |
| Task scheduler | `kernel/tasks.rs` | ready, delayed, overflow, pending, suspended and termination lists, tick count, next unblock time, flags, TCBs | create, start, tick, context switch, suspend all / resume all, delay, delay until, suspend, resume, priority set, abort delay, delete, idle task | ticks and other interrupts between the steps of a call; wrap of the tick count; stale cached values |
| Notifications | `kernel/tasks.rs:3022-3420` | one value and one state per task and index | notify, wait, take, clear, and the ISR variants | interrupt between marking and blocking |
| Event lists, timeouts | `kernel/tasks.rs:1756-2039` | event list items, overflow count | place on / remove from event list, check for timeout | elapsed time over a wrap; abort flag |
| Queues, semaphores, sets | `kernel/queue.rs` | ring storage, two event lists, two lock counts | send, receive, peek, ISR variants, reset, unlock, sets | interrupts on a locked queue; lost wake-ups; retry after a spurious wake |
| Mutexes, inheritance | `kernel/queue.rs`, `kernel/tasks.rs:2057-2262` | holder, recursion count, base priorities | take, give, inherit, disinherit, timeout | several mutexes held; waiter that times out |
| Event groups | `kernel/event_groups.rs` | bits, unordered waiters | wait, sync, set, clear, delete | clear on exit for several waiters; timeout against set |
| Stream and message buffers | `kernel/stream_buffer.rs` | head, tail, trigger level, waiting tasks | send, receive, reset, ISR variants | one reader and one writer without a lock |
| Software timers | `kernel/timers.rs` | two timer lists, command queue, last time | commands, daemon loop, reload | wrap between command and processing |
| Tickless idle | `kernel/tasks.rs:4990-5149`, ports | the timer of the port, expected idle time, pended ticks | expected idle time, confirm sleep, program the timer, step tick | interrupt between the decision and the sleep; ticks the timer does not deliver |
| Heaps | `memory/` | address-ordered free list, counters | malloc, free, regions | coalescing, sizes that overflow |
| Ports | `port/` | nesting count, masks, pending switch, registers | critical sections, masks from handlers, yield, context switch, first task | interrupts between any two instructions; floating point registers |
| Wrappers | `sync/` | handles and who owns them, references of shared objects | create, clone, move, drop, `from_raw`, `into_raw` | a value dropped while another task, a handler or a command still uses the object |
| Traces, demos, tests | `trace.rs`, `demo/`, `tests/` | none of their own | | none for a model checker |

What makes each component correct:

* Lists: an item is in one list at a time, the one its container names; the
  cursor visits every item; sorted insertion keeps the order.
* Scheduler: the processor goes to a ready task of the highest priority; tasks
  of equal priority share it; a delayed task wakes at its wake time, also over
  the wrap of the tick count; nothing that was deferred while the scheduler was
  suspended is lost; freed TCBs are in no list.
* Notifications, queues, event groups, buffers: no wake-up is lost, no task
  sleeps with its condition true, data comes out in the order it went in, waits
  last no longer than their timeout.
* Mutexes: one holder; the holder has at least the priority of every waiter, and
  loses what it inherited when the waiter leaves.
* Timers: a timer expires at its time, a periodic one once per period.
* Heap: blocks do not overlap and no byte is lost.
* Tickless idle: the tick count after a sleep is the time that has passed, and a
  sleep ends before the next task is due.
* Ports: a task gets back the registers it had, whatever interrupts and switches
  came between; nothing masked runs, and what is unmasked runs in the end.
* Wrappers: what a value can reach is alive; memory is freed once, by its owner,
  after the last command about it.

`PROJECT.json` lists every component with its status, and under `hazards` what
is hard to test in this code, at its line, with the properties that cover it.

## 2. Modules

The state machines extend `Scheduler`, so that queues, notifications, event
groups, stream buffers, timers and the idle sleep are used by real tasks: what
`vTaskSuspendAll` holds back, which task preempts which, when a tick comes.
`Heap`, `Objects` and `Ports` are about what lies beneath or above the scheduler
and stand alone.

| Module | Models | Extends |
|---|---|---|
| `Lists` | `list.rs` as operators on a sequence and a cursor | `SequencesExt` |
| `Tasks` | the kernel state as one record, and the internal functions of `tasks.rs` as operators from record to record | `Lists` |
| `Scheduler` | the tasks and interrupts that call them, as a state machine | `Tasks` |
| `BlockingTime` | what the delayed lists promise: counting down | |
| `Waiting` | event lists, timeouts and priority inheritance of `tasks.rs`, as operators | `Tasks` |
| `Notify` | direct to task notifications | `Scheduler`, `Waiting` |
| `EventGroup`, `Events` | event groups; tasks that use both notifications and groups | `Scheduler`, `Waiting` |
| `Queue` | queues, semaphores, mutexes and queue sets | `Scheduler`, `Waiting` |
| `BoundedFifo` | what a family of queues promises | |
| `Ring` | the ring arithmetic of a stream buffer | |
| `StreamBuffer` | stream, message and batching buffers | `Notify`, `Ring` |
| `ByteStream` | what a family of streams promises | |
| `Timers` | the timer daemon, its lists and its command queue | `Queue` |
| `Tickless` | the idle sleep, with the timers of the ports | `Scheduler` |
| `Heap` | `heap_4.rs` and `heap_5.rs` | |
| `Allocator` | what an allocator promises | |
| `Objects` | who owns the memory of kernel objects: the wrappers of `sync/` and the creating and deleting calls | |
| `Machine` | registers, masks and interrupts of a processor | |
| `Port` | a processor under one port, with the port's functions as constants | |
| `CortexM0`, `CortexM3`, `CortexM4F`, `CortexA9`, `CortexA53`, `RiscV32` | the ports' functions, each an instance of `Port` | `Machine` |
| `Processor` | what the kernel relies on of any port | |
| `Ports` | one of the six ports, chosen at first | `Machine` |
| `MCMain` | a `main()` that creates given tasks in order and starts the scheduler | `Scheduler` |
| `MCScheduler`, `MCApplications`, `MCQueue`, `MCEvents`, `MCStream`, `MCTimers`, `MCMemory`, `MCPorts` | the instances of the TLC runs | |
| `TasksProofs`, `SchedulerProofs` | lemmas on lists and on each kernel function, and the theorems about `Scheduler` | |
| `TimeProofs` | how the delayed lists keep time, and the theorems about it | |
| `PreemptionProofs` | which task runs, what is pending and what is asserted: the theorems about it, and the refinement of `BlockingTime` | |
| `EventGroupProofs` | the theorems about `EventGroup` with the whole scheduler | |
| `QueueProofs` | the theorems about `Queue` | |
| `ObjectsProofs` | the theorems about `Objects` | |
| `PortsProofs` | the theorems about the six ports, and that they implement `Processor` | |

### State

The variable `os` is a record with the globals of `tasks.rs` and the fields of
every TCB (`os.prio[t]` is `uxPriority` of `t`). A list is named by an integer,
the ready list of priority `p` by `p` itself; `os.lists[l]` is its content, and
`os.stateList[t]`, `os.eventList[t]` are the `pxContainer` pointers of the two
list items of `t`. `pc[t]` says where task `t` is inside an API function;
`target[t]` and `ticks[t]` are the parameters of that call. Modules above add the
local variables of their own calls as one record per task: `wait[t]` (`Notify`),
`call[t]` (`Queue`), `sb[t]` (`StreamBuffer`).

Keeping both the lists and the container pointers is redundant on purpose: the
code has both, and `ListsConsistent` says that they agree.

### Steps

An action is a critical section, or a stretch of code that runs with the
scheduler suspended and that no handler can tell from an atomic step. A call
that consists of several of these has a `pc` value between them, where ticks,
other handlers and, if the scheduler is not suspended, other tasks can run.
`portYIELD` pends a context switch (`os.pendSV`); ticks may come before it is
taken, but no instruction of the task that yielded.

The loops of `xTaskResumeAll` and `xTaskIncrementTick` run with interrupts
masked. They are modelled one turn per step, in the stages "drain", "ticks",
"unblock" and "unblockISR", during which nothing else is enabled. A loop inside
a critical section of another part (`prvUnlockQueue`, a queue's reset) is the
stage "masked". This keeps every operator free of recursion, so that proofs
about them are possible.

Unlinking a state item resets its value to 0: nothing reads the value of an
unlinked item before it is set again, and the states stay few.

### How the parts correspond to the code

* `Queue`: `queue[q]` is the `Queue_t`: the storage, `pcWriteTo` and
  `pcReadFrom` as positions, `uxMessagesWaiting`, `cTxLock` and `cRxLock`. The
  two event lists are lists of `os`. The `pc` values `queueTry` to
  `queueResumed` are the passes of the loop in `xQueueGenericSend` and
  `xQueueReceive`: attempt, suspend the scheduler and lock, check the timeout,
  block, unlock (one waiter per step), resume.
* `Notify`: `os.notifyState` and `os.notifyValue`; a wait is marked in one
  critical section, blocks in another, and reads the outcome in a third.
* `EventGroup`: `bits[g]`, and `item[t]`, the value of the event item through
  which a task leaves its wish and is told the outcome. Setting bits walks the
  waiters in one step, as the scheduler is suspended and handlers do not touch a
  group.
* `StreamBuffer`: `buffer[b]` has head, tail, trigger level and the two
  registered tasks. Positions are read and advanced by producer and consumer
  without a lock, so a send is several steps: copy, advance, look at the trigger,
  notify.
* `Timers`: `timer[i]` is a `Timer_t`, and `daemon` the local variables of the
  daemon's loop; callbacks are one step that only notes the call.
* `Tickless`: `hw` is the timer in counts, with a latency for interrupts.
  `vPortSuppressTicksAndSleep` is modelled per port.
* `Heap`: blocks by address with their sizes and links in the memory, as the code
  leaves them. `Objects`: `objects[a]` are the allocated control blocks with
  their storage, `values[v]` the wrappers a program has, `queue` the commands to
  the daemon.
* `Ports`: a machine `m` with a stack of interrupted handlers; every function of
  the port is an operator from machine to machine, and an interrupt may come
  between any two.

### What the application is assumed to do

The application calls blocking functions only with the scheduler running (the
code asserts it), uses handles of tasks that exist, leaves the idle task alone,
and resumes the scheduler as often as it suspended it. `xTaskCreate` compares
the priority of the new task after its critical section; if that task has been
deleted and freed by then, the comparison has either outcome. A mutex is given by
its holder, a stream buffer has one producer and one consumer, an event group is
not used after its deletion except by those who wait when it happens. Programs of
`Objects` do what safe Rust lets them do, and what the comments of `from_raw` and
`into_raw` ask.

## 3. Runs

| Run | Instance | Checks |
|---|---|---|
| `sched_time` | `vTaskDelay`, `xTaskDelayUntil`, yields | `TypeOK`, `DelayedTasksFound`, `CountsDown`, `RoundRobin`, `DelaysEnd` |
| `sched_calls` | two applications: suspending, resuming and aborting; creating, deleting and changing priorities | `ListsConsistent`, `HighestPriorityRuns`, `ReadyTasksFound`, `NothingLeftPending`, `NoAssertFails` |
| `queue` | three applications: receiving and peeking with timeouts at a queue of one item; a queue of two items in a queue set | `NoLostWakeup`, `LocksAreReleased`, `WaitEndsWithTime`, `SetCountsItems`, `TimeIsKept`, `ImplementsFifo` |
| `queue_mutex` | three tasks of three priorities and a mutex, taken recursively by one, with a timeout by another | `PriorityGivenBack`, `HolderInherits`, `InheritsFromTaker` |
| `events` | three tasks, notifications from tasks and handlers, an event group of two bits | `NotifiedIsAwake`, `WaitersUnsatisfied`, `DeletedNotRead`, `ReleasedTogether` |
| `stream` | a stream, a batching and two message buffers, one of them per behaviour | `WaitersAreWoken`, `ImplementsStream`, `ReceivedIsRemoved` |
| `timers` | five timers, one or two of them per behaviour, with commands from a task and handlers | `ListedWhenDue`, `WakesForTimers`, `CalledWhenDue` |
| `tickless_a53` | the timer of Cortex-A53: a violation | `SleepKeepsTime` |
| `tickless_a9` | the timer of Cortex-A9 at every moment: a violation | `SleepKeepsTime` |
| `memory` | heap_4, heap_5 over two or three regions, and programs of the wrappers | `HeapIsSound`, `OwnersAreAlive`, `CommandsReachTimers`, `MemoryIsAccountedFor`, `LeaksAreDeliberate`, `ImplementsAllocator` |
| `timer_rearm` | timers with callbacks that start their own timer: a violation | `CommandsReachTimers` |
| `ports` | three tasks under each of the six ports, and apart from them the timers of Cortex-M, Cortex-A9 and RISC-V in tickless idle, but for two moments | `ContextKept`, `InsideInterruptKnown`, `ImplementsProcessor`, `SleepEndsInTime`, `SleepKeepsTime` |

Five of the properties are refinements:

* `CountsDown`: the two delayed lists, the wrapping tick count and the pended
  ticks implement `BlockingTime`, where a blocked task has a number of ticks
  left and every tick takes one from each.
* `ImplementsFifo`: the slots and positions of a queue implement `BoundedFifo`.
* `ImplementsStream`: the ring of a stream buffer implements `ByteStream`.
* `ImplementsAllocator`: free list and headers implement `Allocator`.
* `ImplementsProcessor`: every port implements `Processor`.

`HighestPriorityRuns` has one exception, which the code really has: between the
critical section of `xTaskCreate` and the comparison that follows it, the new
task may have a higher priority than its creator.

Each property of each passing run has a mutant: an operator in the modules marked
"Mutant", which changes one definition the way a plausible slip in the code
would, and with which TLC finds the property violated.

### Bounds

`MaxPendedTicks` (1, in `ports` 2) bounds `xPendedTicks`: one tick that is
late is what the code tells from none, a second one repeats the loop.
`MaxSuspendNesting` (0 or 1) bounds `vTaskSuspendAll` by the application; the
kernel's own calls nest inside. `MaxOverflows` is the value after which
`xNumOfOverflows` wraps; timeouts compare it, and 1 lets a wait see both another
value and, a whole wrap later, the same one. `MaxNotifyValue` bounds a
notification value, which wraps.

* The scheduler: two tasks and the idle task in two priorities give every
  relation of priorities the code compares. The tick count wraps after 4 ticks
  (`sched_time`) or 3, so that every wake time is reached with and without a wrap
  of the count between; delays of 0, of part of the range and of nearly all of it.
* Queues: one item makes a queue full and empty at once, two tell the two ends
  apart. Timeouts of 2 ticks end, and 3 is `portMAX_DELAY`, for ever. The
  instance with the set keeps the tick count still, as its waits have no end;
  `TimePasses` stands for the time in which nothing happens.
* Mutex: three priorities are the least with which a holder inherits twice and
  loses the higher of the two; two levels of recursion (`MaxRecursion`).
* Events: two bits tell "any" from "all"; three tasks let one set release two.
* Streams: storage of 2 and 3 bytes wraps at every position; a message is a
  length of one byte (`PrefixBytes`) and its bytes.
* Timers: periods of 1 and 2 ticks with a tick count that wraps after 3 ticks,
  and a command queue of one entry, which is often full. `DaemonKeepsUp`, a
  condition on the instance, keeps time from running ahead of a daemon that has
  not yet looked at it: with it time may stop while the daemon has no command to
  process, so that this run does not check for deadlock.
* Tickless: a tick of 4 counts, and interrupts that wait up to 2 counts: an
  interrupt or a stop of the timer in every quarter of a tick. The count of ticks
  wraps after 5. The passing run leaves out two moments of the hardware, at which
  the Cortex-A9 and the Cortex-M ports do not keep the time and `SleepKeepsTime`
  does not hold: `ExpiresUnseen` of `MCPorts` is the subject of `tickless_a9`, and
  `StoppedAtZero` is described under Findings.
* Ports: three tasks, two of which use the floating point unit, and two critical
  sections each (`MaxNesting`): enough for a switch between tasks that are both
  inside sections, in a handler that interrupts another. A behaviour is about a
  processor or about a timer, which share no state.
* Memory: a heap of 17 units of half a header that is aligned neither at its start
  nor at its end, sizes whose sums pass `MaxSize` (127), and at most two blocks
  per program. Programs "blocks", "handles" and "timers" share no state. The
  values of wrappers are interchangeable (`SYMMETRY`). A program may hand all its
  values to a callback that never comes, so that this run does not check for
  deadlock.
* Ports: three tasks, two of which use the floating point unit, so that a switch
  saves, restores or does neither; two nested critical sections; three levels of
  interrupts, nested where the port allows it.

### Fairness

`FairSpec` assumes that `main` starts the scheduler, that the tick interrupt
keeps coming (weak fairness), that masked loops go on, and that a pended switch
is taken and the task that has the processor executes (strong fairness, as
handlers disable them again and again but return). It assumes nothing of the
application: a task may stay in application code for ever, which is why time
slicing and not the goodwill of the other tasks must give `RoundRobin`.

### Findings

* `tickless_a53`: `src/src/port/cortex_a53.rs:803` counts the time slept from the
  beginning of the sleep and leaves out the part of the current tick that had
  passed before. The tick after an early wake is late, and a device that
  interrupts more often than once per tick keeps the tick count from moving.
* `tickless_a9`: an SP804 that expires after `cpsid` (`cortex_a9.rs:767`) and
  before it is stopped (781) has reloaded; the port takes the new value for what
  is left of the old tick (787) and clears its interrupt (810). The tick is lost,
  and tasks wake a tick late.
* `timer_rearm`: `src/src/sync/timer.rs:279` says a wrapper keeps its handle valid
  until the daemon has processed the command. A wrapper that a callback makes
  with `Timer::from_raw` does not: its `start` may be queued behind the deletion
  of the timer.

Three more disagreements, with no run of their own:

* A SysTick that is stopped in the very count in which it has reached zero has a
  current value of 0. After a sleep that a pending tick has shortened to less than
  a tick, `cortex_m3.rs:716` (as `cortex_m0.rs:749` and `cortex_m4f.rs:731`) then
  makes the new tick too short by the whole reload value, neither tiny nor
  underflowed as line 719 expects. It takes an expiry at the beginning of the
  sleep and one at its end. The model has the step: `MCPortsA9.cfg` with
  `Ports = {"cortex_m"}` gives the trace.
* A batching buffer blocks its reader while it holds at most the trigger level
  (`stream_buffer.rs:1138`), where line 23 says that it blocks until the level is
  reached. A reader that calls when the buffer holds exactly that much waits for
  one byte more, which `WaitersAreWoken` allows.
* `xPortResetHeapMinimumEverFreeHeapSize` (`heap_4.rs:400`, `heap_5.rs:531`)
  copies one counter to another with no protection. A task that allocates in
  between leaves a minimum that is more than what is free. The minimum is not
  modelled.

## 4. Proofs

For every set of tasks and event lists, every number of priorities, every width
of the tick count and every choice of calls (the assumptions are
`TasksAssumption` and `SchedulerAssumption`, which say no more than that the
constants have their types and that there are no more priorities than tick
values, so that `xListEnd` sorts last in an event list), TLAPS proves of the
scheduler:

| Theorem | States |
|---|---|
| `Invariance` | `SchedulerSpec => []IInv`, the inductive invariant |
| `TypeCorrect` | `SchedulerSpec => []TypeOK` |
| `ListsStayConsistent` | `SchedulerSpec => []ListsConsistent` |
| `ReadyTasksAreFound` | `SchedulerSpec => []ReadyTasksFound`, of the parts `ReadyListsByPriority` and `TopReadyBounds` |
| `TimeInvariance` | `SchedulerSpec => []TimeIInv`, `IInv` with what holds of time |
| `DelayedTasksAreFound` | `SchedulerSpec => []DelayedTasksFound` |
| `SchedulerInvariance` | `SchedulerSpec => []SchedulerInv`, `TimeIInv` with what holds of the running task |
| `HighestRuns` | `SchedulerSpec => []HighestPriorityRuns` |
| `NothingStaysPending` | `SchedulerSpec => []NothingLeftPending` |
| `AssertsHold` | `SchedulerSpec => []NoAssertFails` |
| `TicksAreCountedDown` | `SchedulerSpec => CountsDown`, the refinement of `BlockingTime` |
| `WakeTestIsElapsedTime` | the wrap analysis of `xTaskDelayUntil` decides whether less than a period has passed |

None of the invariants is inductive by itself. `AbortMakesReady` links a
task in a ready list because `AbortUnlinksState`, an earlier critical section,
unlinked it; a tick, a resume from an interrupt or a drained pending list could
have linked it again in between. `prvCheckTasksWaitingTermination` takes the
head of a list that is not empty only if `uxDeletedTasksWaitingCleanUp` does not
exceed its length. So the inductive invariant `IInv` has five parts:

* `Sound(os)`: the record has its type, lists and container pointers agree
  (`Consistent`), and every task in a ready list is in the one of its priority,
  at most `uxTopReadyPriority` (`Orderly`);
* `LocalsOK`: the types of the other variables, but for the values of `pc`, to
  which other modules add;
* `DeadUnlinked`: a task that does not exist or is deleted is in no list, except
  for the termination list, where only such tasks are;
* `CallsValid`: a task that has suspended the scheduler is the current one; the
  target of an abort in progress is alive and, between its two critical
  sections, unlinked; the target of a deletion in progress is unlinked and no
  other deletion has the same target;
* `ControlValid`: the current task is a task once the scheduler runs, the masked
  loops run with the scheduler not suspended, and no more tasks are counted for
  clean up than are in the list.

The proof has three layers. The first part of `TasksProofs` reduces the list
operations to the set of items (`Inserted`, `InsertEndInserts`, `SortedInsertInserts`,
`RemoveRemoves`); an insertion point exists because the positions of larger values
have a least element (`NatLessThanWellFounded`). Its second part has one lemma per
kernel function: from a sound record to a sound record, and which other fields it
leaves alone. `SchedulerProofs`
composes these per action. Steps that neither create nor delete a task share the
lemmas `InterruptStep` (handlers and masked loops) and `TaskStep` (the running
task moves on), the others share `LifeStep`; `NextIInv` collects the actions.

`TimeProofs` adds `OnTime(os)`: the delayed and the overflow list are sorted by
wake time, the wake times of the delayed list lie ahead of the tick count (at it,
while a tick unblocks) and those of the overflow list do not, the delayed list is
empty when the tick count wraps because every time in it has been reached, and
`xNextTaskUnblockTime` is not later than the first wake time. It is kept because
a function of the kernel either leaves the delayed lists and the clock alone
(`Quiet`), takes tasks out of them (`Frees`: removal keeps an order and can
only make `xNextTaskUnblockTime` early), or puts in the current task, at a time
which `DelaysTimed` makes lie ahead: a task that is about to block in `vTaskDelay`
has a delay other than 0.

`PreemptionProofs` adds `PInv`, whose parts hold only together:

* `IdleReady`: the idle task is in the ready list of priority 0, so a context
  switch always finds a task;
* `LiveLinked`: a task that lives is in a list, but between the two critical
  sections of an abort, so nothing is unlinked twice;
* `PendingSuspended`: a task in the pending ready list is in the suspended list
  too, which is where `xTaskResumeFromISR` left it;
* `TasksCounted`: `uxCurrentNumberOfTasks` is the number of tasks that are not
  freed; `xTaskResumeAll` skips its work when it is 0, which would leave ticks
  pending;
* `CurrentReady`: the current task is in a ready list, or is about to give up the
  processor (`Leaving`), and a task that blocks has suspended the scheduler once;
* `NothingLeft`: pended ticks and pending tasks exist only while the scheduler is
  suspended or `xTaskResumeAll` is still in its loops;
* `HigherNoted`: a ready task of higher priority than the current one is noted in
  the pending switch, in `xYieldPending` or in the `xSwitchRequired` of the tick in
  progress (`Noted`), but for the new task of an `xTaskCreate` that has not
  yielded yet; before the scheduler starts, the current task is the best one.

The steps of `BlockingTime` follow from the same invariant: a task that calls
`prvAddCurrentTaskToDelayedList` runs, so `CurrentReady` says that it is ready and
not in a delayed list already (`BlocksOnce`). Where tasks are linked after an
operation is stated once per operation (`Linking`, `Readied`), and what an action
must keep of `HigherNoted` once per kind of step (`KeepLinks`, `StillPreempts` and
the lemmas that follow them).

The event groups (`EventGroupProofs`), with the same assumptions and those of
`EventGroup`, which say that each group has an event list of its own and that
calls are about groups and ticks there are. The theorems are about `EventGroupSpec`,
in which tasks make every call of the scheduler and of event groups; run `events`
checks the same properties with notifications as well:

| Theorem | States |
|---|---|
| `EventGroupsInvariance` | `EventGroupSpec => []EventGroupIInv`, that is `TimeIInv`, `PInv` and what holds of the groups |
| `WaitersAreUnsatisfied` | `EventGroupSpec => []WaitersUnsatisfied` |
| `DeletedGroupsNotRead` | `EventGroupSpec => []DeletedNotRead` |
| `TasksReleasedTogether` | `EventGroupSpec => ReleasedTogether`, an action property |

That a task waits only for what is not there depends on who waits, and so on the
scheduler: if a caller could be in the list of a group already, or a task stay
there after a timeout, an aborted delay, a suspension or its deletion, the item
would be overwritten while it is linked. So `GInv` adds to `WaitersUnsatisfied` that
a ready task is in no event list (`ReadyUnlinked`), that a task in the list of a
group has not been released (`WaitersNotReleased`), which together with the
separate lists says that whoever is found released was released by the step in
question, and that a task inside a call on a deleted group has been
(`DeletedReleases`). Two facts carry the proof. No step of the scheduler puts a task
into the list of a group or leaves it there while making it ready (`LinksStay`, one
lemma per kind of action). And the loop over a list frees exactly the tasks chosen
before it: `LoopFrees`, by taking the least position at which it would not
(`LeastNumber`), since a step of the loop frees one task and leaves the others as
they are (`WaiterFreed`, `OneMoreFreed`). The invariant of the scheduler must hold
with the new steps too, in which a task blocks or is released
(`CallKeeps`, `GroupResumesKeeps` and the lemmas after it); `CurrentReady` and
`Leaving` name the locations of both (`Unlisted`, `Yielding`).

The queues (`QueueProofs`), with the assumptions of the scheduler and those of `Queue`:

| Theorem | States |
|---|---|
| `QueueInvariant` | `QueueSpec => []QueueIInv`: the write position of a ring follows its last item (`RingsOK`), and what a call in progress knows of its queue still holds (`CallsOK`) |
| `QueuesAreFifos` | `QueueSpec => ImplementsFifo`: the rings implement bounded first-in first-out queues |
| `LocksReleased` | `QueueSpec => []LocksAreReleased` |
| `PrioritiesGivenBack` | `"xTaskCreate" \notin Calls` and `MutexesAreForTasks` imply `QueueSpec => []PriorityGivenBack` |

The scheduler is no part of the first two: the proof unfolds an action no further
than to what it does to a ring, and any interleaving the scheduler could produce
is covered. The other two need of the scheduler only what its operations leave
alone (`Keeps`: the current task, the suspension, the priorities), one lemma per
kernel function.

* A lock is released because the task that took it holds the scheduler: `HoldsOK`
  says that whoever is at a location between `vTaskSuspendAll` and `xTaskResumeAll`
  is the current task with the scheduler suspended, so that there is at most one
  (`NobodyHolds`), and `LocksOK` that a locked queue is that of the call of a task
  on its way to unlock it, which releases `cTxLock` first. Together with
  `QueueIInv` they are `LocksIInv`.
* A priority is given back because mutexes are counted: `PrioritiesOK` says that
  `uxMutexesHeld` is the number of mutexes whose holder the task is, that a mutex
  has a holder while its count is 0, and that a task which holds none has its base
  priority. What changes the priority of another task is inheritance and its
  partial revocation, and both change that of the holder (`ReprioritisedKeeps`),
  which holds at least the mutex in question (`HeldIsCounted`). A call that
  waits for a mutex is there to take it (`MutexCallsOK`). The two conditions are
  ones the kernel has: a task that is deleted while it holds a mutex takes it
  along, and creating another in its place zeroes the count, so tasks are created
  before the scheduler starts; and handlers use no mutex (`queue.rs:2512`). Run
  `queue_mutex` satisfies both.

The wrappers (`ObjectsProofs`):

| Theorem | States |
|---|---|
| `ObjectsInvariant` | `ObjectsSpec => []ObjectsIInv`, the inductive invariant |
| `OwnedObjectsAreAlive` | `ObjectsSpec => []OwnersAreAlive` |
| `NoBlockIsLostOrShared` | `ObjectsSpec => []MemoryIsAccountedFor` |
| `NothingIsLeaked` | `ObjectsSpec => LeaksAreDeliberate`, an action property |
| `CommandsFindTimers` | `~CallbacksRearm` implies `ObjectsSpec => []CommandsReachTimers` |

`ObjectsIInv` says who owns each object and that there is one (`OwnersOK`, for
raw handles `RawOK`), that a command in the queue is about a timer nobody will
free before it (`CommandsOK`, `CallbackOK`, `BusyOK`, `PlacedOK`), and that the
blocks of the heap are partitioned (`BlocksOK`). The condition of the last theorem
is the finding `timer_rearm`: without it the property is false.

The ports (`PortsProofs`), for every set of tasks, whichever of them use the
floating point unit, every depth of critical sections and of interrupts; all that
`PortsAssumption` says is that `main` is no task and what the types of the
constants are:

| Theorem | States |
|---|---|
| `PortsInvariance` | `PortsSpec => []PortsInv`, the inductive invariant |
| `ContextsAreKept` | `PortsSpec => []ContextKept` |
| `InterruptsAreKnown` | `PortsSpec => []InsideInterruptKnown` |
| `PortsImplementProcessor` | `PortsSpec => ImplementsProcessor`, the refinement |

That a task goes on with its context is not inductive: while it is interrupted or
switched out, its values are elsewhere, and where depends on the port and on how
far the handlers have come. `PortsInv` says where. `Control` is common to the
ports: only the outermost handler switches tasks, a handler inside the kernel or a
task in a critical section is interrupted by nothing but handlers that do not
call the kernel, and the interrupts are masked in these cases and, but for
RISC-V, only then. Each port adds

* where the nesting count is: one counter on the Cortex-M, which works because
  no task but the current one can be in a section (`OneNesting`), one per context
  on the others (`OwnNesting`);
* where the registers are (`OwnRegs`, `OwnRegsA`): PendSV of the Cortex-M has
  picked the next task before it restores its registers (`Switching`);
* where the floating point values are: on the Cortex-M4F half of them in the
  frame of the first interrupt and half still in the unit until PendSV saves
  those (`OwnFpuM4F`), on the Cortex-A9 the half that handlers use in the frame
  and the other in the unit (`OwnFpuA9`), on the Cortex-A53 all in the frame
  (`OwnFpuA53`), or saved with the context (`SavedFpu`);
* what handlers find: interrupts unmasked (`FoundUnmasked`), how deep they are
  nested and no switch left over (`Nested`, `OffA9`, `OffA53`), on RISC-V
  interrupts that stay off from the trap until a context is restored (`Trapped`).

The proof has one lemma per action and port, over lemmas that all ports or those
of one kind share: `HandlersMoved` and the lemmas around it say what a change of
one frame is to `Processor`, the `CM` and `CA` lemmas what each kind of step
keeps. Every one shows both that the invariant is kept and that the step is one
of `Processor` or a stutter (`StepOK`). TLC has checked `PortsInv` on the instance
of run `ports` and with `Nesting` all six ports.

Only model-checked are:

* `RoundRobin` and `DelaysEnd`, liveness under fairness, which is beyond the
  prover;
* `HolderInherits`, `InheritsFromTaker`, `NoLostWakeup`, `WaitEndsWithTime`,
  `SetCountsItems` and `TimeIsKept` of `Queue`: their proofs need invariants that
  are not yet stated;
* `NotifiedIsAwake`, `WaitersAreWoken`, `ImplementsStream` and
  `ReceivedIsRemoved`: notifications set bits with the `|` of the module
  `Bitwise`, which is recursive, and which modules with proofs therefore cannot
  use;
* `ListedWhenDue`, `WakesForTimers`, `CalledWhenDue`; `SleepEndsInTime`, `SleepKeepsTime`;
  `HeapIsSound`, `ImplementsAllocator`: not yet attempted.

## 5. Not modelled

* Scheduler: `vTaskDelete` and `vTaskSuspend` before the scheduler starts,
  `vTaskEndScheduler`, `xTaskCatchUpTicks`, failing allocations in `xTaskCreate`
  (it returns without an effect on the scheduler), static allocation, stacks, run
  time statistics, thread-local storage, task lists and the read-only queries.
  Deleting a task that is itself inside an API call is allowed where the code
  allows it; a task deleted between the two halves of its own `vTaskDelete` of a
  third one (`tasks.rs:2526`) leaks that one's memory, which is outside the
  contract of `vTaskDelete`.
* Lists: the pointers of `list.rs` and the integrity check words.
* Timers: commands sent before the scheduler starts, API calls from callbacks
  other than those of `Objects`, what a pended function does (its command takes
  its place in the queue), and the unprotected update of `ucStatus` by a task and
  the daemon.
* Tickless idle: the compensation for the time in which the timer is stopped and
  the fraction of a tick on RISC-V are zero, time stands still while the timer is
  stopped or between its being read and stopped, so that an SP804 does not expire
  between the reads of its status and its value (`cortex_a9.rs:826-829`); the two
  halves of `mtime` of RISC-V are read as one, and configurations in which
  `xMaximumPossibleSuppressedTicks` underflows are left out.
* Ports: the first interrupt comes after the first task has started; Cortex-A9 and
  Cortex-A53 tasks register their use of the floating point unit before they use
  it, on Cortex-A53 with the unit enabled, and on Cortex-A9 the application's
  handler keeps its registers; `vTaskSwitchContext` picks any task. Leaving a task
  function (`prvTaskExitError`) and `vPortEndScheduler` are not modelled.
* Wrappers: waiting inside a wrapper and the guards of mutexes, panics of the
  `assert_*` functions, the pended call of `set_from_isr` on a group that has been
  deleted, and `mem::forget`.
* Heap: the statistics other than the free bytes. The selection of an allocator,
  traces, demos and tests have no state of the kernel's own.

## 6. Plan

The modules and runs of the plan are written. What is left are proofs, in this
order:

1. `NoLostWakeup` and `TimeIsKept` of `Queue`.
2. `HeapIsSound`, and what the timer daemon does with its lists.

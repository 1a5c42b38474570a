----------------------------- MODULE Scheduler -----------------------------
(***************************************************************************)
(* The scheduler of src/src/kernel/tasks.rs on one core: application tasks *)
(* call its API, interrupts arrive between their steps.                    *)
(*                                                                         *)
(* One action is one critical section, or one stretch of code under        *)
(* vTaskSuspendAll that no interrupt handler can tell from an atomic step. *)
(* pc[t] is where task t is inside an API function, "app" when it is in    *)
(* application code; target[t] and ticks[t] are that call's parameters.    *)
(***************************************************************************)
EXTENDS Tasks

CONSTANTS
  Calls,             \* the API functions the application uses
  InitialPriorities, \* the priorities tasks may be created with
  NewPriorities,     \* the priorities given to vTaskPrioritySet
  DelayTicks,        \* the tick counts given to vTaskDelay
  Periods,           \* the periods given to xTaskDelayUntil
  MaxPendedTicks,    \* bound on xPendedTicks
  MaxSuspendNesting  \* bound on nested vTaskSuspendAll by the application

ASSUME SchedulerAssumption ==
  /\ InitialPriorities \subseteq Priorities
  /\ NewPriorities \subseteq Priorities
  /\ DelayTicks \subseteq Ticks
  /\ Periods \subseteq Ticks \ {0}
  /\ MaxPendedTicks \in Nat
  /\ MaxSuspendNesting \in Nat

VARIABLES
  os,        \* the kernel record of module Tasks
  pc,        \* where each task is inside the API
  target,    \* the task a call in progress is about
  ticks,     \* the xTicksToWait of a call in progress
  lastWake   \* the PreviousWakeTime each task keeps for xTaskDelayUntil

vars == <<os, pc, target, ticks, lastWake>>
locals == <<target, ticks, lastWake>>

SchedulerInit ==
  /\ os = KernelInit
  /\ pc = [t \in Tasks |-> "none"]
  /\ target = [t \in Tasks |-> t]
  /\ ticks = [t \in Tasks |-> 0]
  /\ lastWake = [t \in Tasks |-> configINITIAL_TICK_COUNT]

\* The processor executes instructions of task t: interrupts are enabled and
\* no context switch is pending.
Running(t) ==
  /\ os.running
  /\ os.stage = "run"
  /\ ~os.pendSV
  /\ os.current = t

InterruptsEnabled == os.running /\ os.stage = "run"

At(t, p) == Running(t) /\ pc[t] = p

\* Task t is in application code and calls the API function named call.
MayCall(t, call) == call \in Calls /\ At(t, "app") /\ t # Idle

Goto(t, p) == pc' = [pc EXCEPT ![t] = p]

\* The tasks an application holds a valid handle of; it leaves the idle task
\* alone.
Handles ==
  {x \in Tasks \ {Idle} : pc[x] \notin {"none", "deleteYield", "deleted"}}
-----------------------------------------------------------------------------
(* Before the scheduler runs: main() creates tasks and starts it.          *)

CreateBeforeStart(t, p) ==
  /\ ~os.running
  /\ pc[t] = "none" /\ t # Idle
  /\ os' = prvAddNewTaskToReadyList(prvInitialiseNewTask(os, t, p), t)
  /\ Goto(t, "app")
  /\ UNCHANGED locals

\* The idle task is created last, and the current task starts to run.
prvCreateIdleTasks(k) ==
  prvAddNewTaskToReadyList(prvInitialiseNewTask(k, Idle, 0), Idle)

vTaskStartScheduler ==
  /\ ~os.running
  /\ os' = [prvCreateIdleTasks(os)
              EXCEPT !.nextUnblock = portMAX_DELAY,
                     !.running     = TRUE,
                     !.tick        = configINITIAL_TICK_COUNT]
  /\ Goto(Idle, "app")
  /\ UNCHANGED locals
-----------------------------------------------------------------------------
(* Interrupts, the context switch, and the loops run with them masked.     *)

\* The tick handler; a suspended scheduler only counts the tick.
TickISR ==
  /\ InterruptsEnabled
  /\ IF os.suspended = 0
       THEN os' = IncrementTick(os, "unblockISR")
       ELSE /\ os.pendedTicks < MaxPendedTicks
            /\ os' = [os EXCEPT !.pendedTicks = @ + 1]
  /\ UNCHANGED <<pc, locals>>

ContextSwitch ==
  /\ InterruptsEnabled
  /\ os.pendSV
  /\ os' = vTaskSwitchContext([os EXCEPT !.pendSV = FALSE])
  /\ UNCHANGED <<pc, locals>>

DrainPendingReady ==
  /\ os.stage = "drain"
  /\ ~IsEmpty(os, xPendingReadyList)
  /\ os' = MovePendingReady(os)
  /\ UNCHANGED <<pc, locals>>

FinishPendingReady ==
  /\ os.stage = "drain"
  /\ IsEmpty(os, xPendingReadyList)
  /\ os' = EndPendingReady(os)
  /\ UNCHANGED <<pc, locals>>

ProcessPendedTick ==
  /\ os.stage = "ticks"
  /\ os.pendedTicks > 0
  /\ os' = IncrementTick(os, "unblock")
  /\ UNCHANGED <<pc, locals>>

\* Mutant: pended ticks may be left.
FinishResumeAllEarly ==
  /\ os.stage = "ticks"
  /\ os' = EndResumeAll(os)
  /\ UNCHANGED <<pc, locals>>

FinishResumeAll ==
  /\ os.stage = "ticks"
  /\ os.pendedTicks = 0
  /\ os' = EndResumeAll(os)
  /\ UNCHANGED <<pc, locals>>

UnblockDelayed ==
  /\ os.stage \in {"unblock", "unblockISR"}
  /\ os' = UnblockExpired(os)
  /\ UNCHANGED <<pc, locals>>

MaskedStep == \/ DrainPendingReady \/ FinishPendingReady
              \/ ProcessPendedTick \/ FinishResumeAll
              \/ UnblockDelayed
-----------------------------------------------------------------------------
(* Calls of xTaskResumeAll inside the API, and what follows their return.  *)

\* The caller yields afterwards unless xTaskResumeAll already has.
ResumeThenYield(t) ==
  /\ At(t, "resumeThenYield")
  /\ os' = xTaskResumeAll(os)
  /\ Goto(t, "yieldUnlessYielded")
  /\ UNCHANGED locals

YieldUnlessYielded(t) ==
  /\ At(t, "yieldUnlessYielded")
  /\ os' = YieldIf([os EXCEPT !.yielded[t] = FALSE], ~os.yielded[t])
  /\ Goto(t, "app")
  /\ UNCHANGED locals

ResumeThenReturn(t) ==
  /\ At(t, "resumeThenReturn")
  /\ os' = xTaskResumeAll(os)
  /\ Goto(t, "app")
  /\ UNCHANGED locals
-----------------------------------------------------------------------------
(* Delays.                                                                 *)

\* Both assert that the scheduler is not suspended: their callers see to it.
vTaskDelay(t, n) ==
  /\ MayCall(t, "vTaskDelay")
  /\ os.suspended = 0
  /\ IF n > 0
       THEN os' = vTaskSuspendAll(os) /\ Goto(t, "delay")
       ELSE os' = portYIELD(os) /\ UNCHANGED pc
  /\ ticks' = [ticks EXCEPT ![t] = n]
  /\ UNCHANGED <<target, lastWake>>

DelayBlocks(t) ==
  /\ At(t, "delay")
  /\ os' = prvAddCurrentTaskToDelayedList(os, ticks[t], FALSE)
  /\ Goto(t, "resumeThenYield")
  /\ ticks' = [ticks EXCEPT ![t] = 0]
  /\ UNCHANGED <<target, lastWake>>

xTaskDelayUntil(t, period) ==
  /\ MayCall(t, "xTaskDelayUntil")
  /\ os.suspended = 0
  /\ os' = vTaskSuspendAll(os)
  /\ Goto(t, "delayUntil")
  /\ ticks' = [ticks EXCEPT ![t] = period]
  /\ UNCHANGED <<target, lastWake>>

\* Whether the wake time lies ahead of the tick count now, with either of
\* them possibly past the wrap of the tick count.
WakeIsAhead(now, previous, wake) ==
  IF now < previous
    THEN wake < previous /\ wake > now
    ELSE wake < previous \/ wake > now

DelayUntilBlocks(t) ==
  LET wake == WrappingAdd(lastWake[t], ticks[t])
      n    == WrappingSub(wake, os.tick)
  IN  /\ At(t, "delayUntil")
      /\ os' = IF WakeIsAhead(os.tick, lastWake[t], wake)
                 THEN prvAddCurrentTaskToDelayedList(os, n, FALSE)
                 ELSE os
      /\ lastWake' = [lastWake EXCEPT ![t] = wake]
      /\ ticks' = [ticks EXCEPT ![t] = 0]
      /\ Goto(t, "resumeThenYield")
      /\ UNCHANGED target
-----------------------------------------------------------------------------
(* Yielding and suspending the scheduler from application code.            *)

taskYIELD(t) ==
  /\ MayCall(t, "taskYIELD")
  /\ os' = portYIELD(os)
  /\ UNCHANGED <<pc, locals>>

SuspendScheduler(t) ==
  /\ MayCall(t, "vTaskSuspendAll")
  /\ os.suspended < MaxSuspendNesting
  /\ os' = vTaskSuspendAll(os)
  /\ UNCHANGED <<pc, locals>>

ResumeScheduler(t) ==
  /\ MayCall(t, "vTaskSuspendAll")
  /\ os.suspended > 0
  /\ os' = xTaskResumeAll(os)
  /\ UNCHANGED <<pc, locals>>
-----------------------------------------------------------------------------
(* Suspending and resuming a task.                                         *)

StopWaitingForNotification(k, x) ==
  [k EXCEPT !.notifyState[x] = IF @ = "waiting" THEN "notWaiting" ELSE @]

\* A task suspends itself only while the scheduler runs.
vTaskSuspend(t, x) ==
  /\ MayCall(t, "vTaskSuspend")
  /\ x = t => os.suspended = 0
  /\ os' = StopWaitingForNotification(
             AppendState(RemoveEventIfLinked(RemoveState(os, x), x),
                         xSuspendedTaskList, x), x)
  /\ target' = [target EXCEPT ![t] = x]
  /\ Goto(t, "suspendReset")
  /\ UNCHANGED <<ticks, lastWake>>

SuspendResetsUnblockTime(t) ==
  /\ At(t, "suspendReset")
  /\ os' = prvResetNextTaskUnblockTime(os)
  /\ Goto(t, "suspendYield")
  /\ UNCHANGED locals

SuspendYields(t) ==
  /\ At(t, "suspendYield")
  /\ os' = YieldIf(os, target[t] = os.current)
  /\ target' = [target EXCEPT ![t] = t]
  /\ Goto(t, "app")
  /\ UNCHANGED <<ticks, lastWake>>

prvTaskIsTaskSuspended(k, x) ==
  /\ k.stateList[x] = xSuspendedTaskList
  /\ k.eventList[x] = NoList
  /\ k.notifyState[x] # "waiting"

\* Mutant: the resumed task does not preempt the caller.
ResumeWithoutYield(t, x) ==
  /\ MayCall(t, "vTaskResume")
  /\ x # t
  /\ prvTaskIsTaskSuspended(os, x)
  /\ os' = prvAddTaskToReadyList(RemoveState(os, x), x)
  /\ UNCHANGED <<pc, locals>>

vTaskResume(t, x) ==
  /\ MayCall(t, "vTaskResume")
  /\ x # t
  /\ prvTaskIsTaskSuspended(os, x)
  /\ os' = YieldIf(prvAddTaskToReadyList(RemoveState(os, x), x),
                   os.prio[x] > os.prio[os.current])
  /\ UNCHANGED <<pc, locals>>

\* The handler that makes the call may pass the result to portYIELD_FROM_ISR.
xTaskResumeFromISR(x) ==
  LET higher == os.prio[x] > os.prio[os.current]
  IN  /\ "xTaskResumeFromISR" \in Calls
      /\ InterruptsEnabled
      /\ prvTaskIsTaskSuspended(os, x)
      /\ IF os.suspended = 0
           THEN \E yields \in {FALSE, higher} :
                  os' = YieldIf(prvAddTaskToReadyList(
                                  RemoveState(PendYieldIf(os, higher), x), x),
                                yields)
           ELSE os' = AppendEvent(os, xPendingReadyList, x)
      /\ UNCHANGED <<pc, locals>>
-----------------------------------------------------------------------------
(* Changing a priority.                                                    *)

\* Mutant: a ready task stays in its old ready list.
PrioritySetUnmoved(t, x, p) ==
  /\ MayCall(t, "vTaskPrioritySet")
  /\ p # os.basePrio[x]
  /\ os' = portYIELD([os EXCEPT !.prio[x]       = p,
                                !.basePrio[x]   = p,
                                !.eventValue[x] = configMAX_PRIORITIES - p])
  /\ UNCHANGED <<pc, locals>>

vTaskPrioritySet(t, x, p) ==
  LET base    == os.basePrio[x]
      effective == IF base = os.prio[x] \/ p > os.prio[x] THEN p ELSE os.prio[x]
      yields  == IF p > base THEN x # t /\ p > os.prio[t] ELSE x = t
      changed == [os EXCEPT !.prio[x]       = effective,
                            !.basePrio[x]   = p,
                            !.eventValue[x] = configMAX_PRIORITIES - p]
      moved   == IF IsReady(os, x)
                   THEN prvAddTaskToReadyList(RemoveState(changed, x), x)
                   ELSE changed
  IN  /\ MayCall(t, "vTaskPrioritySet")
      /\ p # base
      /\ os' = YieldIf(moved, yields)
      /\ UNCHANGED <<pc, locals>>
-----------------------------------------------------------------------------
(* Forcing a task out of the Blocked state.                                *)

\* eTaskGetState(x) = eBlocked
IsBlocked(k, x) ==
  /\ x # k.current
  /\ k.eventList[x] # xPendingReadyList
  /\ \/ k.stateList[x] \in {xDelayedTaskList1, xDelayedTaskList2}
     \/ /\ k.stateList[x] = xSuspendedTaskList
        /\ k.eventList[x] # NoList \/ k.notifyState[x] = "waiting"

xTaskAbortDelay(t, x) ==
  /\ MayCall(t, "xTaskAbortDelay")
  /\ os' = vTaskSuspendAll(os)
  /\ target' = [target EXCEPT ![t] = x]
  /\ Goto(t, "abort")
  /\ UNCHANGED <<ticks, lastWake>>

AbortUnlinksState(t) ==
  /\ At(t, "abort")
  /\ IF IsBlocked(os, target[t])
       THEN os' = RemoveState(os, target[t]) /\ Goto(t, "abortEvent")
       ELSE UNCHANGED os /\ Goto(t, "resumeThenReturn")
  /\ UNCHANGED locals

\* Mutant: the event list item is unlinked without a look at its container.
AbortUnlinksEventBlindly(t) ==
  LET x == target[t]
  IN  /\ At(t, "abortEvent")
      /\ os' = PendYieldIf(prvAddTaskToReadyList(RemoveEvent(os, x), x),
                           os.prio[x] > os.prio[os.current])
      /\ target' = [target EXCEPT ![t] = t]
      /\ Goto(t, "resumeThenReturn")
      /\ UNCHANGED <<ticks, lastWake>>

AbortMakesReady(t) ==
  LET x       == target[t]
      aborted == IF os.eventList[x] = NoList
                   THEN os
                   ELSE [RemoveEvent(os, x) EXCEPT !.delayAborted[x] = TRUE]
  IN  /\ At(t, "abortEvent")
      /\ os' = PendYieldIf(prvAddTaskToReadyList(aborted, x),
                           os.prio[x] > os.prio[os.current])
      /\ target' = [target EXCEPT ![t] = t]
      /\ Goto(t, "resumeThenReturn")
      /\ UNCHANGED <<ticks, lastWake>>
-----------------------------------------------------------------------------
(* Creating and deleting tasks while the scheduler runs.                   *)

xTaskCreate(t, x, p) ==
  /\ MayCall(t, "xTaskCreate")
  /\ pc[x] = "none" /\ x # Idle
  /\ os' = prvAddNewTaskToReadyList(prvInitialiseNewTask(os, x, p), x)
  /\ pc' = [pc EXCEPT ![t] = "createYield", ![x] = "app"]
  /\ target' = [target EXCEPT ![t] = x]
  /\ lastWake' = [lastWake EXCEPT ![x] = os.tick]
  /\ UNCHANGED ticks

\* The comparison reads the new TCB outside the critical section: once that
\* task has been deleted and freed, whatever its memory then holds.
CreateYields(t) ==
  /\ At(t, "createYield")
  /\ \E yields \in IF pc[target[t]] = "none"
                     THEN BOOLEAN
                     ELSE {os.prio[os.current] < os.prio[target[t]]} :
       os' = YieldIf(os, yields)
  /\ target' = [target EXCEPT ![t] = t]
  /\ Goto(t, "app")
  /\ UNCHANGED <<ticks, lastWake>>

\* A task that deletes itself is left to the idle task.
vTaskDelete(t, x) ==
  LET unlinked == RemoveEventIfLinked(RemoveState(os, x), x)
  IN  /\ MayCall(t, "vTaskDelete")
      /\ x = t => os.suspended = 0
      /\ os' = IF x = os.current
                 THEN [AppendState(unlinked, xTasksWaitingTermination, x) EXCEPT
                         !.numDeleted = @ + 1, !.yieldPending = TRUE]
                 ELSE prvResetNextTaskUnblockTime(
                        [unlinked EXCEPT !.numTasks = @ - 1])
      /\ pc' = IF x = t THEN [pc EXCEPT ![t] = "deleteYield"]
                        ELSE [pc EXCEPT ![t] = "deleteFree", ![x] = "deleted"]
      /\ target' = [target EXCEPT ![t] = x]
      /\ UNCHANGED <<ticks, lastWake>>

\* What a call in progress of a freed task leaves behind is forgotten.
Forget(f, x, v) == [f EXCEPT ![x] = v]

DeleteFrees(t) ==
  LET x == target[t]
  IN  /\ At(t, "deleteFree")
      /\ pc' = [pc EXCEPT ![t] = "app", ![x] = "none"]
      /\ target' = [target EXCEPT ![t] = t, ![x] = x]
      /\ ticks' = Forget(ticks, x, 0)
      /\ lastWake' = Forget(lastWake, x, configINITIAL_TICK_COUNT)
      /\ UNCHANGED os

DeleteYields(t) ==
  /\ At(t, "deleteYield")
  /\ os' = portYIELD(configASSERT(os, os.suspended = 0))
  /\ Goto(t, "deleted")
  /\ UNCHANGED locals
-----------------------------------------------------------------------------
(* The idle task: it frees deleted tasks, then lets its peers run.         *)

\* Mutant: the freed TCB stays linked.
TerminationStaysLinked ==
  LET x == HeadOf(os, xTasksWaitingTermination)
  IN  /\ At(Idle, "app")
      /\ os.numDeleted > 0
      /\ os' = [os EXCEPT !.numTasks = @ - 1, !.numDeleted = @ - 1]
      /\ Goto(x, "none")
      /\ target' = Forget(target, x, x)
      /\ lastWake' = Forget(lastWake, x, configINITIAL_TICK_COUNT)
      /\ UNCHANGED ticks

prvCheckTasksWaitingTermination ==
  LET x == HeadOf(os, xTasksWaitingTermination)
  IN  /\ At(Idle, "app")
      /\ os.numDeleted > 0
      /\ os' = [RemoveState(os, x) EXCEPT !.numTasks = @ - 1,
                                          !.numDeleted = @ - 1]
      /\ Goto(x, "none")
      /\ target' = Forget(target, x, x)
      /\ lastWake' = Forget(lastWake, x, configINITIAL_TICK_COUNT)
      /\ UNCHANGED ticks

\* A task may have been deleted since the loop above ended.
IdleYields ==
  /\ At(Idle, "app")
  /\ LengthOf(os, 0) > 1
  /\ os' = portYIELD(os)
  /\ UNCHANGED <<pc, locals>>
-----------------------------------------------------------------------------
(* The specification.                                                      *)

\* A task inside an API function goes on.
Continue(t) ==
  \/ ResumeThenYield(t) \/ YieldUnlessYielded(t) \/ ResumeThenReturn(t)
  \/ DelayBlocks(t) \/ DelayUntilBlocks(t)
  \/ SuspendResetsUnblockTime(t) \/ SuspendYields(t)
  \/ AbortUnlinksState(t) \/ AbortMakesReady(t)
  \/ CreateYields(t) \/ DeleteFrees(t) \/ DeleteYields(t)

\* A task in application code calls an API function.
Call(t) ==
  \/ \E n \in DelayTicks : vTaskDelay(t, n)
  \/ \E n \in Periods : xTaskDelayUntil(t, n)
  \/ taskYIELD(t) \/ SuspendScheduler(t) \/ ResumeScheduler(t)
  \/ \E x \in Handles :
       \/ vTaskSuspend(t, x) \/ vTaskResume(t, x)
       \/ xTaskAbortDelay(t, x) \/ vTaskDelete(t, x)
       \/ \E p \in NewPriorities : vTaskPrioritySet(t, x, p)
  \/ \E x \in Tasks, p \in InitialPriorities : xTaskCreate(t, x, p)

IdleStep == prvCheckTasksWaitingTermination \/ IdleYields

Interrupt == TickISR \/ \E x \in Handles : xTaskResumeFromISR(x)

Start == \/ \E t \in Tasks, p \in InitialPriorities : CreateBeforeStart(t, p)
         \/ vTaskStartScheduler

SchedulerNext ==
  \/ Start \/ Interrupt \/ ContextSwitch \/ MaskedStep \/ IdleStep
  \/ \E t \in Tasks : Call(t) \/ Continue(t)

SchedulerSpec == SchedulerInit /\ [][SchedulerNext]_vars
-----------------------------------------------------------------------------
(* Properties.                                                             *)

Locations ==
  {"none", "app", "delay", "delayUntil", "resumeThenYield",
   "yieldUnlessYielded", "resumeThenReturn", "suspendReset", "suspendYield",
   "abort", "abortEvent", "createYield", "deleteFree", "deleteYield",
   "deleted"}

\* Every variable keeps its type.
TypeOK ==
  /\ os \in Kernel
  /\ pc \in [Tasks -> Locations]
  /\ target \in [Tasks -> Tasks]
  /\ ticks \in [Tasks -> Ticks]
  /\ lastWake \in [Tasks -> Ticks]

\* The pxContainer pointers and the lists agree, also while tasks are created,
\* moved, aborted, deleted and freed: an item is in the list its container names,
\* once, and in no other.
ListsConsistent == Consistent(os)

\* No configASSERT of the kernel fails and no unlinked item is unlinked.
NoAssertFails == ~os.fault

\* A task in a ready list is in the one of its own current priority.
ReadyAtOwnPriority ==
  \A t \in Tasks : os.stateList[t] \in Priorities => os.stateList[t] = os.prio[t]

SortedByWake(k, l) ==
  LET s == k.lists[l].items
  IN  \A i, j \in 1..Len(s) : i < j => k.wake[s[i]] <= k.wake[s[j]]

\* Wake times before the tick count wraps are in the delayed list and those
\* after it in the overflow list, in order; and once a tick is processed no
\* expired task is left blocked.
DelayedListsSplit ==
  LET d == os.delayed
      o == pxOverflowDelayedTaskList(os)
  IN  /\ SortedByWake(os, d) /\ SortedByWake(os, o)
      /\ \A t \in ItemsOf(os, o) : os.wake[t] <= os.tick
      /\ \A t \in ItemsOf(os, d) :
           IF os.stage \in {"unblock", "unblockISR"}
             THEN os.wake[t] >= os.tick
             ELSE os.wake[t] > os.tick

\* xNextTaskUnblockTime is never later than the first wake time: a tick that
\* skips the delayed list skips no expired task.
NextUnblockNotLate ==
  os.running =>
    \A t \in ItemsOf(os, os.delayed) : os.nextUnblock <= os.wake[t]

\* A tick finds every delayed task that is due.
DelayedTasksFound == DelayedListsSplit /\ NextUnblockNotLate

\* No ready list above uxTopReadyPriority holds a task, so that the search of
\* a context switch misses none.
TopReadyCoversReady ==
  \A p \in Priorities : ~IsEmpty(os, p) => p <= os.topReady

\* The search of a context switch, from uxTopReadyPriority down, comes upon every
\* ready task, and in the order of the priorities.
ReadyTasksFound == ReadyAtOwnPriority /\ TopReadyCoversReady

\* With the scheduler running and no switch pending, no ready task has a
\* higher priority than the task that executes, but for the new task between
\* the critical section of xTaskCreate and its comparison of priorities.
HighestPriorityRuns ==
  InterruptsEnabled /\ os.suspended = 0 /\ ~os.pendSV /\ ~os.yieldPending =>
    \A t \in Tasks :
      IsReady(os, t) /\ os.prio[t] > os.prio[os.current] =>
        pc[os.current] = "createYield" /\ target[os.current] = t

\* What is deferred by a suspended scheduler is not left behind: pended ticks
\* and tasks pending ready only exist until xTaskResumeAll returns.
NothingLeftPending ==
  os.stage = "run" /\ os.suspended = 0 =>
    os.pendedTicks = 0 /\ IsEmpty(os, xPendingReadyList)

\* The ticks a task still has to block, read off the delayed lists.
TicksLeft ==
  [t \in Tasks |->
     IF os.stateList[t] = os.delayed THEN os.wake[t] - os.tick
     ELSE IF os.stateList[t] = pxOverflowDelayedTaskList(os)
       THEN os.wake[t] + portMAX_DELAY + 1 - os.tick
       ELSE 0]

Blocking == INSTANCE BlockingTime WITH left <- TicksLeft,
                                       MaxTicks <- portMAX_DELAY

\* The two delayed lists and the wrapping tick count implement plain counting
\* down: no block is shortened or lengthened by the wrap of the tick count, the
\* exchange of the lists or ticks that were pended.
CountsDown == Blocking!Spec
-----------------------------------------------------------------------------
(* Liveness.  main() starts the scheduler.  The tick interrupt keeps        *)
(* coming; a pended switch is taken when no handler is active, and the task *)
(* that has the processor executes: both are interrupted again and again,   *)
(* by handlers that return.                                                 *)

Fairness ==
  /\ WF_vars(vTaskStartScheduler)
  /\ WF_vars(TickISR) /\ WF_vars(MaskedStep)
  /\ SF_vars(ContextSwitch)
  /\ \A t \in Tasks : SF_vars(Continue(t))

FairSpec == SchedulerSpec /\ Fairness

\* Time slicing: a task that stays ready gets the processor again and again as
\* long as no ready task has a higher priority.
RoundRobin ==
  \A t \in Tasks :
    []<>(\/ ~IsReady(os, t)
         \/ os.current = t
         \/ \E u \in Tasks : IsReady(os, u) /\ os.prio[u] > os.prio[t])

\* A task in a delayed list leaves it.
DelaysEnd ==
  \A t \in Tasks :
    os.stateList[t] \in {xDelayedTaskList1, xDelayedTaskList2} ~>
      os.stateList[t] \notin {xDelayedTaskList1, xDelayedTaskList2}
=============================================================================

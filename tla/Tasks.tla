------------------------------- MODULE Tasks -------------------------------
(***************************************************************************)
(* The kernel state of src/src/kernel/tasks.rs and its internal functions. *)
(*                                                                         *)
(* The globals and the fields of the TCBs are the fields of one record k;  *)
(* a function of the source that changes them is an operator from the old  *)
(* record to the new one, so that a handler which calls several of them is *)
(* their composition, in the order of the calls.                           *)
(*                                                                         *)
(* A list is named by an integer: the ready list of priority p by p, the   *)
(* others by the negative numbers below.  stateList[t] and eventList[t]    *)
(* are the pxContainer pointers of the two list items of task t.           *)
(***************************************************************************)
EXTENDS Lists

CONSTANTS
  Tasks,                      \* every TCB that can exist
  Idle,                       \* the idle task
  NoTask,                     \* the null TCB pointer
  EventLists,                 \* the wait lists of queues, event groups, ...
  configMAX_PRIORITIES,
  portMAX_DELAY,              \* 2^w - 1: the last value of a TickType_t
  configINITIAL_TICK_COUNT,
  configUSE_TICKLESS_IDLE,    \* the "tickless-idle" feature
  MaxOverflows,               \* xNumOfOverflows wraps after this value
  MaxNotifyValue              \* a notification value wraps after this value

xDelayedTaskList1        == -1
xDelayedTaskList2        == -2
xPendingReadyList        == -3
xSuspendedTaskList       == -4
xTasksWaitingTermination == -5
NoList                   == -6

Priorities == 0..(configMAX_PRIORITIES - 1)
Ticks      == 0..portMAX_DELAY
StateLists == Priorities \cup {xDelayedTaskList1, xDelayedTaskList2,
                               xSuspendedTaskList, xTasksWaitingTermination}
ItemLists  == EventLists \cup {xPendingReadyList}
Lists      == StateLists \cup ItemLists

ASSUME TasksAssumption ==
  /\ Idle \in Tasks
  /\ NoTask \notin Tasks
  /\ \A l \in EventLists : l \in Int /\ l < NoList
  /\ configMAX_PRIORITIES \in Nat \ {0}
  /\ portMAX_DELAY \in Nat /\ configMAX_PRIORITIES <= portMAX_DELAY
  /\ configINITIAL_TICK_COUNT \in Ticks
  /\ configUSE_TICKLESS_IDLE \in BOOLEAN
  /\ MaxOverflows \in Nat
  /\ MaxNotifyValue \in Nat

NotifyStates == {"notWaiting", "waiting", "received"}

(***************************************************************************)
(* stage: what the processor is doing.  "run" is ordinary execution.  The  *)
(* other stages are the loops of xTaskResumeAll and xTaskIncrementTick,    *)
(* which run with interrupts masked: "drain" empties xPendingReadyList,    *)
(* "ticks" processes xPendedTicks, "unblock" and "unblockISR" wake the     *)
(* tasks a tick expires, called from xTaskResumeAll and from the tick      *)
(* interrupt.  "masked" is a loop inside a critical section of another     *)
(* part of the kernel.  moved and switchReq are pxMovedTCB and             *)
(* xSwitchRequired of these functions, yielded[t] the xAlreadyYielded that *)
(* t was returned, pendSV the port's pending context switch.  fault        *)
(* records a failed configASSERT and an uxListRemove of an unlinked item.  *)
(***************************************************************************)
Stages == {"run", "drain", "ticks", "unblock", "unblockISR", "masked"}

Kernel ==
  [lists        : [Lists -> ListOf(Tasks)],
   stateList    : [Tasks -> StateLists \cup {NoList}],
   eventList    : [Tasks -> ItemLists \cup {NoList}],
   wake         : [Tasks -> Ticks],
   eventValue   : [Tasks -> 1..configMAX_PRIORITIES],
   prio         : [Tasks -> Priorities],
   basePrio     : [Tasks -> Priorities],
   mutexesHeld  : [Tasks -> Nat],
   notifyState  : [Tasks -> NotifyStates],
   notifyValue  : [Tasks -> 0..MaxNotifyValue],
   delayAborted : [Tasks -> BOOLEAN],
   current      : Tasks \cup {NoTask},
   running      : BOOLEAN,
   tick         : Ticks,
   nextUnblock  : Ticks,
   overflows    : 0..MaxOverflows,
   delayed      : {xDelayedTaskList1, xDelayedTaskList2},
   topReady     : Priorities,
   pendedTicks  : Nat,
   yieldPending : BOOLEAN,
   suspended    : Nat,
   numTasks     : Int,
   numDeleted   : Int,
   pendSV       : BOOLEAN,
   stage        : Stages,
   moved        : BOOLEAN,
   switchReq    : BOOLEAN,
   yielded      : [Tasks -> BOOLEAN],
   fault        : BOOLEAN]

\* The globals as they are initialised, before the first task is created.
KernelInit ==
  [lists        |-> [l \in Lists |-> vListInitialise],
   stateList    |-> [t \in Tasks |-> NoList],
   eventList    |-> [t \in Tasks |-> NoList],
   wake         |-> [t \in Tasks |-> 0],
   eventValue   |-> [t \in Tasks |-> configMAX_PRIORITIES],
   prio         |-> [t \in Tasks |-> 0],
   basePrio     |-> [t \in Tasks |-> 0],
   mutexesHeld  |-> [t \in Tasks |-> 0],
   notifyState  |-> [t \in Tasks |-> "notWaiting"],
   notifyValue  |-> [t \in Tasks |-> 0],
   delayAborted |-> [t \in Tasks |-> FALSE],
   current      |-> NoTask,
   running      |-> FALSE,
   tick         |-> configINITIAL_TICK_COUNT,
   nextUnblock  |-> 0,
   overflows    |-> 0,
   delayed      |-> xDelayedTaskList1,
   topReady     |-> 0,
   pendedTicks  |-> 0,
   yieldPending |-> FALSE,
   suspended    |-> 0,
   numTasks     |-> 0,
   numDeleted   |-> 0,
   pendSV       |-> FALSE,
   stage        |-> "run",
   moved        |-> FALSE,
   switchReq    |-> FALSE,
   yielded      |-> [t \in Tasks |-> FALSE],
   fault        |-> FALSE]
-----------------------------------------------------------------------------
(* Asserts, and linking and unlinking the two list items of a task.        *)

configASSERT(k, cond) == [k EXCEPT !.fault = @ \/ ~cond]

IsEmpty(k, l)   == listLIST_IS_EMPTY(k.lists[l])
HeadOf(k, l)    == listGET_OWNER_OF_HEAD_ENTRY(k.lists[l])
LengthOf(k, l)  == Len(k.lists[l].items)
ItemsOf(k, l)   == ToSet(k.lists[l].items)
IsReady(k, t)   == k.stateList[t] = k.prio[t]

\* The pxContainer pointers and the lists agree: an item is in the list its
\* container names, once, and in no other.
Consistent(k) ==
  /\ \A l \in StateLists : ItemsOf(k, l) = {t \in Tasks : k.stateList[t] = l}
  /\ \A l \in ItemLists : ItemsOf(k, l) = {t \in Tasks : k.eventList[t] = l}
  /\ \A l \in Lists : IsInjective(k.lists[l].items)

AppendState(k, l, t) ==
  [k EXCEPT !.lists[l] = vListInsertEnd(@, t), !.stateList[t] = l]

InsertState(k, l, t) ==
  [k EXCEPT !.lists[l] = vListInsert(@, t, k.wake, portMAX_DELAY),
            !.stateList[t] = l]

AppendEvent(k, l, t) ==
  [k EXCEPT !.lists[l] = vListInsertEnd(@, t), !.eventList[t] = l]

InsertEvent(k, l, t) ==
  [k EXCEPT !.lists[l] = vListInsert(@, t, k.eventValue, portMAX_DELAY),
            !.eventList[t] = l]

\* The item value of an unlinked state item is dead: it is forgotten.
RemoveState(k, t) ==
  IF k.stateList[t] = NoList
    THEN configASSERT(k, FALSE)
    ELSE [k EXCEPT !.lists[k.stateList[t]] = uxListRemove(@, t),
                   !.stateList[t] = NoList,
                   !.wake[t] = 0]

RemoveEvent(k, t) ==
  IF k.eventList[t] = NoList
    THEN configASSERT(k, FALSE)
    ELSE [k EXCEPT !.lists[k.eventList[t]] = uxListRemove(@, t),
                   !.eventList[t] = NoList]

RemoveEventIfLinked(k, t) ==
  IF k.eventList[t] = NoList THEN k ELSE RemoveEvent(k, t)
-----------------------------------------------------------------------------
(* Ready lists, delayed lists and the next unblock time.                   *)

portYIELD(k) == [k EXCEPT !.pendSV = TRUE]

YieldIf(k, cond) == IF cond THEN portYIELD(k) ELSE k

PendYieldIf(k, cond) == [k EXCEPT !.yieldPending = @ \/ cond]

prvAddTaskToReadyList(k, t) ==
  [AppendState(k, k.prio[t], t) EXCEPT
     !.topReady = IF k.prio[t] > @ THEN k.prio[t] ELSE @]

pxOverflowDelayedTaskList(k) ==
  IF k.delayed = xDelayedTaskList1 THEN xDelayedTaskList2
                                   ELSE xDelayedTaskList1

prvResetNextTaskUnblockTime(k) ==
  [k EXCEPT !.nextUnblock = IF IsEmpty(k, k.delayed)
                              THEN portMAX_DELAY
                              ELSE k.wake[HeadOf(k, k.delayed)]]

\* Mutants: the lists are not exchanged; the unblock time is not reset.
SwitchKeepsLists(k) ==
  prvResetNextTaskUnblockTime(
    [configASSERT(k, IsEmpty(k, k.delayed)) EXCEPT
       !.overflows = IF @ = MaxOverflows THEN 0 ELSE @ + 1])

SwitchKeepsUnblockTime(k) ==
  [configASSERT(k, IsEmpty(k, k.delayed)) EXCEPT
     !.delayed   = pxOverflowDelayedTaskList(k),
     !.overflows = IF @ = MaxOverflows THEN 0 ELSE @ + 1]

taskSWITCH_DELAYED_LISTS(k) ==
  prvResetNextTaskUnblockTime(
    [configASSERT(k, IsEmpty(k, k.delayed)) EXCEPT
       !.delayed   = pxOverflowDelayedTaskList(k),
       !.overflows = IF @ = MaxOverflows THEN 0 ELSE @ + 1])

\* Mutant: the tick count does not wrap.
AddWithoutWrapping(a, b) == a + b

\* Unsigned addition of two TickType_t values.
WrappingAdd(a, b) ==
  IF a + b > portMAX_DELAY THEN a + b - (portMAX_DELAY + 1) ELSE a + b

WrappingSub(a, b) == IF a < b THEN a - b + (portMAX_DELAY + 1) ELSE a - b

\* Mutant: xNextTaskUnblockTime is not brought forward.
DelayKeepsUnblockTime(k, xTicksToWait, xCanBlockIndefinitely) ==
  LET t    == k.current
      wake == WrappingAdd(k.tick, xTicksToWait)
      k1   == RemoveState([k EXCEPT !.delayAborted[t] = FALSE], t)
      k2   == [k1 EXCEPT !.wake[t] = wake]
  IN  IF xTicksToWait = portMAX_DELAY /\ xCanBlockIndefinitely
        THEN AppendState(k1, xSuspendedTaskList, t)
      ELSE IF wake < k.tick
        THEN InsertState(k2, pxOverflowDelayedTaskList(k), t)
        ELSE InsertState(k2, k.delayed, t)

\* The current task leaves the ready list for a delayed or suspended list.
prvAddCurrentTaskToDelayedList(k, xTicksToWait, xCanBlockIndefinitely) ==
  LET t    == k.current
      wake == WrappingAdd(k.tick, xTicksToWait)
      k1   == RemoveState([k EXCEPT !.delayAborted[t] = FALSE], t)
      k2   == [k1 EXCEPT !.wake[t] = wake]
  IN  IF xTicksToWait = portMAX_DELAY /\ xCanBlockIndefinitely
        THEN AppendState(k1, xSuspendedTaskList, t)
      ELSE IF wake < k.tick
        THEN InsertState(k2, pxOverflowDelayedTaskList(k), t)
        ELSE [InsertState(k2, k.delayed, t) EXCEPT
                !.nextUnblock = IF wake < @ THEN wake ELSE @]
-----------------------------------------------------------------------------
(* Selecting the task to run.                                              *)

\* The highest non-empty ready list at or below uxTopReadyPriority.
IsTopPriority(k, p) ==
  /\ p <= k.topReady
  /\ ~IsEmpty(k, p)
  /\ \A q \in Priorities : p < q /\ q <= k.topReady => IsEmpty(k, q)

\* The loop asserts that it does not run past priority 0.
taskSELECT_HIGHEST_PRIORITY_TASK(k) ==
  IF \E p \in Priorities : IsTopPriority(k, p)
    THEN LET p == CHOOSE q \in Priorities : IsTopPriority(k, q)
             L == listNEXT_ENTRY(k.lists[p])
         IN  [k EXCEPT !.lists[p] = L,
                       !.current  = L.items[L.idx],
                       !.topReady = p]
    ELSE configASSERT(k, FALSE)

vTaskSwitchContext(k) ==
  IF k.suspended # 0
    THEN [k EXCEPT !.yieldPending = TRUE]
    ELSE taskSELECT_HIGHEST_PRIORITY_TASK([k EXCEPT !.yieldPending = FALSE])
-----------------------------------------------------------------------------
(* Suspending and resuming the scheduler, and the tick.                    *)

vTaskSuspendAll(k) == [k EXCEPT !.suspended = @ + 1]

\* Up to its first loop; the loops are the stages below.
xTaskResumeAll(k) ==
  LET k1 == [configASSERT(k, k.suspended > 0) EXCEPT
               !.suspended = @ - 1, !.yielded[k.current] = FALSE]
  IN  IF k1.suspended = 0 /\ k1.numTasks > 0
        THEN [k1 EXCEPT !.stage = "drain", !.moved = FALSE]
        ELSE k1

\* One turn of the loop over xPendingReadyList.
MovePendingReady(k) ==
  LET t  == HeadOf(k, xPendingReadyList)
      k1 == prvAddTaskToReadyList(RemoveState(RemoveEvent(k, t), t), t)
  IN  PendYieldIf([k1 EXCEPT !.moved = TRUE], k.prio[t] > k.prio[k.current])

\* The loop has ended: the unblock time is reset if a task was moved.
EndPendingReady(k) ==
  [(IF k.moved THEN prvResetNextTaskUnblockTime(k) ELSE k) EXCEPT
     !.stage = "ticks", !.moved = FALSE]

\* The pended ticks are processed: yield if one is pending, and return.
EndResumeAll(k) ==
  [YieldIf(k, k.yieldPending) EXCEPT
     !.stage = "run", !.yielded[k.current] = k.yieldPending]

\* Mutant: no time slicing between tasks of the same priority.
EndTickWithoutSlicing(k) ==
  LET switch == k.switchReq \/ k.yieldPending
      k1     == [k EXCEPT !.switchReq = FALSE]
  IN  IF k.stage = "unblockISR"
        THEN [YieldIf(k1, switch) EXCEPT !.stage = "run"]
        ELSE [PendYieldIf(k1, switch) EXCEPT !.stage = "ticks",
                                             !.pendedTicks = @ - 1]

\* After the unblocking loop: time slicing, then a yield that is pending.
EndIncrementTick(k) ==
  LET switch == \/ k.switchReq
                \/ LengthOf(k, k.prio[k.current]) > 1
                \/ k.yieldPending
      k1     == [k EXCEPT !.switchReq = FALSE]
  IN  IF k.stage = "unblockISR"
        THEN [YieldIf(k1, switch) EXCEPT !.stage = "run"]
        ELSE [PendYieldIf(k1, switch) EXCEPT !.stage = "ticks",
                                             !.pendedTicks = @ - 1]

\* xTaskIncrementTick with the scheduler running, up to the unblocking loop,
\* which is the stage st.
IncrementTick(k, st) ==
  LET now == WrappingAdd(k.tick, 1)
      k1  == [k EXCEPT !.tick = now, !.stage = st]
      k2  == IF now = 0 THEN taskSWITCH_DELAYED_LISTS(k1) ELSE k1
  IN  IF now >= k2.nextUnblock THEN k2 ELSE EndIncrementTick(k2)

\* One turn of the unblocking loop.
UnblockExpired(k) ==
  LET t == HeadOf(k, k.delayed)
  IN  IF IsEmpty(k, k.delayed)
        THEN EndIncrementTick([k EXCEPT !.nextUnblock = portMAX_DELAY])
      ELSE IF k.tick < k.wake[t]
        THEN EndIncrementTick([k EXCEPT !.nextUnblock = k.wake[t]])
        ELSE [prvAddTaskToReadyList(RemoveEventIfLinked(RemoveState(k, t), t), t)
                EXCEPT !.switchReq = @ \/ k.prio[t] > k.prio[k.current]]
-----------------------------------------------------------------------------
(* Creating tasks.                                                         *)

prvInitialiseNewTask(k, t, uxPriority) ==
  [k EXCEPT !.prio[t]         = uxPriority,
            !.basePrio[t]     = uxPriority,
            !.mutexesHeld[t]  = 0,
            !.eventValue[t]   = configMAX_PRIORITIES - uxPriority,
            !.stateList[t]    = NoList,
            !.eventList[t]    = NoList,
            !.notifyState[t]  = "notWaiting",
            !.notifyValue[t]  = 0,
            !.delayAborted[t] = FALSE]

\* The critical section; a running scheduler then compares the priorities.
prvAddNewTaskToReadyList(k, t) ==
  LET takes == \/ k.current = NoTask
               \/ ~k.running /\ k.prio[k.current] <= k.prio[t]
  IN  prvAddTaskToReadyList(
        [k EXCEPT !.numTasks = @ + 1,
                  !.current  = IF takes THEN t ELSE @], t)
=============================================================================

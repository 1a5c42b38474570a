------------------------------ MODULE Waiting ------------------------------
(***************************************************************************)
(* The services of src/src/kernel/tasks.rs for the parts of the kernel     *)
(* that make tasks wait: event lists, timeouts and priority inheritance.   *)
(* Like those of Tasks, the operators lead from a kernel record to one.    *)
(***************************************************************************)
EXTENDS Tasks

(***************************************************************************)
(* xTaskRemoveFromEventList: the task at the head of list l stops waiting. *)
(* With the scheduler suspended it becomes pending ready.  Preempts is the *)
(* value returned.                                                         *)
(***************************************************************************)
Preempts(k, t) == k.prio[t] > k.prio[k.current]

ResetUnblockIfTickless(k) ==
  IF configUSE_TICKLESS_IDLE THEN prvResetNextTaskUnblockTime(k) ELSE k

xTaskRemoveFromEventList(k, l) ==
  LET t  == HeadOf(k, l)
      k1 == RemoveEvent(k, t)
      k2 == IF k.suspended = 0
              THEN ResetUnblockIfTickless(
                     prvAddTaskToReadyList(RemoveState(k1, t), t))
              ELSE AppendEvent(k1, xPendingReadyList, t)
  IN  PendYieldIf(k2, Preempts(k, t))

\* What every caller does: wake the head of the list if there is one.
WakeOne(k, l) == IF IsEmpty(k, l) THEN k ELSE xTaskRemoveFromEventList(k, l)

WakesHigher(k, l) == ~IsEmpty(k, l) /\ Preempts(k, HeadOf(k, l))

\* Mutant: it waits a tick longer.
PlaceATickLonger(k, l, xTicksToWait) ==
  prvAddCurrentTaskToDelayedList(
    InsertEvent(k, l, k.current),
    IF xTicksToWait < portMAX_DELAY THEN xTicksToWait + 1 ELSE xTicksToWait, TRUE)

\* The current task starts to wait: in order of priority, or at the end.
vTaskPlaceOnEventList(k, l, xTicksToWait) ==
  prvAddCurrentTaskToDelayedList(InsertEvent(k, l, k.current),
                                 xTicksToWait, TRUE)

vTaskPlaceOnEventListRestricted(k, l, xTicksToWait, xWaitIndefinitely) ==
  prvAddCurrentTaskToDelayedList(
    AppendEvent(configASSERT(k, k.suspended # 0), l, k.current),
    IF xWaitIndefinitely THEN portMAX_DELAY ELSE xTicksToWait,
    xWaitIndefinitely)

\* The value put into the event list item is the caller's to keep.
vTaskPlaceOnUnorderedEventList(k, l, xTicksToWait) ==
  prvAddCurrentTaskToDelayedList(AppendEvent(k, l, k.current),
                                 xTicksToWait, TRUE)

xTaskRemoveFromUnorderedEventList(k, t) ==
  LET k1 == ResetUnblockIfTickless(
              RemoveEvent(configASSERT(k, k.suspended # 0), t))
  IN  PendYieldIf(prvAddTaskToReadyList(RemoveState(k1, t), t),
                  Preempts(k, t))
-----------------------------------------------------------------------------
(* Timeouts: when a call began to wait, and whether its time is up.        *)

NoTimeOut == [overflows |-> 0, entered |-> 0]

vTaskInternalSetTimeOutState(k) ==
  [overflows |-> k.overflows, entered |-> k.tick]

WaitedFor(k, timeOut) == WrappingSub(k.tick, timeOut.entered)

\* The time itself; portMAX_DELAY is for ever.
Expired(k, timeOut, n) ==
  /\ n # portMAX_DELAY
  /\ \/ k.overflows # timeOut.overflows /\ k.tick >= timeOut.entered
     \/ WaitedFor(k, timeOut) >= n

\* An aborted delay counts as a timeout, whatever the time is.
xTaskCheckForTimeOut(k, timeOut, n) ==
  k.delayAborted[k.current] \/ Expired(k, timeOut, n)

ClearDelayAborted(k) == [k EXCEPT !.delayAborted[k.current] = FALSE]

\* Mutant: a call that retries waits its whole time again.
WholeTimeAgain(k, timeOut, n) == n

\* The ticks left after the check, and the time they count from.
TicksLeftToWait(k, timeOut, n) ==
  IF k.delayAborted[k.current] \/ n = portMAX_DELAY THEN n
  ELSE IF Expired(k, timeOut, n) THEN 0
  ELSE n - WaitedFor(k, timeOut)

TimeOutAfterCheck(k, timeOut, n) ==
  IF xTaskCheckForTimeOut(k, timeOut, n) \/ n = portMAX_DELAY
    THEN timeOut
    ELSE vTaskInternalSetTimeOutState(k)
-----------------------------------------------------------------------------
(* Priority inheritance.                                                   *)

\* A task gets a new priority; in a ready list, it moves to the new one.
ChangePriority(k, t, p) ==
  LET k1 == [k EXCEPT !.prio[t] = p,
                      !.eventValue[t] = configMAX_PRIORITIES - p]
  IN  IF IsReady(k, t) THEN prvAddTaskToReadyList(RemoveState(k1, t), t)
                       ELSE k1

\* The holder of the mutex gets the current task's priority if that is higher.
xTaskPriorityInherit(k, holder) ==
  IF holder # NoTask /\ k.prio[holder] < k.prio[k.current]
    THEN ChangePriority(k, holder, k.prio[k.current])
    ELSE k

\* The value returned: it inherited, or had already inherited as much.
InheritanceOccurs(k, holder) ==
  /\ holder # NoTask
  /\ \/ k.prio[holder] < k.prio[k.current]
     \/ k.basePrio[holder] < k.prio[k.current]

pvTaskIncrementMutexHeldCount(k) == [k EXCEPT !.mutexesHeld[k.current] = @ + 1]

\* A task that gives its last mutex returns to its base priority; this is the
\* value returned.
Disinherits(k, holder) ==
  /\ holder # NoTask
  /\ k.prio[holder] # k.basePrio[holder]
  /\ k.mutexesHeld[holder] = 1

\* Mutant: the inherited priority is kept.
DisinheritKeepsPriority(k, holder) ==
  IF holder = NoTask THEN k ELSE [k EXCEPT !.mutexesHeld[holder] = @ - 1]

xTaskPriorityDisinherit(k, holder) ==
  IF holder = NoTask THEN k
  ELSE LET k1 == [configASSERT(k, holder = k.current
                                  /\ k.mutexesHeld[holder] > 0)
                    EXCEPT !.mutexesHeld[holder] = @ - 1]
           base == k.basePrio[holder]
           k2 == [RemoveState(k1, holder) EXCEPT
                    !.prio[holder] = base,
                    !.eventValue[holder] = configMAX_PRIORITIES - base]
       IN  IF Disinherits(k, holder) THEN prvAddTaskToReadyList(k2, holder)
                                     ELSE k1

\* Mutant: the holder keeps what it inherited from a waiter that has given up.
KeepsAfterTimeout(k, holder, highestWaiting) == k

\* A waiter has given up: the holder, if this is the only mutex it holds, keeps
\* the priority of the highest waiter that is left.
vTaskPriorityDisinheritAfterTimeout(k, holder, highestWaiting) ==
  IF holder = NoTask THEN k
  ELSE LET base == k.basePrio[holder]
           p    == IF base > highestWaiting THEN base ELSE highestWaiting
           k1   == configASSERT(k, k.mutexesHeld[holder] > 0)
       IN  IF p # k.prio[holder] /\ k.mutexesHeld[holder] = 1
             THEN ChangePriority(configASSERT(k1, holder # k.current), holder, p)
             ELSE k1
=============================================================================

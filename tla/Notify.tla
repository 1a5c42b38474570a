------------------------------- MODULE Notify -------------------------------
(***************************************************************************)
(* Direct to task notifications of src/src/kernel/tasks.rs: each task has  *)
(* a notification state and a value (of the array of them, one index),     *)
(* which tasks and interrupt handlers change and the task itself waits     *)
(* for.  wait[t] holds the parameters of the wait task t is inside.        *)
(***************************************************************************)
EXTENDS Scheduler, Waiting, Bitwise

CONSTANTS
  NotifyUses,         \* the <<task, task to notify, action, value>> of tasks
  NotifyHandlerUses,  \* the <<task to notify, action, value>> of handlers
  WaitUses,           \* the <<task, operation, ticks, bits to clear on entry,
                      \* bits to clear on exit>> of waits
  StateClearUses,     \* the <<task, task to clear>> of state clears
  ValueClearUses      \* the <<task, task to clear, bits>> of value clears

VARIABLE wait

eNotifyAction == {"eNoAction", "eSetBits", "eIncrement",
                  "eSetValueWithOverwrite", "eSetValueWithoutOverwrite"}

ASSUME NotifyAssumption == \A use \in NotifyUses : use[3] \in eNotifyAction

\* then: where a wait that is part of another call returns to.
NoWait == [op |-> "none", ticks |-> 0, entry |-> 0, exit |-> 0,
           block |-> FALSE, then |-> "app"]

NotifyInit == wait = [t \in Tasks |-> NoWait]

(* Notifying.                                                              *)

\* The state and the value of task x after a notification.
Notified(k, x, action, value) ==
  LET old == k.notifyValue[x]
      new == CASE action = "eSetBits"   -> old | value
               [] action = "eIncrement" -> (old + 1) % (MaxNotifyValue + 1)
               [] action = "eSetValueWithOverwrite" -> value
               [] action = "eSetValueWithoutOverwrite" ->
                    IF k.notifyState[x] = "received" THEN old ELSE value
               [] OTHER -> old
  IN  [k EXCEPT !.notifyState[x] = "received", !.notifyValue[x] = new]

\* A notified task that waited leaves the delayed or suspended list.
ReadyNotified(k, x) ==
  ResetUnblockIfTickless(
    configASSERT(prvAddTaskToReadyList(RemoveState(k, x), x),
                 k.eventList[x] = NoList))

\* The kernel record after xTaskGenericNotify.
NotifyTask(k, x, action, value) ==
  LET k1 == Notified(k, x, action, value)
  IN  IF k.notifyState[x] = "waiting"
        THEN YieldIf(ReadyNotified(k1, x), Preempts(k, x))
        ELSE k1

xTaskGenericNotify(t, x, action, value) ==
  /\ At(t, "app") /\ t # Idle /\ x \in Handles
  /\ os' = NotifyTask(os, x, action, value)
  /\ UNCHANGED <<pc, locals, wait>>

\* With the scheduler suspended the task becomes pending ready.
NotifyTaskFromISR(k, x, action, value) ==
  LET k1 == Notified(k, x, action, value)
  IN  IF k.notifyState[x] # "waiting" THEN k1
      ELSE IF k.suspended # 0
        THEN PendYieldIf(AppendEvent(configASSERT(k1, k.eventList[x] = NoList),
                                     xPendingReadyList, x),
                         Preempts(k, x))
      ELSE PendYieldIf(ReadyNotified(k1, x), Preempts(k, x))

\* The handler may pass the result to portYIELD_FROM_ISR.
xTaskGenericNotifyFromISR(x, action, value) ==
  /\ InterruptsEnabled /\ x \in Handles
  /\ \E yields \in {FALSE, os.notifyState[x] = "waiting" /\ Preempts(os, x)} :
       os' = YieldIf(NotifyTaskFromISR(os, x, action, value), yields)
  /\ UNCHANGED <<pc, locals, wait>>
-----------------------------------------------------------------------------
(* Waiting: "wait" is xTaskGenericNotifyWait, "take" is                    *)
(* ulTaskNotifyTakeIndexed, which waits for a value other than zero.       *)

Ready(t, op) == IF op = "take" THEN os.notifyValue[t] # 0
                               ELSE os.notifyState[t] = "received"

ClearBits(v, bits) == v - (v & bits)

\* The first look at the state is not protected.
BeginWait(t, w) ==
  /\ wait' = [wait EXCEPT ![t] = w]
  /\ Goto(t, IF w.ticks > 0 /\ ~Ready(t, w.op) THEN "notifyMark" ELSE "notifyEnd")

NotifyWait(t, op, n, entry, exit) ==
  /\ At(t, "app") /\ t # Idle /\ os.suspended = 0
  /\ BeginWait(t, [NoWait EXCEPT !.op = op, !.ticks = n, !.entry = entry,
                                 !.exit = exit])
  /\ UNCHANGED <<os, locals>>

\* Mutant: the state is not looked at again.
NotifyMarksBlindly(t) ==
  LET w == wait[t]
  IN  /\ At(t, "notifyMark")
      /\ os' = [vTaskSuspendAll(os) EXCEPT
                  !.notifyState[t] = "waiting",
                  !.notifyValue[t] =
                    IF w.op = "wait" THEN ClearBits(@, w.entry) ELSE @]
      /\ wait' = [wait EXCEPT ![t].block = TRUE]
      /\ Goto(t, "notifyBlock")
      /\ UNCHANGED locals

\* The scheduler is suspended and a critical section looks again.
NotifyMarks(t) ==
  LET w == wait[t]
      suspended == vTaskSuspendAll(os)
  IN  /\ At(t, "notifyMark")
      /\ os' = IF Ready(t, w.op) THEN suspended
               ELSE [suspended EXCEPT
                       !.notifyState[t] = "waiting",
                       !.notifyValue[t] =
                         IF w.op = "wait" THEN ClearBits(@, w.entry) ELSE @]
      /\ wait' = [wait EXCEPT ![t].block = ~Ready(t, w.op)]
      /\ Goto(t, "notifyBlock")
      /\ UNCHANGED locals

\* A handler may have notified the task since; then it is pending ready.
NotifyBlocks(t) ==
  LET w == wait[t]
  IN  /\ At(t, "notifyBlock")
      /\ os' = xTaskResumeAll(
                 IF w.block
                   THEN prvAddCurrentTaskToDelayedList(os, w.ticks, TRUE)
                   ELSE os)
      /\ Goto(t, "notifyYield")
      /\ UNCHANGED <<locals, wait>>

NotifyYields(t) ==
  /\ At(t, "notifyYield")
  /\ os' = YieldIf([os EXCEPT !.yielded[t] = FALSE],
                   wait[t].block /\ ~os.yielded[t])
  /\ Goto(t, "notifyEnd")
  /\ UNCHANGED <<locals, wait>>

\* The value when the wait returns.
ValueAtEnd(t) ==
  LET w == wait[t]
      v == os.notifyValue[t]
  IN  IF w.op = "take"
        THEN IF v = 0 \/ w.exit # 0 THEN 0 ELSE v - 1
        ELSE IF os.notifyState[t] = "received" THEN ClearBits(v, w.exit) ELSE v

NotifyEnds(t) ==
  /\ At(t, "notifyEnd")
  /\ os' = [os EXCEPT !.notifyValue[t] = ValueAtEnd(t),
                      !.notifyState[t] = "notWaiting"]
  /\ wait' = [wait EXCEPT ![t] = NoWait]
  /\ Goto(t, wait[t].then)
  /\ UNCHANGED locals
-----------------------------------------------------------------------------
(* Clearing what was received.                                             *)

StateCleared(k, x) ==
  [k EXCEPT !.notifyState[x] = IF @ = "received" THEN "notWaiting" ELSE @]

xTaskNotifyStateClear(t, x) ==
  /\ At(t, "app") /\ t # Idle /\ x \in Handles
  /\ os' = StateCleared(os, x)
  /\ UNCHANGED <<pc, locals, wait>>

ulTaskNotifyValueClear(t, x, bits) ==
  /\ At(t, "app") /\ t # Idle /\ x \in Handles
  /\ os' = [os EXCEPT !.notifyValue[x] = ClearBits(@, bits)]
  /\ UNCHANGED <<pc, locals, wait>>
-----------------------------------------------------------------------------
(* The steps, for the modules that compose this one.                       *)

NotifyContinue(t) ==
  NotifyMarks(t) \/ NotifyBlocks(t) \/ NotifyYields(t) \/ NotifyEnds(t)

NotifyNext ==
  \/ \E t \in Tasks : NotifyContinue(t)
  \/ \E use \in NotifyUses : xTaskGenericNotify(use[1], use[2], use[3], use[4])
  \/ \E use \in NotifyHandlerUses :
       xTaskGenericNotifyFromISR(use[1], use[2], use[3])
  \/ \E use \in WaitUses : NotifyWait(use[1], use[2], use[3], use[4], use[5])
  \/ \E use \in StateClearUses : xTaskNotifyStateClear(use[1], use[2])
  \/ \E use \in ValueClearUses :
       ulTaskNotifyValueClear(use[1], use[2], use[3])
-----------------------------------------------------------------------------
(* Properties.                                                             *)

Blocked(t) == os.stateList[t] \in {xDelayedTaskList1, xDelayedTaskList2,
                                   xSuspendedTaskList}

\* Tasks that have blocked in a wait for a notification.
WaitersForNotification ==
  {t \in Tasks : wait[t].block /\ pc[t] \in {"notifyYield", "notifyEnd"}
                 /\ Blocked(t) /\ os.eventList[t] # xPendingReadyList}

\* No notification is lost, whenever it comes: a task that is blocked in a wait
\* has received none since it decided to block, and one that waits for a value
\* has none.  And a task is marked as waiting only while it is inside a wait, so
\* that no later notification takes it out of a list it is in for another reason.
NotifiedIsAwake ==
  /\ \A t \in WaitersForNotification :
       /\ os.notifyState[t] = "waiting"
       /\ wait[t].op = "take" => os.notifyValue[t] = 0
  /\ \A t \in Tasks : os.notifyState[t] = "waiting" =>
       wait[t].block /\ pc[t] \in {"notifyBlock", "notifyYield", "notifyEnd"}
=============================================================================

------------------------------- MODULE Queue -------------------------------
(***************************************************************************)
(* The queues of src/src/kernel/queue.rs: queues of items, semaphores,     *)
(* mutexes and queue sets, used by the tasks and interrupt handlers of     *)
(* module Scheduler.                                                       *)
(*                                                                         *)
(* A call that may block goes round a loop: try in a critical section;     *)
(* suspend the scheduler, lock the queue, check the timeout, and link the  *)
(* task into an event list; unlock; resume the scheduler; try again.  The  *)
(* steps of the loop are the locations below, and call[t] holds the local  *)
(* variables.  Handlers run between the steps, other tasks between those   *)
(* during which the scheduler is not suspended.                            *)
(***************************************************************************)
EXTENDS Scheduler, Waiting

CONSTANTS
  Queues,           \* the queues
  NoQueue,          \* the null queue handle
  Kind,             \* [Queues -> QueueKinds]
  Length,           \* uxLength of each queue
  Initially,        \* the items each semaphore starts with
  Items,            \* what is sent to queues of kind "queue"
  NoItem,           \* what a slot holds that nothing was written to
  SendList,         \* the event list xTasksWaitingToSend of each queue
  ReceiveList,      \* the event list xTasksWaitingToReceive of each queue
  Container,        \* the set each queue is a member of at first, or NoQueue
  TaskUses,         \* the <<task, operation, queue, xTicksToWait>> of the
                    \* calls of the application
  HandlerUses,      \* the <<operation, queue>> that handlers call
  MaxRecursion      \* bound on uxRecursiveCallCount

QueueKinds == {"queue", "semaphore", "mutex", "set"}

Positions == {"back", "front", "overwrite"}

QueueCalls ==
  Positions \cup {"receive", "peek", "take", "takeRecursive", "give", "giveRecursive",
                  "reset", "addToSet", "removeFromSet"}

ASSUME QueueAssumption ==
  /\ NoQueue \notin Queues
  /\ NoItem \notin Items \cup Queues
  /\ Kind \in [Queues -> QueueKinds]
  /\ Length \in [Queues -> Nat \ {0}]
  /\ Initially \in [Queues -> Nat]
  /\ \A q \in Queues : Initially[q] <= Length[q]
  /\ SendList \in [Queues -> EventLists]
  /\ ReceiveList \in [Queues -> EventLists]
  /\ \A q, r \in Queues :
       SendList[q] # ReceiveList[r] /\ (q # r => /\ SendList[q] # SendList[r]
                                                 /\ ReceiveList[q] # ReceiveList[r])
  /\ Container \in [Queues -> {q \in Queues : Kind[q] = "set"} \cup {NoQueue}]
  /\ \A q \in Queues : Kind[q] = "set" => Container[q] = NoQueue
  /\ TaskUses \subseteq Tasks \X QueueCalls \X Queues \X Ticks
  /\ HandlerUses \subseteq {"back", "front", "overwrite", "give", "receive", "select"}
                           \X Queues
  /\ MaxRecursion \in Nat

VARIABLES
  queue,    \* the fields of each queue
  call,     \* the local variables of each task's call in progress
  selected  \* the member of a queue set each task has selected

qvars == <<os, pc, target, ticks, lastWake, queue, call, selected>>

queueUNLOCKED          == -1
queueLOCKED_UNMODIFIED == 0

HasStorage(q) == Kind[q] \in {"queue", "set"}

\* pcWriteTo and pcReadFrom as slots of the storage: pcReadFrom is the slot
\* that was read last.
prvInitialiseNewQueue(q) ==
  [slots     |-> [i \in 0..(Length[q] - 1) |-> NoItem],
   write     |-> 0,
   read      |-> Length[q] - 1,
   count     |-> 0,
   rxLock    |-> queueUNLOCKED,
   txLock    |-> queueUNLOCKED,
   holder    |-> NoTask,
   recursion |-> 0,
   container |-> Container[q]]

\* A mutex is given once when it is made.
prvInitialiseMutex(new) ==
  [new EXCEPT !.holder = NoTask, !.recursion = 0, !.count = 1]

xQueueCreateCountingSemaphore(new, initial) == [new EXCEPT !.count = initial]

NewQueue(q) ==
  LET new == prvInitialiseNewQueue(q)
  IN  CASE Kind[q] = "mutex"     -> prvInitialiseMutex(new)
        [] Kind[q] = "semaphore" -> xQueueCreateCountingSemaphore(new, Initially[q])
        [] OTHER                 -> new

NoCall == [op |-> "none", queue |-> NoQueue, item |-> NoItem, ticks |-> 0,
           timed |-> FALSE, timeOut |-> NoTimeOut, then |-> "none",
           inherited |-> FALSE]

QueueInit ==
  /\ SchedulerInit
  /\ queue = [q \in Queues |-> NewQueue(q)]
  /\ call = [t \in Tasks |-> NoCall]
  /\ selected = [t \in Tasks |-> NoQueue]
-----------------------------------------------------------------------------
(* The ring of slots.                                                      *)

\* Mutant: the position does not wrap to the first slot.
NextSlotStays(q, i) == IF i = Length[q] - 1 THEN i ELSE i + 1

NextSlot(q, i) == IF i = Length[q] - 1 THEN 0 ELSE i + 1

PreviousSlot(q, i) == IF i = 0 THEN Length[q] - 1 ELSE i - 1

IsFull(q)  == queue[q].count = Length[q]
IsVacant(q) == queue[q].count = 0

\* The queues Q after an item was put into q; an overwritten item is not
\* counted again.
prvCopyDataToQueue(Q, q, item, position) ==
  LET added == [Q EXCEPT ![q].count =
                  IF position = "overwrite" /\ @ > 0 THEN @ ELSE @ + 1]
  IN  IF ~HasStorage(q) THEN added
      ELSE IF position = "back"
        THEN [added EXCEPT ![q].slots[Q[q].write] = item,
                           ![q].write = NextSlot(q, @)]
        ELSE [added EXCEPT ![q].slots[Q[q].read] = item,
                           ![q].read = PreviousSlot(q, @)]

\* The item a receive or a peek copies out.
FrontItem(q) ==
  IF HasStorage(q) THEN queue[q].slots[NextSlot(q, queue[q].read)] ELSE NoItem

\* A slot that has been read is dead: it is forgotten.
TakeItem(Q, q) ==
  IF HasStorage(q)
    THEN LET i == NextSlot(q, Q[q].read)
         IN  [Q EXCEPT ![q].count = @ - 1,
                       ![q].read = i,
                       ![q].slots[i] = NoItem]
    ELSE [Q EXCEPT ![q].count = @ - 1]
-----------------------------------------------------------------------------
(* Locking.                                                                *)

prvLockQueue(Q, q) ==
  [Q EXCEPT ![q].rxLock = IF @ = queueUNLOCKED THEN queueLOCKED_UNMODIFIED ELSE @,
            ![q].txLock = IF @ = queueUNLOCKED THEN queueLOCKED_UNMODIFIED ELSE @]

\* A lock counts what happened while the queue was locked, up to the number of
\* tasks there are.
prvIncrementQueueTxLock(Q, q) ==
  [Q EXCEPT ![q].txLock = IF @ < os.numTasks THEN @ + 1 ELSE @]

prvIncrementQueueRxLock(Q, q) ==
  [Q EXCEPT ![q].rxLock = IF @ < os.numTasks THEN @ + 1 ELSE @]
-----------------------------------------------------------------------------
(* What follows when an item has been put into a queue: the queue set gets *)
(* the queue's handle, or a task that waits to receive is woken.           *)

Unlocked(q) == queue[q].txLock = queueUNLOCKED

\* The kernel record, the queues and the result of the notification of the set.
prvNotifyQueueSetContainer(k, Q, q) ==
  LET s == Q[q].container
      asserted == configASSERT(k, Q[s].count < Length[s])
      copied == prvCopyDataToQueue(Q, s, q, "back")
  IN  IF Q[s].count = Length[s]
        THEN [kernel |-> asserted, queues |-> Q, higher |-> FALSE]
      ELSE IF Q[s].txLock = queueUNLOCKED
        THEN [kernel |-> WakeOne(asserted, ReceiveList[s]), queues |-> copied,
              higher |-> WakesHigher(k, ReceiveList[s])]
        ELSE [kernel |-> asserted,
              queues |-> prvIncrementQueueTxLock(copied, s),
              higher |-> FALSE]

\* The same for queue q, with no lock on it.
Announce(k, Q, q) ==
  IF Q[q].container # NoQueue
    THEN prvNotifyQueueSetContainer(k, Q, q)
    ELSE [kernel |-> WakeOne(k, ReceiveList[q]), queues |-> Q,
          higher |-> WakesHigher(k, ReceiveList[q])]

-----------------------------------------------------------------------------
(* The attempts at the head of the loop: one critical section.             *)

Step(t, p, c) == Goto(t, p) /\ call' = [call EXCEPT ![t] = c]

Return(t) == Step(t, "app", NoCall)

\* When the call began to wait; for one that waits for ever this is never read,
\* and is not kept.
EntryTime(n) ==
  IF n = portMAX_DELAY THEN NoTimeOut ELSE vTaskInternalSetTimeOutState(os)

\* Nothing to be done now: return, or enter the loop with the time noted.
GiveUpOrWait(t, c) ==
  /\ IF c.ticks = 0
       THEN Return(t) /\ selected' = [selected EXCEPT ![t] = NoQueue]
       ELSE /\ Step(t, "queueSuspend",
                    IF c.timed THEN c
                    ELSE [c EXCEPT !.timed = TRUE,
                                   !.timeOut = EntryTime(c.ticks)])
            /\ UNCHANGED selected
  /\ UNCHANGED <<os, queue>>

\* xQueueGenericSend; giving a mutex is sending to it.
SendNow(t, c) ==
  LET q      == c.queue
      holder == queue[q].holder
      k      == xTaskPriorityDisinherit(os, holder)
      Q      == [prvCopyDataToQueue(queue, q, c.item, c.op) EXCEPT
                   ![q].holder = NoTask, ![q].recursion = 0]
      n      == Announce(k, Q, q)
      alone  == Q[q].container = NoQueue /\ IsEmpty(k, ReceiveList[q])
  IN  /\ IF c.op = "overwrite" /\ ~IsVacant(q) /\ Q[q].container # NoQueue
           THEN os' = k /\ queue' = Q
           ELSE /\ os' = YieldIf(n.kernel,
                                 n.higher \/ (alone /\ Disinherits(os, holder)))
                /\ queue' = n.queues
      /\ Return(t)
      /\ UNCHANGED selected

SendAttempt(t, c) ==
  IF ~IsFull(c.queue) \/ c.op = "overwrite" THEN SendNow(t, c)
                                            ELSE GiveUpOrWait(t, c)

\* xQueueReceive: a sender is woken.
ReceiveNow(t, c) ==
  LET q == c.queue
  IN  /\ os' = YieldIf(WakeOne(os, SendList[q]), WakesHigher(os, SendList[q]))
      /\ queue' = TakeItem(queue, q)
      /\ selected' = [selected EXCEPT ![t] =
                        IF Kind[q] = "set" THEN FrontItem(q) ELSE NoQueue]
      /\ Return(t)

\* xQueuePeek: the item stays, so another receiver is woken.
PeekNow(t, c) ==
  LET q == c.queue
  IN  /\ os' = YieldIf(WakeOne(os, ReceiveList[q]),
                       WakesHigher(os, ReceiveList[q]))
      /\ Return(t)
      /\ UNCHANGED <<queue, selected>>

\* xQueueSemaphoreTake: the task that takes a mutex is its holder.
TakeNow(t, c) ==
  LET q == c.queue
      k == IF Kind[q] = "mutex" THEN pvTaskIncrementMutexHeldCount(os) ELSE os
      Q == IF Kind[q] = "mutex"
             THEN [queue EXCEPT ![q].holder = t,
                                ![q].recursion =
                                  IF c.op = "takeRecursive" THEN @ + 1 ELSE @]
             ELSE queue
  IN  /\ os' = YieldIf(WakeOne(k, SendList[q]), WakesHigher(k, SendList[q]))
      /\ queue' = TakeItem(Q, q)
      /\ selected' = [selected EXCEPT ![t] = NoQueue]
      /\ Return(t)

Sends(op) == op \in Positions

ReceiveAttempt(t, c) ==
  IF IsVacant(c.queue) THEN GiveUpOrWait(t, c)
  ELSE CASE c.op = "receive" -> ReceiveNow(t, c)
         [] c.op = "peek"    -> PeekNow(t, c)
         [] OTHER            -> TakeNow(t, c)

Attempt(t, c) ==
  /\ IF Sends(c.op) THEN SendAttempt(t, c) ELSE ReceiveAttempt(t, c)
  /\ UNCHANGED locals
-----------------------------------------------------------------------------
(* Calls from application code.                                            *)

\* A call may block only with the scheduler running.  A task that has selected
\* a member of a set uses it next, without blocking.
MayUse(t, q, n) ==
  /\ At(t, "app") /\ t # Idle
  /\ n # 0 => os.suspended = 0
  /\ selected[t] # NoQueue => q = selected[t] /\ n = 0

\* The members of a set are read only when they have been selected from it.
MayRead(t, q, n) ==
  MayUse(t, q, n) /\ (queue[q].container # NoQueue => selected[t] = q)

NewCall(op, q, x, n) ==
  [NoCall EXCEPT !.op = op, !.queue = q, !.item = x, !.ticks = n]

\* Overwriting is for queues of length 1.
xQueueGenericSend(t, q, x, position, n) ==
  /\ MayUse(t, q, n)
  /\ Kind[q] = "queue"
  /\ position = "overwrite" => Length[q] = 1
  /\ Attempt(t, NewCall(position, q, x, n))

xQueueReceive(t, q, n) ==
  /\ MayRead(t, q, n)
  /\ Kind[q] \in {"queue", "set"}
  /\ Attempt(t, NewCall("receive", q, NoItem, n))

xQueuePeek(t, q, n) ==
  /\ MayRead(t, q, n)
  /\ Kind[q] = "queue"
  /\ Attempt(t, NewCall("peek", q, NoItem, n))

\* A task does not take a mutex that it holds, unless it is recursive.
xQueueSemaphoreTake(t, q, n) ==
  /\ MayRead(t, q, n)
  /\ Kind[q] \in {"semaphore", "mutex"}
  /\ queue[q].holder # t
  /\ Attempt(t, NewCall("take", q, NoItem, n))

\* xQueueGenericSend without an item or a block time; a mutex is given by its
\* holder.
xSemaphoreGive(t, q) ==
  /\ MayUse(t, q, 0)
  /\ Kind[q] \in {"semaphore", "mutex"}
  /\ Kind[q] = "mutex" => queue[q].holder = t
  /\ Attempt(t, NewCall("back", q, NoItem, 0))

xQueueTakeMutexRecursive(t, q, n) ==
  /\ MayUse(t, q, n)
  /\ IF queue[q].holder = t
       THEN /\ queue[q].recursion < MaxRecursion
            /\ queue' = [queue EXCEPT ![q].recursion = @ + 1]
            /\ UNCHANGED <<os, pc, locals, call, selected>>
       ELSE Attempt(t, NewCall("takeRecursive", q, NoItem, n))

\* The count is changed before the mutex is given in a critical section of its
\* own; nobody else reads it in between.
xQueueGiveMutexRecursive(t, q) ==
  /\ MayUse(t, q, 0)
  /\ queue[q].holder = t
  /\ IF queue[q].recursion > 1
       THEN /\ queue' = [queue EXCEPT ![q].recursion = @ - 1]
            /\ UNCHANGED <<os, pc, locals, call, selected>>
       ELSE Attempt(t, NewCall("back", q, NoItem, 0))

\* A reset queue is empty and unlocked: a task that waits to send is woken.
xQueueGenericReset(t, q) ==
  /\ MayUse(t, q, 0)
  /\ Kind[q] \in {"queue", "semaphore"}
  /\ queue' = [queue EXCEPT ![q] =
                 [prvInitialiseNewQueue(q) EXCEPT !.container = queue[q].container]]
  /\ os' = YieldIf(WakeOne(os, SendList[q]), WakesHigher(os, SendList[q]))
  /\ UNCHANGED <<pc, locals, call, selected>>
-----------------------------------------------------------------------------
(* The loop of a call that may block.                                      *)

QueueRetries(t) == At(t, "queueTry") /\ Attempt(t, call[t])

QueueSuspends(t) ==
  /\ At(t, "queueSuspend")
  /\ os' = vTaskSuspendAll(os)
  /\ Goto(t, "queueLock")
  /\ UNCHANGED <<locals, queue, call, selected>>

\* Mutant: a call whose time is up leaves the queue locked.
QueueStaysLocked(t) ==
  LET c == call[t]
      left == [c EXCEPT !.ticks   = TicksLeftToWait(os, c.timeOut, @),
                        !.timeOut = TimeOutAfterCheck(os, @, c.ticks)]
  IN  /\ At(t, "queueLock")
      /\ queue' = prvLockQueue(queue, c.queue)
      /\ os' = ClearDelayAborted(os)
      /\ IF xTaskCheckForTimeOut(os, c.timeOut, c.ticks)
           THEN Step(t, "queueResume", [left EXCEPT !.then = "expired"])
           ELSE Step(t, "queueCheck", left)
      /\ UNCHANGED <<locals, selected>>

\* Handlers change neither the tick count of a suspended scheduler nor the
\* abort flag, so that the lock and the check are one step.
QueueLocks(t) ==
  LET c == call[t]
      left == [c EXCEPT !.ticks   = TicksLeftToWait(os, c.timeOut, @),
                        !.timeOut = TimeOutAfterCheck(os, @, c.ticks)]
  IN  /\ At(t, "queueLock")
      /\ queue' = prvLockQueue(queue, c.queue)
      /\ os' = ClearDelayAborted(os)
      /\ IF xTaskCheckForTimeOut(os, c.timeOut, c.ticks)
           THEN Step(t, "queueUnlockTx", [left EXCEPT !.then = "expired"])
           ELSE Step(t, "queueCheck", left)
      /\ UNCHANGED <<locals, selected>>

\* Mutant: the holder of a mutex does not inherit.
QueueBlocksWithoutInheritance(t) ==
  LET c == call[t]
      q == c.queue
      l == IF Sends(c.op) THEN SendList[q] ELSE ReceiveList[q]
  IN  /\ At(t, "queueCheck")
      /\ IF IF Sends(c.op) THEN IsFull(q) ELSE IsVacant(q)
           THEN /\ os' = vTaskPlaceOnEventList(os, l, c.ticks)
                /\ Step(t, "queueUnlockTx", [c EXCEPT !.then = "block"])
           ELSE /\ Step(t, "queueUnlockTx", [c EXCEPT !.then = "retry"])
                /\ UNCHANGED os
      /\ UNCHANGED <<locals, queue, selected>>

\* If the queue has not changed the task starts to wait; the holder of a mutex
\* inherits its priority.
QueueBlocks(t) ==
  LET c      == call[t]
      q      == c.queue
      mutex  == Kind[q] = "mutex" /\ ~Sends(c.op)
      holder == queue[q].holder
      k      == IF mutex THEN xTaskPriorityInherit(os, holder) ELSE os
      l      == IF Sends(c.op) THEN SendList[q] ELSE ReceiveList[q]
  IN  /\ At(t, "queueCheck")
      /\ IF IF Sends(c.op) THEN IsFull(q) ELSE IsVacant(q)
           THEN /\ os' = vTaskPlaceOnEventList(k, l, c.ticks)
                /\ Step(t, "queueUnlockTx",
                        [c EXCEPT !.then = "block",
                                  !.inherited = mutex
                                                /\ InheritanceOccurs(os, holder)])
           ELSE /\ Step(t, "queueUnlockTx", [c EXCEPT !.then = "retry"])
                /\ UNCHANGED os
      /\ UNCHANGED <<locals, queue, selected>>

\* prvUnlockQueue: the critical section of cTxLock and that of cRxLock, one turn
\* of their loops a step.
Unlocking(t, p) ==
  /\ os.running /\ os.stage \in {"run", "masked"} /\ ~os.pendSV
  /\ os.current = t /\ pc[t] = p

\* Mutant: items that arrived while the queue was locked wake nobody.
UnlockTxWakesNobody(t) ==
  LET q == call[t].queue
  IN  /\ Unlocking(t, "queueUnlockTx")
      /\ queue' = [queue EXCEPT ![q].txLock = queueUNLOCKED]
      /\ Goto(t, "queueUnlockRx")
      /\ UNCHANGED <<os, locals, call, selected>>

UnlockTx(t) ==
  LET q == call[t].queue
      n == Announce(os, queue, q)
      more == /\ queue[q].txLock > queueLOCKED_UNMODIFIED
              /\ queue[q].container # NoQueue \/ ~IsEmpty(os, ReceiveList[q])
  IN  /\ Unlocking(t, "queueUnlockTx")
      /\ IF more
           THEN /\ os' = [PendYieldIf(n.kernel, n.higher) EXCEPT
                            !.stage = "masked"]
                /\ queue' = [n.queues EXCEPT ![q].txLock = @ - 1]
                /\ UNCHANGED pc
           ELSE /\ os' = [os EXCEPT !.stage = "run"]
                /\ queue' = [queue EXCEPT ![q].txLock = queueUNLOCKED]
                /\ Goto(t, "queueUnlockRx")
      /\ UNCHANGED <<locals, call, selected>>

UnlockRx(t) ==
  LET q == call[t].queue
      l == SendList[q]
  IN  /\ Unlocking(t, "queueUnlockRx")
      /\ IF queue[q].rxLock > queueLOCKED_UNMODIFIED /\ ~IsEmpty(os, l)
           THEN /\ os' = [PendYieldIf(WakeOne(os, l), WakesHigher(os, l)) EXCEPT
                            !.stage = "masked"]
                /\ queue' = [queue EXCEPT ![q].rxLock = @ - 1]
                /\ UNCHANGED pc
           ELSE /\ os' = [os EXCEPT !.stage = "run"]
                /\ queue' = [queue EXCEPT ![q].rxLock = queueUNLOCKED]
                /\ Goto(t, "queueResume")
      /\ UNCHANGED <<locals, call, selected>>

QueueResumes(t) ==
  /\ At(t, "queueResume")
  /\ os' = xTaskResumeAll(os)
  /\ Goto(t, "queueResumed")
  /\ UNCHANGED <<locals, queue, call, selected>>

\* The task yields if it has blocked and has not been switched out already.  A
\* receiver whose time is up looks once more whether something has arrived.
QueueResumed(t) ==
  LET c == call[t]
      gone == c.then = "expired" /\ (Sends(c.op) \/ IsVacant(c.queue))
  IN  /\ At(t, "queueResumed")
      /\ os' = YieldIf([os EXCEPT !.yielded[t] = FALSE],
                       c.then = "block" /\ ~os.yielded[t])
      /\ IF ~gone THEN Step(t, "queueTry", [c EXCEPT !.then = "none"])
         ELSE IF c.inherited THEN Step(t, "queueDisinherit", c)
         ELSE Return(t)
      /\ UNCHANGED <<locals, queue, selected>>

prvGetHighestPriorityOfWaitToReceiveList(k, l) ==
  IF IsEmpty(k, l) THEN 0
  ELSE configMAX_PRIORITIES - k.eventValue[HeadOf(k, l)]

QueueDisinherits(t) ==
  LET q == call[t].queue
  IN  /\ At(t, "queueDisinherit")
      /\ os' = vTaskPriorityDisinheritAfterTimeout(
                 os, queue[q].holder,
                 prvGetHighestPriorityOfWaitToReceiveList(os, ReceiveList[q]))
      /\ Return(t)
      /\ UNCHANGED <<locals, queue, selected>>
-----------------------------------------------------------------------------
(* Calls from interrupt handlers.  A handler may pass on whether a task of  *)
(* higher priority was woken to portYIELD_FROM_ISR.                         *)

\* A locked queue only counts the item.
PutFromISR(q, x, position) ==
  LET Q == prvCopyDataToQueue(queue, q, x, position)
      n == Announce(os, Q, q)
      overwritten == position = "overwrite" /\ ~IsVacant(q)
  IN  /\ ~IsFull(q) \/ position = "overwrite"
      /\ IF ~Unlocked(q)
           THEN queue' = prvIncrementQueueTxLock(Q, q) /\ UNCHANGED os
         ELSE IF overwritten /\ Q[q].container # NoQueue
           THEN queue' = Q /\ UNCHANGED os
         ELSE /\ queue' = n.queues
              /\ \E yields \in {FALSE, n.higher} : os' = YieldIf(n.kernel, yields)
      /\ UNCHANGED <<pc, locals, call, selected>>

xQueueGenericSendFromISR(q, x, position) ==
  /\ InterruptsEnabled
  /\ Kind[q] = "queue"
  /\ position = "overwrite" => Length[q] = 1
  /\ PutFromISR(q, x, position)

xQueueGiveFromISR(q) ==
  /\ InterruptsEnabled
  /\ Kind[q] = "semaphore"
  /\ PutFromISR(q, NoItem, "back")

\* The kernel and the queues after a handler received from q, and whether the
\* sender that was woken has a higher priority.
ReceivedFromISR(k, Q, q) ==
  LET taken == TakeItem(Q, q)
  IN  IF Q[q].rxLock # queueUNLOCKED
        THEN [kernel |-> k, queues |-> prvIncrementQueueRxLock(taken, q),
              higher |-> FALSE]
        ELSE [kernel |-> WakeOne(k, SendList[q]), queues |-> taken,
              higher |-> WakesHigher(k, SendList[q])]

xQueueReceiveFromISR(q) ==
  LET n == ReceivedFromISR(os, queue, q)
  IN  /\ InterruptsEnabled
      /\ ~IsVacant(q)
      /\ queue' = n.queues
      /\ \E yields \in {FALSE, n.higher} : os' = YieldIf(n.kernel, yields)
      /\ UNCHANGED <<pc, locals, call, selected>>

\* A handler selects a member of set s, whose woken sender it ignores, and then
\* receives from it if there is something.
xQueueSelectFromSetFromISR(s) ==
  LET n == ReceivedFromISR(os, queue, s)
      m == FrontItem(s)
      r == IF n.queues[m].count = 0 THEN n
                                    ELSE ReceivedFromISR(n.kernel, n.queues, m)
  IN  /\ InterruptsEnabled
      /\ Kind[s] = "set" /\ ~IsVacant(s)
      /\ queue' = r.queues
      /\ \E yields \in {FALSE, r.higher} : os' = YieldIf(r.kernel, yields)
      /\ UNCHANGED <<pc, locals, call, selected>>
-----------------------------------------------------------------------------
(* Queue sets: xQueueSelectFromSet is xQueueReceive on the set.             *)

\* Mutant: a queue that has items is added.
AddToSetUnchecked(t, q, s) ==
  /\ MayUse(t, q, 0)
  /\ Kind[s] = "set" /\ Kind[q] # "set"
  /\ queue[q].container = NoQueue
  /\ queue' = [queue EXCEPT ![q].container = s]
  /\ UNCHANGED <<os, pc, locals, call, selected>>

\* A set has queues and semaphores as members.
xQueueAddToSet(t, q, s) ==
  /\ MayUse(t, q, 0)
  /\ Kind[s] = "set" /\ Kind[q] # "set"
  /\ queue[q].container = NoQueue /\ queue[q].count = 0
  /\ queue' = [queue EXCEPT ![q].container = s]
  /\ UNCHANGED <<os, pc, locals, call, selected>>

\* The container and the number of items are looked at outside the critical
\* section that removes the queue.
xQueueRemoveFromSet(t, q) ==
  /\ MayUse(t, q, 0)
  /\ queue[q].container # NoQueue /\ queue[q].count = 0
  /\ Step(t, "removeFromSet", NewCall("removeFromSet", q, NoItem, 0))
  /\ UNCHANGED <<os, locals, queue, selected>>

QueueRemovedFromSet(t) ==
  /\ At(t, "removeFromSet")
  /\ queue' = [queue EXCEPT ![call[t].queue].container = NoQueue]
  /\ Return(t)
  /\ UNCHANGED <<os, locals, selected>>
-----------------------------------------------------------------------------
(* The specification.                                                      *)

QueueContinue(t) ==
  \/ QueueRetries(t) \/ QueueSuspends(t) \/ QueueLocks(t) \/ QueueBlocks(t)
  \/ UnlockTx(t) \/ UnlockRx(t) \/ QueueResumes(t) \/ QueueResumed(t)
  \/ QueueDisinherits(t) \/ QueueRemovedFromSet(t)

QueueCall(t, op, q, n) ==
  \/ op \in Positions /\ \E x \in Items : xQueueGenericSend(t, q, x, op, n)
  \/ op = "receive" /\ xQueueReceive(t, q, n)
  \/ op = "peek" /\ xQueuePeek(t, q, n)
  \/ op = "take" /\ xQueueSemaphoreTake(t, q, n)
  \/ op = "takeRecursive" /\ xQueueTakeMutexRecursive(t, q, n)
  \/ op = "give" /\ xSemaphoreGive(t, q)
  \/ op = "giveRecursive" /\ xQueueGiveMutexRecursive(t, q)
  \/ op = "reset" /\ xQueueGenericReset(t, q)
  \/ op = "addToSet" /\ \E s \in Queues : xQueueAddToSet(t, q, s)
  \/ op = "removeFromSet" /\ xQueueRemoveFromSet(t, q)

QueueHandler(op, q) ==
  \/ op \in Positions /\ \E x \in Items : xQueueGenericSendFromISR(q, x, op)
  \/ op = "give" /\ xQueueGiveFromISR(q)
  \/ op = "receive" /\ xQueueReceiveFromISR(q)
  \/ op = "select" /\ xQueueSelectFromSetFromISR(q)

QueueNext ==
  \/ SchedulerNext /\ UNCHANGED <<queue, call, selected>>
  \/ \E t \in Tasks : QueueContinue(t)
  \/ \E use \in TaskUses : QueueCall(use[1], use[2], use[3], use[4])
  \/ \E use \in HandlerUses : QueueHandler(use[1], use[2])

QueueSpec == QueueInit /\ [][QueueNext]_qvars
-----------------------------------------------------------------------------
(* Properties.                                                             *)

InCall(t, q) == call[t].op # "none" /\ call[t].queue = q

Sending(q) == {t \in Tasks : InCall(t, q) /\ Sends(call[t].op)}

Receiving(q) == {t \in Tasks : InCall(t, q) /\ ~Sends(call[t].op)}

\* Nobody waits in vain: while a queue that is not locked holds an item and
\* tasks wait to receive, one task that receives is awake and will look; and so
\* for space and tasks that wait to send.
NoLostWakeup ==
  \A q \in Queues :
    queue[q].txLock = queueUNLOCKED /\ queue[q].rxLock = queueUNLOCKED =>
      /\ ~IsVacant(q) /\ ~IsEmpty(os, ReceiveList[q]) =>
           \E t \in Receiving(q) : os.eventList[t] # ReceiveList[q]
      /\ ~IsFull(q) /\ ~IsEmpty(os, SendList[q]) =>
           \E t \in Sending(q) : os.eventList[t] # SendList[q]

\* A queue is locked only by a task that is between prvLockQueue and the end of
\* prvUnlockQueue: no lock outlives its call, and no two tasks hold one.
LocksAreReleased ==
  \A q \in Queues :
    queue[q].txLock # queueUNLOCKED \/ queue[q].rxLock # queueUNLOCKED =>
      /\ os.suspended > 0
      /\ InCall(os.current, q)
      /\ pc[os.current] \in {"queueCheck", "queueUnlockTx", "queueUnlockRx"}

\* The ticks that have passed since a call began to count, with the overflows.
Elapsed(timeOut) ==
  LET span  == portMAX_DELAY + 1
      wraps == (os.overflows - timeOut.overflows) % (MaxOverflows + 1)
  IN  (wraps * span + os.tick - timeOut.entered) % (span * (MaxOverflows + 1))

Waits(t) == call[t].timed /\ call[t].ticks # portMAX_DELAY

TimeLeft(t) ==
  LET spent == Elapsed(call[t].timeOut)
  IN  IF spent < call[t].ticks THEN call[t].ticks - spent ELSE 0

\* However often a call is woken and retries, its time passes as the ticks do: a
\* retry loses none of it, nor does it gain any unless the task was kept from
\* running for as long as the tick count takes to wrap; and the call gives up only
\* when its time is over or when its wait was aborted.
TimeIsKept ==
  [][\A t \in Tasks : call[t].timed =>
       /\ Waits(t) /\ call'[t].timed =>
            LET left == TimeLeft(t) - (IF os'.tick = os.tick THEN 0 ELSE 1)
            IN  /\ TimeLeft(t)' >= left
                /\ Elapsed(call[t].timeOut) <= portMAX_DELAY =>
                     TimeLeft(t)' = IF left < 0 THEN 0 ELSE left
       /\ call'[t].then = "expired" /\ call[t].then # "expired" =>
            os.delayAborted[t] \/ (Waits(t) /\ TimeLeft(t) = 0)]_qvars

\* A task that waits in an event list wakes when the time of its call is over,
\* also if this is its second wait.
WaitEndsWithTime ==
  \A t \in Tasks :
    /\ Waits(t) /\ call[t].then = "block"
    /\ os.stateList[t] \in {xDelayedTaskList1, xDelayedTaskList2}
    => TicksLeft[t] = TimeLeft(t)

\* The slot that is n places after slot i.
SlotAfter(q, i, n) == IF i + n < Length[q] THEN i + n ELSE i + n - Length[q]

\* The items of queue q, whose fields r holds, in the order in which they will be
\* received.
ItemsIn(q, r) == [n \in 1..r.count |-> r.slots[SlotAfter(q, r.read, n)]]

Contents(q) == ItemsIn(q, queue[q])

Stored == {q \in Queues : HasStorage(q)}

Fifo == INSTANCE BoundedFifo WITH
          Fifos    <- Stored,
          Values   <- Items \cup Queues,
          Capacity <- Length,
          items    <- [q \in Stored |-> Contents(q)]

\* The rings of slots implement bounded first-in first-out queues, whatever
\* tasks and handlers do between the steps of a call.
ImplementsFifo == Fifo!Spec

Mutexes == {q \in Queues : Kind[q] = "mutex"}

HeldBy(t) == {q \in Mutexes : queue[q].holder = t}

\* A mutex is available or it has a holder, and each task counts the ones it
\* holds: the holder that gives its last one can tell.
HoldersCounted ==
  /\ \A q \in Mutexes : IsVacant(q) <=> queue[q].holder # NoTask
  /\ \A t \in Tasks : os.mutexesHeld[t] = Cardinality(HeldBy(t))

\* An inherited priority is given back: each task counts the mutexes it holds, and
\* one that holds none has the priority it was given by the application.
PriorityGivenBack ==
  /\ HoldersCounted
  /\ \A t \in Tasks : os.mutexesHeld[t] = 0 => os.prio[t] = os.basePrio[t]

\* The holder of a mutex runs at least at the priority of every task that waits
\* for it, unless another task that takes the mutex is awake and will see to it.
HolderInherits ==
  \A q \in Mutexes : \A t \in ItemsOf(os, ReceiveList[q]) :
    \/ queue[q].holder = NoTask
    \/ os.prio[queue[q].holder] >= os.prio[t]
    \/ \E u \in Receiving(q) : os.eventList[u] # ReceiveList[q]

\* A task that holds one mutex has inherited its priority from a task that is
\* still inside a call to take it.
InheritsFromTaker ==
  \A t \in Tasks : \A q \in HeldBy(t) :
    os.mutexesHeld[t] = 1 /\ os.prio[t] > os.basePrio[t] =>
      \E u \in Receiving(q) : os.prio[u] >= os.prio[t]

Members(s) == {q \in Queues : queue[q].container = s}

Entries(s, q) ==
  Cardinality({n \in 1..queue[s].count : Contents(s)[n] = q})

\* What has been said of the items of a member: entries of the set, members
\* that tasks have selected, and what the lock of the member has counted.
Announced(s, q) ==
  Entries(s, q) + Cardinality({t \in Tasks : selected[t] = q})
    + (IF Unlocked(q) THEN 0 ELSE queue[q].txLock)

\* A set tells of every item of its members, once, and a member that a task has
\* selected holds an item for it.
SetCountsItems ==
  /\ \A s \in Queues : Kind[s] = "set" =>
       \A q \in Members(s) : Announced(s, q) = queue[q].count
  /\ \A t \in Tasks : selected[t] # NoQueue => ~IsVacant(selected[t])
=============================================================================

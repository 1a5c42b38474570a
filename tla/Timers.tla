------------------------------- MODULE Timers -------------------------------
(***************************************************************************)
(* The software timers of src/src/kernel/timers.rs.  Tasks and handlers    *)
(* send commands to the queue TimerQueue; the timer daemon, TimerTask,     *)
(* keeps the active timers in two lists, for expiry times before and after *)
(* the next wrap of the tick count, calls the callbacks of those that      *)
(* expire, and otherwise waits for the next expiry or the next command.    *)
(* "app" is the head of the daemon's loop, "queueTry" the receive of a     *)
(* command.                                                                *)
(***************************************************************************)
EXTENDS Queue

CONSTANTS
  TimerTask,
  TimerQueue,
  Timers,
  NoTimer,
  Period,           \* [Timers -> periods they are created with]
  AutoReload,       \* [Timers -> BOOLEAN], as they are created
  TimerUses,        \* the <<task, command, timer, value, ticks>> of tasks
  TimerHandlerUses, \* the <<command, timer, value>> of handlers
  ManageUses        \* the <<task, operation, timer>> of other calls

ASSUME TimersAssumption ==
  /\ TimerTask \in Tasks \ {Idle}
  /\ TimerQueue \in Queues /\ Kind[TimerQueue] = "queue"
  /\ NoTimer \notin Timers
  /\ Period \in [Timers -> Ticks \ {0}]
  /\ AutoReload \in [Timers -> BOOLEAN]

VARIABLES
  timer,      \* the fields of each timer
  timerLists, \* pxCurrentTimerList and pxOverflowTimerList
  daemon      \* xLastTime and the local variables of the daemon

tvars == <<qvars, timer, timerLists, daemon>>

Span == portMAX_DELAY + 1

\* Time without the wrap of the tick count, modulo what the bound on the
\* overflows can tell apart.
Era == Span * (MaxOverflows + 1)

Now == os.overflows * Span + os.tick

Plus(time, n) == (time + n) % Era

\* The ticks from time s to time e, negative if e lies before s.
From(s, e) == ((e - s + portMAX_DELAY) % Era) - portMAX_DELAY

(***************************************************************************)
(* A message of the daemon; "start" stands for the commands START and      *)
(* RESET and their forms for handlers.  since is when its time was read:   *)
(* no code reads it.                                                       *)
(***************************************************************************)
NoMessage == [id |-> "none", timer |-> NoTimer, value |-> 0, since |-> 0]

\* expiry is the value of the list item; due, which no code reads, is the time at
\* which the timer expires next.
prvInitialiseNewTimer(tm) ==
  [live       |-> TRUE,
   active     |-> FALSE,
   autoReload |-> AutoReload[tm],
   period     |-> Period[tm],
   expiry     |-> 0,
   due        |-> 0]

DaemonAtFirst ==
  [last |-> 0, sampled |-> 0, now |-> 0, then |-> "none",
   message |-> NoMessage, timer |-> NoTimer, expired |-> 0, limit |-> 0,
   called |-> NoTimer]

TimersInit ==
  /\ QueueInit
  /\ timer = [tm \in Timers |-> prvInitialiseNewTimer(tm)]
  /\ timerLists = [current |-> vListInitialise, overflow |-> vListInitialise]
  /\ daemon = DaemonAtFirst

ExpiryTimes == [tm \in Timers |-> timer[tm].expiry]

DaemonAt(p) == At(TimerTask, p)

DaemonGoes(p, d) == Goto(TimerTask, p) /\ daemon' = d

AppUnchanged == UNCHANGED <<locals, call, selected>>
-----------------------------------------------------------------------------
(* Commands.                                                               *)

Message(id, tm, value, since) ==
  [id |-> id, timer |-> tm, value |-> value, since |-> since]

InUseBy(t, tm) == Sends(call[t].op) /\ call[t].item.timer = tm

\* xTimerStart and xTimerReset read the tick count before they send.  After
\* xTimerDelete the application does not use the timer.
xTimerGenericCommandFromTask(t, id, tm, value, n) ==
  LET wait == IF os.suspended = 0 THEN n ELSE 0
      c == NewCall("back", TimerQueue, Message(id, tm, value, 0), wait)
  IN  /\ MayUse(t, TimerQueue, wait) /\ t # TimerTask
      /\ id # "callback" => timer[tm].live
      /\ id = "changePeriod" => value # 0
      /\ id = "delete" => \A u \in Tasks : ~InUseBy(u, tm)
      /\ IF id = "start"
           THEN /\ Step(t, "timerSend",
                        [c EXCEPT !.item = Message(id, tm, os.tick, Now)])
                /\ UNCHANGED <<os, queue, selected, locals>>
           ELSE Attempt(t, c)
      /\ timer' = IF id = "delete" THEN [timer EXCEPT ![tm].live = FALSE]
                                   ELSE timer
      /\ UNCHANGED <<timerLists, daemon>>

SendsCommand(t) ==
  /\ At(t, "timerSend")
  /\ Attempt(t, call[t])
  /\ UNCHANGED <<timer, timerLists, daemon>>

xTimerGenericCommandFromISR(id, tm, value) ==
  LET m == IF id = "start" THEN Message(id, tm, os.tick, Now)
                           ELSE Message(id, tm, value, 0)
  IN  /\ InterruptsEnabled
      /\ id # "callback" => timer[tm].live
      /\ id = "changePeriod" => value # 0
      /\ PutFromISR(TimerQueue, m, "back")
      /\ UNCHANGED <<timer, timerLists, daemon>>

\* The daemon changes ucStatus outside a critical section: tasks that could
\* preempt it leave the reload mode alone.
vTimerSetReloadMode(t, tm) ==
  /\ At(t, "app") /\ t # Idle /\ timer[tm].live
  /\ os.prio[t] < os.prio[TimerTask]
  /\ timer' = [timer EXCEPT ![tm].autoReload = ~@]
  /\ UNCHANGED <<qvars, timerLists, daemon>>

\* The storage of a deleted timer is used again when nothing refers to it.
xTimerCreate(t, tm) ==
  /\ At(t, "app") /\ t \notin {Idle, TimerTask}
  /\ ~timer[tm].live
  /\ tm \notin {daemon.timer, daemon.message.timer}
  /\ \A i \in 1..queue[TimerQueue].count : Contents(TimerQueue)[i].timer # tm
  /\ \A u \in Tasks : ~InUseBy(u, tm)
  /\ ~timer[tm].active
  /\ timer' = [timer EXCEPT ![tm] = prvInitialiseNewTimer(tm)]
  /\ UNCHANGED <<qvars, timerLists, daemon>>
-----------------------------------------------------------------------------
(* The lists of active timers.                                             *)

\* Mutant: an expiry time that is not ahead of the tick count has passed.
ExpiredWithoutCommandTime(next, now, since, period) ==
  IF next <= now \/ (now < since /\ next >= since) THEN "expired" ELSE "current"

\* Where prvInsertTimerInActiveList puts a timer that was to run from tick
\* since until tick next, the tick count being now.
prvInsertTimerInActiveList(next, now, since, period) ==
  IF next <= now
    THEN IF WrappingSub(now, since) >= period THEN "expired" ELSE "overflow"
    ELSE IF now < since /\ next >= since THEN "expired" ELSE "current"

Listed(tm, place, next) ==
  [timerLists EXCEPT ![place] =
     vListInsert(@, tm, [ExpiryTimes EXCEPT ![tm] = next], portMAX_DELAY)]

InList(tm, place) == Contains(timerLists[place].items, tm)

Unlisted(tm) ==
  [p \in {"current", "overflow"} |->
     IF InList(tm, p) THEN uxListRemove(timerLists[p], tm) ELSE timerLists[p]]

NextTimer == listGET_OWNER_OF_HEAD_ENTRY(timerLists.current)

NoneCurrent  == listLIST_IS_EMPTY(timerLists.current)
NoneOverflow == listLIST_IS_EMPTY(timerLists.overflow)

\* prvProcessExpiredTimer for the head of the current list: it goes through
\* "timerReload" or "timerCall" to the location then.
ProcessExpiredTimer(limit, then) ==
  LET tm == NextTimer
      d  == [daemon EXCEPT !.timer = tm, !.then = then, !.called = NoTimer]
  IN  /\ timerLists' = [timerLists EXCEPT !.current = uxListRemove(@, tm)]
      /\ IF timer[tm].autoReload
           THEN /\ DaemonGoes("timerReload",
                              [d EXCEPT !.expired = timer[tm].expiry,
                                        !.limit = limit])
                /\ timer' = [timer EXCEPT ![tm].expiry = 0]
           ELSE /\ DaemonGoes("timerCall", d)
                /\ timer' = [timer EXCEPT ![tm].active = FALSE,
                                          ![tm].expiry = 0]
      /\ UNCHANGED <<os, queue>> /\ AppUnchanged

\* The callback of a timer that does not reload.
CallsBack ==
  LET tm == daemon.timer
  IN  /\ DaemonAt("timerCall")
      /\ timer' = [timer EXCEPT ![tm].due = 0]
      /\ DaemonGoes(daemon.then, [daemon EXCEPT !.timer = NoTimer,
                                                !.called = tm])
      /\ UNCHANGED <<os, queue, timerLists>> /\ AppUnchanged

\* One turn of the loop of prvReloadTimer: a callback for each expiry that has
\* passed, and one more when the timer is back in a list.
prvReloadTimer ==
  LET tm    == daemon.timer
      next  == WrappingAdd(daemon.expired, timer[tm].period)
      place == prvInsertTimerInActiveList(next, daemon.limit, daemon.expired,
                                          timer[tm].period)
      again == [timer EXCEPT ![tm].due = Plus(@, timer[tm].period)]
  IN  /\ DaemonAt("timerReload")
      /\ IF place = "expired"
           THEN /\ DaemonGoes("timerReload", [daemon EXCEPT !.expired = next,
                                                            !.called = tm])
                /\ timer' = again
                /\ UNCHANGED timerLists
           ELSE /\ timerLists' = Listed(tm, place, next)
                /\ timer' = [again EXCEPT ![tm].expiry = next]
                /\ DaemonGoes(daemon.then,
                              [daemon EXCEPT !.timer = NoTimer, !.expired = 0,
                                             !.limit = 0, !.called = tm])
      /\ UNCHANGED <<os, queue>> /\ AppUnchanged
-----------------------------------------------------------------------------
(* The daemon's loop.                                                      *)

\* When the tick count was now.
TimeOf(now) == (Now + Era - WrappingSub(os.tick, now)) % Era

\* prvSampleTimeNow when the tick count has not wrapped.
Sampled(d, now) == [d EXCEPT !.last = now, !.sampled = TimeOf(now),
                             !.called = NoTimer]

\* prvGetNextExpireTime and the beginning of prvProcessTimerOrBlockTask: the
\* lists belong to the daemon, and the tick count stands while the scheduler is
\* suspended.
DaemonChecks ==
  LET now == os.tick
      due == ~NoneCurrent /\ timer[NextTimer].expiry <= now
      d   == Sampled(daemon, now)
  IN  /\ DaemonAt("app")
      /\ os' = vTaskSuspendAll(os)
      /\ IF now < daemon.last
           THEN DaemonGoes("timerSwitch",
                           [daemon EXCEPT !.now = now, !.called = NoTimer,
                                          !.message = NoMessage])
         ELSE IF due
           THEN DaemonGoes("timerResume", [d EXCEPT !.then = "timerExpire"])
           ELSE DaemonGoes("timerBlock", d)
      /\ UNCHANGED <<queue, timer, timerLists>> /\ AppUnchanged

\* Mutant: the daemon waits for a command for ever if no timer expires before the
\* tick count wraps.
DaemonForgetsOverflow ==
  LET next == IF NoneCurrent THEN 0 ELSE timer[NextTimer].expiry
  IN  /\ DaemonAt("timerBlock")
      /\ queue' = prvLockQueue(queue, TimerQueue)
      /\ os' = IF IsVacant(TimerQueue)
                 THEN vTaskPlaceOnEventListRestricted(
                        os, ReceiveList[TimerQueue], WrappingSub(next, os.tick),
                        NoneCurrent)
                 ELSE os
      /\ Step(TimerTask, "queueUnlockTx",
              NewCall("receive", TimerQueue, NoItem, 0))
      /\ UNCHANGED <<locals, selected, timer, timerLists, daemon>>

\* vQueueWaitForMessageRestricted up to prvUnlockQueue; a command that has come
\* since is not missed.
DaemonBlocks ==
  LET next == IF NoneCurrent THEN 0 ELSE timer[NextTimer].expiry
  IN  /\ DaemonAt("timerBlock")
      /\ queue' = prvLockQueue(queue, TimerQueue)
      /\ os' = IF IsVacant(TimerQueue)
                 THEN vTaskPlaceOnEventListRestricted(
                        os, ReceiveList[TimerQueue], WrappingSub(next, os.tick),
                        NoneCurrent /\ NoneOverflow)
                 ELSE os
      /\ Step(TimerTask, "queueUnlockTx",
              NewCall("receive", TimerQueue, NoItem, 0))
      /\ UNCHANGED <<locals, selected, timer, timerLists, daemon>>

\* The scheduler is resumed; a daemon that has blocked or found a command yields.
DaemonYields ==
  /\ DaemonAt("queueResumed")
  /\ os' = YieldIf([os EXCEPT !.yielded[TimerTask] = FALSE],
                   ~os.yielded[TimerTask])
  /\ Step(TimerTask, "queueTry", NoCall)
  /\ UNCHANGED <<locals, queue, selected, timer, timerLists, daemon>>

DaemonResumes ==
  /\ DaemonAt("timerResume")
  /\ os' = xTaskResumeAll(os)
  /\ DaemonGoes(daemon.then, [daemon EXCEPT !.then = "none"])
  /\ UNCHANGED <<queue, timer, timerLists>> /\ AppUnchanged

DaemonExpires ==
  /\ DaemonAt("timerExpire")
  /\ ProcessExpiredTimer(daemon.last, "queueTry")

\* prvSwitchTimerLists: what is left in the current list has expired.  A command
\* or the resumption of the scheduler follows.
prvSwitchTimerLists ==
  LET d == [Sampled(daemon, daemon.now) EXCEPT !.now = 0]
  IN  /\ DaemonAt("timerSwitch")
      /\ IF ~NoneCurrent
           THEN ProcessExpiredTimer(portMAX_DELAY, "timerSwitch")
           ELSE /\ timerLists' = [current  |-> timerLists.overflow,
                                  overflow |-> timerLists.current]
                /\ IF daemon.message = NoMessage
                     THEN DaemonGoes("timerResume", [d EXCEPT !.then = "queueTry"])
                     ELSE DaemonGoes("timerApply", [d EXCEPT !.then = "none"])
                /\ UNCHANGED <<os, queue, timer>> /\ AppUnchanged
-----------------------------------------------------------------------------
(* The daemon's commands.                                                  *)

\* xQueueReceive without waiting.
DaemonReceives ==
  LET senders == SendList[TimerQueue]
  IN  /\ DaemonAt("queueTry")
      /\ IF IsVacant(TimerQueue)
           THEN /\ DaemonGoes("app", [daemon EXCEPT !.then = "none",
                                                    !.called = NoTimer])
                /\ UNCHANGED <<os, queue>>
           ELSE /\ os' = YieldIf(WakeOne(os, senders), WakesHigher(os, senders))
                /\ queue' = TakeItem(queue, TimerQueue)
                /\ DaemonGoes("timerCommand",
                              [daemon EXCEPT !.message = FrontItem(TimerQueue),
                                             !.then = "none",
                                             !.called = NoTimer])
      /\ UNCHANGED <<timer, timerLists>> /\ AppUnchanged

\* The command in the message of d, the tick count being d.last; lists are the
\* timer lists without the timer.
Starts(d, lists) ==
  LET m     == d.message
      tm    == m.timer
      next  == WrappingAdd(m.value, timer[tm].period)
      place == prvInsertTimerInActiveList(next, d.last, m.value,
                                          timer[tm].period)
      started == [timer EXCEPT ![tm].active = TRUE, ![tm].expiry = 0,
                               ![tm].due = Plus(m.since, timer[tm].period)]
      done == [d EXCEPT !.message = NoMessage]
      late == [done EXCEPT !.timer = tm, !.then = "queueTry"]
  IN  IF place # "expired"
        THEN /\ timerLists' = [lists EXCEPT ![place] =
                    vListInsert(@, tm, [ExpiryTimes EXCEPT ![tm] = next],
                                portMAX_DELAY)]
             /\ timer' = [started EXCEPT ![tm].expiry = next]
             /\ DaemonGoes("queueTry", done)
      ELSE IF timer[tm].autoReload
        THEN /\ timer' = started /\ timerLists' = lists
             /\ DaemonGoes("timerReload", [late EXCEPT !.expired = next,
                                                       !.limit = d.last])
        ELSE /\ timer' = [started EXCEPT ![tm].active = FALSE]
             /\ timerLists' = lists
             /\ DaemonGoes("timerCall", late)

ChangesPeriod(d, lists) ==
  LET m     == d.message
      tm    == m.timer
      next  == WrappingAdd(d.last, m.value)
      place == prvInsertTimerInActiveList(next, d.last, d.last, m.value)
  IN  /\ timer' = [timer EXCEPT ![tm].active = TRUE, ![tm].period = m.value,
                                ![tm].expiry = next,
                                ![tm].due = Plus(d.sampled, m.value)]
      /\ timerLists' = [lists EXCEPT ![place] =
              vListInsert(@, tm, [ExpiryTimes EXCEPT ![tm] = next],
                          portMAX_DELAY)]
      /\ DaemonGoes("queueTry", [d EXCEPT !.message = NoMessage])

\* A deleted timer is freed.
Stops(d, lists) ==
  /\ timer' = [timer EXCEPT ![d.message.timer].active = FALSE,
                            ![d.message.timer].expiry = 0,
                            ![d.message.timer].due = 0]
  /\ timerLists' = lists
  /\ DaemonGoes("queueTry", [d EXCEPT !.message = NoMessage])

Applies(d, lists) ==
  /\ CASE d.message.id = "start"        -> Starts(d, lists)
       [] d.message.id = "changePeriod" -> ChangesPeriod(d, lists)
       [] OTHER                         -> Stops(d, lists)
  /\ UNCHANGED <<os, queue>> /\ AppUnchanged

\* Mutant: the time was sampled before the message was received.
CommandsWithOldTime ==
  /\ DaemonAt("timerCommand")
  /\ IF daemon.message.id = "callback"
       THEN /\ DaemonGoes("queueTry", [daemon EXCEPT !.message = NoMessage])
            /\ UNCHANGED <<os, queue, timer, timerLists>> /\ AppUnchanged
       ELSE Applies(daemon, Unlisted(daemon.message.timer))

\* A function that was pended is called; of a timer, first of all, the list item
\* is removed and the time is sampled.
prvProcessReceivedCommands ==
  LET m   == daemon.message
      now == os.tick
  IN  /\ DaemonAt("timerCommand")
      /\ IF m.id = "callback"
           THEN /\ DaemonGoes("queueTry", [daemon EXCEPT !.message = NoMessage])
                /\ UNCHANGED <<os, queue, timer, timerLists>> /\ AppUnchanged
         ELSE IF now < daemon.last
           THEN /\ timerLists' = Unlisted(m.timer)
                /\ DaemonGoes("timerSwitch", [daemon EXCEPT !.now = now])
                /\ UNCHANGED <<os, queue, timer>> /\ AppUnchanged
           ELSE Applies(Sampled(daemon, now), Unlisted(m.timer))

DaemonApplies == DaemonAt("timerApply") /\ Applies(daemon, timerLists)
-----------------------------------------------------------------------------
(* The specification.                                                      *)

DaemonNext ==
  \/ DaemonChecks \/ DaemonBlocks \/ DaemonYields \/ DaemonResumes
  \/ DaemonExpires \/ prvSwitchTimerLists \/ prvReloadTimer \/ CallsBack
  \/ DaemonReceives \/ prvProcessReceivedCommands \/ DaemonApplies
  \/ /\ UnlockTx(TimerTask) \/ UnlockRx(TimerTask) \/ QueueResumes(TimerTask)
     /\ UNCHANGED <<timer, timerLists, daemon>>

Manages(t, op, tm) ==
  \/ op = "setReloadMode" /\ vTimerSetReloadMode(t, tm)
  \/ op = "create" /\ xTimerCreate(t, tm)

TimersNext ==
  \/ /\ SchedulerNext
     /\ UNCHANGED <<queue, call, selected, timer, timerLists, daemon>>
  \/ DaemonNext
  \/ \E t \in Tasks \ {TimerTask} :
       \/ QueueContinue(t) /\ UNCHANGED <<timer, timerLists, daemon>>
       \/ SendsCommand(t)
  \/ \E use \in TimerUses :
       xTimerGenericCommandFromTask(use[1], use[2], use[3], use[4], use[5])
  \/ \E use \in TimerHandlerUses :
       xTimerGenericCommandFromISR(use[1], use[2], use[3])
  \/ \E use \in ManageUses : Manages(use[1], use[2], use[3])

TimersSpec == TimersInit /\ [][TimersNext]_tvars
-----------------------------------------------------------------------------
(* Properties.                                                             *)

\* Ticks that are pended count.
Pended == os.pendedTicks - (IF os.stage = "unblock" THEN 1 ELSE 0)

\* What the code relies on: the daemon runs, and is given the commands, before
\* the tick count has wrapped since.
Fresh(since) == From(since, Plus(Now, Pended)) \in 0..portMAX_DELAY

DaemonKeepsUp ==
  /\ \A tm \in Timers : timer[tm].active \/ daemon.timer = tm =>
       /\ Fresh(daemon.sampled)
       /\ From(timer[tm].due, Plus(Now, Pended)) <= portMAX_DELAY
  /\ \A i \in 1..queue[TimerQueue].count :
       LET m == Contents(TimerQueue)[i] IN m.id = "start" => Fresh(m.since)
  /\ \A t \in Tasks : Sends(call[t].op) =>
       (call[t].item.id = "start" => Fresh(call[t].item.since))
  /\ daemon.message.id = "start" => Fresh(daemon.message.since)

\* The timer the daemon is working on.
InHand(tm) == tm \in {daemon.timer, daemon.message.timer}

\* A timer is active as long as it is in one of the lists; the current list holds
\* those that expire before the tick count wraps for the first time after the
\* daemon last looked at it, the overflow list those that expire after that.
ListedWhenDue ==
  \A tm \in Timers :
    LET due == daemon.last + From(daemon.sampled, timer[tm].due)
    IN  /\ ~InHand(tm) =>
             timer[tm].active <=> InList(tm, "current") \/ InList(tm, "overflow")
        /\ InList(tm, "current") => due = timer[tm].expiry
        /\ InList(tm, "overflow") => due = timer[tm].expiry + Span

\* No callback is called before its timer has run for its period, from the time
\* of the call that started it, of the last expiry or of the change of the
\* period, however late the daemon gets to it and wherever the tick count wraps.
CalledWhenDue ==
  [][\A tm \in Timers :
       daemon'.called = tm /\ pc[TimerTask] \in {"timerReload", "timerCall"} =>
         From(timer[tm].due, Now) >= 0]_tvars

\* The daemon sleeps past the expiry of no active timer.
WakesForTimers ==
  os.eventList[TimerTask] = ReceiveList[TimerQueue] =>
    \A tm \in Timers : timer[tm].active =>
      /\ os.stateList[TimerTask] # xSuspendedTaskList
      /\ TicksLeft[TimerTask] <= From(Now, timer[tm].due)
=============================================================================

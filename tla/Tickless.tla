------------------------------ MODULE Tickless ------------------------------
(***************************************************************************)
(* Tickless idle: the idle task of src/src/kernel/tasks.rs stops the tick  *)
(* interrupt until the next task is due, and the port sleeps and corrects  *)
(* the tick count when it wakes.  The ports differ in their timers: SysTick *)
(* of the Cortex-M counts down and reloads, as does the SP804 the Cortex-A9 *)
(* port uses; RISC-V and the Cortex-A53 compare a free-running counter.    *)
(*                                                                         *)
(* Count is one count of the timer; the clock compensation of the ports    *)
(* (ulStoppedTimerCompensation) and the fractional tick of RISC-V are zero *)
(* here, and no time passes while a timer is stopped or between its being  *)
(* read and stopped.                                                       *)
(***************************************************************************)
EXTENDS Scheduler

CONSTANTS
  Ports,                   \* the ports the instance chooses from
  ulTimerCountsForOneTick, \* timer counts in a tick
  MaxSuppressedTicks,      \* what the timers of Cortex-M and A9 can hold
  MaxLatency               \* bound on the counts an interrupt waits

ASSUME TicklessAssumption ==
  /\ Ports \subseteq {"cortex_m", "cortex_a9", "riscv32", "cortex_a53"}
  /\ ulTimerCountsForOneTick \in Nat /\ ulTimerCountsForOneTick >= 2
  /\ MaxSuppressedTicks \in Nat /\ MaxSuppressedTicks >= 2
  /\ MaxLatency \in Nat /\ 2 * MaxLatency <= ulTimerCountsForOneTick

VARIABLE hw  \* the timer, and the local variables of the port's sleep

tvars == <<vars, hw>>

K == ulTimerCountsForOneTick

configEXPECTED_IDLE_TIME_BEFORE_SLEEP == 2

\* left is the counts to the next expiry, not above zero when a compare value
\* has passed; reload what the timer then starts from, fired its count flag, tick a
\* pending tick interrupt and other a pending interrupt of another device.  Of
\* the sleep: the expected idle time, the counts left of the tick it began in,
\* what was read at the wake and, which no code reads, since, the counts since the
\* last tick the kernel had counted when the sleep began.
TicklessInit ==
  /\ SchedulerInit
  /\ \E port \in Ports :
       hw = [port |-> port, left |-> K, reload |-> K - 1, fired |-> FALSE,
             tick |-> FALSE, other |-> FALSE,
             expected |-> 0, remaining |-> 0, atWake |-> 0, since |-> 0]

Compares == hw.port \in {"riscv32", "cortex_a53"}

TickPending == IF Compares THEN hw.left <= 0 ELSE hw.tick

IdleAt(p) == pc[Idle] = p

\* cpsid, DAIF or MIE keeps every handler out.
Masked == \E p \in {"masked", "asleep", "stopped"} : IdleAt(p)

Sleeping == Masked \/ IdleAt("window")

\* Interrupts that are pending come before the next instruction.
Quiet == ~TickPending /\ ~hw.other
-----------------------------------------------------------------------------
(* The hardware.                                                           *)

SinceExpiry == IF Compares THEN -hw.left ELSE hw.reload + 1 - hw.left

\* A pending tick, and the handlers that a tick that woke the processor comes
\* with, wait or take MaxLatency counts; no delay suspends the scheduler for
\* more than MaxPendedTicks.
InTime ==
  /\ TickPending \/ (hw.fired /\ hw.port = "cortex_m") =>
       SinceExpiry < MaxLatency
  /\ hw.left = 1 => os.pendedTicks < MaxPendedTicks

TimerStopped == hw.port = "cortex_a9" /\ (IdleAt("window") \/ IdleAt("stopped"))

Count ==
  /\ os.running /\ InTime /\ ~TimerStopped
  /\ hw' = LET next == [hw EXCEPT !.left = @ - 1,
                                  !.since = IF Sleeping THEN @ + 1 ELSE @]
           IN  IF Compares \/ hw.left > 1
                 THEN next
                 ELSE [next EXCEPT !.left = hw.reload + 1,
                                   !.fired = Sleeping, !.tick = TRUE]
  /\ UNCHANGED vars

DeviceInterrupts ==
  /\ Masked /\ ~hw.other
  /\ hw' = [hw EXCEPT !.other = TRUE]
  /\ UNCHANGED vars

\* The handler of a device makes no kernel call, or resumes a task.
DeviceHandler ==
  /\ InterruptsEnabled /\ ~Masked
  /\ \/ hw.other /\ UNCHANGED vars
     \/ \E x \in Handles : xTaskResumeFromISR(x)
  /\ hw' = [hw EXCEPT !.other = FALSE]

\* SysTick's pending bit clears itself and the SP804 handler clears INTCLR;
\* vPortUpdateTimerCompare of RISC-V moves the compare value on by a tick, the
\* Cortex-A53 application sets it a tick from now.
Acknowledged ==
  CASE hw.port = "riscv32"    -> [hw EXCEPT !.left = @ + K]
    [] hw.port = "cortex_a53" -> [hw EXCEPT !.left = K]
    [] OTHER                  -> [hw EXCEPT !.tick = FALSE]

TickHandler ==
  /\ TickPending /\ ~Masked
  /\ TickISR
  /\ hw' = Acknowledged
-----------------------------------------------------------------------------
(* The idle task.                                                          *)

prvGetExpectedIdleTime(k) ==
  IF k.prio[k.current] > 0 \/ LengthOf(k, 0) > 1 \/ k.topReady > 0
    THEN 0
    ELSE WrappingSub(k.nextUnblock, k.tick)

WorthSleeping(k) ==
  prvGetExpectedIdleTime(k) >= configEXPECTED_IDLE_TIME_BEFORE_SLEEP

IdleGoes(p) == Goto(Idle, p) /\ UNCHANGED locals

IdleConsidersSleep ==
  /\ At(Idle, "app") /\ WorthSleeping(os)
  /\ IdleGoes("sleepSuspend")
  /\ UNCHANGED <<os, hw>>

IdleSuspendsAll ==
  /\ At(Idle, "sleepSuspend")
  /\ os' = vTaskSuspendAll(os)
  /\ IdleGoes("sleepExpect")
  /\ UNCHANGED hw

IdleExpects ==
  /\ At(Idle, "sleepExpect")
  /\ os' = configASSERT(os, os.nextUnblock >= os.tick)
  /\ IF WorthSleeping(os)
       THEN /\ IdleGoes("sleepMask")
            /\ hw' = [hw EXCEPT !.expected = prvGetExpectedIdleTime(os)]
       ELSE IdleGoes("resumeThenReturn") /\ UNCHANGED hw

eTaskConfirmSleepModeStatus(k) ==
  IF ~IsEmpty(k, xPendingReadyList) \/ k.yieldPending \/ k.pendedTicks # 0
    THEN "eAbortSleep"
  ELSE IF LengthOf(k, xSuspendedTaskList) = k.numTasks - 1
    THEN "eNoTasksWaitingTimeout"
    ELSE "eStandardSleep"

\* Up to the deadline, the last tick of the jump is pended.
vTaskStepTick(k, n) ==
  LET updated == WrappingAdd(k.tick, n)
      k1      == configASSERT(k, updated <= k.nextUnblock)
  IN  IF updated = k.nextUnblock
        THEN [configASSERT(configASSERT(k1, k.suspended # 0), n # 0) EXCEPT
                !.pendedTicks = @ + 1, !.tick = WrappingAdd(@, n - 1)]
        ELSE [k1 EXCEPT !.tick = updated]
-----------------------------------------------------------------------------
(* vPortSuppressTicksAndSleep.                                             *)

LimitedIdleTime ==
  IF hw.port \in {"cortex_m", "cortex_a9"} /\ hw.expected > MaxSuppressedTicks
    THEN MaxSuppressedTicks ELSE hw.expected

Awake == [hw EXCEPT !.expected = 0, !.remaining = 0, !.atWake = 0,
                    !.since = 0, !.fired = FALSE]

\* Mutant: the status is confirmed while handlers can still run.
ConfirmUnmasked ==
  /\ At(Idle, "sleepMask")
  /\ IdleGoes("masked")
  /\ hw' = [hw EXCEPT !.expected = LimitedIdleTime, !.since = K - hw.left]
  /\ UNCHANGED os

ConfirmSleep ==
  /\ At(Idle, "sleepMask")
  /\ IF eTaskConfirmSleepModeStatus(os) = "eAbortSleep"
       THEN IdleGoes("resumeThenReturn") /\ hw' = Awake
       ELSE /\ IdleGoes("masked")
            /\ hw' = [hw EXCEPT !.expected = LimitedIdleTime, !.since = K - hw.left]
  /\ UNCHANGED os

\* Mutant: a pending tick is not taken off the sleep.
SuppressCortexMForgetsTick ==
  LET reload == hw.left + K * (hw.expected - 1)
  IN  [hw EXCEPT !.reload = reload, !.left = reload + 1, !.tick = FALSE,
                 !.fired = FALSE]

\* SysTick counts one more than its reload value.  A tick that is pending when
\* the timer is stopped is part of the sleep.
SuppressCortexM ==
  LET reload == hw.left + K * (hw.expected - 1) - (IF hw.tick THEN K ELSE 0)
  IN  [hw EXCEPT !.reload = reload, !.left = reload + 1, !.tick = FALSE,
                 !.fired = FALSE]

AtLeastOne(n) == IF n < 1 THEN 1 ELSE n

\* The reload for the sleep and then, once it has started, for single ticks.
SuppressCortexA9 ==
  LET remaining == IF hw.left > K THEN K ELSE hw.left
      reload    == AtLeastOne(remaining + K * (hw.expected - 1) - 1)
  IN  [hw EXCEPT !.left = reload + 1, !.reload = K - 1, !.tick = FALSE,
                 !.fired = FALSE, !.remaining = remaining]

SuppressRiscV == [hw EXCEPT !.left = @ + K * (hw.expected - 1)]

SuppressCortexA53 ==
  LET remaining == IF hw.left > 0 THEN hw.left ELSE 0
  IN  [hw EXCEPT !.left = remaining + K * (hw.expected - 1),
                 !.remaining = remaining]

SuppressTicks ==
  /\ IdleAt("masked")
  /\ hw' = CASE hw.port = "cortex_m"   -> SuppressCortexM
             [] hw.port = "cortex_a9"  -> SuppressCortexA9
             [] hw.port = "riscv32"    -> SuppressRiscV
             [] hw.port = "cortex_a53" -> SuppressCortexA53
  /\ IdleGoes("asleep")
  /\ UNCHANGED os

\* WFI ends with any pending interrupt.  The Cortex-A ports then read the
\* timer, and the A9 stops it; RISC-V lets no handler in before it has corrected the tick count.
WakeUp ==
  /\ IdleAt("asleep") /\ ~Quiet
  /\ CASE hw.port = "cortex_m"   -> IdleGoes("window") /\ UNCHANGED hw
       [] hw.port = "cortex_a9"  ->
            /\ IdleGoes("window")
            /\ hw' = [hw EXCEPT !.atWake = hw.left, !.fired = hw.tick]
       [] hw.port = "riscv32"    -> IdleGoes("stopped") /\ UNCHANGED hw
       [] hw.port = "cortex_a53" ->
            /\ IdleGoes("window")
            /\ hw' = [hw EXCEPT !.atWake = hw.since]
  /\ UNCHANGED os

MaskAgain ==
  /\ IdleAt("window") /\ InterruptsEnabled /\ Quiet
  /\ IdleGoes("stopped")
  /\ UNCHANGED <<os, hw>>

\* The first boundary after the one the sleep ended at comes counts later.
Corrected(stepped, timer) ==
  os' = vTaskStepTick(os, stepped) /\ hw' = timer

\* SysTick has loaded what is left of the tick, in one count, when its reload
\* value becomes that of a tick again.
CorrectCortexM ==
  LET current   == IF hw.left = hw.reload + 1 THEN 0 ELSE hw.left
      load      == (K - 1) - (hw.reload - current)
      slept     == hw.expected * K - (IF current = 0 THEN hw.reload ELSE current)
      first     == IF hw.fired
                     THEN IF load <= 0 \/ load > K THEN K - 1 ELSE load
                     ELSE ((slept \div K) + 1) * K - slept
  IN  Corrected(IF hw.fired THEN hw.expected - 1 ELSE slept \div K,
                [Awake EXCEPT !.left = first, !.reload = K - 1])

CorrectCortexA9 ==
  LET reload  == hw.remaining + K * (hw.expected - 1)
      elapsed == IF hw.fired
                   THEN reload + K - (IF hw.atWake > K THEN K ELSE hw.atWake)
                 ELSE IF reload >= hw.atWake THEN reload - hw.atWake ELSE 0
      counts  == K - hw.remaining + elapsed
      whole   == counts \div K
  IN  Corrected(IF hw.fired /\ whole > hw.expected - 1 THEN hw.expected - 1
                                                       ELSE whole,
                [Awake EXCEPT !.left = AtLeastOne(K - 1 - (counts % K)) + 1,
                              !.tick = FALSE])

\* The boundaries passed are the multiples of a tick from the first, at first
\* counts from now.
CorrectRiscV ==
  LET first  == hw.left - K * (hw.expected - 1)
      passed == Cardinality({i \in 0..(hw.expected - 1) : first + i * K <= 0})
  IN  IF hw.left <= 0
        THEN Corrected(hw.expected - 1, Awake)
        ELSE Corrected(passed, [Awake EXCEPT !.left = first + passed * K])

\* Counts from the beginning of the sleep, not of the tick it began in.
CorrectCortexA53 ==
  LET elapsed == hw.atWake - (K - hw.remaining)
      whole   == elapsed \div K
  IN  Corrected(IF whole > hw.expected - 1 THEN hw.expected - 1 ELSE whole,
                [Awake EXCEPT !.left = hw.atWake + K - (elapsed % K) - hw.since])

CorrectTickCount ==
  /\ IdleAt("stopped")
  /\ CASE hw.port = "cortex_m"   -> CorrectCortexM
       [] hw.port = "cortex_a9"  -> CorrectCortexA9
       [] hw.port = "riscv32"    -> CorrectRiscV
       [] hw.port = "cortex_a53" -> CorrectCortexA53
  /\ IdleGoes("resumeThenReturn")

Sleep ==
  \/ SuppressTicks \/ WakeUp \/ MaskAgain \/ CorrectTickCount

IdleSleeps ==
  IdleConsidersSleep \/ IdleSuspendsAll \/ IdleExpects \/ ConfirmSleep
-----------------------------------------------------------------------------
TaskStep == IdleStep \/ \E t \in Tasks : Call(t) \/ Continue(t)

TicklessNext ==
  \/ (Start \/ MaskedStep) /\ UNCHANGED hw
  \/ (TaskStep \/ ContextSwitch) /\ Quiet /\ ~Masked /\ UNCHANGED hw
  \/ IdleSleeps /\ Quiet
  \/ Sleep \/ Count \/ TickHandler \/ DeviceInterrupts \/ DeviceHandler

TicklessSpec == TicklessInit /\ [][TicklessNext]_tvars
-----------------------------------------------------------------------------
(* Properties.                                                             *)

\* Counts the next tick interrupt may come late by after a sleep, whatever ended
\* it: SysTick counts one more than it is loaded with, at each of the two loads, and
\* the SP804 is loaded with one at least.
Slippage(timer) ==
  CASE timer.port = "cortex_m"  -> 1..2
    [] timer.port = "cortex_a9" -> 0..1
    [] OTHER                    -> {0}

\* Counts to the first tick the kernel has not been told of.
NextTick(timer) ==
  IF timer.port \in {"cortex_m", "cortex_a9"} /\ timer.tick
    THEN timer.left - K ELSE timer.left

RestartCounts == IF hw.port = "cortex_m" THEN 1 ELSE 0

\* A sleep keeps the time: whatever ended it and whatever interrupts came while
\* the port corrected the tick count, the ticks it has counted and pended and the
\* next tick interrupt agree with the counts that have passed.
SleepKeepsTime ==
  [][ CorrectTickCount =>
        LET ticked == os'.tick + os'.pendedTicks - os.tick
        IN  NextTick(hw') - (K * (1 + ticked) - hw.since - RestartCounts)
              \in Slippage(hw) ]_tvars

\* The processor sleeps with nothing to do, and not past the next wake time: no
\* task is ready, pending ready or due with a pended tick when it falls asleep,
\* and the timer ends the sleep when the first delayed task is due, SysTick with
\* the one count that its restart takes.  The kernel finds the steps of the tick
\* count it is asked for possible.
SleepEndsInTime ==
  /\ NoAssertFails
  /\ IdleAt("asleep") =>
       /\ IsEmpty(os, xPendingReadyList) /\ ~os.yieldPending /\ os.pendedTicks = 0
       /\ \A t \in Tasks \ {Idle} : ~IsReady(os, t)
       /\ Quiet => \A t \in ItemsOf(os, os.delayed) :
            hw.left <= K * (os.wake[t] - os.tick) - hw.since + RestartCounts
=============================================================================

-------------------------- MODULE SchedulerProofs --------------------------
(***************************************************************************)
(* Invariants of SchedulerSpec, for every set of tasks, every number of    *)
(* priorities, every width of the tick count and all of the calls.         *)
(***************************************************************************)
EXTENDS Scheduler, TasksProofs

\* Tasks that do not exist or are about to cease to.
Dead == {"none", "deleteYield", "deleted"}

\* Locations between a vTaskSuspendAll and its xTaskResumeAll, those of calls on
\* event groups included.
Suspending == {"delay", "delayUntil", "resumeThenYield", "resumeThenReturn",
               "abort", "abortEvent", "groupResume"}

\* The loops of xTaskResumeAll and xTaskIncrementTick.
Loops == {"drain", "ticks", "unblock", "unblockISR"}

LocalsOK ==
  /\ pc = [u \in Tasks |-> pc[u]]
  /\ target \in [Tasks -> Tasks]
  /\ ticks \in [Tasks -> Ticks]
  /\ lastWake \in [Tasks -> Ticks]

\* A task that is not created is in no list, one that is deleted at most in
\* the list of those that the idle task is to free, and only such are there.
DeadUnlinked ==
  \A t \in Tasks :
    /\ pc[t] \in Dead => /\ os.stateList[t] \in {NoList, xTasksWaitingTermination}
                         /\ os.eventList[t] = NoList
    /\ pc[t] = "none" => os.stateList[t] = NoList
    /\ os.stateList[t] = xTasksWaitingTermination => pc[t] \in Dead

\* A task that has suspended the scheduler keeps the processor, and what a
\* call in progress knows of its target still holds.
CallsValid ==
  \A t \in Tasks :
    /\ pc[t] \in Suspending => os.current = t /\ os.suspended > 0 /\ os.running
    /\ pc[t] \in {"abort", "abortEvent"} => pc[target[t]] \notin Dead
    /\ pc[t] = "abortEvent" => os.stateList[target[t]] = NoList
    /\ pc[t] = "deleteFree" => /\ pc[target[t]] = "deleted"
                               /\ os.stateList[target[t]] = NoList
    /\ \A u \in Tasks :
         /\ t # u /\ pc[t] = "deleteFree" /\ pc[u] = "deleteFree"
         => target[t] # target[u]

ControlValid ==
  /\ os.running => os.current \in Tasks
  /\ ~os.running => /\ os.stage = "run"
                    /\ \A t \in Tasks : pc[t] \in {"none", "app"}
                    /\ pc[Idle] = "none"
  /\ os.stage \in Loops => os.suspended = 0
  /\ TickCounted(os)
  /\ os.numDeleted <= Ending(os)

\* The inductive invariant.
IInv == Sound(os) /\ LocalsOK /\ DeadUnlinked /\ CallsValid /\ ControlValid

LEMMA InitIInv == SchedulerInit => IInv
<1> SUFFICES ASSUME SchedulerInit PROVE IInv
  OBVIOUS
<1> USE DEF SchedulerInit
<1>1. vListInitialise \in ListOf(Tasks)
  BY EmptySeq DEF vListInitialise, ListOf
<1>2. /\ 0 \in Ticks /\ configINITIAL_TICK_COUNT \in Ticks
      /\ 0 \in Priorities /\ 0 \in 0..MaxOverflows /\ 0 \in 0..MaxNotifyValue
      /\ configMAX_PRIORITIES \in 1..configMAX_PRIORITIES
  BY TasksAssumption DEF Ticks, Priorities
<1>3. os \in Kernel
  <2> HIDE DEF vListInitialise
  <2>1. QED BY <1>1, <1>2 DEF KernelInit, Kernel, NotifyStates, Stages
<1>4. /\ os.lists = [l \in Lists |-> vListInitialise]
      /\ os.stateList = [t \in Tasks |-> NoList]
      /\ os.eventList = [t \in Tasks |-> NoList]
      /\ os.stage = "run" /\ os.running = FALSE /\ os.suspended = 0
      /\ os.numDeleted = 0
  BY DEF KernelInit
<1>5. \A l \in Lists : os.lists[l].items = << >>
  BY <1>4 DEF vListInitialise
<1>6. \A l \in Lists : ItemsOf(os, l) = {} /\ LengthOf(os, l) = 0
  BY <1>5 DEF ItemsOf, LengthOf, ToSet
<1>7. Consistent(os)
  <2>1. \A l \in Lists : l # NoList
    BY ListNames
  <2>2. \A l \in Lists : IsInjective(os.lists[l].items)
    BY <1>5 DEF IsInjective
  <2>3. QED BY <2>1, <2>2, <1>4, <1>6 DEF Consistent, Lists
<1>8. NoList \notin Priorities /\ NoList # xTasksWaitingTermination
  BY ListNames DEF Lists
<1>9. Sound(os)
  BY <1>3, <1>4, <1>7, <1>8 DEF Sound, Good, Orderly
<1>10. LocalsOK
  BY <1>2 DEF LocalsOK, Locations
<1>11. DeadUnlinked
  BY <1>4, <1>8 DEF DeadUnlinked, Dead
<1>12. CallsValid
  BY DEF CallsValid, Suspending
<1>13. ControlValid
  <2>1. Ending(os) = 0
    BY <1>6, ListNames DEF Ending, Lists
  <2>2. QED BY <2>1, <1>4, TasksAssumption DEF ControlValid, TickCounted
<1>14. QED BY <1>9, <1>10, <1>11, <1>12, <1>13 DEF IInv
-----------------------------------------------------------------------------
(* Steps that create or delete no task.                                    *)

\* A task is unlinked only if it lives, and no other task becomes one that
\* waits for its termination.
LiveMove ==
  \A u \in Tasks :
    \/ /\ os'.stateList[u] = os.stateList[u]
       /\ os'.eventList[u] \in {os.eventList[u], NoList}
    \/ pc[u] \notin Dead /\ os'.stateList[u] # xTasksWaitingTermination

KernelStep ==
  /\ os.running /\ os'.running
  /\ Sound(os') /\ LiveMove /\ TickCounted(os')
  /\ os'.current \in Tasks
  /\ os'.stage \in Loops => os'.suspended = 0
  /\ os'.numDeleted = os.numDeleted /\ Ending(os') = Ending(os)

LEMMA LiveMoveKeepsDead ==
  ASSUME IInv, LiveMove
  PROVE  \A u \in Tasks :
           /\ pc[u] \in Dead =>
                /\ os'.stateList[u] = os.stateList[u]
                /\ os'.stateList[u] \in {NoList, xTasksWaitingTermination}
                /\ os'.eventList[u] = NoList
           /\ pc[u] \notin Dead => os'.stateList[u] # xTasksWaitingTermination
BY DEF IInv, DeadUnlinked, LiveMove

\* An interrupt handler, a context switch or a masked loop.
LEMMA InterruptStep ==
  ASSUME IInv, KernelStep, UNCHANGED <<pc, locals>>,
         os'.suspended = os.suspended,
         os.suspended > 0 =>
           /\ os'.current = os.current
           /\ \A u \in Tasks : os.stateList[u] = NoList => os'.stateList[u] = NoList
  PROVE  IInv'
<1>1. UNCHANGED <<pc, target, ticks, lastWake>>
  BY DEF locals
<1>2. LocalsOK' /\ LocalsOK
  BY <1>1 DEF IInv, LocalsOK
<1>3. DeadUnlinked'
  BY <1>1, LiveMoveKeepsDead DEF IInv, DeadUnlinked, KernelStep, Dead
<1>4. CallsValid'
  <2>1. \A t \in Tasks : target[t] \in Tasks
    BY <1>2 DEF LocalsOK
  <2>2. \A t \in Tasks :
          pc[t] \in Suspending => os'.current = t /\ os'.suspended > 0 /\ os'.running
    BY DEF IInv, CallsValid, KernelStep
  <2>3. \A t \in Tasks : pc[t] = "abortEvent" => os'.stateList[target[t]] = NoList
    BY <2>1 DEF IInv, CallsValid, Suspending
  <2>4. \A t \in Tasks : pc[t] = "deleteFree" => os'.stateList[target[t]] = NoList
    BY <2>1, LiveMoveKeepsDead DEF IInv, CallsValid, KernelStep, Dead
  <2>5. QED BY <1>1, <2>1, <2>2, <2>3, <2>4 DEF IInv, CallsValid
<1>5. ControlValid'
  BY DEF IInv, ControlValid, KernelStep
<1>6. QED BY <1>2, <1>3, <1>4, <1>5 DEF IInv, KernelStep

\* The running task moves on to location p.
LEMMA TaskStep ==
  ASSUME IInv, KernelStep, NEW t \in Tasks, os.current = t, os'.current = t,
         pc[t] \notin Dead,
         NEW p, p \notin Dead, p # "deleteFree",
         pc' = [pc EXCEPT ![t] = p],
         target' \in [Tasks -> Tasks], ticks' \in [Tasks -> Ticks],
         lastWake' \in [Tasks -> Ticks],
         \A u \in Tasks \ {t} : target'[u] = target[u],
         p \in Suspending => os'.suspended > 0,
         p \in {"abort", "abortEvent"} => pc[target'[t]] \notin Dead,
         p = "abortEvent" => os'.stateList[target'[t]] = NoList
  PROVE  IInv'
<1>1. LocalsOK /\ pc = [u \in Tasks |-> pc[u]]
  BY DEF IInv, LocalsOK
<1>2. LocalsOK'
  BY <1>1 DEF LocalsOK
<1>3. /\ pc'[t] = p
      /\ \A u \in Tasks \ {t} : pc'[u] = pc[u]
  BY <1>1
<1>4. \A u \in Tasks : pc'[u] \in Dead <=> pc[u] \in Dead
  BY <1>3
<1>5. DeadUnlinked'
  <2>1. \A u \in Tasks : pc'[u] = "none" => pc[u] = "none"
    BY <1>3 DEF Dead
  <2>2. \A u \in Tasks : pc[u] = "none" => os'.stateList[u] = NoList
    BY LiveMoveKeepsDead DEF IInv, DeadUnlinked, KernelStep, Dead
  <2>3. QED BY <1>4, <2>1, <2>2, LiveMoveKeepsDead DEF DeadUnlinked, KernelStep
<1>6. CallsValid'
  <2>1. ASSUME NEW u \in Tasks, u # t
        PROVE  /\ pc'[u] = pc[u] /\ target'[u] = target[u]
               /\ pc'[u] \notin Suspending
               /\ pc'[u] \notin {"abort", "abortEvent"}
    BY <2>1, <1>3 DEF IInv, CallsValid, Suspending
  <2>2. ASSUME NEW u \in Tasks, pc'[u] = "deleteFree"
        PROVE  /\ u # t /\ pc[u] = "deleteFree" /\ target'[u] = target[u]
               /\ pc'[target'[u]] = "deleted"
               /\ os'.stateList[target'[u]] = NoList
    <3>1. u # t /\ pc[u] = "deleteFree" /\ target'[u] = target[u]
      BY <2>2, <1>3
    <3>2. target[u] \in Tasks /\ pc[target[u]] = "deleted"
          /\ os.stateList[target[u]] = NoList
      BY <3>1, <1>1 DEF IInv, CallsValid, LocalsOK
    <3>3. target[u] # t
      BY <3>2 DEF Dead
    <3>4. os'.stateList[target[u]] = NoList
      BY <3>2, LiveMoveKeepsDead DEF KernelStep, Dead
    <3>5. QED BY <3>1, <3>2, <3>3, <3>4, <1>3
  <2>3. \A u, v \in Tasks :
          u # v /\ pc'[u] = "deleteFree" /\ pc'[v] = "deleteFree" =>
            target'[u] # target'[v]
    BY <2>2 DEF IInv, CallsValid
  <2>4. p \in {"abort", "abortEvent"} => pc'[target'[t]] \notin Dead
    <3>1. target'[t] \in Tasks
      OBVIOUS
    <3>2. QED BY <3>1, <1>4
  <2>5. p \in Suspending => os'.current = t /\ os'.suspended > 0 /\ os'.running
    BY DEF KernelStep
  <2>6. ASSUME NEW u \in Tasks
        PROVE  /\ pc'[u] \in Suspending =>
                    os'.current = u /\ os'.suspended > 0 /\ os'.running
               /\ pc'[u] \in {"abort", "abortEvent"} => pc'[target'[u]] \notin Dead
               /\ pc'[u] = "abortEvent" => os'.stateList[target'[u]] = NoList
    BY <2>1, <2>4, <2>5, <1>3
  <2>7. QED BY <2>2, <2>3, <2>6 DEF CallsValid
<1>7. ControlValid'
  BY DEF IInv, ControlValid, KernelStep
<1>8. QED BY <1>2, <1>5, <1>6, <1>7 DEF IInv, KernelStep
-----------------------------------------------------------------------------
(* The kernel functions as steps.                                          *)

LEMMA IInvFacts ==
  ASSUME IInv
  PROVE  /\ Sound(os) /\ Good(os) /\ os \in Kernel
         /\ pc = [u \in Tasks |-> pc[u]] /\ target \in [Tasks -> Tasks]
         /\ ticks \in [Tasks -> Ticks] /\ lastWake \in [Tasks -> Ticks]
BY DEF IInv, Sound, Good, LocalsOK

\* A task that lives is in no termination list.
LEMMA LiveNotEnding ==
  ASSUME IInv, NEW x \in Tasks, pc[x] \notin Dead
  PROVE  os.stateList[x] # xTasksWaitingTermination
BY DEF IInv, DeadUnlinked

LEMMA RunningFacts ==
  ASSUME IInv, NEW t \in Tasks, Running(t)
  PROVE  /\ os.running /\ os.stage = "run" /\ os.current = t
         /\ \A u \in Tasks : u # t => pc[u] \notin Suspending
BY DEF IInv, CallsValid, Running

\* A function that leaves the control of the kernel alone.
LEMMA SettledStep ==
  ASSUME IInv, os.running, Sound(os'), SameControl(os, os'),
         Ending(os') = Ending(os), LiveMove
  PROVE  KernelStep /\ os'.current = os.current /\ os'.suspended = os.suspended
BY DEF IInv, ControlValid, KernelStep, SameControl, TickCounted

LEMMA UnmovedStep ==
  ASSUME os'.stateList = os.stateList, os'.eventList = os.eventList
  PROVE  LiveMove
BY DEF LiveMove

LEMMA ListsDiffer ==
  /\ NoList \notin Priorities /\ NoList # xTasksWaitingTermination
  /\ xSuspendedTaskList \notin Priorities
  /\ xSuspendedTaskList # xTasksWaitingTermination
  /\ xTasksWaitingTermination \notin Priorities
  /\ xDelayedTaskList1 # xTasksWaitingTermination
  /\ xDelayedTaskList2 # xTasksWaitingTermination
BY TasksAssumption
DEF Priorities, NoList, xTasksWaitingTermination, xSuspendedTaskList,
    xDelayedTaskList1, xDelayedTaskList2

LEMMA YieldStep ==
  ASSUME IInv, NEW t \in Tasks, Running(t), NEW cond \in BOOLEAN,
         os' = YieldIf(os, cond)
  PROVE  KernelStep /\ os'.current = t /\ os'.suspended = os.suspended
<1>1. Sound(os') /\ SameControl(os, os') /\ SameLinks(os, os')
      /\ Ending(os') = Ending(os)
  BY IInvFacts, YieldSound
<1>2. LiveMove
  BY <1>1, UnmovedStep DEF SameLinks
<1>3. QED BY <1>1, <1>2, SettledStep, RunningFacts

LEMMA PortYieldIsYieldIf == \A k : portYIELD(k) = YieldIf(k, TRUE)
BY DEF YieldIf

LEMMA SuspendAllStep ==
  ASSUME IInv, NEW t \in Tasks, Running(t), os' = vTaskSuspendAll(os)
  PROVE  KernelStep /\ os'.current = t /\ os'.suspended > 0
<1>1. /\ Sound(os') /\ SameLinks(os, os') /\ Ending(os') = Ending(os)
      /\ SameControl([os EXCEPT !.suspended = @ + 1], os')
  BY IInvFacts, SuspendAllSound
<1>2. /\ os'.current = os.current /\ os'.running = os.running
      /\ os'.stage = os.stage /\ os'.pendedTicks = os.pendedTicks
      /\ os'.numDeleted = os.numDeleted /\ os'.suspended = os.suspended + 1
      /\ os.suspended \in Nat
  BY <1>1, IInvFacts DEF SameControl, Kernel
<1>3. LiveMove
  BY <1>1, UnmovedStep DEF SameLinks
<1>4. QED BY <1>1, <1>2, <1>3, RunningFacts DEF KernelStep, TickCounted, Loops

LEMMA ResumeAllStep ==
  ASSUME IInv, NEW t \in Tasks, Running(t), os.suspended > 0,
         os' = xTaskResumeAll(os)
  PROVE  KernelStep /\ os'.current = t
<1>1. /\ Sound(os') /\ SameLinks(os, os') /\ Ending(os') = Ending(os)
      /\ SameControl([os EXCEPT !.suspended = @ - 1, !.stage = os'.stage], os')
      /\ \/ os'.stage = os.stage
         \/ os'.stage = "drain" /\ os'.suspended = 0
  BY IInvFacts, RunningFacts, ResumeAllSound
<1>2. /\ os'.current = os.current /\ os'.running = os.running
      /\ os'.pendedTicks = os.pendedTicks
      /\ os'.numDeleted = os.numDeleted
  BY <1>1, IInvFacts DEF SameControl, Kernel
<1>3. LiveMove
  BY <1>1, UnmovedStep DEF SameLinks
<1>4. QED BY <1>1, <1>2, <1>3, RunningFacts DEF KernelStep, TickCounted, Loops
-----------------------------------------------------------------------------
(* Each action preserves the invariant.  First the scheduler and delays.   *)

LEMMA ResumeActions ==
  ASSUME IInv, NEW t \in Tasks,
         ResumeThenYield(t) \/ ResumeThenReturn(t) \/ ResumeScheduler(t)
  PROVE  IInv'
<1>1. Running(t) /\ os.suspended > 0 /\ os' = xTaskResumeAll(os)
  BY DEF ResumeThenYield, ResumeThenReturn, ResumeScheduler, At, MayCall,
         IInv, CallsValid, Suspending
<1>2. KernelStep /\ os.current = t /\ os'.current = t
  BY <1>1, ResumeAllStep, RunningFacts
<1>3. UNCHANGED <<target, ticks, lastWake>>
  BY DEF ResumeThenYield, ResumeThenReturn, ResumeScheduler, locals
<1>4. PICK p \in {"app", "yieldUnlessYielded"} : pc' = [pc EXCEPT ![t] = p]
  BY IInvFacts DEF ResumeThenYield, ResumeThenReturn, ResumeScheduler, At,
                   MayCall, Goto
<1>5. pc[t] \notin Dead
  BY DEF ResumeThenYield, ResumeThenReturn, ResumeScheduler, At, MayCall, Dead
<1>6. /\ p \in Locations /\ p \notin Dead /\ p # "deleteFree"
      /\ p \notin Suspending
  BY <1>4 DEF Locations, Dead, Suspending
<1>7. p \notin {"abort", "abortEvent"}
  BY <1>4
<1>8. QED BY <1>2, <1>3, <1>4, <1>5, <1>6, <1>7, TaskStep, IInvFacts

LEMMA YieldActions ==
  ASSUME IInv, NEW t \in Tasks,
         \/ YieldUnlessYielded(t) \/ taskYIELD(t) \/ SuspendYields(t)
         \/ CreateYields(t)
  PROVE  IInv'
<1>1. Running(t)
  BY DEF YieldUnlessYielded, taskYIELD, SuspendYields, CreateYields, At, MayCall
<1>2. os.current = t
  BY <1>1, RunningFacts
<1>3. KernelStep /\ os'.current = t
  <2>1. CASE YieldUnlessYielded(t)
    <3> DEFINE q == [os EXCEPT !.yielded[t] = FALSE]
    <3>1. q \in Kernel /\ SameControl(os, q) /\ SameLinks(os, q)
      BY IInvFacts, ZenonT(60) DEF Kernel, SameControl, SameLinks
    <3>2. (~os.yielded[t]) \in BOOLEAN /\ os' = YieldIf(q, ~os.yielded[t])
      BY <2>1 DEF YieldUnlessYielded
    <3> HIDE DEF q
    <3>3. Sound(q) /\ Ending(q) = Ending(os)
      BY <3>1, SameLinksSound, IInvFacts DEF SameControl
    <3>4. Sound(os') /\ SameControl(q, os') /\ SameLinks(q, os')
          /\ Ending(os') = Ending(q)
      BY <3>2, <3>3, YieldSound
    <3>5. SameControl(os, os') /\ SameLinks(os, os') /\ LiveMove
      BY <3>1, <3>4, UnmovedStep DEF SameControl, SameLinks
    <3>6. QED BY <3>3, <3>4, <3>5, SettledStep, <1>1, RunningFacts
  <2>2. CASE taskYIELD(t)
    BY <1>1, <2>2, YieldStep, PortYieldIsYieldIf DEF taskYIELD
  <2>3. CASE SuspendYields(t)
    <3>1. (target[t] = os.current) \in BOOLEAN /\ os' = YieldIf(os, target[t] = os.current)
      BY <2>3 DEF SuspendYields
    <3>2. QED BY <1>1, <3>1, YieldStep
  <2>4. CASE CreateYields(t)
    <3>1. PICK yields \in BOOLEAN : os' = YieldIf(os, yields)
      <4>1. (os.prio[os.current] < os.prio[target[t]]) \in BOOLEAN
        BY <1>2, IInvFacts, PriorityComparison
      <4>2. QED BY <2>4, <4>1 DEF CreateYields
    <3>2. QED BY <1>1, <3>1, YieldStep
  <2>5. QED BY <2>1, <2>2, <2>3, <2>4
<1>4. /\ target' \in [Tasks -> Tasks] /\ ticks' \in [Tasks -> Ticks]
      /\ lastWake' \in [Tasks -> Ticks]
      /\ \A u \in Tasks \ {t} : target'[u] = target[u]
  BY IInvFacts DEF YieldUnlessYielded, taskYIELD, SuspendYields, CreateYields, locals
<1>5. pc' = [pc EXCEPT ![t] = "app"] /\ pc[t] \notin Dead
  BY IInvFacts DEF YieldUnlessYielded, taskYIELD, SuspendYields, CreateYields,
                   Goto, At, MayCall, Dead
<1>6. /\ "app" \in Locations /\ "app" \notin Dead /\ "app" # "deleteFree"
      /\ "app" \notin Suspending /\ "app" \notin {"abort", "abortEvent"}
  BY DEF Locations, Dead, Suspending
<1>7. QED BY <1>2, <1>3, <1>4, <1>5, <1>6, TaskStep

\* The calls that begin with vTaskSuspendAll, and vTaskDelay(0).
LEMMA SuspendActions ==
  ASSUME IInv, NEW t \in Tasks,
         \/ \E n \in DelayTicks : vTaskDelay(t, n)
         \/ \E n \in Periods : xTaskDelayUntil(t, n)
         \/ SuspendScheduler(t)
         \/ \E x \in Handles : xTaskAbortDelay(t, x)
  PROVE  IInv'
<1>1. Running(t) /\ pc[t] = "app"
  BY DEF vTaskDelay, xTaskDelayUntil, SuspendScheduler, xTaskAbortDelay, At, MayCall
<1>2. os.current = t /\ pc[t] \notin Dead
  BY <1>1, RunningFacts DEF Dead
<1>3. "app" \notin Suspending /\ {"delay", "delayUntil", "app", "abort"} \subseteq Locations
      /\ {"delay", "delayUntil", "app", "abort"} \cap Dead = {}
  BY DEF Suspending, Locations, Dead
<1>4. ASSUME NEW n \in DelayTicks, vTaskDelay(t, n) PROVE IInv'
  <2>1. n \in Ticks /\ ticks' = [ticks EXCEPT ![t] = n]
        /\ UNCHANGED <<target, lastWake>>
    BY <1>4, SchedulerAssumption DEF vTaskDelay
  <2>2. CASE n > 0
    <3>1. os' = vTaskSuspendAll(os) /\ pc' = [pc EXCEPT ![t] = "delay"]
      BY <1>4, <2>2 DEF vTaskDelay, Goto
    <3>2. KernelStep /\ os'.current = t /\ os'.suspended > 0
      BY <1>1, <3>1, SuspendAllStep
    <3>3. QED BY <1>2, <1>3, <2>1, <3>1, <3>2, TaskStep, IInvFacts
  <2>3. CASE ~(n > 0)
    <3>1. os' = YieldIf(os, TRUE) /\ pc' = [pc EXCEPT ![t] = "app"]
      BY <1>1, <1>4, <2>3, PortYieldIsYieldIf, IInvFacts DEF vTaskDelay
    <3>2. KernelStep /\ os'.current = t
      BY <1>1, <3>1, YieldStep
    <3>3. QED BY <1>2, <1>3, <2>1, <3>1, <3>2, TaskStep, IInvFacts
  <2>4. QED BY <2>2, <2>3
<1>5. ASSUME NEW n \in Periods, xTaskDelayUntil(t, n) PROVE IInv'
  <2>1. n \in Ticks /\ ticks' = [ticks EXCEPT ![t] = n]
        /\ UNCHANGED <<target, lastWake>>
        /\ os' = vTaskSuspendAll(os) /\ pc' = [pc EXCEPT ![t] = "delayUntil"]
    BY <1>5, SchedulerAssumption DEF xTaskDelayUntil, Goto
  <2>2. KernelStep /\ os'.current = t /\ os'.suspended > 0
    BY <1>1, <2>1, SuspendAllStep
  <2>3. QED BY <1>2, <1>3, <2>1, <2>2, TaskStep, IInvFacts
<1>6. CASE SuspendScheduler(t)
  <2>1. /\ UNCHANGED <<target, ticks, lastWake>>
        /\ os' = vTaskSuspendAll(os) /\ pc' = [pc EXCEPT ![t] = "app"]
    BY <1>1, <1>6, IInvFacts DEF SuspendScheduler, locals
  <2>2. KernelStep /\ os'.current = t /\ os'.suspended > 0
    BY <1>1, <2>1, SuspendAllStep
  <2>3. QED BY <1>2, <1>3, <2>1, <2>2, TaskStep, IInvFacts
<1>7. ASSUME NEW x \in Handles, xTaskAbortDelay(t, x) PROVE IInv'
  <2>1. /\ x \in Tasks /\ pc[x] \notin Dead
        /\ target' = [target EXCEPT ![t] = x] /\ UNCHANGED <<ticks, lastWake>>
        /\ os' = vTaskSuspendAll(os) /\ pc' = [pc EXCEPT ![t] = "abort"]
    BY <1>7 DEF xTaskAbortDelay, Goto, Handles, Dead
  <2>2. KernelStep /\ os'.current = t /\ os'.suspended > 0
    BY <1>1, <2>1, SuspendAllStep
  <2>3. target'[t] = x /\ target' \in [Tasks -> Tasks]
        /\ \A u \in Tasks \ {t} : target'[u] = target[u]
    BY <2>1, IInvFacts
  <2>4. QED BY <1>2, <1>3, <2>1, <2>2, <2>3, TaskStep, IInvFacts
<1>8. QED BY <1>4, <1>5, <1>6, <1>7

LEMMA DelayStep ==
  ASSUME IInv, NEW t \in Tasks, Running(t), pc[t] \notin Dead, NEW n \in Ticks,
         os' = prvAddCurrentTaskToDelayedList(os, n, FALSE)
  PROVE  KernelStep /\ os'.current = t /\ os'.suspended = os.suspended
<1>1. os.current = t /\ os.running /\ Sound(os)
  BY RunningFacts, IInvFacts
<1>2. os.stateList[t] # xTasksWaitingTermination
  BY LiveNotEnding
<1>3. /\ Sound(os') /\ SameControl(os, os')
      /\ os'.stateList[t] \in {xSuspendedTaskList, xDelayedTaskList1,
                               xDelayedTaskList2}
      /\ \A u \in Tasks \ {t} : os'.stateList[u] = os.stateList[u]
      /\ os'.eventList = os.eventList /\ Ending(os') = Ending(os)
  BY <1>1, <1>2, DelayCurrentSound, ZenonT(60)
<1>4. LiveMove
  <2>1. os'.stateList[t] # xTasksWaitingTermination
    BY <1>3, ListsDiffer
  <2>2. QED BY <2>1, <1>3 DEF LiveMove
<1>5. QED BY <1>1, <1>3, <1>4, SettledStep

LEMMA DelayActions ==
  ASSUME IInv, NEW t \in Tasks, DelayBlocks(t) \/ DelayUntilBlocks(t)
  PROVE  IInv'
<1> DEFINE p == "resumeThenYield"
<1>1. Running(t) /\ pc[t] \in {"delay", "delayUntil"}
  BY DEF DelayBlocks, DelayUntilBlocks, At
<1>2. os.current = t /\ pc[t] \notin Dead /\ os.suspended > 0
  BY <1>1, RunningFacts DEF Dead, Suspending, IInv, CallsValid
<1>3. /\ p \in Locations /\ p \notin Dead /\ p # "deleteFree"
      /\ p \notin {"abort", "abortEvent"}
  BY DEF Locations, Dead
<1>4. pc' = [pc EXCEPT ![t] = p] /\ ticks' = [ticks EXCEPT ![t] = 0]
      /\ UNCHANGED target
  BY DEF DelayBlocks, DelayUntilBlocks, Goto
<1>5. 0 \in Ticks /\ lastWake[t] \in Ticks /\ ticks[t] \in Ticks /\ os.tick \in Ticks
  BY IInvFacts, TasksAssumption DEF Ticks, Kernel
<1>6. KernelStep /\ os'.current = t /\ os'.suspended = os.suspended
      /\ lastWake' \in [Tasks -> Ticks]
  <2>1. CASE DelayBlocks(t)
    <3>1. os' = prvAddCurrentTaskToDelayedList(os, ticks[t], FALSE)
          /\ lastWake' = lastWake
      BY <2>1 DEF DelayBlocks
    <3>2. QED BY <3>1, <1>1, <1>2, <1>5, DelayStep, IInvFacts
  <2>2. CASE DelayUntilBlocks(t)
    <3> DEFINE wake == WrappingAdd(lastWake[t], ticks[t])
               n    == WrappingSub(wake, os.tick)
    <3>1. wake \in Ticks /\ n \in Ticks
      BY <1>5, WrappingAddTicks
    <3>2. /\ lastWake' = [lastWake EXCEPT ![t] = wake]
          /\ \/ os' = prvAddCurrentTaskToDelayedList(os, n, FALSE)
             \/ os' = os
      BY <2>2 DEF DelayUntilBlocks
    <3> HIDE DEF wake, n
    <3>3. lastWake' \in [Tasks -> Ticks]
      BY <3>1, <3>2, IInvFacts
    <3>4. CASE os' = prvAddCurrentTaskToDelayedList(os, n, FALSE)
      BY <3>1, <3>3, <3>4, <1>1, <1>2, DelayStep
    <3>5. CASE os' = os
      <4>1. SameControl(os, os') /\ LiveMove
        BY <3>5, UnmovedStep DEF SameControl
      <4>2. QED BY <3>3, <3>5, <4>1, <1>1, <1>2, SettledStep, RunningFacts, IInvFacts
    <3>6. QED BY <3>2, <3>4, <3>5
  <2>3. QED BY <2>1, <2>2
<1> HIDE DEF p
<1>7. QED BY <1>1, <1>2, <1>3, <1>4, <1>5, <1>6, TaskStep, IInvFacts
-----------------------------------------------------------------------------
(* Suspending, resuming and aborting.                                      *)

\* Moving a task to a list that is not a ready list.
LEMMA UnreadySound ==
  ASSUME NEW k, Sound(k), NEW t \in Tasks, NEW u, Good(u), SameControl(k, u),
         NEW l, l \notin Priorities,
         u.stateList = [k.stateList EXCEPT ![t] = l], u.topReady = k.topReady
  PROVE  Sound(u)
<1>1. k.stateList \in [Tasks -> StateLists \cup {NoList}]
  BY DEF Sound, Good, Kernel
<1>2. QED BY <1>1 DEF Sound, Orderly, SameControl

LEMMA SuspendStep ==
  ASSUME IInv, NEW t \in Tasks, NEW x \in Tasks, pc[x] \notin Dead, Running(t),
         os' = StopWaitingForNotification(
                 AppendState(RemoveEventIfLinked(RemoveState(os, x), x),
                             xSuspendedTaskList, x), x)
  PROVE  KernelStep /\ os'.current = t
<1> DEFINE a == RemoveState(os, x)
           b == RemoveEventIfLinked(a, x)
           c == AppendState(b, xSuspendedTaskList, x)
<1>1. os.stateList \in [Tasks -> StateLists \cup {NoList}] /\ Good(os)
      /\ os.stateList[x] # xTasksWaitingTermination
  BY IInvFacts, LiveNotEnding DEF Kernel
<1>2. /\ Good(a) /\ SameControl(os, a) /\ a.eventList = os.eventList
      /\ a.stateList = [os.stateList EXCEPT ![x] = NoList]
      /\ a.topReady = os.topReady /\ Ending(a) = Ending(os)
  <2> HIDE DEF a
  <2>1. QED BY <1>1, RemoveStateGood DEF a
<1> HIDE DEF a
<1>3. /\ Good(b) /\ SameControl(a, b)
      /\ b.eventList = [a.eventList EXCEPT ![x] = NoList]
      /\ b.stateList = a.stateList
      /\ b.topReady = a.topReady /\ Ending(b) = Ending(a)
  <2> HIDE DEF b
  <2>1. QED BY <1>2, RemoveEventIfLinkedGood DEF b
<1> HIDE DEF b
<1>4. b.stateList[x] = NoList
  BY <1>1, <1>2, <1>3
<1>5. StateLinked(b, xSuspendedTaskList, x, c)
  BY <1>3, <1>4, ListNames, AppendStateGood
<1> HIDE DEF c
<1>6. /\ Good(c) /\ SameControl(os, c)
      /\ c.eventList = [os.eventList EXCEPT ![x] = NoList]
      /\ c.stateList = [os.stateList EXCEPT ![x] = xSuspendedTaskList]
      /\ c.topReady = os.topReady /\ Ending(c) = Ending(os)
  <2>1. SameControl(b, c) /\ SameControl(os, c)
    BY <1>2, <1>3, <1>5 DEF StateLinked, SameControl
  <2>2. QED BY <1>1, <1>2, <1>3, <1>5, <2>1, ListsDiffer DEF StateLinked
<1>7. Sound(c)
  BY <1>6, ListsDiffer, UnreadySound, IInvFacts
<1>8. os' = StopWaitingForNotification(c, x)
  BY DEF a, b, c
<1>9. os' \in Kernel /\ SameControl(c, os') /\ SameLinks(c, os')
  <2> DEFINE v == IF c.notifyState[x] = "waiting" THEN "notWaiting"
                                                  ELSE c.notifyState[x]
  <2>1. c \in Kernel
    BY <1>7 DEF Sound, Good
  <2>2. v \in NotifyStates
    BY <2>1 DEF Kernel, NotifyStates
  <2>3. os' = [c EXCEPT !.notifyState[x] = v]
    BY <1>8 DEF StopWaitingForNotification
  <2> HIDE DEF v
  <2> HIDE DEF c
  <2>4. os' \in Kernel
    <3>1. [c EXCEPT !.notifyState[x] = v] \in Kernel
      BY <2>1, <2>2, SMTT(60) DEF Kernel
    <3>2. QED BY <2>3, <3>1
  <2>5. SameControl(c, os') /\ SameLinks(c, os')
    BY <2>1, <2>3 DEF Kernel, SameControl, SameLinks
  <2>6. QED BY <2>4, <2>5
<1>10. Sound(os') /\ Ending(os') = Ending(c)
  BY <1>7, <1>9, SameLinksSound DEF SameControl
<1>11. SameControl(os, os') /\ os'.stateList = c.stateList
       /\ os'.eventList = c.eventList
  BY <1>6, <1>9 DEF SameControl, SameLinks
<1>12. LiveMove
  <2>1. os.eventList \in [Tasks -> ItemLists \cup {NoList}]
    BY IInvFacts DEF Kernel
  <2>2. QED BY <2>1, <1>1, <1>6, <1>11, ListsDiffer DEF LiveMove
<1>13. os.running /\ os.current = t /\ Ending(os') = Ending(os)
  BY <1>6, <1>10, RunningFacts
<1>14. QED BY <1>10, <1>11, <1>12, <1>13, SettledStep

LEMMA SuspendAction ==
  ASSUME IInv, NEW t \in Tasks, NEW x \in Handles, vTaskSuspend(t, x)
  PROVE  IInv'
<1> DEFINE p == "suspendReset"
<1>1. Running(t) /\ pc[t] \notin Dead /\ x \in Tasks /\ pc[x] \notin Dead
  BY DEF vTaskSuspend, MayCall, At, Dead, Handles
<1>2. KernelStep /\ os.current = t /\ os'.current = t
  BY <1>1, SuspendStep, RunningFacts DEF vTaskSuspend
<1>3. /\ p \in Locations /\ p \notin Dead /\ p # "deleteFree"
      /\ p \notin {"abort", "abortEvent"} /\ p \notin Suspending
  BY DEF Locations, Dead, Suspending
<1>4. /\ pc' = [pc EXCEPT ![t] = p] /\ target' = [target EXCEPT ![t] = x]
      /\ UNCHANGED <<ticks, lastWake>>
  BY DEF vTaskSuspend, Goto
<1> HIDE DEF p
<1>5. QED BY <1>1, <1>2, <1>3, <1>4, TaskStep, IInvFacts

LEMMA SuspendResetAction ==
  ASSUME IInv, NEW t \in Tasks, SuspendResetsUnblockTime(t)
  PROVE  IInv'
<1> DEFINE p == "suspendYield"
<1>1. Running(t) /\ pc[t] \notin Dead
  BY DEF SuspendResetsUnblockTime, At, Dead
<1>2. os' = prvResetNextTaskUnblockTime(os)
  BY DEF SuspendResetsUnblockTime
<1>3. Sound(os') /\ SameControl(os, os') /\ SameLinks(os, os')
      /\ Ending(os') = Ending(os)
  BY <1>2, IInvFacts, ResetUnblockTimeSound
<1>4. LiveMove
  BY <1>3, UnmovedStep DEF SameLinks
<1>5. KernelStep /\ os.current = t /\ os'.current = t
  BY <1>1, <1>3, <1>4, SettledStep, RunningFacts
<1>6. /\ p \in Locations /\ p \notin Dead /\ p # "deleteFree"
      /\ p \notin {"abort", "abortEvent"} /\ p \notin Suspending
  BY DEF Locations, Dead, Suspending
<1>7. pc' = [pc EXCEPT ![t] = p] /\ UNCHANGED <<target, ticks, lastWake>>
  BY DEF SuspendResetsUnblockTime, Goto, locals
<1> HIDE DEF p
<1>8. QED BY <1>1, <1>5, <1>6, <1>7, TaskStep, IInvFacts

\* A task that stays at its location.
LEMMA SettledTaskStep ==
  ASSUME IInv, KernelStep, NEW t \in Tasks, os.current = t, os'.current = t,
         pc[t] = "app", UNCHANGED <<pc, locals>>
  PROVE  IInv'
<1>1. pc' = [pc EXCEPT ![t] = "app"] /\ UNCHANGED <<target, ticks, lastWake>>
  BY IInvFacts DEF locals
<1>2. /\ "app" \in Locations /\ "app" \notin Dead /\ "app" # "deleteFree"
      /\ "app" \notin Suspending /\ "app" \notin {"abort", "abortEvent"}
  BY DEF Locations, Dead, Suspending
<1>3. QED BY <1>1, <1>2, TaskStep, IInvFacts

LEMMA ResumeTaskAction ==
  ASSUME IInv, NEW t \in Tasks, NEW x \in Handles, vTaskResume(t, x)
  PROVE  IInv'
<1> DEFINE r == prvAddTaskToReadyList(RemoveState(os, x), x)
           higher == os.prio[x] > os.prio[os.current]
<1>1. /\ Running(t) /\ pc[t] = "app" /\ x \in Tasks /\ pc[x] \notin Dead
      /\ UNCHANGED <<pc, locals>>
  BY DEF vTaskResume, MayCall, At, Dead, Handles
<1>2. os.current = t /\ os.running /\ Sound(os) /\ os \in Kernel
      /\ os.stateList[x] # xTasksWaitingTermination
  BY <1>1, RunningFacts, IInvFacts, LiveNotEnding
<1>3. os' = YieldIf(r, higher)
  BY DEF vTaskResume
<1>4. higher \in BOOLEAN
  BY <1>1, <1>2, PriorityComparison
<1> HIDE DEF higher
<1>5. /\ Sound(r) /\ SameControl(os, r)
      /\ r.stateList = [os.stateList EXCEPT ![x] = os.prio[x]]
      /\ r.eventList = os.eventList /\ Ending(r) = Ending(os)
  BY <1>1, <1>2, MoveToReadySound
<1> HIDE DEF r
<1>6. /\ Sound(os') /\ SameControl(r, os') /\ SameLinks(r, os')
      /\ Ending(os') = Ending(r)
  BY <1>3, <1>4, <1>5, YieldSound
<1>7. SameControl(os, os') /\ Ending(os') = Ending(os)
  BY <1>5, <1>6 DEF SameControl
<1>8. LiveMove
  <2>1. os.prio[x] \in Priorities /\ os.stateList \in [Tasks -> StateLists \cup {NoList}]
    BY <1>1, <1>2 DEF Kernel
  <2>2. os.prio[x] # xTasksWaitingTermination
    BY <2>1, ListsDiffer
  <2>3. QED BY <2>1, <2>2, <1>1, <1>5, <1>6 DEF LiveMove, SameLinks
<1>9. KernelStep /\ os'.current = t
  BY <1>2, <1>6, <1>7, <1>8, SettledStep
<1>10. QED BY <1>1, <1>2, <1>9, SettledTaskStep

LEMMA ResumeFromISRAction ==
  ASSUME IInv, NEW x \in Handles, xTaskResumeFromISR(x)
  PROVE  IInv'
<1> DEFINE higher == os.prio[x] > os.prio[os.current]
<1>1. /\ x \in Tasks /\ pc[x] \notin Dead /\ os.running
      /\ UNCHANGED <<pc, locals>>
  BY DEF xTaskResumeFromISR, InterruptsEnabled, Dead, Handles
<1>2. /\ os.current \in Tasks /\ Sound(os) /\ os \in Kernel /\ Good(os)
      /\ os.stateList[x] # xTasksWaitingTermination
      /\ os.prio[x] \in Priorities
      /\ os.stateList \in [Tasks -> StateLists \cup {NoList}]
      /\ os.eventList \in [Tasks -> ItemLists \cup {NoList}]
      /\ os.suspended \in Nat
  BY <1>1, IInvFacts, LiveNotEnding DEF IInv, ControlValid, Kernel
<1>3. higher \in BOOLEAN
  BY <1>1, <1>2, PriorityComparison
<1>4. CASE os.suspended = 0
  <2>1. PICK yields \in {FALSE, higher} :
          os' = YieldIf(prvAddTaskToReadyList(
                          RemoveState(PendYieldIf(os, higher), x), x), yields)
    BY <1>4 DEF xTaskResumeFromISR
  <2>2. yields \in BOOLEAN
    BY <1>3, <2>1
  <2> HIDE DEF higher
  <2> DEFINE q == PendYieldIf(os, higher)
             r == prvAddTaskToReadyList(RemoveState(q, x), x)
  <2>3. Sound(q) /\ SameControl(os, q) /\ SameLinks(os, q) /\ Ending(q) = Ending(os)
    BY <1>2, <1>3, YieldSound
  <2> HIDE DEF q
  <2>4. q.stateList = os.stateList /\ q.eventList = os.eventList /\ q.prio = os.prio
    BY <2>3 DEF SameLinks, SameControl
  <2>5. /\ Sound(r) /\ SameControl(q, r)
        /\ r.stateList = [q.stateList EXCEPT ![x] = q.prio[x]]
        /\ r.eventList = q.eventList /\ Ending(r) = Ending(q)
    BY <1>1, <1>2, <2>3, <2>4, MoveToReadySound
  <2> HIDE DEF r
  <2>6. os' = YieldIf(r, yields)
    BY <2>1 DEF r, q
  <2>7. /\ Sound(os') /\ SameControl(r, os') /\ SameLinks(r, os')
        /\ Ending(os') = Ending(r)
    BY <2>2, <2>5, <2>6, YieldSound
  <2>8. SameControl(os, os') /\ Ending(os') = Ending(os)
    BY <2>3, <2>5, <2>7 DEF SameControl
  <2>9. LiveMove
    <3>1. os.prio[x] # xTasksWaitingTermination
      BY <1>2, ListsDiffer
    <3>2. QED BY <3>1, <1>1, <1>2, <2>4, <2>5, <2>7 DEF LiveMove, SameLinks
  <2>10. KernelStep /\ os'.suspended = os.suspended
    BY <1>1, <2>7, <2>8, <2>9, SettledStep
  <2>11. QED BY <1>1, <1>4, <2>10, InterruptStep
<1>5. CASE os.suspended # 0
  <2>1. os' = AppendEvent(os, xPendingReadyList, x) /\ os.eventList[x] = NoList
    BY <1>5 DEF xTaskResumeFromISR, prvTaskIsTaskSuspended
  <2>2. /\ Good(os') /\ SameControl(os, os') /\ os'.stateList = os.stateList
        /\ os'.eventList = [os.eventList EXCEPT ![x] = xPendingReadyList]
        /\ os'.topReady = os.topReady /\ Ending(os') = Ending(os)
    BY <1>1, <1>2, <2>1, AppendEventGood, ListNames
  <2>3. Sound(os')
    BY <1>2, <2>2 DEF Sound, Orderly, SameControl
  <2>4. LiveMove
    BY <1>1, <1>2, <2>2 DEF LiveMove
  <2>5. /\ KernelStep /\ os'.suspended = os.suspended
        /\ os'.current = os.current
    BY <1>1, <2>2, <2>3, <2>4, SettledStep
  <2>6. QED BY <1>1, <2>2, <2>5, InterruptStep
<1>6. QED BY <1>4, <1>5

LEMMA AbortUnlinksAction ==
  ASSUME IInv, NEW t \in Tasks, AbortUnlinksState(t)
  PROVE  IInv'
<1> DEFINE x == target[t]
<1>1. /\ Running(t) /\ pc[t] = "abort"
      /\ UNCHANGED <<target, ticks, lastWake>>
  BY DEF AbortUnlinksState, At, locals
<1>2. /\ os.current = t /\ os.running /\ Sound(os) /\ Good(os)
      /\ x \in Tasks /\ pc[x] \notin Dead /\ pc[t] \notin Dead
      /\ os.suspended > 0
      /\ os.stateList \in [Tasks -> StateLists \cup {NoList}]
  BY <1>1, RunningFacts, IInvFacts DEF IInv, CallsValid, Suspending, Dead, Kernel
<1>3. os.stateList[x] # xTasksWaitingTermination
  BY <1>2, LiveNotEnding
<1>4. /\ {"abortEvent", "resumeThenReturn"} \subseteq Locations
      /\ {"abortEvent", "resumeThenReturn"} \cap Dead = {}
  BY DEF Locations, Dead
<1>5. CASE IsBlocked(os, x)
  <2>1. os' = RemoveState(os, x) /\ pc' = [pc EXCEPT ![t] = "abortEvent"]
    BY <1>5 DEF AbortUnlinksState, Goto
  <2> HIDE DEF x
  <2>2. /\ Good(os') /\ SameControl(os, os')
        /\ os'.stateList = [os.stateList EXCEPT ![x] = NoList]
        /\ os'.eventList = os.eventList /\ os'.topReady = os.topReady
        /\ Ending(os') = Ending(os)
    BY <1>2, <1>3, <2>1, RemoveStateGood
  <2>3. Sound(os')
    BY <1>2, <2>2, ListsDiffer, UnreadySound
  <2>4. LiveMove /\ os'.stateList[x] = NoList
    BY <1>2, <2>2, ListsDiffer DEF LiveMove
  <2>5. KernelStep /\ os'.current = t /\ os'.suspended = os.suspended
    BY <1>2, <2>2, <2>3, <2>4, SettledStep
  <2>6. os'.stateList[target'[t]] = NoList /\ pc[target'[t]] \notin Dead
    BY <1>1, <1>2, <2>4 DEF x
  <2>7. QED BY <1>1, <1>2, <1>4, <2>1, <2>5, <2>6, TaskStep, IInvFacts
<1>6. CASE ~IsBlocked(os, x)
  <2>1. os' = os /\ pc' = [pc EXCEPT ![t] = "resumeThenReturn"]
    BY <1>6 DEF AbortUnlinksState, Goto
  <2>2. SameControl(os, os') /\ LiveMove
    BY <2>1, UnmovedStep DEF SameControl
  <2>3. KernelStep /\ os'.current = t /\ os'.suspended = os.suspended
    BY <1>2, <2>1, <2>2, SettledStep
  <2>4. QED BY <1>1, <1>2, <1>4, <2>1, <2>3, TaskStep, IInvFacts
<1>7. QED BY <1>5, <1>6

LEMMA AbortReadyAction ==
  ASSUME IInv, NEW t \in Tasks, AbortMakesReady(t)
  PROVE  IInv'
<1> DEFINE x       == target[t]
           aborted == IF os.eventList[x] = NoList
                        THEN os
                        ELSE [RemoveEvent(os, x) EXCEPT !.delayAborted[x] = TRUE]
           higher  == os.prio[x] > os.prio[os.current]
           r       == prvAddTaskToReadyList(aborted, x)
           p       == "resumeThenReturn"
<1>1. /\ Running(t) /\ pc[t] = "abortEvent"
      /\ target' = [target EXCEPT ![t] = t] /\ UNCHANGED <<ticks, lastWake>>
      /\ os' = PendYieldIf(r, higher) /\ pc' = [pc EXCEPT ![t] = p]
  BY DEF AbortMakesReady, At, Goto
<1>2. /\ os.current = t /\ os.running /\ Sound(os) /\ Good(os) /\ os \in Kernel
      /\ x \in Tasks /\ pc[x] \notin Dead /\ pc[t] \notin Dead
      /\ os.suspended > 0 /\ os.stateList[x] = NoList
      /\ os.stateList \in [Tasks -> StateLists \cup {NoList}]
      /\ os.prio[x] \in Priorities
  BY <1>1, RunningFacts, IInvFacts DEF IInv, CallsValid, Suspending, Dead, Kernel
<1>3. higher \in BOOLEAN
  BY <1>2, PriorityComparison
<1>4. /\ p \in Locations /\ p \notin Dead /\ p # "deleteFree"
      /\ p \notin {"abort", "abortEvent"}
  BY DEF Locations, Dead
<1> HIDE DEF x, higher, p
<1>5. /\ Good(aborted) /\ SameControl(os, aborted)
      /\ aborted.stateList = os.stateList
      /\ aborted.topReady = os.topReady /\ Ending(aborted) = Ending(os)
  <2>1. CASE os.eventList[x] = NoList
    BY <2>1, <1>2 DEF SameControl
  <2>2. CASE os.eventList[x] # NoList
    <3> DEFINE e == RemoveEvent(os, x)
    <3>1. aborted = [e EXCEPT !.delayAborted[x] = TRUE]
      BY <2>2
    <3>2. /\ Good(e) /\ SameControl(os, e) /\ e.stateList = os.stateList
          /\ e.topReady = os.topReady /\ Ending(e) = Ending(os)
      BY <1>2, RemoveEventGood
    <3> HIDE DEF e, aborted
    <3>3. aborted \in Kernel /\ SameControl(e, aborted) /\ SameLinks(e, aborted)
      <4>1. e \in Kernel /\ x \in Tasks /\ TRUE \in BOOLEAN
        BY <1>2, <3>2 DEF Good
      <4>2. aborted \in Kernel
        BY <3>1, <4>1, ZenonT(60) DEF Kernel
      <4>3. SameControl(e, aborted) /\ SameLinks(e, aborted)
        BY <3>1, <4>1 DEF Kernel, SameControl, SameLinks
      <4>4. QED BY <4>2, <4>3
    <3>4. Good(aborted) /\ Ending(aborted) = Ending(e)
      BY <3>2, <3>3, SameLinksConsistent DEF Good
    <3>5. QED BY <3>2, <3>3, <3>4 DEF SameControl, SameLinks
  <2>3. QED BY <2>1, <2>2
<1> HIDE DEF aborted
<1>6. aborted.stateList = [os.stateList EXCEPT ![x] = NoList]
  BY <1>2, <1>5
<1>7. /\ Sound(r) /\ SameControl(os, r)
      /\ r.stateList = [os.stateList EXCEPT ![x] = os.prio[x]]
      /\ r.eventList = aborted.eventList /\ Ending(r) = Ending(aborted)
  BY <1>2, <1>5, <1>6, MakeReadySound
<1> HIDE DEF r
<1>8. /\ Sound(os') /\ SameControl(r, os') /\ SameLinks(r, os')
      /\ Ending(os') = Ending(r)
  BY <1>1, <1>3, <1>7, YieldSound
<1>9. SameControl(os, os') /\ Ending(os') = Ending(os)
  BY <1>5, <1>7, <1>8 DEF SameControl
<1>10. \A u \in Tasks \ {x} : aborted.eventList[u] = os.eventList[u]
  <2>1. os.eventList \in [Tasks -> ItemLists \cup {NoList}]
    BY <1>2 DEF Kernel
  <2>2. CASE os.eventList[x] # NoList
    <3> DEFINE e == RemoveEvent(os, x)
    <3>1. e \in Kernel /\ e.eventList = [os.eventList EXCEPT ![x] = NoList]
      BY <1>2, RemoveEventGood DEF Good
    <3>2. aborted = [e EXCEPT !.delayAborted[x] = TRUE]
      BY <2>2 DEF aborted
    <3> HIDE DEF e
    <3>3. aborted.eventList = e.eventList
      BY <3>1, <3>2 DEF Kernel
    <3>4. aborted.eventList = [os.eventList EXCEPT ![x] = NoList]
      BY <3>1, <3>3
    <3>5. QED BY <2>1, <3>4, SMT
  <2>3. QED BY <2>2 DEF aborted
<1>11. LiveMove
  <2>1. os.prio[x] # xTasksWaitingTermination
    BY <1>2, ListsDiffer
  <2>2. QED BY <2>1, <1>2, <1>7, <1>8, <1>10 DEF LiveMove, SameLinks
<1>12. KernelStep /\ os'.current = t /\ os'.suspended = os.suspended
  BY <1>2, <1>8, <1>9, <1>11, SettledStep
<1>13. QED BY <1>1, <1>2, <1>4, <1>12, TaskStep, IInvFacts
-----------------------------------------------------------------------------
(* Changing a priority.                                                    *)

\* A change of the priority of task x, followed by a move to its new ready
\* list if it was ready.
Reprioritised(k, x, e, p, v) ==
  LET q == [k EXCEPT !.prio[x] = e, !.basePrio[x] = p, !.eventValue[x] = v]
  IN  IF IsReady(k, x) THEN prvAddTaskToReadyList(RemoveState(q, x), x) ELSE q

\* What that leaves alone.
MovedAtMost(k, x, r) ==
  /\ Sound(r) /\ r.current = k.current /\ r.running = k.running
  /\ r.stage = k.stage /\ r.suspended = k.suspended
  /\ r.pendedTicks = k.pendedTicks /\ r.numDeleted = k.numDeleted
  /\ \A u \in Tasks : \/ r.stateList[u] = k.stateList[u]
                      \/ u = x /\ r.stateList[u] \in Priorities
  /\ r.eventList = k.eventList /\ Ending(r) = Ending(k)

LEMMA ChangePrioritySound ==
  ASSUME NEW k, Sound(k), NEW x \in Tasks, NEW e \in Priorities,
         NEW p \in Priorities, NEW v \in 1..configMAX_PRIORITIES
  PROVE  MovedAtMost(k, x, Reprioritised(k, x, e, p, v))
<1> DEFINE q == [k EXCEPT !.prio[x] = e, !.basePrio[x] = p, !.eventValue[x] = v]
           u == RemoveState(q, x)
           r == Reprioritised(k, x, e, p, v)
<1>1. r = IF IsReady(k, x) THEN prvAddTaskToReadyList(u, x) ELSE q
  BY DEF Reprioritised
<1> HIDE DEF r
<1>2. /\ k \in Kernel /\ Good(k) /\ Consistent(k) /\ Orderly(k)
      /\ k.stateList \in [Tasks -> StateLists \cup {NoList}]
      /\ k.prio \in [Tasks -> Priorities] /\ k.topReady \in Priorities
      /\ Priorities \subseteq Int
  BY TasksAssumption DEF Sound, Good, Kernel, Priorities
<1>3. q \in Kernel
  BY <1>2, ZenonT(60) DEF Kernel
<1>4. /\ SameLinks(k, q) /\ q.prio = [k.prio EXCEPT ![x] = e]
      /\ q.current = k.current /\ q.running = k.running
      /\ q.stage = k.stage /\ q.suspended = k.suspended
      /\ q.pendedTicks = k.pendedTicks /\ q.numDeleted = k.numDeleted
  BY <1>2 DEF Kernel, SameLinks
<1> HIDE DEF q
<1>5. Good(q) /\ Ending(q) = Ending(k)
  BY <1>2, <1>3, <1>4, SameLinksConsistent DEF Good
<1>6. CASE IsReady(k, x)
  <2>1. k.stateList[x] \in Priorities /\ q.stateList[x] # xTasksWaitingTermination
    BY <1>2, <1>4, <1>6, ListsDiffer DEF IsReady, SameLinks
  <2>2. /\ Good(u) /\ SameControl(q, u)
        /\ u.stateList = [q.stateList EXCEPT ![x] = NoList]
        /\ u.eventList = q.eventList /\ u.topReady = q.topReady
        /\ Ending(u) = Ending(q)
    BY <1>5, <2>1, RemoveStateGood
  <2> HIDE DEF u
  <2>3. u.stateList[x] = NoList /\ u.prio[x] = e
    BY <1>2, <1>4, <2>2 DEF SameLinks, SameControl
  <2> DEFINE w == prvAddTaskToReadyList(u, x)
  <2>4. /\ Good(w) /\ SameControl(u, w)
        /\ w.stateList = [u.stateList EXCEPT ![x] = u.prio[x]]
        /\ w.eventList = u.eventList
        /\ w.topReady >= u.topReady /\ w.topReady >= u.prio[x]
        /\ Ending(w) = Ending(u)
    BY <2>2, <2>3, ReadyGood, ZenonT(60)
  <2> HIDE DEF w
  <2>5. /\ w.stateList = [k.stateList EXCEPT ![x] = e]
        /\ w.prio = [k.prio EXCEPT ![x] = e]
        /\ w.topReady >= k.topReady /\ w.topReady >= e
    BY <1>2, <1>4, <2>2, <2>3, <2>4 DEF SameLinks, SameControl
  <2>6. w.topReady \in Priorities
    BY <2>4 DEF Good, Kernel
  <2>7. Orderly(w)
    <3> SUFFICES ASSUME NEW y \in Tasks, w.stateList[y] \in Priorities
                 PROVE  w.stateList[y] = w.prio[y] /\ w.stateList[y] <= w.topReady
      BY DEF Orderly
    <3>1. CASE y = x
      BY <3>1, <1>2, <2>5, <2>6
    <3>2. CASE y # x
      <4>1. w.stateList[y] = k.stateList[y] /\ w.prio[y] = k.prio[y]
        BY <3>2, <1>2, <2>5
      <4>2. k.stateList[y] = k.prio[y] /\ k.stateList[y] <= k.topReady
        BY <4>1, <1>2 DEF Orderly
      <4>3. /\ k.prio[y] \in Int /\ k.topReady \in Int /\ w.topReady \in Int
            /\ w.topReady >= k.topReady
        BY <1>2, <2>5, <2>6
      <4>4. k.stateList[y] <= w.topReady
        BY <4>2, <4>3
      <4>5. QED BY <4>1, <4>2, <4>4
    <3>3. QED BY <3>1, <3>2
  <2>8. /\ Sound(w) /\ w.current = k.current /\ w.running = k.running
        /\ w.stage = k.stage /\ w.suspended = k.suspended
        /\ w.pendedTicks = k.pendedTicks /\ w.numDeleted = k.numDeleted
        /\ w.eventList = k.eventList /\ Ending(w) = Ending(k)
    BY <1>4, <1>5, <2>2, <2>4, <2>7 DEF Sound, SameLinks, SameControl
  <2>9. \A y \in Tasks : \/ w.stateList[y] = k.stateList[y]
                         \/ y = x /\ w.stateList[y] \in Priorities
    BY <1>2, <2>5
  <2>10. r = w
    BY <1>1, <1>6 DEF w
  <2>11. QED BY <2>8, <2>9, <2>10 DEF r, MovedAtMost
<1>7. CASE ~IsReady(k, x)
  <2>1. k.stateList[x] \notin Priorities
    BY <1>2, <1>7 DEF IsReady, Orderly
  <2>2. Orderly(q)
    BY <1>2, <1>4, <2>1 DEF Orderly, SameLinks
  <2>3. Sound(q)
    BY <1>5, <2>2 DEF Sound
  <2>4. r = q
    BY <1>1, <1>7
  <2>5. QED BY <1>4, <1>5, <2>3, <2>4 DEF r, MovedAtMost, SameLinks
<1>8. QED BY <1>6, <1>7

LEMMA PrioritySetAction ==
  ASSUME IInv, NEW t \in Tasks, NEW x \in Handles, NEW p \in NewPriorities,
         vTaskPrioritySet(t, x, p)
  PROVE  IInv'
<1> DEFINE base   == os.basePrio[x]
           e      == IF base = os.prio[x] \/ p > os.prio[x] THEN p ELSE os.prio[x]
           yields == IF p > base THEN x # t /\ p > os.prio[t] ELSE x = t
           v      == configMAX_PRIORITIES - p
           r      == Reprioritised(os, x, e, p, v)
<1>1. /\ Running(t) /\ pc[t] = "app" /\ x \in Tasks /\ pc[x] \notin Dead
      /\ UNCHANGED <<pc, locals>> /\ os' = YieldIf(r, yields)
  BY DEF vTaskPrioritySet, Reprioritised, MayCall, At, Dead, Handles
<1>2. os.current = t /\ os.running /\ Sound(os) /\ os \in Kernel
      /\ os.prio[x] \in Priorities /\ os.prio[t] \in Priorities
      /\ base \in Priorities
  BY <1>1, RunningFacts, IInvFacts DEF Kernel
<1>3. p \in Priorities /\ Priorities \subseteq Int
  BY SchedulerAssumption, TasksAssumption DEF Priorities
<1>4. e \in Priorities
  BY <1>2, <1>3
<1>5. v \in 1..configMAX_PRIORITIES
  BY <1>3, TasksAssumption DEF Priorities
<1>6. yields \in BOOLEAN
  BY <1>2, <1>3
<1> HIDE DEF e, v, yields
<1>7. MovedAtMost(os, x, r)
  BY <1>1, <1>2, <1>3, <1>4, <1>5, ChangePrioritySound
<1> HIDE DEF r
<1>8. /\ Sound(os') /\ SameControl(r, os') /\ SameLinks(r, os')
      /\ Ending(os') = Ending(r)
  BY <1>1, <1>6, <1>7, YieldSound DEF MovedAtMost
<1>9. LiveMove
  BY <1>1, <1>7, <1>8, ListsDiffer DEF LiveMove, SameLinks, MovedAtMost
<1>10. KernelStep /\ os'.current = t
  BY <1>1, <1>2, <1>7, <1>8, <1>9
     DEF MovedAtMost, KernelStep, SameControl, IInv, ControlValid, TickCounted
<1>11. QED BY <1>1, <1>2, <1>10, SettledTaskStep
-----------------------------------------------------------------------------
(* The tick, the context switch and the masked loops.                      *)

\* A step of a masked loop, or one that finds the scheduler not suspended.
LEMMA MaskedKernelStep ==
  ASSUME IInv, os.running, os.suspended = 0, Sound(os'), TickCounted(os'), LiveMove,
         os'.running = os.running, os'.current \in Tasks,
         os'.suspended = os.suspended, os'.numDeleted = os.numDeleted,
         Ending(os') = Ending(os), UNCHANGED <<pc, locals>>
  PROVE  IInv'
<1>1. KernelStep
  BY DEF KernelStep
<1>2. ~(os.suspended > 0)
  OBVIOUS
<1>3. QED BY <1>1, <1>2, InterruptStep

LEMMA StageFacts ==
  ASSUME IInv
  PROVE  /\ os.running => os.current \in Tasks
         /\ os.stage \in Loops => os.running /\ os.suspended = 0
         /\ TickCounted(os) /\ Sound(os)
         /\ os.suspended \in Nat /\ os.pendedTicks \in Nat
BY IInvFacts DEF IInv, ControlValid, Kernel, Loops

LEMMA TickAction ==
  ASSUME IInv, TickISR
  PROVE  IInv'
<1>1. os.running /\ os.stage = "run" /\ UNCHANGED <<pc, locals>>
  BY DEF TickISR, InterruptsEnabled
<1>2. CASE os.suspended = 0
  <2>1. os' = IncrementTick(os, "unblockISR")
    BY <1>2 DEF TickISR
  <2>2. "unblockISR" \in Unblocking /\ "unblockISR" # "unblock"
    BY DEF Unblocking
  <2>3. /\ Sound(os') /\ SameTasks(os, os') /\ TickCounted(os')
        /\ SameLinks(os, os') /\ Ending(os') = Ending(os)
    BY <1>1, <2>1, <2>2, StageFacts, IncrementTickSound
  <2>4. LiveMove
    BY <2>3, UnmovedStep DEF SameLinks
  <2>5. QED BY <1>1, <1>2, <2>3, <2>4, StageFacts, MaskedKernelStep DEF SameTasks
<1>3. CASE os.suspended # 0
  <2>1. os' = [os EXCEPT !.pendedTicks = os.pendedTicks + 1]
    BY <1>3 DEF TickISR
  <2> DEFINE n == os.pendedTicks + 1
  <2>2. n \in Nat
    BY StageFacts
  <2> HIDE DEF n
  <2>3. os' \in Kernel /\ SameLinks(os, os') /\ os'.prio = os.prio
        /\ os'.current = os.current /\ os'.running = os.running
        /\ os'.stage = os.stage /\ os'.suspended = os.suspended
        /\ os'.numDeleted = os.numDeleted
    BY <2>1, <2>2, IInvFacts, ZenonT(60) DEF n, Kernel, SameLinks
  <2>4. Sound(os') /\ Ending(os') = Ending(os)
    BY <2>3, SameLinksSound, IInvFacts
  <2>5. LiveMove /\ os'.stateList = os.stateList
    BY <2>3, UnmovedStep DEF SameLinks
  <2>6. KernelStep
    BY <1>1, <2>3, <2>4, <2>5, StageFacts DEF KernelStep, TickCounted
  <2>7. QED BY <1>1, <2>3, <2>5, <2>6, InterruptStep
<1>4. QED BY <1>2, <1>3

LEMMA ContextSwitchAction ==
  ASSUME IInv, ContextSwitch
  PROVE  IInv'
<1> DEFINE q == [os EXCEPT !.pendSV = FALSE]
<1>1. os.running /\ os.stage = "run" /\ UNCHANGED <<pc, locals>>
      /\ os' = vTaskSwitchContext(q)
  BY DEF ContextSwitch, InterruptsEnabled
<1>2. q \in Kernel /\ SameControl(os, q) /\ SameLinks(os, q)
  BY IInvFacts, ZenonT(60) DEF Kernel, SameControl, SameLinks
<1> HIDE DEF q
<1>3. Sound(q) /\ Ending(q) = Ending(os) /\ q.current \in Tasks
      /\ q.current = os.current /\ q.suspended = os.suspended
  BY <1>1, <1>2, SameLinksSound, StageFacts DEF SameControl
<1>4. /\ Sound(os') /\ os'.current \in Tasks
      /\ q.suspended # 0 => os'.current = q.current
      /\ SameControl([q EXCEPT !.current = os'.current], os')
      /\ os'.stateList = q.stateList /\ os'.eventList = q.eventList
      /\ Ending(os') = Ending(q)
  BY <1>1, <1>3, SwitchContextSound
<1>5. /\ os'.running = q.running /\ os'.stage = q.stage
      /\ os'.suspended = q.suspended /\ os'.pendedTicks = q.pendedTicks
      /\ os'.numDeleted = q.numDeleted
  BY <1>2, <1>4 DEF SameControl, Kernel
<1>6. /\ os'.running = os.running /\ os'.stage = os.stage
      /\ os'.suspended = os.suspended /\ os'.pendedTicks = os.pendedTicks
      /\ os'.numDeleted = os.numDeleted
      /\ os'.stateList = os.stateList /\ os'.eventList = os.eventList
  BY <1>2, <1>4, <1>5 DEF SameControl, SameLinks
<1>7. LiveMove
  BY <1>6, UnmovedStep
<1>8. KernelStep
  BY <1>1, <1>3, <1>4, <1>6, <1>7 DEF KernelStep, TickCounted, Loops
<1>9. os.suspended > 0 => os'.current = os.current
  BY <1>3, <1>4
<1>10. QED BY <1>1, <1>6, <1>8, <1>9, InterruptStep

LEMMA MaskedActions ==
  ASSUME IInv, MaskedStep
  PROVE  IInv'
<1>1. /\ os.stage \in Loops /\ UNCHANGED <<pc, locals>>
  BY DEF Loops, MaskedStep, DrainPendingReady, FinishPendingReady, ProcessPendedTick,
         FinishResumeAll, UnblockDelayed
<1>2. os.running /\ os.suspended = 0 /\ os.current \in Tasks /\ Sound(os)
      /\ TickCounted(os)
  BY <1>1, StageFacts
<1>3. CASE DrainPendingReady
  <2> DEFINE t == HeadOf(os, xPendingReadyList)
  <2>1. os' = MovePendingReady(os) /\ ~IsEmpty(os, xPendingReadyList)
        /\ os.stage = "drain"
    BY <1>3 DEF DrainPendingReady
  <2>2. /\ Sound(os') /\ SameControl(os, os')
        /\ t \in Tasks /\ os.eventList[t] = xPendingReadyList
        /\ os'.stateList = [os.stateList EXCEPT ![t] = os.prio[t]]
        /\ os'.eventList = [os.eventList EXCEPT ![t] = NoList]
        /\ os.stateList[t] # xTasksWaitingTermination => Ending(os') = Ending(os)
    BY <1>2, <2>1, MovePendingReadySound
  <2> HIDE DEF t
  <2>3. pc[t] \notin Dead
    <3>1. xPendingReadyList # NoList
      BY DEF xPendingReadyList, NoList
    <3>2. QED BY <2>2, <3>1 DEF IInv, DeadUnlinked
  <2>4. Ending(os') = Ending(os)
    BY <2>2, <2>3, LiveNotEnding
  <2>5. LiveMove
    <3>1. /\ os.prio[t] \in Priorities
          /\ os.stateList \in [Tasks -> StateLists \cup {NoList}]
          /\ os.eventList \in [Tasks -> ItemLists \cup {NoList}]
      BY <2>2, IInvFacts DEF Kernel
    <3>2. os.prio[t] # xTasksWaitingTermination
      BY <3>1, ListsDiffer
    <3>3. QED BY <2>2, <2>3, <3>1, <3>2 DEF LiveMove
  <2>6. QED BY <1>1, <1>2, <2>2, <2>4, <2>5, MaskedKernelStep
            DEF SameControl, TickCounted
<1>4. CASE FinishPendingReady
  <2>1. os' = EndPendingReady(os) /\ os.stage = "drain"
    BY <1>4 DEF FinishPendingReady
  <2>2. /\ Sound(os') /\ SameControl([os EXCEPT !.stage = "ticks"], os')
        /\ SameLinks(os, os') /\ Ending(os') = Ending(os)
    BY <1>2, <2>1, EndPendingReadySound
  <2>3. /\ os'.stage = "ticks" /\ os'.current = os.current
        /\ os'.running = os.running /\ os'.suspended = os.suspended
        /\ os'.numDeleted = os.numDeleted
    BY <2>2, IInvFacts DEF SameControl, Kernel
  <2>4. LiveMove /\ TickCounted(os')
    BY <2>2, <2>3, UnmovedStep DEF SameLinks, TickCounted
  <2>5. QED BY <1>1, <1>2, <2>2, <2>3, <2>4, MaskedKernelStep
<1>5. CASE ProcessPendedTick
  <2>1. os' = IncrementTick(os, "unblock") /\ os.pendedTicks > 0
    BY <1>5 DEF ProcessPendedTick
  <2>2. "unblock" \in Unblocking
    BY DEF Unblocking
  <2>3. /\ Sound(os') /\ SameTasks(os, os') /\ TickCounted(os')
        /\ SameLinks(os, os') /\ Ending(os') = Ending(os)
    BY <1>2, <2>1, <2>2, IncrementTickSound
  <2>4. LiveMove
    BY <2>3, UnmovedStep DEF SameLinks
  <2>5. QED BY <1>1, <1>2, <2>3, <2>4, MaskedKernelStep DEF SameTasks
<1>6. CASE FinishResumeAll
  <2>1. os' = EndResumeAll(os)
    BY <1>6 DEF FinishResumeAll
  <2>2. /\ Sound(os') /\ SameControl([os EXCEPT !.stage = "run"], os')
        /\ SameLinks(os, os') /\ Ending(os') = Ending(os)
    BY <1>2, <2>1, EndResumeAllSound
  <2>3. /\ os'.stage = "run" /\ os'.current = os.current
        /\ os'.running = os.running /\ os'.suspended = os.suspended
        /\ os'.numDeleted = os.numDeleted
    BY <2>2, IInvFacts DEF SameControl, Kernel
  <2>4. LiveMove /\ TickCounted(os')
    BY <2>2, <2>3, UnmovedStep DEF SameLinks, TickCounted
  <2>5. QED BY <1>1, <1>2, <2>2, <2>3, <2>4, MaskedKernelStep
<1>7. CASE UnblockDelayed
  <2>1. os' = UnblockExpired(os) /\ os.stage \in Unblocking
    BY <1>7 DEF UnblockDelayed, Unblocking
  <2>2. /\ Sound(os') /\ SameTasks(os, os') /\ TickCounted(os')
        /\ Ending(os') = Ending(os) /\ OnlyUnblocks(os, os')
    BY <1>2, <2>1, UnblockExpiredSound
  <2>3. LiveMove
    <3>1. ASSUME NEW u \in Tasks,
                 os.stateList[u] \in {xDelayedTaskList1, xDelayedTaskList2},
                 os'.stateList[u] \in Priorities
          PROVE  pc[u] \notin Dead /\ os'.stateList[u] # xTasksWaitingTermination
      <4>1. os.stateList[u] # NoList /\ os.stateList[u] # xTasksWaitingTermination
        BY <3>1 DEF xDelayedTaskList1, xDelayedTaskList2, NoList,
                    xTasksWaitingTermination
      <4>2. QED BY <3>1, <4>1, ListsDiffer DEF IInv, DeadUnlinked
    <3>2. QED BY <2>2, <3>1 DEF LiveMove, OnlyUnblocks
  <2>4. QED BY <1>1, <1>2, <2>2, <2>3, MaskedKernelStep DEF SameTasks
<1>8. QED BY <1>3, <1>4, <1>5, <1>6, <1>7 DEF MaskedStep
-----------------------------------------------------------------------------
(* Creating and deleting tasks.                                            *)

\* A step at which no task has the scheduler suspended, and after which every
\* deletion that is under way was so before.
LEMMA LifeStep ==
  ASSUME IInv, Sound(os'), LocalsOK', DeadUnlinked', ControlValid',
         \A u \in Tasks : pc'[u] \notin Suspending,
         \A u \in Tasks :
           pc'[u] = "deleteFree" =>
             /\ pc[u] = "deleteFree" /\ target'[u] = target[u]
             /\ pc'[target[u]] = "deleted"
             /\ os'.stateList[target[u]] = NoList
  PROVE  IInv'
<1>1. CallsValid'
  <2>1. \A u \in Tasks : pc'[u] \notin {"abort", "abortEvent"}
    BY DEF Suspending
  <2>2. \A u, v \in Tasks :
          u # v /\ pc'[u] = "deleteFree" /\ pc'[v] = "deleteFree" =>
            target'[u] # target'[v]
    BY DEF IInv, CallsValid
  <2>3. QED BY <2>1, <2>2 DEF CallsValid
<1>2. QED BY <1>1 DEF IInv

\* The new task x enters the ready list of its priority.
Created(x, r) ==
  /\ Sound(r) /\ r.current \in Tasks
  /\ os.running /\ os.current \in Tasks => r.current = os.current
  /\ r.running = os.running /\ r.stage = os.stage
  /\ r.suspended = os.suspended /\ r.pendedTicks = os.pendedTicks
  /\ r.numDeleted = os.numDeleted /\ Ending(r) = Ending(os)
  /\ \A u \in Tasks : u # x => r.stateList[u] = os.stateList[u]
  /\ r.stateList[x] # xTasksWaitingTermination
  /\ r.eventList = os.eventList

LEMMA CreateSound ==
  ASSUME IInv, NEW x \in Tasks, pc[x] = "none", NEW p \in Priorities
  PROVE  Created(x, prvAddNewTaskToReadyList(prvInitialiseNewTask(os, x, p), x))
<1> DEFINE q == prvInitialiseNewTask(os, x, p)
           r == prvAddNewTaskToReadyList(q, x)
<1>1. Sound(os) /\ os.stateList[x] = NoList /\ os.eventList[x] = NoList
  BY DEF IInv, DeadUnlinked, Dead
<1>2. /\ Sound(q) /\ q.current = os.current /\ q.running = os.running
      /\ q.stage = os.stage /\ q.suspended = os.suspended
      /\ q.pendedTicks = os.pendedTicks /\ q.numDeleted = os.numDeleted
      /\ q.stateList = os.stateList /\ q.eventList = os.eventList
      /\ Ending(q) = Ending(os)
  BY <1>1, InitialiseNewTaskSound
<1> HIDE DEF q
<1>3. q.stateList[x] = NoList
  BY <1>1, <1>2
<1>4. /\ Sound(r) /\ r.current \in Tasks
      /\ q.running /\ q.current \in Tasks => r.current = q.current
      /\ r.running = q.running /\ r.stage = q.stage
      /\ r.suspended = q.suspended /\ r.pendedTicks = q.pendedTicks
      /\ r.numDeleted = q.numDeleted
      /\ r.stateList = [q.stateList EXCEPT ![x] = q.prio[x]]
      /\ r.eventList = q.eventList /\ Ending(r) = Ending(q)
  BY <1>2, <1>3, AddNewTaskSound
<1> HIDE DEF r
<1>5. /\ q.prio[x] \in Priorities
      /\ q.stateList \in [Tasks -> StateLists \cup {NoList}]
  BY <1>2 DEF Sound, Good, Kernel
<1>6. /\ r.stateList[x] # xTasksWaitingTermination
      /\ \A u \in Tasks : u # x => r.stateList[u] = os.stateList[u]
  BY <1>2, <1>4, <1>5, ListsDiffer
<1>7. Created(x, r)
  BY <1>2, <1>4, <1>6 DEF Created
<1>8. QED BY <1>7 DEF r, q

\* Before the scheduler starts every task is in application code.
LEMMA CreateBeforeStartAction ==
  ASSUME IInv, NEW t \in Tasks, NEW p \in InitialPriorities, CreateBeforeStart(t, p)
  PROVE  IInv'
<1>1. /\ ~os.running /\ pc[t] = "none" /\ t # Idle
      /\ os' = prvAddNewTaskToReadyList(prvInitialiseNewTask(os, t, p), t)
      /\ pc' = [pc EXCEPT ![t] = "app"]
      /\ UNCHANGED <<target, ticks, lastWake>>
  BY DEF CreateBeforeStart, Goto, locals
<1>2. p \in Priorities
  BY SchedulerAssumption
<1>3. Created(t, os')
  BY <1>1, <1>2, CreateSound
<1>4. pc'[t] = "app" /\ \A u \in Tasks : u # t => pc'[u] = pc[u]
  BY <1>1, IInvFacts
<1>5. \A u \in Tasks : pc[u] \in {"none", "app"} /\ pc'[u] \in {"none", "app"}
  BY <1>1, <1>4 DEF IInv, ControlValid
<1>6. LocalsOK'
  <2>1. "app" \in Locations
    BY DEF Locations
  <2>2. QED BY <1>1, <2>1, IInvFacts DEF LocalsOK
<1>7. DeadUnlinked'
  BY <1>3, <1>4 DEF IInv, DeadUnlinked, Dead, Created
<1>8. ControlValid'
  <2>1. pc'[Idle] = "none"
    BY <1>1, <1>4, TasksAssumption DEF IInv, ControlValid
  <2>2. QED BY <2>1, <1>1, <1>3, <1>5 DEF IInv, ControlValid, Created, TickCounted
<1>9. \A u \in Tasks : pc'[u] \notin Suspending /\ pc'[u] # "deleteFree"
  BY <1>5 DEF Suspending
<1>10. QED BY <1>3, <1>6, <1>7, <1>8, <1>9, LifeStep DEF Created

LEMMA StartAction ==
  ASSUME IInv, vTaskStartScheduler
  PROVE  IInv'
<1> DEFINE r == prvAddNewTaskToReadyList(prvInitialiseNewTask(os, Idle, 0), Idle)
<1>1. /\ ~os.running
      /\ os' = [r EXCEPT !.nextUnblock = portMAX_DELAY, !.running = TRUE,
                         !.tick = configINITIAL_TICK_COUNT]
      /\ pc' = [pc EXCEPT ![Idle] = "app"]
      /\ UNCHANGED <<target, ticks, lastWake>>
  BY DEF vTaskStartScheduler, prvCreateIdleTasks, Goto, locals
<1>2. Idle \in Tasks /\ 0 \in Priorities /\ portMAX_DELAY \in Ticks
      /\ configINITIAL_TICK_COUNT \in Ticks
  BY TasksAssumption DEF Priorities, Ticks
<1>3. pc[Idle] = "none" /\ os.stage = "run" /\ TickCounted(os)
      /\ \A u \in Tasks : pc[u] \in {"none", "app"}
  BY <1>1 DEF IInv, ControlValid
<1>4. Created(Idle, r)
  BY <1>2, <1>3, CreateSound
<1> HIDE DEF r
<1>5. r \in Kernel
  BY <1>4 DEF Created, Sound, Good
<1>6. os' \in Kernel
  BY <1>1, <1>2, <1>5, ZenonT(60) DEF Kernel
<1>7. /\ SameLinks(r, os') /\ os'.prio = r.prio /\ os'.running = TRUE
      /\ os'.current = r.current /\ os'.stage = r.stage
      /\ os'.suspended = r.suspended /\ os'.pendedTicks = r.pendedTicks
      /\ os'.numDeleted = r.numDeleted
  BY <1>1, <1>5 DEF Kernel, SameLinks
<1>8. Sound(os') /\ Ending(os') = Ending(r)
  BY <1>4, <1>6, <1>7, SameLinksSound DEF Created
<1>9. pc'[Idle] = "app" /\ \A u \in Tasks : u # Idle => pc'[u] = pc[u]
  BY <1>1, <1>2, IInvFacts
<1>10. LocalsOK'
  <2>1. "app" \in Locations
    BY DEF Locations
  <2>2. QED BY <1>1, <2>1, IInvFacts DEF LocalsOK
<1>11. DeadUnlinked'
  BY <1>2, <1>4, <1>7, <1>9 DEF IInv, DeadUnlinked, Dead, Created, SameLinks
<1>12. ControlValid'
  BY <1>3, <1>4, <1>7, <1>8 DEF IInv, ControlValid, Created, TickCounted
<1>13. \A u \in Tasks : pc'[u] \notin Suspending /\ pc'[u] # "deleteFree"
  BY <1>3, <1>9 DEF Suspending
<1>14. QED BY <1>8, <1>10, <1>11, <1>12, <1>13, LifeStep

LEMMA CreateAction ==
  ASSUME IInv, NEW t \in Tasks, NEW x \in Tasks, NEW p \in InitialPriorities,
         xTaskCreate(t, x, p)
  PROVE  IInv'
<1>1. /\ Running(t) /\ pc[t] = "app" /\ pc[x] = "none" /\ x # t
      /\ os' = prvAddNewTaskToReadyList(prvInitialiseNewTask(os, x, p), x)
      /\ pc' = [pc EXCEPT ![t] = "createYield", ![x] = "app"]
      /\ target' = [target EXCEPT ![t] = x] /\ UNCHANGED ticks
      /\ lastWake' = [lastWake EXCEPT ![x] = os.tick]
  BY DEF xTaskCreate, MayCall, At
<1>2. p \in Priorities
  BY SchedulerAssumption
<1>3. Created(x, os')
  BY <1>1, <1>2, CreateSound
<1>4. /\ pc'[t] = "createYield" /\ pc'[x] = "app"
      /\ \A u \in Tasks : u # t /\ u # x => pc'[u] = pc[u]
  BY <1>1, IInvFacts
<1>5. os.running /\ os.current = t /\ \A u \in Tasks : u # t => pc[u] \notin Suspending
  BY <1>1, RunningFacts
<1>6. LocalsOK'
  <2>1. {"createYield", "app"} \subseteq Locations /\ os.tick \in Ticks
    BY IInvFacts DEF Locations, Kernel
  <2>2. QED BY <1>1, <2>1, IInvFacts DEF LocalsOK
<1>7. DeadUnlinked'
  <2>1. \A u \in Tasks : u # x => (pc'[u] \in Dead <=> pc[u] \in Dead)
                                  /\ (pc'[u] = "none" <=> pc[u] = "none")
    BY <1>1, <1>4 DEF Dead
  <2>2. pc'[x] \notin Dead /\ pc'[x] # "none"
    BY <1>4 DEF Dead
  <2>3. QED BY <1>3, <2>1, <2>2 DEF IInv, DeadUnlinked, Created
<1>8. ControlValid'
  BY <1>3, <1>5 DEF IInv, ControlValid, Created, TickCounted
<1>9. \A u \in Tasks : pc'[u] \notin Suspending
  BY <1>4, <1>5 DEF Suspending
<1>10. ASSUME NEW u \in Tasks, pc'[u] = "deleteFree"
       PROVE  /\ pc[u] = "deleteFree" /\ target'[u] = target[u]
              /\ pc'[target[u]] = "deleted"
              /\ os'.stateList[target[u]] = NoList
  <2>1. u # t /\ u # x /\ pc[u] = "deleteFree" /\ target'[u] = target[u]
    BY <1>1, <1>4, <1>10, IInvFacts
  <2>2. /\ target[u] \in Tasks /\ pc[target[u]] = "deleted"
        /\ os.stateList[target[u]] = NoList
    BY <2>1, IInvFacts DEF IInv, CallsValid
  <2>3. target[u] # t /\ target[u] # x
    BY <1>1, <2>2
  <2>4. QED BY <1>3, <1>4, <2>1, <2>2, <2>3 DEF Created
<1>11. Sound(os')
  BY <1>3 DEF Created
<1>12. QED BY <1>6, <1>7, <1>8, <1>9, <1>10, <1>11, LifeStep

\* The deleted task x leaves its lists; only if it runs it is left to the idle
\* task.
LEMMA UnlinkSound ==
  ASSUME IInv, NEW x \in Tasks, pc[x] \notin Dead
  PROVE  LET r == RemoveEventIfLinked(RemoveState(os, x), x)
         IN  /\ Sound(r) /\ SameControl(os, r)
             /\ r.stateList = [os.stateList EXCEPT ![x] = NoList]
             /\ r.eventList = [os.eventList EXCEPT ![x] = NoList]
             /\ r.topReady = os.topReady /\ Ending(r) = Ending(os)
<1> DEFINE a == RemoveState(os, x)
           r == RemoveEventIfLinked(a, x)
<1>1. Good(os) /\ Sound(os) /\ os.stateList[x] # xTasksWaitingTermination
  BY IInvFacts, LiveNotEnding
<1>2. /\ Good(a) /\ SameControl(os, a) /\ a.eventList = os.eventList
      /\ a.stateList = [os.stateList EXCEPT ![x] = NoList]
      /\ a.topReady = os.topReady /\ Ending(a) = Ending(os)
  BY <1>1, RemoveStateGood
<1> HIDE DEF a
<1>3. /\ Good(r) /\ SameControl(a, r)
      /\ r.eventList = [a.eventList EXCEPT ![x] = NoList]
      /\ r.stateList = a.stateList
      /\ r.topReady = a.topReady /\ Ending(r) = Ending(a)
  BY <1>2, RemoveEventIfLinkedGood
<1> HIDE DEF r
<1>4. SameControl(os, r)
  BY <1>2, <1>3 DEF SameControl
<1>5. Sound(r)
  BY <1>1, <1>2, <1>3, <1>4, ListsDiffer, UnreadySound
<1>6. QED BY <1>2, <1>3, <1>4, <1>5 DEF r, a

LEMMA DeleteSelfAction ==
  ASSUME IInv, NEW t \in Tasks, vTaskDelete(t, t)
  PROVE  IInv'
<1> DEFINE a == RemoveEventIfLinked(RemoveState(os, t), t)
           b == AppendState(a, xTasksWaitingTermination, t)
<1>1. /\ Running(t) /\ pc[t] = "app"
      /\ pc' = [pc EXCEPT ![t] = "deleteYield"]
      /\ target' = [target EXCEPT ![t] = t] /\ UNCHANGED <<ticks, lastWake>>
  BY DEF vTaskDelete, MayCall, At
<1>2. /\ os.running /\ os.stage = "run" /\ os.current = t /\ os \in Kernel
      /\ \A u \in Tasks : u # t => pc[u] \notin Suspending
      /\ pc[t] \notin Dead
      /\ os.stateList \in [Tasks -> StateLists \cup {NoList}]
      /\ os.eventList \in [Tasks -> ItemLists \cup {NoList}]
      /\ os.numDeleted \in Int
  BY <1>1, RunningFacts, IInvFacts DEF Dead, Kernel
<1>3. os' = [b EXCEPT !.numDeleted = @ + 1, !.yieldPending = TRUE]
  BY <1>2 DEF vTaskDelete
<1>4. /\ Sound(a) /\ SameControl(os, a)
      /\ a.stateList = [os.stateList EXCEPT ![t] = NoList]
      /\ a.eventList = [os.eventList EXCEPT ![t] = NoList]
      /\ a.topReady = os.topReady /\ Ending(a) = Ending(os)
  BY <1>2, UnlinkSound
<1> HIDE DEF a
<1>5. StateLinked(a, xTasksWaitingTermination, t, b)
  <2>1. Good(a) /\ a.stateList[t] = NoList
    BY <1>2, <1>4 DEF Sound
  <2>2. QED BY <2>1, ListNames, AppendStateGood
<1> HIDE DEF b
<1>6. /\ Good(b) /\ SameControl(a, b)
      /\ b.stateList = [os.stateList EXCEPT ![t] = xTasksWaitingTermination]
      /\ b.eventList = [os.eventList EXCEPT ![t] = NoList]
      /\ b.topReady = os.topReady /\ Ending(b) = Ending(os) + 1
  BY <1>2, <1>4, <1>5 DEF StateLinked
<1>7. SameControl(os, b) /\ b \in Kernel /\ b.numDeleted \in Int
  BY <1>4, <1>6 DEF SameControl, Good, Kernel
<1>8. Sound(b)
  BY <1>6, <1>7, ListsDiffer, UnreadySound, IInvFacts
<1> DEFINE n == b.numDeleted + 1
<1>9. n \in Int /\ os' = [b EXCEPT !.numDeleted = n, !.yieldPending = TRUE]
  BY <1>3, <1>7
<1> HIDE DEF n
<1>10. os' \in Kernel
  BY <1>7, <1>9, ZenonT(60) DEF Kernel
<1>11. /\ SameLinks(b, os') /\ os'.prio = b.prio /\ os'.numDeleted = n
       /\ os'.current = b.current /\ os'.running = b.running
       /\ os'.stage = b.stage /\ os'.suspended = b.suspended
       /\ os'.pendedTicks = b.pendedTicks
  BY <1>7, <1>9 DEF Kernel, SameLinks
<1>12. Sound(os') /\ Ending(os') = Ending(os) + 1
  BY <1>6, <1>8, <1>10, <1>11, SameLinksSound
<1>13. os'.numDeleted = os.numDeleted + 1
  BY <1>7, <1>11 DEF n, SameControl
<1>14. /\ pc'[t] = "deleteYield" /\ \A u \in Tasks : u # t => pc'[u] = pc[u]
       /\ os'.stateList[t] = xTasksWaitingTermination /\ os'.eventList[t] = NoList
       /\ \A u \in Tasks : u # t => /\ os'.stateList[u] = os.stateList[u]
                                    /\ os'.eventList[u] = os.eventList[u]
  BY <1>1, <1>2, <1>6, <1>11, IInvFacts DEF SameLinks
<1>15. LocalsOK'
  <2>1. "deleteYield" \in Locations
    BY DEF Locations
  <2>2. QED BY <1>1, <2>1, IInvFacts DEF LocalsOK
<1>16. DeadUnlinked'
  <2>1. pc'[t] \in Dead /\ pc'[t] # "none"
    BY <1>14 DEF Dead
  <2>2. QED BY <1>14, <2>1 DEF IInv, DeadUnlinked
<1>17. ControlValid'
  <2>1. Ending(os) \in Int
    BY <1>2, ListNames DEF Ending, LengthOf, Kernel, ListOf, Lists
  <2>2. os'.numDeleted <= Ending(os')
    BY <1>2, <1>12, <1>13, <2>1 DEF IInv, ControlValid
  <2>3. /\ os'.running /\ os'.current = t /\ os'.stage = "run"
        /\ os'.suspended = os.suspended
    BY <1>2, <1>7, <1>11 DEF SameControl
  <2>4. QED BY <2>2, <2>3 DEF ControlValid, TickCounted, Loops
<1>18. \A u \in Tasks : pc'[u] \notin Suspending
  BY <1>2, <1>14 DEF Suspending
<1>19. ASSUME NEW u \in Tasks, pc'[u] = "deleteFree"
       PROVE  /\ pc[u] = "deleteFree" /\ target'[u] = target[u]
              /\ pc'[target[u]] = "deleted"
              /\ os'.stateList[target[u]] = NoList
  <2>1. u # t /\ pc[u] = "deleteFree" /\ target'[u] = target[u]
    BY <1>1, <1>14, <1>19, IInvFacts
  <2>2. /\ target[u] \in Tasks /\ pc[target[u]] = "deleted"
        /\ os.stateList[target[u]] = NoList
    BY <2>1, IInvFacts DEF IInv, CallsValid
  <2>3. target[u] # t
    BY <1>1, <2>2
  <2>4. QED BY <1>14, <2>1, <2>2, <2>3
<1>20. QED BY <1>12, <1>15, <1>16, <1>17, <1>18, <1>19, LifeStep

LEMMA DeleteOtherAction ==
  ASSUME IInv, NEW t \in Tasks, NEW x \in Handles, x # t, vTaskDelete(t, x)
  PROVE  IInv'
<1> DEFINE a == RemoveEventIfLinked(RemoveState(os, x), x)
           b == [a EXCEPT !.numTasks = @ - 1]
<1>1. /\ Running(t) /\ pc[t] = "app" /\ x \in Tasks /\ pc[x] \notin Dead
      /\ pc' = [pc EXCEPT ![t] = "deleteFree", ![x] = "deleted"]
      /\ target' = [target EXCEPT ![t] = x] /\ UNCHANGED <<ticks, lastWake>>
  BY DEF vTaskDelete, MayCall, At, Handles, Dead
<1>2. /\ os.running /\ os.stage = "run" /\ os.current = t /\ os \in Kernel
      /\ \A u \in Tasks : u # t => pc[u] \notin Suspending
      /\ os.stateList \in [Tasks -> StateLists \cup {NoList}]
      /\ os.eventList \in [Tasks -> ItemLists \cup {NoList}]
  BY <1>1, RunningFacts, IInvFacts DEF Kernel
<1>3. os' = prvResetNextTaskUnblockTime(b)
  BY <1>2 DEF vTaskDelete
<1>4. /\ Sound(a) /\ SameControl(os, a)
      /\ a.stateList = [os.stateList EXCEPT ![x] = NoList]
      /\ a.eventList = [os.eventList EXCEPT ![x] = NoList]
      /\ Ending(a) = Ending(os)
  BY <1>1, UnlinkSound
<1> HIDE DEF a
<1>5. a \in Kernel
  BY <1>4 DEF Sound, Good
<1>6. b \in Kernel /\ SameLinks(a, b) /\ SameControl(a, b)
  BY <1>5, SMTT(60) DEF Kernel, SameLinks, SameControl
<1> HIDE DEF b
<1>7. Sound(b) /\ Ending(b) = Ending(a)
  BY <1>4, <1>6, SameLinksSound DEF SameControl
<1>8. Sound(os') /\ SameControl(b, os') /\ SameLinks(b, os')
      /\ Ending(os') = Ending(b)
  BY <1>3, <1>7, ResetUnblockTimeSound
<1>9. /\ SameControl(os, os') /\ Ending(os') = Ending(os)
      /\ os'.stateList = [os.stateList EXCEPT ![x] = NoList]
      /\ os'.eventList = [os.eventList EXCEPT ![x] = NoList]
  BY <1>4, <1>6, <1>7, <1>8 DEF SameControl, SameLinks
<1>10. /\ pc'[t] = "deleteFree" /\ pc'[x] = "deleted"
       /\ \A u \in Tasks : u # t /\ u # x => pc'[u] = pc[u]
       /\ target'[t] = x /\ \A u \in Tasks : u # t => target'[u] = target[u]
       /\ os'.stateList[x] = NoList /\ os'.eventList[x] = NoList
       /\ \A u \in Tasks : u # x => /\ os'.stateList[u] = os.stateList[u]
                                    /\ os'.eventList[u] = os.eventList[u]
  BY <1>1, <1>2, <1>9, IInvFacts
<1>11. LocalsOK'
  <2>1. {"deleteFree", "deleted"} \subseteq Locations
    BY DEF Locations
  <2>2. QED BY <1>1, <2>1, IInvFacts DEF LocalsOK
<1>12. DeadUnlinked'
  <2>1. pc'[t] \notin Dead /\ pc'[t] # "none" /\ pc[t] \notin Dead
    BY <1>1, <1>10 DEF Dead
  <2>2. pc'[x] # "none" /\ NoList # xTasksWaitingTermination
    BY <1>10, ListsDiffer
  <2>3. QED BY <1>1, <1>10, <2>1, <2>2, ZenonT(60) DEF IInv, DeadUnlinked
<1>13. ControlValid'
  BY <1>2, <1>9 DEF IInv, ControlValid, SameControl, TickCounted
<1>14. CallsValid'
  <2>1. \A u \in Tasks : pc'[u] \notin Suspending
    BY <1>2, <1>10 DEF Suspending
  <2>2. ASSUME NEW u \in Tasks, u # t, pc'[u] = "deleteFree"
        PROVE  /\ pc[u] = "deleteFree" /\ target'[u] = target[u]
               /\ target'[u] # x
               /\ pc'[target'[u]] = "deleted"
               /\ os'.stateList[target'[u]] = NoList
    <3>1. pc[u] = "deleteFree" /\ target'[u] = target[u]
      BY <1>10, <2>2
    <3>2. /\ target[u] \in Tasks /\ pc[target[u]] = "deleted"
          /\ os.stateList[target[u]] = NoList
      BY <3>1, IInvFacts DEF IInv, CallsValid
    <3>3. target[u] # t /\ target[u] # x
      BY <1>1, <3>2 DEF Dead
    <3>4. QED BY <1>10, <3>1, <3>2, <3>3
  <2>3. \A u \in Tasks :
          pc'[u] = "deleteFree" => /\ pc'[target'[u]] = "deleted"
                                   /\ os'.stateList[target'[u]] = NoList
    BY <1>10, <2>2
  <2>4. \A u, v \in Tasks :
          u # v /\ pc'[u] = "deleteFree" /\ pc'[v] = "deleteFree" =>
            target'[u] # target'[v]
    BY <1>10, <2>2 DEF IInv, CallsValid
  <2>5. \A u \in Tasks : pc'[u] \notin {"abort", "abortEvent"}
    BY <2>1 DEF Suspending
  <2>6. QED BY <2>1, <2>3, <2>4, <2>5 DEF CallsValid
<1>15. QED BY <1>8, <1>11, <1>12, <1>13, <1>14 DEF IInv

LEMMA DeleteFreesAction ==
  ASSUME IInv, NEW t \in Tasks, DeleteFrees(t)
  PROVE  IInv'
<1> DEFINE x == target[t]
<1>1. /\ Running(t) /\ pc[t] = "deleteFree" /\ os' = os
      /\ pc' = [pc EXCEPT ![t] = "app", ![x] = "none"]
      /\ target' = [target EXCEPT ![t] = t, ![x] = x]
      /\ ticks' = [ticks EXCEPT ![x] = 0]
      /\ lastWake' = [lastWake EXCEPT ![x] = configINITIAL_TICK_COUNT]
  BY DEF DeleteFrees, At, Forget
<1>2. /\ x \in Tasks /\ pc[x] = "deleted" /\ os.stateList[x] = NoList
      /\ \A u \in Tasks : u # t /\ pc[u] = "deleteFree" => target[u] # x
      /\ \A u \in Tasks : u # t => pc[u] \notin Suspending
  BY <1>1, IInvFacts, RunningFacts DEF IInv, CallsValid
<1> HIDE DEF x
<1>3. /\ x # t /\ pc'[t] = "app" /\ pc'[x] = "none"
      /\ \A u \in Tasks : u # t /\ u # x => pc'[u] = pc[u] /\ target'[u] = target[u]
  BY <1>1, <1>2, IInvFacts
<1>4. LocalsOK'
  <2>1. {"app", "none"} \subseteq Locations /\ 0 \in Ticks
        /\ configINITIAL_TICK_COUNT \in Ticks
    BY TasksAssumption DEF Locations, Ticks
  <2>2. QED BY <1>1, <1>2, <2>1, IInvFacts DEF LocalsOK
<1>5. DeadUnlinked'
  BY <1>1, <1>2, <1>3 DEF IInv, DeadUnlinked, Dead
<1>6. ControlValid' /\ Sound(os')
  <2>1. os.running
    BY <1>1, RunningFacts
  <2>2. QED BY <1>1, <2>1 DEF IInv, ControlValid
<1>7. \A u \in Tasks : pc'[u] \notin Suspending
  BY <1>2, <1>3 DEF Suspending
<1>8. ASSUME NEW u \in Tasks, pc'[u] = "deleteFree"
      PROVE  /\ pc[u] = "deleteFree" /\ target'[u] = target[u]
             /\ pc'[target[u]] = "deleted"
             /\ os'.stateList[target[u]] = NoList
  <2>1. u # t /\ u # x /\ pc[u] = "deleteFree" /\ target'[u] = target[u]
    BY <1>3, <1>8
  <2>2. /\ target[u] \in Tasks /\ pc[target[u]] = "deleted"
        /\ os.stateList[target[u]] = NoList
    BY <2>1, IInvFacts DEF IInv, CallsValid
  <2>3. target[u] # t /\ target[u] # x
    BY <1>1, <1>2, <2>1, <2>2
  <2>4. QED BY <1>1, <1>3, <2>1, <2>2, <2>3
<1>9. QED BY <1>4, <1>5, <1>6, <1>7, <1>8, LifeStep

LEMMA DeleteYieldsAction ==
  ASSUME IInv, NEW t \in Tasks, DeleteYields(t)
  PROVE  IInv'
<1> DEFINE c == os.suspended = 0
           a == configASSERT(os, c)
<1>1. /\ Running(t) /\ pc[t] = "deleteYield" /\ os' = YieldIf(a, TRUE)
      /\ pc' = [pc EXCEPT ![t] = "deleted"]
      /\ UNCHANGED <<target, ticks, lastWake>>
  BY PortYieldIsYieldIf DEF DeleteYields, At, Goto, locals
<1>2. os.running /\ \A u \in Tasks : u # t => pc[u] \notin Suspending
  BY <1>1, RunningFacts
<1> HIDE DEF c
<1>3. Good(a) /\ SameControl(os, a) /\ SameLinks(os, a)
  <2>1. c \in BOOLEAN
    BY DEF c
  <2>2. QED BY <2>1, AssertGood, IInvFacts
<1> HIDE DEF a
<1>4. Sound(a) /\ Ending(a) = Ending(os)
  BY <1>3, SameLinksSound, IInvFacts DEF Good, SameControl
<1>5. Sound(os') /\ SameControl(a, os') /\ SameLinks(a, os')
      /\ Ending(os') = Ending(a)
  BY <1>1, <1>4, YieldSound
<1>6. SameControl(os, os') /\ SameLinks(os, os') /\ Ending(os') = Ending(os)
  BY <1>3, <1>4, <1>5 DEF SameControl, SameLinks
<1>7. pc'[t] = "deleted" /\ \A u \in Tasks : u # t => pc'[u] = pc[u]
  BY <1>1, IInvFacts
<1>8. LocalsOK'
  <2>1. "deleted" \in Locations
    BY DEF Locations
  <2>2. QED BY <1>1, <2>1, IInvFacts DEF LocalsOK
<1>9. DeadUnlinked'
  BY <1>1, <1>6, <1>7 DEF IInv, DeadUnlinked, Dead, SameLinks
<1>10. ControlValid'
  BY <1>2, <1>6 DEF IInv, ControlValid, SameControl, TickCounted
<1>11. \A u \in Tasks : pc'[u] \notin Suspending
  BY <1>2, <1>7 DEF Suspending
<1>12. ASSUME NEW u \in Tasks, pc'[u] = "deleteFree"
       PROVE  /\ pc[u] = "deleteFree" /\ target'[u] = target[u]
              /\ pc'[target[u]] = "deleted"
              /\ os'.stateList[target[u]] = NoList
  <2>1. u # t /\ pc[u] = "deleteFree" /\ target'[u] = target[u]
    BY <1>1, <1>7, <1>12
  <2>2. /\ target[u] \in Tasks /\ pc[target[u]] = "deleted"
        /\ os.stateList[target[u]] = NoList
    BY <2>1, IInvFacts DEF IInv, CallsValid
  <2>3. QED BY <1>6, <1>7, <2>1, <2>2 DEF SameLinks
<1>13. QED BY <1>5, <1>8, <1>9, <1>10, <1>11, <1>12, LifeStep

\* The idle task frees the first of the tasks that wait for it.
LEMMA TerminationAction ==
  ASSUME IInv, prvCheckTasksWaitingTermination
  PROVE  IInv'
<1> DEFINE x == HeadOf(os, xTasksWaitingTermination)
           a == RemoveState(os, x)
<1>1. /\ Running(Idle) /\ pc[Idle] = "app" /\ os.numDeleted > 0
      /\ os' = [a EXCEPT !.numTasks = @ - 1, !.numDeleted = @ - 1]
      /\ pc' = [pc EXCEPT ![x] = "none"]
      /\ target' = [target EXCEPT ![x] = x]
      /\ lastWake' = [lastWake EXCEPT ![x] = configINITIAL_TICK_COUNT]
      /\ UNCHANGED ticks
  BY DEF prvCheckTasksWaitingTermination, At, Goto, Forget
<1>2. /\ Idle \in Tasks /\ xTasksWaitingTermination \in StateLists
      /\ xTasksWaitingTermination \in Lists
  BY TasksAssumption, ListNames DEF Lists
<1>3. /\ os.running /\ os.current = Idle /\ os.stage = "run"
      /\ \A u \in Tasks : u # Idle => pc[u] \notin Suspending
      /\ os \in Kernel /\ Good(os) /\ Sound(os)
      /\ os.stateList \in [Tasks -> StateLists \cup {NoList}]
      /\ os.numDeleted \in Int /\ os.numDeleted <= Ending(os)
  BY <1>1, <1>2, RunningFacts, IInvFacts DEF Kernel, IInv, ControlValid
<1>4. Ending(os) \in Int
  BY <1>2, <1>3 DEF Ending, LengthOf, Kernel, ListOf
<1>5. ~IsEmpty(os, xTasksWaitingTermination)
  <2>1. Ending(os) > 0
    BY <1>1, <1>3, <1>4
  <2>2. QED BY <2>1 DEF Ending, LengthOf, IsEmpty, listLIST_IS_EMPTY
<1>6. /\ x \in Tasks /\ os.stateList[x] = xTasksWaitingTermination
  BY <1>2, <1>3, <1>5, HeadIsLinked
<1> HIDE DEF x
<1>7. pc[x] \in Dead /\ os.eventList[x] = NoList /\ pc[x] # "none"
  BY <1>6, ListsDiffer DEF IInv, DeadUnlinked
<1>8. /\ Good(a) /\ SameControl(os, a) /\ a.eventList = os.eventList
      /\ a.stateList = [os.stateList EXCEPT ![x] = NoList]
      /\ a.topReady = os.topReady /\ Ending(a) = Ending(os) - 1
  BY <1>3, <1>6, RemoveStateGood
<1> HIDE DEF a
<1>9. Sound(a) /\ a \in Kernel
  BY <1>3, <1>6, <1>8, ListsDiffer, UnreadySound DEF Good
<1> DEFINE n == a.numDeleted - 1
           m == a.numTasks - 1
<1>10. n \in Int /\ m \in Int /\ os' = [a EXCEPT !.numTasks = m, !.numDeleted = n]
  BY <1>1, <1>9 DEF Kernel
<1>11. n = os.numDeleted - 1
  BY <1>8 DEF SameControl
<1> HIDE DEF n, m
<1>12. os' \in Kernel
  BY <1>9, <1>10, ZenonT(60) DEF Kernel
<1>13. /\ SameLinks(a, os') /\ os'.prio = a.prio /\ os'.numDeleted = n
       /\ os'.current = a.current /\ os'.running = a.running
       /\ os'.stage = a.stage /\ os'.suspended = a.suspended
       /\ os'.pendedTicks = a.pendedTicks
  BY <1>9, <1>10 DEF Kernel, SameLinks
<1>14. Sound(os') /\ Ending(os') = Ending(os) - 1
  BY <1>8, <1>9, <1>12, <1>13, SameLinksSound
<1>15. /\ pc'[x] = "none" /\ x # Idle
       /\ \A u \in Tasks : u # x => pc'[u] = pc[u] /\ target'[u] = target[u]
       /\ os'.stateList[x] = NoList /\ os'.eventList = os.eventList
       /\ \A u \in Tasks : u # x => os'.stateList[u] = os.stateList[u]
  <2>1. x # Idle
    BY <1>1, <1>7 DEF Dead
  <2>2. QED BY <2>1, <1>1, <1>3, <1>6, <1>8, <1>13, IInvFacts DEF SameLinks
<1>16. LocalsOK'
  <2>1. "none" \in Locations /\ configINITIAL_TICK_COUNT \in Ticks
    BY TasksAssumption DEF Locations
  <2>2. QED BY <1>1, <1>6, <2>1, IInvFacts DEF LocalsOK
<1>17. DeadUnlinked'
  BY <1>7, <1>15, ListsDiffer DEF IInv, DeadUnlinked, Dead
<1>18. ControlValid'
  <2>1. os'.numDeleted <= Ending(os')
    BY <1>3, <1>4, <1>11, <1>13, <1>14
  <2>2. os'.running /\ os'.current = Idle /\ os'.stage = "run"
    BY <1>3, <1>8, <1>13 DEF SameControl
  <2>3. QED BY <1>2, <2>1, <2>2 DEF ControlValid, TickCounted, Loops
<1>19. \A u \in Tasks : pc'[u] \notin Suspending
  BY <1>1, <1>3, <1>15 DEF Suspending
<1>20. ASSUME NEW u \in Tasks, pc'[u] = "deleteFree"
       PROVE  /\ pc[u] = "deleteFree" /\ target'[u] = target[u]
              /\ pc'[target[u]] = "deleted"
              /\ os'.stateList[target[u]] = NoList
  <2>1. u # x /\ pc[u] = "deleteFree" /\ target'[u] = target[u]
    BY <1>15, <1>20
  <2>2. /\ target[u] \in Tasks /\ pc[target[u]] = "deleted"
        /\ os.stateList[target[u]] = NoList
    BY <2>1, IInvFacts DEF IInv, CallsValid
  <2>3. target[u] # x
    BY <1>6, <2>2, ListsDiffer
  <2>4. QED BY <1>15, <2>1, <2>2, <2>3
<1>21. QED BY <1>14, <1>16, <1>17, <1>18, <1>19, <1>20, LifeStep

LEMMA IdleYieldsAction ==
  ASSUME IInv, IdleYields
  PROVE  IInv'
<1>1. /\ Running(Idle) /\ pc[Idle] = "app" /\ Idle \in Tasks
      /\ os' = YieldIf(os, TRUE) /\ UNCHANGED <<pc, locals>>
  BY PortYieldIsYieldIf, TasksAssumption DEF IdleYields, At
<1>2. KernelStep /\ os.current = Idle /\ os'.current = Idle
  BY <1>1, YieldStep, RunningFacts
<1>3. QED BY <1>1, <1>2, SettledTaskStep
-----------------------------------------------------------------------------
(* The invariant of the specification, and what follows from it.           *)

LEMMA NextIInv == IInv /\ [SchedulerNext]_vars => IInv'
<1> SUFFICES ASSUME IInv, [SchedulerNext]_vars PROVE IInv'
  OBVIOUS
<1>1. CASE Start
  BY <1>1, CreateBeforeStartAction, StartAction DEF Start
<1>2. CASE Interrupt
  BY <1>2, TickAction, ResumeFromISRAction DEF Interrupt
<1>3. CASE ContextSwitch
  BY <1>3, ContextSwitchAction
<1>4. CASE MaskedStep
  BY <1>4, MaskedActions
<1>5. CASE IdleStep
  BY <1>5, TerminationAction, IdleYieldsAction DEF IdleStep
<1>6. ASSUME NEW t \in Tasks, Call(t) PROVE IInv'
  <2>1. CASE \/ \E n \in DelayTicks : vTaskDelay(t, n)
             \/ \E n \in Periods : xTaskDelayUntil(t, n)
             \/ SuspendScheduler(t)
             \/ \E x \in Handles : xTaskAbortDelay(t, x)
    BY <2>1, SuspendActions
  <2>2. CASE taskYIELD(t)
    BY <2>2, YieldActions
  <2>3. CASE ResumeScheduler(t)
    BY <2>3, ResumeActions
  <2>4. ASSUME NEW x \in Handles, vTaskSuspend(t, x) PROVE IInv'
    BY <2>4, SuspendAction
  <2>5. ASSUME NEW x \in Handles, vTaskResume(t, x) PROVE IInv'
    BY <2>5, ResumeTaskAction
  <2>6. ASSUME NEW x \in Handles, vTaskDelete(t, x) PROVE IInv'
    <3>1. CASE x = t
      BY <2>6, <3>1, DeleteSelfAction
    <3>2. CASE x # t
      BY <2>6, <3>2, DeleteOtherAction
    <3>3. QED BY <3>1, <3>2
  <2>7. ASSUME NEW x \in Handles, NEW p \in NewPriorities,
               vTaskPrioritySet(t, x, p)
        PROVE  IInv'
    BY <2>7, PrioritySetAction
  <2>8. ASSUME NEW x \in Tasks, NEW p \in InitialPriorities, xTaskCreate(t, x, p)
        PROVE  IInv'
    BY <2>8, CreateAction
  <2>9. QED BY <1>6, <2>1, <2>2, <2>3, <2>4, <2>5, <2>6, <2>7, <2>8 DEF Call
<1>7. ASSUME NEW t \in Tasks, Continue(t) PROVE IInv'
  <2>1. CASE ResumeThenYield(t) \/ ResumeThenReturn(t)
    BY <2>1, ResumeActions
  <2>2. CASE YieldUnlessYielded(t) \/ SuspendYields(t) \/ CreateYields(t)
    BY <2>2, YieldActions
  <2>3. CASE DelayBlocks(t) \/ DelayUntilBlocks(t)
    BY <2>3, DelayActions
  <2>4. CASE SuspendResetsUnblockTime(t)
    BY <2>4, SuspendResetAction
  <2>5. CASE AbortUnlinksState(t)
    BY <2>5, AbortUnlinksAction
  <2>6. CASE AbortMakesReady(t)
    BY <2>6, AbortReadyAction
  <2>7. CASE DeleteFrees(t)
    BY <2>7, DeleteFreesAction
  <2>8. CASE DeleteYields(t)
    BY <2>8, DeleteYieldsAction
  <2>9. QED BY <1>7, <2>1, <2>2, <2>3, <2>4, <2>5, <2>6, <2>7, <2>8 DEF Continue
<1>8. CASE UNCHANGED vars
  BY <1>8 DEF vars, IInv, LocalsOK, DeadUnlinked, CallsValid, ControlValid
<1>9. QED BY <1>1, <1>2, <1>3, <1>4, <1>5, <1>6, <1>7, <1>8 DEF SchedulerNext

\* Every reachable state satisfies the inductive invariant: in particular a
\* task with the scheduler suspended keeps the processor, the target of an
\* xTaskAbortDelay in progress is alive, that of a vTaskDelete is unlinked and
\* freed once, and there are no fewer tasks to free than are counted.
THEOREM Invariance == SchedulerSpec => []IInv
<1>1. SchedulerInit => IInv
  BY InitIInv
<1>2. IInv /\ [SchedulerNext]_vars => IInv'
  BY NextIInv
<1>3. QED BY <1>1, <1>2, PTL DEF SchedulerSpec

\* Tasks only go to locations of the scheduler.
StaysLocated ==
  /\ pc' = [u \in Tasks |-> pc'[u]]
  /\ \A u \in Tasks : pc'[u] \in Locations \cup {pc[u]}

LEMMA GotoLocated ==
  ASSUME pc = [u \in Tasks |-> pc[u]], NEW x, NEW p, p \in Locations, Goto(x, p)
  PROVE  StaysLocated
BY DEF Goto, StaysLocated

LEMMA NextLocations ==
  ASSUME pc = [u \in Tasks |-> pc[u]], SchedulerNext
  PROVE  StaysLocated
<1>1. /\ "none" \in Locations /\ "app" \in Locations
      /\ "delay" \in Locations /\ "delayUntil" \in Locations
      /\ "resumeThenYield" \in Locations
      /\ "yieldUnlessYielded" \in Locations
      /\ "resumeThenReturn" \in Locations
      /\ "suspendReset" \in Locations /\ "suspendYield" \in Locations
      /\ "abort" \in Locations /\ "abortEvent" \in Locations
      /\ "createYield" \in Locations /\ "deleteFree" \in Locations
      /\ "deleteYield" \in Locations /\ "deleted" \in Locations
  BY DEF Locations
<1>2. UNCHANGED pc => StaysLocated
  BY DEF StaysLocated
<1>3. CASE Start
  BY <1>1, <1>3, GotoLocated DEF Start, CreateBeforeStart, vTaskStartScheduler
<1>4. CASE Interrupt \/ ContextSwitch \/ MaskedStep
  BY <1>2, <1>4 DEF Interrupt, TickISR, xTaskResumeFromISR, ContextSwitch, MaskedStep,
                    DrainPendingReady, FinishPendingReady, ProcessPendedTick,
                    FinishResumeAll, UnblockDelayed
<1>5. CASE IdleStep
  BY <1>1, <1>2, <1>5, GotoLocated DEF IdleStep, prvCheckTasksWaitingTermination, IdleYields
<1>6. ASSUME NEW t \in Tasks, Continue(t)
      PROVE  StaysLocated
  <2>1. CASE DeleteFrees(t)
    BY <1>1, <2>1 DEF DeleteFrees, StaysLocated
  <2>2. CASE ~DeleteFrees(t)
    BY <1>1, <1>2, <1>6, <2>2, GotoLocated
       DEF Continue, ResumeThenYield, YieldUnlessYielded, ResumeThenReturn, DelayBlocks,
           DelayUntilBlocks, SuspendResetsUnblockTime, SuspendYields,
           AbortUnlinksState, AbortMakesReady, CreateYields, DeleteYields
  <2>3. QED BY <2>1, <2>2
<1>7. ASSUME NEW t \in Tasks, Call(t)
      PROVE  StaysLocated
  <2>1. ASSUME NEW x \in Tasks, NEW p, xTaskCreate(t, x, p)
        PROVE  StaysLocated
    BY <1>1, <2>1 DEF xTaskCreate, StaysLocated
  <2>2. ASSUME NEW x \in Handles, vTaskDelete(t, x)
        PROVE  StaysLocated
    BY <1>1, <2>2 DEF vTaskDelete, StaysLocated
  <2>3. ASSUME NEW x \in Handles,
               \/ vTaskSuspend(t, x) \/ vTaskResume(t, x) \/ xTaskAbortDelay(t, x)
               \/ \E p \in NewPriorities : vTaskPrioritySet(t, x, p)
        PROVE  StaysLocated
    BY <1>1, <1>2, <2>3, GotoLocated
       DEF vTaskSuspend, vTaskResume, xTaskAbortDelay, vTaskPrioritySet
  <2>4. ASSUME NEW n, vTaskDelay(t, n) \/ xTaskDelayUntil(t, n)
        PROVE  StaysLocated
    BY <1>1, <1>2, <2>4, GotoLocated DEF vTaskDelay, xTaskDelayUntil
  <2>5. CASE taskYIELD(t) \/ SuspendScheduler(t) \/ ResumeScheduler(t)
    BY <1>2, <2>5 DEF taskYIELD, SuspendScheduler, ResumeScheduler
  <2>6. QED BY <1>7, <2>1, <2>2, <2>3, <2>4, <2>5 DEF Call
<1>8. QED BY <1>3, <1>4, <1>5, <1>6, <1>7 DEF SchedulerNext

\* Every variable keeps its type; a cursor stays within its list and the tick
\* count within TickType_t.
THEOREM TypeCorrect == SchedulerSpec => []TypeOK
<1> DEFINE Located == \A t \in Tasks : pc[t] \in Locations
<1>1. IInv /\ Located => TypeOK
  BY DEF IInv, Sound, Good, LocalsOK, TypeOK
<1>2. SchedulerInit => Located
  BY DEF SchedulerInit, Locations
<1>3. IInv /\ Located /\ [SchedulerNext]_vars => Located'
  <2> SUFFICES ASSUME IInv, Located, [SchedulerNext]_vars PROVE Located'
    OBVIOUS
  <2>1. CASE SchedulerNext
    BY <2>1, IInvFacts, NextLocations DEF StaysLocated
  <2>2. CASE UNCHANGED vars
    BY <2>2 DEF vars
  <2>3. QED BY <2>1, <2>2
<1>4. SchedulerSpec => []Located
  BY <1>2, <1>3, Invariance, PTL DEF SchedulerSpec
<1>5. QED BY <1>1, <1>4, Invariance, PTL

\* The pxContainer pointers and the lists agree through every insertion,
\* removal, creation, abort and deletion.
THEOREM ListsStayConsistent == SchedulerSpec => []ListsConsistent
<1>1. IInv => ListsConsistent
  BY DEF IInv, Sound, Good, ListsConsistent
<1>2. QED BY <1>1, Invariance, PTL

\* A task in a ready list is in the one of its own priority, also after its
\* priority was changed while it was blocked, suspended, pending or ready.
THEOREM ReadyListsByPriority == SchedulerSpec => []ReadyAtOwnPriority
<1>1. IInv => ReadyAtOwnPriority
  BY DEF IInv, Sound, Orderly, ReadyAtOwnPriority
<1>2. QED BY <1>1, Invariance, PTL

\* uxTopReadyPriority, which a context switch lowers and a task that becomes
\* ready raises, bounds every ready list that is not empty.
THEOREM TopReadyBounds == SchedulerSpec => []TopReadyCoversReady
<1>1. IInv => TopReadyCoversReady
  <2> SUFFICES ASSUME IInv, NEW p \in Priorities, ~IsEmpty(os, p)
               PROVE  p <= os.topReady
    BY DEF TopReadyCoversReady
  <2>1. p \in StateLists /\ p \in Lists
    BY ListNames DEF Lists
  <2>2. HeadOf(os, p) \in Tasks /\ os.stateList[HeadOf(os, p)] = p
    BY <2>1, IInvFacts, HeadIsLinked
  <2>3. QED BY <2>2 DEF IInv, Sound, Orderly
<1>2. QED BY <1>1, Invariance, PTL

\* The search of a context switch misses no ready task and takes none before one
\* of higher priority.
THEOREM ReadyTasksAreFound == SchedulerSpec => []ReadyTasksFound
<1>1. ReadyAtOwnPriority /\ TopReadyCoversReady => ReadyTasksFound
  BY DEF ReadyTasksFound
<1>2. QED BY <1>1, ReadyListsByPriority, TopReadyBounds, PTL
-----------------------------------------------------------------------------
(* The test of xTaskDelayUntil.                                            *)

\* The case analysis of xTaskDelayUntil over which counts have wrapped is the
\* question whether less than a period has passed since the previous wake time,
\* for every width of the tick count.
THEOREM WakeTestIsElapsedTime ==
  ASSUME NEW now \in Ticks, NEW previous \in Ticks, NEW period \in Ticks \ {0}
  PROVE  WakeIsAhead(now, previous, WrappingAdd(previous, period))
           <=> WrappingSub(now, previous) < period
<1>1. /\ now \in 0..portMAX_DELAY /\ previous \in 0..portMAX_DELAY
      /\ period \in 1..portMAX_DELAY /\ portMAX_DELAY \in Nat
  BY TasksAssumption DEF Ticks
<1>2. CASE previous + period > portMAX_DELAY
  BY <1>1, <1>2 DEF WakeIsAhead, WrappingAdd, WrappingSub
<1>3. CASE ~(previous + period > portMAX_DELAY)
  BY <1>1, <1>3 DEF WakeIsAhead, WrappingAdd, WrappingSub
<1>4. QED BY <1>2, <1>3
=============================================================================

-------------------------------- MODULE Port --------------------------------
(***************************************************************************)
(* A processor under one port of src/src/port: main starts the scheduler,  *)
(* tasks enter and leave critical sections, yield and use the floating     *)
(* point unit, interrupts come between any two steps that leave them       *)
(* unmasked, and a handler makes its calls one at a time.  The operators   *)
(* below are the functions of the port; a port's module defines them and   *)
(* instantiates this one.                                                  *)
(***************************************************************************)
EXTENDS Machine

CONSTANTS
  Threads,
  main,        \* the context main() runs in until the scheduler is started
  FpuTasks,    \* the tasks that use the floating point unit
  MaxNesting,  \* bound on the critical sections a task is in
  Nests,       \* whether an interrupt may come while another is served
  NestingAtReset,
  pxPortInitialiseStack(_),
  portENTER_CRITICAL(_),
  portEXIT_CRITICAL(_),
  portDISABLE_INTERRUPTS(_),
  portSET_INTERRUPT_MASK_FROM_ISR(_),
  portCLEAR_INTERRUPT_MASK_FROM_ISR(_),
  portYIELD(_),           \* the machines a yield may lead to
  portYIELD_FROM_ISR(_),
  xPortStartScheduler(_),
  vPortTaskUsesFPU(_),
  FpuAllowed(_),          \* whether the code that runs may use the unit
  UseFpu(_, _),
  EnterHandler(_, _),
  LeaveHandler(_),        \* the machines the end of a handler may lead to
  TickStarts(_),
  TickWantsSwitch(_),
  TickEnds(_),
  SwitchTaken(_),         \* whether a pended switch interrupts the code
  SwitchHandler(_)        \* the machines a step of that handler leads to

VARIABLES
  m,         \* the machine
  sections,  \* the critical sections each context has entered and not left
  live       \* the tasks with values of theirs in the floating point unit

PortInit ==
  /\ m = Reset(main, NestingAtReset,
               [t \in Threads |-> pxPortInitialiseStack(t)])
  /\ sections = [t \in Threads \union {main} |-> 0]
  /\ live = {}

TaskRuns == m.frames = <<>> /\ ~m.hung /\ ~SwitchTaken(m)

EnterSection ==
  /\ TaskRuns
  /\ sections[m.cur] < MaxNesting
  /\ m' = portENTER_CRITICAL(m)
  /\ sections' = [sections EXCEPT ![m.cur] = @ + 1]
  /\ UNCHANGED live

LeaveSection ==
  /\ TaskRuns
  /\ sections[m.cur] > 0
  /\ m' = portEXIT_CRITICAL(m)
  /\ sections' = [sections EXCEPT ![m.cur] = @ - 1]
  /\ UNCHANGED live

\* The end of vTaskStartScheduler, with t the task it has made current.
StartScheduler(t) ==
  /\ m.cur = main
  /\ sections[main] = 0
  /\ m' = xPortStartScheduler([portDISABLE_INTERRUPTS(m) EXCEPT !.cur = t])
  /\ UNCHANGED <<sections, live>>

Yield ==
  /\ TaskRuns
  /\ m.cur # main
  /\ m' \in portYIELD(m)
  /\ UNCHANGED <<sections, live>>

RegisterFpu ==
  /\ TaskRuns
  /\ m.cur \in FpuTasks
  /\ m' = vPortTaskUsesFPU(m)
  /\ UNCHANGED <<sections, live>>

TaskUsesFpu ==
  /\ TaskRuns
  /\ m.cur \in FpuTasks
  /\ FpuAllowed(m)
  /\ m' = UseFpu(m, FpOf(m.cur))
  /\ live' = live \union {m.cur}
  /\ UNCHANGED sections

\* Interrupts are first enabled by the start of the scheduler.
Interrupted(i) ==
  /\ m.cur # main
  /\ ~m.hung
  /\ Takes(m, i)
  /\ Nests \/ m.frames = <<>>
  /\ m' = EnterHandler(m, i)
  /\ UNCHANGED <<sections, live>>

InHandler(irqs, stage) ==
  /\ m.frames # <<>> /\ ~m.hung
  /\ Frame(m).irq \in irqs
  /\ Frame(m).at = stage
  /\ UNCHANGED <<sections, live>>

\* A handler is compiled code: it preserves the high half itself.
HandlerUsesFpu ==
  /\ InHandler({"dev", "high"}, "entered")
  /\ FpuAllowed(m)
  /\ m' = UseFpu(m, [m.fp EXCEPT !.low = "handler"])

DeviceMasks ==
  /\ InHandler({"dev"}, "entered")
  /\ m' = AtStage(portSET_INTERRUPT_MASK_FROM_ISR(m), "inside")

DeviceUnmasks ==
  /\ InHandler({"dev"}, "inside")
  /\ m' = AtStage(portCLEAR_INTERRUPT_MASK_FROM_ISR(m), "done")

DeviceYields ==
  /\ InHandler({"dev"}, "done")
  /\ m' = portYIELD_FROM_ISR(m)

TickBegins ==
  /\ InHandler({"tick"}, "entered")
  /\ m' = AtStage(TickStarts(m), "inside")

\* What xTaskIncrementTick returns.
TickCounts ==
  /\ InHandler({"tick"}, "inside")
  /\ m' \in {AtStage(m, "counted"), AtStage(TickWantsSwitch(m), "counted")}

TickFinishes ==
  /\ InHandler({"tick"}, "counted")
  /\ m' = AtStage(TickEnds(m), "done")

HandlerReturns ==
  /\ \/ InHandler({"tick", "dev"}, "done")
     \/ InHandler({"high"}, "entered")
  /\ m' \in LeaveHandler(m)

SwitchInterrupts ==
  /\ ~m.hung
  /\ SwitchTaken(m)
  /\ m' = [EnterHandler(m, "pendsv") EXCEPT !.pend = FALSE]
  /\ UNCHANGED <<sections, live>>

SwitchSteps ==
  /\ \E stage \in {"entered", "inside", "switched", "done"} :
       InHandler({"pendsv"}, stage)
  /\ m' \in SwitchHandler(m)

PortNext ==
  \/ EnterSection
  \/ LeaveSection
  \/ \E t \in Threads : StartScheduler(t)
  \/ Yield
  \/ RegisterFpu
  \/ TaskUsesFpu
  \/ \E i \in Interrupts : Interrupted(i)
  \/ HandlerUsesFpu
  \/ DeviceMasks
  \/ DeviceUnmasks
  \/ DeviceYields
  \/ TickBegins
  \/ TickCounts
  \/ TickFinishes
  \/ HandlerReturns
  \/ SwitchInterrupts
  \/ SwitchSteps
=============================================================================

------------------------------ MODULE CortexA9 ------------------------------
(***************************************************************************)
(* The port to the Cortex-A9, src/src/port/cortex_a9.rs: critical sections *)
(* raise the priority mask of the interrupt controller, CPSR.I (off) only  *)
(* guards changes of that mask, handlers nest, and a switch saves the      *)
(* nesting of critical sections with the task.                             *)
(***************************************************************************)
EXTENDS Machine

CONSTANTS Threads, main, FpuTasks, MaxNesting, Nests

VARIABLES m, sections, live

NestingAtReset == 9999

\* Whatever CPSR.I was, it is clear afterwards.
ulPortSetInterruptMask(c) == [c EXCEPT !.mask = TRUE, !.off = FALSE]

portCLEAR_INTERRUPT_MASK(c) == [c EXCEPT !.mask = FALSE, !.off = FALSE]

vPortClearInterruptMask(c, masked) ==
  IF masked THEN c ELSE portCLEAR_INTERRUPT_MASK(c)

portDISABLE_INTERRUPTS(c) == ulPortSetInterruptMask(c)

portENTER_CRITICAL(c) == [ulPortSetInterruptMask(c) EXCEPT !.nesting = @ + 1]

portEXIT_CRITICAL(c) ==
  IF c.nesting = 0
  THEN c
  ELSE LET left == [c EXCEPT !.nesting = @ - 1]
       IN  IF left.nesting = 0 THEN portCLEAR_INTERRUPT_MASK(left) ELSE left

portSET_INTERRUPT_MASK_FROM_ISR(c) ==
  ulPortSetInterruptMask([c EXCEPT !.frames[Len(c.frames)].status = c.mask])

portCLEAR_INTERRUPT_MASK_FROM_ISR(c) ==
  vPortClearInterruptMask(c, Frame(c).status)

portYIELD_FROM_ISR(c) == [c EXCEPT !.pend = TRUE]

\* What portSAVE_CONTEXT pushes; the registers of the unit only with the flag.
Context(regs, nesting, off, fpu, fp) ==
  [regs |-> regs, nesting |-> nesting, off |-> off, fpu |-> fpu,
   fp |-> IF fpu THEN fp ELSE FpOf("none")]

pxPortInitialiseStack(t) == Context(t, 0, FALSE, FALSE, FpOf("none"))

\* srsdb has pushed the CPSR of the task, in which CPSR.I was off.
SaveContext(c, off) ==
  [c EXCEPT !.saved[c.cur] = Context(c.regs, c.nesting, off, c.fpu, c.fp)]

\* Mutant: the priority mask is always opened.
RestoreUnmasked(c) ==
  LET saved == c.saved[c.cur]
  IN  [c EXCEPT !.regs = saved.regs, !.nesting = saved.nesting,
                !.mask = FALSE, !.off = saved.off, !.fpu = saved.fpu,
                !.fp = IF saved.fpu THEN saved.fp ELSE @]

RestoreContext(c) ==
  LET saved == c.saved[c.cur]
  IN  [c EXCEPT !.regs = saved.regs,
                !.nesting = saved.nesting,
                !.mask = saved.nesting # 0,
                !.off = saved.off,
                !.fpu = saved.fpu,
                !.fp = IF saved.fpu THEN saved.fp ELSE @]

Switch(c, off) ==
  {RestoreContext(d) : d \in SwitchContext(Threads, SaveContext(c, off))}

\* svc, and FreeRTOS_SWI_Handler with IRQs masked by the exception.
portYIELD(c) == Switch(c, c.off)

vPortRestoreTaskContext(c) == RestoreContext(c)

xPortStartScheduler(c) == vPortRestoreTaskContext([c EXCEPT !.off = TRUE])

\* The wrapper vApplicationIRQHandler of the port saves the registers of the
\* unit that a compiled handler may clobber.
EnterHandler(c, i) ==
  Push([c EXCEPT !.off = TRUE, !.depth = @ + 1],
       [irq |-> i, at |-> "entered", status |-> FALSE,
        off |-> c.off, outer |-> c.depth, low |-> c.fp.low])

\* The end of FreeRTOS_IRQ_Handler, with IRQs masked.
LeaveHandler(c) ==
  LET left == Pop([c EXCEPT !.depth = Frame(c).outer,
                            !.fp.low = Frame(c).low])
  IN  IF left.depth = 0 /\ left.pend
      THEN Switch([left EXCEPT !.pend = FALSE], Frame(c).off)
      ELSE {[left EXCEPT !.off = Frame(c).off]}

\* FreeRTOS_Tick_Handler
TickStarts(c) == [c EXCEPT !.mask = TRUE, !.off = FALSE]
TickWantsSwitch(c) == [c EXCEPT !.pend = TRUE]
TickEnds(c) == portCLEAR_INTERRUPT_MASK(c)

\* There is no pended exception: pend is ulPortYieldRequired.
SwitchTaken(c) == FALSE
SwitchHandler(c) == {}

xPortIsInsideInterrupt(c) == c.depth > 0

vPortTaskUsesFPU(c) == [c EXCEPT !.fpu = TRUE]

\* A task registers before it uses the unit.
FpuAllowed(c) == c.fpu \/ c.frames # <<>>
UseFpu(c, fp) == [c EXCEPT !.fp = fp]

INSTANCE Port
=============================================================================

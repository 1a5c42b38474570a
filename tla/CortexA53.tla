------------------------------ MODULE CortexA53 -----------------------------
(***************************************************************************)
(* The port to the Cortex-A53, src/src/port/cortex_a53.rs: that to the     *)
(* Cortex-A9 for AArch64, where off is DAIF.I.  Threads run on SP_EL0 and    *)
(* handlers on SP_EL1, and the vector table tells interrupts of one from   *)
(* those of the other.                                                     *)
(***************************************************************************)
EXTENDS Machine

CONSTANTS Threads, main, FpuTasks, MaxNesting, Nests

VARIABLES m, sections, live

NestingAtReset == 9999

portDISABLE_INTERRUPTS(c) == [c EXCEPT !.off = TRUE]

portENABLE_INTERRUPTS(c) == [c EXCEPT !.off = FALSE]

ulPortSetInterruptMask(c) ==
  portENABLE_INTERRUPTS([portDISABLE_INTERRUPTS(c) EXCEPT !.mask = TRUE])

portCLEAR_INTERRUPT_MASK(c) ==
  portENABLE_INTERRUPTS([portDISABLE_INTERRUPTS(c) EXCEPT !.mask = FALSE])

vPortClearInterruptMask(c, masked) ==
  IF masked THEN c ELSE portCLEAR_INTERRUPT_MASK(c)

portENTER_CRITICAL(c) == [ulPortSetInterruptMask(c) EXCEPT !.nesting = @ + 1]

portEXIT_CRITICAL(c) ==
  IF c.nesting = 0
  THEN c
  ELSE LET left == [c EXCEPT !.nesting = @ - 1]
       IN  IF left.nesting = 0 THEN portCLEAR_INTERRUPT_MASK(left) ELSE left

portSET_INTERRUPT_MASK_FROM_ISR(c) ==
  ulPortSetInterruptMask([c EXCEPT !.frames[Len(c.frames)].status = c.mask])

portCLEAR_INTERRUPT_MASK_FROM_ISR(c) ==
  vPortClearInterruptMask(c, Frame(c).status)

portYIELD_FROM_ISR(c) == [c EXCEPT !.pend = TRUE]

Context(regs, nesting, off, fpu, fp) ==
  [regs |-> regs, nesting |-> nesting, off |-> off, fpu |-> fpu,
   fp |-> IF fpu THEN fp ELSE FpOf("none")]

\* portINITIAL_PSTATE: SP_EL0, interrupts enabled.
pxPortInitialiseStack(t) == Context(t, 0, FALSE, FALSE, FpOf("none"))

SaveContext(c, off) ==
  [c EXCEPT !.saved[c.cur] = Context(c.regs, c.nesting, off, c.fpu, c.fp)]

RestoreContext(c) ==
  LET saved == c.saved[c.cur]
  IN  [c EXCEPT !.mask = saved.nesting # 0,
                !.nesting = saved.nesting,
                !.fpu = saved.fpu,
                !.fp = IF saved.fpu THEN saved.fp ELSE @,
                !.off = saved.off,
                !.regs = saved.regs]

Switch(c, off) ==
  {RestoreContext(d) : d \in SwitchContext(Threads, SaveContext(c, off))}

portYIELD(c) == Switch(c, c.off)

vPortRestoreTaskContext(c) == RestoreContext(c)

xPortStartScheduler(c) == vPortRestoreTaskContext(portDISABLE_INTERRUPTS(c))

\* The vector of an interrupt taken on SP_EL1, which is that of a handler.
curr_el_spx_irq(c) == [c EXCEPT !.hung = TRUE]

\* The whole unit is saved around vApplicationIRQHandler.
FreeRTOS_IRQ_Handler(c, i) ==
  Push([c EXCEPT !.off = TRUE, !.depth = @ + 1],
       [irq |-> i, at |-> "entered", status |-> FALSE,
        off |-> c.off, outer |-> c.depth, fp |-> c.fp])

\* The vector table.
EnterHandler(c, i) ==
  IF c.frames = <<>> THEN FreeRTOS_IRQ_Handler(c, i) ELSE curr_el_spx_irq(c)

\* FreeRTOS_IRQ_Handler from the return of vApplicationIRQHandler.
LeaveHandler(c) ==
  LET left == Pop([portDISABLE_INTERRUPTS(c) EXCEPT !.depth = Frame(c).outer,
                                                    !.fp = Frame(c).fp])
  IN  IF left.depth = 0 /\ left.pend
      THEN Switch([left EXCEPT !.pend = FALSE], Frame(c).off)
      ELSE {[left EXCEPT !.off = Frame(c).off]}

\* FreeRTOS_Tick_Handler leaves DAIF.I set until it clears the mask.
TickStarts(c) == [c EXCEPT !.mask = TRUE]
TickWantsSwitch(c) == [c EXCEPT !.pend = TRUE]
TickEnds(c) == portCLEAR_INTERRUPT_MASK(c)

\* There is no pended exception: pend is ullPortYieldRequired.
SwitchTaken(c) == FALSE
SwitchHandler(c) == {}

xPortIsInsideInterrupt(c) == c.depth > 0

vPortTaskUsesFPU(c) == [c EXCEPT !.fpu = TRUE]

\* A task registers before it uses the unit; CPACR_EL1 enables it.
FpuAllowed(c) == c.fpu \/ c.frames # <<>>
UseFpu(c, fp) == [c EXCEPT !.fp = fp]

INSTANCE Port
=============================================================================

------------------------------- MODULE RiscV32 ------------------------------
(***************************************************************************)
(* The port to RISC-V, src/src/port/riscv32.rs: mstatus.MIE keeps out      *)
(* every interrupt and stays clear throughout a trap, so that none nests;  *)
(* a trap leaves the context of the task it interrupted, with its nesting  *)
(* of critical sections, on the task's own stack.                          *)
(***************************************************************************)
EXTENDS Machine

CONSTANTS Threads, main, FpuTasks, MaxNesting, Nests

VARIABLES m, sections, live

\* 0xAAAAAAAA in the code: any number too great to be counted down to zero.
NestingAtReset == 9999

portDISABLE_INTERRUPTS(c) == [c EXCEPT !.off = TRUE]

portENABLE_INTERRUPTS(c) == [c EXCEPT !.off = FALSE]

portENTER_CRITICAL(c) == [portDISABLE_INTERRUPTS(c) EXCEPT !.nesting = @ + 1]

portEXIT_CRITICAL(c) ==
  IF c.nesting = 0
  THEN c
  ELSE LET left == [c EXCEPT !.nesting = @ - 1]
       IN  IF left.nesting = 0 THEN portENABLE_INTERRUPTS(left) ELSE left

portSET_INTERRUPT_MASK_FROM_ISR(c) ==
  [c EXCEPT !.frames[Len(c.frames)].status = c.off, !.off = TRUE]

portCLEAR_INTERRUPT_MASK_FROM_ISR(c) == [c EXCEPT !.off = Frame(c).status]

portYIELD_FROM_ISR(c) == [c EXCEPT !.pend = TRUE]

\* mstatus with MPIE set: mret enables interrupts.
pxPortInitialiseStack(t) == [regs |-> t, nesting |-> 0, off |-> FALSE]

SaveContext(c) ==
  [c EXCEPT !.saved[c.cur] =
              [regs |-> c.regs, nesting |-> c.nesting, off |-> c.off],
            !.off = TRUE]

RestoreContext(c) ==
  LET saved == c.saved[c.cur]
  IN  [c EXCEPT !.regs = saved.regs,
                !.nesting = saved.nesting,
                !.off = saved.off]

\* ecall: handle_exception of the trap handler.
portYIELD(c) ==
  {RestoreContext(d) : d \in SwitchContext(Threads, SaveContext(c))}

vRestoreContextOfFirstTask(c) == RestoreContext(c)

xPortStartScheduler(c) ==
  vRestoreContextOfFirstTask(
    [c EXCEPT !.nesting = 0, !.pend = FALSE, !.depth = 0])

\* handle_interrupt, up to the call of the handler of the cause.
EnterHandler(c, i) ==
  Push([SaveContext(c) EXCEPT !.depth = @ + 1],
       [irq |-> i, at |-> "entered", status |-> FALSE])

\* Mutant: a switch skips interrupt_switch_complete.
SwitchAndRestore(c) ==
  IF c.pend
  THEN {Pop(RestoreContext(d)) :
          d \in SwitchContext(Threads, [c EXCEPT !.pend = FALSE])}
  ELSE {Pop(RestoreContext([c EXCEPT !.depth = @ - 1]))}

\* complete_interrupt and restore_context.
LeaveHandler(c) ==
  LET picked == IF c.pend
                THEN SwitchContext(Threads, [c EXCEPT !.pend = FALSE])
                ELSE {c}
  IN  {Pop(RestoreContext([d EXCEPT !.depth = @ - 1])) : d \in picked}

\* handle_timer_interrupt
TickStarts(c) == c
TickWantsSwitch(c) == [c EXCEPT !.pend = TRUE]
TickEnds(c) == c

\* There is no pended exception: pend is xPortYieldPending.
SwitchTaken(c) == FALSE
SwitchHandler(c) == {}

xPortIsInsideInterrupt(c) == c.depth # 0

\* No floating point unit.
vPortTaskUsesFPU(c) == c
FpuAllowed(c) == FALSE
UseFpu(c, fp) == c

INSTANCE Port
=============================================================================

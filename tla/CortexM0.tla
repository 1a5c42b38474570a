------------------------------ MODULE CortexM0 ------------------------------
(***************************************************************************)
(* The port to the Cortex-M0, src/src/port/cortex_m0.rs: without BASEPRI   *)
(* it masks with PRIMASK, which keeps out every interrupt.                 *)
(***************************************************************************)
EXTENDS Machine

CONSTANTS Threads, main, FpuTasks, MaxNesting, Nests

VARIABLES m, sections, live

NestingAtReset == 0

portDISABLE_INTERRUPTS(c) == [c EXCEPT !.off = TRUE]

portENABLE_INTERRUPTS(c) == [c EXCEPT !.off = FALSE]

portENTER_CRITICAL(c) == [portDISABLE_INTERRUPTS(c) EXCEPT !.nesting = @ + 1]

portEXIT_CRITICAL(c) ==
  LET left == [c EXCEPT !.nesting = @ - 1]
  IN  IF left.nesting = 0 THEN portENABLE_INTERRUPTS(left) ELSE left

portSET_INTERRUPT_MASK_FROM_ISR(c) ==
  [c EXCEPT !.frames[Len(c.frames)].status = c.off, !.off = TRUE]

portCLEAR_INTERRUPT_MASK_FROM_ISR(c) == [c EXCEPT !.off = Frame(c).status]

portYIELD(c) == {[c EXCEPT !.pend = TRUE]}

portYIELD_FROM_ISR(c) == [c EXCEPT !.pend = TRUE]

pxPortInitialiseStack(t) == [regs |-> t]

vRestoreContextOfFirstTask(c) == [c EXCEPT !.regs = c.saved[c.cur].regs]

\* cpsie i, then the svc that restores the first task.
prvPortStartFirstTask(c) ==
  vRestoreContextOfFirstTask([c EXCEPT !.off = FALSE])

xPortStartScheduler(c) == prvPortStartFirstTask([c EXCEPT !.nesting = 0])

EnterHandler(c, i) ==
  Push(c, [irq |-> i, at |-> "entered", status |-> FALSE])

LeaveHandler(c) == {Pop(c)}

TickStarts(c) == portSET_INTERRUPT_MASK_FROM_ISR(c)

TickWantsSwitch(c) == [c EXCEPT !.pend = TRUE]

TickEnds(c) == portCLEAR_INTERRUPT_MASK_FROM_ISR(c)

SwitchTaken(c) == c.pend /\ ~c.off /\ c.frames = <<>>

PendSV(c) ==
  CASE Frame(c).at = "entered" ->
         {AtStage([c EXCEPT !.saved[c.cur] = [regs |-> c.regs],
                       !.off = TRUE], "inside")}
    [] Frame(c).at = "inside" ->
         {AtStage(d, "switched") : d \in SwitchContext(Threads, c)}
    [] Frame(c).at = "switched" -> {AtStage([c EXCEPT !.off = FALSE], "done")}
    [] Frame(c).at = "done" ->
         {Pop([c EXCEPT !.regs = c.saved[c.cur].regs])}

xPortIsInsideInterrupt(c) == c.frames # <<>>

\* No floating point unit.
vPortTaskUsesFPU(c) == c
FpuAllowed(c) == FALSE
UseFpu(c, fp) == c

INSTANCE Port WITH SwitchHandler <- PendSV
=============================================================================

------------------------------ MODULE CortexM3 ------------------------------
(* The port to the Cortex-M3, src/src/port/cortex_m3.rs.                   *)
EXTENDS Machine

CONSTANTS Threads, main, FpuTasks, MaxNesting, Nests

VARIABLES m, sections, live

NestingAtReset == 0

portDISABLE_INTERRUPTS(c) == [c EXCEPT !.mask = TRUE]

portENABLE_INTERRUPTS(c) == [c EXCEPT !.mask = FALSE]

portENTER_CRITICAL(c) == [portDISABLE_INTERRUPTS(c) EXCEPT !.nesting = @ + 1]

portEXIT_CRITICAL(c) ==
  [(IF c.nesting = 1 THEN portENABLE_INTERRUPTS(c) ELSE c)
     EXCEPT !.nesting = @ - 1]

portSET_INTERRUPT_MASK_FROM_ISR(c) ==
  [c EXCEPT !.frames[Len(c.frames)].status = c.mask, !.mask = TRUE]

portCLEAR_INTERRUPT_MASK_FROM_ISR(c) == [c EXCEPT !.mask = Frame(c).status]

\* The barriers have the pended switch taken before the next instruction.
portYIELD(c) == {[c EXCEPT !.pend = TRUE]}

portYIELD_FROM_ISR(c) == CHOOSE d \in portYIELD(c) : TRUE

pxPortInitialiseStack(t) == [regs |-> t]

vPortSVCHandler(c) ==
  [c EXCEPT !.regs = c.saved[c.cur].regs, !.mask = FALSE]

prvPortStartFirstTask(c) == vPortSVCHandler([c EXCEPT !.off = FALSE])

xPortStartScheduler(c) == prvPortStartFirstTask([c EXCEPT !.nesting = 0])

\* The processor stacks what a handler may clobber and returns by unstacking.
EnterHandler(c, i) ==
  Push(c, [irq |-> i, at |-> "entered", status |-> FALSE])

LeaveHandler(c) == {Pop(c)}

TickStarts(c) == portSET_INTERRUPT_MASK_FROM_ISR(c)

TickWantsSwitch(c) == [c EXCEPT !.pend = TRUE]

TickEnds(c) == portCLEAR_INTERRUPT_MASK_FROM_ISR(c)

SwitchTaken(c) == c.pend /\ ~c.off /\ ~c.mask /\ c.frames = <<>>

\* PendSV saves the context of the task it interrupted, has another selected
\* with interrupts masked, and takes up the context of the selected task.
xPortPendSVHandler(c) ==
  CASE Frame(c).at = "entered" ->
         {AtStage([c EXCEPT !.saved[c.cur] = [regs |-> c.regs],
                       !.mask = TRUE], "inside")}
    [] Frame(c).at = "inside" ->
         {AtStage(d, "switched") : d \in SwitchContext(Threads, c)}
    [] Frame(c).at = "switched" -> {AtStage([c EXCEPT !.mask = FALSE], "done")}
    [] Frame(c).at = "done" ->
         {Pop([c EXCEPT !.regs = c.saved[c.cur].regs])}

xPortIsInsideInterrupt(c) == c.frames # <<>>

\* No floating point unit.
vPortTaskUsesFPU(c) == c
FpuAllowed(c) == FALSE
UseFpu(c, fp) == c

INSTANCE Port WITH SwitchHandler <- xPortPendSVHandler
=============================================================================

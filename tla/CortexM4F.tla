------------------------------ MODULE CortexM4F -----------------------------
(***************************************************************************)
(* The port to the Cortex-M4F, src/src/port/cortex_m4f.rs, which is the    *)
(* one to the Cortex-M7 too.  The processor notes the use of the floating  *)
(* point unit (CONTROL.FPCA, here fpu): an exception then stacks the low   *)
(* half and bit 4 of the EXC_RETURN in r14 tells PendSV of it.             *)
(***************************************************************************)
EXTENDS Machine

CONSTANTS Threads, main, FpuTasks, MaxNesting, Nests

VARIABLES m, sections, live

NestingAtReset == 0

portDISABLE_INTERRUPTS(c) == [c EXCEPT !.mask = TRUE]

portENABLE_INTERRUPTS(c) == [c EXCEPT !.mask = FALSE]

portENTER_CRITICAL(c) == [portDISABLE_INTERRUPTS(c) EXCEPT !.nesting = @ + 1]

portEXIT_CRITICAL(c) ==
  [(IF c.nesting = 1 THEN portENABLE_INTERRUPTS(c) ELSE c)
     EXCEPT !.nesting = @ - 1]

portSET_INTERRUPT_MASK_FROM_ISR(c) ==
  [c EXCEPT !.frames[Len(c.frames)].status = c.mask, !.mask = TRUE]

portCLEAR_INTERRUPT_MASK_FROM_ISR(c) == [c EXCEPT !.mask = Frame(c).status]

portYIELD(c) == {[c EXCEPT !.pend = TRUE]}

portYIELD_FROM_ISR(c) == [c EXCEPT !.pend = TRUE]

\* What an exception finds of a context: fpu from its EXC_RETURN, and the
\* registers of the unit only if that says so.
Context(regs, fpu, fp) ==
  [regs |-> regs, fpu |-> fpu, fp |-> IF fpu THEN fp ELSE FpOf("none")]

\* portINITIAL_EXC_RETURN has bit 4 set: no floating point context.
pxPortInitialiseStack(t) == Context(t, FALSE, FpOf("none"))

vPortSVCHandler(c) ==
  LET saved == c.saved[c.cur]
  IN  [c EXCEPT !.regs = saved.regs, !.fpu = saved.fpu, !.mask = FALSE]

prvPortStartFirstTask(c) == vPortSVCHandler([c EXCEPT !.off = FALSE])

xPortStartScheduler(c) == prvPortStartFirstTask([c EXCEPT !.nesting = 0])

EnterHandler(c, i) ==
  Push([c EXCEPT !.fpu = FALSE],
       [irq |-> i, at |-> "entered", status |-> FALSE,
        fpu |-> c.fpu, low |-> IF c.fpu THEN c.fp.low ELSE "none"])

Unstack(c) ==
  Pop([c EXCEPT !.fpu = Frame(c).fpu,
                !.fp.low = IF Frame(c).fpu THEN Frame(c).low ELSE @])

LeaveHandler(c) == {Unstack(c)}

TickStarts(c) == portSET_INTERRUPT_MASK_FROM_ISR(c)

TickWantsSwitch(c) == [c EXCEPT !.pend = TRUE]

TickEnds(c) == portCLEAR_INTERRUPT_MASK_FROM_ISR(c)

SwitchTaken(c) == c.pend /\ ~c.off /\ ~c.mask /\ c.frames = <<>>

\* The low half is in the frame the processor stacked, on the task's stack;
\* PendSV stores the high half below it and EXC_RETURN below that.
SaveTask(c) ==
  [c EXCEPT !.saved[c.cur] =
     Context(c.regs, Frame(c).fpu, [low |-> Frame(c).low, high |-> c.fp.high])]

\* Mutant: the high half is not restored.
RestoreCore(c) ==
  LET saved == c.saved[c.cur]
  IN  Unstack([c EXCEPT !.regs = saved.regs,
                        !.frames[Len(c.frames)].fpu = saved.fpu,
                        !.frames[Len(c.frames)].low = saved.fp.low])

RestoreTask(c) ==
  LET saved == c.saved[c.cur]
  IN  Unstack([c EXCEPT !.regs = saved.regs,
                        !.fp.high = IF saved.fpu THEN saved.fp.high ELSE @,
                        !.frames[Len(c.frames)].fpu = saved.fpu,
                        !.frames[Len(c.frames)].low = saved.fp.low])

xPortPendSVHandler(c) ==
  CASE Frame(c).at = "entered" ->
         {AtStage([SaveTask(c) EXCEPT !.mask = TRUE], "inside")}
    [] Frame(c).at = "inside" ->
         {AtStage(d, "switched") : d \in SwitchContext(Threads, c)}
    [] Frame(c).at = "switched" -> {AtStage([c EXCEPT !.mask = FALSE], "done")}
    [] Frame(c).at = "done" -> {RestoreTask(c)}

xPortIsInsideInterrupt(c) == c.frames # <<>>

\* A task need not register its use of the unit.
vPortTaskUsesFPU(c) == c
FpuAllowed(c) == TRUE
UseFpu(c, fp) == [c EXCEPT !.fp = fp, !.fpu = TRUE]

INSTANCE Port WITH SwitchHandler <- xPortPendSVHandler
=============================================================================

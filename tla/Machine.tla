------------------------------ MODULE Machine ------------------------------
(***************************************************************************)
(* What the port layers of src/src/port run on: the registers they save    *)
(* and restore, the interrupt masks, the interrupts and the context each   *)
(* task is left with.  A register set is told by the context whose values  *)
(* it holds; the floating point registers are in two halves, fp.low that a *)
(* compiled function may clobber and fp.high that it preserves.            *)
(***************************************************************************)
EXTENDS Naturals, Sequences

Interrupts == {"tick", "dev", "high"}

\* PendSV and the tick have the lowest priorities; high is above
\* configMAX_SYSCALL_INTERRUPT_PRIORITY and makes no call of the kernel.
Level == [pendsv |-> 1, tick |-> 2, dev |-> 3, high |-> 4]

\* The frame of the handler that runs.
Frame(c) == c.frames[Len(c.frames)]

ActiveLevel(c) ==
  IF c.frames = <<>> THEN 0 ELSE Level[Frame(c).irq]

\* mask is BASEPRI or the priority mask of the GIC, at the level the kernel
\* sets; off is PRIMASK, CPSR.I, DAIF.I or mstatus.MIE clear.
Takes(c, i) ==
  /\ ~c.off
  /\ c.mask => i = "high"
  /\ Level[i] > ActiveLevel(c)

FpOf(who) == [low |-> who, high |-> who]

\* The machine main() starts the scheduler on, running in the context start:
\* nesting is what the port's nesting counter is initialised to, pend its
\* request for a context switch, depth its count of nested interrupts, fpu that
\* the code that runs has a floating point context, frames the exceptions in
\* progress, saved the context on the stack of each task.
Reset(start, nesting, saved) ==
  [cur |-> start, regs |-> start, nesting |-> nesting, mask |-> FALSE,
   off |-> FALSE, pend |-> FALSE, depth |-> 0, fpu |-> FALSE,
   fp |-> FpOf(start), frames |-> <<>>, saved |-> saved, hung |-> FALSE]

Push(c, frame) == [c EXCEPT !.frames = Append(@, frame)]

Pop(c) == [c EXCEPT !.frames = SubSeq(@, 1, Len(@) - 1)]

AtStage(c, stage) == [c EXCEPT !.frames[Len(c.frames)].at = stage]

\* The kernel picks any of the tasks: what the scheduler picks is the subject of
\* Scheduler.
SwitchContext(tasks, c) == {[c EXCEPT !.cur = t] : t \in tasks}
=============================================================================

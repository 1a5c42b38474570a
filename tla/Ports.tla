------------------------------- MODULE Ports --------------------------------
(* A processor under any of the ports, and what every port must keep.      *)
EXTENDS Machine

CONSTANTS
  Threads,
  main,        \* the context main() runs in until the scheduler is started
  Chosen,      \* the ports the instance chooses from
  Nesting,     \* those of them an interrupt may come to in a handler
  FpuTasks,    \* the tasks that use the floating point unit
  MaxNesting   \* bound on the critical sections a task is in

ASSUME PortsAssumption ==
  /\ Chosen \subseteq {"cortex_m0", "cortex_m3", "cortex_m4f", "cortex_a9",
                       "cortex_a53", "riscv32"}
  /\ Nesting \subseteq Chosen
  /\ FpuTasks \subseteq Threads
  /\ main \notin Threads
  /\ MaxNesting \in Nat \ {0}

VARIABLES port, m, sections, live

portVars == <<port, m, sections, live>>

M0 == INSTANCE CortexM0 WITH Nests <- "cortex_m0" \in Nesting
M3 == INSTANCE CortexM3 WITH Nests <- "cortex_m3" \in Nesting
M4F == INSTANCE CortexM4F WITH Nests <- "cortex_m4f" \in Nesting
A9 == INSTANCE CortexA9 WITH Nests <- "cortex_a9" \in Nesting
A53 == INSTANCE CortexA53 WITH Nests <- "cortex_a53" \in Nesting
RV == INSTANCE RiscV32 WITH Nests <- "riscv32" \in Nesting

PortsInit ==
  /\ port \in Chosen
  /\ \/ port = "cortex_m0" /\ M0!PortInit
     \/ port = "cortex_m3" /\ M3!PortInit
     \/ port = "cortex_m4f" /\ M4F!PortInit
     \/ port = "cortex_a9" /\ A9!PortInit
     \/ port = "cortex_a53" /\ A53!PortInit
     \/ port = "riscv32" /\ RV!PortInit

PortsNext ==
  /\ \/ port = "cortex_m0" /\ M0!PortNext
     \/ port = "cortex_m3" /\ M3!PortNext
     \/ port = "cortex_m4f" /\ M4F!PortNext
     \/ port = "cortex_a9" /\ A9!PortNext
     \/ port = "cortex_a53" /\ A53!PortNext
     \/ port = "riscv32" /\ RV!PortNext
  /\ UNCHANGED port

PortsSpec == PortsInit /\ [][PortsNext]_portVars

-----------------------------------------------------------------------------
(* Refinement: a port keeps the promise of Processor. *)

SwitchInProgress ==
  \E f \in 1..Len(m.frames) :
    /\ m.frames[f].irq = "pendsv"
    /\ m.frames[f].at \in {"entered", "inside"}

Handlers ==
  [f \in 1..Len(m.frames) |->
     [irq |-> m.frames[f].irq,
      inside |-> m.frames[f].at \in {"inside", "counted", "switched"}]]

CallsKernel(i) == Level[i] < Level["high"]

Promise == INSTANCE Processor
  WITH running <- m.cur,
       handlers <- Handlers,
       wanted <- m.pend \/ SwitchInProgress,
       Interrupts <- DOMAIN Level,
       Calls <- CallsKernel

\* Under every port, with its masks, its nesting counter and its way to switch
\* tasks, a handler that calls the kernel starts only when neither the running
\* task is in a critical section nor an interrupted handler has interrupts
\* masked, and a requested switch is made before the task goes on outside one:
\* portENTER_CRITICAL to the restoring of the next task's context.
ImplementsProcessor == Promise!ProcessorSpec

-----------------------------------------------------------------------------

TaskGoesOn == m.frames = <<>> /\ m.cur # main

\* A task goes on with its own registers; if it has used the floating point unit
\* with its own values there; and, if it is in no critical section, with
\* interrupts enabled: after any interrupts, that may use the unit too, and any
\* switches to tasks that were inside sections, whether a port keeps the nesting
\* for all tasks together or saves and restores that of each.
ContextKept ==
  TaskGoesOn =>
    /\ m.regs = m.cur
    /\ m.cur \in live => m.fp = FpOf(m.cur)
    /\ sections[m.cur] = 0 => ~m.mask /\ ~m.off

\* xPortIsInsideInterrupt, by which the wrappers of src/src/sync refuse calls,
\* is true in handlers and false in tasks, also when a handler has switched.
InsideInterruptKnown ==
  /\ port = "cortex_m0" => (M0!xPortIsInsideInterrupt(m) <=> m.frames # <<>>)
  /\ port = "cortex_m3" => (M3!xPortIsInsideInterrupt(m) <=> m.frames # <<>>)
  /\ port = "cortex_m4f" => (M4F!xPortIsInsideInterrupt(m) <=> m.frames # <<>>)
  /\ port = "cortex_a9" => (A9!xPortIsInsideInterrupt(m) <=> m.frames # <<>>)
  /\ port = "cortex_a53" => (A53!xPortIsInsideInterrupt(m) <=> m.frames # <<>>)
  /\ port = "riscv32" => (RV!xPortIsInsideInterrupt(m) <=> m.frames # <<>>)
=============================================================================

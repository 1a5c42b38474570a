----------------------------- MODULE Processor ------------------------------
(***************************************************************************)
(* What the kernel relies on of a port, whatever the processor: one        *)
(* context runs; an interrupt whose handler may call the kernel comes only *)
(* when no one is inside the kernel, in a critical section or with         *)
(* interrupts masked in a handler; and once a switch has been asked for,   *)
(* the interrupted task takes no step outside a section before it is made. *)
(***************************************************************************)
EXTENDS Naturals, Sequences, SequencesExt

CONSTANTS Threads, main, Interrupts, Calls(_)

VARIABLES
  running,   \* the task, or main, whose context is current
  sections,  \* the critical sections each is in
  handlers,  \* the handlers in progress, of whom inside tells who is masked
  wanted     \* whether a switch has been asked for and not made

procVars == <<running, sections, handlers, wanted>>

Contexts == Threads \union {main}

ProcessorInit ==
  /\ running = main
  /\ sections = [c \in Contexts |-> 0]
  /\ handlers = <<>>
  /\ wanted = FALSE

InKernel ==
  \/ sections[running] > 0
  \/ \E h \in 1..Len(handlers) : handlers[h].inside

TaskStep == handlers = <<>> /\ (wanted => sections[running] > 0)

Enters ==
  /\ TaskStep
  /\ sections' = [sections EXCEPT ![running] = @ + 1]
  /\ UNCHANGED <<running, handlers, wanted>>

Leaves ==
  /\ TaskStep
  /\ sections[running] > 0
  /\ sections' = [sections EXCEPT ![running] = @ - 1]
  /\ UNCHANGED <<running, handlers, wanted>>

Starts ==
  /\ running = main
  /\ running' \in Threads
  /\ UNCHANGED <<sections, handlers, wanted>>

\* A yield inside a section may wait for its end.
Yields ==
  /\ TaskStep
  /\ running # main
  /\ \/ running' \in Threads /\ UNCHANGED wanted
     \/ wanted' = TRUE /\ UNCHANGED running
  /\ UNCHANGED <<sections, handlers>>

Accepts ==
  /\ running # main
  /\ \E i \in Interrupts :
       /\ Calls(i) => ~InKernel
       /\ handlers' = Append(handlers, [irq |-> i, inside |-> FALSE])
  /\ UNCHANGED <<running, sections, wanted>>

\* Only the innermost handler runs.
Inner == handlers[Len(handlers)]

HandlerMasks ==
  /\ handlers # <<>>
  /\ Calls(Inner.irq)
  /\ ~InKernel
  /\ handlers' = [handlers EXCEPT ![Len(handlers)].inside = TRUE]
  /\ UNCHANGED <<running, sections, wanted>>

HandlerUnmasks ==
  /\ handlers # <<>>
  /\ handlers' = [handlers EXCEPT ![Len(handlers)].inside = FALSE]
  /\ UNCHANGED <<running, sections, wanted>>

HandlerAsks ==
  /\ handlers # <<>>
  /\ Calls(Inner.irq)
  /\ wanted' = TRUE
  /\ UNCHANGED <<running, sections, handlers>>

\* The outermost handler to return may make the switch.
Returns ==
  /\ handlers # <<>>
  /\ ~Inner.inside
  /\ handlers' = Front(handlers)
  /\ \/ UNCHANGED <<running, wanted>>
     \/ handlers' = <<>> /\ wanted /\ running' \in Threads /\ wanted' = FALSE
  /\ UNCHANGED sections

\* A handler of its own may make it; one asked for meanwhile is made next.
Switches ==
  /\ wanted
  /\ Len(handlers) = 1
  /\ Inner.inside
  /\ sections[running] = 0
  /\ running' \in Threads
  /\ wanted' \in BOOLEAN
  /\ UNCHANGED <<sections, handlers>>

ProcessorNext ==
  \/ Enters
  \/ Leaves
  \/ Starts
  \/ Yields
  \/ Accepts
  \/ HandlerMasks
  \/ HandlerUnmasks
  \/ HandlerAsks
  \/ Returns
  \/ Switches

ProcessorSpec == ProcessorInit /\ [][ProcessorNext]_procVars
=============================================================================

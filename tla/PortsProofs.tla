---------------------------- MODULE PortsProofs -----------------------------
(***************************************************************************)
(* Under every port, for every set of tasks, however deep critical         *)
(* sections and interrupts nest: a task goes on with its own context, and  *)
(* the port keeps the promise of Processor.                                *)
(***************************************************************************)
EXTENDS Ports, Integers, SequencesExt, SequenceTheorems, TLAPS

Contexts == Threads \cup {main}

Irqs == {"pendsv", "tick", "dev", "high"}

Stages == {"entered", "inside", "counted", "switched", "done"}

FpValues == Contexts \cup {"none", "handler"}

Halves == [low : FpValues, high : FpValues]

\* The machines whose exception frames are in F and whose saved contexts in S.
Machines(F, S) ==
  [cur : Contexts, regs : Contexts, nesting : Int, mask : BOOLEAN,
   off : BOOLEAN, pend : BOOLEAN, depth : Int, fpu : BOOLEAN, fp : Halves,
   frames : Seq(F), saved : [Threads -> S], hung : BOOLEAN]

\* A handler that has masked the interrupts whose handlers call the kernel.
Inside(f) == m.frames[f].at \in {"inside", "counted", "switched"}

\* What it masks them with.
Masked == IF port \in {"cortex_m0", "riscv32"} THEN m.off ELSE m.mask

Depth == Len(m.frames)

\* The switch is made by the outermost handler, and only handlers that do not
\* call the kernel interrupt one that has masked the others.
FramesOK ==
  /\ Depth \in Nat /\ (m.frames = <<>> <=> Depth = 0)
  /\ \A f \in 1..Depth :
       /\ m.frames[f].irq \in Irqs
       /\ m.frames[f].irq = "high" => ~Inside(f)
       /\ m.frames[f].irq = "pendsv" => f = 1
       /\ Inside(f) => \A g \in 1..Depth : g > f => m.frames[g].irq = "high"

\* Those are the only ones, too, to interrupt a critical section; and but for
\* critical sections and handlers inside the kernel nothing is masked.
Guarded ==
  m.cur \in Threads =>
    /\ sections[m.cur] > 0 => \A f \in 1..Depth : m.frames[f].irq = "high"
    /\ sections[m.cur] > 0 \/ (\E f \in 1..Depth : Inside(f)) => Masked
    /\ Masked /\ port # "riscv32" =>
         sections[m.cur] > 0 \/ \E f \in 1..Depth : Inside(f)

BeforeStart ==
  m.cur = main =>
    m.frames = <<>> /\ ~m.pend /\ \A t \in Threads : sections[t] = 0

Control ==
  /\ m.cur \in Contexts /\ m.pend \in BOOLEAN
  /\ sections \in [Contexts -> Nat]
  /\ FramesOK /\ Guarded /\ BeforeStart
-----------------------------------------------------------------------------
(* What each port keeps.                                                   *)

CoreFrames == [irq : Irqs, at : Stages, status : BOOLEAN]

\* One nesting counter for all tasks, of which only the current one may be in a
\* section.
OneNesting ==
  /\ m.cur \in Threads => m.nesting = sections[m.cur]
  /\ \A t \in Threads : t # m.cur => sections[t] = 0

\* The handler of PendSV has picked a task and not restored its registers.
Switching ==
  m.frames # <<>> /\ m.frames[1].irq = "pendsv"
                  /\ m.frames[1].at \in {"switched", "done"}

OwnRegs ==
  /\ m.cur \in Threads /\ ~Switching => m.regs = m.cur
  /\ \A t \in Threads : m.saved[t].regs = t

\* A handler that masks interrupts finds them unmasked.
FoundUnmasked == \A f \in 1..Depth : ~m.frames[f].status

M0Inv ==
  /\ m \in Machines(CoreFrames, [regs : Contexts])
  /\ ~m.mask /\ live = {}
  /\ OneNesting /\ OwnRegs /\ FoundUnmasked

M3Inv ==
  /\ m \in Machines(CoreFrames, [regs : Contexts])
  /\ ~m.off /\ live = {}
  /\ OneNesting /\ OwnRegs /\ FoundUnmasked

M4FFrames ==
  [irq : Irqs, at : Stages, status : BOOLEAN, fpu : BOOLEAN, low : FpValues]

\* The unit's values of a task that has used it are in the unit, or the low half
\* is in the frame of its first interrupt, or PendSV has saved both.
OwnFpuM4F ==
  /\ live \subseteq Threads
  /\ m.cur = main => live = {}
  /\ m.cur \in live =>
       IF m.frames = <<>> THEN m.fpu /\ m.fp = FpOf(m.cur)
       ELSE \/ /\ m.frames[1].irq = "pendsv" => m.frames[1].at = "entered"
               /\ m.frames[1].fpu /\ m.frames[1].low = m.cur
               /\ m.fp.high = m.cur
            \/ /\ m.frames[1].irq = "pendsv" /\ m.frames[1].at # "entered"
               /\ m.saved[m.cur].fpu /\ m.saved[m.cur].fp = FpOf(m.cur)
  /\ \A t \in live : t # m.cur => m.saved[t].fpu /\ m.saved[t].fp = FpOf(t)

M4FInv ==
  /\ m \in Machines(M4FFrames, [regs : Contexts, fpu : BOOLEAN, fp : Halves])
  /\ ~m.off
  /\ OneNesting /\ OwnRegs /\ FoundUnmasked /\ OwnFpuM4F

\* The nesting of each task is kept with its context.
OwnNesting ==
  /\ m.cur \in Threads => m.nesting = sections[m.cur]
  /\ m.cur = main => m.nesting = 9999 + sections[main]
  /\ \A t \in Threads : t # m.cur => m.saved[t].nesting = sections[t]

OwnRegsA ==
  /\ m.cur \in Threads => m.regs = m.cur
  /\ \A t \in Threads : t # m.cur => m.saved[t].regs = t

\* Threads run with interrupts on, each handler notes how deep it is nested, and no
\* switch waits once the last has returned.
Nested ==
  /\ m.depth = Depth
  /\ m.frames = <<>> => ~m.pend
  /\ \A f \in 1..Depth : ~m.frames[f].off /\ m.frames[f].outer = f - 1
  /\ \A t \in Threads : t # m.cur => ~m.saved[t].off

ASaved == [regs : Contexts, nesting : Int, off : BOOLEAN, fpu : BOOLEAN,
           fp : Halves]

SavedFpu ==
  /\ live \subseteq Threads
  /\ m.cur \in live => m.fpu
  /\ \A t \in live : t # m.cur => m.saved[t].fpu /\ m.saved[t].fp = FpOf(t)

A9Frames ==
  [irq : Irqs, at : Stages, status : BOOLEAN, off : BOOLEAN, outer : Int,
   low : FpValues]

\* Interrupts are off from the start of a handler until it masks them.
OffA9 ==
  /\ m.cur \in Threads =>
       (m.off <=> m.frames # <<>> /\ m.frames[Depth].at = "entered")
  /\ \A f \in 1..Depth : f # Depth => m.frames[f].at # "entered"

OwnFpuA9 ==
  m.cur \in live =>
    /\ m.fp.high = m.cur
    /\ IF m.frames = <<>> THEN m.fp.low = m.cur ELSE m.frames[1].low = m.cur

A9Inv ==
  /\ m \in Machines(A9Frames, ASaved)
  /\ OwnNesting /\ OwnRegsA /\ FoundUnmasked /\ Nested /\ SavedFpu
  /\ OffA9 /\ OwnFpuA9

A53Frames ==
  [irq : Irqs, at : Stages, status : BOOLEAN, off : BOOLEAN, outer : Int,
   fp : Halves]

OffA53 ==
  /\ m.cur \in Threads /\ m.frames = <<>> => ~m.off
  /\ m.frames # <<>> =>
       (m.off <=> (\/ m.frames[1].at = "entered"
                   \/ m.frames[1].irq = "tick" /\ m.frames[1].at # "done"))

OwnFpuA53 ==
  m.cur \in live =>
    IF m.frames = <<>> THEN m.fp = FpOf(m.cur) ELSE m.frames[1].fp = FpOf(m.cur)

A53Inv ==
  /\ m \in Machines(A53Frames, ASaved)
  /\ OwnNesting /\ OwnRegsA /\ FoundUnmasked /\ Nested /\ SavedFpu
  /\ Depth <= 1 /\ OffA53 /\ OwnFpuA53

RVSaved == [regs : Contexts, nesting : Int, off : BOOLEAN]

\* A trap keeps interrupts off until it restores a context, and only code that is
\* in no section takes one.
Trapped ==
  /\ m.depth = Depth /\ Depth <= 1
  /\ m.frames = <<>> => ~m.pend
  /\ m.cur \in Threads =>
       IF m.frames = <<>> THEN m.off <=> sections[m.cur] > 0
       ELSE /\ m.off /\ sections[m.cur] = 0
            /\ m.frames[1].irq = "dev" /\ Inside(1) => m.frames[1].status
            /\ m.saved[m.cur].regs = m.cur /\ m.saved[m.cur].nesting = 0
            /\ ~m.saved[m.cur].off
  /\ \A t \in Threads : t # m.cur => (m.saved[t].off <=> sections[t] > 0)

RVInv ==
  /\ m \in Machines(CoreFrames, RVSaved)
  /\ live = {} /\ ~m.mask
  /\ OwnNesting /\ OwnRegsA /\ Trapped

PortsInv ==
  /\ port \in Chosen /\ Control
  /\ port = "cortex_m0" => M0Inv
  /\ port = "cortex_m3" => M3Inv
  /\ port = "cortex_m4f" => M4FInv
  /\ port = "cortex_a9" => A9Inv
  /\ port = "cortex_a53" => A53Inv
  /\ port = "riscv32" => RVInv
-----------------------------------------------------------------------------
(* The steps of any port, by what they do to its frames, its masks and the *)
(* current task, keep Control and are steps of Processor.                  *)

Wanted == m.pend \/ SwitchInProgress

SameFrame(f) ==
  m'.frames[f].irq = m.frames[f].irq /\ m'.frames[f].at = m.frames[f].at

SameDepth == Len(m'.frames) = Depth

\* The innermost handler goes on to a stage of its own.
TopMoves(stage) ==
  /\ SameDepth
  /\ \A f \in 1..Depth : f # Depth => SameFrame(f)
  /\ m'.frames[Depth].irq = m.frames[Depth].irq
  /\ m'.frames[Depth].at = stage

LEMMA ControlFacts ==
  ASSUME Control
  PROVE  /\ Depth \in Nat /\ m.cur \in Contexts /\ m.pend \in BOOLEAN
         /\ sections \in [Contexts -> Nat] /\ main \notin Threads
         /\ m.frames = <<>> <=> Depth = 0
         /\ \A f \in 1..Depth : m.frames[f].irq \in Irqs
BY PortsAssumption DEF Control, FramesOK

LEMMA FunctionIsSequence ==
  ASSUME NEW S, NEW n \in Nat, NEW h \in [1..n -> S]
  PROVE  h \in Seq(S) /\ Len(h) = n
<1>1. h \in Seq(S)
  BY SeqDef
<1>2. DOMAIN h = 1..n /\ DOMAIN h = 1..Len(h) /\ Len(h) \in Nat
  BY <1>1, LenProperties
<1>3. QED BY <1>1, <1>2

LEMMA HandlersFacts ==
  ASSUME Control, NEW n \in Nat, n = Depth
  PROVE  /\ Handlers \in Seq([irq : Irqs, inside : BOOLEAN])
         /\ Len(Handlers) = n /\ (Handlers = <<>> <=> n = 0)
         /\ \A f \in 1..n :
              /\ Handlers[f].irq = m.frames[f].irq
              /\ Handlers[f].inside \in BOOLEAN
              /\ Inside(f) => Handlers[f].inside
              /\ Handlers[f].inside => Inside(f)
<1>1. \A f \in 1..n :
        [irq |-> m.frames[f].irq,
         inside |-> m.frames[f].at \in {"inside", "counted", "switched"}]
        \in [irq : Irqs, inside : BOOLEAN]
  BY ControlFacts
<1>2. Handlers \in [1..n -> [irq : Irqs, inside : BOOLEAN]]
  BY <1>1 DEF Handlers, Depth
<1>3. Handlers \in Seq([irq : Irqs, inside : BOOLEAN]) /\ Len(Handlers) = n
  BY <1>2, FunctionIsSequence, Zenon
<1>4. \A f \in 1..n :
        Handlers[f] = [irq |-> m.frames[f].irq,
                       inside |-> m.frames[f].at \in {"inside", "counted", "switched"}]
  BY DEF Handlers, Depth
<1>5. QED BY <1>2, <1>3, <1>4 DEF Inside

LEMMA InKernelIs ==
  ASSUME Control, NEW n \in Nat, n = Depth
  PROVE  Promise!InKernel <=>
           sections[m.cur] > 0 \/ \E f \in 1..n : Inside(f)
<1>1. Promise!InKernel <=>
        sections[m.cur] > 0 \/ \E h \in 1..Len(Handlers) : Handlers[h].inside
  BY Zenon DEF Promise!InKernel
<1>2. Len(Handlers) = n
  BY HandlersFacts
<1>3. ASSUME NEW f \in 1..n
      PROVE  Handlers[f].inside <=> Inside(f)
  <2>1. Handlers[f].inside = (m.frames[f].at \in {"inside", "counted", "switched"})
    BY DEF Handlers, Depth
  <2>2. QED BY <2>1, Zenon DEF Inside
<1>4. QED BY <1>1, <1>2, <1>3, Zenon

LEMMA QuietStep ==
  ASSUME Control, UNCHANGED <<port, sections>>, NEW F, m'.frames \in Seq(F),
         SameDepth, \A f \in 1..Depth : SameFrame(f),
         m'.cur = m.cur, m'.pend = m.pend, Masked' = Masked
  PROVE  Control' /\ UNCHANGED <<Handlers, Wanted>>
<1>1. Depth' = Depth /\ Depth \in Nat
  BY ControlFacts DEF SameDepth, Depth
<1>2. \A f \in 1..Depth : Inside(f)' <=> Inside(f)
  BY DEF SameFrame, Inside
<1>3. FramesOK' /\ (m'.frames = <<>> <=> m.frames = <<>>)
  BY <1>1, <1>2 DEF Control, FramesOK, SameFrame, Depth
<1>4. Guarded'
  BY <1>1, <1>2, Zenon DEF Control, Guarded, SameFrame
<1>5. Control'
  BY <1>3, <1>4 DEF Control, BeforeStart
<1>6. UNCHANGED Handlers
  BY <1>1 DEF Handlers, SameFrame, Depth
<1>7. UNCHANGED Wanted
  BY <1>1, Zenon DEF Wanted, SwitchInProgress, SameFrame, Depth
<1>8. QED BY <1>5, <1>6, <1>7

\* The mapped sequence of handlers after the steps of its frames.
LEMMA HandlersAppended ==
  ASSUME Control, NEW i, NEW n \in Nat, n = Depth, Depth' = n + 1,
         \A f \in 1..n : SameFrame(f) /\ (Inside(f)' <=> Inside(f)),
         m'.frames[n + 1].irq = i, ~Inside(n + 1)'
  PROVE  Handlers' = Append(Handlers, [irq |-> i, inside |-> FALSE])
<1> DEFINE e == [irq |-> i, inside |-> FALSE]
           S == [irq : Irqs \cup {i}, inside : BOOLEAN]
<1>1. Handlers \in Seq(S) /\ Len(Handlers) = n /\ e \in S
  <2>1. [irq : Irqs, inside : BOOLEAN] \subseteq S
    OBVIOUS
  <2>2. QED BY <2>1, HandlersFacts, SeqMonotonic, Zenon
<1>2. /\ Append(Handlers, e) \in Seq(S) /\ Len(Append(Handlers, e)) = n + 1
      /\ \A f \in 1..n : Append(Handlers, e)[f] = Handlers[f]
      /\ Append(Handlers, e)[n + 1] = e
  BY <1>1, AppendProperties
<1>3. ASSUME NEW f \in 1..(n + 1)
      PROVE  Handlers'[f] = Append(Handlers, e)[f]
  <2>1. Handlers'[f] =
          [irq |-> m'.frames[f].irq,
           inside |-> m'.frames[f].at \in {"inside", "counted", "switched"}]
    BY DEF Handlers, Depth
  <2>2. CASE f = n + 1
    <3>1. (m'.frames[f].at \in {"inside", "counted", "switched"}) = FALSE
      BY <2>2 DEF Inside
    <3>2. QED BY <2>1, <2>2, <3>1, <1>2, Zenon
  <2>3. CASE f \in 1..n
    <3>1. Handlers[f] =
            [irq |-> m.frames[f].irq,
             inside |-> m.frames[f].at \in {"inside", "counted", "switched"}]
      BY <2>3 DEF Handlers, Depth
    <3>2. Handlers'[f] = Handlers[f]
      BY <2>1, <2>3, <3>1 DEF SameFrame
    <3>3. QED BY <2>3, <3>2, <1>2, Zenon
  <2>4. f = n + 1 \/ f \in 1..n
    OBVIOUS
  <2>5. QED BY <2>2, <2>3, <2>4, Zenon
<1>4. Handlers' = [f \in 1..(n + 1) |-> Handlers'[f]]
  BY DEF Handlers, Depth
<1>5. Append(Handlers, e) = [f \in 1..(n + 1) |-> Append(Handlers, e)[f]]
  BY <1>2, LenProperties
<1>6. QED BY <1>3, <1>4, <1>5, Zenon

LEMMA EnterStep ==
  ASSUME Control, UNCHANGED <<port, sections>>, NEW F, m'.frames \in Seq(F),
         m.cur \in Threads, m'.cur = m.cur, m'.pend \in BOOLEAN,
         NEW i \in Irqs, i # "high" => ~Masked, i = "pendsv" => Depth = 0,
         Len(m'.frames) = Depth + 1, \A f \in 1..Depth : SameFrame(f),
         m'.frames[Depth + 1].irq = i, m'.frames[Depth + 1].at = "entered",
         Masked => Masked', port # "riscv32" => (Masked' <=> Masked),
         Wanted' <=> Wanted
  PROVE  Control' /\ Promise!Accepts
<1>1. PICK n \in Nat : n = Depth
  BY ControlFacts
<1>2. /\ Depth' = n + 1
      /\ \A f \in 1..n : SameFrame(f) /\ (Inside(f)' <=> Inside(f))
      /\ ~Inside(n + 1)' /\ m'.frames[n + 1].irq = i
  BY <1>1, Zenon DEF SameFrame, Inside, Depth
<1>3. Masked \/ (\E f \in 1..n : Inside(f)) => i = "high"
  BY <1>1 DEF Control, Guarded
<1>4. FramesOK'
  <2>1. m'.frames # <<>> /\ m'.frames \in Seq(F) /\ Depth' \in Nat
    BY <1>2 DEF Depth
  <2>2. ASSUME NEW f \in 1..(n + 1)
        PROVE  /\ m'.frames[f].irq \in Irqs
               /\ m'.frames[f].irq = "high" => ~Inside(f)'
               /\ m'.frames[f].irq = "pendsv" => f = 1
    <3>1. CASE f = n + 1
      BY <3>1, <1>1, <1>2
    <3>2. CASE f \in 1..n
      BY <3>2, <1>1, <1>2, Zenon DEF Control, FramesOK, SameFrame
    <3>3. QED BY <3>1, <3>2
  <2>3. ASSUME NEW f \in 1..(n + 1), Inside(f)', NEW g \in 1..(n + 1), g > f
        PROVE  m'.frames[g].irq = "high"
    <3>1. f \in 1..n /\ Inside(f)
      <4>1. f # n + 1
        BY <2>3, <1>2
      <4>2. QED BY <4>1, <2>3, <1>2
    <3>2. CASE g = n + 1
      BY <3>1, <3>2, <1>2, <1>3
    <3>3. CASE g \in 1..n
      BY <3>1, <3>3, <2>3, <1>1, <1>2 DEF Control, FramesOK, SameFrame
    <3>4. QED BY <3>2, <3>3
  <2>4. QED BY <1>2, <2>1, <2>2, <2>3 DEF FramesOK
<1>5. Guarded'
  <2>1. sections[m.cur] > 0 => \A f \in 1..(n + 1) : m'.frames[f].irq = "high"
    <3> SUFFICES ASSUME sections[m.cur] > 0, NEW f \in 1..(n + 1)
                 PROVE  m'.frames[f].irq = "high"
      OBVIOUS
    <3>1. CASE f = n + 1
      BY <3>1, <1>2 DEF Control, Guarded
    <3>2. CASE f \in 1..n
      BY <3>2, <1>1, <1>2 DEF Control, Guarded, SameFrame
    <3>3. QED BY <3>1, <3>2
  <2>2. (\E f \in 1..(n + 1) : Inside(f)') <=> \E f \in 1..n : Inside(f)
    <3>1. ASSUME NEW f \in 1..(n + 1), Inside(f)'
          PROVE  f \in 1..n /\ Inside(f)
      BY <3>1, <1>2
    <3>2. QED BY <3>1, <1>2
  <2>3. QED BY <1>1, <1>2, <2>1, <2>2 DEF Control, Guarded
<1>6. Control'
  BY <1>4, <1>5, ControlFacts DEF Control, BeforeStart
<1>7. CallsKernel(i) => ~Promise!InKernel
  <2>1. CallsKernel(i) => i # "high"
    BY DEF CallsKernel, Level
  <2>2. i # "high" => sections[m.cur] = 0 /\ \A f \in 1..n : ~Inside(f)
    BY <1>1, <1>3, ControlFacts DEF Control, Guarded
  <2>3. i # "high" => ~Promise!InKernel
    BY <1>1, <2>2, InKernelIs
  <2>4. QED BY <2>1, <2>3
<1>8. Handlers' = Append(Handlers, [irq |-> i, inside |-> FALSE])
  BY <1>1, <1>2, HandlersAppended
<1>9. i \in DOMAIN Level /\ m.cur # main
  BY ControlFacts DEF Level, Irqs
<1>10. QED
  BY <1>6, <1>7, <1>8, <1>9, Zenon DEF Promise!Accepts, Wanted

LEMMA HandlersMoved ==
  ASSUME Control, NEW stage, Depth > 0, TopMoves(stage), NEW b \in BOOLEAN,
         b = (stage \in {"inside", "counted", "switched"})
  PROVE  Handlers' = [Handlers EXCEPT ![Len(Handlers)].inside = b]
<1>1. PICK n \in Nat : n = Depth
  BY ControlFacts
<1>2. Len(Handlers) = n /\ Len(m'.frames) = n /\ Len(m.frames) = n /\ n > 0
  BY <1>1, HandlersFacts DEF TopMoves, SameDepth, Depth
<1>3. PICK H : H = [Handlers EXCEPT ![n].inside = b]
  BY Zenon
<1>4. ASSUME NEW f \in 1..n PROVE Handlers'[f] = H[f]
  <2>1. /\ Handlers'[f] =
             [irq |-> m'.frames[f].irq,
              inside |-> m'.frames[f].at \in {"inside", "counted", "switched"}]
        /\ Handlers[f] =
             [irq |-> m.frames[f].irq,
              inside |-> m.frames[f].at \in {"inside", "counted", "switched"}]
    BY <1>2 DEF Handlers
  <2>2. CASE f # n
    <3>1. Handlers'[f] = Handlers[f]
      BY <2>1, <2>2, <1>1 DEF TopMoves, SameFrame
    <3>2. H[f] = Handlers[f]
      BY <2>2, <1>2, <1>3 DEF Handlers
    <3>3. QED BY <3>1, <3>2
  <2>3. CASE f = n
    <3>1. H[f] = [Handlers[f] EXCEPT !.inside = b]
      BY <2>3, <1>2, <1>3 DEF Handlers
    <3>2. H[f] = [irq |-> m.frames[f].irq, inside |-> b]
      BY <3>1, <2>1
    <3>3. m'.frames[f].irq = m.frames[f].irq /\ m'.frames[f].at = stage
      BY <2>3, <1>1 DEF TopMoves
    <3>4. QED BY <2>1, <3>2, <3>3
  <2>4. QED BY <2>2, <2>3, Zenon
<1>5. Handlers' = [f \in 1..n |-> Handlers'[f]] /\ H = [f \in 1..n |-> H[f]]
  BY <1>2, <1>3, Zenon DEF Handlers
<1>6. QED BY <1>2, <1>3, <1>4, <1>5

LEMMA FrontFacts ==
  ASSUME NEW S, NEW s \in Seq(S), NEW n \in Nat, Len(s) = n + 1
  PROVE  /\ Front(s) \in Seq(S) /\ Len(Front(s)) = n
         /\ \A f \in 1..n : Front(s)[f] = s[f]
<1>1. Front(s) = SubSeq(s, 1, n)
  BY DEF Front
<1>2. /\ \A i \in 1..n : s[i] \in S
      /\ 1 \in 1..(n + 1) /\ n \in 0..(n + 1)
  BY ElementOfSeq
<1>3. Len(SubSeq(s, 1, n)) = n
  BY SubSeqProperties
<1>4. SubSeq(s, 1, n) \in Seq(S) /\ \A f \in 1..n : SubSeq(s, 1, n)[f] = s[f]
  BY SubSeqProperties
<1>5. QED BY <1>1, <1>3, <1>4

LEMMA HandlersShortened ==
  ASSUME Control, NEW n \in Nat, n + 1 = Depth, Depth' = n,
         \A f \in 1..n : SameFrame(f)
  PROVE  Handlers' = Front(Handlers)
<1> DEFINE S == [irq : Irqs, inside : BOOLEAN]
<1>1. Handlers \in Seq(S) /\ Len(Handlers) = n + 1
  <2>1. n + 1 \in Nat
    OBVIOUS
  <2>2. QED BY <2>1, HandlersFacts, Zenon
<1>2. PICK H : H = Front(Handlers)
  OBVIOUS
<1>3. H \in Seq(S) /\ Len(H) = n /\ \A f \in 1..n : H[f] = Handlers[f]
  BY <1>1, <1>2, FrontFacts, Zenon
<1>4. ASSUME NEW f \in 1..n PROVE Handlers'[f] = Handlers[f]
  <2>1. /\ Handlers'[f] =
             [irq |-> m'.frames[f].irq,
              inside |-> m'.frames[f].at \in {"inside", "counted", "switched"}]
        /\ Handlers[f] =
             [irq |-> m.frames[f].irq,
              inside |-> m.frames[f].at \in {"inside", "counted", "switched"}]
    BY DEF Handlers, Depth
  <2>2. QED BY <2>1 DEF SameFrame
<1>5. Handlers' = [f \in 1..n |-> Handlers'[f]]
  BY DEF Handlers, Depth
<1>6. H = [f \in 1..n |-> H[f]]
  BY <1>3, LenProperties
<1>7. QED BY <1>2, <1>3, <1>4, <1>5, <1>6

\* The innermost handler goes on to a stage: what is left to show is its mask.
LEMMA StageFacts ==
  ASSUME Control, UNCHANGED <<port, sections>>, NEW F, m'.frames \in Seq(F),
         NEW stage, Depth > 0, TopMoves(stage), m'.cur = m.cur,
         m'.pend \in BOOLEAN, m.frames[Depth].irq # "high",
         stage \in {"inside", "counted", "switched"} => Masked',
         stage \notin {"inside", "counted", "switched"} /\ port # "riscv32" => ~Masked'
  PROVE  /\ Control' /\ sections[m.cur] = 0 /\ m.cur \in Threads
         /\ \A f \in 1..Depth : f # Depth => ~Inside(f)
<1>1. PICK n \in Nat : n = Depth
  BY ControlFacts
<1>2. m.cur \in Threads
  BY ControlFacts DEF Control, BeforeStart, Contexts
<1>3. sections[m.cur] = 0 /\ \A f \in 1..n : f # n => ~Inside(f)
  BY <1>1, <1>2, ControlFacts DEF Control, Guarded, FramesOK
<1>4. /\ Depth' = n /\ m'.frames[n].irq = m.frames[n].irq
      /\ Inside(n)' <=> stage \in {"inside", "counted", "switched"}
      /\ \A f \in 1..n : f # n => SameFrame(f) /\ ~Inside(f)'
  BY <1>1, <1>3 DEF TopMoves, SameDepth, Depth, SameFrame, Inside
<1>5. FramesOK'
  <2>1. m'.frames # <<>> /\ m'.frames \in Seq(F) /\ n > 0
    BY <1>1, <1>4 DEF Depth
  <2>2. ASSUME NEW f \in 1..n
        PROVE  /\ m'.frames[f].irq = m.frames[f].irq
               /\ Inside(f)' => f = n
    BY <1>4 DEF SameFrame
  <2>3. QED BY <1>1, <1>4, <2>1, <2>2 DEF FramesOK, Control
<1>6. Guarded'
  <2>1. (\E f \in 1..n : Inside(f)') <=> stage \in {"inside", "counted", "switched"}
    BY <1>1, <1>4
  <2>2. QED BY <1>2, <1>3, <1>4, <2>1 DEF Guarded
<1>7. QED
  BY <1>1, <1>2, <1>3, <1>5, <1>6, ControlFacts DEF Control, BeforeStart

LEMMA ProgressFacts ==
  ASSUME Control, NEW stage, Depth > 0, TopMoves(stage)
  PROVE  /\ m.frames[Depth].irq = "pendsv" =>
              /\ Depth = 1
              /\ SwitchInProgress <=> m.frames[Depth].at \in {"entered", "inside"}
              /\ SwitchInProgress' <=> stage \in {"entered", "inside"}
         /\ m.frames[Depth].irq # "pendsv" => (SwitchInProgress' <=> SwitchInProgress)
<1>1. PICK n \in Nat : n = Depth
  BY ControlFacts
<1>2. /\ Len(m.frames) = n /\ Len(m'.frames) = n /\ n > 0
      /\ \A f \in 1..n : f # n => SameFrame(f)
      /\ m'.frames[n].irq = m.frames[n].irq /\ m'.frames[n].at = stage
  BY <1>1 DEF TopMoves, SameDepth, Depth
<1>3. m.frames[n].irq = "pendsv" => n = 1
  BY <1>1, <1>2 DEF Control, FramesOK
<1>4. QED BY <1>1, <1>2, <1>3 DEF SwitchInProgress, SameFrame

LEMMA InnerIs ==
  ASSUME Control, Depth > 0
  PROVE  /\ Handlers # <<>> /\ Promise!Inner.irq = m.frames[Depth].irq
         /\ Promise!Inner.inside <=> Inside(Depth)
<1>1. PICK n \in Nat : n = Depth
  BY ControlFacts
<1>2. Len(Handlers) = n /\ Handlers # <<>> /\ n \in 1..n
  BY <1>1, HandlersFacts
<1>3. Promise!Inner = Handlers[n]
  BY <1>2 DEF Promise!Inner
<1>4. Handlers[n] =
        [irq |-> m.frames[n].irq,
         inside |-> m.frames[n].at \in {"inside", "counted", "switched"}]
  BY <1>1, <1>2 DEF Handlers, Depth
<1>5. /\ Handlers[n].irq = m.frames[n].irq
      /\ Handlers[n].inside = (m.frames[n].at \in {"inside", "counted", "switched"})
  BY <1>4
<1>6. Handlers[n].inside <=> Inside(n)
  BY <1>5, Zenon DEF Inside
<1>7. QED BY <1>1, <1>2, <1>3, <1>5, <1>6

LEMMA MaskStep ==
  ASSUME Control, UNCHANGED <<port, sections>>, NEW F, m'.frames \in Seq(F),
         Depth > 0, TopMoves("inside"), m'.cur = m.cur, m'.pend = m.pend,
         m.frames[Depth].irq # "high", m.frames[Depth].at = "entered", Masked'
  PROVE  Control' /\ Promise!HandlerMasks
<1>1. Control' /\ sections[m.cur] = 0 /\ \A f \in 1..Depth : ~Inside(f)
  BY StageFacts, ControlFacts DEF Inside
<1>2. ~Promise!InKernel
  BY <1>1, InKernelIs, ControlFacts
<1>3. Handlers' = [Handlers EXCEPT ![Len(Handlers)].inside = TRUE]
  BY HandlersMoved, Zenon
<1>4. Wanted' <=> Wanted
  BY ProgressFacts DEF Wanted
<1>5. /\ Handlers # <<>> /\ Promise!Inner.irq = m.frames[Depth].irq
  BY InnerIs
<1>6. CallsKernel(m.frames[Depth].irq)
  BY ControlFacts DEF CallsKernel, Level, Irqs
<1>7. QED
  BY <1>1, <1>2, <1>3, <1>4, <1>5, <1>6 DEF Promise!HandlerMasks, Wanted

LEMMA UnmaskStep ==
  ASSUME Control, UNCHANGED <<port, sections>>, NEW F, m'.frames \in Seq(F),
         Depth > 0, TopMoves("done"), m'.cur = m.cur, m'.pend = m.pend,
         Inside(Depth), m.frames[Depth].irq = "pendsv" => m.frames[Depth].at = "switched",
         port # "riscv32" => ~Masked'
  PROVE  Control' /\ Promise!HandlerUnmasks
<1>1. m.frames[Depth].irq # "high" /\ m'.pend \in BOOLEAN
  BY ControlFacts DEF Control, FramesOK
<1>2. "done" \notin {"inside", "counted", "switched"}
  OBVIOUS
<1>3. Control'
  BY <1>1, <1>2, StageFacts
<1>4. FALSE = ("done" \in {"inside", "counted", "switched"})
  BY SMT
<1>4a. Handlers' = [Handlers EXCEPT ![Len(Handlers)].inside = FALSE]
  BY <1>4, HandlersMoved, Zenon
<1>5. Wanted' <=> Wanted
  BY ProgressFacts DEF Wanted
<1>6. Handlers # <<>>
  BY InnerIs
<1>7. QED
  BY <1>3, <1>4a, <1>5, <1>6 DEF Promise!HandlerUnmasks, Wanted

LEMMA SameInside ==
  ASSUME Control, Depth > 0, NEW stage, TopMoves(stage),
         Inside(Depth) <=> stage \in {"inside", "counted", "switched"}
  PROVE  UNCHANGED Handlers
<1>1. PICK n \in Nat : n = Depth
  BY ControlFacts
<1> DEFINE S == {"inside", "counted", "switched"}
<1>2. PICK b \in BOOLEAN : b = (stage \in S)
  <2>1. CASE stage \in S
    <3>1. TRUE = (stage \in S)
      BY <2>1, Zenon
    <3>2. QED BY <3>1, Zenon
  <2>2. CASE stage \notin S
    <3>1. FALSE = (stage \in S)
      BY <2>2, SMT
    <3>2. QED BY <3>1, Zenon
  <2>3. QED BY <2>1, <2>2
<1>3. Handlers' = [Handlers EXCEPT ![Len(Handlers)].inside = b]
  BY <1>2, HandlersMoved, Zenon
<1>4. Handlers \in Seq([irq : Irqs, inside : BOOLEAN]) /\ Len(Handlers) = n
  BY <1>1, HandlersFacts, Zenon
<1>4a. n \in 1..n
  BY <1>1
<1>5. Handlers[n] =
        [irq |-> m.frames[n].irq,
         inside |-> m.frames[n].at \in {"inside", "counted", "switched"}]
  BY <1>1, <1>4a DEF Handlers, Depth
<1>6. (m.frames[n].at \in {"inside", "counted", "switched"}) = b
  BY <1>1, <1>2 DEF Inside
<1>7. Handlers[n] = [Handlers[n] EXCEPT !.inside = b]
  BY <1>5, <1>6
<1>8. Handlers' = [Handlers EXCEPT ![n] = Handlers[n]]
  BY <1>3, <1>4, <1>7, Zenon
<1>9. QED BY <1>8, <1>4, <1>4a

LEMMA CountStep ==
  ASSUME Control, UNCHANGED <<port, sections>>, NEW F, m'.frames \in Seq(F),
         Depth > 0, TopMoves("counted"), m'.cur = m.cur,
         m'.pend = m.pend \/ m'.pend = TRUE,
         m.frames[Depth].irq = "tick", Inside(Depth), Masked' <=> Masked
  PROVE  Control' /\ (Promise!HandlerAsks \/ UNCHANGED <<Handlers, Wanted>>)
<1>1. m.cur \in Threads
  BY ControlFacts DEF Control, BeforeStart, Contexts
<1>2. Masked'
  BY <1>1, ControlFacts DEF Control, Guarded
<1>3. "counted" \in {"inside", "counted", "switched"}
  OBVIOUS
<1>4. m'.pend \in BOOLEAN /\ m.frames[Depth].irq # "high"
  BY ControlFacts, Zenon
<1>5. Control'
  BY <1>2, <1>3, <1>4, StageFacts
<1>6. UNCHANGED Handlers
  BY SameInside
<1>7. SwitchInProgress' <=> SwitchInProgress
  BY ProgressFacts
<1>8. Handlers # <<>> /\ Promise!Inner.irq = "tick"
  BY InnerIs
<1>9. CallsKernel("tick")
  BY DEF CallsKernel, Level
<1>10. CASE m'.pend = m.pend
  BY <1>5, <1>6, <1>7, <1>10 DEF Wanted
<1>11. CASE m'.pend = TRUE
  BY <1>5, <1>6, <1>8, <1>9, <1>11 DEF Promise!HandlerAsks
<1>12. QED BY <1>10, <1>11, Zenon

\* A handler asks for a switch.
LEMMA AskStep ==
  ASSUME Control, UNCHANGED <<port, sections>>, NEW F, m'.frames \in Seq(F),
         Depth > 0, SameDepth, \A f \in 1..Depth : SameFrame(f),
         m'.cur = m.cur, m'.pend = TRUE, m.frames[Depth].irq # "high",
         Masked' <=> Masked
  PROVE  Control' /\ Promise!HandlerAsks
<1>1. Depth' = Depth /\ Depth \in Nat
  BY ControlFacts DEF SameDepth, Depth
<1>2. \A f \in 1..Depth : Inside(f)' <=> Inside(f)
  BY DEF SameFrame, Inside
<1>3. FramesOK' /\ m'.frames # <<>> /\ m.frames # <<>>
  BY <1>1, <1>2 DEF Control, FramesOK, SameFrame, Depth
<1>4. Guarded'
  BY <1>1, <1>2 DEF Control, Guarded, SameFrame
<1>5. Control'
  BY <1>3, <1>4, Zenon DEF Control, BeforeStart
<1>6. UNCHANGED Handlers
  BY <1>1 DEF Handlers, SameFrame, Depth
<1>7. Handlers # <<>> /\ Promise!Inner.irq = m.frames[Depth].irq
  BY InnerIs
<1>8. CallsKernel(m.frames[Depth].irq)
  BY ControlFacts DEF CallsKernel, Level, Irqs
<1>9. QED
  BY <1>5, <1>6, <1>7, <1>8 DEF Promise!HandlerAsks

\* A handler returns to what it interrupted.
LEMMA ReturnStep ==
  ASSUME Control, UNCHANGED <<port, sections>>, NEW F, m'.frames \in Seq(F),
         NEW n \in Nat, Depth = n + 1, Len(m'.frames) = n,
         \A f \in 1..n : SameFrame(f),
         m'.cur = m.cur, m'.pend = m.pend, ~Inside(Depth),
         m.frames[Depth].irq = "pendsv" => m.frames[Depth].at \notin {"entered", "inside"},
         Masked' <=> sections[m.cur] > 0 \/ \E f \in 1..n : Inside(f)
  PROVE  Control' /\ Promise!Returns
<1>1. Depth' = n /\ m.cur \in Threads
  BY ControlFacts DEF Control, BeforeStart, Contexts, Depth
<1>2. \A f \in 1..n : Inside(f)' <=> Inside(f)
  BY DEF SameFrame, Inside
<1>3. FramesOK'
  <2>1. m'.frames = <<>> <=> n = 0
    OBVIOUS
  <2>2. \A f \in 1..n : f \in 1..Depth
    OBVIOUS
  <2>3. \A f \in 1..n :
          /\ m.frames[f].irq \in Irqs
          /\ m.frames[f].irq = "high" => ~Inside(f)
          /\ m.frames[f].irq = "pendsv" => f = 1
          /\ Inside(f) => \A g \in 1..n : g > f => m.frames[g].irq = "high"
    BY <2>2 DEF Control, FramesOK
  <2>4. \A f \in 1..n : m'.frames[f].irq = m.frames[f].irq
    BY DEF SameFrame
  <2>5. QED BY <1>1, <1>2, <2>1, <2>3, <2>4 DEF FramesOK
<1>4. Guarded'
  BY <1>1, <1>2 DEF Control, Guarded, SameFrame
<1>5. Control'
  BY <1>1, <1>3, <1>4, ControlFacts DEF Control, BeforeStart
<1>6. Handlers' = Promise!Front(Handlers)
  BY <1>1, HandlersShortened DEF Front, Promise!Front
<1>7. SwitchInProgress' <=> SwitchInProgress
  <2>1. \A f \in 1..(n + 1) : f = n + 1 \/ f \in 1..n
    OBVIOUS
  <2>2. Len(m.frames) = n + 1
    BY DEF Depth
  <2>3. ~(m.frames[n + 1].irq = "pendsv" /\ m.frames[n + 1].at \in {"entered", "inside"})
    OBVIOUS
  <2>4. \A f \in 1..n : m'.frames[f].irq = m.frames[f].irq
                          /\ m'.frames[f].at = m.frames[f].at
    BY DEF SameFrame
  <2>5. SwitchInProgress' <=>
          \E f \in 1..n : /\ m'.frames[f].irq = "pendsv"
                         /\ m'.frames[f].at \in {"entered", "inside"}
    BY DEF SwitchInProgress
  <2>6. SwitchInProgress <=>
          \E f \in 1..(n + 1) : /\ m.frames[f].irq = "pendsv"
                               /\ m.frames[f].at \in {"entered", "inside"}
    BY <2>2 DEF SwitchInProgress
  <2>7. \A f \in 1..n : f \in 1..(n + 1)
    OBVIOUS
  <2>8. QED BY <2>1, <2>3, <2>4, <2>5, <2>6, <2>7, Zenon
<1>8. Handlers # <<>> /\ ~Promise!Inner.inside
  BY InnerIs
<1>9. Wanted' <=> Wanted
  BY <1>7 DEF Wanted
<1>10. Promise!Returns
  <2>1. UNCHANGED <<m.cur, m.pend \/ SwitchInProgress>>
    BY <1>9 DEF Wanted
  <2>2. QED BY <1>6, <1>8, <2>1, Zenon DEF Promise!Returns
<1>11. QED BY <1>5, <1>10

LEMMA NoFrames ==
  ASSUME m'.frames = <<>>
  PROVE  Depth' = 0 /\ Handlers' = <<>> /\ (Wanted' <=> m'.pend) /\ FramesOK'
<1>1. Len(m'.frames) = 0
  OBVIOUS
<1>2. QED BY <1>1 DEF Depth, Handlers, Wanted, SwitchInProgress, FramesOK

LEMMA NoFramesNow ==
  ASSUME m.frames = <<>>
  PROVE  Depth = 0 /\ Handlers = <<>> /\ (Wanted <=> m.pend)
<1>1. Len(m.frames) = 0
  OBVIOUS
<1>2. QED BY <1>1 DEF Depth, Handlers, Wanted, SwitchInProgress

\* The last handler returns and switches.
LEMMA RestoreStep ==
  ASSUME Control, UNCHANGED <<port, sections>>,
         Depth = 1, ~Inside(1), m.frames[1].irq # "pendsv", m.pend,
         m'.frames = <<>>, m'.pend = FALSE, m'.cur \in Threads,
         Masked' <=> sections[m'.cur] > 0
  PROVE  Control' /\ Promise!Returns
<1>1. Len(m'.frames) = 0 /\ Depth' = 0 /\ Len(m.frames) = 1
  BY DEF Depth
<1>2. Control'
  <2>1. Guarded' /\ BeforeStart' /\ m'.cur \in Contexts
    BY <1>1, ControlFacts DEF Guarded, BeforeStart, Contexts
  <2>2. QED BY <2>1, NoFrames, ControlFacts, Zenon DEF Control
<1>3. Handlers' = Promise!Front(Handlers)
  BY <1>1, HandlersShortened DEF Front, Promise!Front
<1>4. Handlers # <<>> /\ ~Promise!Inner.inside
  BY InnerIs
<1>5. ~SwitchInProgress'
  BY <1>1 DEF SwitchInProgress
<1>6. Handlers' = <<>>
  BY <1>1 DEF Handlers
<1>7. (m.pend \/ SwitchInProgress)' = FALSE
  BY <1>5
<1>8. Promise!Returns
  BY <1>3, <1>4, <1>6, <1>7, Zenon DEF Promise!Returns
<1>9. QED BY <1>2, <1>8

\* PendSV has the kernel pick a task.
LEMMA PickStep ==
  ASSUME Control, UNCHANGED <<port, sections>>, NEW F, m'.frames \in Seq(F),
         Depth > 0, TopMoves("switched"), m'.pend = m.pend, m'.cur \in Threads,
         m.frames[Depth].irq = "pendsv", m.frames[Depth].at = "inside",
         \A t \in Threads : t # m.cur => sections[t] = 0, Masked' <=> Masked
  PROVE  Control' /\ Promise!Switches
<1>1. Depth = 1 /\ m.cur \in Threads
  BY ControlFacts DEF Control, FramesOK, BeforeStart, Contexts
<1>2. Inside(1) /\ Inside(1)' /\ Depth' = 1 /\ m'.frames[1].irq = "pendsv"
  BY <1>1 DEF Inside, TopMoves, SameDepth, Depth
<1>3. Masked /\ sections[m.cur] = 0 /\ sections[m'.cur] = 0
  BY <1>1, <1>2, ControlFacts DEF Control, Guarded
<1>4. FramesOK'
  BY <1>2 DEF FramesOK, Irqs, Depth
<1>5. Guarded'
  BY <1>2, <1>3 DEF Guarded
<1>6. Control'
  BY <1>4, <1>5, ControlFacts DEF Control, BeforeStart, Contexts
<1>7. UNCHANGED Handlers
  <2>1. Inside(Depth) <=> "switched" \in {"inside", "counted", "switched"}
    BY <1>1, <1>2
  <2>2. QED BY <2>1, SameInside
<1>8. SwitchInProgress /\ ~SwitchInProgress'
  BY ProgressFacts
<1>9. Len(Handlers) = 1 /\ Promise!Inner.inside
  BY <1>1, <1>2, HandlersFacts, InnerIs, Zenon
<1>10. (m.pend \/ SwitchInProgress)' \in BOOLEAN
  BY <1>8, ControlFacts
<1>11. QED
  BY <1>3, <1>6, <1>7, <1>8, <1>9, <1>10 DEF Promise!Switches

\* What a task does between handlers, with a switch asked for only if it waits
\* for the end of its section.
LEMMA SectionStep ==
  ASSUME Control, UNCHANGED port, m.frames = <<>>, m'.frames = <<>>,
         m'.cur = m.cur, m'.pend = m.pend, m.pend => sections[m.cur] > 0,
         \/ sections' = [sections EXCEPT ![m.cur] = @ + 1]
         \/ sections[m.cur] > 0 /\ sections' = [sections EXCEPT ![m.cur] = @ - 1],
         m.cur \in Threads => (Masked' <=> sections'[m.cur] > 0)
  PROVE  Control' /\ (Promise!Enters \/ Promise!Leaves)
<1>1. sections' \in [Contexts -> Nat] /\ m.cur \in Contexts
  BY ControlFacts
<1>2. Guarded'
  BY <1>1, NoFrames DEF Guarded
<1>3. BeforeStart'
  BY ControlFacts DEF Control, BeforeStart, Contexts
<1>4. Control'
  BY <1>1, <1>2, <1>3, NoFrames, ControlFacts DEF Control
<1>5. Wanted' <=> Wanted
  BY NoFrames, NoFramesNow
<1>6. Promise!TaskStep
  BY NoFramesNow DEF Promise!TaskStep, Wanted
<1>7. UNCHANGED <<m.cur, Handlers, m.pend \/ SwitchInProgress>>
  BY <1>5, NoFrames, NoFramesNow DEF Wanted
<1>8. QED
  BY <1>4, <1>6, <1>7 DEF Promise!Enters, Promise!Leaves

LEMMA StartStep ==
  ASSUME Control, UNCHANGED <<port, sections>>, m.cur = main, m'.cur \in Threads,
         m'.frames = <<>>, m'.pend = FALSE, ~Masked'
  PROVE  Control' /\ Promise!Starts
<1>1. m.frames = <<>> /\ ~m.pend /\ sections[m'.cur] = 0
  BY DEF Control, BeforeStart
<1>2. Guarded'
  BY <1>1, NoFrames DEF Guarded
<1>3. Control'
  BY <1>2, NoFrames, ControlFacts, Zenon DEF Control, BeforeStart, Contexts
<1>4. Wanted' <=> Wanted
  BY <1>1, NoFrames, NoFramesNow
<1>5. UNCHANGED <<Handlers, m.pend \/ SwitchInProgress>>
  BY <1>1, <1>4, NoFrames, NoFramesNow DEF Wanted
<1>6. QED
  BY <1>3, <1>5 DEF Promise!Starts

LEMMA YieldStep ==
  ASSUME Control, UNCHANGED <<port, sections>>, m.cur \in Threads,
         m.frames = <<>>, m'.frames = <<>>, m.pend => sections[m.cur] > 0,
         \/ m'.cur = m.cur /\ m'.pend = TRUE
         \/ m'.cur \in Threads /\ m'.pend = m.pend,
         Masked' <=> sections[m'.cur] > 0
  PROVE  Control' /\ Promise!Yields
<1>1. m'.cur \in Threads /\ m'.pend \in BOOLEAN
  BY ControlFacts, Zenon
<1>2. Guarded'
  BY NoFrames DEF Guarded
<1>3. Control'
  BY <1>1, <1>2, NoFrames, ControlFacts DEF Control, BeforeStart, Contexts
<1>4. Promise!TaskStep /\ m.cur # main
  BY NoFramesNow, ControlFacts DEF Promise!TaskStep, Wanted
<1>5. /\ m'.pend = TRUE => (m.pend \/ SwitchInProgress)' = TRUE
      /\ m'.pend = m.pend => UNCHANGED (m.pend \/ SwitchInProgress)
  BY NoFrames, NoFramesNow DEF Wanted
<1>6. UNCHANGED Handlers
  BY NoFrames, NoFramesNow
<1>7. QED
  BY <1>1, <1>3, <1>4, <1>5, <1>6 DEF Promise!Yields
-----------------------------------------------------------------------------
(* How a step changes the frames.                                          *)

LEMMA FrameReplaced ==
  ASSUME NEW F, m.frames \in Seq(F), NEW n \in Nat, n = Depth, n > 0,
         NEW e \in F, NEW stage, e.irq = m.frames[n].irq, e.at = stage,
         m'.frames = [m.frames EXCEPT ![n] = e]
  PROVE  /\ m'.frames \in Seq(F) /\ m'.frames # <<>> /\ Depth > 0
         /\ Depth' = n /\ SameDepth /\ TopMoves(stage)
         /\ m'.frames[n] = e
         /\ \A f \in 1..n : f # n => m'.frames[f] = m.frames[f]
<1>1. Len(m.frames) = n /\ n \in 1..n
  BY DEF Depth
<1>2. m'.frames \in Seq(F) /\ Len(m'.frames) = n /\ m'.frames[n] = e
  BY <1>1
<1>3. \A f \in 1..n : f # n => m'.frames[f] = m.frames[f]
  BY <1>1
<1>4. m'.frames # <<>>
  BY <1>2
<1>5. QED
  BY <1>2, <1>3, <1>4 DEF Depth, SameDepth, TopMoves, SameFrame

LEMMA FramePushed ==
  ASSUME NEW F, m.frames \in Seq(F), NEW n \in Nat, n = Depth,
         NEW e \in F, m'.frames = Append(m.frames, e)
  PROVE  /\ m'.frames \in Seq(F) /\ Len(m'.frames) = n + 1 /\ m'.frames # <<>>
         /\ Depth' = n + 1 /\ m'.frames[n + 1] = e
         /\ \A f \in 1..n : m'.frames[f] = m.frames[f] /\ SameFrame(f)
<1>1. Len(m.frames) = n
  BY DEF Depth
<1>2. /\ Append(m.frames, e) \in Seq(F) /\ Len(Append(m.frames, e)) = n + 1
      /\ Append(m.frames, e)[n + 1] = e
      /\ \A f \in 1..n : Append(m.frames, e)[f] = m.frames[f]
  BY <1>1, AppendProperties
<1>3. m'.frames # <<>>
  BY <1>2
<1>4. QED BY <1>2, <1>3 DEF Depth, SameFrame

LEMMA FramePopped ==
  ASSUME NEW F, m.frames \in Seq(F), NEW n \in Nat, Depth = n + 1,
         m'.frames = Front(m.frames)
  PROVE  /\ m'.frames \in Seq(F) /\ Len(m'.frames) = n
         /\ (m'.frames = <<>> <=> n = 0) /\ Depth' = n
         /\ \A f \in 1..n : m'.frames[f] = m.frames[f] /\ SameFrame(f)
<1>1. /\ m'.frames \in Seq(F) /\ Len(m'.frames) = n
      /\ \A f \in 1..n : m'.frames[f] = m.frames[f]
  BY FrontFacts DEF Depth
<1>2. QED BY <1>1 DEF Depth, SameFrame

LEMMA FramesKept ==
  ASSUME Control, m'.frames = m.frames
  PROVE  SameDepth /\ Depth' = Depth /\ \A f \in 1..Depth : SameFrame(f)
BY DEF SameDepth, SameFrame, Depth

StepOK ==
  Control' /\ (Promise!ProcessorNext \/ UNCHANGED <<m.cur, sections, Handlers, Wanted>>)

-----------------------------------------------------------------------------
(* The ports to the Cortex-M.                                              *)

CortexM == port \in {"cortex_m0", "cortex_m3", "cortex_m4f"}

CMInv == OneNesting /\ OwnRegs /\ FoundUnmasked

\* In a section, between tasks and handlers, or with nothing masked.
LEMMA CMTask ==
  ASSUME Control, CortexM, m.frames = <<>>, ~(m.pend /\ ~Masked)
  PROVE  m.pend => sections[m.cur] > 0
<1>1. Depth = 0 /\ port # "riscv32"
  BY NoFramesNow DEF CortexM
<1>2. m.cur = main => ~m.pend
  BY DEF Control, BeforeStart
<1>3. m.cur # main => m.cur \in Threads
  BY ControlFacts DEF Contexts
<1>4. QED BY <1>1, <1>2, <1>3 DEF Control, Guarded

LEMMA CMNoFrames ==
  ASSUME OwnRegs, m'.frames = <<>>, m'.cur \in Threads => m'.regs = m'.cur,
         \A t \in Threads : m'.saved[t].regs = m.saved[t].regs
  PROVE  OwnRegs' /\ FoundUnmasked'
<1>1. ~Switching'
  BY DEF Switching
<1>2. QED BY <1>1, NoFrames DEF OwnRegs, FoundUnmasked

LEMMA CMSection ==
  ASSUME Control, CortexM, CMInv, UNCHANGED port, m.frames = <<>>, m'.frames = <<>>,
         m'.cur = m.cur, m'.pend = m.pend, m'.regs = m.regs, m'.saved = m.saved,
         ~(m.pend /\ ~Masked),
         \/ /\ sections' = [sections EXCEPT ![m.cur] = @ + 1]
            /\ m'.nesting = m.nesting + 1 /\ Masked'
         \/ /\ sections[m.cur] > 0 /\ sections' = [sections EXCEPT ![m.cur] = @ - 1]
            /\ m'.nesting = m.nesting - 1
            /\ m.nesting = 1 => ~Masked'
            /\ m.nesting # 1 => (Masked' <=> Masked)
  PROVE  StepOK /\ CMInv'
<1>1. m.pend => sections[m.cur] > 0
  BY CMTask
<1>2. m.cur \in Contexts /\ sections \in [Contexts -> Nat]
  BY ControlFacts
<1>3. m.cur \in Threads => m.nesting = sections[m.cur]
  BY DEF CMInv, OneNesting
<1>4. m.cur \in Threads /\ sections[m.cur] > 0 => Masked
  BY DEF Control, Guarded
<1>5. m.cur \in Threads => (Masked' <=> sections'[m.cur] > 0)
  BY <1>2, <1>3, <1>4
<1>6. \/ sections' = [sections EXCEPT ![m.cur] = @ + 1]
      \/ sections[m.cur] > 0 /\ sections' = [sections EXCEPT ![m.cur] = @ - 1]
  OBVIOUS
<1>7. Control' /\ (Promise!Enters \/ Promise!Leaves)
  BY <1>1, <1>5, <1>6, SectionStep
<1>8. OneNesting'
  BY <1>2, <1>3, <1>6 DEF CMInv, OneNesting, Contexts
<1>9. OwnRegs' /\ FoundUnmasked'
  <2>1. m.cur \in Threads => m.regs = m.cur
    BY DEF CMInv, OwnRegs, Switching
  <2>2. QED BY <2>1, CMNoFrames DEF CMInv
<1>10. QED
  BY <1>7, <1>8, <1>9 DEF StepOK, Promise!ProcessorNext, CMInv

LEMMA CMStart ==
  ASSUME Control, CortexM, CMInv, UNCHANGED <<port, sections>>,
         m.cur = main, m'.cur \in Threads, m'.frames = m.frames, m'.pend = m.pend,
         m'.nesting = 0, m'.saved = m.saved, m'.regs = m.saved[m'.cur].regs, ~Masked'
  PROVE  StepOK /\ CMInv'
<1>1. m.frames = <<>> /\ m.pend = FALSE /\ \A t \in Threads : sections[t] = 0
  BY ControlFacts DEF Control, BeforeStart
<1>2. Control' /\ Promise!Starts
  BY <1>1, StartStep, Zenon
<1>3. OneNesting'
  BY <1>1 DEF OneNesting
<1>4. OwnRegs' /\ FoundUnmasked'
  <2>1. m'.regs = m'.cur
    BY DEF CMInv, OwnRegs
  <2>2. QED BY <1>1, <2>1, CMNoFrames DEF CMInv
<1>5. QED
  BY <1>2, <1>3, <1>4 DEF StepOK, Promise!ProcessorNext, CMInv

LEMMA CMYield ==
  ASSUME Control, CortexM, CMInv, UNCHANGED <<port, sections>>,
         m.cur \in Threads, m.frames = <<>>, m'.frames = <<>>, m'.cur = m.cur,
         m'.pend = TRUE, m'.regs = m.regs, m'.nesting = m.nesting,
         m'.saved = m.saved, ~(m.pend /\ ~Masked), Masked' <=> Masked
  PROVE  StepOK /\ CMInv'
<1>1. m.pend => sections[m.cur] > 0
  BY CMTask
<1>2. Masked' <=> sections[m'.cur] > 0
  BY NoFramesNow DEF Control, Guarded, CortexM
<1>3. Control' /\ Promise!Yields
  BY <1>1, <1>2, YieldStep, Zenon
<1>4. OneNesting'
  BY DEF CMInv, OneNesting
<1>5. OwnRegs' /\ FoundUnmasked'
  <2>1. m.regs = m.cur
    BY DEF CMInv, OwnRegs, Switching
  <2>2. QED BY <2>1, CMNoFrames DEF CMInv
<1>6. QED
  BY <1>3, <1>4, <1>5 DEF StepOK, Promise!ProcessorNext, CMInv

\* The current context is not touched, nor what is saved.
SameContext ==
  /\ m'.cur = m.cur /\ m'.regs = m.regs /\ m'.nesting = m.nesting
  /\ m'.saved = m.saved

LEMMA CMSame ==
  ASSUME CMInv, SameContext, UNCHANGED sections, Switching => Switching'
  PROVE  OneNesting' /\ OwnRegs'
BY DEF CMInv, SameContext, OneNesting, OwnRegs

LEMMA CMQuiet ==
  ASSUME Control, CMInv, UNCHANGED <<port, sections>>, NEW F, m'.frames \in Seq(F),
         SameContext, m'.frames = m.frames, m'.pend = m.pend, Masked' = Masked
  PROVE  StepOK /\ CMInv'
<1>1. Depth' = Depth /\ SameDepth /\ \A f \in 1..Depth : SameFrame(f)
  BY FramesKept
<1>2. Control' /\ UNCHANGED <<Handlers, Wanted>>
  BY <1>1, QuietStep DEF SameContext
<1>3. Switching' <=> Switching
  BY DEF Switching
<1>4. OneNesting' /\ OwnRegs'
  BY <1>3, CMSame
<1>5. FoundUnmasked'
  BY <1>1 DEF CMInv, FoundUnmasked
<1>6. QED
  BY <1>2, <1>4, <1>5 DEF StepOK, CMInv, SameContext

LEMMA CMAsk ==
  ASSUME Control, CMInv, UNCHANGED <<port, sections>>, NEW F, m'.frames \in Seq(F),
         SameContext, m'.frames = m.frames, m'.pend = TRUE, Masked' <=> Masked,
         Depth > 0, m.frames[Depth].irq # "high"
  PROVE  StepOK /\ CMInv'
<1>1. Depth' = Depth /\ SameDepth /\ \A f \in 1..Depth : SameFrame(f)
  BY FramesKept
<1>2. Control' /\ Promise!HandlerAsks
  BY <1>1, AskStep, Zenon DEF SameContext
<1>3. Switching' <=> Switching
  BY DEF Switching
<1>4. OneNesting' /\ OwnRegs'
  BY <1>3, CMSame
<1>5. FoundUnmasked'
  BY <1>1 DEF CMInv, FoundUnmasked
<1>6. QED
  BY <1>2, <1>4, <1>5 DEF StepOK, CMInv, Promise!ProcessorNext

\* Whether PendSV has picked a task is told by the outermost handler.
LEMMA SwitchingSame ==
  ASSUME NEW n \in Nat, n = Depth, Depth' \in Nat, Depth' > 0, n > 0,
         m.frames # <<>>, m'.frames # <<>>, SameFrame(1)
  PROVE  Switching' <=> Switching
BY DEF Switching, SameFrame

LEMMA CMEnter ==
  ASSUME Control, CortexM, CMInv, UNCHANGED <<port, sections>>,
         NEW F, m.frames \in Seq(F), NEW e \in F, m'.frames = Append(m.frames, e),
         e.irq \in Irqs, e.at = "entered", e.status = FALSE, m.cur \in Threads,
         SameContext, Masked' <=> Masked, e.irq # "high" => ~Masked,
         \/ e.irq # "pendsv" /\ m'.pend = m.pend
         \/ e.irq = "pendsv" /\ m.frames = <<>> /\ m.pend /\ m'.pend = FALSE
  PROVE  StepOK /\ CMInv'
<1>1. PICK n \in Nat : n = Depth
  BY ControlFacts
<1>2. /\ m'.frames \in Seq(F) /\ Len(m'.frames) = n + 1 /\ m'.frames # <<>>
      /\ Depth' = n + 1 /\ m'.frames[n + 1] = e
      /\ \A f \in 1..n : m'.frames[f] = m.frames[f] /\ SameFrame(f)
  BY <1>1, FramePushed
<1>3. e.irq = "pendsv" => Depth = 0
  BY NoFramesNow
<1>4. Wanted' <=> Wanted
  <2>1. CASE e.irq # "pendsv"
    <3>1. Len(m.frames) = n
      BY <1>1 DEF Depth
    <3>2. \A f \in 1..(n + 1) : f = n + 1 \/ f \in 1..n
      OBVIOUS
    <3>3. SwitchInProgress' <=> SwitchInProgress
      BY <2>1, <3>1, <3>2, <1>2 DEF SwitchInProgress
    <3>4. QED BY <2>1, <3>3 DEF Wanted
  <2>2. CASE e.irq = "pendsv"
    <3>1. n = 0 /\ m.pend
      BY <2>2, <1>1, <1>3
    <3>2. SwitchInProgress'
      BY <2>2, <3>1, <1>2 DEF SwitchInProgress
    <3>3. QED BY <3>1, <3>2 DEF Wanted
  <2>3. QED BY <2>1, <2>2
<1>5. Control' /\ Promise!Accepts
  <2>1. m'.pend \in BOOLEAN
    BY ControlFacts, Zenon
  <2>2. /\ Len(m'.frames) = Depth + 1
        /\ m'.frames[Depth + 1].irq = e.irq /\ m'.frames[Depth + 1].at = "entered"
        /\ \A f \in 1..Depth : SameFrame(f)
    BY <1>1, <1>2
  <2>3. QED
    BY <1>2, <1>3, <1>4, <2>1, <2>2, EnterStep DEF SameContext
<1>6. Switching => Switching'
  <2>1. CASE n = 0
    BY <2>1, <1>1, NoFramesNow, ControlFacts DEF Switching
  <2>2. CASE n > 0
    BY <2>2, <1>1, <1>2, ControlFacts DEF Switching
  <2>3. QED BY <2>1, <2>2
<1>7. OneNesting' /\ OwnRegs'
  BY <1>6, CMSame
<1>8. FoundUnmasked'
  <2>1. \A f \in 1..(n + 1) : f = n + 1 \/ f \in 1..n
    OBVIOUS
  <2>2. QED BY <2>1, <1>1, <1>2 DEF CMInv, FoundUnmasked
<1>9. QED
  BY <1>5, <1>7, <1>8 DEF StepOK, CMInv, Promise!ProcessorNext

\* The innermost handler goes on.
LEMMA CMFound ==
  ASSUME CMInv, NEW n \in Nat, n = Depth, Depth' = n, ~m'.frames[n].status,
         \A f \in 1..n : f # n => m'.frames[f] = m.frames[f]
  PROVE  FoundUnmasked'
BY DEF CMInv, FoundUnmasked

LEMMA CMNoneInside ==
  ASSUME Control, CortexM, Depth > 0, m.frames[Depth].irq # "high", ~Inside(Depth)
  PROVE  ~Masked
<1>1. PICK n \in Nat : n = Depth
  BY ControlFacts
<1>2. m.cur \in Threads
  BY <1>1, ControlFacts DEF Control, BeforeStart, Contexts
<1>3. \A f \in 1..n : ~Inside(f)
  BY <1>1 DEF Control, FramesOK
<1>4. sections[m.cur] = 0
  BY <1>1, <1>2, ControlFacts DEF Control, Guarded
<1>5. QED
  BY <1>1, <1>2, <1>3, <1>4 DEF Control, Guarded, CortexM

LEMMA CMMask ==
  ASSUME Control, CortexM, CMInv, UNCHANGED <<port, sections>>,
         NEW F, m.frames \in Seq(F), NEW n \in Nat, n = Depth, n > 0,
         NEW e \in F, m'.frames = [m.frames EXCEPT ![n] = e],
         e.irq = m.frames[n].irq, e.at = "inside", ~e.status,
         m.frames[n].irq # "high", m.frames[n].at = "entered",
         m'.cur = m.cur, m'.pend = m.pend, m'.nesting = m.nesting,
         m'.regs = m.regs, \A t \in Threads : m'.saved[t].regs = t, Masked'
  PROVE  StepOK /\ CMInv'
<1>1. /\ m'.frames \in Seq(F) /\ m'.frames # <<>> /\ Depth > 0
      /\ Depth' = n /\ SameDepth /\ TopMoves("inside") /\ m'.frames[n] = e
      /\ \A f \in 1..n : f # n => m'.frames[f] = m.frames[f]
  BY FrameReplaced
<1>2. m.frames[Depth].irq # "high" /\ m.frames[Depth].at = "entered"
  OBVIOUS
<1>3. Control' /\ Promise!HandlerMasks
  BY <1>1, <1>2, MaskStep
<1>4. Switching => Switching'
  BY <1>1 DEF Switching
<1>5. OneNesting' /\ OwnRegs'
  BY <1>4 DEF CMInv, OneNesting, OwnRegs
<1>6. FoundUnmasked'
  BY <1>1, CMFound
<1>7. QED
  BY <1>3, <1>5, <1>6 DEF StepOK, CMInv, Promise!ProcessorNext

LEMMA CMUnmask ==
  ASSUME Control, CortexM, CMInv, UNCHANGED <<port, sections>>,
         NEW F, m.frames \in Seq(F), NEW n \in Nat, n = Depth, n > 0,
         NEW e \in F, m'.frames = [m.frames EXCEPT ![n] = e],
         e.irq = m.frames[n].irq, e.at = "done", e.status = m.frames[n].status,
         Inside(n), m.frames[n].irq = "pendsv" => m.frames[n].at = "switched",
         SameContext, m'.pend = m.pend, ~Masked'
  PROVE  StepOK /\ CMInv'
<1>1. /\ m'.frames \in Seq(F) /\ m'.frames # <<>> /\ Depth > 0
      /\ Depth' = n /\ SameDepth /\ TopMoves("done") /\ m'.frames[n] = e
      /\ \A f \in 1..n : f # n => m'.frames[f] = m.frames[f]
  BY FrameReplaced
<1>2. /\ Inside(Depth)
      /\ m.frames[Depth].irq = "pendsv" => m.frames[Depth].at = "switched"
  OBVIOUS
<1>3. Control' /\ Promise!HandlerUnmasks
  BY <1>1, <1>2, UnmaskStep DEF SameContext
<1>4. Switching => Switching'
  BY <1>1 DEF Switching
<1>5. OneNesting' /\ OwnRegs'
  BY <1>4, CMSame
<1>6. ~m'.frames[n].status
  BY <1>1 DEF CMInv, FoundUnmasked
<1>7. FoundUnmasked'
  BY <1>1, <1>6, CMFound
<1>8. QED
  BY <1>3, <1>5, <1>7 DEF StepOK, CMInv, Promise!ProcessorNext

LEMMA CMCount ==
  ASSUME Control, CortexM, CMInv, UNCHANGED <<port, sections>>,
         NEW F, m.frames \in Seq(F), NEW n \in Nat, n = Depth, n > 0,
         NEW e \in F, m'.frames = [m.frames EXCEPT ![n] = e],
         e.irq = m.frames[n].irq, e.at = "counted", e.status = m.frames[n].status,
         m.frames[n].irq = "tick", Inside(n), SameContext, Masked' <=> Masked,
         m'.pend = m.pend \/ m'.pend = TRUE
  PROVE  StepOK /\ CMInv'
<1>1. /\ m'.frames \in Seq(F) /\ m'.frames # <<>> /\ Depth > 0
      /\ Depth' = n /\ SameDepth /\ TopMoves("counted") /\ m'.frames[n] = e
      /\ \A f \in 1..n : f # n => m'.frames[f] = m.frames[f]
  BY FrameReplaced
<1>2. m.frames[Depth].irq = "tick" /\ Inside(Depth)
  OBVIOUS
<1>3. Control' /\ (Promise!HandlerAsks \/ UNCHANGED <<Handlers, Wanted>>)
  BY <1>1, <1>2, CountStep, Zenon DEF SameContext
<1>4. Switching => Switching'
  BY <1>1 DEF Switching
<1>5. OneNesting' /\ OwnRegs'
  BY <1>4, CMSame
<1>6. ~m'.frames[n].status
  BY <1>1 DEF CMInv, FoundUnmasked
<1>7. FoundUnmasked'
  BY <1>1, <1>6, CMFound
<1>8. QED
  BY <1>3, <1>5, <1>7 DEF StepOK, CMInv, Promise!ProcessorNext, SameContext

LEMMA CMReturn ==
  ASSUME Control, CortexM, CMInv, UNCHANGED <<port, sections>>,
         NEW F, m.frames \in Seq(F), NEW n \in Nat, Depth = n + 1,
         m'.frames = Front(m.frames), m'.cur = m.cur, m'.pend = m.pend,
         m'.nesting = m.nesting, m'.saved = m.saved, Masked' <=> Masked,
         \/ m.frames[n + 1].irq # "pendsv" /\ ~Inside(n + 1) /\ m'.regs = m.regs
         \/ /\ m.frames[n + 1].irq = "pendsv" /\ m.frames[n + 1].at = "done"
            /\ m'.regs = m.saved[m.cur].regs
  PROVE  StepOK /\ CMInv'
<1>1. /\ m'.frames \in Seq(F) /\ Len(m'.frames) = n
      /\ (m'.frames = <<>> <=> n = 0) /\ Depth' = n
      /\ \A f \in 1..n : m'.frames[f] = m.frames[f] /\ SameFrame(f)
  BY FramePopped
<1>2. /\ m.cur \in Threads /\ m.frames # <<>> /\ n + 1 \in Nat
      /\ \A f \in 1..(n + 1) : f = n + 1 \/ f \in 1..n
  BY ControlFacts DEF Control, BeforeStart, Contexts
<1>3. ~Inside(n + 1) /\ (m.frames[n + 1].irq = "pendsv" => n = 0)
  BY <1>2 DEF Inside, Control, FramesOK
<1>4. Masked' <=> sections[m.cur] > 0 \/ \E f \in 1..n : Inside(f)
  BY <1>2, <1>3 DEF Control, Guarded, CortexM
<1>5. Control' /\ Promise!Returns
  <2>1. /\ ~Inside(Depth)
        /\ m.frames[Depth].irq = "pendsv" =>
             m.frames[Depth].at \notin {"entered", "inside"}
    BY <1>3
  <2>2. QED BY <1>1, <1>4, <2>1, ReturnStep
<1>6. OneNesting'
  BY DEF CMInv, OneNesting
<1>7. OwnRegs'
  <2>1. CASE n = 0
    <3>1. ~Switching' /\ m.saved[m.cur].regs = m.cur
      BY <2>1, <1>1, <1>2 DEF Switching, CMInv, OwnRegs
    <3>2. m.frames[n + 1].irq # "pendsv" => ~Switching
      BY <2>1 DEF Switching
    <3>3. m'.regs = m.cur
      BY <3>1, <3>2, <1>2 DEF CMInv, OwnRegs
    <3>4. QED BY <3>1, <3>3 DEF CMInv, OwnRegs
  <2>2. CASE n > 0
    <3>1. Switching' <=> Switching
      BY <2>2, <1>1, <1>2 DEF Switching
    <3>2. m'.regs = m.regs
      BY <2>2, <1>3
    <3>3. QED BY <3>1, <3>2 DEF CMInv, OwnRegs
  <2>3. QED BY <2>1, <2>2
<1>8. FoundUnmasked'
  BY <1>1, <1>2 DEF CMInv, FoundUnmasked
<1>9. QED
  BY <1>5, <1>6, <1>7, <1>8 DEF StepOK, CMInv, Promise!ProcessorNext

LEMMA CMPick ==
  ASSUME Control, CortexM, CMInv, UNCHANGED <<port, sections>>,
         NEW F, m.frames \in Seq(F), NEW n \in Nat, n = Depth, n > 0,
         NEW e \in F, m'.frames = [m.frames EXCEPT ![n] = e],
         e.irq = m.frames[n].irq, e.at = "switched", e.status = m.frames[n].status,
         m.frames[n].irq = "pendsv", m.frames[n].at = "inside",
         m'.cur \in Threads, m'.regs = m.regs, m'.nesting = m.nesting,
         m'.saved = m.saved, m'.pend = m.pend, Masked' <=> Masked
  PROVE  StepOK /\ CMInv'
<1>1. /\ m'.frames \in Seq(F) /\ m'.frames # <<>> /\ Depth > 0
      /\ Depth' = n /\ SameDepth /\ TopMoves("switched") /\ m'.frames[n] = e
      /\ \A f \in 1..n : f # n => m'.frames[f] = m.frames[f]
  BY FrameReplaced
<1>2. m.cur \in Threads /\ n = 1
  BY ControlFacts DEF Control, FramesOK, BeforeStart, Contexts
<1>3. sections[m.cur] = 0
  BY <1>2, ControlFacts DEF Control, Guarded
<1>4. \A t \in Threads : t # m.cur => sections[t] = 0
  BY DEF CMInv, OneNesting
<1>5. m.frames[Depth].irq = "pendsv" /\ m.frames[Depth].at = "inside"
  OBVIOUS
<1>6. Control' /\ Promise!Switches
  BY <1>1, <1>4, <1>5, PickStep
<1>7. OneNesting'
  BY <1>2, <1>3, <1>4 DEF CMInv, OneNesting
<1>8. Switching'
  BY <1>1, <1>2 DEF Switching
<1>9. OwnRegs'
  BY <1>8 DEF CMInv, OwnRegs
<1>10. ~m'.frames[n].status
  BY <1>1 DEF CMInv, FoundUnmasked
<1>11. FoundUnmasked'
  BY <1>1, <1>10, CMFound
<1>12. QED
  BY <1>6, <1>7, <1>9, <1>11 DEF StepOK, CMInv, Promise!ProcessorNext

\* A handler takes a mask or gives it back, and goes on to its next stage.
LEMMA TopFrame ==
  ASSUME NEW S, NEW s \in Seq(S), s # <<>>
  PROVE  \E n \in Nat : n = Len(s) /\ n > 0 /\ n \in 1..n /\ s[n] \in S /\ s[n] = Last(s)
<1>1. PICK n \in Nat : n = Len(s)
  OBVIOUS
<1>2. n > 0 /\ n \in 1..n
  BY <1>1
<1>3. s[n] \in S /\ s[n] = Last(s)
  BY <1>1, <1>2, ElementOfSeq DEF Last
<1>4. QED BY <1>1, <1>2, <1>3

LEMMA FrameSet ==
  ASSUME NEW S, NEW s \in Seq(S), NEW n \in Nat, n = Len(s), n > 0, NEW e \in S
  PROVE  /\ [s EXCEPT ![n] = e] \in Seq(S) /\ Len([s EXCEPT ![n] = e]) = n
         /\ [s EXCEPT ![n] = e][n] = e
         /\ \A d \in S : [[s EXCEPT ![n] = d] EXCEPT ![n] = e] = [s EXCEPT ![n] = e]
<1>1. n \in 1..n /\ DOMAIN s = 1..n
  OBVIOUS
<1>2. [s EXCEPT ![n] = e] \in Seq(S) /\ Len([s EXCEPT ![n] = e]) = n
  BY <1>1
<1>3. [s EXCEPT ![n] = e][n] = e
  BY <1>1
<1>4. ASSUME NEW d \in S
      PROVE  [[s EXCEPT ![n] = d] EXCEPT ![n] = e] = [s EXCEPT ![n] = e]
  <2>1. PICK r : r = [s EXCEPT ![n] = d]
    BY Zenon
  <2>2. PICK a : a = [r EXCEPT ![n] = e]
    BY Zenon
  <2>3. PICK b : b = [s EXCEPT ![n] = e]
    BY Zenon
  <2>4. /\ r = [i \in 1..n |-> r[i]] /\ DOMAIN r = 1..n
        /\ \A i \in 1..n : r[i] = IF i = n THEN d ELSE s[i]
    BY <1>1, <2>1, Zenon
  <2>5. /\ a = [i \in 1..n |-> a[i]]
        /\ \A i \in 1..n : a[i] = IF i = n THEN e ELSE s[i]
    BY <1>1, <2>2, <2>4, Zenon
  <2>6. /\ b = [i \in 1..n |-> b[i]]
        /\ \A i \in 1..n : b[i] = IF i = n THEN e ELSE s[i]
    BY <1>1, <2>3, Zenon
  <2>7. \A i \in 1..n : a[i] = b[i]
    BY <2>5, <2>6
  <2>8. a = b
    BY <2>5, <2>6, <2>7
  <2>9. QED BY <2>1, <2>2, <2>3, <2>8, Zenon
<1>5. QED BY <1>2, <1>3, <1>4, Zenon

LEMMA FpOfHalves ==
  ASSUME NEW h \in Halves, NEW w, h.low = w, h.high = w
  PROVE  h = FpOf(w)
BY DEF Halves, FpOf

M3Saved == [regs : Contexts]

LEMMA M3Facts ==
  ASSUME Control, M3Inv, port = "cortex_m3", UNCHANGED port
  PROVE  /\ m \in Machines(CoreFrames, M3Saved) /\ CortexM /\ CMInv
         /\ m.frames \in Seq(CoreFrames) /\ m.nesting \in Int /\ m.mask \in BOOLEAN
         /\ m.saved \in [Threads -> M3Saved] /\ m.cur \in Contexts /\ m.regs \in Contexts
         /\ ~m.off /\ live = {} /\ (Masked <=> m.mask) /\ (Masked' <=> m'.mask)
         /\ main \notin Threads /\ main \in Contexts /\ Threads \subseteq Contexts
<1>1. m \in Machines(CoreFrames, M3Saved)
  BY DEF M3Inv, M3Saved
<1>2. /\ m.frames \in Seq(CoreFrames) /\ m.nesting \in Int /\ m.mask \in BOOLEAN
      /\ m.saved \in [Threads -> M3Saved] /\ m.cur \in Contexts /\ m.regs \in Contexts
  BY <1>1 DEF Machines
<1>3. QED
  BY <1>1, <1>2, PortsAssumption DEF M3Inv, CMInv, CortexM, Masked, Contexts

LEMMA M3Kept ==
  ASSUME m' \in Machines(CoreFrames, M3Saved), ~m'.off, live' = {}, StepOK, CMInv'
  PROVE  StepOK /\ M3Inv'
BY DEF M3Inv, CMInv, M3Saved

LEMMA M3Enter ==
  ASSUME Control, M3Inv, port = "cortex_m3", UNCHANGED port, M3!EnterSection
  PROVE  StepOK /\ M3Inv'
<1>1. /\ m' = [m EXCEPT !.mask = TRUE, !.nesting = m.nesting + 1]
      /\ sections' = [sections EXCEPT ![m.cur] = @ + 1] /\ UNCHANGED live
      /\ m.frames = <<>> /\ ~(m.pend /\ ~m.off /\ ~m.mask)
  BY DEF M3!EnterSection, M3!TaskRuns, M3!SwitchTaken, M3!portENTER_CRITICAL,
         M3!portDISABLE_INTERRUPTS
<1>2. /\ m'.cur = m.cur /\ m'.regs = m.regs /\ m'.nesting = m.nesting + 1
      /\ m'.mask = TRUE /\ m'.off = m.off /\ m'.pend = m.pend
      /\ m'.frames = m.frames /\ m'.saved = m.saved
  BY <1>1, M3Facts DEF Machines
<1>3. m.nesting + 1 \in Int
  BY M3Facts
<1>4. m' \in Machines(CoreFrames, M3Saved)
  BY <1>1, <1>3, M3Facts, ZenonT(60) DEF Machines
<1>5. StepOK /\ CMInv'
  BY <1>1, <1>2, M3Facts, CMSection
<1>6. QED BY <1>1, <1>2, <1>4, <1>5, M3Facts, M3Kept

LEMMA M3Leave ==
  ASSUME Control, M3Inv, port = "cortex_m3", UNCHANGED port, M3!LeaveSection
  PROVE  StepOK /\ M3Inv'
<1>1. /\ m' = [(IF m.nesting = 1 THEN [m EXCEPT !.mask = FALSE] ELSE m)
                 EXCEPT !.nesting = @ - 1]
      /\ sections' = [sections EXCEPT ![m.cur] = @ - 1] /\ UNCHANGED live
      /\ m.frames = <<>> /\ ~(m.pend /\ ~m.off /\ ~m.mask) /\ sections[m.cur] > 0
  BY DEF M3!LeaveSection, M3!TaskRuns, M3!SwitchTaken, M3!portEXIT_CRITICAL,
         M3!portENABLE_INTERRUPTS
<1>2. PICK b \in BOOLEAN : b <=> m.nesting # 1 /\ m.mask
  BY Zenon
<1>3. m' = [m EXCEPT !.mask = b, !.nesting = m.nesting - 1]
  BY <1>1, <1>2, M3Facts, Zenon DEF Machines
<1>4. /\ m'.cur = m.cur /\ m'.regs = m.regs /\ m'.nesting = m.nesting - 1
      /\ m'.mask = b /\ m'.off = m.off /\ m'.pend = m.pend
      /\ m'.frames = m.frames /\ m'.saved = m.saved
  BY <1>3, M3Facts DEF Machines
<1>5. m.nesting - 1 \in Int
  BY M3Facts
<1>6. m' \in Machines(CoreFrames, M3Saved)
  BY <1>2, <1>3, <1>5, M3Facts, ZenonT(60) DEF Machines
<1>7. StepOK /\ CMInv'
  BY <1>1, <1>2, <1>4, M3Facts, CMSection
<1>8. QED BY <1>1, <1>4, <1>6, <1>7, M3Facts, M3Kept

LEMMA M3Start ==
  ASSUME Control, M3Inv, port = "cortex_m3", UNCHANGED port,
         NEW t \in Threads, M3!StartScheduler(t)
  PROVE  StepOK /\ M3Inv'
<1>1. m.cur = main /\ UNCHANGED <<sections, live>>
  BY DEF M3!StartScheduler
<1>2. /\ m'.cur = t /\ m'.nesting = 0 /\ m'.mask = FALSE /\ m'.off = FALSE
      /\ m'.regs = m.saved[t].regs /\ m'.pend = m.pend
      /\ m'.frames = m.frames /\ m'.saved = m.saved
  BY M3Facts DEF M3!StartScheduler, M3!xPortStartScheduler, M3!prvPortStartFirstTask,
       M3!vPortSVCHandler, M3!portDISABLE_INTERRUPTS, Machines
<1>3. PICK r \in Contexts : r = m.saved[t].regs
  BY M3Facts DEF M3Saved
<1>4. m' = [m EXCEPT !.mask = FALSE, !.cur = t, !.nesting = 0, !.off = FALSE, !.regs = r]
  BY <1>3, M3Facts, Zenon DEF M3!StartScheduler, M3!xPortStartScheduler, M3!prvPortStartFirstTask,
       M3!vPortSVCHandler, M3!portDISABLE_INTERRUPTS, Machines
<1>5. t \in Contexts /\ 0 \in Int
  BY M3Facts
<1>6. m' \in Machines(CoreFrames, M3Saved)
  BY <1>4, <1>5, M3Facts, ZenonT(60) DEF Machines
<1>7. StepOK /\ CMInv'
  BY <1>1, <1>2, M3Facts, CMStart
<1>8. QED BY <1>1, <1>2, <1>6, <1>7, M3Facts, M3Kept

LEMMA M3Yield ==
  ASSUME Control, M3Inv, port = "cortex_m3", UNCHANGED port, M3!Yield
  PROVE  StepOK /\ M3Inv'
<1>1. /\ m' = [m EXCEPT !.pend = TRUE] /\ UNCHANGED <<sections, live>>
      /\ m.frames = <<>> /\ ~(m.pend /\ ~m.off /\ ~m.mask) /\ m.cur # main
  BY DEF M3!Yield, M3!TaskRuns, M3!SwitchTaken, M3!portYIELD
<1>2. /\ m'.cur = m.cur /\ m'.regs = m.regs /\ m'.nesting = m.nesting
      /\ m'.mask = m.mask /\ m'.off = m.off /\ m'.pend = TRUE
      /\ m'.frames = m.frames /\ m'.saved = m.saved
  BY <1>1, M3Facts DEF Machines
<1>3. m' \in Machines(CoreFrames, M3Saved)
  BY <1>1, M3Facts, ZenonT(60) DEF Machines
<1>4. m.cur \in Threads
  BY <1>1, M3Facts DEF Contexts
<1>5. StepOK /\ CMInv'
  BY <1>1, <1>2, <1>4, M3Facts, CMYield
<1>6. QED BY <1>1, <1>2, <1>3, <1>5, M3Facts, M3Kept

\* Registering and using the unit are nothing here.
LEMMA M3Unit ==
  ASSUME Control, M3Inv, port = "cortex_m3", UNCHANGED port,
         M3!RegisterFpu \/ M3!TaskUsesFpu \/ M3!HandlerUsesFpu
  PROVE  StepOK /\ M3Inv'
<1>1. m' = m /\ UNCHANGED <<sections, live>>
  BY DEF M3!RegisterFpu, M3!TaskUsesFpu, M3!HandlerUsesFpu, M3!FpuAllowed,
         M3!vPortTaskUsesFPU
<1>2. /\ SameContext /\ m'.frames = m.frames /\ m'.pend = m.pend
      /\ m'.frames \in Seq(CoreFrames) /\ Masked' = Masked
  BY <1>1, M3Facts DEF SameContext, Masked
<1>3. StepOK /\ CMInv'
  BY <1>1, <1>2, M3Facts, CMQuiet
<1>4. QED BY <1>1, <1>3, M3Facts, M3Kept

LEMMA M3Interrupted ==
  ASSUME Control, M3Inv, port = "cortex_m3", UNCHANGED port,
         NEW i \in Interrupts, M3!Interrupted(i)
  PROVE  StepOK /\ M3Inv'
<1> DEFINE e == [irq |-> i, at |-> "entered", status |-> FALSE]
<1>1. /\ m.cur # main /\ (m.mask => i = "high") /\ UNCHANGED <<sections, live>>
      /\ m' = [m EXCEPT !.frames = Append(m.frames, e)]
  BY DEF M3!Interrupted, M3!Takes, M3!EnterHandler, M3!Push
<1>2. e \in CoreFrames /\ i \in Irqs /\ i # "pendsv"
  BY DEF CoreFrames, Interrupts, Irqs, Stages
<1>3. /\ m'.cur = m.cur /\ m'.regs = m.regs /\ m'.nesting = m.nesting
      /\ m'.mask = m.mask /\ m'.off = m.off /\ m'.pend = m.pend
      /\ m'.frames = Append(m.frames, e) /\ m'.saved = m.saved
  BY <1>1, M3Facts DEF Machines
<1>4. Append(m.frames, e) \in Seq(CoreFrames)
  BY <1>2, M3Facts, AppendProperties
<1>5. m' \in Machines(CoreFrames, M3Saved)
  BY <1>1, <1>4, M3Facts, ZenonT(60) DEF Machines
<1>6. m.cur \in Threads /\ e.irq = i /\ e.at = "entered" /\ e.status = FALSE
  BY <1>1, M3Facts DEF Contexts
<1> HIDE DEF e
<1>7. StepOK /\ CMInv'
  BY <1>1, <1>2, <1>3, <1>6, M3Facts, CMEnter, Zenon DEF SameContext
<1>8. QED BY <1>1, <1>3, <1>5, <1>7, M3Facts, M3Kept

LEMMA M3SwitchTaken ==
  ASSUME Control, M3Inv, port = "cortex_m3", UNCHANGED port, M3!SwitchInterrupts
  PROVE  StepOK /\ M3Inv'
<1> DEFINE e == [irq |-> "pendsv", at |-> "entered", status |-> FALSE]
<1>1. /\ m.pend /\ ~m.mask /\ m.frames = <<>> /\ UNCHANGED <<sections, live>>
      /\ m' = [m EXCEPT !.frames = Append(m.frames, e), !.pend = FALSE]
  BY DEF M3!SwitchInterrupts, M3!SwitchTaken, M3!EnterHandler, M3!Push
<1>2. e \in CoreFrames
  BY DEF CoreFrames, Irqs, Stages
<1>3. /\ m'.cur = m.cur /\ m'.regs = m.regs /\ m'.nesting = m.nesting
      /\ m'.mask = m.mask /\ m'.off = m.off /\ m'.pend = FALSE
      /\ m'.frames = Append(m.frames, e) /\ m'.saved = m.saved
  BY <1>1, M3Facts, Zenon DEF Machines
<1>4. Append(m.frames, e) \in Seq(CoreFrames)
  BY <1>2, M3Facts, AppendProperties
<1>5. m' \in Machines(CoreFrames, M3Saved)
  BY <1>1, <1>4, M3Facts, ZenonT(60) DEF Machines
<1>6. /\ m.cur \in Threads /\ e.irq = "pendsv" /\ e.at = "entered" /\ e.status = FALSE
      /\ e.irq \in Irqs
  BY <1>1, M3Facts DEF Contexts, Control, BeforeStart, Irqs
<1> HIDE DEF e
<1>7. StepOK /\ CMInv'
  BY <1>1, <1>2, <1>3, <1>6, M3Facts, CMEnter, Zenon DEF SameContext
<1>8. QED BY <1>1, <1>3, <1>5, <1>7, M3Facts, M3Kept

LEMMA M3Masks ==
  ASSUME Control, M3Inv, port = "cortex_m3", UNCHANGED port,
         M3!DeviceMasks \/ M3!TickBegins
  PROVE  StepOK /\ M3Inv'
<1>1. /\ m.frames # <<>> /\ UNCHANGED <<sections, live>>
      /\ Last(m.frames).irq \in {"dev", "tick"} /\ Last(m.frames).at = "entered"
      /\ m' = M3!AtStage(M3!portSET_INTERRUPT_MASK_FROM_ISR(m), "inside")
  BY DEF M3!DeviceMasks, M3!TickBegins, M3!InHandler, M3!Frame, M3!TickStarts,
         Last
<1>2. PICK n \in Nat : /\ n = Len(m.frames) /\ n > 0 /\ n \in 1..n
                       /\ m.frames[n] \in CoreFrames /\ m.frames[n] = Last(m.frames)
  BY <1>1, M3Facts, TopFrame
<1>3. PICK d \in CoreFrames : d = [m.frames[n] EXCEPT !.status = m.mask]
  BY <1>2, M3Facts, Zenon DEF CoreFrames
<1>4. PICK e \in CoreFrames : e = [d EXCEPT !.at = "inside"]
  BY Zenon DEF CoreFrames, Stages
<1>5. PICK s : s = [m.frames EXCEPT ![n] = d]
  BY Zenon
<1>6. Len(s) = n /\ s[n] = d /\ [s EXCEPT ![n] = e] = [m.frames EXCEPT ![n] = e]
      /\ [m.frames EXCEPT ![n] = e] \in Seq(CoreFrames)
  BY <1>2, <1>5, M3Facts, FrameSet
<1>7. M3!portSET_INTERRUPT_MASK_FROM_ISR(m) = [m EXCEPT !.frames = s, !.mask = TRUE]
  BY <1>2, <1>3, <1>5, Zenon DEF M3!portSET_INTERRUPT_MASK_FROM_ISR
<1>8. PICK c : c = [m EXCEPT !.frames = s, !.mask = TRUE]
  OBVIOUS
<1>9. c.frames = s
  BY <1>8, M3Facts DEF Machines
<1>10. m' = [c EXCEPT !.frames = [m.frames EXCEPT ![n] = e]]
  <2>1. m' = [c EXCEPT !.frames = [c.frames EXCEPT ![Len(c.frames)] =
                                     [c.frames[Len(c.frames)] EXCEPT !.at = "inside"]]]
    BY <1>1, <1>7, <1>8, Zenon DEF M3!AtStage
  <2>2. QED BY <2>1, <1>4, <1>6, <1>9, Zenon
<1>11. /\ m'.cur = m.cur /\ m'.regs = m.regs /\ m'.nesting = m.nesting
       /\ m'.mask = TRUE /\ m'.off = m.off /\ m'.pend = m.pend
       /\ m'.frames = [m.frames EXCEPT ![n] = e] /\ m'.saved = m.saved
  BY <1>8, <1>10, M3Facts DEF Machines
<1>12. m' \in Machines(CoreFrames, M3Saved)
  <2>1. m' = [m EXCEPT !.frames = [m.frames EXCEPT ![n] = e], !.mask = TRUE]
    BY <1>8, <1>10, M3Facts, Zenon DEF Machines
  <2>2. QED BY <2>1, <1>6, M3Facts, ZenonT(60) DEF Machines
<1>13. ~m.mask
  BY <1>1, <1>2, M3Facts, CMNoneInside DEF Inside, Depth
<1>14. /\ e.irq = m.frames[n].irq /\ e.at = "inside" /\ ~e.status
       /\ m.frames[n].irq # "high" /\ m.frames[n].at = "entered" /\ n = Depth
       /\ \A t \in Threads : m'.saved[t].regs = t
  BY <1>1, <1>2, <1>3, <1>4, <1>11, <1>13, M3Facts DEF CoreFrames, CMInv, OwnRegs, Depth
<1>15. StepOK /\ CMInv'
  BY <1>1, <1>2, <1>11, <1>14, M3Facts, CMMask
<1>16. QED BY <1>1, <1>11, <1>12, <1>15, M3Facts, M3Kept

LEMMA M3Unmasks ==
  ASSUME Control, M3Inv, port = "cortex_m3", UNCHANGED port,
         M3!DeviceUnmasks \/ M3!TickFinishes
  PROVE  StepOK /\ M3Inv'
<1>1. /\ m.frames # <<>> /\ UNCHANGED <<sections, live>>
      /\ Last(m.frames).irq \in {"dev", "tick"}
      /\ Last(m.frames).at \in {"inside", "counted"}
      /\ m' = M3!AtStage(M3!portCLEAR_INTERRUPT_MASK_FROM_ISR(m), "done")
  BY DEF M3!DeviceUnmasks, M3!TickFinishes, M3!InHandler, M3!Frame, M3!TickEnds,
         Last
<1>2. PICK n \in Nat : /\ n = Len(m.frames) /\ n > 0 /\ n \in 1..n
                       /\ m.frames[n] \in CoreFrames /\ m.frames[n] = Last(m.frames)
  BY <1>1, M3Facts, TopFrame
<1>3. n = Depth /\ m.frames[n].status = FALSE /\ Inside(n)
  BY <1>1, <1>2, M3Facts DEF CMInv, FoundUnmasked, Inside, CoreFrames, Depth
<1>4. PICK e \in CoreFrames : e = [m.frames[n] EXCEPT !.at = "done"]
  BY <1>2, Zenon DEF CoreFrames, Stages
<1>5. PICK c : c = [m EXCEPT !.mask = FALSE]
  BY Zenon
<1>6. M3!portCLEAR_INTERRUPT_MASK_FROM_ISR(m) = c
  BY <1>2, <1>3, <1>5, Zenon
     DEF M3!portCLEAR_INTERRUPT_MASK_FROM_ISR, M3!Frame, Last
<1>7. c.frames = m.frames
  BY <1>5, M3Facts DEF Machines
<1>8. m' = [c EXCEPT !.frames = [m.frames EXCEPT ![n] = e]]
  BY <1>1, <1>2, <1>4, <1>6, <1>7, Zenon DEF M3!AtStage
<1>9. /\ m'.cur = m.cur /\ m'.regs = m.regs /\ m'.nesting = m.nesting
      /\ m'.mask = FALSE /\ m'.off = m.off /\ m'.pend = m.pend
      /\ m'.frames = [m.frames EXCEPT ![n] = e] /\ m'.saved = m.saved
  BY <1>5, <1>8, M3Facts DEF Machines
<1>10. m' \in Machines(CoreFrames, M3Saved)
  <2>1. m' = [m EXCEPT !.frames = [m.frames EXCEPT ![n] = e], !.mask = FALSE]
    BY <1>5, <1>8, M3Facts, Zenon DEF Machines
  <2>2. [m.frames EXCEPT ![n] = e] \in Seq(CoreFrames)
    BY <1>2, M3Facts, FrameSet
  <2>3. QED BY <2>1, <2>2, M3Facts, ZenonT(60) DEF Machines
<1>11. /\ e.irq = m.frames[n].irq /\ e.at = "done" /\ e.status = m.frames[n].status
       /\ m.frames[n].irq # "pendsv"
  BY <1>1, <1>2, <1>4 DEF CoreFrames
<1>12. StepOK /\ CMInv'
  BY <1>1, <1>2, <1>3, <1>9, <1>11, M3Facts, CMUnmask DEF SameContext
<1>13. QED BY <1>1, <1>9, <1>10, <1>12, M3Facts, M3Kept

LEMMA M3Asks ==
  ASSUME Control, M3Inv, port = "cortex_m3", UNCHANGED port, M3!DeviceYields
  PROVE  StepOK /\ M3Inv'
<1>1. /\ m.frames # <<>> /\ UNCHANGED <<sections, live>>
      /\ Last(m.frames).irq = "dev" /\ m' = [m EXCEPT !.pend = TRUE]
  BY DEF M3!DeviceYields, M3!InHandler, M3!Frame, M3!portYIELD_FROM_ISR,
         M3!portYIELD, Last
<1>2. PICK n \in Nat : /\ n = Len(m.frames) /\ n > 0 /\ n \in 1..n
                       /\ m.frames[n] \in CoreFrames /\ m.frames[n] = Last(m.frames)
  BY <1>1, M3Facts, TopFrame
<1>3. /\ m'.cur = m.cur /\ m'.regs = m.regs /\ m'.nesting = m.nesting
      /\ m'.mask = m.mask /\ m'.off = m.off /\ m'.pend = TRUE
      /\ m'.frames = m.frames /\ m'.saved = m.saved
  BY <1>1, M3Facts DEF Machines
<1>4. m' \in Machines(CoreFrames, M3Saved)
  BY <1>1, M3Facts, ZenonT(60) DEF Machines
<1>5. Depth > 0 /\ m.frames[Depth].irq # "high"
  BY <1>1, <1>2 DEF Depth
<1>6. StepOK /\ CMInv'
  BY <1>1, <1>3, <1>5, M3Facts, CMAsk DEF SameContext
<1>7. QED BY <1>1, <1>3, <1>4, <1>6, M3Facts, M3Kept

LEMMA M3Counts ==
  ASSUME Control, M3Inv, port = "cortex_m3", UNCHANGED port, M3!TickCounts
  PROVE  StepOK /\ M3Inv'
<1>1. /\ m.frames # <<>> /\ UNCHANGED <<sections, live>>
      /\ Last(m.frames).irq = "tick" /\ Last(m.frames).at = "inside"
      /\ \/ m' = M3!AtStage(m, "counted")
         \/ m' = M3!AtStage([m EXCEPT !.pend = TRUE], "counted")
  BY DEF M3!TickCounts, M3!InHandler, M3!Frame, M3!TickWantsSwitch, Last
<1>2. PICK n \in Nat : /\ n = Len(m.frames) /\ n > 0 /\ n \in 1..n
                       /\ m.frames[n] \in CoreFrames /\ m.frames[n] = Last(m.frames)
  BY <1>1, M3Facts, TopFrame
<1>3. PICK p \in BOOLEAN : /\ p = m.pend \/ p = TRUE
                           /\ m' = M3!AtStage([m EXCEPT !.pend = p], "counted")
  <2>1. m = [m EXCEPT !.pend = m.pend] /\ m.pend \in BOOLEAN
    BY M3Facts DEF Machines
  <2>2. QED BY <1>1, <2>1, Zenon
<1>4. PICK e \in CoreFrames : e = [m.frames[n] EXCEPT !.at = "counted"]
  BY <1>2, Zenon DEF CoreFrames, Stages
<1>5. PICK c : c = [m EXCEPT !.pend = p]
  BY Zenon
<1>6. c.frames = m.frames
  BY <1>5, M3Facts DEF Machines
<1>7. m' = [c EXCEPT !.frames = [m.frames EXCEPT ![n] = e]]
  BY <1>2, <1>3, <1>4, <1>5, <1>6, Zenon DEF M3!AtStage
<1>8. /\ m'.cur = m.cur /\ m'.regs = m.regs /\ m'.nesting = m.nesting
      /\ m'.mask = m.mask /\ m'.off = m.off /\ m'.pend = p
      /\ m'.frames = [m.frames EXCEPT ![n] = e] /\ m'.saved = m.saved
  BY <1>5, <1>7, M3Facts DEF Machines
<1>9. m' \in Machines(CoreFrames, M3Saved)
  <2>1. m' = [m EXCEPT !.frames = [m.frames EXCEPT ![n] = e], !.pend = p]
    BY <1>5, <1>7, M3Facts, Zenon DEF Machines
  <2>2. [m.frames EXCEPT ![n] = e] \in Seq(CoreFrames)
    BY <1>2, M3Facts, FrameSet
  <2>3. QED BY <2>1, <2>2, M3Facts, ZenonT(60) DEF Machines
<1>10. /\ e.irq = m.frames[n].irq /\ e.at = "counted" /\ e.status = m.frames[n].status
       /\ m.frames[n].irq = "tick" /\ n = Depth /\ Inside(n)
  BY <1>1, <1>2, <1>4 DEF CoreFrames, Inside, Depth
<1>11. StepOK /\ CMInv'
  BY <1>1, <1>2, <1>3, <1>8, <1>10, M3Facts, CMCount, Zenon DEF SameContext
<1>12. QED BY <1>1, <1>8, <1>9, <1>11, M3Facts, M3Kept

LEMMA M3Returns ==
  ASSUME Control, M3Inv, port = "cortex_m3", UNCHANGED port, M3!HandlerReturns
  PROVE  StepOK /\ M3Inv'
<1>1. /\ m.frames # <<>> /\ UNCHANGED <<sections, live>>
      /\ Last(m.frames).irq # "pendsv" /\ Last(m.frames).at \in {"entered", "done"}
      /\ m' = [m EXCEPT !.frames = Front(m.frames)]
  BY DEF M3!HandlerReturns, M3!InHandler, M3!Frame, M3!LeaveHandler, M3!Pop,
         Last, Front
<1>2. PICK n \in Nat : n + 1 = Depth /\ m.frames[n + 1] = Last(m.frames)
  <2>1. PICK k \in Nat : k = Len(m.frames) /\ k > 0 /\ m.frames[k] = Last(m.frames)
    BY <1>1, M3Facts, TopFrame
  <2>2. k - 1 \in Nat /\ (k - 1) + 1 = k
    BY <2>1
  <2>3. QED BY <2>1, <2>2 DEF Depth
<1>3. /\ m'.cur = m.cur /\ m'.regs = m.regs /\ m'.nesting = m.nesting
      /\ m'.mask = m.mask /\ m'.off = m.off /\ m'.pend = m.pend
      /\ m'.frames = Front(m.frames) /\ m'.saved = m.saved
  BY <1>1, M3Facts DEF Machines
<1>4. m' \in Machines(CoreFrames, M3Saved)
  <2>1. Front(m.frames) \in Seq(CoreFrames)
    BY <1>2, M3Facts, FrontFacts, Zenon DEF Depth
  <2>2. QED BY <1>1, <2>1, M3Facts, ZenonT(60) DEF Machines
<1>5. m.frames[n + 1].irq # "pendsv" /\ ~Inside(n + 1)
  BY <1>1, <1>2 DEF Inside
<1>6. StepOK /\ CMInv'
  BY <1>1, <1>2, <1>3, <1>5, M3Facts, CMReturn
<1>7. QED BY <1>1, <1>3, <1>4, <1>6, M3Facts, M3Kept

\* PendSV at a stage of its own, with the machine it leads to.
LEMMA M3PendSV ==
  ASSUME Control, M3Inv, port = "cortex_m3", M3!SwitchSteps
  PROVE  /\ m.frames # <<>> /\ UNCHANGED <<sections, live>>
         /\ Last(m.frames).irq = "pendsv"
         /\ \/ /\ Last(m.frames).at = "entered"
               /\ m' = M3!AtStage([m EXCEPT !.saved[m.cur] = [regs |-> m.regs],
                                       !.mask = TRUE], "inside")
            \/ /\ Last(m.frames).at = "inside"
               /\ \E t \in Threads : m' = M3!AtStage([m EXCEPT !.cur = t], "switched")
            \/ /\ Last(m.frames).at = "switched"
               /\ m' = M3!AtStage([m EXCEPT !.mask = FALSE], "done")
            \/ /\ Last(m.frames).at = "done"
               /\ m' = M3!Pop([m EXCEPT !.regs = m.saved[m.cur].regs])
<1>1. /\ m.frames # <<>> /\ UNCHANGED <<sections, live>>
      /\ Last(m.frames).irq = "pendsv"
      /\ Last(m.frames).at \in {"entered", "inside", "switched", "done"}
      /\ m' \in M3!xPortPendSVHandler(m)
  BY DEF M3!SwitchSteps, M3!InHandler, M3!Frame, Last
<1>2. CASE Last(m.frames).at = "entered"
  BY <1>1, <1>2 DEF M3!xPortPendSVHandler, M3!Frame, Last
<1>3. CASE Last(m.frames).at = "inside"
  BY <1>1, <1>3 DEF M3!xPortPendSVHandler, M3!SwitchContext, M3!Frame, Last
<1>4. CASE Last(m.frames).at = "switched"
  BY <1>1, <1>4 DEF M3!xPortPendSVHandler, M3!Frame, Last
<1>5. CASE Last(m.frames).at = "done"
  BY <1>1, <1>5 DEF M3!xPortPendSVHandler, M3!Frame, Last
<1>6. QED BY <1>1, <1>2, <1>3, <1>4, <1>5

LEMMA M3Switches ==
  ASSUME Control, M3Inv, port = "cortex_m3", UNCHANGED port, M3!SwitchSteps
  PROVE  StepOK /\ M3Inv'
<1>1. m.frames # <<>> /\ UNCHANGED <<sections, live>> /\ Last(m.frames).irq = "pendsv"
  BY M3PendSV
<1>2. PICK n \in Nat : /\ n = Len(m.frames) /\ n > 0 /\ n \in 1..n
                       /\ m.frames[n] \in CoreFrames /\ m.frames[n] = Last(m.frames)
  BY <1>1, M3Facts, TopFrame
<1>3. n = Depth /\ n = 1 /\ m.cur \in Threads /\ m.frames[n].irq = "pendsv"
  <2>1. n = Depth
    BY <1>2 DEF Depth
  <2>2. QED BY <1>1, <1>2, <2>1, M3Facts DEF Control, FramesOK, BeforeStart, Contexts
<1>4. ASSUME NEW stage \in Stages, NEW c \in Machines(CoreFrames, M3Saved),
             c.frames = m.frames, m' = M3!AtStage(c, stage), ~c.off
      PROVE  \E e \in CoreFrames :
               /\ e.irq = m.frames[n].irq /\ e.at = stage
               /\ e.status = m.frames[n].status
               /\ m'.cur = c.cur /\ m'.regs = c.regs /\ m'.nesting = c.nesting
               /\ m'.mask = c.mask /\ m'.pend = c.pend /\ m'.saved = c.saved
               /\ m'.frames = [m.frames EXCEPT ![n] = e]
               /\ m' \in Machines(CoreFrames, M3Saved) /\ ~m'.off
  <2>1. PICK e \in CoreFrames : e = [m.frames[n] EXCEPT !.at = stage]
    BY <1>2, Zenon DEF CoreFrames
  <2>2. m' = [c EXCEPT !.frames = [m.frames EXCEPT ![n] = e]]
    BY <1>2, <1>4, <2>1, Zenon DEF M3!AtStage
  <2>3. [m.frames EXCEPT ![n] = e] \in Seq(CoreFrames)
    BY <1>2, M3Facts, FrameSet
  <2>4. m' \in Machines(CoreFrames, M3Saved)
    BY <1>4, <2>2, <2>3, ZenonT(60) DEF Machines
  <2>5. /\ m'.cur = c.cur /\ m'.regs = c.regs /\ m'.nesting = c.nesting
        /\ m'.mask = c.mask /\ m'.pend = c.pend /\ m'.saved = c.saved
        /\ m'.frames = [m.frames EXCEPT ![n] = e] /\ m'.off = c.off
    BY <1>4, <2>2 DEF Machines
  <2>6. e.irq = m.frames[n].irq /\ e.at = stage /\ e.status = m.frames[n].status
    BY <1>2, <2>1 DEF CoreFrames
  <2>7. QED BY <1>4, <2>4, <2>5, <2>6, Zenon
<1>5. CASE /\ m.frames[n].at = "entered"
           /\ m' = M3!AtStage([m EXCEPT !.saved[m.cur] = [regs |-> m.regs],
                                   !.mask = TRUE], "inside")
  <2>1. m.regs = m.cur
    BY <1>2, <1>3, <1>5, M3Facts DEF CMInv, OwnRegs, Switching
  <2>2. PICK s : s = [m.saved EXCEPT ![m.cur] = [regs |-> m.regs]]
    BY Zenon
  <2>3. s \in [Threads -> M3Saved] /\ \A t \in Threads : s[t].regs = t
    BY <1>3, <2>1, <2>2, M3Facts DEF CMInv, OwnRegs, M3Saved
  <2>4. PICK c : c = [m EXCEPT !.saved = s, !.mask = TRUE]
    OBVIOUS
  <2>5. m' = M3!AtStage(c, "inside")
    BY <1>5, <2>2, <2>4, Zenon
  <2>6. /\ c.cur = m.cur /\ c.regs = m.regs /\ c.nesting = m.nesting
        /\ c.mask = TRUE /\ c.pend = m.pend /\ c.saved = s /\ c.frames = m.frames
        /\ ~c.off
    BY <2>4, M3Facts DEF Machines
  <2>7. c \in Machines(CoreFrames, M3Saved)
    BY <2>3, <2>4, M3Facts, ZenonT(60) DEF Machines
  <2>8. PICK e \in CoreFrames :
               /\ e.irq = m.frames[n].irq /\ e.at = "inside"
               /\ e.status = m.frames[n].status
               /\ m'.cur = c.cur /\ m'.regs = c.regs /\ m'.nesting = c.nesting
               /\ m'.mask = c.mask /\ m'.pend = c.pend /\ m'.saved = c.saved
               /\ m'.frames = [m.frames EXCEPT ![n] = e]
               /\ m' \in Machines(CoreFrames, M3Saved) /\ ~m'.off
    BY <1>4, <2>5, <2>6, <2>7, Zenon DEF Stages
  <2>9. ~e.status
    BY <1>2, <1>3, <2>8, M3Facts DEF CMInv, FoundUnmasked
  <2>10. \A t \in Threads : m'.saved[t].regs = t
    BY <2>3, <2>6, <2>8
  <2>11. StepOK /\ CMInv'
    BY <1>1, <1>2, <1>3, <1>5, <2>6, <2>8, <2>9, <2>10, M3Facts, CMMask
  <2>12. QED BY <1>1, <2>8, <2>11, M3Facts, M3Kept
<1>6. CASE /\ m.frames[n].at = "inside"
           /\ \E t \in Threads : m' = M3!AtStage([m EXCEPT !.cur = t], "switched")
  <2>1. PICK t \in Threads : m' = M3!AtStage([m EXCEPT !.cur = t], "switched")
    BY <1>6
  <2>2. PICK c : c = [m EXCEPT !.cur = t]
    BY Zenon
  <2>3. /\ c.cur = t /\ c.regs = m.regs /\ c.nesting = m.nesting
        /\ c.mask = m.mask /\ c.pend = m.pend /\ c.saved = m.saved
        /\ c.frames = m.frames /\ ~c.off
    BY <2>2, M3Facts DEF Machines
  <2>4. c \in Machines(CoreFrames, M3Saved)
    BY <2>2, M3Facts, ZenonT(60) DEF Machines
  <2>5. PICK e \in CoreFrames :
               /\ e.irq = m.frames[n].irq /\ e.at = "switched"
               /\ e.status = m.frames[n].status
               /\ m'.cur = c.cur /\ m'.regs = c.regs /\ m'.nesting = c.nesting
               /\ m'.mask = c.mask /\ m'.pend = c.pend /\ m'.saved = c.saved
               /\ m'.frames = [m.frames EXCEPT ![n] = e]
               /\ m' \in Machines(CoreFrames, M3Saved) /\ ~m'.off
    BY <1>4, <2>1, <2>2, <2>3, <2>4, Zenon DEF Stages
  <2>6. StepOK /\ CMInv'
    BY <1>1, <1>2, <1>3, <1>6, <2>3, <2>5, M3Facts, CMPick
  <2>7. QED BY <1>1, <2>5, <2>6, M3Facts, M3Kept
<1>7. CASE /\ m.frames[n].at = "switched"
           /\ m' = M3!AtStage([m EXCEPT !.mask = FALSE], "done")
  <2>2. PICK c : c = [m EXCEPT !.mask = FALSE]
    BY Zenon
  <2>3. /\ c.cur = m.cur /\ c.regs = m.regs /\ c.nesting = m.nesting
        /\ c.mask = FALSE /\ c.pend = m.pend /\ c.saved = m.saved
        /\ c.frames = m.frames /\ ~c.off
    BY <2>2, M3Facts DEF Machines
  <2>4. c \in Machines(CoreFrames, M3Saved)
    BY <2>2, M3Facts, ZenonT(60) DEF Machines
  <2>5. PICK e \in CoreFrames :
               /\ e.irq = m.frames[n].irq /\ e.at = "done"
               /\ e.status = m.frames[n].status
               /\ m'.cur = c.cur /\ m'.regs = c.regs /\ m'.nesting = c.nesting
               /\ m'.mask = c.mask /\ m'.pend = c.pend /\ m'.saved = c.saved
               /\ m'.frames = [m.frames EXCEPT ![n] = e]
               /\ m' \in Machines(CoreFrames, M3Saved) /\ ~m'.off
    BY <1>4, <1>7, <2>2, <2>3, <2>4, Zenon DEF Stages
  <2>6. Inside(n)
    BY <1>7 DEF Inside
  <2>7. StepOK /\ CMInv'
    <3>1. SameContext /\ m'.pend = m.pend /\ ~Masked'
      BY <2>3, <2>5, M3Facts DEF SameContext
    <3>2. /\ e.irq = m.frames[n].irq /\ e.at = "done" /\ e.status = m.frames[n].status
          /\ m.frames[n].irq = "pendsv" => m.frames[n].at = "switched"
          /\ n = Depth /\ m'.frames = [m.frames EXCEPT ![n] = e]
      BY <1>3, <1>7, <2>5
    <3>3. QED BY <1>1, <1>2, <2>6, <3>1, <3>2, M3Facts, CMUnmask, Zenon
  <2>8. QED BY <1>1, <2>5, <2>7, M3Facts, M3Kept
<1>8. CASE /\ m.frames[n].at = "done"
           /\ m' = M3!Pop([m EXCEPT !.regs = m.saved[m.cur].regs])
  <2>1. PICK r \in Contexts : r = m.saved[m.cur].regs
    BY <1>3, M3Facts DEF M3Saved
  <2>2. m' = [m EXCEPT !.regs = r, !.frames = Front(m.frames)]
    BY <1>8, <2>1, M3Facts DEF M3!Pop, Front, Machines
  <2>3. /\ m'.cur = m.cur /\ m'.regs = r /\ m'.nesting = m.nesting
        /\ m'.mask = m.mask /\ m'.off = m.off /\ m'.pend = m.pend
        /\ m'.frames = Front(m.frames) /\ m'.saved = m.saved
    BY <2>2, M3Facts DEF Machines
  <2>4. Depth = 0 + 1 /\ 0 \in Nat /\ m.frames[0 + 1].irq = "pendsv"
        /\ m.frames[0 + 1].at = "done" /\ m'.regs = m.saved[m.cur].regs
    BY <1>3, <1>8, <2>1, <2>3
  <2>5. m' \in Machines(CoreFrames, M3Saved)
    <3>1. Front(m.frames) \in Seq(CoreFrames)
      BY <2>4, M3Facts, FrontFacts, Zenon DEF Depth
    <3>2. QED BY <2>2, <3>1, M3Facts, ZenonT(60) DEF Machines
  <2>6. StepOK /\ CMInv'
    BY <1>1, <2>3, <2>4, M3Facts, CMReturn
  <2>7. QED BY <1>1, <2>3, <2>5, <2>6, M3Facts, M3Kept
<1>9. QED BY <1>2, <1>5, <1>6, <1>7, <1>8, M3PendSV, Zenon

LEMMA M3Step ==
  ASSUME Control, M3Inv, port = "cortex_m3", UNCHANGED port, M3!PortNext
  PROVE  StepOK /\ M3Inv'
<1>1. ASSUME NEW t \in Threads, M3!StartScheduler(t)
      PROVE  StepOK /\ M3Inv'
  BY <1>1, M3Start
<1>2. ASSUME NEW i \in Interrupts, M3!Interrupted(i)
      PROVE  StepOK /\ M3Inv'
  BY <1>2, M3Interrupted
<1>3. \/ M3!EnterSection \/ M3!LeaveSection \/ M3!Yield \/ M3!RegisterFpu
      \/ M3!TaskUsesFpu \/ M3!HandlerUsesFpu \/ M3!DeviceMasks
      \/ M3!DeviceUnmasks \/ M3!DeviceYields \/ M3!TickBegins \/ M3!TickCounts
      \/ M3!TickFinishes \/ M3!HandlerReturns \/ M3!SwitchInterrupts
      \/ M3!SwitchSteps
      \/ (\E t \in Threads : M3!StartScheduler(t))
      \/ (\E i \in Interrupts : M3!Interrupted(i))
  BY Zenon DEF M3!PortNext, M3!Interrupts, Interrupts
<1>4. QED
  BY <1>1, <1>2, <1>3, M3Enter, M3Leave, M3Yield, M3Unit, M3SwitchTaken, M3Masks,
     M3Unmasks, M3Asks, M3Counts, M3Returns, M3Switches

M0Saved == [regs : Contexts]

LEMMA M0Facts ==
  ASSUME Control, M0Inv, port = "cortex_m0", UNCHANGED port
  PROVE  /\ m \in Machines(CoreFrames, M0Saved) /\ CortexM /\ CMInv
         /\ m.frames \in Seq(CoreFrames) /\ m.nesting \in Int /\ m.off \in BOOLEAN
         /\ m.saved \in [Threads -> M0Saved] /\ m.cur \in Contexts /\ m.regs \in Contexts
         /\ ~m.mask /\ live = {} /\ (Masked <=> m.off) /\ (Masked' <=> m'.off)
         /\ main \notin Threads /\ main \in Contexts /\ Threads \subseteq Contexts
<1>1. m \in Machines(CoreFrames, M0Saved)
  BY DEF M0Inv, M0Saved
<1>2. /\ m.frames \in Seq(CoreFrames) /\ m.nesting \in Int /\ m.off \in BOOLEAN
      /\ m.saved \in [Threads -> M0Saved] /\ m.cur \in Contexts /\ m.regs \in Contexts
  BY <1>1 DEF Machines
<1>3. QED
  BY <1>1, <1>2, PortsAssumption DEF M0Inv, CMInv, CortexM, Masked, Contexts

LEMMA M0Kept ==
  ASSUME m' \in Machines(CoreFrames, M0Saved), ~m'.mask, live' = {}, StepOK, CMInv'
  PROVE  StepOK /\ M0Inv'
BY DEF M0Inv, CMInv, M0Saved

LEMMA M0Enter ==
  ASSUME Control, M0Inv, port = "cortex_m0", UNCHANGED port, M0!EnterSection
  PROVE  StepOK /\ M0Inv'
<1>1. /\ m' = [m EXCEPT !.off = TRUE, !.nesting = m.nesting + 1]
      /\ sections' = [sections EXCEPT ![m.cur] = @ + 1] /\ UNCHANGED live
      /\ m.frames = <<>> /\ ~(m.pend /\ ~m.off)
  BY DEF M0!EnterSection, M0!TaskRuns, M0!SwitchTaken, M0!portENTER_CRITICAL,
         M0!portDISABLE_INTERRUPTS
<1>2. /\ m'.cur = m.cur /\ m'.regs = m.regs /\ m'.nesting = m.nesting + 1
      /\ m'.off = TRUE /\ m'.mask = m.mask /\ m'.pend = m.pend
      /\ m'.frames = m.frames /\ m'.saved = m.saved
  BY <1>1, M0Facts DEF Machines
<1>3. m.nesting + 1 \in Int
  BY M0Facts
<1>4. m' \in Machines(CoreFrames, M0Saved)
  BY <1>1, <1>3, M0Facts, ZenonT(60) DEF Machines
<1>5. StepOK /\ CMInv'
  BY <1>1, <1>2, M0Facts, CMSection
<1>6. QED BY <1>1, <1>2, <1>4, <1>5, M0Facts, M0Kept

LEMMA M0Leave ==
  ASSUME Control, M0Inv, port = "cortex_m0", UNCHANGED port, M0!LeaveSection
  PROVE  StepOK /\ M0Inv'
<1>1. /\ m' = M0!portEXIT_CRITICAL(m)
      /\ sections' = [sections EXCEPT ![m.cur] = @ - 1] /\ UNCHANGED live
      /\ m.frames = <<>> /\ ~(m.pend /\ ~m.off) /\ sections[m.cur] > 0
  BY DEF M0!LeaveSection, M0!TaskRuns, M0!SwitchTaken
<1>2. PICK left : left = [m EXCEPT !.nesting = m.nesting - 1]
  BY Zenon
<1>3. m' = IF left.nesting = 0 THEN [left EXCEPT !.off = FALSE] ELSE left
  BY <1>1, <1>2, Zenon DEF M0!portEXIT_CRITICAL, M0!portENABLE_INTERRUPTS
<1>4. m.nesting - 1 \in Int
  BY M0Facts
<1>5. left \in Machines(CoreFrames, M0Saved)
  BY <1>2, <1>4, M0Facts, ZenonT(60) DEF Machines
<1>6. /\ left.cur = m.cur /\ left.regs = m.regs /\ left.nesting = m.nesting - 1
      /\ left.off = m.off /\ left.mask = m.mask /\ left.pend = m.pend
      /\ left.frames = m.frames /\ left.saved = m.saved
  BY <1>2, M0Facts DEF Machines
<1>7. /\ m'.cur = m.cur /\ m'.regs = m.regs /\ m'.nesting = m.nesting - 1
      /\ m'.mask = m.mask /\ m'.pend = m.pend
      /\ m'.frames = m.frames /\ m'.saved = m.saved
      /\ m.nesting = 1 => ~m'.off
      /\ m.nesting # 1 => (m'.off <=> m.off)
  <2>1. CASE m.nesting = 1
    <3>1. m' = [left EXCEPT !.off = FALSE]
      BY <2>1, <1>3, <1>6
    <3>2. QED BY <2>1, <3>1, <1>5, <1>6 DEF Machines
  <2>2. CASE m.nesting # 1
    <3>1. left.nesting # 0
      BY <2>2, <1>6, M0Facts
    <3>2. m' = left
      BY <3>1, <1>3
    <3>3. QED BY <2>2, <3>2, <1>6
  <2>3. QED BY <2>1, <2>2
<1>8. m' \in Machines(CoreFrames, M0Saved)
  <2>1. [left EXCEPT !.off = FALSE] \in Machines(CoreFrames, M0Saved)
    BY <1>5, ZenonT(60) DEF Machines
  <2>2. QED BY <1>3, <1>5, <2>1
<1>9. StepOK /\ CMInv'
  BY <1>1, <1>7, M0Facts, CMSection
<1>10. QED BY <1>1, <1>7, <1>8, <1>9, M0Facts, M0Kept

LEMMA M0Start ==
  ASSUME Control, M0Inv, port = "cortex_m0", UNCHANGED port,
         NEW t \in Threads, M0!StartScheduler(t)
  PROVE  StepOK /\ M0Inv'
<1>1. m.cur = main /\ UNCHANGED <<sections, live>>
  BY DEF M0!StartScheduler
<1>2. /\ m'.cur = t /\ m'.nesting = 0 /\ m'.off = FALSE /\ m'.mask = m.mask
      /\ m'.regs = m.saved[t].regs /\ m'.pend = m.pend
      /\ m'.frames = m.frames /\ m'.saved = m.saved
  BY M0Facts DEF M0!StartScheduler, M0!xPortStartScheduler, M0!prvPortStartFirstTask,
       M0!vRestoreContextOfFirstTask, M0!portDISABLE_INTERRUPTS, Machines
<1>3. PICK r \in Contexts : r = m.saved[t].regs
  BY M0Facts DEF M0Saved
<1>4. m' = [m EXCEPT !.off = FALSE, !.cur = t, !.nesting = 0, !.regs = r]
  BY <1>3, M0Facts, Zenon DEF M0!StartScheduler, M0!xPortStartScheduler, M0!prvPortStartFirstTask,
       M0!vRestoreContextOfFirstTask, M0!portDISABLE_INTERRUPTS, Machines
<1>5. t \in Contexts /\ 0 \in Int
  BY M0Facts
<1>6. m' \in Machines(CoreFrames, M0Saved)
  BY <1>4, <1>5, M0Facts, ZenonT(60) DEF Machines
<1>7. StepOK /\ CMInv'
  BY <1>1, <1>2, M0Facts, CMStart
<1>8. QED BY <1>1, <1>2, <1>6, <1>7, M0Facts, M0Kept

LEMMA M0Yield ==
  ASSUME Control, M0Inv, port = "cortex_m0", UNCHANGED port, M0!Yield
  PROVE  StepOK /\ M0Inv'
<1>1. /\ m' = [m EXCEPT !.pend = TRUE] /\ UNCHANGED <<sections, live>>
      /\ m.frames = <<>> /\ ~(m.pend /\ ~m.off) /\ m.cur # main
  BY DEF M0!Yield, M0!TaskRuns, M0!SwitchTaken, M0!portYIELD
<1>2. /\ m'.cur = m.cur /\ m'.regs = m.regs /\ m'.nesting = m.nesting
      /\ m'.off = m.off /\ m'.mask = m.mask /\ m'.pend = TRUE
      /\ m'.frames = m.frames /\ m'.saved = m.saved
  BY <1>1, M0Facts DEF Machines
<1>3. m' \in Machines(CoreFrames, M0Saved)
  BY <1>1, M0Facts, ZenonT(60) DEF Machines
<1>4. m.cur \in Threads
  BY <1>1, M0Facts DEF Contexts
<1>5. StepOK /\ CMInv'
  BY <1>1, <1>2, <1>4, M0Facts, CMYield
<1>6. QED BY <1>1, <1>2, <1>3, <1>5, M0Facts, M0Kept

\* Registering and using the unit are nothing here.
LEMMA M0Unit ==
  ASSUME Control, M0Inv, port = "cortex_m0", UNCHANGED port,
         M0!RegisterFpu \/ M0!TaskUsesFpu \/ M0!HandlerUsesFpu
  PROVE  StepOK /\ M0Inv'
<1>1. m' = m /\ UNCHANGED <<sections, live>>
  BY DEF M0!RegisterFpu, M0!TaskUsesFpu, M0!HandlerUsesFpu, M0!FpuAllowed,
         M0!vPortTaskUsesFPU
<1>2. /\ SameContext /\ m'.frames = m.frames /\ m'.pend = m.pend
      /\ m'.frames \in Seq(CoreFrames) /\ Masked' = Masked
  BY <1>1, M0Facts DEF SameContext, Masked
<1>3. StepOK /\ CMInv'
  BY <1>1, <1>2, M0Facts, CMQuiet
<1>4. QED BY <1>1, <1>3, M0Facts, M0Kept

LEMMA M0Interrupted ==
  ASSUME Control, M0Inv, port = "cortex_m0", UNCHANGED port,
         NEW i \in Interrupts, M0!Interrupted(i)
  PROVE  StepOK /\ M0Inv'
<1> DEFINE e == [irq |-> i, at |-> "entered", status |-> FALSE]
<1>1. /\ m.cur # main /\ ~m.off /\ UNCHANGED <<sections, live>>
      /\ m' = [m EXCEPT !.frames = Append(m.frames, e)]
  BY DEF M0!Interrupted, M0!Takes, M0!EnterHandler, M0!Push
<1>2. e \in CoreFrames /\ i \in Irqs /\ i # "pendsv"
  BY DEF CoreFrames, Interrupts, Irqs, Stages
<1>3. /\ m'.cur = m.cur /\ m'.regs = m.regs /\ m'.nesting = m.nesting
      /\ m'.off = m.off /\ m'.mask = m.mask /\ m'.pend = m.pend
      /\ m'.frames = Append(m.frames, e) /\ m'.saved = m.saved
  BY <1>1, M0Facts DEF Machines
<1>4. Append(m.frames, e) \in Seq(CoreFrames)
  BY <1>2, M0Facts, AppendProperties
<1>5. m' \in Machines(CoreFrames, M0Saved)
  BY <1>1, <1>4, M0Facts, ZenonT(60) DEF Machines
<1>6. m.cur \in Threads /\ e.irq = i /\ e.at = "entered" /\ e.status = FALSE
  BY <1>1, M0Facts DEF Contexts
<1> HIDE DEF e
<1>7. StepOK /\ CMInv'
  BY <1>1, <1>2, <1>3, <1>6, M0Facts, CMEnter, Zenon DEF SameContext
<1>8. QED BY <1>1, <1>3, <1>5, <1>7, M0Facts, M0Kept

LEMMA M0SwitchTaken ==
  ASSUME Control, M0Inv, port = "cortex_m0", UNCHANGED port, M0!SwitchInterrupts
  PROVE  StepOK /\ M0Inv'
<1> DEFINE e == [irq |-> "pendsv", at |-> "entered", status |-> FALSE]
<1>1. /\ m.pend /\ ~m.off /\ m.frames = <<>> /\ UNCHANGED <<sections, live>>
      /\ m' = [m EXCEPT !.frames = Append(m.frames, e), !.pend = FALSE]
  BY DEF M0!SwitchInterrupts, M0!SwitchTaken, M0!EnterHandler, M0!Push
<1>2. e \in CoreFrames
  BY DEF CoreFrames, Irqs, Stages
<1>3. /\ m'.cur = m.cur /\ m'.regs = m.regs /\ m'.nesting = m.nesting
      /\ m'.off = m.off /\ m'.mask = m.mask /\ m'.pend = FALSE
      /\ m'.frames = Append(m.frames, e) /\ m'.saved = m.saved
  BY <1>1, M0Facts, Zenon DEF Machines
<1>4. Append(m.frames, e) \in Seq(CoreFrames)
  BY <1>2, M0Facts, AppendProperties
<1>5. m' \in Machines(CoreFrames, M0Saved)
  BY <1>1, <1>4, M0Facts, ZenonT(60) DEF Machines
<1>6. /\ m.cur \in Threads /\ e.irq = "pendsv" /\ e.at = "entered" /\ e.status = FALSE
      /\ e.irq \in Irqs
  BY <1>1, M0Facts DEF Contexts, Control, BeforeStart, Irqs
<1> HIDE DEF e
<1>7. StepOK /\ CMInv'
  BY <1>1, <1>2, <1>3, <1>6, M0Facts, CMEnter, Zenon DEF SameContext
<1>8. QED BY <1>1, <1>3, <1>5, <1>7, M0Facts, M0Kept

LEMMA M0Masks ==
  ASSUME Control, M0Inv, port = "cortex_m0", UNCHANGED port,
         M0!DeviceMasks \/ M0!TickBegins
  PROVE  StepOK /\ M0Inv'
<1>1. /\ m.frames # <<>> /\ UNCHANGED <<sections, live>>
      /\ Last(m.frames).irq \in {"dev", "tick"} /\ Last(m.frames).at = "entered"
      /\ m' = M0!AtStage(M0!portSET_INTERRUPT_MASK_FROM_ISR(m), "inside")
  BY DEF M0!DeviceMasks, M0!TickBegins, M0!InHandler, M0!Frame, M0!TickStarts,
         Last
<1>2. PICK n \in Nat : /\ n = Len(m.frames) /\ n > 0 /\ n \in 1..n
                       /\ m.frames[n] \in CoreFrames /\ m.frames[n] = Last(m.frames)
  BY <1>1, M0Facts, TopFrame
<1>3. PICK d \in CoreFrames : d = [m.frames[n] EXCEPT !.status = m.off]
  BY <1>2, M0Facts, Zenon DEF CoreFrames
<1>4. PICK e \in CoreFrames : e = [d EXCEPT !.at = "inside"]
  BY Zenon DEF CoreFrames, Stages
<1>5. PICK s : s = [m.frames EXCEPT ![n] = d]
  BY Zenon
<1>6. Len(s) = n /\ s[n] = d /\ [s EXCEPT ![n] = e] = [m.frames EXCEPT ![n] = e]
      /\ [m.frames EXCEPT ![n] = e] \in Seq(CoreFrames)
  BY <1>2, <1>5, M0Facts, FrameSet
<1>7. M0!portSET_INTERRUPT_MASK_FROM_ISR(m) = [m EXCEPT !.frames = s, !.off = TRUE]
  BY <1>2, <1>3, <1>5, Zenon DEF M0!portSET_INTERRUPT_MASK_FROM_ISR
<1>8. PICK c : c = [m EXCEPT !.frames = s, !.off = TRUE]
  OBVIOUS
<1>9. c.frames = s
  BY <1>8, M0Facts DEF Machines
<1>10. m' = [c EXCEPT !.frames = [m.frames EXCEPT ![n] = e]]
  <2>1. m' = [c EXCEPT !.frames = [c.frames EXCEPT ![Len(c.frames)] =
                                     [c.frames[Len(c.frames)] EXCEPT !.at = "inside"]]]
    BY <1>1, <1>7, <1>8, Zenon DEF M0!AtStage
  <2>2. QED BY <2>1, <1>4, <1>6, <1>9, Zenon
<1>11. /\ m'.cur = m.cur /\ m'.regs = m.regs /\ m'.nesting = m.nesting
       /\ m'.off = TRUE /\ m'.mask = m.mask /\ m'.pend = m.pend
       /\ m'.frames = [m.frames EXCEPT ![n] = e] /\ m'.saved = m.saved
  BY <1>8, <1>10, M0Facts DEF Machines
<1>12. m' \in Machines(CoreFrames, M0Saved)
  <2>1. m' = [m EXCEPT !.frames = [m.frames EXCEPT ![n] = e], !.off = TRUE]
    BY <1>8, <1>10, M0Facts, Zenon DEF Machines
  <2>2. QED BY <2>1, <1>6, M0Facts, ZenonT(60) DEF Machines
<1>13. ~m.off
  BY <1>1, <1>2, M0Facts, CMNoneInside DEF Inside, Depth
<1>14. /\ e.irq = m.frames[n].irq /\ e.at = "inside" /\ ~e.status
       /\ m.frames[n].irq # "high" /\ m.frames[n].at = "entered" /\ n = Depth
       /\ \A t \in Threads : m'.saved[t].regs = t
  BY <1>1, <1>2, <1>3, <1>4, <1>11, <1>13, M0Facts DEF CoreFrames, CMInv, OwnRegs, Depth
<1>15. StepOK /\ CMInv'
  BY <1>1, <1>2, <1>11, <1>14, M0Facts, CMMask
<1>16. QED BY <1>1, <1>11, <1>12, <1>15, M0Facts, M0Kept

LEMMA M0Unmasks ==
  ASSUME Control, M0Inv, port = "cortex_m0", UNCHANGED port,
         M0!DeviceUnmasks \/ M0!TickFinishes
  PROVE  StepOK /\ M0Inv'
<1>1. /\ m.frames # <<>> /\ UNCHANGED <<sections, live>>
      /\ Last(m.frames).irq \in {"dev", "tick"}
      /\ Last(m.frames).at \in {"inside", "counted"}
      /\ m' = M0!AtStage(M0!portCLEAR_INTERRUPT_MASK_FROM_ISR(m), "done")
  BY DEF M0!DeviceUnmasks, M0!TickFinishes, M0!InHandler, M0!Frame, M0!TickEnds,
         Last
<1>2. PICK n \in Nat : /\ n = Len(m.frames) /\ n > 0 /\ n \in 1..n
                       /\ m.frames[n] \in CoreFrames /\ m.frames[n] = Last(m.frames)
  BY <1>1, M0Facts, TopFrame
<1>3. n = Depth /\ m.frames[n].status = FALSE /\ Inside(n)
  BY <1>1, <1>2, M0Facts DEF CMInv, FoundUnmasked, Inside, CoreFrames, Depth
<1>4. PICK e \in CoreFrames : e = [m.frames[n] EXCEPT !.at = "done"]
  BY <1>2, Zenon DEF CoreFrames, Stages
<1>5. PICK c : c = [m EXCEPT !.off = FALSE]
  BY Zenon
<1>6. M0!portCLEAR_INTERRUPT_MASK_FROM_ISR(m) = c
  BY <1>2, <1>3, <1>5, Zenon
     DEF M0!portCLEAR_INTERRUPT_MASK_FROM_ISR, M0!Frame, Last
<1>7. c.frames = m.frames
  BY <1>5, M0Facts DEF Machines
<1>8. m' = [c EXCEPT !.frames = [m.frames EXCEPT ![n] = e]]
  BY <1>1, <1>2, <1>4, <1>6, <1>7, Zenon DEF M0!AtStage
<1>9. /\ m'.cur = m.cur /\ m'.regs = m.regs /\ m'.nesting = m.nesting
      /\ m'.off = FALSE /\ m'.mask = m.mask /\ m'.pend = m.pend
      /\ m'.frames = [m.frames EXCEPT ![n] = e] /\ m'.saved = m.saved
  BY <1>5, <1>8, M0Facts DEF Machines
<1>10. m' \in Machines(CoreFrames, M0Saved)
  <2>1. m' = [m EXCEPT !.frames = [m.frames EXCEPT ![n] = e], !.off = FALSE]
    BY <1>5, <1>8, M0Facts, Zenon DEF Machines
  <2>2. [m.frames EXCEPT ![n] = e] \in Seq(CoreFrames)
    BY <1>2, M0Facts, FrameSet
  <2>3. QED BY <2>1, <2>2, M0Facts, ZenonT(60) DEF Machines
<1>11. /\ e.irq = m.frames[n].irq /\ e.at = "done" /\ e.status = m.frames[n].status
       /\ m.frames[n].irq # "pendsv"
  BY <1>1, <1>2, <1>4 DEF CoreFrames
<1>12. StepOK /\ CMInv'
  BY <1>1, <1>2, <1>3, <1>9, <1>11, M0Facts, CMUnmask DEF SameContext
<1>13. QED BY <1>1, <1>9, <1>10, <1>12, M0Facts, M0Kept

LEMMA M0Asks ==
  ASSUME Control, M0Inv, port = "cortex_m0", UNCHANGED port, M0!DeviceYields
  PROVE  StepOK /\ M0Inv'
<1>1. /\ m.frames # <<>> /\ UNCHANGED <<sections, live>>
      /\ Last(m.frames).irq = "dev" /\ m' = [m EXCEPT !.pend = TRUE]
  BY DEF M0!DeviceYields, M0!InHandler, M0!Frame, M0!portYIELD_FROM_ISR,
         Last
<1>2. PICK n \in Nat : /\ n = Len(m.frames) /\ n > 0 /\ n \in 1..n
                       /\ m.frames[n] \in CoreFrames /\ m.frames[n] = Last(m.frames)
  BY <1>1, M0Facts, TopFrame
<1>3. /\ m'.cur = m.cur /\ m'.regs = m.regs /\ m'.nesting = m.nesting
      /\ m'.off = m.off /\ m'.mask = m.mask /\ m'.pend = TRUE
      /\ m'.frames = m.frames /\ m'.saved = m.saved
  BY <1>1, M0Facts DEF Machines
<1>4. m' \in Machines(CoreFrames, M0Saved)
  BY <1>1, M0Facts, ZenonT(60) DEF Machines
<1>5. Depth > 0 /\ m.frames[Depth].irq # "high"
  BY <1>1, <1>2 DEF Depth
<1>6. StepOK /\ CMInv'
  BY <1>1, <1>3, <1>5, M0Facts, CMAsk DEF SameContext
<1>7. QED BY <1>1, <1>3, <1>4, <1>6, M0Facts, M0Kept

LEMMA M0Counts ==
  ASSUME Control, M0Inv, port = "cortex_m0", UNCHANGED port, M0!TickCounts
  PROVE  StepOK /\ M0Inv'
<1>1. /\ m.frames # <<>> /\ UNCHANGED <<sections, live>>
      /\ Last(m.frames).irq = "tick" /\ Last(m.frames).at = "inside"
      /\ \/ m' = M0!AtStage(m, "counted")
         \/ m' = M0!AtStage([m EXCEPT !.pend = TRUE], "counted")
  BY DEF M0!TickCounts, M0!InHandler, M0!Frame, M0!TickWantsSwitch, Last
<1>2. PICK n \in Nat : /\ n = Len(m.frames) /\ n > 0 /\ n \in 1..n
                       /\ m.frames[n] \in CoreFrames /\ m.frames[n] = Last(m.frames)
  BY <1>1, M0Facts, TopFrame
<1>3. PICK p \in BOOLEAN : /\ p = m.pend \/ p = TRUE
                           /\ m' = M0!AtStage([m EXCEPT !.pend = p], "counted")
  <2>1. m = [m EXCEPT !.pend = m.pend] /\ m.pend \in BOOLEAN
    BY M0Facts DEF Machines
  <2>2. QED BY <1>1, <2>1, Zenon
<1>4. PICK e \in CoreFrames : e = [m.frames[n] EXCEPT !.at = "counted"]
  BY <1>2, Zenon DEF CoreFrames, Stages
<1>5. PICK c : c = [m EXCEPT !.pend = p]
  BY Zenon
<1>6. c.frames = m.frames
  BY <1>5, M0Facts DEF Machines
<1>7. m' = [c EXCEPT !.frames = [m.frames EXCEPT ![n] = e]]
  BY <1>2, <1>3, <1>4, <1>5, <1>6, Zenon DEF M0!AtStage
<1>8. /\ m'.cur = m.cur /\ m'.regs = m.regs /\ m'.nesting = m.nesting
      /\ m'.off = m.off /\ m'.mask = m.mask /\ m'.pend = p
      /\ m'.frames = [m.frames EXCEPT ![n] = e] /\ m'.saved = m.saved
  BY <1>5, <1>7, M0Facts DEF Machines
<1>9. m' \in Machines(CoreFrames, M0Saved)
  <2>1. m' = [m EXCEPT !.frames = [m.frames EXCEPT ![n] = e], !.pend = p]
    BY <1>5, <1>7, M0Facts, Zenon DEF Machines
  <2>2. [m.frames EXCEPT ![n] = e] \in Seq(CoreFrames)
    BY <1>2, M0Facts, FrameSet
  <2>3. QED BY <2>1, <2>2, M0Facts, ZenonT(60) DEF Machines
<1>10. /\ e.irq = m.frames[n].irq /\ e.at = "counted" /\ e.status = m.frames[n].status
       /\ m.frames[n].irq = "tick" /\ n = Depth /\ Inside(n)
  BY <1>1, <1>2, <1>4 DEF CoreFrames, Inside, Depth
<1>11. StepOK /\ CMInv'
  BY <1>1, <1>2, <1>3, <1>8, <1>10, M0Facts, CMCount, Zenon DEF SameContext
<1>12. QED BY <1>1, <1>8, <1>9, <1>11, M0Facts, M0Kept

LEMMA M0Returns ==
  ASSUME Control, M0Inv, port = "cortex_m0", UNCHANGED port, M0!HandlerReturns
  PROVE  StepOK /\ M0Inv'
<1>1. /\ m.frames # <<>> /\ UNCHANGED <<sections, live>>
      /\ Last(m.frames).irq # "pendsv" /\ Last(m.frames).at \in {"entered", "done"}
      /\ m' = [m EXCEPT !.frames = Front(m.frames)]
  BY DEF M0!HandlerReturns, M0!InHandler, M0!Frame, M0!LeaveHandler, M0!Pop,
         Last, Front
<1>2. PICK n \in Nat : n + 1 = Depth /\ m.frames[n + 1] = Last(m.frames)
  <2>1. PICK k \in Nat : k = Len(m.frames) /\ k > 0 /\ m.frames[k] = Last(m.frames)
    BY <1>1, M0Facts, TopFrame
  <2>2. k - 1 \in Nat /\ (k - 1) + 1 = k
    BY <2>1
  <2>3. QED BY <2>1, <2>2 DEF Depth
<1>3. /\ m'.cur = m.cur /\ m'.regs = m.regs /\ m'.nesting = m.nesting
      /\ m'.off = m.off /\ m'.mask = m.mask /\ m'.pend = m.pend
      /\ m'.frames = Front(m.frames) /\ m'.saved = m.saved
  BY <1>1, M0Facts DEF Machines
<1>4. m' \in Machines(CoreFrames, M0Saved)
  <2>1. Front(m.frames) \in Seq(CoreFrames)
    BY <1>2, M0Facts, FrontFacts, Zenon DEF Depth
  <2>2. QED BY <1>1, <2>1, M0Facts, ZenonT(60) DEF Machines
<1>5. m.frames[n + 1].irq # "pendsv" /\ ~Inside(n + 1)
  BY <1>1, <1>2 DEF Inside
<1>6. StepOK /\ CMInv'
  BY <1>1, <1>2, <1>3, <1>5, M0Facts, CMReturn
<1>7. QED BY <1>1, <1>3, <1>4, <1>6, M0Facts, M0Kept

\* PendSV at a stage of its own, with the machine it leads to.
LEMMA M0PendSV ==
  ASSUME Control, M0Inv, port = "cortex_m0", M0!SwitchSteps
  PROVE  /\ m.frames # <<>> /\ UNCHANGED <<sections, live>>
         /\ Last(m.frames).irq = "pendsv"
         /\ \/ /\ Last(m.frames).at = "entered"
               /\ m' = M0!AtStage([m EXCEPT !.saved[m.cur] = [regs |-> m.regs],
                                       !.off = TRUE], "inside")
            \/ /\ Last(m.frames).at = "inside"
               /\ \E t \in Threads : m' = M0!AtStage([m EXCEPT !.cur = t], "switched")
            \/ /\ Last(m.frames).at = "switched"
               /\ m' = M0!AtStage([m EXCEPT !.off = FALSE], "done")
            \/ /\ Last(m.frames).at = "done"
               /\ m' = M0!Pop([m EXCEPT !.regs = m.saved[m.cur].regs])
<1>1. /\ m.frames # <<>> /\ UNCHANGED <<sections, live>>
      /\ Last(m.frames).irq = "pendsv"
      /\ Last(m.frames).at \in {"entered", "inside", "switched", "done"}
      /\ m' \in M0!PendSV(m)
  BY DEF M0!SwitchSteps, M0!InHandler, M0!Frame, Last
<1>2. CASE Last(m.frames).at = "entered"
  BY <1>1, <1>2 DEF M0!PendSV, M0!Frame, Last
<1>3. CASE Last(m.frames).at = "inside"
  BY <1>1, <1>3 DEF M0!PendSV, M0!SwitchContext, M0!Frame, Last
<1>4. CASE Last(m.frames).at = "switched"
  BY <1>1, <1>4 DEF M0!PendSV, M0!Frame, Last
<1>5. CASE Last(m.frames).at = "done"
  BY <1>1, <1>5 DEF M0!PendSV, M0!Frame, Last
<1>6. QED BY <1>1, <1>2, <1>3, <1>4, <1>5

LEMMA M0Switches ==
  ASSUME Control, M0Inv, port = "cortex_m0", UNCHANGED port, M0!SwitchSteps
  PROVE  StepOK /\ M0Inv'
<1>1. m.frames # <<>> /\ UNCHANGED <<sections, live>> /\ Last(m.frames).irq = "pendsv"
  BY M0PendSV
<1>2. PICK n \in Nat : /\ n = Len(m.frames) /\ n > 0 /\ n \in 1..n
                       /\ m.frames[n] \in CoreFrames /\ m.frames[n] = Last(m.frames)
  BY <1>1, M0Facts, TopFrame
<1>3. n = Depth /\ n = 1 /\ m.cur \in Threads /\ m.frames[n].irq = "pendsv"
  <2>1. n = Depth
    BY <1>2 DEF Depth
  <2>2. QED BY <1>1, <1>2, <2>1, M0Facts DEF Control, FramesOK, BeforeStart, Contexts
<1>4. ASSUME NEW stage \in Stages, NEW c \in Machines(CoreFrames, M0Saved),
             c.frames = m.frames, m' = M0!AtStage(c, stage), ~c.mask
      PROVE  \E e \in CoreFrames :
               /\ e.irq = m.frames[n].irq /\ e.at = stage
               /\ e.status = m.frames[n].status
               /\ m'.cur = c.cur /\ m'.regs = c.regs /\ m'.nesting = c.nesting
               /\ m'.off = c.off /\ m'.pend = c.pend /\ m'.saved = c.saved
               /\ m'.frames = [m.frames EXCEPT ![n] = e]
               /\ m' \in Machines(CoreFrames, M0Saved) /\ ~m'.mask
  <2>1. PICK e \in CoreFrames : e = [m.frames[n] EXCEPT !.at = stage]
    BY <1>2, Zenon DEF CoreFrames
  <2>2. m' = [c EXCEPT !.frames = [m.frames EXCEPT ![n] = e]]
    BY <1>2, <1>4, <2>1, Zenon DEF M0!AtStage
  <2>3. [m.frames EXCEPT ![n] = e] \in Seq(CoreFrames)
    BY <1>2, M0Facts, FrameSet
  <2>4. m' \in Machines(CoreFrames, M0Saved)
    BY <1>4, <2>2, <2>3, ZenonT(60) DEF Machines
  <2>5. /\ m'.cur = c.cur /\ m'.regs = c.regs /\ m'.nesting = c.nesting
        /\ m'.off = c.off /\ m'.pend = c.pend /\ m'.saved = c.saved
        /\ m'.frames = [m.frames EXCEPT ![n] = e] /\ m'.mask = c.mask
    BY <1>4, <2>2 DEF Machines
  <2>6. e.irq = m.frames[n].irq /\ e.at = stage /\ e.status = m.frames[n].status
    BY <1>2, <2>1 DEF CoreFrames
  <2>7. QED BY <1>4, <2>4, <2>5, <2>6, Zenon
<1>5. CASE /\ m.frames[n].at = "entered"
           /\ m' = M0!AtStage([m EXCEPT !.saved[m.cur] = [regs |-> m.regs],
                                   !.off = TRUE], "inside")
  <2>1. m.regs = m.cur
    BY <1>2, <1>3, <1>5, M0Facts DEF CMInv, OwnRegs, Switching
  <2>2. PICK s : s = [m.saved EXCEPT ![m.cur] = [regs |-> m.regs]]
    BY Zenon
  <2>3. s \in [Threads -> M0Saved] /\ \A t \in Threads : s[t].regs = t
    BY <1>3, <2>1, <2>2, M0Facts DEF CMInv, OwnRegs, M0Saved
  <2>4. PICK c : c = [m EXCEPT !.saved = s, !.off = TRUE]
    OBVIOUS
  <2>5. m' = M0!AtStage(c, "inside")
    BY <1>5, <2>2, <2>4, Zenon
  <2>6. /\ c.cur = m.cur /\ c.regs = m.regs /\ c.nesting = m.nesting
        /\ c.off = TRUE /\ c.pend = m.pend /\ c.saved = s /\ c.frames = m.frames
        /\ ~c.mask
    BY <2>4, M0Facts DEF Machines
  <2>7. c \in Machines(CoreFrames, M0Saved)
    BY <2>3, <2>4, M0Facts, ZenonT(60) DEF Machines
  <2>8. PICK e \in CoreFrames :
               /\ e.irq = m.frames[n].irq /\ e.at = "inside"
               /\ e.status = m.frames[n].status
               /\ m'.cur = c.cur /\ m'.regs = c.regs /\ m'.nesting = c.nesting
               /\ m'.off = c.off /\ m'.pend = c.pend /\ m'.saved = c.saved
               /\ m'.frames = [m.frames EXCEPT ![n] = e]
               /\ m' \in Machines(CoreFrames, M0Saved) /\ ~m'.mask
    BY <1>4, <2>5, <2>6, <2>7, Zenon DEF Stages
  <2>9. ~e.status
    BY <1>2, <1>3, <2>8, M0Facts DEF CMInv, FoundUnmasked
  <2>10. \A t \in Threads : m'.saved[t].regs = t
    BY <2>3, <2>6, <2>8
  <2>11. StepOK /\ CMInv'
    BY <1>1, <1>2, <1>3, <1>5, <2>6, <2>8, <2>9, <2>10, M0Facts, CMMask
  <2>12. QED BY <1>1, <2>8, <2>11, M0Facts, M0Kept
<1>6. CASE /\ m.frames[n].at = "inside"
           /\ \E t \in Threads : m' = M0!AtStage([m EXCEPT !.cur = t], "switched")
  <2>1. PICK t \in Threads : m' = M0!AtStage([m EXCEPT !.cur = t], "switched")
    BY <1>6
  <2>2. PICK c : c = [m EXCEPT !.cur = t]
    BY Zenon
  <2>3. /\ c.cur = t /\ c.regs = m.regs /\ c.nesting = m.nesting
        /\ c.off = m.off /\ c.pend = m.pend /\ c.saved = m.saved
        /\ c.frames = m.frames /\ ~c.mask
    BY <2>2, M0Facts DEF Machines
  <2>4. c \in Machines(CoreFrames, M0Saved)
    BY <2>2, M0Facts, ZenonT(60) DEF Machines
  <2>5. PICK e \in CoreFrames :
               /\ e.irq = m.frames[n].irq /\ e.at = "switched"
               /\ e.status = m.frames[n].status
               /\ m'.cur = c.cur /\ m'.regs = c.regs /\ m'.nesting = c.nesting
               /\ m'.off = c.off /\ m'.pend = c.pend /\ m'.saved = c.saved
               /\ m'.frames = [m.frames EXCEPT ![n] = e]
               /\ m' \in Machines(CoreFrames, M0Saved) /\ ~m'.mask
    BY <1>4, <2>1, <2>2, <2>3, <2>4, Zenon DEF Stages
  <2>6. StepOK /\ CMInv'
    BY <1>1, <1>2, <1>3, <1>6, <2>3, <2>5, M0Facts, CMPick
  <2>7. QED BY <1>1, <2>5, <2>6, M0Facts, M0Kept
<1>7. CASE /\ m.frames[n].at = "switched"
           /\ m' = M0!AtStage([m EXCEPT !.off = FALSE], "done")
  <2>2. PICK c : c = [m EXCEPT !.off = FALSE]
    BY Zenon
  <2>3. /\ c.cur = m.cur /\ c.regs = m.regs /\ c.nesting = m.nesting
        /\ c.off = FALSE /\ c.pend = m.pend /\ c.saved = m.saved
        /\ c.frames = m.frames /\ ~c.mask
    BY <2>2, M0Facts DEF Machines
  <2>4. c \in Machines(CoreFrames, M0Saved)
    BY <2>2, M0Facts, ZenonT(60) DEF Machines
  <2>5. PICK e \in CoreFrames :
               /\ e.irq = m.frames[n].irq /\ e.at = "done"
               /\ e.status = m.frames[n].status
               /\ m'.cur = c.cur /\ m'.regs = c.regs /\ m'.nesting = c.nesting
               /\ m'.off = c.off /\ m'.pend = c.pend /\ m'.saved = c.saved
               /\ m'.frames = [m.frames EXCEPT ![n] = e]
               /\ m' \in Machines(CoreFrames, M0Saved) /\ ~m'.mask
    BY <1>4, <1>7, <2>2, <2>3, <2>4, Zenon DEF Stages
  <2>6. Inside(n)
    BY <1>7 DEF Inside
  <2>7. StepOK /\ CMInv'
    <3>1. SameContext /\ m'.pend = m.pend /\ ~Masked'
      BY <2>3, <2>5, M0Facts DEF SameContext
    <3>2. /\ e.irq = m.frames[n].irq /\ e.at = "done" /\ e.status = m.frames[n].status
          /\ m.frames[n].irq = "pendsv" => m.frames[n].at = "switched"
          /\ n = Depth /\ m'.frames = [m.frames EXCEPT ![n] = e]
      BY <1>3, <1>7, <2>5
    <3>3. QED BY <1>1, <1>2, <2>6, <3>1, <3>2, M0Facts, CMUnmask, Zenon
  <2>8. QED BY <1>1, <2>5, <2>7, M0Facts, M0Kept
<1>8. CASE /\ m.frames[n].at = "done"
           /\ m' = M0!Pop([m EXCEPT !.regs = m.saved[m.cur].regs])
  <2>1. PICK r \in Contexts : r = m.saved[m.cur].regs
    BY <1>3, M0Facts DEF M0Saved
  <2>2. m' = [m EXCEPT !.regs = r, !.frames = Front(m.frames)]
    BY <1>8, <2>1, M0Facts DEF M0!Pop, Front, Machines
  <2>3. /\ m'.cur = m.cur /\ m'.regs = r /\ m'.nesting = m.nesting
        /\ m'.off = m.off /\ m'.mask = m.mask /\ m'.pend = m.pend
        /\ m'.frames = Front(m.frames) /\ m'.saved = m.saved
    BY <2>2, M0Facts DEF Machines
  <2>4. Depth = 0 + 1 /\ 0 \in Nat /\ m.frames[0 + 1].irq = "pendsv"
        /\ m.frames[0 + 1].at = "done" /\ m'.regs = m.saved[m.cur].regs
    BY <1>3, <1>8, <2>1, <2>3
  <2>5. m' \in Machines(CoreFrames, M0Saved)
    <3>1. Front(m.frames) \in Seq(CoreFrames)
      BY <2>4, M0Facts, FrontFacts, Zenon DEF Depth
    <3>2. QED BY <2>2, <3>1, M0Facts, ZenonT(60) DEF Machines
  <2>6. StepOK /\ CMInv'
    BY <1>1, <2>3, <2>4, M0Facts, CMReturn
  <2>7. QED BY <1>1, <2>3, <2>5, <2>6, M0Facts, M0Kept
<1>9. QED BY <1>2, <1>5, <1>6, <1>7, <1>8, M0PendSV, Zenon

LEMMA M0Step ==
  ASSUME Control, M0Inv, port = "cortex_m0", UNCHANGED port, M0!PortNext
  PROVE  StepOK /\ M0Inv'
<1>1. ASSUME NEW t \in Threads, M0!StartScheduler(t)
      PROVE  StepOK /\ M0Inv'
  BY <1>1, M0Start
<1>2. ASSUME NEW i \in Interrupts, M0!Interrupted(i)
      PROVE  StepOK /\ M0Inv'
  BY <1>2, M0Interrupted
<1>3. \/ M0!EnterSection \/ M0!LeaveSection \/ M0!Yield \/ M0!RegisterFpu
      \/ M0!TaskUsesFpu \/ M0!HandlerUsesFpu \/ M0!DeviceMasks
      \/ M0!DeviceUnmasks \/ M0!DeviceYields \/ M0!TickBegins \/ M0!TickCounts
      \/ M0!TickFinishes \/ M0!HandlerReturns \/ M0!SwitchInterrupts
      \/ M0!SwitchSteps
      \/ (\E t \in Threads : M0!StartScheduler(t))
      \/ (\E i \in Interrupts : M0!Interrupted(i))
  BY Zenon DEF M0!PortNext, M0!Interrupts, Interrupts
<1>4. QED
  BY <1>1, <1>2, <1>3, M0Enter, M0Leave, M0Yield, M0Unit, M0SwitchTaken, M0Masks,
     M0Unmasks, M0Asks, M0Counts, M0Returns, M0Switches

\* The unit, under the port to the Cortex-M4F.
M4FSaved == [regs : Contexts, fpu : BOOLEAN, fp : Halves]

LEMMA M4FFacts ==
  ASSUME Control, M4FInv, port = "cortex_m4f", UNCHANGED port
  PROVE  /\ m \in Machines(M4FFrames, M4FSaved) /\ CortexM /\ CMInv
         /\ m.frames \in Seq(M4FFrames) /\ m.nesting \in Int /\ m.mask \in BOOLEAN
         /\ m.saved \in [Threads -> M4FSaved] /\ m.cur \in Contexts /\ m.regs \in Contexts
         /\ m.fpu \in BOOLEAN /\ m.fp \in Halves
         /\ ~m.off /\ OwnFpuM4F /\ (Masked <=> m.mask) /\ (Masked' <=> m'.mask)
         /\ main \notin Threads /\ main \in Contexts /\ Threads \subseteq Contexts
<1>1. m \in Machines(M4FFrames, M4FSaved)
  BY DEF M4FInv, M4FSaved
<1>2. /\ m.frames \in Seq(M4FFrames) /\ m.nesting \in Int /\ m.mask \in BOOLEAN
      /\ m.saved \in [Threads -> M4FSaved] /\ m.cur \in Contexts /\ m.regs \in Contexts
      /\ m.fpu \in BOOLEAN /\ m.fp \in Halves
  BY <1>1 DEF Machines
<1>3. QED
  BY <1>1, <1>2, PortsAssumption DEF M4FInv, CMInv, CortexM, Masked, Contexts

LEMMA M4FKept ==
  ASSUME m' \in Machines(M4FFrames, M4FSaved), ~m'.off, OwnFpuM4F', StepOK, CMInv'
  PROVE  StepOK /\ M4FInv'
BY DEF M4FInv, CMInv, M4FSaved

LEMMA FpuKept ==
  ASSUME OwnFpuM4F, UNCHANGED live, m'.cur = m.cur, m'.fpu = m.fpu, m'.fp = m.fp,
         m'.frames = m.frames, m'.saved = m.saved
  PROVE  OwnFpuM4F'
BY DEF OwnFpuM4F

\* PendSV aside, what a handler does at a stage leaves what is stacked; and once
\* PendSV has saved it, its stages do.
LEMMA FpuStage ==
  ASSUME OwnFpuM4F, UNCHANGED live, m'.cur = m.cur, m'.fpu = m.fpu, m'.fp = m.fp,
         m'.saved = m.saved, NEW n \in Nat, n = Len(m.frames), n > 0,
         m.frames \in Seq(M4FFrames), NEW e \in M4FFrames,
         m'.frames = [m.frames EXCEPT ![n] = e],
         e.irq = m.frames[n].irq, e.fpu = m.frames[n].fpu, e.low = m.frames[n].low,
         e.irq = "pendsv" => m.frames[n].at # "entered" /\ e.at # "entered"
  PROVE  OwnFpuM4F'
<1>1. m.frames # <<>> /\ 1 \in 1..n /\ n \in 1..n
  OBVIOUS
<1>2. m'.frames \in Seq(M4FFrames) /\ Len(m'.frames) = n
  BY FrameSet
<1>3. m'.frames # <<>>
  BY <1>2
<1>4. /\ m'.frames[1].irq = m.frames[1].irq /\ m'.frames[1].fpu = m.frames[1].fpu
      /\ m'.frames[1].low = m.frames[1].low
      /\ m.frames[1].irq = "pendsv" =>
           (m'.frames[1].at = "entered" <=> m.frames[1].at = "entered")
  <2>1. CASE n = 1
    <3>1. m'.frames[1] = e
      BY <2>1, <1>1
    <3>2. QED BY <2>1, <3>1
  <2>2. CASE n # 1
    <3>1. m'.frames[1] = m.frames[1]
      BY <2>2, <1>1
    <3>2. QED BY <3>1
  <2>3. QED BY <2>1, <2>2
<1>5. QED BY <1>1, <1>3, <1>4 DEF OwnFpuM4F


LEMMA M4FEnter ==
  ASSUME Control, M4FInv, port = "cortex_m4f", UNCHANGED port, M4F!EnterSection
  PROVE  StepOK /\ M4FInv'
<1>1. /\ m' = [m EXCEPT !.mask = TRUE, !.nesting = m.nesting + 1]
      /\ sections' = [sections EXCEPT ![m.cur] = @ + 1] /\ UNCHANGED live
      /\ m.frames = <<>> /\ ~(m.pend /\ ~m.off /\ ~m.mask)
  BY DEF M4F!EnterSection, M4F!TaskRuns, M4F!SwitchTaken, M4F!portENTER_CRITICAL,
         M4F!portDISABLE_INTERRUPTS
<1>2. /\ m'.cur = m.cur /\ m'.regs = m.regs /\ m'.nesting = m.nesting + 1
      /\ m'.mask = TRUE /\ m'.off = m.off /\ m'.pend = m.pend
      /\ m'.frames = m.frames /\ m'.saved = m.saved
      /\ m'.fpu = m.fpu /\ m'.fp = m.fp
  BY <1>1, M4FFacts DEF Machines
<1>3. m.nesting + 1 \in Int
  BY M4FFacts
<1>4. m' \in Machines(M4FFrames, M4FSaved)
  BY <1>1, <1>3, M4FFacts, ZenonT(60) DEF Machines
<1>5. StepOK /\ CMInv'
  BY <1>1, <1>2, M4FFacts, CMSection
<1>6. OwnFpuM4F'
  BY <1>1, <1>2, M4FFacts, FpuKept
<1>7. QED BY <1>6, <1>1, <1>2, <1>4, <1>5, M4FFacts, M4FKept

LEMMA M4FLeave ==
  ASSUME Control, M4FInv, port = "cortex_m4f", UNCHANGED port, M4F!LeaveSection
  PROVE  StepOK /\ M4FInv'
<1>1. /\ m' = [(IF m.nesting = 1 THEN [m EXCEPT !.mask = FALSE] ELSE m)
                 EXCEPT !.nesting = @ - 1]
      /\ sections' = [sections EXCEPT ![m.cur] = @ - 1] /\ UNCHANGED live
      /\ m.frames = <<>> /\ ~(m.pend /\ ~m.off /\ ~m.mask) /\ sections[m.cur] > 0
  BY DEF M4F!LeaveSection, M4F!TaskRuns, M4F!SwitchTaken, M4F!portEXIT_CRITICAL,
         M4F!portENABLE_INTERRUPTS
<1>2. PICK b \in BOOLEAN : b <=> m.nesting # 1 /\ m.mask
  BY Zenon
<1>3. m' = [m EXCEPT !.mask = b, !.nesting = m.nesting - 1]
  BY <1>1, <1>2, M4FFacts, Zenon DEF Machines
<1>4. /\ m'.cur = m.cur /\ m'.regs = m.regs /\ m'.nesting = m.nesting - 1
      /\ m'.mask = b /\ m'.off = m.off /\ m'.pend = m.pend
      /\ m'.frames = m.frames /\ m'.saved = m.saved
      /\ m'.fpu = m.fpu /\ m'.fp = m.fp
  BY <1>3, M4FFacts DEF Machines
<1>5. m.nesting - 1 \in Int
  BY M4FFacts
<1>6. m' \in Machines(M4FFrames, M4FSaved)
  BY <1>2, <1>3, <1>5, M4FFacts, ZenonT(60) DEF Machines
<1>7. StepOK /\ CMInv'
  BY <1>1, <1>2, <1>4, M4FFacts, CMSection
<1>8. OwnFpuM4F'
  BY <1>1, <1>4, M4FFacts, FpuKept
<1>9. QED BY <1>8, <1>1, <1>4, <1>6, <1>7, M4FFacts, M4FKept

LEMMA M4FStart ==
  ASSUME Control, M4FInv, port = "cortex_m4f", UNCHANGED port,
         NEW t \in Threads, M4F!StartScheduler(t)
  PROVE  StepOK /\ M4FInv'
<1>1. m.cur = main /\ UNCHANGED <<sections, live>>
  BY DEF M4F!StartScheduler
<1>2. /\ m'.cur = t /\ m'.nesting = 0 /\ m'.mask = FALSE /\ m'.off = FALSE
      /\ m'.regs = m.saved[t].regs /\ m'.pend = m.pend
      /\ m'.frames = m.frames /\ m'.saved = m.saved
      /\ m'.fpu = m.saved[t].fpu /\ m'.fp = m.fp
  BY M4FFacts DEF M4F!StartScheduler, M4F!xPortStartScheduler, M4F!prvPortStartFirstTask,
       M4F!vPortSVCHandler, M4F!portDISABLE_INTERRUPTS, Machines
<1>3. PICK r \in Contexts, u \in BOOLEAN : r = m.saved[t].regs /\ u = m.saved[t].fpu
  BY M4FFacts DEF M4FSaved
<1>4. m' = [m EXCEPT !.mask = FALSE, !.cur = t, !.nesting = 0, !.off = FALSE, !.regs = r, !.fpu = u]
  BY <1>3, M4FFacts, Zenon DEF M4F!StartScheduler, M4F!xPortStartScheduler, M4F!prvPortStartFirstTask,
       M4F!vPortSVCHandler, M4F!portDISABLE_INTERRUPTS, Machines
<1>5. t \in Contexts /\ 0 \in Int
  BY M4FFacts
<1>6. m' \in Machines(M4FFrames, M4FSaved)
  BY <1>4, <1>5, M4FFacts, ZenonT(60) DEF Machines
<1>7. StepOK /\ CMInv'
  BY <1>1, <1>2, M4FFacts, CMStart
<1>8. OwnFpuM4F'
  BY <1>1, <1>2, M4FFacts DEF OwnFpuM4F
<1>9. QED BY <1>8, <1>1, <1>2, <1>6, <1>7, M4FFacts, M4FKept

LEMMA M4FYield ==
  ASSUME Control, M4FInv, port = "cortex_m4f", UNCHANGED port, M4F!Yield
  PROVE  StepOK /\ M4FInv'
<1>1. /\ m' = [m EXCEPT !.pend = TRUE] /\ UNCHANGED <<sections, live>>
      /\ m.frames = <<>> /\ ~(m.pend /\ ~m.off /\ ~m.mask) /\ m.cur # main
  BY DEF M4F!Yield, M4F!TaskRuns, M4F!SwitchTaken, M4F!portYIELD
<1>2. /\ m'.cur = m.cur /\ m'.regs = m.regs /\ m'.nesting = m.nesting
      /\ m'.mask = m.mask /\ m'.off = m.off /\ m'.pend = TRUE
      /\ m'.frames = m.frames /\ m'.saved = m.saved
      /\ m'.fpu = m.fpu /\ m'.fp = m.fp
  BY <1>1, M4FFacts DEF Machines
<1>3. m' \in Machines(M4FFrames, M4FSaved)
  BY <1>1, M4FFacts, ZenonT(60) DEF Machines
<1>4. m.cur \in Threads
  BY <1>1, M4FFacts DEF Contexts
<1>5. StepOK /\ CMInv'
  BY <1>1, <1>2, <1>4, M4FFacts, CMYield
<1>6. OwnFpuM4F'
  BY <1>1, <1>2, M4FFacts, FpuKept
<1>7. QED BY <1>6, <1>1, <1>2, <1>3, <1>5, M4FFacts, M4FKept

LEMMA M4FRegisters ==
  ASSUME Control, M4FInv, port = "cortex_m4f", UNCHANGED port, M4F!RegisterFpu
  PROVE  StepOK /\ M4FInv'
<1>1. m' = m /\ UNCHANGED <<sections, live>>
  BY DEF M4F!RegisterFpu, M4F!vPortTaskUsesFPU
<1>2. /\ SameContext /\ m'.frames = m.frames /\ m'.pend = m.pend
      /\ m'.frames \in Seq(M4FFrames) /\ Masked' = Masked
  BY <1>1, M4FFacts DEF SameContext, Masked
<1>3. StepOK /\ CMInv'
  BY <1>1, <1>2, M4FFacts, CMQuiet
<1>4. OwnFpuM4F'
  BY <1>1, M4FFacts, FpuKept
<1>5. QED BY <1>1, <1>3, <1>4, M4FFacts, M4FKept

LEMMA M4FTaskUses ==
  ASSUME Control, M4FInv, port = "cortex_m4f", UNCHANGED port, M4F!TaskUsesFpu
  PROVE  StepOK /\ M4FInv'
<1>1. /\ m' = [m EXCEPT !.fp = FpOf(m.cur), !.fpu = TRUE]
      /\ m.frames = <<>> /\ m.cur \in FpuTasks
      /\ live' = live \cup {m.cur} /\ UNCHANGED sections
  BY DEF M4F!TaskUsesFpu, M4F!TaskRuns, M4F!UseFpu, M4F!FpOf, FpOf
<1>2. FpOf(m.cur) \in Halves
  BY M4FFacts DEF FpOf, Halves, FpValues
<1>3. /\ m'.cur = m.cur /\ m'.regs = m.regs /\ m'.nesting = m.nesting
      /\ m'.mask = m.mask /\ m'.off = m.off /\ m'.pend = m.pend
      /\ m'.frames = m.frames /\ m'.saved = m.saved
      /\ m'.fpu = TRUE /\ m'.fp = FpOf(m.cur)
  BY <1>1, M4FFacts DEF Machines
<1>4. m' \in Machines(M4FFrames, M4FSaved)
  BY <1>1, <1>2, M4FFacts, ZenonT(60) DEF Machines
<1>5. /\ SameContext /\ m'.frames \in Seq(M4FFrames) /\ Masked' = Masked
  BY <1>3, M4FFacts DEF SameContext, Masked
<1>6. StepOK /\ CMInv'
  BY <1>1, <1>3, <1>5, M4FFacts, CMQuiet
<1>7. OwnFpuM4F'
  BY <1>1, <1>3, M4FFacts, PortsAssumption DEF OwnFpuM4F
<1>8. QED BY <1>3, <1>4, <1>6, <1>7, M4FFacts, M4FKept

LEMMA M4FHandlerUses ==
  ASSUME Control, M4FInv, port = "cortex_m4f", UNCHANGED port, M4F!HandlerUsesFpu
  PROVE  StepOK /\ M4FInv'
<1>1. PICK h : h = [m.fp EXCEPT !.low = "handler"]
  BY Zenon
<1>2. /\ m' = [m EXCEPT !.fp = h, !.fpu = TRUE] /\ m.frames # <<>>
      /\ UNCHANGED <<sections, live>>
  BY <1>1 DEF M4F!HandlerUsesFpu, M4F!InHandler, M4F!UseFpu
<1>3. h \in Halves /\ h.high = m.fp.high
  BY <1>1, M4FFacts DEF Halves, FpValues
<1>4. /\ m'.cur = m.cur /\ m'.regs = m.regs /\ m'.nesting = m.nesting
      /\ m'.mask = m.mask /\ m'.off = m.off /\ m'.pend = m.pend
      /\ m'.frames = m.frames /\ m'.saved = m.saved /\ m'.fp = h
  BY <1>2, M4FFacts DEF Machines
<1>5. m' \in Machines(M4FFrames, M4FSaved)
  BY <1>2, <1>3, M4FFacts, ZenonT(60) DEF Machines
<1>6. /\ SameContext /\ m'.frames \in Seq(M4FFrames) /\ Masked' = Masked
  BY <1>4, M4FFacts DEF SameContext, Masked
<1>7. StepOK /\ CMInv'
  BY <1>2, <1>4, <1>6, M4FFacts, CMQuiet
<1>8. OwnFpuM4F'
  BY <1>2, <1>3, <1>4, M4FFacts DEF OwnFpuM4F
<1>9. QED BY <1>4, <1>5, <1>7, <1>8, M4FFacts, M4FKept

LEMMA M4FInterrupted ==
  ASSUME Control, M4FInv, port = "cortex_m4f", UNCHANGED port,
         NEW i \in Interrupts, M4F!Interrupted(i)
  PROVE  StepOK /\ M4FInv'
<1>0. PICK e : e = [irq |-> i, at |-> "entered", status |-> FALSE, fpu |-> m.fpu,
                    low |-> IF m.fpu THEN m.fp.low ELSE "none"]
  BY Zenon
<1>1. /\ m.cur # main /\ (m.mask => i = "high") /\ UNCHANGED <<sections, live>>
      /\ m' = [m EXCEPT !.fpu = FALSE, !.frames = Append(m.frames, e)]
  BY <1>0, M4FFacts DEF M4F!Interrupted, M4F!Takes, M4F!EnterHandler, M4F!Push, Machines
<1>2. e \in M4FFrames /\ i \in Irqs /\ i # "pendsv"
  BY <1>0, M4FFacts DEF M4FFrames, Halves, FpValues, Interrupts, Irqs, Stages
<1>3. /\ m'.cur = m.cur /\ m'.regs = m.regs /\ m'.nesting = m.nesting
      /\ m'.mask = m.mask /\ m'.off = m.off /\ m'.pend = m.pend
      /\ m'.frames = Append(m.frames, e) /\ m'.saved = m.saved
      /\ m'.fp = m.fp
  BY <1>1, M4FFacts DEF Machines
<1>4. Append(m.frames, e) \in Seq(M4FFrames)
  BY <1>2, M4FFacts, AppendProperties
<1>5. m' \in Machines(M4FFrames, M4FSaved)
  BY <1>1, <1>4, M4FFacts, ZenonT(60) DEF Machines
<1>6. m.cur \in Threads /\ e.irq = i /\ e.at = "entered" /\ e.status = FALSE
  BY <1>0, <1>1, M4FFacts DEF Contexts
<1>7. StepOK /\ CMInv'
  BY <1>1, <1>2, <1>3, <1>6, M4FFacts, CMEnter, Zenon DEF SameContext
<1>8. OwnFpuM4F'
  <2>1. PICK n \in Nat : n = Len(m.frames)
    BY M4FFacts
  <2>2. /\ Append(m.frames, e)[n + 1] = e
        /\ \A f \in 1..n : Append(m.frames, e)[f] = m.frames[f]
        /\ Append(m.frames, e) # <<>>
    BY <2>1, <1>2, M4FFacts, AppendProperties
  <2>3. e.fpu = m.fpu /\ (m.fpu => e.low = m.fp.low) /\ e.at = "entered"
    BY <1>0
  <2>4. CASE m.frames = <<>>
    <3>1. n = 0 /\ m'.frames[1] = e /\ m'.frames # <<>>
      BY <2>1, <2>2, <2>4, <1>3
    <3>2. m.cur \in live => m.fpu /\ m.fp.low = m.cur /\ m.fp.high = m.cur
      BY <2>4, M4FFacts DEF OwnFpuM4F, FpOf
    <3>3. QED BY <3>1, <3>2, <2>3, <1>1, <1>3, M4FFacts DEF OwnFpuM4F
  <2>5. CASE m.frames # <<>>
    <3>1. 1 \in 1..n
      BY <2>1, <2>5, M4FFacts
    <3>2. m'.frames[1] = m.frames[1] /\ m'.frames # <<>>
      BY <3>1, <2>2, <1>3
    <3>3. QED BY <2>5, <3>2, <1>1, <1>3, M4FFacts DEF OwnFpuM4F
  <2>6. QED BY <2>4, <2>5
<1>9. QED BY <1>8, <1>1, <1>3, <1>5, <1>7, M4FFacts, M4FKept

LEMMA M4FSwitchTaken ==
  ASSUME Control, M4FInv, port = "cortex_m4f", UNCHANGED port, M4F!SwitchInterrupts
  PROVE  StepOK /\ M4FInv'
<1>0. PICK e : e = [irq |-> "pendsv", at |-> "entered", status |-> FALSE, fpu |-> m.fpu,
                    low |-> IF m.fpu THEN m.fp.low ELSE "none"]
  BY Zenon
<1>1. /\ m.pend /\ ~m.mask /\ m.frames = <<>> /\ UNCHANGED <<sections, live>>
      /\ m' = [m EXCEPT !.fpu = FALSE, !.frames = Append(m.frames, e), !.pend = FALSE]
  BY <1>0, M4FFacts, Zenon DEF M4F!SwitchInterrupts, M4F!SwitchTaken, M4F!EnterHandler, M4F!Push, Machines
<1>2. e \in M4FFrames
  BY <1>0, M4FFacts DEF M4FFrames, Halves, FpValues, Irqs, Stages
<1>3. /\ m'.cur = m.cur /\ m'.regs = m.regs /\ m'.nesting = m.nesting
      /\ m'.mask = m.mask /\ m'.off = m.off /\ m'.pend = FALSE
      /\ m'.frames = Append(m.frames, e) /\ m'.saved = m.saved
      /\ m'.fp = m.fp
  BY <1>1, M4FFacts DEF Machines
<1>4. Append(m.frames, e) \in Seq(M4FFrames)
  BY <1>2, M4FFacts, AppendProperties
<1>5. m' \in Machines(M4FFrames, M4FSaved)
  BY <1>1, <1>4, M4FFacts, ZenonT(60) DEF Machines
<1>6. /\ m.cur \in Threads /\ e.irq = "pendsv" /\ e.at = "entered" /\ e.status = FALSE
      /\ e.irq \in Irqs
  BY <1>0, <1>1, M4FFacts DEF Contexts, Control, BeforeStart, Irqs
<1>7. StepOK /\ CMInv'
  BY <1>1, <1>2, <1>3, <1>6, M4FFacts, CMEnter, Zenon DEF SameContext
<1>8. OwnFpuM4F'
  <2>1. PICK n \in Nat : n = Len(m.frames)
    BY M4FFacts
  <2>2. /\ Append(m.frames, e)[n + 1] = e
        /\ \A f \in 1..n : Append(m.frames, e)[f] = m.frames[f]
        /\ Append(m.frames, e) # <<>>
    BY <2>1, <1>2, M4FFacts, AppendProperties
  <2>3. e.fpu = m.fpu /\ (m.fpu => e.low = m.fp.low) /\ e.at = "entered"
    BY <1>0
  <2>4. CASE m.frames = <<>>
    <3>1. n = 0 /\ m'.frames[1] = e /\ m'.frames # <<>>
      BY <2>1, <2>2, <2>4, <1>3
    <3>2. m.cur \in live => m.fpu /\ m.fp.low = m.cur /\ m.fp.high = m.cur
      BY <2>4, M4FFacts DEF OwnFpuM4F, FpOf
    <3>3. QED BY <3>1, <3>2, <2>3, <1>1, <1>3, M4FFacts DEF OwnFpuM4F
  <2>5. CASE m.frames # <<>>
    <3>1. 1 \in 1..n
      BY <2>1, <2>5, M4FFacts
    <3>2. m'.frames[1] = m.frames[1] /\ m'.frames # <<>>
      BY <3>1, <2>2, <1>3
    <3>3. QED BY <2>5, <3>2, <1>1, <1>3, M4FFacts DEF OwnFpuM4F
  <2>6. QED BY <2>4, <2>5
<1>9. QED BY <1>8, <1>1, <1>3, <1>5, <1>7, M4FFacts, M4FKept

LEMMA M4FMasks ==
  ASSUME Control, M4FInv, port = "cortex_m4f", UNCHANGED port,
         M4F!DeviceMasks \/ M4F!TickBegins
  PROVE  StepOK /\ M4FInv'
<1>1. /\ m.frames # <<>> /\ UNCHANGED <<sections, live>>
      /\ Last(m.frames).irq \in {"dev", "tick"} /\ Last(m.frames).at = "entered"
      /\ m' = M4F!AtStage(M4F!portSET_INTERRUPT_MASK_FROM_ISR(m), "inside")
  BY DEF M4F!DeviceMasks, M4F!TickBegins, M4F!InHandler, M4F!Frame, M4F!TickStarts,
         Last
<1>2. PICK n \in Nat : /\ n = Len(m.frames) /\ n > 0 /\ n \in 1..n
                       /\ m.frames[n] \in M4FFrames /\ m.frames[n] = Last(m.frames)
  BY <1>1, M4FFacts, TopFrame
<1>3. PICK d \in M4FFrames : d = [m.frames[n] EXCEPT !.status = m.mask]
  BY <1>2, M4FFacts, Zenon DEF M4FFrames
<1>4. PICK e \in M4FFrames : e = [d EXCEPT !.at = "inside"]
  BY Zenon DEF M4FFrames, Stages
<1>5. PICK s : s = [m.frames EXCEPT ![n] = d]
  BY Zenon
<1>6. Len(s) = n /\ s[n] = d /\ [s EXCEPT ![n] = e] = [m.frames EXCEPT ![n] = e]
      /\ [m.frames EXCEPT ![n] = e] \in Seq(M4FFrames)
  BY <1>2, <1>5, M4FFacts, FrameSet
<1>7. M4F!portSET_INTERRUPT_MASK_FROM_ISR(m) = [m EXCEPT !.frames = s, !.mask = TRUE]
  BY <1>2, <1>3, <1>5, Zenon DEF M4F!portSET_INTERRUPT_MASK_FROM_ISR
<1>8. PICK c : c = [m EXCEPT !.frames = s, !.mask = TRUE]
  OBVIOUS
<1>9. c.frames = s
  BY <1>8, M4FFacts DEF Machines
<1>10. m' = [c EXCEPT !.frames = [m.frames EXCEPT ![n] = e]]
  <2>1. m' = [c EXCEPT !.frames = [c.frames EXCEPT ![Len(c.frames)] =
                                     [c.frames[Len(c.frames)] EXCEPT !.at = "inside"]]]
    BY <1>1, <1>7, <1>8, Zenon DEF M4F!AtStage
  <2>2. QED BY <2>1, <1>4, <1>6, <1>9, Zenon
<1>11. /\ m'.cur = m.cur /\ m'.regs = m.regs /\ m'.nesting = m.nesting
       /\ m'.mask = TRUE /\ m'.off = m.off /\ m'.pend = m.pend
       /\ m'.frames = [m.frames EXCEPT ![n] = e] /\ m'.saved = m.saved
       /\ m'.fpu = m.fpu /\ m'.fp = m.fp
  BY <1>8, <1>10, M4FFacts DEF Machines
<1>12. m' \in Machines(M4FFrames, M4FSaved)
  <2>1. m' = [m EXCEPT !.frames = [m.frames EXCEPT ![n] = e], !.mask = TRUE]
    BY <1>8, <1>10, M4FFacts, Zenon DEF Machines
  <2>2. QED BY <2>1, <1>6, M4FFacts, ZenonT(60) DEF Machines
<1>13. ~m.mask
  BY <1>1, <1>2, M4FFacts, CMNoneInside DEF Inside, Depth
<1>14. /\ e.irq = m.frames[n].irq /\ e.at = "inside" /\ ~e.status
       /\ m.frames[n].irq # "high" /\ m.frames[n].at = "entered" /\ n = Depth
       /\ \A t \in Threads : m'.saved[t].regs = t
  BY <1>1, <1>2, <1>3, <1>4, <1>11, <1>13, M4FFacts DEF M4FFrames, CMInv, OwnRegs, Depth
<1>15. StepOK /\ CMInv'
  BY <1>1, <1>2, <1>11, <1>14, M4FFacts, CMMask
<1>16. OwnFpuM4F'
  <2>1. /\ d.irq = m.frames[n].irq /\ d.fpu = m.frames[n].fpu
        /\ d.low = m.frames[n].low
    BY <1>2, <1>3 DEF M4FFrames
  <2>2. /\ e.irq = m.frames[n].irq /\ e.fpu = m.frames[n].fpu
        /\ e.low = m.frames[n].low
    BY <2>1, <1>4 DEF M4FFrames
  <2>3. e.irq # "pendsv"
    BY <1>1, <1>2, <2>2
  <2>4. QED BY <2>2, <2>3, <1>1, <1>2, <1>11, M4FFacts, FpuStage
<1>17. QED BY <1>16, <1>1, <1>11, <1>12, <1>15, M4FFacts, M4FKept

LEMMA M4FUnmasks ==
  ASSUME Control, M4FInv, port = "cortex_m4f", UNCHANGED port,
         M4F!DeviceUnmasks \/ M4F!TickFinishes
  PROVE  StepOK /\ M4FInv'
<1>1. /\ m.frames # <<>> /\ UNCHANGED <<sections, live>>
      /\ Last(m.frames).irq \in {"dev", "tick"}
      /\ Last(m.frames).at \in {"inside", "counted"}
      /\ m' = M4F!AtStage(M4F!portCLEAR_INTERRUPT_MASK_FROM_ISR(m), "done")
  BY DEF M4F!DeviceUnmasks, M4F!TickFinishes, M4F!InHandler, M4F!Frame, M4F!TickEnds,
         Last
<1>2. PICK n \in Nat : /\ n = Len(m.frames) /\ n > 0 /\ n \in 1..n
                       /\ m.frames[n] \in M4FFrames /\ m.frames[n] = Last(m.frames)
  BY <1>1, M4FFacts, TopFrame
<1>3. n = Depth /\ m.frames[n].status = FALSE /\ Inside(n)
  BY <1>1, <1>2, M4FFacts DEF CMInv, FoundUnmasked, Inside, M4FFrames, Depth
<1>4. PICK e \in M4FFrames : e = [m.frames[n] EXCEPT !.at = "done"]
  BY <1>2, Zenon DEF M4FFrames, Stages
<1>5. PICK c : c = [m EXCEPT !.mask = FALSE]
  BY Zenon
<1>6. M4F!portCLEAR_INTERRUPT_MASK_FROM_ISR(m) = c
  BY <1>2, <1>3, <1>5, Zenon
     DEF M4F!portCLEAR_INTERRUPT_MASK_FROM_ISR, M4F!Frame, Last
<1>7. c.frames = m.frames
  BY <1>5, M4FFacts DEF Machines
<1>8. m' = [c EXCEPT !.frames = [m.frames EXCEPT ![n] = e]]
  BY <1>1, <1>2, <1>4, <1>6, <1>7, Zenon DEF M4F!AtStage
<1>9. /\ m'.cur = m.cur /\ m'.regs = m.regs /\ m'.nesting = m.nesting
      /\ m'.mask = FALSE /\ m'.off = m.off /\ m'.pend = m.pend
      /\ m'.frames = [m.frames EXCEPT ![n] = e] /\ m'.saved = m.saved
       /\ m'.fpu = m.fpu /\ m'.fp = m.fp
  BY <1>5, <1>8, M4FFacts DEF Machines
<1>10. m' \in Machines(M4FFrames, M4FSaved)
  <2>1. m' = [m EXCEPT !.frames = [m.frames EXCEPT ![n] = e], !.mask = FALSE]
    BY <1>5, <1>8, M4FFacts, Zenon DEF Machines
  <2>2. [m.frames EXCEPT ![n] = e] \in Seq(M4FFrames)
    BY <1>2, M4FFacts, FrameSet
  <2>3. QED BY <2>1, <2>2, M4FFacts, ZenonT(60) DEF Machines
<1>11. /\ e.irq = m.frames[n].irq /\ e.at = "done" /\ e.status = m.frames[n].status
       /\ m.frames[n].irq # "pendsv"
  BY <1>1, <1>2, <1>4 DEF M4FFrames
<1>12. StepOK /\ CMInv'
  BY <1>1, <1>2, <1>3, <1>9, <1>11, M4FFacts, CMUnmask DEF SameContext
<1>13. OwnFpuM4F'
  <2>1. /\ e.irq = m.frames[n].irq /\ e.fpu = m.frames[n].fpu
        /\ e.low = m.frames[n].low /\ e.irq # "pendsv"
    BY <1>1, <1>2, <1>4, <1>9 DEF M4FFrames
  <2>2. QED BY <2>1, <1>1, <1>2, <1>4, <1>9, M4FFacts, FpuStage, Zenon
<1>14. QED BY <1>13, <1>1, <1>9, <1>10, <1>12, M4FFacts, M4FKept

LEMMA M4FAsks ==
  ASSUME Control, M4FInv, port = "cortex_m4f", UNCHANGED port, M4F!DeviceYields
  PROVE  StepOK /\ M4FInv'
<1>1. /\ m.frames # <<>> /\ UNCHANGED <<sections, live>>
      /\ Last(m.frames).irq = "dev" /\ m' = [m EXCEPT !.pend = TRUE]
  BY DEF M4F!DeviceYields, M4F!InHandler, M4F!Frame, M4F!portYIELD_FROM_ISR,
         Last
<1>2. PICK n \in Nat : /\ n = Len(m.frames) /\ n > 0 /\ n \in 1..n
                       /\ m.frames[n] \in M4FFrames /\ m.frames[n] = Last(m.frames)
  BY <1>1, M4FFacts, TopFrame
<1>3. /\ m'.cur = m.cur /\ m'.regs = m.regs /\ m'.nesting = m.nesting
      /\ m'.mask = m.mask /\ m'.off = m.off /\ m'.pend = TRUE
      /\ m'.frames = m.frames /\ m'.saved = m.saved
      /\ m'.fpu = m.fpu /\ m'.fp = m.fp
  BY <1>1, M4FFacts DEF Machines
<1>4. m' \in Machines(M4FFrames, M4FSaved)
  BY <1>1, M4FFacts, ZenonT(60) DEF Machines
<1>5. Depth > 0 /\ m.frames[Depth].irq # "high"
  BY <1>1, <1>2 DEF Depth
<1>6. StepOK /\ CMInv'
  BY <1>1, <1>3, <1>5, M4FFacts, CMAsk DEF SameContext
<1>7. OwnFpuM4F'
  BY <1>1, <1>3, M4FFacts, FpuKept
<1>8. QED BY <1>7, <1>1, <1>3, <1>4, <1>6, M4FFacts, M4FKept

LEMMA M4FCounts ==
  ASSUME Control, M4FInv, port = "cortex_m4f", UNCHANGED port, M4F!TickCounts
  PROVE  StepOK /\ M4FInv'
<1>1. /\ m.frames # <<>> /\ UNCHANGED <<sections, live>>
      /\ Last(m.frames).irq = "tick" /\ Last(m.frames).at = "inside"
      /\ \/ m' = M4F!AtStage(m, "counted")
         \/ m' = M4F!AtStage([m EXCEPT !.pend = TRUE], "counted")
  BY DEF M4F!TickCounts, M4F!InHandler, M4F!Frame, M4F!TickWantsSwitch, Last
<1>2. PICK n \in Nat : /\ n = Len(m.frames) /\ n > 0 /\ n \in 1..n
                       /\ m.frames[n] \in M4FFrames /\ m.frames[n] = Last(m.frames)
  BY <1>1, M4FFacts, TopFrame
<1>3. PICK p \in BOOLEAN : /\ p = m.pend \/ p = TRUE
                           /\ m' = M4F!AtStage([m EXCEPT !.pend = p], "counted")
  <2>1. m = [m EXCEPT !.pend = m.pend] /\ m.pend \in BOOLEAN
    BY M4FFacts DEF Machines
  <2>2. QED BY <1>1, <2>1, Zenon
<1>4. PICK e \in M4FFrames : e = [m.frames[n] EXCEPT !.at = "counted"]
  BY <1>2, Zenon DEF M4FFrames, Stages
<1>5. PICK c : c = [m EXCEPT !.pend = p]
  BY Zenon
<1>6. c.frames = m.frames
  BY <1>5, M4FFacts DEF Machines
<1>7. m' = [c EXCEPT !.frames = [m.frames EXCEPT ![n] = e]]
  BY <1>2, <1>3, <1>4, <1>5, <1>6, Zenon DEF M4F!AtStage
<1>8. /\ m'.cur = m.cur /\ m'.regs = m.regs /\ m'.nesting = m.nesting
      /\ m'.mask = m.mask /\ m'.off = m.off /\ m'.pend = p
      /\ m'.frames = [m.frames EXCEPT ![n] = e] /\ m'.saved = m.saved
       /\ m'.fpu = m.fpu /\ m'.fp = m.fp
  BY <1>5, <1>7, M4FFacts DEF Machines
<1>9. m' \in Machines(M4FFrames, M4FSaved)
  <2>1. m' = [m EXCEPT !.frames = [m.frames EXCEPT ![n] = e], !.pend = p]
    BY <1>5, <1>7, M4FFacts, Zenon DEF Machines
  <2>2. [m.frames EXCEPT ![n] = e] \in Seq(M4FFrames)
    BY <1>2, M4FFacts, FrameSet
  <2>3. QED BY <2>1, <2>2, M4FFacts, ZenonT(60) DEF Machines
<1>10. /\ e.irq = m.frames[n].irq /\ e.at = "counted" /\ e.status = m.frames[n].status
       /\ m.frames[n].irq = "tick" /\ n = Depth /\ Inside(n)
  BY <1>1, <1>2, <1>4 DEF M4FFrames, Inside, Depth
<1>11. StepOK /\ CMInv'
  BY <1>1, <1>2, <1>3, <1>8, <1>10, M4FFacts, CMCount, Zenon DEF SameContext
<1>12. OwnFpuM4F'
  <2>1. /\ e.irq = m.frames[n].irq /\ e.fpu = m.frames[n].fpu
        /\ e.low = m.frames[n].low /\ e.irq # "pendsv"
    BY <1>1, <1>2, <1>4, <1>8 DEF M4FFrames
  <2>2. QED BY <2>1, <1>1, <1>2, <1>4, <1>8, M4FFacts, FpuStage, Zenon
<1>13. QED BY <1>12, <1>1, <1>8, <1>9, <1>11, M4FFacts, M4FKept


\* What Unstack does, with what the frame at the end of the sequence has.
LEMMA M4FUnstacked ==
  ASSUME NEW c \in Machines(M4FFrames, M4FSaved), NEW n \in Nat,
         Len(c.frames) = n + 1, NEW d, d = M4F!Unstack(c),
         NEW e \in M4FFrames, e = c.frames[n + 1]
  PROVE  /\ d \in Machines(M4FFrames, M4FSaved)
         /\ d.cur = c.cur /\ d.regs = c.regs /\ d.nesting = c.nesting
         /\ d.mask = c.mask /\ d.off = c.off /\ d.pend = c.pend
         /\ d.frames = Front(c.frames) /\ d.saved = c.saved
         /\ d.fpu = e.fpu /\ d.fp.high = c.fp.high
         /\ d.fp.low = (IF e.fpu THEN e.low ELSE c.fp.low)
<1>1. Last(c.frames) = e
  BY DEF Last
<1>2. /\ c.frames \in Seq(M4FFrames) /\ c.fp \in Halves /\ e.fpu \in BOOLEAN
      /\ e.low \in FpValues
  BY DEF Machines, M4FFrames
<1>3. Front(c.frames) \in Seq(M4FFrames)
  BY <1>2, FrontFacts, Zenon
<1>4. PICK h \in Halves : h = [c.fp EXCEPT !.low = IF e.fpu THEN e.low ELSE @]
  BY <1>2, Zenon DEF Halves
<1>5. h.high = c.fp.high /\ h.low = IF e.fpu THEN e.low ELSE c.fp.low
  BY <1>2, <1>4 DEF Halves
<1>6. d = [c EXCEPT !.fpu = e.fpu, !.fp = h, !.frames = Front(c.frames)]
  <2>1. M4F!Frame(c) = e
    BY <1>1, Zenon DEF M4F!Frame, Last
  <2>2. PICK x : x = [c EXCEPT !.fpu = e.fpu, !.fp.low = IF e.fpu THEN e.low ELSE @]
    OBVIOUS
  <2>3. x = [c EXCEPT !.fpu = e.fpu, !.fp = h] /\ x.frames = c.frames
    BY <2>2, <1>4 DEF Machines
  <2>4. d = M4F!Pop(x)
    BY <2>1, <2>2, Zenon DEF M4F!Unstack
  <2>5. d = [x EXCEPT !.frames = Front(c.frames)]
    BY <2>3, <2>4 DEF M4F!Pop, Front
  <2>6. QED BY <2>3, <2>5 DEF Machines
<1>7. d \in Machines(M4FFrames, M4FSaved)
  BY <1>2, <1>3, <1>6, ZenonT(60) DEF Machines
<1>8. /\ d.cur = c.cur /\ d.regs = c.regs /\ d.nesting = c.nesting
      /\ d.mask = c.mask /\ d.off = c.off /\ d.pend = c.pend
      /\ d.frames = Front(c.frames) /\ d.saved = c.saved
      /\ d.fpu = e.fpu /\ d.fp = h
  BY <1>6 DEF Machines
<1>9. QED BY <1>5, <1>7, <1>8

LEMMA M4FReturns ==
  ASSUME Control, M4FInv, port = "cortex_m4f", UNCHANGED port, M4F!HandlerReturns
  PROVE  StepOK /\ M4FInv'
<1>1. /\ m.frames # <<>> /\ UNCHANGED <<sections, live>>
      /\ Last(m.frames).irq # "pendsv" /\ Last(m.frames).at \in {"entered", "done"}
      /\ m' = M4F!Unstack(m)
  BY DEF M4F!HandlerReturns, M4F!InHandler, M4F!Frame, M4F!LeaveHandler,
         Last
<1>2. PICK n \in Nat : /\ n + 1 = Depth /\ m.frames[n + 1] = Last(m.frames)
                       /\ m.frames[n + 1] \in M4FFrames
  <2>1. PICK k \in Nat : /\ k = Len(m.frames) /\ k > 0 /\ m.frames[k] = Last(m.frames)
                         /\ m.frames[k] \in M4FFrames
    BY <1>1, M4FFacts, TopFrame
  <2>2. k - 1 \in Nat /\ (k - 1) + 1 = k
    BY <2>1
  <2>3. QED BY <2>1, <2>2, Zenon DEF Depth
<1>3. PICK e \in M4FFrames : e = m.frames[n + 1]
  BY <1>2
<1>4. /\ m' \in Machines(M4FFrames, M4FSaved)
      /\ m'.cur = m.cur /\ m'.regs = m.regs /\ m'.nesting = m.nesting
      /\ m'.mask = m.mask /\ m'.off = m.off /\ m'.pend = m.pend
      /\ m'.frames = Front(m.frames) /\ m'.saved = m.saved
      /\ m'.fpu = e.fpu /\ m'.fp.high = m.fp.high
      /\ m'.fp.low = (IF e.fpu THEN e.low ELSE m.fp.low)
  BY <1>1, <1>2, <1>3, M4FFacts, M4FUnstacked DEF Depth
<1>5. m.frames[n + 1].irq # "pendsv" /\ ~Inside(n + 1)
  BY <1>1, <1>2 DEF Inside
<1>6. StepOK /\ CMInv'
  BY <1>1, <1>2, <1>4, <1>5, M4FFacts, CMReturn
<1>7. OwnFpuM4F'
  <2>1. /\ (m'.frames = <<>> <=> n = 0)
        /\ \A f \in 1..n : m'.frames[f] = m.frames[f]
    BY <1>2, <1>4, M4FFacts, FramePopped, Zenon
  <2>2. CASE n = 0
    <3>1. m.cur \in live => e.fpu /\ e.low = m.cur /\ m.fp.high = m.cur
      BY <2>2, <1>1, <1>3, <1>5, M4FFacts DEF OwnFpuM4F
    <3>2. m'.fp \in Halves
      BY <1>4 DEF Machines
    <3>3. m.cur \in live => m'.fpu /\ m'.fp = FpOf(m.cur)
      BY <3>1, <3>2, <1>4, FpOfHalves
    <3>4. QED BY <2>1, <2>2, <3>3, <1>1, <1>4, M4FFacts DEF OwnFpuM4F
  <2>3. CASE n > 0
    <3>1. m'.frames[1] = m.frames[1] /\ m'.frames # <<>>
      BY <2>1, <2>3
    <3>2. QED BY <3>1, <1>1, <1>4, M4FFacts DEF OwnFpuM4F
  <2>4. QED BY <2>2, <2>3
<1>8. QED BY <1>4, <1>6, <1>7, M4FFacts, M4FKept

LEMMA M4FPendSV ==
  ASSUME Control, M4FInv, port = "cortex_m4f", M4F!SwitchSteps
  PROVE  /\ m.frames # <<>> /\ UNCHANGED <<sections, live>>
         /\ Last(m.frames).irq = "pendsv"
         /\ \/ /\ Last(m.frames).at = "entered"
               /\ m' = M4F!AtStage([M4F!SaveTask(m) EXCEPT !.mask = TRUE], "inside")
            \/ /\ Last(m.frames).at = "inside"
               /\ \E t \in Threads : m' = M4F!AtStage([m EXCEPT !.cur = t], "switched")
            \/ /\ Last(m.frames).at = "switched"
               /\ m' = M4F!AtStage([m EXCEPT !.mask = FALSE], "done")
            \/ /\ Last(m.frames).at = "done"
               /\ m' = M4F!RestoreTask(m)
<1>1. /\ m.frames # <<>> /\ UNCHANGED <<sections, live>>
      /\ Last(m.frames).irq = "pendsv"
      /\ Last(m.frames).at \in {"entered", "inside", "switched", "done"}
      /\ m' \in M4F!xPortPendSVHandler(m)
  BY DEF M4F!SwitchSteps, M4F!InHandler, M4F!Frame, Last
<1>2. CASE Last(m.frames).at = "entered"
  BY <1>1, <1>2 DEF M4F!xPortPendSVHandler, M4F!Frame, Last
<1>3. CASE Last(m.frames).at = "inside"
  BY <1>1, <1>3 DEF M4F!xPortPendSVHandler, M4F!SwitchContext, M4F!Frame, Last
<1>4. CASE Last(m.frames).at = "switched"
  BY <1>1, <1>4 DEF M4F!xPortPendSVHandler, M4F!Frame, Last
<1>5. CASE Last(m.frames).at = "done"
  BY <1>1, <1>5 DEF M4F!xPortPendSVHandler, M4F!Frame, Last
<1>6. QED BY <1>1, <1>2, <1>3, <1>4, <1>5

LEMMA M4FSwitches ==
  ASSUME Control, M4FInv, port = "cortex_m4f", UNCHANGED port, M4F!SwitchSteps
  PROVE  StepOK /\ M4FInv'
<1>1. m.frames # <<>> /\ UNCHANGED <<sections, live>> /\ Last(m.frames).irq = "pendsv"
  BY M4FPendSV
<1>2. PICK n \in Nat : /\ n = Len(m.frames) /\ n > 0 /\ n \in 1..n
                       /\ m.frames[n] \in M4FFrames /\ m.frames[n] = Last(m.frames)
  BY <1>1, M4FFacts, TopFrame
<1>3. n = Depth /\ n = 1 /\ m.cur \in Threads /\ m.frames[n].irq = "pendsv"
  <2>1. n = Depth
    BY <1>2 DEF Depth
  <2>2. QED BY <1>1, <1>2, <2>1, M4FFacts DEF Control, FramesOK, BeforeStart, Contexts
<1>4. ASSUME NEW stage \in Stages, NEW c \in Machines(M4FFrames, M4FSaved),
             c.frames = m.frames, m' = M4F!AtStage(c, stage), ~c.off
      PROVE  \E e \in M4FFrames :
               /\ e.irq = m.frames[n].irq /\ e.at = stage
               /\ e.status = m.frames[n].status
               /\ e.fpu = m.frames[n].fpu /\ e.low = m.frames[n].low
               /\ m'.fpu = c.fpu /\ m'.fp = c.fp
               /\ m'.cur = c.cur /\ m'.regs = c.regs /\ m'.nesting = c.nesting
               /\ m'.mask = c.mask /\ m'.pend = c.pend /\ m'.saved = c.saved
               /\ m'.frames = [m.frames EXCEPT ![n] = e]
               /\ m' \in Machines(M4FFrames, M4FSaved) /\ ~m'.off
  <2>1. PICK e \in M4FFrames : e = [m.frames[n] EXCEPT !.at = stage]
    BY <1>2, Zenon DEF M4FFrames
  <2>2. m' = [c EXCEPT !.frames = [m.frames EXCEPT ![n] = e]]
    BY <1>2, <1>4, <2>1, Zenon DEF M4F!AtStage
  <2>3. [m.frames EXCEPT ![n] = e] \in Seq(M4FFrames)
    BY <1>2, M4FFacts, FrameSet
  <2>4. m' \in Machines(M4FFrames, M4FSaved)
    BY <1>4, <2>2, <2>3, ZenonT(60) DEF Machines
  <2>5. /\ m'.cur = c.cur /\ m'.regs = c.regs /\ m'.nesting = c.nesting
        /\ m'.fpu = c.fpu /\ m'.fp = c.fp
        /\ m'.mask = c.mask /\ m'.pend = c.pend /\ m'.saved = c.saved
        /\ m'.frames = [m.frames EXCEPT ![n] = e] /\ m'.off = c.off
    BY <1>4, <2>2 DEF Machines
  <2>6. /\ e.irq = m.frames[n].irq /\ e.at = stage /\ e.status = m.frames[n].status
        /\ e.fpu = m.frames[n].fpu /\ e.low = m.frames[n].low
    BY <1>2, <2>1 DEF M4FFrames
  <2>7. QED BY <1>4, <2>4, <2>5, <2>6
<1>5. CASE /\ m.frames[n].at = "entered"
           /\ m' = M4F!AtStage([M4F!SaveTask(m) EXCEPT !.mask = TRUE], "inside")
  <2>1. m.regs = m.cur
    BY <1>2, <1>3, <1>5, M4FFacts DEF CMInv, OwnRegs, Switching
  <2>2. PICK x : x = M4F!Context(m.regs, m.frames[n].fpu,
                                [low |-> m.frames[n].low, high |-> m.fp.high])
    OBVIOUS
  <2>2a. /\ m.frames[n].fpu \in BOOLEAN /\ m.frames[n].low \in FpValues
         /\ m.fp.high \in FpValues
    BY <1>2, M4FFacts DEF M4FFrames, Halves
  <2>2b. PICK h \in Halves :
           h = IF m.frames[n].fpu THEN [low |-> m.frames[n].low, high |-> m.fp.high]
               ELSE [low |-> "none", high |-> "none"]
    BY <2>2a, Zenon DEF Halves, FpValues
  <2>2c. /\ x \in M4FSaved /\ x.regs = m.cur /\ x.fpu = m.frames[n].fpu
         /\ x.fp = h
    BY <2>1, <2>2, <2>2a, <2>2b, M4FFacts DEF M4F!Context, M4F!FpOf, M4FSaved
  <2>3. PICK s : s = [m.saved EXCEPT ![m.cur] = x]
    BY Zenon
  <2>3a. /\ s \in [Threads -> M4FSaved] /\ s[m.cur] = x
         /\ \A t \in Threads : t # m.cur => s[t] = m.saved[t]
    BY <1>3, <2>2c, <2>3, M4FFacts
  <2>3b. \A t \in Threads : s[t].regs = t
    BY <2>2c, <2>3a, M4FFacts DEF CMInv, OwnRegs
  <2>4. PICK c : c = [m EXCEPT !.saved = s, !.mask = TRUE]
    OBVIOUS
  <2>5. m' = M4F!AtStage(c, "inside")
    <3>1. M4F!Frame(m) = m.frames[n]
      BY <1>2, Zenon DEF M4F!Frame, Last
    <3>2. M4F!SaveTask(m) = [m EXCEPT !.saved[m.cur] = x]
      BY <3>1, <2>2, Zenon DEF M4F!SaveTask
    <3>3. M4F!SaveTask(m) = [m EXCEPT !.saved = s]
      BY <3>2, <2>3, Zenon
    <3>4. [M4F!SaveTask(m) EXCEPT !.mask = TRUE] = c
      BY <3>3, <2>4, M4FFacts DEF Machines
    <3>5. QED BY <3>4, <1>5, Zenon
  <2>6. /\ c.cur = m.cur /\ c.regs = m.regs /\ c.nesting = m.nesting
        /\ c.mask = TRUE /\ c.pend = m.pend /\ c.saved = s /\ c.frames = m.frames
        /\ c.fpu = m.fpu /\ c.fp = m.fp /\ ~c.off
    BY <2>4, M4FFacts DEF Machines
  <2>7. c \in Machines(M4FFrames, M4FSaved)
    BY <2>3a, <2>4, M4FFacts, ZenonT(60) DEF Machines
  <2>8. PICK e \in M4FFrames :
               /\ e.irq = m.frames[n].irq /\ e.at = "inside"
               /\ e.status = m.frames[n].status
               /\ e.fpu = m.frames[n].fpu /\ e.low = m.frames[n].low
               /\ m'.fpu = c.fpu /\ m'.fp = c.fp
               /\ m'.cur = c.cur /\ m'.regs = c.regs /\ m'.nesting = c.nesting
               /\ m'.mask = c.mask /\ m'.pend = c.pend /\ m'.saved = c.saved
               /\ m'.frames = [m.frames EXCEPT ![n] = e]
               /\ m' \in Machines(M4FFrames, M4FSaved) /\ ~m'.off
    BY <1>4, <2>5, <2>6, <2>7, Zenon DEF Stages
  <2>9. ~e.status
    BY <1>2, <1>3, <2>8, M4FFacts DEF CMInv, FoundUnmasked
  <2>10. \A t \in Threads : m'.saved[t].regs = t
    BY <2>3b, <2>6, <2>8
  <2>11. StepOK /\ CMInv'
    <3>1. /\ m'.frames = [m.frames EXCEPT ![n] = e]
          /\ e.irq = m.frames[n].irq /\ e.at = "inside" /\ ~e.status
          /\ m.frames[n].irq # "high" /\ m.frames[n].at = "entered"
          /\ m'.cur = m.cur /\ m'.pend = m.pend /\ m'.nesting = m.nesting
          /\ m'.regs = m.regs /\ Masked'
      BY <1>3, <1>5, <2>6, <2>8, <2>9, M4FFacts
    <3>2. m.frames \in Seq(M4FFrames) /\ CortexM /\ CMInv /\ UNCHANGED <<port, sections>>
      BY <1>1, M4FFacts
    <3>3. QED BY <1>2, <1>3, <2>10, <3>1, <3>2, CMMask
  <2>12. OwnFpuM4F'
    <3>1. m'.frames # <<>> /\ m'.frames[1].irq = "pendsv" /\ m'.frames[1].at = "inside"
      <4>1. m'.frames[n] = e /\ Len(m'.frames) = n
        BY <1>2, <2>8, M4FFacts, FrameSet
      <4>2. m'.frames # <<>>
        BY <4>1, <1>3
      <4>3. QED BY <4>1, <4>2, <1>3, <2>8
    <3>2. m.cur \in live => x.fpu /\ h.low = m.cur /\ h.high = m.cur
      BY <1>1, <1>3, <1>5, <2>2b, <2>2c, M4FFacts DEF OwnFpuM4F
    <3>3. m.cur \in live => s[m.cur].fpu /\ s[m.cur].fp = FpOf(m.cur)
      BY <3>2, <2>2c, <2>3a, FpOfHalves
    <3>4. m'.cur = m.cur /\ m'.saved = s
      BY <2>6, <2>8
    <3>5. QED BY <3>1, <3>3, <3>4, <1>1, <1>3, <2>3a, M4FFacts DEF OwnFpuM4F
  <2>13. QED BY <1>1, <2>8, <2>11, <2>12, M4FFacts, M4FKept
<1>6. CASE /\ m.frames[n].at = "inside"
           /\ \E t \in Threads : m' = M4F!AtStage([m EXCEPT !.cur = t], "switched")
  <2>1. PICK t \in Threads : m' = M4F!AtStage([m EXCEPT !.cur = t], "switched")
    BY <1>6
  <2>2. PICK c : c = [m EXCEPT !.cur = t]
    BY Zenon
  <2>3. /\ c.cur = t /\ c.regs = m.regs /\ c.nesting = m.nesting
        /\ c.mask = m.mask /\ c.pend = m.pend /\ c.saved = m.saved
        /\ c.fpu = m.fpu /\ c.fp = m.fp
        /\ c.frames = m.frames /\ ~c.off
    BY <2>2, M4FFacts DEF Machines
  <2>4. c \in Machines(M4FFrames, M4FSaved)
    BY <2>2, M4FFacts, ZenonT(60) DEF Machines
  <2>5. PICK e \in M4FFrames :
               /\ e.irq = m.frames[n].irq /\ e.at = "switched"
               /\ e.status = m.frames[n].status
               /\ e.fpu = m.frames[n].fpu /\ e.low = m.frames[n].low
               /\ m'.fpu = c.fpu /\ m'.fp = c.fp
               /\ m'.cur = c.cur /\ m'.regs = c.regs /\ m'.nesting = c.nesting
               /\ m'.mask = c.mask /\ m'.pend = c.pend /\ m'.saved = c.saved
               /\ m'.frames = [m.frames EXCEPT ![n] = e]
               /\ m' \in Machines(M4FFrames, M4FSaved) /\ ~m'.off
    BY <1>4, <2>1, <2>2, <2>3, <2>4, Zenon DEF Stages
  <2>6. StepOK /\ CMInv'
    BY <1>1, <1>2, <1>3, <1>6, <2>3, <2>5, M4FFacts, CMPick
  <2>7. OwnFpuM4F'
    <3>1. m'.frames # <<>> /\ m'.frames[1].irq = "pendsv" /\ m'.frames[1].at = "switched"
      <4>1. m'.frames[n] = e /\ Len(m'.frames) = n
        BY <1>2, <2>5, M4FFacts, FrameSet
      <4>2. m'.frames # <<>>
        BY <4>1, <1>3
      <4>3. QED BY <4>1, <4>2, <1>3, <2>5
    <3>2. \A u \in live : m.saved[u].fpu /\ m.saved[u].fp = FpOf(u)
      BY <1>1, <1>3, <1>6, M4FFacts DEF OwnFpuM4F
    <3>3. m'.cur \in Threads /\ m'.saved = m.saved
      BY <2>3, <2>5
    <3>4. QED BY <3>1, <3>2, <3>3, <1>1, M4FFacts DEF OwnFpuM4F
  <2>8. QED BY <1>1, <2>5, <2>6, <2>7, M4FFacts, M4FKept
<1>7. CASE /\ m.frames[n].at = "switched"
           /\ m' = M4F!AtStage([m EXCEPT !.mask = FALSE], "done")
  <2>2. PICK c : c = [m EXCEPT !.mask = FALSE]
    BY Zenon
  <2>3. /\ c.cur = m.cur /\ c.regs = m.regs /\ c.nesting = m.nesting
        /\ c.mask = FALSE /\ c.pend = m.pend /\ c.saved = m.saved
        /\ c.fpu = m.fpu /\ c.fp = m.fp
        /\ c.frames = m.frames /\ ~c.off
    BY <2>2, M4FFacts DEF Machines
  <2>4. c \in Machines(M4FFrames, M4FSaved)
    BY <2>2, M4FFacts, ZenonT(60) DEF Machines
  <2>5. PICK e \in M4FFrames :
               /\ e.irq = m.frames[n].irq /\ e.at = "done"
               /\ e.status = m.frames[n].status
               /\ e.fpu = m.frames[n].fpu /\ e.low = m.frames[n].low
               /\ m'.fpu = c.fpu /\ m'.fp = c.fp
               /\ m'.cur = c.cur /\ m'.regs = c.regs /\ m'.nesting = c.nesting
               /\ m'.mask = c.mask /\ m'.pend = c.pend /\ m'.saved = c.saved
               /\ m'.frames = [m.frames EXCEPT ![n] = e]
               /\ m' \in Machines(M4FFrames, M4FSaved) /\ ~m'.off
    BY <1>4, <1>7, <2>2, <2>3, <2>4, Zenon DEF Stages
  <2>6. Inside(n)
    BY <1>7 DEF Inside
  <2>7. StepOK /\ CMInv'
    <3>1. SameContext /\ m'.pend = m.pend /\ ~Masked'
      BY <2>3, <2>5, M4FFacts DEF SameContext
    <3>2. /\ e.irq = m.frames[n].irq /\ e.at = "done" /\ e.status = m.frames[n].status
          /\ m.frames[n].irq = "pendsv" => m.frames[n].at = "switched"
          /\ n = Depth /\ m'.frames = [m.frames EXCEPT ![n] = e]
      BY <1>3, <1>7, <2>5
    <3>3. QED BY <1>1, <1>2, <2>6, <3>1, <3>2, M4FFacts, CMUnmask
  <2>8. OwnFpuM4F'
    BY <1>1, <1>2, <1>7, <2>3, <2>5, M4FFacts, FpuStage, Zenon
  <2>9. QED BY <1>1, <2>5, <2>7, <2>8, M4FFacts, M4FKept
<1>8. CASE m.frames[n].at = "done" /\ m' = M4F!RestoreTask(m)
  <2>1. PICK x \in M4FSaved : x = m.saved[m.cur]
    BY <1>3, M4FFacts
  <2>2. /\ x.regs \in Contexts /\ x.fpu \in BOOLEAN /\ x.fp.low \in FpValues
        /\ x.fp.high \in FpValues /\ x.regs = m.saved[m.cur].regs
    BY <2>1 DEF M4FSaved, Halves
  <2>3. PICK e \in M4FFrames : e = [[m.frames[n] EXCEPT !.fpu = x.fpu]
                                     EXCEPT !.low = x.fp.low]
    BY <1>2, <2>2, Zenon DEF M4FFrames
  <2>4. PICK h \in Halves : h = [m.fp EXCEPT !.high = IF x.fpu THEN x.fp.high ELSE @]
    BY <2>2, M4FFacts, Zenon DEF Halves
  <2>5. PICK d \in M4FFrames : d = [m.frames[n] EXCEPT !.fpu = x.fpu]
    BY <1>2, <2>2, Zenon DEF M4FFrames
  <2>6. PICK s : s = [m.frames EXCEPT ![n] = d]
    BY Zenon
  <2>7. /\ s \in Seq(M4FFrames) /\ Len(s) = n /\ s[n] = d
        /\ [s EXCEPT ![n] = e] = [m.frames EXCEPT ![n] = e]
        /\ [m.frames EXCEPT ![n] = e] \in Seq(M4FFrames)
        /\ Len([m.frames EXCEPT ![n] = e]) = n /\ [m.frames EXCEPT ![n] = e][n] = e
    BY <1>2, <2>6, M4FFacts, FrameSet
  <2>8. PICK r : r = [m.frames EXCEPT ![n] = e]
    BY Zenon
  <2>9. PICK c : c = [m EXCEPT !.regs = x.regs, !.fp = h, !.frames = r]
    OBVIOUS
  <2>10. c \in Machines(M4FFrames, M4FSaved)
    BY <2>2, <2>7, <2>8, <2>9, M4FFacts, ZenonT(60) DEF Machines
  <2>11. /\ c.cur = m.cur /\ c.regs = x.regs /\ c.nesting = m.nesting
         /\ c.mask = m.mask /\ c.off = m.off /\ c.pend = m.pend
         /\ c.frames = r /\ c.saved = m.saved /\ c.fp = h
    BY <2>9, M4FFacts DEF Machines
  <2>12. m' = M4F!Unstack(c)
    <3>1. PICK c1 : c1 = [m EXCEPT !.regs = x.regs,
                            !.fp.high = IF x.fpu THEN x.fp.high ELSE @,
                            !.frames[Len(m.frames)].fpu = x.fpu,
                            !.frames[Len(m.frames)].low = x.fp.low]
      OBVIOUS
    <3>2. m' = M4F!Unstack(c1)
      BY <1>8, <2>1, <3>1, Zenon DEF M4F!RestoreTask
    <3>3. c1 = [m EXCEPT !.regs = x.regs, !.fp = h, !.frames = s,
                         !.frames[n].low = x.fp.low]
      BY <1>2, <2>4, <2>5, <2>6, <3>1, Zenon
    <3>4. c1 = c
      BY <1>2, <2>3, <2>5, <2>7, <2>8, <2>9, <3>3, M4FFacts, Zenon DEF Machines
    <3>5. QED BY <3>2, <3>4
  <2>13. PICK k \in Nat : k = 0 /\ n = k + 1
    BY <1>3
  <2>13a. Len(c.frames) = k + 1 /\ c.frames[k + 1] = e
    BY <2>7, <2>8, <2>11, <2>13
  <2>14. /\ m' \in Machines(M4FFrames, M4FSaved)
         /\ m'.cur = m.cur /\ m'.regs = x.regs /\ m'.nesting = m.nesting
         /\ m'.mask = m.mask /\ m'.off = m.off /\ m'.pend = m.pend
         /\ m'.frames = Front(r) /\ m'.saved = m.saved
         /\ m'.fpu = e.fpu /\ m'.fp.high = h.high
         /\ m'.fp.low = (IF e.fpu THEN e.low ELSE c.fp.low)
    <3>1. /\ m' \in Machines(M4FFrames, M4FSaved)
          /\ m'.cur = c.cur /\ m'.regs = c.regs /\ m'.nesting = c.nesting
          /\ m'.mask = c.mask /\ m'.off = c.off /\ m'.pend = c.pend
          /\ m'.frames = Front(c.frames) /\ m'.saved = c.saved
          /\ m'.fpu = e.fpu /\ m'.fp.high = c.fp.high
          /\ m'.fp.low = (IF e.fpu THEN e.low ELSE c.fp.low)
      <4>1. PICK j \in Nat : j = k
        BY <2>13
      <4>2. Len(c.frames) = j + 1 /\ e = c.frames[j + 1]
        BY <2>13a, <4>1
      <4>3. PICK g : g = m'
        OBVIOUS
      <4>4. g = M4F!Unstack(c)
        BY <2>12, <4>3
      <4>5. /\ g \in Machines(M4FFrames, M4FSaved)
            /\ g.cur = c.cur /\ g.regs = c.regs /\ g.nesting = c.nesting
            /\ g.mask = c.mask /\ g.off = c.off /\ g.pend = c.pend
            /\ g.frames = Front(c.frames) /\ g.saved = c.saved
            /\ g.fpu = e.fpu /\ g.fp.high = c.fp.high
            /\ g.fp.low = (IF e.fpu THEN e.low ELSE c.fp.low)
        BY <2>10, <4>2, <4>4, M4FUnstacked
      <4>6. QED BY <4>3, <4>5
    <3>2. QED BY <3>1, <2>11
  <2>15. m'.frames = Front(m.frames) /\ m'.frames = <<>>
    <3>1. r \in Seq(M4FFrames) /\ Len(r) = k + 1
      BY <2>7, <2>8, <2>13
    <3>2. Front(r) \in Seq(M4FFrames) /\ Len(Front(r)) = k
      BY <3>1, FrontFacts
    <3>3. m.frames \in Seq(M4FFrames) /\ Len(m.frames) = k + 1
      BY <1>2, <2>13, M4FFacts
    <3>4. Front(m.frames) \in Seq(M4FFrames) /\ Len(Front(m.frames)) = k
      BY <3>3, FrontFacts
    <3>5. Front(r) = <<>> /\ Front(m.frames) = <<>>
      BY <2>13, <3>2, <3>4
    <3>6. QED BY <3>5, <2>14
  <2>16. /\ Depth = 0 + 1 /\ m.frames[0 + 1].irq = "pendsv"
         /\ m.frames[0 + 1].at = "done" /\ 0 \in Nat
    BY <1>3, <1>8
  <2>17. StepOK /\ CMInv'
    BY <1>1, <2>2, <2>14, <2>15, <2>16, M4FFacts, CMReturn
  <2>18. OwnFpuM4F'
    <3>1. m.cur \in live => x.fpu /\ x.fp = FpOf(m.cur)
      BY <1>1, <1>3, <1>8, <2>1, M4FFacts DEF OwnFpuM4F
    <3>2. e.fpu = x.fpu /\ e.low = x.fp.low /\ (x.fpu => h.high = x.fp.high)
      BY <1>2, <2>2, <2>3, <2>4, M4FFacts DEF M4FFrames, Halves
    <3>3. m.cur \in live => m'.fpu /\ m'.fp.low = m.cur /\ m'.fp.high = m.cur
      BY <3>1, <3>2, <2>14 DEF FpOf
    <3>4. m'.fp \in Halves
      BY <2>14 DEF Machines
    <3>5. m.cur \in live => m'.fpu /\ m'.fp = FpOf(m.cur)
      BY <3>3, <3>4, FpOfHalves
    <3>6. QED BY <3>5, <1>1, <2>14, <2>15, M4FFacts DEF OwnFpuM4F
  <2>19. QED BY <2>14, <2>17, <2>18, M4FFacts, M4FKept
<1>9. QED BY <1>2, <1>5, <1>6, <1>7, <1>8, M4FPendSV, Zenon

LEMMA M4FStep ==
  ASSUME Control, M4FInv, port = "cortex_m4f", UNCHANGED port, M4F!PortNext
  PROVE  StepOK /\ M4FInv'
<1>1. ASSUME NEW t \in Threads, M4F!StartScheduler(t)
      PROVE  StepOK /\ M4FInv'
  BY <1>1, M4FStart
<1>2. ASSUME NEW i \in Interrupts, M4F!Interrupted(i)
      PROVE  StepOK /\ M4FInv'
  BY <1>2, M4FInterrupted
<1>3. \/ M4F!EnterSection \/ M4F!LeaveSection \/ M4F!Yield \/ M4F!RegisterFpu
      \/ M4F!TaskUsesFpu \/ M4F!HandlerUsesFpu \/ M4F!DeviceMasks
      \/ M4F!DeviceUnmasks \/ M4F!DeviceYields \/ M4F!TickBegins \/ M4F!TickCounts
      \/ M4F!TickFinishes \/ M4F!HandlerReturns \/ M4F!SwitchInterrupts
      \/ M4F!SwitchSteps
      \/ (\E t \in Threads : M4F!StartScheduler(t))
      \/ (\E i \in Interrupts : M4F!Interrupted(i))
  BY Zenon DEF M4F!PortNext, M4F!Interrupts, Interrupts
<1>4. QED
  BY <1>1, <1>2, <1>3, M4FEnter, M4FLeave, M4FYield, M4FRegisters, M4FTaskUses, M4FHandlerUses,
     M4FSwitchTaken, M4FMasks,
     M4FUnmasks, M4FAsks, M4FCounts, M4FReturns, M4FSwitches

-----------------------------------------------------------------------------
(* The ports to the Cortex-A.                                              *)

CortexA == port \in {"cortex_a9", "cortex_a53"}

CAInv == OwnNesting /\ OwnRegsA /\ FoundUnmasked /\ Nested /\ SavedFpu

LEMMA CANested ==
  ASSUME m'.frames = <<>>, m'.depth = 0, ~m'.pend,
         \A t \in Threads : t # m'.cur => ~m'.saved[t].off
  PROVE  FoundUnmasked' /\ Nested'
<1>1. Depth' = 0
  BY NoFrames
<1>2. QED BY <1>1 DEF FoundUnmasked, Nested

\* Nothing waits for a task to be interrupted: what asked for a switch has made
\* it.
LEMMA CASection ==
  ASSUME Control, CortexA, CAInv, UNCHANGED <<port, live>>, m.frames = <<>>,
         m'.frames = <<>>, m'.cur = m.cur, m'.pend = m.pend, m'.regs = m.regs,
         m'.saved = m.saved, m'.depth = m.depth, m'.fpu = m.fpu,
         \/ /\ sections' = [sections EXCEPT ![m.cur] = @ + 1]
            /\ m'.nesting = m.nesting + 1 /\ Masked'
         \/ /\ sections[m.cur] > 0 /\ sections' = [sections EXCEPT ![m.cur] = @ - 1]
            /\ m'.nesting = m.nesting - 1
            /\ m.nesting = 1 => ~Masked'
            /\ m.nesting # 1 => (Masked' <=> Masked)
  PROVE  StepOK /\ CAInv'
<1>1. ~m.pend /\ m.depth = 0
  BY NoFramesNow DEF CAInv, Nested
<1>2. /\ m.cur \in Contexts /\ sections[m.cur] \in Nat
      /\ \A t \in Contexts : t # m.cur => sections'[t] = sections[t]
      /\ m.cur \in Threads => m.nesting = sections[m.cur]
      /\ m.cur = main => m.nesting = 9999 + sections[m.cur]
      /\ sections'[m.cur] = sections[m.cur] + 1 \/ sections'[m.cur] = sections[m.cur] - 1
      /\ m'.nesting - m.nesting = sections'[m.cur] - sections[m.cur]
      /\ Threads \subseteq Contexts
  BY ControlFacts DEF CAInv, OwnNesting, Contexts
<1>3. m.cur \in Threads => (Masked' <=> sections'[m.cur] > 0)
  <2>1. m.cur \in Threads /\ sections[m.cur] > 0 => Masked
    BY DEF Control, Guarded
  <2>2. QED BY <1>2, <2>1, ControlFacts
<1>4. Control' /\ (Promise!Enters \/ Promise!Leaves)
  <2>1. \/ sections' = [sections EXCEPT ![m.cur] = @ + 1]
        \/ sections[m.cur] > 0 /\ sections' = [sections EXCEPT ![m.cur] = @ - 1]
    OBVIOUS
  <2>2. m.pend => sections[m.cur] > 0
    BY <1>1
  <2>3. QED BY <1>3, <2>1, <2>2, SectionStep
<1>5. OwnNesting'
  BY <1>2, ControlFacts DEF CAInv, OwnNesting
<1>6. OwnRegsA' /\ SavedFpu'
  BY DEF CAInv, OwnRegsA, SavedFpu
<1>7. FoundUnmasked' /\ Nested'
  BY <1>1, CANested DEF CAInv, Nested
<1>8. QED
  BY <1>4, <1>5, <1>6, <1>7 DEF StepOK, CAInv, Promise!ProcessorNext

LEMMA CAStart ==
  ASSUME Control, CortexA, CAInv, UNCHANGED <<port, sections, live>>, m.cur = main,
         NEW t \in Threads, m'.cur = t, m'.frames = m.frames, m'.pend = m.pend,
         m'.depth = m.depth, m'.saved = m.saved, m'.regs = m.saved[t].regs,
         m'.nesting = m.saved[t].nesting, Masked' <=> m.saved[t].nesting # 0,
         m'.off <=> m.saved[t].off, m'.fpu <=> m.saved[t].fpu
  PROVE  StepOK /\ CAInv' /\ ~m'.off
<1>1. /\ m.frames = <<>> /\ ~m.pend /\ m.depth = 0 /\ sections[t] = 0 /\ t # main
      /\ m.pend \in BOOLEAN
  BY NoFramesNow, ControlFacts DEF Control, BeforeStart, CAInv, Nested
<1>2. m.saved[t].regs = t /\ m.saved[t].nesting = 0 /\ ~m.saved[t].off
  BY <1>1 DEF CAInv, OwnNesting, OwnRegsA, Nested
<1>3. Control' /\ Promise!Starts
  <2>1. m'.pend = FALSE /\ m'.frames = <<>> /\ ~Masked'
    BY <1>1, <1>2
  <2>2. QED BY <2>1, StartStep, Zenon
<1>4. OwnNesting' /\ OwnRegsA'
  BY <1>1, <1>2, ControlFacts DEF CAInv, OwnNesting, OwnRegsA, Control, BeforeStart
<1>5. \A u \in Threads : u # m.cur
  BY ControlFacts
<1>6. SavedFpu'
  BY <1>5 DEF CAInv, SavedFpu
<1>7. FoundUnmasked' /\ Nested'
  BY <1>1, <1>5, CANested DEF CAInv, Nested
<1>8. QED
  BY <1>2, <1>3, <1>4, <1>6, <1>7 DEF StepOK, CAInv, Promise!ProcessorNext

\* A switch to any task, the current one included: x is what is saved.
LEMMA CASwitched ==
  ASSUME Control, CAInv, UNCHANGED <<port, sections, live>>, m.cur \in Threads,
         m.saved \in [Threads -> ASaved], NEW x \in ASaved, NEW s,
         s = [m.saved EXCEPT ![m.cur] = x],
         x.regs = m.cur, x.nesting = sections[m.cur], ~x.off,
         m.cur \in live => x.fpu /\ x.fp = FpOf(m.cur),
         NEW t \in Threads, m'.cur = t, m'.saved = s, m'.regs = s[t].regs,
         m'.nesting = s[t].nesting, Masked' <=> s[t].nesting # 0,
         m'.off <=> s[t].off, m'.fpu <=> s[t].fpu, s[t].fpu => m'.fp = s[t].fp,
         m'.frames = <<>>, m'.depth = 0, ~m'.pend
  PROVE  /\ CAInv' /\ (Masked' <=> sections[t] > 0) /\ ~m'.off
         /\ t \in live => m'.fp = FpOf(t)
<1>1. \A u \in Threads : s[u] = IF u = m.cur THEN x ELSE m.saved[u]
  OBVIOUS
<1>2. \A u \in Threads : s[u].nesting = sections[u] /\ s[u].regs = u /\ ~s[u].off
  BY <1>1 DEF CAInv, OwnNesting, OwnRegsA, Nested
<1>3. \A u \in live : s[u].fpu /\ s[u].fp = FpOf(u)
  BY <1>1 DEF CAInv, SavedFpu
<1>4. live \subseteq Threads
  BY DEF CAInv, SavedFpu
<1>5. OwnNesting' /\ OwnRegsA'
  BY <1>2, ControlFacts DEF OwnNesting, OwnRegsA
<1>6. SavedFpu'
  BY <1>3, <1>4 DEF SavedFpu
<1>7. FoundUnmasked' /\ Nested'
  BY <1>2, CANested
<1>8. sections[t] \in Nat
  BY ControlFacts DEF Contexts
<1>9. QED
  BY <1>2, <1>3, <1>5, <1>6, <1>7, <1>8 DEF CAInv

LEMMA CAYield ==
  ASSUME Control, CAInv, UNCHANGED <<port, sections>>, m.cur \in Threads,
         m.frames = <<>>, m'.frames = <<>>, m'.cur \in Threads, m'.pend = m.pend,
         CAInv', Masked' <=> sections[m'.cur] > 0
  PROVE  StepOK
<1>1. m.pend => sections[m.cur] > 0
  BY DEF CAInv, Nested
<1>2. Control' /\ Promise!Yields
  BY <1>1, YieldStep, Zenon
<1>3. QED BY <1>2 DEF StepOK, Promise!ProcessorNext

LEMMA CASame ==
  ASSUME CAInv, SameContext, UNCHANGED <<sections, live>>, m.fpu => m'.fpu
  PROVE  OwnNesting' /\ OwnRegsA' /\ SavedFpu'
BY DEF CAInv, SameContext, OwnNesting, OwnRegsA, SavedFpu

LEMMA CAQuiet ==
  ASSUME Control, CAInv, UNCHANGED <<port, sections, live>>, NEW F,
         m'.frames \in Seq(F), SameContext, m.fpu => m'.fpu,
         m'.frames = m.frames, m'.pend = m.pend, m'.depth = m.depth,
         Masked' = Masked
  PROVE  StepOK /\ CAInv'
<1>1. Depth' = Depth /\ SameDepth /\ \A f \in 1..Depth : SameFrame(f)
  BY FramesKept
<1>2. Control' /\ UNCHANGED <<Handlers, Wanted>>
  BY <1>1, QuietStep DEF SameContext
<1>3. OwnNesting' /\ OwnRegsA' /\ SavedFpu'
  BY CASame
<1>4. FoundUnmasked' /\ Nested'
  BY <1>1 DEF CAInv, FoundUnmasked, Nested, SameContext
<1>5. QED
  BY <1>2, <1>3, <1>4 DEF StepOK, CAInv, SameContext

LEMMA CAAsk ==
  ASSUME Control, CAInv, UNCHANGED <<port, sections, live>>, NEW F,
         m'.frames \in Seq(F), SameContext, m'.fpu = m.fpu,
         m'.frames = m.frames, m'.pend = TRUE, m'.depth = m.depth,
         Masked' <=> Masked, Depth > 0, m.frames[Depth].irq # "high"
  PROVE  StepOK /\ CAInv'
<1>1. Depth' = Depth /\ SameDepth /\ \A f \in 1..Depth : SameFrame(f)
  BY FramesKept
<1>2. Control' /\ Promise!HandlerAsks
  BY <1>1, AskStep, Zenon DEF SameContext
<1>3. OwnNesting' /\ OwnRegsA' /\ SavedFpu'
  BY CASame
<1>4. m.frames # <<>>
  BY ControlFacts
<1>5. FoundUnmasked' /\ Nested'
  BY <1>1, <1>4 DEF CAInv, FoundUnmasked, Nested, SameContext
<1>6. QED
  BY <1>2, <1>3, <1>5 DEF StepOK, CAInv, Promise!ProcessorNext

LEMMA CAEnter ==
  ASSUME Control, CortexA, CAInv, UNCHANGED <<port, sections, live>>,
         NEW F, m.frames \in Seq(F), NEW e \in F, m'.frames = Append(m.frames, e),
         e.irq \in Irqs \ {"pendsv"}, e.at = "entered", ~e.status, ~e.off,
         e.outer = m.depth, m'.depth = m.depth + 1, m.cur \in Threads, SameContext,
         m'.fpu = m.fpu, m'.pend = m.pend, Masked' <=> Masked,
         e.irq # "high" => ~Masked
  PROVE  StepOK /\ CAInv'
<1>1. PICK n \in Nat : n = Depth
  BY ControlFacts
<1>2. /\ m'.frames \in Seq(F) /\ Len(m'.frames) = n + 1 /\ m'.frames # <<>>
      /\ Depth' = n + 1 /\ m'.frames[n + 1] = e
      /\ \A f \in 1..n : m'.frames[f] = m.frames[f] /\ SameFrame(f)
  BY <1>1, FramePushed
<1>3. Wanted' <=> Wanted
  <2>1. SwitchInProgress' <=> SwitchInProgress
    <3>1. \A f \in 1..(n + 1) : f = n + 1 \/ f \in 1..n
      OBVIOUS
    <3>2. SwitchInProgress =>
            \E f \in 1..n : m.frames[f].irq = "pendsv" /\ m.frames[f].at \in {"entered", "inside"}
      BY <1>1 DEF SwitchInProgress, Depth
    <3>3. SwitchInProgress' =>
            \E f \in 1..(n + 1) : m'.frames[f].irq = "pendsv" /\ m'.frames[f].at \in {"entered", "inside"}
      BY <1>2 DEF SwitchInProgress, Depth
    <3>4. n \in Nat /\ \A f \in 1..n : f \in 1..(n + 1)
      OBVIOUS
    <3>5. SwitchInProgress => SwitchInProgress'
      BY <1>2, <3>2, <3>4 DEF SwitchInProgress
    <3>6. SwitchInProgress' => SwitchInProgress
      BY <1>1, <1>2, <3>1, <3>3 DEF SwitchInProgress, Depth
    <3>7. QED BY <3>5, <3>6
  <2>2. QED BY <2>1 DEF Wanted
<1>4. Control' /\ Promise!Accepts
  <2>1. PICK i \in Irqs : i = e.irq /\ i # "pendsv"
    OBVIOUS
  <2>2. /\ i # "high" => ~Masked
        /\ i = "pendsv" => Depth = 0
        /\ m'.frames[Depth + 1].irq = i /\ m'.frames[Depth + 1].at = "entered"
        /\ m'.pend \in BOOLEAN /\ Len(m'.frames) = Depth + 1
        /\ \A f \in 1..Depth : SameFrame(f)
    BY <1>1, <1>2, <2>1, ControlFacts
  <2>3. Masked => Masked'
    OBVIOUS
  <2>4. m'.cur = m.cur
    BY DEF SameContext
  <2>5. QED BY <1>2, <1>3, <2>2, <2>3, <2>4, EnterStep
<1>5. OwnNesting' /\ OwnRegsA' /\ SavedFpu'
  BY CASame
<1>6. FoundUnmasked' /\ Nested'
  <2>1. m.depth = n
    BY <1>1 DEF CAInv, Nested
  <2>2. \A f \in 1..(n + 1) :
          ~m'.frames[f].status /\ ~m'.frames[f].off /\ m'.frames[f].outer = f - 1
    <3>1. \A f \in 1..(n + 1) : f = n + 1 \/ f \in 1..n
      OBVIOUS
    <3>2. \A f \in 1..n :
            ~m.frames[f].status /\ ~m.frames[f].off /\ m.frames[f].outer = f - 1
      BY <1>1 DEF CAInv, FoundUnmasked, Nested
    <3>3. QED BY <1>2, <2>1, <3>1, <3>2
  <2>3. QED BY <1>2, <2>1, <2>2, Zenon DEF CAInv, FoundUnmasked, Nested, SameContext
<1>7. QED
  BY <1>4, <1>5, <1>6 DEF StepOK, CAInv, Promise!ProcessorNext

\* The innermost handler goes on: what it found stays.
LEMMA CAFound ==
  ASSUME CAInv, SameContext, NEW n \in Nat, n = Depth, n > 0, Depth' = n,
         m'.frames # <<>>, ~m'.frames[n].status, ~m'.frames[n].off,
         m'.frames[n].outer = m.frames[n].outer, m'.depth = m.depth,
         \A f \in 1..n : f # n => m'.frames[f] = m.frames[f]
  PROVE  FoundUnmasked' /\ Nested'
<1>1. \A f \in 1..n :
        ~m.frames[f].status /\ ~m.frames[f].off /\ m.frames[f].outer = f - 1
  BY DEF CAInv, FoundUnmasked, Nested
<1>2. \A f \in 1..n :
        ~m'.frames[f].status /\ ~m'.frames[f].off /\ m'.frames[f].outer = f - 1
  BY <1>1
<1>3. QED BY <1>2 DEF CAInv, FoundUnmasked, Nested, SameContext

LEMMA CANoneInside ==
  ASSUME Control, CortexA, Depth > 0, m.frames[Depth].irq # "high", ~Inside(Depth)
  PROVE  ~Masked
<1>1. PICK n \in Nat : n = Depth
  BY ControlFacts
<1>2. m.cur \in Threads
  BY <1>1, ControlFacts DEF Control, BeforeStart, Contexts
<1>3. \A f \in 1..n : ~Inside(f)
  BY <1>1 DEF Control, FramesOK
<1>4. sections[m.cur] = 0
  BY <1>1, <1>2, ControlFacts DEF Control, Guarded
<1>5. QED
  BY <1>1, <1>2, <1>3, <1>4 DEF Control, Guarded, CortexA

LEMMA CAMask ==
  ASSUME Control, CortexA, CAInv, UNCHANGED <<port, sections, live>>,
         NEW F, m.frames \in Seq(F), NEW n \in Nat, n = Depth, n > 0,
         NEW e \in F, m'.frames = [m.frames EXCEPT ![n] = e],
         e.irq = m.frames[n].irq, e.at = "inside", ~e.status, ~e.off,
         e.outer = m.frames[n].outer, m'.depth = m.depth,
         m.frames[n].irq # "high", m.frames[n].at = "entered",
         SameContext, m'.fpu = m.fpu, m'.pend = m.pend, Masked'
  PROVE  StepOK /\ CAInv'
<1>1. /\ m'.frames \in Seq(F) /\ m'.frames # <<>> /\ Depth > 0
      /\ Depth' = n /\ SameDepth /\ TopMoves("inside") /\ m'.frames[n] = e
      /\ \A f \in 1..n : f # n => m'.frames[f] = m.frames[f]
  BY FrameReplaced
<1>2. m.frames[Depth].irq # "high" /\ m.frames[Depth].at = "entered"
  OBVIOUS
<1>3. Control' /\ Promise!HandlerMasks
  BY <1>1, <1>2, MaskStep DEF SameContext
<1>4. OwnNesting' /\ OwnRegsA' /\ SavedFpu'
  BY CASame
<1>5. FoundUnmasked' /\ Nested'
  BY <1>1, CAFound
<1>6. QED
  BY <1>3, <1>4, <1>5 DEF StepOK, CAInv, Promise!ProcessorNext

LEMMA CAUnmask ==
  ASSUME Control, CortexA, CAInv, UNCHANGED <<port, sections, live>>,
         NEW F, m.frames \in Seq(F), NEW n \in Nat, n = Depth, n > 0,
         NEW e \in F, m'.frames = [m.frames EXCEPT ![n] = e],
         e.irq = m.frames[n].irq, e.at = "done", ~e.status, ~e.off,
         e.outer = m.frames[n].outer, m'.depth = m.depth,
         Inside(n), m.frames[n].irq # "pendsv",
         SameContext, m'.fpu = m.fpu, m'.pend = m.pend, ~Masked'
  PROVE  StepOK /\ CAInv'
<1>1. /\ m'.frames \in Seq(F) /\ m'.frames # <<>> /\ Depth > 0
      /\ Depth' = n /\ SameDepth /\ TopMoves("done") /\ m'.frames[n] = e
      /\ \A f \in 1..n : f # n => m'.frames[f] = m.frames[f]
  BY FrameReplaced
<1>2. /\ Inside(Depth)
      /\ m.frames[Depth].irq = "pendsv" => m.frames[Depth].at = "switched"
  OBVIOUS
<1>3. Control' /\ Promise!HandlerUnmasks
  BY <1>1, <1>2, UnmaskStep DEF SameContext
<1>4. OwnNesting' /\ OwnRegsA' /\ SavedFpu'
  BY CASame
<1>5. FoundUnmasked' /\ Nested'
  BY <1>1, CAFound
<1>6. QED
  BY <1>3, <1>4, <1>5 DEF StepOK, CAInv, Promise!ProcessorNext

LEMMA CACount ==
  ASSUME Control, CortexA, CAInv, UNCHANGED <<port, sections, live>>,
         NEW F, m.frames \in Seq(F), NEW n \in Nat, n = Depth, n > 0,
         NEW e \in F, m'.frames = [m.frames EXCEPT ![n] = e],
         e.irq = m.frames[n].irq, e.at = "counted", ~e.status, ~e.off,
         e.outer = m.frames[n].outer, m'.depth = m.depth,
         m.frames[n].irq = "tick", Inside(n), SameContext, m'.fpu = m.fpu,
         Masked' <=> Masked, m'.pend = m.pend \/ m'.pend = TRUE
  PROVE  StepOK /\ CAInv'
<1>1. /\ m'.frames \in Seq(F) /\ m'.frames # <<>> /\ Depth > 0
      /\ Depth' = n /\ SameDepth /\ TopMoves("counted") /\ m'.frames[n] = e
      /\ \A f \in 1..n : f # n => m'.frames[f] = m.frames[f]
  BY FrameReplaced
<1>2. m.frames[Depth].irq = "tick" /\ Inside(Depth)
  OBVIOUS
<1>3. Control' /\ (Promise!HandlerAsks \/ UNCHANGED <<Handlers, Wanted>>)
  BY <1>1, <1>2, CountStep, Zenon DEF SameContext
<1>4. OwnNesting' /\ OwnRegsA' /\ SavedFpu'
  BY CASame
<1>5. FoundUnmasked' /\ Nested'
  BY <1>1, CAFound
<1>6. QED
  BY <1>3, <1>4, <1>5 DEF StepOK, CAInv, Promise!ProcessorNext, SameContext

\* A handler returns to the code it interrupted.
LEMMA CAReturn ==
  ASSUME Control, CortexA, CAInv, UNCHANGED <<port, sections, live>>,
         NEW F, m.frames \in Seq(F), NEW n \in Nat, Depth = n + 1,
         m'.frames = Front(m.frames), SameContext, m'.fpu = m.fpu,
         m'.pend = m.pend, n = 0 => ~m.pend, m'.depth = m.frames[n + 1].outer,
         Masked' <=> Masked, m.frames[n + 1].irq # "pendsv", ~Inside(n + 1)
  PROVE  StepOK /\ CAInv'
<1>1. /\ m'.frames \in Seq(F) /\ Len(m'.frames) = n
      /\ (m'.frames = <<>> <=> n = 0) /\ Depth' = n
      /\ \A f \in 1..n : m'.frames[f] = m.frames[f] /\ SameFrame(f)
  BY FramePopped, Zenon
<1>2. /\ m.cur \in Threads /\ m.frames # <<>> /\ n + 1 \in Nat
      /\ \A f \in 1..(n + 1) : f = n + 1 \/ f \in 1..n
      /\ \A f \in 1..n : f \in 1..(n + 1)
  BY ControlFacts DEF Control, BeforeStart, Contexts
<1>3. Masked' <=> sections[m.cur] > 0 \/ \E f \in 1..n : Inside(f)
  <2>1. Masked <=> sections[m.cur] > 0 \/ \E f \in 1..(n + 1) : Inside(f)
    BY <1>2 DEF Control, Guarded, CortexA
  <2>2. (\E f \in 1..(n + 1) : Inside(f)) <=> \E f \in 1..n : Inside(f)
    BY <1>2
  <2>3. QED BY <2>1, <2>2
<1>4. Control' /\ Promise!Returns
  <2>1. /\ ~Inside(Depth)
        /\ m.frames[Depth].irq = "pendsv" =>
             m.frames[Depth].at \notin {"entered", "inside"}
    OBVIOUS
  <2>2. m'.cur = m.cur
    BY DEF SameContext
  <2>3. QED BY <1>1, <1>3, <2>1, <2>2, ReturnStep
<1>5. OwnNesting' /\ OwnRegsA' /\ SavedFpu'
  BY CASame
<1>6. FoundUnmasked' /\ Nested'
  <2>1. \A f \in 1..(n + 1) :
          ~m.frames[f].status /\ ~m.frames[f].off /\ m.frames[f].outer = f - 1
    BY Zenon DEF CAInv, FoundUnmasked, Nested
  <2>2. \A f \in 1..n :
          ~m'.frames[f].status /\ ~m'.frames[f].off /\ m'.frames[f].outer = f - 1
    BY <1>1, <1>2, <2>1, Zenon
  <2>3. m'.depth = n /\ (m'.frames = <<>> => ~m'.pend)
    <3>1. n + 1 \in 1..(n + 1) /\ (n + 1) - 1 = n
      OBVIOUS
    <3>2. m'.depth = n
      BY <2>1, <3>1
    <3>3. QED BY <1>1, <3>2
  <2>4. QED BY <1>1, <2>2, <2>3 DEF CAInv, FoundUnmasked, Nested, SameContext
<1>7. QED
  BY <1>4, <1>5, <1>6 DEF StepOK, CAInv, Promise!ProcessorNext

\* The last handler to return switches.
LEMMA CARestore ==
  ASSUME Control, UNCHANGED <<port, sections>>, Depth = 1, ~Inside(1),
         m.frames[1].irq # "pendsv", m.pend, m'.frames = <<>>, m'.pend = FALSE,
         m'.cur \in Threads, Masked' <=> sections[m'.cur] > 0
  PROVE  StepOK
<1>1. Control' /\ Promise!Returns
  BY RestoreStep, Zenon
<1>2. QED BY <1>1 DEF StepOK, Promise!ProcessorNext

\* A task has used the unit.
LEMMA CAUse ==
  ASSUME Control, CAInv, UNCHANGED <<port, sections>>, NEW F,
         m'.frames \in Seq(F), SameContext, m.cur \in Threads,
         live' = live \cup {m.cur}, m.fpu, m'.fpu = m.fpu,
         m'.frames = m.frames, m'.pend = m.pend, m'.depth = m.depth,
         Masked' = Masked
  PROVE  StepOK /\ CAInv'
<1>1. Depth' = Depth /\ SameDepth /\ \A f \in 1..Depth : SameFrame(f)
  BY FramesKept
<1>2. Control' /\ UNCHANGED <<Handlers, Wanted>>
  BY <1>1, QuietStep DEF SameContext
<1>3. OwnNesting' /\ OwnRegsA' /\ SavedFpu'
  BY DEF CAInv, SameContext, OwnNesting, OwnRegsA, SavedFpu
<1>4. FoundUnmasked' /\ Nested'
  BY <1>1 DEF CAInv, FoundUnmasked, Nested, SameContext
<1>5. QED
  BY <1>2, <1>3, <1>4 DEF StepOK, CAInv, SameContext

LEMMA A9Facts ==
  ASSUME Control, A9Inv, port = "cortex_a9", UNCHANGED port
  PROVE  /\ m \in Machines(A9Frames, ASaved) /\ CortexA /\ CAInv
         /\ m.frames \in Seq(A9Frames) /\ m.nesting \in Int /\ m.depth \in Int
         /\ m.mask \in BOOLEAN /\ m.off \in BOOLEAN /\ m.pend \in BOOLEAN
         /\ m.fpu \in BOOLEAN /\ m.fp \in Halves
         /\ m.saved \in [Threads -> ASaved] /\ m.cur \in Contexts /\ m.regs \in Contexts
         /\ OffA9 /\ OwnFpuA9 /\ (Masked <=> m.mask) /\ (Masked' <=> m'.mask)
         /\ main \notin Threads /\ main \in Contexts /\ Threads \subseteq Contexts
<1>1. m \in Machines(A9Frames, ASaved)
  BY DEF A9Inv
<1>2. /\ m.frames \in Seq(A9Frames) /\ m.nesting \in Int /\ m.depth \in Int
      /\ m.mask \in BOOLEAN /\ m.off \in BOOLEAN /\ m.pend \in BOOLEAN
      /\ m.fpu \in BOOLEAN /\ m.fp \in Halves
      /\ m.saved \in [Threads -> ASaved] /\ m.cur \in Contexts /\ m.regs \in Contexts
  BY <1>1 DEF Machines
<1>3. QED
  BY <1>1, <1>2, PortsAssumption DEF A9Inv, CAInv, CortexA, Masked, Contexts

LEMMA A9Kept ==
  ASSUME m' \in Machines(A9Frames, ASaved), StepOK, CAInv', OffA9', OwnFpuA9'
  PROVE  StepOK /\ A9Inv'
BY DEF A9Inv, CAInv

\* A task that no interrupt has stopped.
LEMMA A9Tasks ==
  ASSUME m'.frames = <<>>, ~m'.off, m'.cur \in live' => m'.fp = FpOf(m'.cur)
  PROVE  OffA9' /\ OwnFpuA9'
<1>1. Depth' = 0
  BY NoFrames
<1>2. QED BY <1>1 DEF OffA9, OwnFpuA9, FpOf

LEMMA A9OwnFp ==
  ASSUME OwnFpuA9, m.fp \in Halves, m.frames = <<>>, m.cur \in live
  PROVE  m.fp = FpOf(m.cur)
BY FpOfHalves DEF OwnFpuA9

LEMMA A9Enter ==
  ASSUME Control, A9Inv, port = "cortex_a9", UNCHANGED port, A9!EnterSection
  PROVE  StepOK /\ A9Inv'
<1>1. /\ m' = [m EXCEPT !.mask = TRUE, !.off = FALSE, !.nesting = m.nesting + 1]
      /\ sections' = [sections EXCEPT ![m.cur] = @ + 1] /\ UNCHANGED live
      /\ m.frames = <<>>
  <2>1. PICK c : c = A9!ulPortSetInterruptMask(m)
    OBVIOUS
  <2>2. m' = [c EXCEPT !.nesting = @ + 1] /\ c = [m EXCEPT !.mask = TRUE, !.off = FALSE]
    BY <2>1 DEF A9!EnterSection, A9!portENTER_CRITICAL, A9!ulPortSetInterruptMask
  <2>3. m' = [m EXCEPT !.mask = TRUE, !.off = FALSE, !.nesting = m.nesting + 1]
    BY <2>2, A9Facts DEF Machines
  <2>4. QED BY <2>3 DEF A9!EnterSection, A9!TaskRuns
<1>2. /\ m'.cur = m.cur /\ m'.regs = m.regs /\ m'.nesting = m.nesting + 1
      /\ m'.mask = TRUE /\ m'.off = FALSE /\ m'.pend = m.pend /\ m'.depth = m.depth
      /\ m'.fpu = m.fpu /\ m'.fp = m.fp /\ m'.frames = m.frames /\ m'.saved = m.saved
  BY <1>1, A9Facts DEF Machines
<1>3. m.nesting + 1 \in Int
  BY A9Facts
<1>4. m' \in Machines(A9Frames, ASaved)
  BY <1>1, <1>3, A9Facts, ZenonT(60) DEF Machines
<1>5. StepOK /\ CAInv'
  BY <1>1, <1>2, A9Facts, CASection
<1>6. m.cur \in live => m.fp = FpOf(m.cur)
  BY <1>1, A9Facts, A9OwnFp
<1>7. OffA9' /\ OwnFpuA9'
  BY <1>1, <1>2, <1>6, A9Tasks
<1>8. QED BY <1>4, <1>5, <1>7, A9Kept

LEMMA A9Leave ==
  ASSUME Control, A9Inv, port = "cortex_a9", UNCHANGED port, A9!LeaveSection
  PROVE  StepOK /\ A9Inv'
<1>1. /\ sections' = [sections EXCEPT ![m.cur] = @ - 1] /\ UNCHANGED live
      /\ m.frames = <<>> /\ sections[m.cur] > 0 /\ m' = A9!portEXIT_CRITICAL(m)
  BY DEF A9!LeaveSection, A9!TaskRuns
<1>2. m.nesting # 0
  BY <1>1, A9Facts, ControlFacts DEF CAInv, OwnNesting, Contexts
<1>3. PICK c : c = [m EXCEPT !.nesting = m.nesting - 1]
  BY Zenon
<1>4. c.nesting = m.nesting - 1
  BY <1>3, A9Facts DEF Machines
<1>5. m' = IF m.nesting = 1 THEN [c EXCEPT !.mask = FALSE, !.off = FALSE] ELSE c
  <2>1. m' = IF c.nesting = 0 THEN A9!portCLEAR_INTERRUPT_MASK(c) ELSE c
    BY <1>1, <1>2, <1>3 DEF A9!portEXIT_CRITICAL
  <2>2. c.nesting = 0 <=> m.nesting = 1
    BY <1>4, A9Facts
  <2>3. QED BY <2>1, <2>2 DEF A9!portCLEAR_INTERRUPT_MASK
<1>6. PICK b \in BOOLEAN, o \in BOOLEAN :
        (b <=> m.nesting # 1 /\ m.mask) /\ (o <=> m.nesting # 1 /\ m.off)
  BY Zenon
<1>7. m' = [m EXCEPT !.mask = b, !.off = o, !.nesting = m.nesting - 1]
  BY <1>3, <1>5, <1>6, A9Facts, Zenon DEF Machines
<1>8. /\ m'.cur = m.cur /\ m'.regs = m.regs /\ m'.nesting = m.nesting - 1
      /\ m'.mask = b /\ m'.off = o /\ m'.pend = m.pend /\ m'.depth = m.depth
      /\ m'.fpu = m.fpu /\ m'.fp = m.fp /\ m'.frames = m.frames /\ m'.saved = m.saved
  BY <1>7, A9Facts DEF Machines
<1>9. m.nesting - 1 \in Int
  BY A9Facts
<1>10. m' \in Machines(A9Frames, ASaved)
  BY <1>6, <1>7, <1>9, A9Facts, ZenonT(60) DEF Machines
<1>11. StepOK /\ CAInv'
  <2>1. /\ m.nesting = 1 => ~Masked'
        /\ m.nesting # 1 => (Masked' <=> Masked)
    BY <1>6, <1>8, A9Facts
  <2>2. QED BY <1>1, <1>8, <2>1, A9Facts, CASection
<1>12. OffA9' /\ OwnFpuA9'
  <2>1. m.cur \in live => m.fp = FpOf(m.cur)
    BY <1>1, A9Facts, A9OwnFp
  <2>2. CASE m.cur \in Threads
    <3>1. ~m'.off
      BY <1>1, <1>6, <1>8, <2>2, A9Facts DEF OffA9
    <3>2. QED BY <1>1, <1>8, <2>1, <3>1, A9Tasks
  <2>3. CASE m.cur \notin Threads
    <3>1. Depth' = 0 /\ m'.cur \notin Threads
      BY <1>1, <1>8, <2>3, NoFrames
    <3>2. m'.cur \in live' => m'.fp = FpOf(m'.cur)
      BY <1>1, <1>8, <2>1
    <3>3. QED BY <1>1, <1>8, <3>1, <3>2 DEF OffA9, OwnFpuA9, FpOf
  <2>4. QED BY <2>2, <2>3
<1>13. QED BY <1>10, <1>11, <1>12, A9Kept

LEMMA A9Restored ==
  ASSUME NEW c \in Machines(A9Frames, ASaved), c.cur \in Threads,
         NEW d, d = A9!RestoreContext(c), NEW y \in ASaved, y = c.saved[c.cur]
  PROVE  /\ d \in Machines(A9Frames, ASaved)
         /\ d.cur = c.cur /\ d.frames = c.frames /\ d.saved = c.saved
         /\ d.pend = c.pend /\ d.depth = c.depth
         /\ d.regs = y.regs /\ d.nesting = y.nesting /\ (d.mask <=> y.nesting # 0)
         /\ d.off = y.off /\ d.fpu = y.fpu
         /\ y.fpu => d.fp = y.fp
         /\ ~y.fpu => d.fp = c.fp
<1>1. /\ y.regs \in Contexts /\ y.nesting \in Int /\ y.off \in BOOLEAN
      /\ y.fpu \in BOOLEAN /\ y.fp \in Halves /\ c.fp \in Halves
  BY DEF ASaved, Machines
<1>2. PICK b \in BOOLEAN : b = (y.nesting # 0)
  BY Zenon
<1>3. PICK h \in Halves : h = IF y.fpu THEN y.fp ELSE c.fp
  BY <1>1
<1>4. d = [c EXCEPT !.regs = y.regs, !.nesting = y.nesting, !.mask = b,
                    !.off = y.off, !.fpu = y.fpu, !.fp = h]
  BY <1>2, <1>3, Zenon DEF A9!RestoreContext
<1>5. d \in Machines(A9Frames, ASaved)
  BY <1>1, <1>4, ZenonT(60) DEF Machines
<1>6. /\ d.cur = c.cur /\ d.frames = c.frames /\ d.saved = c.saved
      /\ d.pend = c.pend /\ d.depth = c.depth
      /\ d.regs = y.regs /\ d.nesting = y.nesting /\ d.mask = b
      /\ d.off = y.off /\ d.fpu = y.fpu /\ d.fp = h
  BY <1>4 DEF Machines
<1>7. QED BY <1>2, <1>3, <1>5, <1>6, Zenon

LEMMA A9Start ==
  ASSUME Control, A9Inv, port = "cortex_a9", UNCHANGED port,
         NEW t \in Threads, A9!StartScheduler(t)
  PROVE  StepOK /\ A9Inv'
<1>1. /\ m.cur = main /\ UNCHANGED <<sections, live>> /\ m.frames = <<>>
  BY DEF A9!StartScheduler, Control, BeforeStart
<1>2. PICK c : c = [m EXCEPT !.mask = TRUE, !.off = TRUE, !.cur = t]
  OBVIOUS
<1>3. m' = A9!RestoreContext(c)
  <2>1. m' = A9!xPortStartScheduler([A9!portDISABLE_INTERRUPTS(m) EXCEPT !.cur = t])
    BY DEF A9!StartScheduler
  <2>2. c = [[A9!portDISABLE_INTERRUPTS(m) EXCEPT !.cur = t] EXCEPT !.off = TRUE]
    BY <1>2, A9Facts, Zenon DEF A9!portDISABLE_INTERRUPTS, A9!ulPortSetInterruptMask, Machines
  <2>3. QED BY <2>1, <2>2 DEF A9!xPortStartScheduler, A9!vPortRestoreTaskContext
<1>4. c \in Machines(A9Frames, ASaved)
  <2>1. t \in Contexts
    BY A9Facts
  <2>2. QED BY <1>2, <2>1, A9Facts, ZenonT(60) DEF Machines
<1>5. /\ c.cur = t /\ c.frames = m.frames /\ c.saved = m.saved /\ c.pend = m.pend
      /\ c.depth = m.depth
  BY <1>2, A9Facts DEF Machines
<1>6. PICK y \in ASaved : y = m.saved[t]
  BY A9Facts
<1>7. PICK d : d = m'
  OBVIOUS
<1>8. /\ d \in Machines(A9Frames, ASaved)
      /\ d.cur = c.cur /\ d.frames = c.frames /\ d.saved = c.saved
      /\ d.pend = c.pend /\ d.depth = c.depth
      /\ d.regs = y.regs /\ d.nesting = y.nesting /\ (d.mask <=> y.nesting # 0)
      /\ d.off = y.off /\ d.fpu = y.fpu /\ (y.fpu => d.fp = y.fp)
  <2>1. c.cur \in Threads /\ d = A9!RestoreContext(c) /\ y = c.saved[c.cur]
    BY <1>3, <1>5, <1>6, <1>7
  <2>2. QED BY <1>4, <2>1, A9Restored
<1>9. StepOK /\ CAInv' /\ ~m'.off
  <2>1. /\ m'.cur = t /\ m'.frames = m.frames /\ m'.pend = m.pend
        /\ m'.depth = m.depth /\ m'.saved = m.saved /\ m'.regs = m.saved[t].regs
        /\ m'.nesting = m.saved[t].nesting /\ (Masked' <=> m.saved[t].nesting # 0)
        /\ (m'.off <=> m.saved[t].off) /\ (m'.fpu <=> m.saved[t].fpu)
    BY <1>5, <1>6, <1>7, <1>8, A9Facts
  <2>2. QED BY <1>1, <2>1, A9Facts, CAStart
<1>10. m'.cur \in live' => m'.fp = FpOf(m'.cur)
  <2>1. m'.cur = t /\ live' = live /\ t # m.cur
    BY <1>1, <1>5, <1>7, <1>8, A9Facts
  <2>2. t \in live => y.fpu /\ y.fp = FpOf(t)
    BY <2>1, <1>6, A9Facts DEF CAInv, SavedFpu
  <2>3. QED BY <2>1, <2>2, <1>7, <1>8
<1>11. OffA9' /\ OwnFpuA9'
  <2>1. m'.frames = <<>>
    BY <1>1, <1>5, <1>7, <1>8
  <2>2. QED BY <2>1, <1>9, <1>10, A9Tasks
<1>12. QED BY <1>7, <1>8, <1>9, <1>11, A9Kept

\* Saving the context x of the current task and restoring that of any other.
LEMMA A9Switched ==
  ASSUME Control, A9Inv, port = "cortex_a9", UNCHANGED <<port, sections, live>>,
         m.cur \in Threads,
         NEW c \in Machines(A9Frames, ASaved), c.frames = <<>>, c.depth = 0,
         c.cur = m.cur, c.regs = m.regs, c.nesting = m.nesting,
         c.fpu = m.fpu, c.saved = m.saved, c.pend = FALSE,
         m.cur \in live => c.fp = FpOf(m.cur),
         NEW off, off = FALSE, m' \in A9!Switch(c, off)
  PROVE  /\ m' \in Machines(A9Frames, ASaved) /\ CAInv' /\ OffA9' /\ OwnFpuA9'
         /\ m'.cur \in Threads /\ (Masked' <=> sections[m'.cur] > 0)
         /\ m'.frames = <<>> /\ m'.pend = FALSE
<1>1. PICK t \in Threads :
        m' = A9!RestoreContext([A9!SaveContext(c, off) EXCEPT !.cur = t])
  BY DEF A9!Switch, A9!SwitchContext
<1>2. /\ c.regs = m.cur /\ c.nesting = sections[m.cur] /\ (m.cur \in live => c.fpu)
  BY A9Facts DEF CAInv, OwnRegsA, OwnNesting, SavedFpu
<1>3. PICK x : x = A9!Context(c.regs, c.nesting, off, c.fpu, c.fp)
  OBVIOUS
<1>4. /\ x \in ASaved /\ x.regs = m.cur /\ x.nesting = sections[m.cur] /\ ~x.off
      /\ m.cur \in live => x.fpu /\ x.fp = FpOf(m.cur)
  <2>1. c.fp \in Halves /\ c.fpu \in BOOLEAN /\ c.regs \in Contexts /\ c.nesting \in Int
    BY DEF Machines
  <2>2. PICK h \in Halves : h = IF c.fpu THEN c.fp ELSE [low |-> "none", high |-> "none"]
    BY <2>1, Zenon DEF Halves, FpValues
  <2>3. x = [regs |-> c.regs, nesting |-> c.nesting, off |-> FALSE, fpu |-> c.fpu,
             fp |-> h]
    BY <1>3, <2>2, Zenon DEF A9!Context, A9!FpOf
  <2>4. QED BY <1>2, <2>1, <2>2, <2>3 DEF ASaved
<1>5. PICK s : s = [m.saved EXCEPT ![m.cur] = x]
  BY Zenon
<1>6. s \in [Threads -> ASaved] /\ s[t] \in ASaved
  BY <1>4, <1>5, A9Facts
<1>7. PICK g : g = [c EXCEPT !.saved = s, !.cur = t]
  OBVIOUS
<1>8. m' = A9!RestoreContext(g)
  <2>1. A9!SaveContext(c, off) = [c EXCEPT !.saved = s]
    <3>1. A9!SaveContext(c, off) = [c EXCEPT !.saved = [c.saved EXCEPT ![c.cur] = x]]
      BY <1>3, Zenon DEF A9!SaveContext
    <3>2. QED BY <3>1, <1>5
  <2>2. g = [[c EXCEPT !.saved = s] EXCEPT !.cur = t]
    BY <1>7 DEF Machines
  <2>3. QED BY <1>1, <2>1, <2>2
<1>9. g \in Machines(A9Frames, ASaved)
  <2>1. t \in Contexts
    BY A9Facts
  <2>2. QED BY <1>6, <1>7, <2>1, ZenonT(60) DEF Machines
<1>10. /\ g.cur = t /\ g.frames = <<>> /\ g.saved = s /\ g.pend = FALSE /\ g.depth = 0
  BY <1>7 DEF Machines
<1>11. PICK d : d = m'
  OBVIOUS
<1>12. PICK y \in ASaved : y = s[t]
  BY <1>6
<1>13. /\ d \in Machines(A9Frames, ASaved)
       /\ d.cur = g.cur /\ d.frames = g.frames /\ d.saved = g.saved
       /\ d.pend = g.pend /\ d.depth = g.depth
       /\ d.regs = y.regs /\ d.nesting = y.nesting /\ (d.mask <=> y.nesting # 0)
       /\ d.off = y.off /\ d.fpu = y.fpu /\ (y.fpu => d.fp = y.fp)
  <2>1. g.cur \in Threads /\ d = A9!RestoreContext(g) /\ y = g.saved[g.cur]
    BY <1>8, <1>10, <1>11, <1>12
  <2>2. QED BY <1>9, <2>1, A9Restored
<1>14. /\ m'.cur = t /\ m'.saved = s /\ m'.regs = s[t].regs
       /\ m'.nesting = s[t].nesting /\ (Masked' <=> s[t].nesting # 0)
       /\ (m'.off <=> s[t].off) /\ (m'.fpu <=> s[t].fpu)
       /\ (s[t].fpu => m'.fp = s[t].fp)
       /\ m'.frames = <<>> /\ m'.depth = 0 /\ ~m'.pend /\ m'.pend = FALSE
  BY <1>10, <1>11, <1>12, <1>13, A9Facts
<1>15. /\ CAInv' /\ (Masked' <=> sections[t] > 0) /\ ~m'.off
       /\ t \in live => m'.fp = FpOf(t)
  BY <1>4, <1>5, <1>14, A9Facts, CASwitched
<1>16. OffA9' /\ OwnFpuA9'
  BY <1>14, <1>15, A9Tasks
<1>17. QED BY <1>11, <1>13, <1>14, <1>15, <1>16

LEMMA A9Yield ==
  ASSUME Control, A9Inv, port = "cortex_a9", UNCHANGED port, A9!Yield
  PROVE  StepOK /\ A9Inv'
<1>1. /\ m' \in A9!Switch(m, m.off) /\ UNCHANGED <<sections, live>>
      /\ m.frames = <<>> /\ m.cur # main
  BY DEF A9!Yield, A9!TaskRuns, A9!portYIELD
<1>2. m.cur \in Threads /\ m.off = FALSE /\ m.pend = FALSE /\ m.depth = 0
  BY <1>1, A9Facts, NoFramesNow DEF Contexts, OffA9, CAInv, Nested
<1>3. m.cur \in live => m.fp = FpOf(m.cur)
  BY <1>1, A9Facts, A9OwnFp
<1>4. /\ m' \in Machines(A9Frames, ASaved) /\ CAInv' /\ OffA9' /\ OwnFpuA9'
      /\ m'.cur \in Threads /\ (Masked' <=> sections[m'.cur] > 0)
      /\ m'.frames = <<>> /\ m'.pend = FALSE
  <2>1. PICK off : off = FALSE /\ m' \in A9!Switch(m, off)
    BY <1>1, <1>2
  <2>2. QED BY <1>1, <1>2, <1>3, <2>1, A9Facts, A9Switched, Zenon
<1>5. StepOK
  BY <1>1, <1>2, <1>4, A9Facts, CAYield, Zenon
<1>6. QED BY <1>4, <1>5, A9Kept

LEMMA A9Registers ==
  ASSUME Control, A9Inv, port = "cortex_a9", UNCHANGED port, A9!RegisterFpu
  PROVE  StepOK /\ A9Inv'
<1>1. m' = [m EXCEPT !.fpu = TRUE] /\ UNCHANGED <<sections, live>>
  BY DEF A9!RegisterFpu, A9!vPortTaskUsesFPU
<1>2. /\ m'.cur = m.cur /\ m'.regs = m.regs /\ m'.nesting = m.nesting
      /\ m'.mask = m.mask /\ m'.off = m.off /\ m'.pend = m.pend /\ m'.depth = m.depth
      /\ m'.fpu = TRUE /\ m'.fp = m.fp /\ m'.frames = m.frames /\ m'.saved = m.saved
  BY <1>1, A9Facts DEF Machines
<1>3. m' \in Machines(A9Frames, ASaved)
  BY <1>1, A9Facts, ZenonT(60) DEF Machines
<1>4. SameContext /\ m'.frames \in Seq(A9Frames) /\ Masked' = Masked
  BY <1>2, A9Facts DEF SameContext, Masked
<1>5. StepOK /\ CAInv'
  BY <1>1, <1>2, <1>4, A9Facts, CAQuiet
<1>6. Depth' = Depth
  BY <1>2 DEF Depth
<1>7. OffA9' /\ OwnFpuA9'
  BY <1>1, <1>2, <1>6, A9Facts DEF OffA9, OwnFpuA9
<1>8. QED BY <1>3, <1>5, <1>7, A9Kept

LEMMA A9TaskUses ==
  ASSUME Control, A9Inv, port = "cortex_a9", UNCHANGED port, A9!TaskUsesFpu
  PROVE  StepOK /\ A9Inv'
<1>1. PICK h : h = A9!FpOf(m.cur)
  OBVIOUS
<1>2. h = FpOf(m.cur) /\ h \in Halves
  BY <1>1, A9Facts DEF A9!FpOf, FpOf, Halves, FpValues
<1>3. /\ m' = [m EXCEPT !.fp = h] /\ live' = live \cup {m.cur} /\ UNCHANGED sections
      /\ m.frames = <<>> /\ m.cur \in Threads /\ m.fpu
  BY <1>1, PortsAssumption
     DEF A9!TaskUsesFpu, A9!TaskRuns, A9!UseFpu, A9!FpuAllowed
<1>4. /\ m'.cur = m.cur /\ m'.regs = m.regs /\ m'.nesting = m.nesting
      /\ m'.mask = m.mask /\ m'.off = m.off /\ m'.pend = m.pend /\ m'.depth = m.depth
      /\ m'.fpu = m.fpu /\ m'.fp = h /\ m'.frames = m.frames /\ m'.saved = m.saved
  BY <1>3, A9Facts, Zenon DEF Machines
<1>5. m' \in Machines(A9Frames, ASaved)
  BY <1>2, <1>3, A9Facts, ZenonT(60) DEF Machines
<1>6. SameContext /\ m'.frames \in Seq(A9Frames) /\ Masked' = Masked
  BY <1>4, A9Facts DEF SameContext, Masked
<1>7. StepOK /\ CAInv'
  BY <1>3, <1>4, <1>6, A9Facts, CAUse, Zenon
<1>8. ~m.off
  BY <1>3, A9Facts DEF OffA9
<1>9. OffA9' /\ OwnFpuA9'
  BY <1>2, <1>3, <1>4, <1>8, A9Tasks
<1>10. QED BY <1>5, <1>7, <1>9, A9Kept

LEMMA A9HandlerUses ==
  ASSUME Control, A9Inv, port = "cortex_a9", UNCHANGED port, A9!HandlerUsesFpu
  PROVE  StepOK /\ A9Inv'
<1>1. PICK h \in Halves : h = [m.fp EXCEPT !.low = "handler"] /\ h.high = m.fp.high
  <2>1. m.fp \in Halves
    BY A9Facts
  <2>2. PICK h : h = [m.fp EXCEPT !.low = "handler"]
    BY Zenon
  <2>3. h \in Halves /\ h.high = m.fp.high
    BY <2>1, <2>2 DEF Halves, FpValues
  <2>4. QED BY <2>2, <2>3, Zenon
<1>2. /\ m' = [m EXCEPT !.fp = h] /\ UNCHANGED <<sections, live>> /\ m.frames # <<>>
  BY <1>1 DEF A9!HandlerUsesFpu, A9!InHandler, A9!UseFpu
<1>3. /\ m'.cur = m.cur /\ m'.regs = m.regs /\ m'.nesting = m.nesting
      /\ m'.mask = m.mask /\ m'.off = m.off /\ m'.pend = m.pend /\ m'.depth = m.depth
      /\ m'.fpu = m.fpu /\ m'.fp = h /\ m'.frames = m.frames /\ m'.saved = m.saved
  BY <1>2, A9Facts DEF Machines
<1>4. m' \in Machines(A9Frames, ASaved)
  BY <1>1, <1>2, A9Facts, ZenonT(60) DEF Machines
<1>5. SameContext /\ m'.frames \in Seq(A9Frames) /\ Masked' = Masked
  BY <1>3, A9Facts DEF SameContext, Masked
<1>6. StepOK /\ CAInv'
  BY <1>2, <1>3, <1>5, A9Facts, CAQuiet
<1>7. Depth' = Depth
  BY <1>3 DEF Depth
<1>8. OffA9'
  BY <1>3, <1>7, A9Facts DEF OffA9
<1>9. OwnFpuA9'
  <2>1. m.cur \in live => m.fp.high = m.cur /\ m.frames[1].low = m.cur
    BY <1>2, A9Facts DEF OwnFpuA9
  <2>2. m'.fp.high = m.fp.high
    BY <1>1, <1>3
  <2>3. QED BY <1>2, <1>3, <2>1, <2>2 DEF OwnFpuA9
<1>10. QED BY <1>4, <1>6, <1>8, <1>9, A9Kept

LEMMA A9Interrupted ==
  ASSUME Control, A9Inv, port = "cortex_a9", UNCHANGED port,
         NEW i \in Interrupts, A9!Interrupted(i)
  PROVE  StepOK /\ A9Inv'
<1>1. /\ m.cur # main /\ ~m.off /\ (m.mask => i = "high")
      /\ UNCHANGED <<sections, live>>
      /\ m' = A9!EnterHandler(m, i)
  BY DEF A9!Interrupted, A9!Takes
<1>2. PICK e : e = [irq |-> i, at |-> "entered", status |-> FALSE, off |-> FALSE,
                    outer |-> m.depth, low |-> m.fp.low]
  BY Zenon
<1>3. /\ e \in A9Frames /\ e.irq = i /\ e.irq \in Irqs \ {"pendsv"}
      /\ e.at = "entered" /\ ~e.status /\ ~e.off /\ e.outer = m.depth
      /\ e.low = m.fp.low
  <2>1. i \in Irqs /\ i # "pendsv" /\ m.depth \in Int /\ m.fp.low \in FpValues
    BY A9Facts DEF Interrupts, Irqs, Halves
  <2>2. QED BY <1>2, <2>1 DEF A9Frames, Stages
<1>4. m' = [m EXCEPT !.off = TRUE, !.depth = m.depth + 1, !.frames = Append(m.frames, e)]
  <2>1. PICK c : c = [m EXCEPT !.off = TRUE, !.depth = @ + 1]
    OBVIOUS
  <2>2. m.off = FALSE
    BY <1>1, A9Facts
  <2>3. m' = A9!Push(c, [irq |-> i, at |-> "entered", status |-> FALSE,
                         off |-> m.off, outer |-> m.depth, low |-> m.fp.low])
    BY <1>1, <2>1, Zenon DEF A9!EnterHandler
  <2>4. m' = A9!Push(c, e)
    BY <1>2, <2>2, <2>3, Zenon
  <2>5. m' = [c EXCEPT !.frames = Append(c.frames, e)]
    BY <2>4 DEF A9!Push
  <2>6. c.frames = m.frames
    BY <2>1, A9Facts DEF Machines
  <2>7. QED BY <2>1, <2>5, <2>6, A9Facts DEF Machines
<1>5. /\ m'.cur = m.cur /\ m'.regs = m.regs /\ m'.nesting = m.nesting
      /\ m'.mask = m.mask /\ m'.off = TRUE /\ m'.pend = m.pend
      /\ m'.depth = m.depth + 1 /\ m'.fpu = m.fpu /\ m'.fp = m.fp
      /\ m'.frames = Append(m.frames, e) /\ m'.saved = m.saved
  BY <1>4, A9Facts DEF Machines
<1>6. m' \in Machines(A9Frames, ASaved)
  <2>1. Append(m.frames, e) \in Seq(A9Frames)
    BY <1>3, A9Facts, AppendProperties
  <2>2. m.depth + 1 \in Int
    BY A9Facts
  <2>3. QED BY <1>4, <2>1, <2>2, A9Facts, ZenonT(60) DEF Machines
<1>7. m.cur \in Threads /\ SameContext
  BY <1>1, <1>5, A9Facts DEF Contexts, SameContext
<1>8. StepOK /\ CAInv'
  BY <1>1, <1>3, <1>5, <1>7, A9Facts, CAEnter
<1>9. PICK n \in Nat : n = Depth
  BY ControlFacts
<1>10. /\ Depth' = n + 1 /\ m'.frames # <<>> /\ m'.frames[n + 1] = e
       /\ \A f \in 1..n : m'.frames[f] = m.frames[f]
  BY <1>3, <1>5, <1>9, A9Facts, FramePushed
<1>11. OffA9'
  <2>1. \A f \in 1..(n + 1) : f # n + 1 => f \in 1..n
    OBVIOUS
  <2>2. \A f \in 1..n : m.frames[f].at # "entered"
    <3>1. n > 0 => m.frames # <<>> /\ m.frames[n].at # "entered"
      BY <1>1, <1>7, <1>9, A9Facts, ControlFacts DEF OffA9
    <3>2. QED BY <3>1, <1>9, A9Facts DEF OffA9
  <2>3. QED BY <1>3, <1>5, <1>10, <2>1, <2>2, Zenon DEF OffA9
<1>12. OwnFpuA9'
  <2>1. CASE n = 0
    BY <2>1, <1>1, <1>3, <1>5, <1>9, <1>10, A9Facts, ControlFacts DEF OwnFpuA9
  <2>2. CASE n > 0
    <3>1. m'.frames[1] = m.frames[1] /\ m.frames # <<>>
      BY <2>2, <1>9, <1>10, ControlFacts
    <3>2. QED BY <3>1, <1>1, <1>5, <1>10, A9Facts DEF OwnFpuA9
  <2>3. QED BY <2>1, <2>2
<1>13. QED BY <1>6, <1>8, <1>11, <1>12, A9Kept

\* A handler goes on, past what it does with interrupts off.
LEMMA A9Stage ==
  ASSUME OffA9, OwnFpuA9, UNCHANGED live, m.frames \in Seq(A9Frames),
         NEW n \in Nat, n = Depth, n > 0,
         NEW e \in A9Frames, m'.frames = [m.frames EXCEPT ![n] = e],
         e.at # "entered", e.low = m.frames[n].low, m'.cur = m.cur,
         m'.fp = m.fp, ~m'.off
  PROVE  OffA9' /\ OwnFpuA9'
<1>1. /\ m'.frames # <<>> /\ Depth' = n /\ m'.frames[n] = e /\ n \in 1..n /\ 1 \in 1..n
      /\ \A f \in 1..n : f # n => m'.frames[f] = m.frames[f]
  <2>1. n = Len(m.frames)
    BY DEF Depth
  <2>2. [m.frames EXCEPT ![n] = e] \in Seq(A9Frames) /\ Len([m.frames EXCEPT ![n] = e]) = n
    BY <2>1, FrameSet
  <2>3. QED BY <2>1, <2>2 DEF Depth
<1>2. m.frames # <<>>
  BY DEF Depth
<1>3. m'.frames[1].low = m.frames[1].low
  <2>1. CASE n = 1
    BY <2>1, <1>1
  <2>2. CASE n # 1
    BY <2>2, <1>1
  <2>3. QED BY <2>1, <2>2
<1>4. OffA9'
  BY <1>1 DEF OffA9
<1>5. OwnFpuA9'
  <2>1. m.cur \in live => m.fp.high = m.cur /\ m.frames[1].low = m.cur
    BY <1>2 DEF OwnFpuA9
  <2>2. QED BY <2>1, <1>1, <1>3 DEF OwnFpuA9
<1>6. QED BY <1>4, <1>5

LEMMA A9Masks ==
  ASSUME Control, A9Inv, port = "cortex_a9", UNCHANGED port,
         A9!DeviceMasks \/ A9!TickBegins
  PROVE  StepOK /\ A9Inv'
<1>1. /\ m.frames # <<>> /\ UNCHANGED <<sections, live>>
      /\ Last(m.frames).irq \in {"dev", "tick"} /\ Last(m.frames).at = "entered"
      /\ \/ m' = A9!AtStage(A9!portSET_INTERRUPT_MASK_FROM_ISR(m), "inside")
         \/ m' = A9!AtStage([m EXCEPT !.mask = TRUE, !.off = FALSE], "inside")
  BY DEF A9!DeviceMasks, A9!TickBegins, A9!InHandler, A9!Frame, A9!TickStarts,
         Last
<1>2. PICK n \in Nat : /\ n = Len(m.frames) /\ n > 0 /\ n \in 1..n
                       /\ m.frames[n] \in A9Frames /\ m.frames[n] = Last(m.frames)
  BY <1>1, A9Facts, TopFrame
<1>3. n = Depth /\ ~m.mask /\ ~m.frames[n].status /\ ~m.frames[n].off
  <2>1. n = Depth
    BY <1>2 DEF Depth
  <2>2. ~m.mask
    BY <1>1, <1>2, <2>1, A9Facts, CANoneInside DEF Inside
  <2>3. QED BY <1>2, <2>1, <2>2, A9Facts DEF CAInv, FoundUnmasked, Nested
<1>4. PICK d \in A9Frames : d = [m.frames[n] EXCEPT !.status = FALSE]
  BY <1>2, Zenon DEF A9Frames
<1>5. PICK e \in A9Frames : e = [d EXCEPT !.at = "inside"]
  BY Zenon DEF A9Frames, Stages
<1>6. d = m.frames[n]
  <2>1. m.frames[n].status = FALSE
    BY <1>2, <1>3 DEF A9Frames
  <2>2. QED BY <1>2, <1>4, <2>1 DEF A9Frames
<1>7. PICK s : s = [m.frames EXCEPT ![n] = d]
  BY Zenon
<1>8. /\ Len(s) = n /\ s[n] = d /\ [s EXCEPT ![n] = e] = [m.frames EXCEPT ![n] = e]
      /\ [m.frames EXCEPT ![n] = e] \in Seq(A9Frames) /\ s = m.frames
  <2>1. s = m.frames
    BY <1>2, <1>6, <1>7, A9Facts
  <2>2. QED BY <1>2, <1>7, <2>1, A9Facts, FrameSet
<1>9. PICK c : c = [m EXCEPT !.mask = TRUE, !.off = FALSE]
  OBVIOUS
<1>10. m' = A9!AtStage(c, "inside")
  <2>1. A9!portSET_INTERRUPT_MASK_FROM_ISR(m) = c
    <3>1. PICK g : g = [m EXCEPT !.frames[Len(m.frames)].status = m.mask]
      BY Zenon
    <3>2. m.mask = FALSE
      BY <1>3, A9Facts
    <3>3. g = [m EXCEPT !.frames = s]
      BY <1>2, <1>4, <1>7, <3>1, <3>2, Zenon
    <3>4. g = m
      BY <1>8, <3>3, A9Facts DEF Machines
    <3>5. A9!portSET_INTERRUPT_MASK_FROM_ISR(m) = A9!ulPortSetInterruptMask(g)
      BY <3>1, Zenon DEF A9!portSET_INTERRUPT_MASK_FROM_ISR
    <3>6. QED BY <1>9, <3>4, <3>5 DEF A9!ulPortSetInterruptMask
  <2>2. QED BY <1>1, <1>9, <2>1
<1>11. c.frames = m.frames
  BY <1>9, A9Facts DEF Machines
<1>12. m' = [c EXCEPT !.frames = [m.frames EXCEPT ![n] = e]]
  <2>1. m' = [c EXCEPT !.frames = [c.frames EXCEPT ![Len(c.frames)] =
                                     [c.frames[Len(c.frames)] EXCEPT !.at = "inside"]]]
    BY <1>10, Zenon DEF A9!AtStage
  <2>2. QED BY <2>1, <1>2, <1>5, <1>6, <1>11, Zenon
<1>13. /\ m'.cur = m.cur /\ m'.regs = m.regs /\ m'.nesting = m.nesting
       /\ m'.mask = TRUE /\ m'.off = FALSE /\ m'.pend = m.pend /\ m'.depth = m.depth
       /\ m'.fpu = m.fpu /\ m'.fp = m.fp
       /\ m'.frames = [m.frames EXCEPT ![n] = e] /\ m'.saved = m.saved
  BY <1>9, <1>12, A9Facts DEF Machines
<1>14. m' \in Machines(A9Frames, ASaved)
  <2>1. m' = [m EXCEPT !.frames = [m.frames EXCEPT ![n] = e], !.mask = TRUE, !.off = FALSE]
    BY <1>9, <1>12, A9Facts, Zenon DEF Machines
  <2>2. QED BY <2>1, <1>8, A9Facts, ZenonT(60) DEF Machines
<1>15. /\ e.irq = m.frames[n].irq /\ e.at = "inside" /\ ~e.status /\ ~e.off
       /\ e.outer = m.frames[n].outer /\ e.low = m.frames[n].low
  <2>1. /\ e.irq = d.irq /\ e.at = "inside" /\ e.status = d.status /\ e.off = d.off
        /\ e.outer = d.outer /\ e.low = d.low
    BY <1>5 DEF A9Frames
  <2>2. QED BY <2>1, <1>3, <1>6
<1>16. SameContext
  BY <1>13 DEF SameContext
<1>17. StepOK /\ CAInv'
  <2>1. m.frames[n].irq # "high" /\ m.frames[n].at = "entered" /\ Masked'
    BY <1>1, <1>2, <1>13, A9Facts
  <2>2. QED BY <1>1, <1>2, <1>3, <1>13, <1>15, <1>16, <2>1, A9Facts, CAMask, Zenon
<1>18. OffA9' /\ OwnFpuA9'
  BY <1>1, <1>2, <1>3, <1>13, <1>15, A9Facts, A9Stage
<1>19. QED BY <1>14, <1>17, <1>18, A9Kept

LEMMA A9Unmasks ==
  ASSUME Control, A9Inv, port = "cortex_a9", UNCHANGED port,
         A9!DeviceUnmasks \/ A9!TickFinishes
  PROVE  StepOK /\ A9Inv'
<1>1. /\ m.frames # <<>> /\ UNCHANGED <<sections, live>>
      /\ Last(m.frames).irq \in {"dev", "tick"}
      /\ Last(m.frames).at \in {"inside", "counted"}
      /\ \/ m' = A9!AtStage(A9!portCLEAR_INTERRUPT_MASK_FROM_ISR(m), "done")
         \/ m' = A9!AtStage(A9!portCLEAR_INTERRUPT_MASK(m), "done")
  BY DEF A9!DeviceUnmasks, A9!TickFinishes, A9!InHandler, A9!Frame, A9!TickEnds,
         Last
<1>2. PICK n \in Nat : /\ n = Len(m.frames) /\ n > 0 /\ n \in 1..n
                       /\ m.frames[n] \in A9Frames /\ m.frames[n] = Last(m.frames)
  BY <1>1, A9Facts, TopFrame
<1>3. n = Depth /\ ~m.frames[n].status /\ ~m.frames[n].off /\ Inside(n)
  <2>1. n = Depth
    BY <1>2 DEF Depth
  <2>2. QED BY <1>1, <1>2, <2>1, A9Facts DEF CAInv, FoundUnmasked, Nested, Inside
<1>4. PICK e \in A9Frames : e = [m.frames[n] EXCEPT !.at = "done"]
  BY <1>2, Zenon DEF A9Frames, Stages
<1>5. PICK c : c = [m EXCEPT !.mask = FALSE, !.off = FALSE]
  OBVIOUS
<1>6. m' = A9!AtStage(c, "done")
  <2>1. A9!Frame(m).status = FALSE
    <3>1. A9!Frame(m) = m.frames[n]
      BY <1>2, Zenon DEF A9!Frame, Last
    <3>2. m.frames[n].status \in BOOLEAN
      BY <1>2 DEF A9Frames
    <3>3. QED BY <3>1, <3>2, <1>3
  <2>2. A9!portCLEAR_INTERRUPT_MASK(m) = c
    BY <1>5 DEF A9!portCLEAR_INTERRUPT_MASK
  <2>3. A9!portCLEAR_INTERRUPT_MASK_FROM_ISR(m) = c
    BY <2>1, <2>2 DEF A9!portCLEAR_INTERRUPT_MASK_FROM_ISR, A9!vPortClearInterruptMask
  <2>4. QED BY <1>1, <2>2, <2>3
<1>7. c.frames = m.frames
  BY <1>5, A9Facts DEF Machines
<1>8. m' = [c EXCEPT !.frames = [m.frames EXCEPT ![n] = e]]
  BY <1>2, <1>4, <1>6, <1>7, Zenon DEF A9!AtStage
<1>9. /\ m'.cur = m.cur /\ m'.regs = m.regs /\ m'.nesting = m.nesting
      /\ m'.mask = FALSE /\ m'.off = FALSE /\ m'.pend = m.pend /\ m'.depth = m.depth
      /\ m'.fpu = m.fpu /\ m'.fp = m.fp
      /\ m'.frames = [m.frames EXCEPT ![n] = e] /\ m'.saved = m.saved
  BY <1>5, <1>8, A9Facts DEF Machines
<1>10. m' \in Machines(A9Frames, ASaved)
  <2>1. m' = [m EXCEPT !.frames = [m.frames EXCEPT ![n] = e], !.mask = FALSE, !.off = FALSE]
    BY <1>5, <1>8, A9Facts, Zenon DEF Machines
  <2>2. [m.frames EXCEPT ![n] = e] \in Seq(A9Frames)
    BY <1>2, A9Facts, FrameSet
  <2>3. QED BY <2>1, <2>2, A9Facts, ZenonT(60) DEF Machines
<1>11. /\ e.irq = m.frames[n].irq /\ e.at = "done" /\ ~e.status /\ ~e.off
       /\ e.outer = m.frames[n].outer /\ e.low = m.frames[n].low
  <2>1. /\ e.irq = m.frames[n].irq /\ e.at = "done" /\ e.status = m.frames[n].status
        /\ e.off = m.frames[n].off
        /\ e.outer = m.frames[n].outer /\ e.low = m.frames[n].low
    BY <1>2, <1>4 DEF A9Frames
  <2>2. QED BY <2>1, <1>3
<1>12. SameContext
  BY <1>9 DEF SameContext
<1>13. StepOK /\ CAInv'
  <2>1. m.frames[n].irq # "pendsv" /\ ~Masked'
    BY <1>1, <1>2, <1>9, A9Facts
  <2>2. QED BY <1>1, <1>2, <1>3, <1>9, <1>11, <1>12, <2>1, A9Facts, CAUnmask
<1>14. OffA9' /\ OwnFpuA9'
  BY <1>1, <1>2, <1>3, <1>9, <1>11, A9Facts, A9Stage
<1>15. QED BY <1>10, <1>13, <1>14, A9Kept

LEMMA A9Asks ==
  ASSUME Control, A9Inv, port = "cortex_a9", UNCHANGED port, A9!DeviceYields
  PROVE  StepOK /\ A9Inv'
<1>1. /\ m.frames # <<>> /\ UNCHANGED <<sections, live>>
      /\ Last(m.frames).irq = "dev" /\ m' = [m EXCEPT !.pend = TRUE]
  BY DEF A9!DeviceYields, A9!InHandler, A9!Frame, A9!portYIELD_FROM_ISR, Last
<1>2. PICK n \in Nat : /\ n = Len(m.frames) /\ n > 0 /\ n \in 1..n
                       /\ m.frames[n] \in A9Frames /\ m.frames[n] = Last(m.frames)
  BY <1>1, A9Facts, TopFrame
<1>3. /\ m'.cur = m.cur /\ m'.regs = m.regs /\ m'.nesting = m.nesting
      /\ m'.mask = m.mask /\ m'.off = m.off /\ m'.pend = TRUE /\ m'.depth = m.depth
      /\ m'.fpu = m.fpu /\ m'.fp = m.fp /\ m'.frames = m.frames /\ m'.saved = m.saved
  BY <1>1, A9Facts DEF Machines
<1>4. m' \in Machines(A9Frames, ASaved)
  BY <1>1, A9Facts, ZenonT(60) DEF Machines
<1>5. /\ Depth > 0 /\ m.frames[Depth].irq # "high" /\ SameContext
      /\ m'.frames \in Seq(A9Frames) /\ (Masked' <=> Masked)
  BY <1>1, <1>2, <1>3, A9Facts DEF Depth, SameContext
<1>6. StepOK /\ CAInv'
  BY <1>1, <1>3, <1>5, A9Facts, CAAsk
<1>7. Depth' = Depth
  BY <1>3 DEF Depth
<1>8. OffA9'
  BY <1>3, <1>7, A9Facts DEF OffA9
<1>9. OwnFpuA9'
  BY <1>1, <1>3, A9Facts DEF OwnFpuA9
<1>10. QED BY <1>4, <1>6, <1>8, <1>9, A9Kept

LEMMA A9Counts ==
  ASSUME Control, A9Inv, port = "cortex_a9", UNCHANGED port, A9!TickCounts
  PROVE  StepOK /\ A9Inv'
<1>1. /\ m.frames # <<>> /\ UNCHANGED <<sections, live>>
      /\ Last(m.frames).irq = "tick" /\ Last(m.frames).at = "inside"
      /\ \/ m' = A9!AtStage(m, "counted")
         \/ m' = A9!AtStage([m EXCEPT !.pend = TRUE], "counted")
  BY DEF A9!TickCounts, A9!InHandler, A9!Frame, A9!TickWantsSwitch, Last
<1>2. PICK n \in Nat : /\ n = Len(m.frames) /\ n > 0 /\ n \in 1..n
                       /\ m.frames[n] \in A9Frames /\ m.frames[n] = Last(m.frames)
  BY <1>1, A9Facts, TopFrame
<1>3. n = Depth /\ ~m.frames[n].status /\ ~m.frames[n].off /\ Inside(n) /\ ~m.off
  <2>1. n = Depth
    BY <1>2 DEF Depth
  <2>2. m.cur \in Threads
    BY <1>1, A9Facts DEF Control, BeforeStart, Contexts
  <2>3. QED
    BY <1>1, <1>2, <2>1, <2>2, A9Facts DEF CAInv, FoundUnmasked, Nested, Inside, OffA9
<1>4. PICK p \in BOOLEAN : /\ p = m.pend \/ p = TRUE
                           /\ m' = A9!AtStage([m EXCEPT !.pend = p], "counted")
  <2>1. m = [m EXCEPT !.pend = m.pend] /\ m.pend \in BOOLEAN
    BY A9Facts DEF Machines
  <2>2. QED BY <1>1, <2>1, Zenon
<1>5. PICK e \in A9Frames : e = [m.frames[n] EXCEPT !.at = "counted"]
  BY <1>2, Zenon DEF A9Frames, Stages
<1>6. PICK c : c = [m EXCEPT !.pend = p]
  BY Zenon
<1>7. c.frames = m.frames
  BY <1>6, A9Facts DEF Machines
<1>8. m' = [c EXCEPT !.frames = [m.frames EXCEPT ![n] = e]]
  BY <1>2, <1>4, <1>5, <1>6, <1>7, Zenon DEF A9!AtStage
<1>9. /\ m'.cur = m.cur /\ m'.regs = m.regs /\ m'.nesting = m.nesting
      /\ m'.mask = m.mask /\ m'.off = m.off /\ m'.pend = p /\ m'.depth = m.depth
      /\ m'.fpu = m.fpu /\ m'.fp = m.fp
      /\ m'.frames = [m.frames EXCEPT ![n] = e] /\ m'.saved = m.saved
  BY <1>6, <1>8, A9Facts DEF Machines
<1>10. m' \in Machines(A9Frames, ASaved)
  <2>1. m' = [m EXCEPT !.frames = [m.frames EXCEPT ![n] = e], !.pend = p]
    BY <1>6, <1>8, A9Facts, Zenon DEF Machines
  <2>2. [m.frames EXCEPT ![n] = e] \in Seq(A9Frames)
    BY <1>2, A9Facts, FrameSet
  <2>3. QED BY <2>1, <2>2, A9Facts, ZenonT(60) DEF Machines
<1>11. /\ e.irq = m.frames[n].irq /\ e.at = "counted" /\ ~e.status /\ ~e.off
       /\ e.outer = m.frames[n].outer /\ e.low = m.frames[n].low
  <2>1. /\ e.irq = m.frames[n].irq /\ e.at = "counted" /\ e.status = m.frames[n].status
        /\ e.off = m.frames[n].off
        /\ e.outer = m.frames[n].outer /\ e.low = m.frames[n].low
    BY <1>2, <1>5 DEF A9Frames
  <2>2. QED BY <2>1, <1>3
<1>12. SameContext
  BY <1>9 DEF SameContext
<1>13. StepOK /\ CAInv'
  <2>1. /\ m.frames[n].irq = "tick" /\ (Masked' <=> Masked)
        /\ m'.pend = m.pend \/ m'.pend = TRUE
    BY <1>1, <1>2, <1>4, <1>9, A9Facts
  <2>2. QED BY <1>1, <1>2, <1>3, <1>9, <1>11, <1>12, <2>1, A9Facts, CACount, Zenon
<1>14. OffA9' /\ OwnFpuA9'
  <2>1. e.at # "entered" /\ ~m'.off
    BY <1>3, <1>9, <1>11
  <2>2. QED BY <1>1, <1>2, <1>3, <1>9, <1>11, <2>1, A9Facts, A9Stage
<1>15. QED BY <1>10, <1>13, <1>14, A9Kept

LEMMA A9Returns ==
  ASSUME Control, A9Inv, port = "cortex_a9", UNCHANGED port, A9!HandlerReturns
  PROVE  StepOK /\ A9Inv'
<1>1. /\ m.frames # <<>> /\ UNCHANGED <<sections, live>>
      /\ Last(m.frames).irq # "pendsv" /\ Last(m.frames).at \in {"entered", "done"}
      /\ m' \in A9!LeaveHandler(m)
  BY DEF A9!HandlerReturns, A9!InHandler, A9!Frame, Last
<1>2. PICK n \in Nat : /\ n + 1 = Depth /\ m.frames[n + 1] = Last(m.frames)
                       /\ m.frames[n + 1] \in A9Frames
  <2>1. PICK k \in Nat : /\ k = Len(m.frames) /\ k > 0 /\ m.frames[k] = Last(m.frames)
                         /\ m.frames[k] \in A9Frames
    BY <1>1, A9Facts, TopFrame
  <2>2. k - 1 \in Nat /\ (k - 1) + 1 = k
    BY <2>1
  <2>3. QED BY <2>1, <2>2, Zenon DEF Depth
<1>3. PICK e \in A9Frames : e = m.frames[n + 1]
  BY <1>2
<1>4. /\ e.off = FALSE /\ e.outer = n /\ e.low \in FpValues /\ m.depth = n + 1
      /\ n = 0 => e = m.frames[1]
  <2>1. e.off \in BOOLEAN /\ e.low \in FpValues
    BY DEF A9Frames
  <2>2. ~m.frames[n + 1].off /\ m.frames[n + 1].outer = (n + 1) - 1 /\ m.depth = n + 1
    <3>1. n + 1 \in 1..(n + 1) /\ 1..(n + 1) = 1..Depth
      BY <1>2
    <3>2. QED BY <1>2, <3>1, A9Facts DEF CAInv, Nested
  <2>3. QED BY <1>3, <2>1, <2>2
<1>5. PICK h \in Halves : h = [m.fp EXCEPT !.low = e.low]
  BY <1>4, A9Facts, Zenon DEF Halves
<1>6. h.low = e.low /\ h.high = m.fp.high
  BY <1>5, A9Facts DEF Halves
<1>7. PICK r \in Seq(A9Frames) : /\ r = Front(m.frames) /\ Len(r) = n
                                 /\ (r = <<>> <=> n = 0)
  <2>1. Front(m.frames) \in Seq(A9Frames) /\ Len(Front(m.frames)) = n
    BY <1>2, A9Facts, FrontFacts DEF Depth
  <2>2. QED BY <2>1
<1>8. PICK c : c = [m EXCEPT !.depth = n, !.fp = h, !.frames = r]
  OBVIOUS
<1>9. m' \in IF c.depth = 0 /\ c.pend THEN A9!Switch([c EXCEPT !.pend = FALSE], e.off)
             ELSE {[c EXCEPT !.off = e.off]}
  <2>1. A9!Frame(m) = e
    BY <1>2, <1>3, Zenon DEF A9!Frame, Last
  <2>2. PICK g : g = [m EXCEPT !.depth = e.outer, !.fp.low = e.low]
    OBVIOUS
  <2>3. g = [m EXCEPT !.depth = n, !.fp = h]
    BY <2>2, <1>4, <1>5, A9Facts DEF Machines
  <2>4. c = A9!Pop(g)
    BY <1>7, <1>8, <2>3, A9Facts DEF A9!Pop, Front, Machines
  <2>5. QED BY <1>1, <2>1, <2>2, <2>4, Zenon DEF A9!LeaveHandler
<1>10. /\ c.cur = m.cur /\ c.regs = m.regs /\ c.nesting = m.nesting
       /\ c.mask = m.mask /\ c.off = m.off /\ c.pend = m.pend /\ c.depth = n
       /\ c.fpu = m.fpu /\ c.fp = h /\ c.frames = r /\ c.saved = m.saved
  BY <1>8, A9Facts DEF Machines
<1>11. c \in Machines(A9Frames, ASaved)
  <2>1. n \in Int
    OBVIOUS
  <2>2. QED BY <1>8, <2>1, A9Facts, ZenonT(60) DEF Machines
<1>12. m.cur \in Threads
  BY <1>1, A9Facts DEF Control, BeforeStart, Contexts
<1>13. ~Inside(n + 1) /\ m.frames[n + 1].irq # "pendsv"
  BY <1>1, <1>2 DEF Inside
<1>14. n = 0 /\ m.cur \in live => h = FpOf(m.cur)
  <2>1. n = 0 /\ m.cur \in live => h.low = m.cur /\ h.high = m.cur
    BY <1>1, <1>4, <1>6, A9Facts DEF OwnFpuA9
  <2>2. QED BY <2>1, FpOfHalves
<1>15. CASE n = 0 /\ m.pend
  <2>1. PICK g : g = [c EXCEPT !.pend = FALSE]
    BY Zenon
  <2>2. /\ g.cur = m.cur /\ g.regs = m.regs /\ g.nesting = m.nesting
        /\ g.pend = FALSE /\ g.depth = 0 /\ g.fpu = m.fpu /\ g.fp = h
        /\ g.frames = <<>> /\ g.saved = m.saved
    BY <1>7, <1>10, <1>11, <1>15, <2>1 DEF Machines
  <2>3. g \in Machines(A9Frames, ASaved)
    BY <1>11, <2>1, ZenonT(60) DEF Machines
  <2>4. /\ m' \in Machines(A9Frames, ASaved) /\ CAInv' /\ OffA9' /\ OwnFpuA9'
        /\ m'.cur \in Threads /\ (Masked' <=> sections[m'.cur] > 0)
        /\ m'.frames = <<>> /\ m'.pend = FALSE
    <3>1. PICK off : off = FALSE /\ m' \in A9!Switch(g, off)
      BY <1>4, <1>9, <1>10, <1>15, <2>1
    <3>2. m.cur \in live => g.fp = FpOf(m.cur)
      BY <1>14, <1>15, <2>2
    <3>3. QED BY <1>1, <1>12, <2>2, <2>3, <3>1, <3>2, A9Facts, A9Switched, Zenon
  <2>5. Depth = 1 /\ ~Inside(1) /\ m.frames[1].irq # "pendsv"
    BY <1>2, <1>13, <1>15
  <2>6. StepOK
    BY <1>1, <1>15, <2>4, <2>5, CARestore, Zenon
  <2>7. QED BY <2>4, <2>6, A9Kept
<1>16. CASE ~(n = 0 /\ m.pend)
  <2>1. m' = [c EXCEPT !.off = FALSE]
    BY <1>4, <1>9, <1>10, <1>16
  <2>2. /\ m'.cur = m.cur /\ m'.regs = m.regs /\ m'.nesting = m.nesting
        /\ m'.mask = m.mask /\ m'.off = FALSE /\ m'.pend = m.pend /\ m'.depth = n
        /\ m'.fpu = m.fpu /\ m'.fp = h /\ m'.frames = Front(m.frames)
        /\ m'.saved = m.saved
    BY <1>7, <1>10, <1>11, <2>1 DEF Machines
  <2>3. m' \in Machines(A9Frames, ASaved)
    BY <1>11, <2>1, ZenonT(60) DEF Machines
  <2>4. SameContext
    BY <2>2 DEF SameContext
  <2>5. StepOK /\ CAInv'
    <3>1. /\ Depth = n + 1 /\ (n = 0 => ~m.pend)
          /\ m'.depth = m.frames[n + 1].outer /\ (Masked' <=> Masked)
      BY <1>2, <1>3, <1>4, <1>16, <2>2, A9Facts
    <3>2. QED BY <1>1, <1>13, <2>2, <2>4, <3>1, A9Facts, CAReturn, Zenon
  <2>6. /\ (m'.frames = <<>> <=> n = 0) /\ Depth' = n
        /\ \A f \in 1..n : m'.frames[f] = m.frames[f]
    BY <1>2, <2>2, A9Facts, FramePopped, Zenon
  <2>7. OffA9'
    <3>1. \A f \in 1..n : m.frames[f].at # "entered"
      <4>1. \A f \in 1..n : f \in 1..(n + 1) /\ f # n + 1
        OBVIOUS
      <4>2. QED BY <1>2, <4>1, A9Facts, Zenon DEF OffA9
    <3>2. \A f \in 1..n : m'.frames[f].at # "entered"
      BY <2>6, <3>1
    <3>3. n > 0 => n \in 1..n
      OBVIOUS
    <3>4. QED BY <2>2, <2>6, <3>2, <3>3 DEF OffA9
  <2>8. OwnFpuA9'
    <3>1. CASE n = 0
      BY <1>1, <1>14, <2>2, <2>6, <3>1 DEF OwnFpuA9, FpOf
    <3>2. CASE n # 0
      <4>1. 1 \in 1..n /\ m'.frames[1] = m.frames[1]
        BY <2>6, <3>2
      <4>2. m.cur \in live => m.fp.high = m.cur /\ m.frames[1].low = m.cur
        BY <1>1, A9Facts DEF OwnFpuA9
      <4>3. QED BY <1>1, <1>6, <2>2, <2>6, <3>2, <4>1, <4>2 DEF OwnFpuA9
    <3>3. QED BY <3>1, <3>2
  <2>9. QED BY <2>3, <2>5, <2>7, <2>8, A9Kept
<1>17. QED BY <1>15, <1>16

LEMMA A9Step ==
  ASSUME Control, A9Inv, port = "cortex_a9", UNCHANGED port, A9!PortNext
  PROVE  StepOK /\ A9Inv'
<1>1. ASSUME NEW t \in Threads, A9!StartScheduler(t)
      PROVE  StepOK /\ A9Inv'
  BY <1>1, A9Start
<1>2. ASSUME NEW i \in Interrupts, A9!Interrupted(i)
      PROVE  StepOK /\ A9Inv'
  BY <1>2, A9Interrupted
<1>3. ~A9!SwitchInterrupts /\ ~A9!SwitchSteps
  BY DEF A9!SwitchInterrupts, A9!SwitchSteps, A9!SwitchTaken, A9!SwitchHandler
<1>4. \/ A9!EnterSection \/ A9!LeaveSection \/ A9!Yield \/ A9!RegisterFpu
      \/ A9!TaskUsesFpu \/ A9!HandlerUsesFpu \/ A9!DeviceMasks
      \/ A9!DeviceUnmasks \/ A9!DeviceYields \/ A9!TickBegins \/ A9!TickCounts
      \/ A9!TickFinishes \/ A9!HandlerReturns
      \/ (\E t \in Threads : A9!StartScheduler(t))
      \/ (\E i \in Interrupts : A9!Interrupted(i))
  BY <1>3, Zenon DEF A9!PortNext, A9!Interrupts, Interrupts
<1>5. QED
  BY <1>1, <1>2, <1>4, A9Enter, A9Leave, A9Yield, A9Registers, A9TaskUses,
     A9HandlerUses, A9Masks, A9Unmasks, A9Asks, A9Counts, A9Returns

LEMMA A53Facts ==
  ASSUME Control, A53Inv, port = "cortex_a53", UNCHANGED port
  PROVE  /\ m \in Machines(A53Frames, ASaved) /\ CortexA /\ CAInv
         /\ m.frames \in Seq(A53Frames) /\ m.nesting \in Int /\ m.depth \in Int
         /\ m.mask \in BOOLEAN /\ m.off \in BOOLEAN /\ m.pend \in BOOLEAN
         /\ m.fpu \in BOOLEAN /\ m.fp \in Halves
         /\ m.saved \in [Threads -> ASaved] /\ m.cur \in Contexts /\ m.regs \in Contexts
         /\ Depth <= 1 /\ OffA53 /\ OwnFpuA53 /\ (Masked <=> m.mask) /\ (Masked' <=> m'.mask)
         /\ main \notin Threads /\ main \in Contexts /\ Threads \subseteq Contexts
<1>1. m \in Machines(A53Frames, ASaved)
  BY DEF A53Inv
<1>2. /\ m.frames \in Seq(A53Frames) /\ m.nesting \in Int /\ m.depth \in Int
      /\ m.mask \in BOOLEAN /\ m.off \in BOOLEAN /\ m.pend \in BOOLEAN
      /\ m.fpu \in BOOLEAN /\ m.fp \in Halves
      /\ m.saved \in [Threads -> ASaved] /\ m.cur \in Contexts /\ m.regs \in Contexts
  BY <1>1 DEF Machines
<1>3. QED
  BY <1>1, <1>2, PortsAssumption DEF A53Inv, CAInv, CortexA, Masked, Contexts

LEMMA A53Kept ==
  ASSUME m' \in Machines(A53Frames, ASaved), StepOK, CAInv',
         Depth' <= 1, OffA53', OwnFpuA53'
  PROVE  StepOK /\ A53Inv'
BY DEF A53Inv, CAInv

LEMMA A53Tasks ==
  ASSUME m'.frames = <<>>, ~m'.off, m'.cur \in live' => m'.fp = FpOf(m'.cur)
  PROVE  Depth' <= 1 /\ OffA53' /\ OwnFpuA53'
<1>1. Depth' = 0
  BY NoFrames
<1>2. QED BY <1>1 DEF OffA53, OwnFpuA53

LEMMA A53OwnFp ==
  ASSUME OwnFpuA53, m.frames = <<>>, m.cur \in live
  PROVE  m.fp = FpOf(m.cur)
BY DEF OwnFpuA53

LEMMA A53Enter ==
  ASSUME Control, A53Inv, port = "cortex_a53", UNCHANGED port, A53!EnterSection
  PROVE  StepOK /\ A53Inv'
<1>1. /\ m' = [m EXCEPT !.mask = TRUE, !.off = FALSE, !.nesting = m.nesting + 1]
      /\ sections' = [sections EXCEPT ![m.cur] = @ + 1] /\ UNCHANGED live
      /\ m.frames = <<>>
  <2>1. PICK c : c = [m EXCEPT !.mask = TRUE, !.off = FALSE]
    OBVIOUS
  <2>2. A53!ulPortSetInterruptMask(m) = c
    BY <2>1, A53Facts, Zenon DEF A53!ulPortSetInterruptMask, A53!portENABLE_INTERRUPTS,
       A53!portDISABLE_INTERRUPTS, Machines
  <2>3. m' = [c EXCEPT !.nesting = @ + 1]
    BY <2>2 DEF A53!EnterSection, A53!portENTER_CRITICAL
  <2>4. m' = [m EXCEPT !.mask = TRUE, !.off = FALSE, !.nesting = m.nesting + 1]
    BY <2>1, <2>3, A53Facts DEF Machines
  <2>5. QED BY <2>4 DEF A53!EnterSection, A53!TaskRuns
<1>2. /\ m'.cur = m.cur /\ m'.regs = m.regs /\ m'.nesting = m.nesting + 1
      /\ m'.mask = TRUE /\ m'.off = FALSE /\ m'.pend = m.pend /\ m'.depth = m.depth
      /\ m'.fpu = m.fpu /\ m'.fp = m.fp /\ m'.frames = m.frames /\ m'.saved = m.saved
  BY <1>1, A53Facts DEF Machines
<1>3. m.nesting + 1 \in Int
  BY A53Facts
<1>4. m' \in Machines(A53Frames, ASaved)
  BY <1>1, <1>3, A53Facts, ZenonT(60) DEF Machines
<1>5. StepOK /\ CAInv'
  BY <1>1, <1>2, A53Facts, CASection
<1>6. m.cur \in live => m.fp = FpOf(m.cur)
  BY <1>1, A53Facts, A53OwnFp
<1>7. Depth' <= 1 /\ OffA53' /\ OwnFpuA53'
  BY <1>1, <1>2, <1>6, A53Tasks
<1>8. QED BY <1>4, <1>5, <1>7, A53Kept

LEMMA A53Leave ==
  ASSUME Control, A53Inv, port = "cortex_a53", UNCHANGED port, A53!LeaveSection
  PROVE  StepOK /\ A53Inv'
<1>1. /\ sections' = [sections EXCEPT ![m.cur] = @ - 1] /\ UNCHANGED live
      /\ m.frames = <<>> /\ sections[m.cur] > 0 /\ m' = A53!portEXIT_CRITICAL(m)
  BY DEF A53!LeaveSection, A53!TaskRuns
<1>2. m.nesting # 0
  BY <1>1, A53Facts, ControlFacts DEF CAInv, OwnNesting, Contexts
<1>3. PICK c : c = [m EXCEPT !.nesting = m.nesting - 1]
  BY Zenon
<1>4. c.nesting = m.nesting - 1
  BY <1>3, A53Facts DEF Machines
<1>4a. c \in Machines(A53Frames, ASaved)
  <2>1. m.nesting - 1 \in Int
    BY A53Facts
  <2>2. QED BY <1>3, <2>1, A53Facts, ZenonT(60) DEF Machines
<1>5. m' = IF m.nesting = 1 THEN [c EXCEPT !.mask = FALSE, !.off = FALSE] ELSE c
  <2>1. m' = IF c.nesting = 0 THEN A53!portCLEAR_INTERRUPT_MASK(c) ELSE c
    BY <1>1, <1>2, <1>3 DEF A53!portEXIT_CRITICAL
  <2>2. c.nesting = 0 <=> m.nesting = 1
    BY <1>4, A53Facts
  <2>3. A53!portCLEAR_INTERRUPT_MASK(c) = [c EXCEPT !.mask = FALSE, !.off = FALSE]
    BY <1>4a, Zenon DEF A53!portCLEAR_INTERRUPT_MASK, A53!portENABLE_INTERRUPTS,
       A53!portDISABLE_INTERRUPTS, Machines
  <2>4. QED BY <2>1, <2>2, <2>3
<1>6. PICK b \in BOOLEAN, o \in BOOLEAN :
        (b <=> m.nesting # 1 /\ m.mask) /\ (o <=> m.nesting # 1 /\ m.off)
  BY Zenon
<1>7. m' = [m EXCEPT !.mask = b, !.off = o, !.nesting = m.nesting - 1]
  BY <1>3, <1>5, <1>6, A53Facts, Zenon DEF Machines
<1>8. /\ m'.cur = m.cur /\ m'.regs = m.regs /\ m'.nesting = m.nesting - 1
      /\ m'.mask = b /\ m'.off = o /\ m'.pend = m.pend /\ m'.depth = m.depth
      /\ m'.fpu = m.fpu /\ m'.fp = m.fp /\ m'.frames = m.frames /\ m'.saved = m.saved
  BY <1>7, A53Facts DEF Machines
<1>9. m.nesting - 1 \in Int
  BY A53Facts
<1>10. m' \in Machines(A53Frames, ASaved)
  BY <1>6, <1>7, <1>9, A53Facts, ZenonT(60) DEF Machines
<1>11. StepOK /\ CAInv'
  <2>1. /\ m.nesting = 1 => ~Masked'
        /\ m.nesting # 1 => (Masked' <=> Masked)
    BY <1>6, <1>8, A53Facts
  <2>2. QED BY <1>1, <1>8, <2>1, A53Facts, CASection
<1>12. Depth' <= 1 /\ OffA53' /\ OwnFpuA53'
  <2>1. m.cur \in live => m.fp = FpOf(m.cur)
    BY <1>1, A53Facts, A53OwnFp
  <2>2. CASE m.cur \in Threads
    <3>1. ~m'.off
      BY <1>1, <1>6, <1>8, <2>2, A53Facts DEF OffA53
    <3>2. QED BY <1>1, <1>8, <2>1, <3>1, A53Tasks
  <2>3. CASE m.cur \notin Threads
    <3>1. Depth' = 0 /\ m'.cur \notin Threads
      BY <1>1, <1>8, <2>3, NoFrames
    <3>2. m'.cur \in live' => m'.fp = FpOf(m'.cur)
      BY <1>1, <1>8, <2>1
    <3>3. QED BY <1>1, <1>8, <3>1, <3>2 DEF OffA53, OwnFpuA53
  <2>4. QED BY <2>2, <2>3
<1>13. QED BY <1>10, <1>11, <1>12, A53Kept

LEMMA A53Restored ==
  ASSUME NEW c \in Machines(A53Frames, ASaved), c.cur \in Threads,
         NEW d, d = A53!RestoreContext(c), NEW y \in ASaved, y = c.saved[c.cur]
  PROVE  /\ d \in Machines(A53Frames, ASaved)
         /\ d.cur = c.cur /\ d.frames = c.frames /\ d.saved = c.saved
         /\ d.pend = c.pend /\ d.depth = c.depth
         /\ d.regs = y.regs /\ d.nesting = y.nesting /\ (d.mask <=> y.nesting # 0)
         /\ d.off = y.off /\ d.fpu = y.fpu
         /\ y.fpu => d.fp = y.fp
         /\ ~y.fpu => d.fp = c.fp
<1>1. /\ y.regs \in Contexts /\ y.nesting \in Int /\ y.off \in BOOLEAN
      /\ y.fpu \in BOOLEAN /\ y.fp \in Halves /\ c.fp \in Halves
  BY DEF ASaved, Machines
<1>2. PICK b \in BOOLEAN : b = (y.nesting # 0)
  BY Zenon
<1>3. PICK h \in Halves : h = IF y.fpu THEN y.fp ELSE c.fp
  BY <1>1
<1>4. d = [c EXCEPT !.mask = b, !.nesting = y.nesting, !.fpu = y.fpu, !.fp = h,
                    !.off = y.off, !.regs = y.regs]
  BY <1>2, <1>3, Zenon DEF A53!RestoreContext
<1>5. d \in Machines(A53Frames, ASaved)
  BY <1>1, <1>4, ZenonT(60) DEF Machines
<1>6. /\ d.cur = c.cur /\ d.frames = c.frames /\ d.saved = c.saved
      /\ d.pend = c.pend /\ d.depth = c.depth
      /\ d.regs = y.regs /\ d.nesting = y.nesting /\ d.mask = b
      /\ d.off = y.off /\ d.fpu = y.fpu /\ d.fp = h
  BY <1>4 DEF Machines
<1>7. QED BY <1>2, <1>3, <1>5, <1>6, Zenon

LEMMA A53Start ==
  ASSUME Control, A53Inv, port = "cortex_a53", UNCHANGED port,
         NEW t \in Threads, A53!StartScheduler(t)
  PROVE  StepOK /\ A53Inv'
<1>1. /\ m.cur = main /\ UNCHANGED <<sections, live>> /\ m.frames = <<>>
  BY DEF A53!StartScheduler, Control, BeforeStart
<1>2. PICK c : c = [m EXCEPT !.off = TRUE, !.cur = t]
  OBVIOUS
<1>3. m' = A53!RestoreContext(c)
  <2>1. m' = A53!xPortStartScheduler([A53!portDISABLE_INTERRUPTS(m) EXCEPT !.cur = t])
    BY DEF A53!StartScheduler
  <2>2. c = A53!portDISABLE_INTERRUPTS([A53!portDISABLE_INTERRUPTS(m) EXCEPT !.cur = t])
    BY <1>2, A53Facts, Zenon DEF A53!portDISABLE_INTERRUPTS, Machines
  <2>3. QED BY <2>1, <2>2 DEF A53!xPortStartScheduler, A53!vPortRestoreTaskContext
<1>4. c \in Machines(A53Frames, ASaved)
  <2>1. t \in Contexts
    BY A53Facts
  <2>2. QED BY <1>2, <2>1, A53Facts, ZenonT(60) DEF Machines
<1>5. /\ c.cur = t /\ c.frames = m.frames /\ c.saved = m.saved /\ c.pend = m.pend
      /\ c.depth = m.depth
  BY <1>2, A53Facts DEF Machines
<1>6. PICK y \in ASaved : y = m.saved[t]
  BY A53Facts
<1>7. PICK d : d = m'
  OBVIOUS
<1>8. /\ d \in Machines(A53Frames, ASaved)
      /\ d.cur = c.cur /\ d.frames = c.frames /\ d.saved = c.saved
      /\ d.pend = c.pend /\ d.depth = c.depth
      /\ d.regs = y.regs /\ d.nesting = y.nesting /\ (d.mask <=> y.nesting # 0)
      /\ d.off = y.off /\ d.fpu = y.fpu /\ (y.fpu => d.fp = y.fp)
  <2>1. c.cur \in Threads /\ d = A53!RestoreContext(c) /\ y = c.saved[c.cur]
    BY <1>3, <1>5, <1>6, <1>7
  <2>2. QED BY <1>4, <2>1, A53Restored
<1>9. StepOK /\ CAInv' /\ ~m'.off
  <2>1. /\ m'.cur = t /\ m'.frames = m.frames /\ m'.pend = m.pend
        /\ m'.depth = m.depth /\ m'.saved = m.saved /\ m'.regs = m.saved[t].regs
        /\ m'.nesting = m.saved[t].nesting /\ (Masked' <=> m.saved[t].nesting # 0)
        /\ (m'.off <=> m.saved[t].off) /\ (m'.fpu <=> m.saved[t].fpu)
    BY <1>5, <1>6, <1>7, <1>8, A53Facts
  <2>2. QED BY <1>1, <2>1, A53Facts, CAStart
<1>10. m'.cur \in live' => m'.fp = FpOf(m'.cur)
  <2>1. m'.cur = t /\ live' = live /\ t # m.cur
    BY <1>1, <1>5, <1>7, <1>8, A53Facts
  <2>2. t \in live => y.fpu /\ y.fp = FpOf(t)
    BY <2>1, <1>6, A53Facts DEF CAInv, SavedFpu
  <2>3. QED BY <2>1, <2>2, <1>7, <1>8
<1>11. Depth' <= 1 /\ OffA53' /\ OwnFpuA53'
  <2>1. m'.frames = <<>>
    BY <1>1, <1>5, <1>7, <1>8
  <2>2. QED BY <2>1, <1>9, <1>10, A53Tasks
<1>12. QED BY <1>7, <1>8, <1>9, <1>11, A53Kept

\* Saving the context x of the current task and restoring that of any other.
LEMMA A53Switched ==
  ASSUME Control, A53Inv, port = "cortex_a53", UNCHANGED <<port, sections, live>>,
         m.cur \in Threads,
         NEW c \in Machines(A53Frames, ASaved), c.frames = <<>>, c.depth = 0,
         c.cur = m.cur, c.regs = m.regs, c.nesting = m.nesting,
         c.fpu = m.fpu, c.saved = m.saved, c.pend = FALSE,
         m.cur \in live => c.fp = FpOf(m.cur),
         NEW off, off = FALSE, m' \in A53!Switch(c, off)
  PROVE  /\ m' \in Machines(A53Frames, ASaved) /\ CAInv' /\ Depth' <= 1
         /\ OffA53' /\ OwnFpuA53'
         /\ m'.cur \in Threads /\ (Masked' <=> sections[m'.cur] > 0)
         /\ m'.frames = <<>> /\ m'.pend = FALSE
<1>1. PICK t \in Threads :
        m' = A53!RestoreContext([A53!SaveContext(c, off) EXCEPT !.cur = t])
  BY DEF A53!Switch, A53!SwitchContext
<1>2. /\ c.regs = m.cur /\ c.nesting = sections[m.cur] /\ (m.cur \in live => c.fpu)
  BY A53Facts DEF CAInv, OwnRegsA, OwnNesting, SavedFpu
<1>3. PICK x : x = A53!Context(c.regs, c.nesting, off, c.fpu, c.fp)
  OBVIOUS
<1>4. /\ x \in ASaved /\ x.regs = m.cur /\ x.nesting = sections[m.cur] /\ ~x.off
      /\ m.cur \in live => x.fpu /\ x.fp = FpOf(m.cur)
  <2>1. c.fp \in Halves /\ c.fpu \in BOOLEAN /\ c.regs \in Contexts /\ c.nesting \in Int
    BY DEF Machines
  <2>2. PICK h \in Halves : h = IF c.fpu THEN c.fp ELSE [low |-> "none", high |-> "none"]
    BY <2>1, Zenon DEF Halves, FpValues
  <2>3. x = [regs |-> c.regs, nesting |-> c.nesting, off |-> FALSE, fpu |-> c.fpu,
             fp |-> h]
    BY <1>3, <2>2, Zenon DEF A53!Context, A53!FpOf
  <2>4. QED BY <1>2, <2>1, <2>2, <2>3 DEF ASaved
<1>5. PICK s : s = [m.saved EXCEPT ![m.cur] = x]
  BY Zenon
<1>6. s \in [Threads -> ASaved] /\ s[t] \in ASaved
  BY <1>4, <1>5, A53Facts
<1>7. PICK g : g = [c EXCEPT !.saved = s, !.cur = t]
  OBVIOUS
<1>8. m' = A53!RestoreContext(g)
  <2>1. A53!SaveContext(c, off) = [c EXCEPT !.saved = s]
    <3>1. A53!SaveContext(c, off) = [c EXCEPT !.saved = [c.saved EXCEPT ![c.cur] = x]]
      BY <1>3, Zenon DEF A53!SaveContext
    <3>2. QED BY <3>1, <1>5
  <2>2. g = [[c EXCEPT !.saved = s] EXCEPT !.cur = t]
    BY <1>7 DEF Machines
  <2>3. QED BY <1>1, <2>1, <2>2
<1>9. g \in Machines(A53Frames, ASaved)
  <2>1. t \in Contexts
    BY A53Facts
  <2>2. QED BY <1>6, <1>7, <2>1, ZenonT(60) DEF Machines
<1>10. /\ g.cur = t /\ g.frames = <<>> /\ g.saved = s /\ g.pend = FALSE /\ g.depth = 0
  BY <1>7 DEF Machines
<1>11. PICK d : d = m'
  OBVIOUS
<1>12. PICK y \in ASaved : y = s[t]
  BY <1>6
<1>13. /\ d \in Machines(A53Frames, ASaved)
       /\ d.cur = g.cur /\ d.frames = g.frames /\ d.saved = g.saved
       /\ d.pend = g.pend /\ d.depth = g.depth
       /\ d.regs = y.regs /\ d.nesting = y.nesting /\ (d.mask <=> y.nesting # 0)
       /\ d.off = y.off /\ d.fpu = y.fpu /\ (y.fpu => d.fp = y.fp)
  <2>1. g.cur \in Threads /\ d = A53!RestoreContext(g) /\ y = g.saved[g.cur]
    BY <1>8, <1>10, <1>11, <1>12
  <2>2. QED BY <1>9, <2>1, A53Restored
<1>14. /\ m'.cur = t /\ m'.saved = s /\ m'.regs = s[t].regs
       /\ m'.nesting = s[t].nesting /\ (Masked' <=> s[t].nesting # 0)
       /\ (m'.off <=> s[t].off) /\ (m'.fpu <=> s[t].fpu)
       /\ (s[t].fpu => m'.fp = s[t].fp)
       /\ m'.frames = <<>> /\ m'.depth = 0 /\ ~m'.pend /\ m'.pend = FALSE
  BY <1>10, <1>11, <1>12, <1>13, A53Facts
<1>15. /\ CAInv' /\ (Masked' <=> sections[t] > 0) /\ ~m'.off
       /\ t \in live => m'.fp = FpOf(t)
  BY <1>4, <1>5, <1>14, A53Facts, CASwitched
<1>16. Depth' <= 1 /\ OffA53' /\ OwnFpuA53'
  BY <1>14, <1>15, A53Tasks
<1>17. QED BY <1>11, <1>13, <1>14, <1>15, <1>16

LEMMA A53Yield ==
  ASSUME Control, A53Inv, port = "cortex_a53", UNCHANGED port, A53!Yield
  PROVE  StepOK /\ A53Inv'
<1>1. /\ m' \in A53!Switch(m, m.off) /\ UNCHANGED <<sections, live>>
      /\ m.frames = <<>> /\ m.cur # main
  BY DEF A53!Yield, A53!TaskRuns, A53!portYIELD
<1>2. m.cur \in Threads /\ m.off = FALSE /\ m.pend = FALSE /\ m.depth = 0
  BY <1>1, A53Facts, NoFramesNow DEF Contexts, OffA53, CAInv, Nested
<1>3. m.cur \in live => m.fp = FpOf(m.cur)
  BY <1>1, A53Facts, A53OwnFp
<1>4. /\ m' \in Machines(A53Frames, ASaved) /\ CAInv' /\ Depth' <= 1
      /\ OffA53' /\ OwnFpuA53'
      /\ m'.cur \in Threads /\ (Masked' <=> sections[m'.cur] > 0)
      /\ m'.frames = <<>> /\ m'.pend = FALSE
  <2>1. PICK off : off = FALSE /\ m' \in A53!Switch(m, off)
    BY <1>1, <1>2
  <2>2. QED BY <1>1, <1>2, <1>3, <2>1, A53Facts, A53Switched, Zenon
<1>5. StepOK
  BY <1>1, <1>2, <1>4, A53Facts, CAYield, Zenon
<1>6. QED BY <1>4, <1>5, A53Kept

LEMMA A53Registers ==
  ASSUME Control, A53Inv, port = "cortex_a53", UNCHANGED port, A53!RegisterFpu
  PROVE  StepOK /\ A53Inv'
<1>1. m' = [m EXCEPT !.fpu = TRUE] /\ UNCHANGED <<sections, live>>
  BY DEF A53!RegisterFpu, A53!vPortTaskUsesFPU
<1>2. /\ m'.cur = m.cur /\ m'.regs = m.regs /\ m'.nesting = m.nesting
      /\ m'.mask = m.mask /\ m'.off = m.off /\ m'.pend = m.pend /\ m'.depth = m.depth
      /\ m'.fpu = TRUE /\ m'.fp = m.fp /\ m'.frames = m.frames /\ m'.saved = m.saved
  BY <1>1, A53Facts DEF Machines
<1>3. m' \in Machines(A53Frames, ASaved)
  BY <1>1, A53Facts, ZenonT(60) DEF Machines
<1>4. SameContext /\ m'.frames \in Seq(A53Frames) /\ Masked' = Masked
  BY <1>2, A53Facts DEF SameContext, Masked
<1>5. StepOK /\ CAInv'
  BY <1>1, <1>2, <1>4, A53Facts, CAQuiet
<1>6. Depth' = Depth
  BY <1>2 DEF Depth
<1>7. OffA53' /\ OwnFpuA53'
  BY <1>1, <1>2, A53Facts DEF OffA53, OwnFpuA53
<1>8. QED BY <1>3, <1>5, <1>6, <1>7, A53Facts, A53Kept

LEMMA A53TaskUses ==
  ASSUME Control, A53Inv, port = "cortex_a53", UNCHANGED port, A53!TaskUsesFpu
  PROVE  StepOK /\ A53Inv'
<1>1. PICK h : h = A53!FpOf(m.cur)
  OBVIOUS
<1>2. h = FpOf(m.cur) /\ h \in Halves
  BY <1>1, A53Facts DEF A53!FpOf, FpOf, Halves, FpValues
<1>3. /\ m' = [m EXCEPT !.fp = h] /\ live' = live \cup {m.cur} /\ UNCHANGED sections
      /\ m.frames = <<>> /\ m.cur \in Threads /\ m.fpu
  BY <1>1, PortsAssumption
     DEF A53!TaskUsesFpu, A53!TaskRuns, A53!UseFpu, A53!FpuAllowed
<1>4. /\ m'.cur = m.cur /\ m'.regs = m.regs /\ m'.nesting = m.nesting
      /\ m'.mask = m.mask /\ m'.off = m.off /\ m'.pend = m.pend /\ m'.depth = m.depth
      /\ m'.fpu = m.fpu /\ m'.fp = h /\ m'.frames = m.frames /\ m'.saved = m.saved
  BY <1>3, A53Facts, Zenon DEF Machines
<1>5. m' \in Machines(A53Frames, ASaved)
  BY <1>2, <1>3, A53Facts, ZenonT(60) DEF Machines
<1>6. SameContext /\ m'.frames \in Seq(A53Frames) /\ Masked' = Masked
  BY <1>4, A53Facts DEF SameContext, Masked
<1>7. StepOK /\ CAInv'
  BY <1>3, <1>4, <1>6, A53Facts, CAUse, Zenon
<1>8. ~m.off
  BY <1>3, A53Facts DEF OffA53
<1>9. Depth' <= 1 /\ OffA53' /\ OwnFpuA53'
  BY <1>2, <1>3, <1>4, <1>8, A53Tasks
<1>10. QED BY <1>5, <1>7, <1>9, A53Kept

LEMMA A53HandlerUses ==
  ASSUME Control, A53Inv, port = "cortex_a53", UNCHANGED port, A53!HandlerUsesFpu
  PROVE  StepOK /\ A53Inv'
<1>1. PICK h \in Halves : h = [m.fp EXCEPT !.low = "handler"]
  BY A53Facts, Zenon DEF Halves, FpValues
<1>2. /\ m' = [m EXCEPT !.fp = h] /\ UNCHANGED <<sections, live>> /\ m.frames # <<>>
  BY <1>1 DEF A53!HandlerUsesFpu, A53!InHandler, A53!UseFpu
<1>3. /\ m'.cur = m.cur /\ m'.regs = m.regs /\ m'.nesting = m.nesting
      /\ m'.mask = m.mask /\ m'.off = m.off /\ m'.pend = m.pend /\ m'.depth = m.depth
      /\ m'.fpu = m.fpu /\ m'.fp = h /\ m'.frames = m.frames /\ m'.saved = m.saved
  BY <1>2, A53Facts DEF Machines
<1>4. m' \in Machines(A53Frames, ASaved)
  BY <1>1, <1>2, A53Facts, ZenonT(60) DEF Machines
<1>5. SameContext /\ m'.frames \in Seq(A53Frames) /\ Masked' = Masked
  BY <1>3, A53Facts DEF SameContext, Masked
<1>6. StepOK /\ CAInv'
  BY <1>2, <1>3, <1>5, A53Facts, CAQuiet
<1>7. Depth' = Depth
  BY <1>3 DEF Depth
<1>8. OffA53'
  BY <1>3, A53Facts DEF OffA53
<1>9. OwnFpuA53'
  BY <1>2, <1>3, A53Facts DEF OwnFpuA53
<1>10. QED BY <1>4, <1>6, <1>7, <1>8, <1>9, A53Facts, A53Kept

LEMMA A53Interrupted ==
  ASSUME Control, A53Inv, port = "cortex_a53", UNCHANGED port,
         NEW i \in Interrupts, A53!Interrupted(i), m.frames = <<>>
  PROVE  StepOK /\ A53Inv'
<1>1. /\ m.cur # main /\ ~m.off /\ (m.mask => i = "high")
      /\ UNCHANGED <<sections, live>>
      /\ m' = A53!FreeRTOS_IRQ_Handler(m, i)
  BY DEF A53!Interrupted, A53!Takes, A53!EnterHandler
<1>2. PICK e : e = [irq |-> i, at |-> "entered", status |-> FALSE, off |-> FALSE,
                    outer |-> m.depth, fp |-> m.fp]
  BY Zenon
<1>3. /\ e \in A53Frames /\ e.irq = i /\ e.irq \in Irqs \ {"pendsv"}
      /\ e.at = "entered" /\ ~e.status /\ ~e.off /\ e.outer = m.depth
      /\ e.fp = m.fp
  <2>1. i \in Irqs /\ i # "pendsv" /\ m.depth \in Int /\ m.fp \in Halves
    BY A53Facts DEF Interrupts, Irqs
  <2>2. QED BY <1>2, <2>1 DEF A53Frames, Stages
<1>4. m' = [m EXCEPT !.off = TRUE, !.depth = m.depth + 1, !.frames = Append(m.frames, e)]
  <2>1. PICK c : c = [m EXCEPT !.off = TRUE, !.depth = @ + 1]
    OBVIOUS
  <2>2. m.off = FALSE
    BY <1>1, A53Facts
  <2>3. m' = A53!Push(c, [irq |-> i, at |-> "entered", status |-> FALSE,
                         off |-> m.off, outer |-> m.depth, fp |-> m.fp])
    BY <1>1, <2>1, Zenon DEF A53!FreeRTOS_IRQ_Handler
  <2>4. m' = A53!Push(c, e)
    BY <1>2, <2>2, <2>3, Zenon
  <2>5. m' = [c EXCEPT !.frames = Append(c.frames, e)]
    BY <2>4 DEF A53!Push
  <2>6. c.frames = m.frames
    BY <2>1, A53Facts DEF Machines
  <2>7. QED BY <2>1, <2>5, <2>6, A53Facts, Zenon DEF Machines
<1>5. /\ m'.cur = m.cur /\ m'.regs = m.regs /\ m'.nesting = m.nesting
      /\ m'.mask = m.mask /\ m'.off = TRUE /\ m'.pend = m.pend
      /\ m'.depth = m.depth + 1 /\ m'.fpu = m.fpu /\ m'.fp = m.fp
      /\ m'.frames = Append(m.frames, e) /\ m'.saved = m.saved
  BY <1>4, A53Facts DEF Machines
<1>6. m' \in Machines(A53Frames, ASaved)
  <2>1. Append(m.frames, e) \in Seq(A53Frames)
    BY <1>3, A53Facts, AppendProperties
  <2>2. m.depth + 1 \in Int
    BY A53Facts
  <2>3. QED BY <1>4, <2>1, <2>2, A53Facts, ZenonT(60) DEF Machines
<1>7. m.cur \in Threads /\ SameContext
  BY <1>1, <1>5, A53Facts DEF Contexts, SameContext
<1>8. StepOK /\ CAInv'
  BY <1>1, <1>3, <1>5, <1>7, A53Facts, CAEnter
<1>9. Depth = 0
  BY NoFramesNow
<1>10. Depth' = 1 /\ m'.frames # <<>> /\ m'.frames[1] = e
  <2>1. PICK n \in Nat : n = Depth /\ n + 1 = 1
    BY <1>9
  <2>2. m.frames \in Seq(A53Frames)
    BY A53Facts
  <2>3. Depth' = n + 1 /\ m'.frames # <<>> /\ m'.frames[n + 1] = e
    BY <1>3, <1>5, <2>1, <2>2, FramePushed
  <2>4. QED BY <2>1, <2>3
<1>11. OffA53'
  BY <1>3, <1>5, <1>10 DEF OffA53
<1>12. OwnFpuA53'
  <2>1. m.cur \in live => m.fp = FpOf(m.cur)
    BY A53Facts, A53OwnFp
  <2>2. QED BY <2>1, <1>1, <1>3, <1>5, <1>10 DEF OwnFpuA53
<1>13. QED BY <1>6, <1>8, <1>10, <1>11, <1>12, A53Kept

\* The vector of an interrupt of a handler: nothing goes on.
LEMMA A53Hangs ==
  ASSUME Control, A53Inv, port = "cortex_a53", UNCHANGED port,
         NEW i \in Interrupts, A53!Interrupted(i), m.frames # <<>>
  PROVE  StepOK /\ A53Inv'
<1>1. m' = [m EXCEPT !.hung = TRUE] /\ UNCHANGED <<sections, live>>
  BY DEF A53!Interrupted, A53!EnterHandler, A53!curr_el_spx_irq
<1>2. /\ m'.cur = m.cur /\ m'.regs = m.regs /\ m'.nesting = m.nesting
      /\ m'.mask = m.mask /\ m'.off = m.off /\ m'.pend = m.pend /\ m'.depth = m.depth
      /\ m'.fpu = m.fpu /\ m'.fp = m.fp /\ m'.frames = m.frames /\ m'.saved = m.saved
  BY <1>1, A53Facts DEF Machines
<1>3. m' \in Machines(A53Frames, ASaved)
  BY <1>1, A53Facts, ZenonT(60) DEF Machines
<1>4. SameContext /\ m'.frames \in Seq(A53Frames) /\ Masked' = Masked
  BY <1>2, A53Facts DEF SameContext, Masked
<1>5. StepOK /\ CAInv'
  BY <1>1, <1>2, <1>4, A53Facts, CAQuiet
<1>6. Depth' = Depth
  BY <1>2 DEF Depth
<1>7. OffA53' /\ OwnFpuA53'
  BY <1>1, <1>2, A53Facts DEF OffA53, OwnFpuA53
<1>8. QED BY <1>3, <1>5, <1>6, <1>7, A53Facts, A53Kept

\* A handler goes on: it is the only one, and keeps what it has saved of the unit.
LEMMA A53Stage ==
  ASSUME Depth <= 1, OwnFpuA53, UNCHANGED live, m.frames \in Seq(A53Frames),
         NEW n \in Nat, n = Depth, n > 0,
         NEW e \in A53Frames, m'.frames = [m.frames EXCEPT ![n] = e],
         e.fp = m.frames[n].fp, m'.cur = m.cur
  PROVE  /\ n = 1 /\ Depth' <= 1 /\ m'.frames # <<>> /\ m'.frames[1] = e
         /\ OwnFpuA53'
<1>1. n = 1
  OBVIOUS
<1>2. n = Len(m.frames)
  BY DEF Depth
<1>3. /\ [m.frames EXCEPT ![n] = e] \in Seq(A53Frames)
      /\ Len([m.frames EXCEPT ![n] = e]) = n /\ [m.frames EXCEPT ![n] = e][n] = e
  BY <1>2, FrameSet
<1>4. Depth' <= 1 /\ m'.frames # <<>> /\ m'.frames[1] = e
  BY <1>1, <1>3 DEF Depth
<1>5. m.frames # <<>>
  BY DEF Depth
<1>6. OwnFpuA53'
  BY <1>1, <1>4, <1>5 DEF OwnFpuA53
<1>7. QED BY <1>1, <1>4, <1>6

LEMMA A53Masks ==
  ASSUME Control, A53Inv, port = "cortex_a53", UNCHANGED port,
         A53!DeviceMasks \/ A53!TickBegins
  PROVE  StepOK /\ A53Inv'
<1>1. /\ m.frames # <<>> /\ UNCHANGED <<sections, live>>
      /\ Last(m.frames).irq \in {"dev", "tick"} /\ Last(m.frames).at = "entered"
      /\ \/ m' = A53!AtStage(A53!portSET_INTERRUPT_MASK_FROM_ISR(m), "inside")
            /\ Last(m.frames).irq = "dev"
         \/ m' = A53!AtStage([m EXCEPT !.mask = TRUE], "inside")
            /\ Last(m.frames).irq = "tick"
  BY DEF A53!DeviceMasks, A53!TickBegins, A53!InHandler, A53!Frame, A53!TickStarts,
         Last
<1>2. PICK n \in Nat : /\ n = Len(m.frames) /\ n > 0 /\ n \in 1..n
                       /\ m.frames[n] \in A53Frames /\ m.frames[n] = Last(m.frames)
  BY <1>1, A53Facts, TopFrame
<1>3. n = Depth /\ ~m.mask /\ ~m.frames[n].status /\ ~m.frames[n].off
      /\ n = 1 /\ m.off = TRUE
  <2>1. n = Depth
    BY <1>2 DEF Depth
  <2>2. ~m.mask
    BY <1>1, <1>2, <2>1, A53Facts, CANoneInside DEF Inside
  <2>3. n = 1 /\ m.off = TRUE
    <3>1. n = 1
      BY <1>2, <2>1, A53Facts
    <3>2. m.off
      BY <1>1, <1>2, <3>1, A53Facts DEF OffA53
    <3>3. QED BY <3>1, <3>2, A53Facts
  <2>4. QED BY <1>2, <2>1, <2>2, <2>3, A53Facts DEF CAInv, FoundUnmasked, Nested
<1>4. PICK d \in A53Frames : d = [m.frames[n] EXCEPT !.status = FALSE]
  BY <1>2, Zenon DEF A53Frames
<1>5. PICK e \in A53Frames : e = [d EXCEPT !.at = "inside"]
  BY Zenon DEF A53Frames, Stages
<1>6. d = m.frames[n]
  <2>1. m.frames[n].status = FALSE
    BY <1>2, <1>3 DEF A53Frames
  <2>2. QED BY <1>2, <1>4, <2>1 DEF A53Frames
<1>7. PICK s : s = [m.frames EXCEPT ![n] = d]
  BY Zenon
<1>8. /\ Len(s) = n /\ s[n] = d /\ [s EXCEPT ![n] = e] = [m.frames EXCEPT ![n] = e]
      /\ [m.frames EXCEPT ![n] = e] \in Seq(A53Frames) /\ s = m.frames
  <2>1. s = m.frames
    BY <1>2, <1>6, <1>7, A53Facts
  <2>2. QED BY <1>2, <1>7, <2>1, A53Facts, FrameSet
<1>9. PICK o \in BOOLEAN : o <=> Last(m.frames).irq = "tick"
  BY Zenon
<1>9a. PICK c : c = [m EXCEPT !.mask = TRUE, !.off = o]
  OBVIOUS
<1>10. m' = A53!AtStage(c, "inside")
  <2>1. CASE Last(m.frames).irq = "dev"
    <3>1. PICK g : g = [m EXCEPT !.frames[Len(m.frames)].status = m.mask]
      BY Zenon
    <3>2. m.mask = FALSE /\ o = FALSE
      BY <1>3, <1>9, <2>1, A53Facts
    <3>3. g = [m EXCEPT !.frames = s]
      BY <1>2, <1>4, <1>7, <3>1, <3>2, Zenon
    <3>4. g = m
      BY <1>8, <3>3, A53Facts DEF Machines
    <3>5. A53!portSET_INTERRUPT_MASK_FROM_ISR(m) = A53!ulPortSetInterruptMask(g)
      BY <3>1, Zenon DEF A53!portSET_INTERRUPT_MASK_FROM_ISR
    <3>6. A53!ulPortSetInterruptMask(m) = c
      BY <1>9a, <3>2, A53Facts, Zenon DEF A53!ulPortSetInterruptMask,
         A53!portENABLE_INTERRUPTS, A53!portDISABLE_INTERRUPTS, Machines
    <3>7. QED BY <1>1, <2>1, <3>4, <3>5, <3>6
  <2>2. CASE Last(m.frames).irq = "tick"
    <3>1. o = TRUE
      BY <1>9, <2>2
    <3>2. c = [m EXCEPT !.mask = TRUE]
      BY <1>3, <1>9a, <3>1, A53Facts, Zenon DEF Machines
    <3>3. QED BY <1>1, <2>2, <3>2
  <2>3. QED BY <1>1, <2>1, <2>2
<1>11. c.frames = m.frames
  BY <1>9a, A53Facts DEF Machines
<1>12. m' = [c EXCEPT !.frames = [m.frames EXCEPT ![n] = e]]
  <2>1. m' = [c EXCEPT !.frames = [c.frames EXCEPT ![Len(c.frames)] =
                                     [c.frames[Len(c.frames)] EXCEPT !.at = "inside"]]]
    BY <1>10, Zenon DEF A53!AtStage
  <2>2. QED BY <2>1, <1>2, <1>5, <1>6, <1>11, Zenon
<1>13. /\ m'.cur = m.cur /\ m'.regs = m.regs /\ m'.nesting = m.nesting
       /\ m'.mask = TRUE /\ m'.off = o /\ m'.pend = m.pend /\ m'.depth = m.depth
       /\ m'.fpu = m.fpu /\ m'.fp = m.fp
       /\ m'.frames = [m.frames EXCEPT ![n] = e] /\ m'.saved = m.saved
  BY <1>9a, <1>12, A53Facts DEF Machines
<1>14. m' \in Machines(A53Frames, ASaved)
  <2>1. m' = [m EXCEPT !.frames = [m.frames EXCEPT ![n] = e], !.mask = TRUE, !.off = o]
    BY <1>9a, <1>12, A53Facts, Zenon DEF Machines
  <2>2. QED BY <2>1, <1>8, <1>9, A53Facts, ZenonT(60) DEF Machines
<1>15. /\ e.irq = m.frames[n].irq /\ e.at = "inside" /\ ~e.status /\ ~e.off
       /\ e.outer = m.frames[n].outer /\ e.fp = m.frames[n].fp
  <2>1. /\ e.irq = d.irq /\ e.at = "inside" /\ e.status = d.status /\ e.off = d.off
        /\ e.outer = d.outer /\ e.fp = d.fp
    BY <1>5 DEF A53Frames
  <2>2. QED BY <2>1, <1>3, <1>6
<1>16. SameContext
  BY <1>13 DEF SameContext
<1>17. StepOK /\ CAInv'
  <2>1. m.frames[n].irq # "high" /\ m.frames[n].at = "entered" /\ Masked'
    BY <1>1, <1>2, <1>13, A53Facts
  <2>2. QED BY <1>1, <1>2, <1>3, <1>13, <1>15, <1>16, <2>1, A53Facts, CAMask, Zenon
<1>18. /\ Depth' <= 1 /\ m'.frames # <<>> /\ m'.frames[1] = e /\ OwnFpuA53'
  BY <1>1, <1>2, <1>3, <1>13, <1>15, A53Facts, A53Stage
<1>19. OffA53'
  BY <1>2, <1>9, <1>13, <1>15, <1>18 DEF OffA53
<1>20. QED BY <1>14, <1>17, <1>18, <1>19, A53Kept

LEMMA A53Unmasks ==
  ASSUME Control, A53Inv, port = "cortex_a53", UNCHANGED port,
         A53!DeviceUnmasks \/ A53!TickFinishes
  PROVE  StepOK /\ A53Inv'
<1>1. /\ m.frames # <<>> /\ UNCHANGED <<sections, live>>
      /\ Last(m.frames).irq \in {"dev", "tick"}
      /\ Last(m.frames).at \in {"inside", "counted"}
      /\ \/ m' = A53!AtStage(A53!portCLEAR_INTERRUPT_MASK_FROM_ISR(m), "done")
         \/ m' = A53!AtStage(A53!portCLEAR_INTERRUPT_MASK(m), "done")
  BY DEF A53!DeviceUnmasks, A53!TickFinishes, A53!InHandler, A53!Frame, A53!TickEnds,
         Last
<1>2. PICK n \in Nat : /\ n = Len(m.frames) /\ n > 0 /\ n \in 1..n
                       /\ m.frames[n] \in A53Frames /\ m.frames[n] = Last(m.frames)
  BY <1>1, A53Facts, TopFrame
<1>3. n = Depth /\ ~m.frames[n].status /\ ~m.frames[n].off /\ Inside(n)
  <2>1. n = Depth
    BY <1>2 DEF Depth
  <2>2. QED BY <1>1, <1>2, <2>1, A53Facts DEF CAInv, FoundUnmasked, Nested, Inside
<1>4. PICK e \in A53Frames : e = [m.frames[n] EXCEPT !.at = "done"]
  BY <1>2, Zenon DEF A53Frames, Stages
<1>5. PICK c : c = [m EXCEPT !.mask = FALSE, !.off = FALSE]
  OBVIOUS
<1>6. m' = A53!AtStage(c, "done")
  <2>1. A53!Frame(m).status = FALSE
    <3>1. A53!Frame(m) = m.frames[n]
      BY <1>2, Zenon DEF A53!Frame, Last
    <3>2. m.frames[n].status \in BOOLEAN
      BY <1>2 DEF A53Frames
    <3>3. QED BY <3>1, <3>2, <1>3
  <2>2. A53!portCLEAR_INTERRUPT_MASK(m) = c
    BY <1>5, A53Facts, Zenon DEF A53!portCLEAR_INTERRUPT_MASK, A53!portENABLE_INTERRUPTS,
       A53!portDISABLE_INTERRUPTS, Machines
  <2>3. A53!portCLEAR_INTERRUPT_MASK_FROM_ISR(m) = c
    BY <2>1, <2>2 DEF A53!portCLEAR_INTERRUPT_MASK_FROM_ISR, A53!vPortClearInterruptMask
  <2>4. QED BY <1>1, <2>2, <2>3
<1>7. c.frames = m.frames
  BY <1>5, A53Facts DEF Machines
<1>8. m' = [c EXCEPT !.frames = [m.frames EXCEPT ![n] = e]]
  BY <1>2, <1>4, <1>6, <1>7, Zenon DEF A53!AtStage
<1>9. /\ m'.cur = m.cur /\ m'.regs = m.regs /\ m'.nesting = m.nesting
      /\ m'.mask = FALSE /\ m'.off = FALSE /\ m'.pend = m.pend /\ m'.depth = m.depth
      /\ m'.fpu = m.fpu /\ m'.fp = m.fp
      /\ m'.frames = [m.frames EXCEPT ![n] = e] /\ m'.saved = m.saved
  BY <1>5, <1>8, A53Facts DEF Machines
<1>10. m' \in Machines(A53Frames, ASaved)
  <2>1. m' = [m EXCEPT !.frames = [m.frames EXCEPT ![n] = e], !.mask = FALSE, !.off = FALSE]
    BY <1>5, <1>8, A53Facts, Zenon DEF Machines
  <2>2. [m.frames EXCEPT ![n] = e] \in Seq(A53Frames)
    BY <1>2, A53Facts, FrameSet
  <2>3. QED BY <2>1, <2>2, A53Facts, ZenonT(60) DEF Machines
<1>11. /\ e.irq = m.frames[n].irq /\ e.at = "done" /\ ~e.status /\ ~e.off
       /\ e.outer = m.frames[n].outer /\ e.fp = m.frames[n].fp
  <2>1. /\ e.irq = m.frames[n].irq /\ e.at = "done" /\ e.status = m.frames[n].status
        /\ e.off = m.frames[n].off
        /\ e.outer = m.frames[n].outer /\ e.fp = m.frames[n].fp
    BY <1>2, <1>4 DEF A53Frames
  <2>2. QED BY <2>1, <1>3
<1>12. SameContext
  BY <1>9 DEF SameContext
<1>13. StepOK /\ CAInv'
  <2>1. m.frames[n].irq # "pendsv" /\ ~Masked'
    BY <1>1, <1>2, <1>9, A53Facts
  <2>2. QED BY <1>1, <1>2, <1>3, <1>9, <1>11, <1>12, <2>1, A53Facts, CAUnmask
<1>14. /\ Depth' <= 1 /\ m'.frames # <<>> /\ m'.frames[1] = e /\ OwnFpuA53'
  BY <1>1, <1>2, <1>3, <1>9, <1>11, A53Facts, A53Stage
<1>15. OffA53'
  BY <1>9, <1>11, <1>14 DEF OffA53
<1>16. QED BY <1>10, <1>13, <1>14, <1>15, A53Kept

LEMMA A53Asks ==
  ASSUME Control, A53Inv, port = "cortex_a53", UNCHANGED port, A53!DeviceYields
  PROVE  StepOK /\ A53Inv'
<1>1. /\ m.frames # <<>> /\ UNCHANGED <<sections, live>>
      /\ Last(m.frames).irq = "dev" /\ m' = [m EXCEPT !.pend = TRUE]
  BY DEF A53!DeviceYields, A53!InHandler, A53!Frame, A53!portYIELD_FROM_ISR, Last
<1>2. PICK n \in Nat : /\ n = Len(m.frames) /\ n > 0 /\ n \in 1..n
                       /\ m.frames[n] \in A53Frames /\ m.frames[n] = Last(m.frames)
  BY <1>1, A53Facts, TopFrame
<1>3. /\ m'.cur = m.cur /\ m'.regs = m.regs /\ m'.nesting = m.nesting
      /\ m'.mask = m.mask /\ m'.off = m.off /\ m'.pend = TRUE /\ m'.depth = m.depth
      /\ m'.fpu = m.fpu /\ m'.fp = m.fp /\ m'.frames = m.frames /\ m'.saved = m.saved
  BY <1>1, A53Facts DEF Machines
<1>4. m' \in Machines(A53Frames, ASaved)
  BY <1>1, A53Facts, ZenonT(60) DEF Machines
<1>5. /\ Depth > 0 /\ m.frames[Depth].irq # "high" /\ SameContext
      /\ m'.frames \in Seq(A53Frames) /\ (Masked' <=> Masked)
  BY <1>1, <1>2, <1>3, A53Facts DEF Depth, SameContext
<1>6. StepOK /\ CAInv'
  BY <1>1, <1>3, <1>5, A53Facts, CAAsk
<1>7. Depth' = Depth
  BY <1>3 DEF Depth
<1>8. OffA53'
  BY <1>3, A53Facts DEF OffA53
<1>9. OwnFpuA53'
  BY <1>1, <1>3, A53Facts DEF OwnFpuA53
<1>10. QED BY <1>4, <1>6, <1>7, <1>8, <1>9, A53Facts, A53Kept

LEMMA A53Counts ==
  ASSUME Control, A53Inv, port = "cortex_a53", UNCHANGED port, A53!TickCounts
  PROVE  StepOK /\ A53Inv'
<1>1. /\ m.frames # <<>> /\ UNCHANGED <<sections, live>>
      /\ Last(m.frames).irq = "tick" /\ Last(m.frames).at = "inside"
      /\ \/ m' = A53!AtStage(m, "counted")
         \/ m' = A53!AtStage([m EXCEPT !.pend = TRUE], "counted")
  BY DEF A53!TickCounts, A53!InHandler, A53!Frame, A53!TickWantsSwitch, Last
<1>2. PICK n \in Nat : /\ n = Len(m.frames) /\ n > 0 /\ n \in 1..n
                       /\ m.frames[n] \in A53Frames /\ m.frames[n] = Last(m.frames)
  BY <1>1, A53Facts, TopFrame
<1>3. n = Depth /\ ~m.frames[n].status /\ ~m.frames[n].off /\ Inside(n)
      /\ n = 1 /\ m.off = TRUE
  <2>1. n = Depth
    BY <1>2 DEF Depth
  <2>2. n = 1 /\ m.off = TRUE
    <3>1. n = 1
      BY <1>2, <2>1, A53Facts
    <3>2. m.off
      BY <1>1, <1>2, <3>1, A53Facts DEF OffA53
    <3>3. QED BY <3>1, <3>2, A53Facts
  <2>3. QED BY <1>1, <1>2, <2>1, <2>2, A53Facts DEF CAInv, FoundUnmasked, Nested, Inside
<1>4. PICK p \in BOOLEAN : /\ p = m.pend \/ p = TRUE
                           /\ m' = A53!AtStage([m EXCEPT !.pend = p], "counted")
  <2>1. m = [m EXCEPT !.pend = m.pend] /\ m.pend \in BOOLEAN
    BY A53Facts DEF Machines
  <2>2. QED BY <1>1, <2>1, Zenon
<1>5. PICK e \in A53Frames : e = [m.frames[n] EXCEPT !.at = "counted"]
  BY <1>2, Zenon DEF A53Frames, Stages
<1>6. PICK c : c = [m EXCEPT !.pend = p]
  BY Zenon
<1>7. c.frames = m.frames
  BY <1>6, A53Facts DEF Machines
<1>8. m' = [c EXCEPT !.frames = [m.frames EXCEPT ![n] = e]]
  BY <1>2, <1>4, <1>5, <1>6, <1>7, Zenon DEF A53!AtStage
<1>9. /\ m'.cur = m.cur /\ m'.regs = m.regs /\ m'.nesting = m.nesting
      /\ m'.mask = m.mask /\ m'.off = m.off /\ m'.pend = p /\ m'.depth = m.depth
      /\ m'.fpu = m.fpu /\ m'.fp = m.fp
      /\ m'.frames = [m.frames EXCEPT ![n] = e] /\ m'.saved = m.saved
  BY <1>6, <1>8, A53Facts DEF Machines
<1>10. m' \in Machines(A53Frames, ASaved)
  <2>1. m' = [m EXCEPT !.frames = [m.frames EXCEPT ![n] = e], !.pend = p]
    BY <1>6, <1>8, A53Facts, Zenon DEF Machines
  <2>2. [m.frames EXCEPT ![n] = e] \in Seq(A53Frames)
    BY <1>2, A53Facts, FrameSet
  <2>3. QED BY <2>1, <2>2, A53Facts, ZenonT(60) DEF Machines
<1>11. /\ e.irq = m.frames[n].irq /\ e.at = "counted" /\ ~e.status /\ ~e.off
       /\ e.outer = m.frames[n].outer /\ e.fp = m.frames[n].fp
  <2>1. /\ e.irq = m.frames[n].irq /\ e.at = "counted" /\ e.status = m.frames[n].status
        /\ e.off = m.frames[n].off
        /\ e.outer = m.frames[n].outer /\ e.fp = m.frames[n].fp
    BY <1>2, <1>5 DEF A53Frames
  <2>2. QED BY <2>1, <1>3
<1>12. SameContext
  BY <1>9 DEF SameContext
<1>13. StepOK /\ CAInv'
  <2>1. /\ m.frames[n].irq = "tick" /\ (Masked' <=> Masked)
        /\ m'.pend = m.pend \/ m'.pend = TRUE
    BY <1>1, <1>2, <1>4, <1>9, A53Facts
  <2>2. QED BY <1>1, <1>2, <1>3, <1>9, <1>11, <1>12, <2>1, A53Facts, CACount, Zenon
<1>14. /\ Depth' <= 1 /\ m'.frames # <<>> /\ m'.frames[1] = e /\ OwnFpuA53'
  BY <1>1, <1>2, <1>3, <1>9, <1>11, A53Facts, A53Stage
<1>15. OffA53'
  <2>1. e.irq = "tick" /\ m'.off
    BY <1>1, <1>2, <1>3, <1>9, <1>11
  <2>2. QED BY <1>11, <1>14, <2>1 DEF OffA53
<1>16. QED BY <1>10, <1>13, <1>14, <1>15, A53Kept

LEMMA A53Returns ==
  ASSUME Control, A53Inv, port = "cortex_a53", UNCHANGED port, A53!HandlerReturns
  PROVE  StepOK /\ A53Inv'
<1>1. /\ m.frames # <<>> /\ UNCHANGED <<sections, live>>
      /\ Last(m.frames).irq # "pendsv" /\ Last(m.frames).at \in {"entered", "done"}
      /\ m' \in A53!LeaveHandler(m)
  BY DEF A53!HandlerReturns, A53!InHandler, A53!Frame, Last
<1>2. PICK n \in Nat : /\ n + 1 = Depth /\ m.frames[n + 1] = Last(m.frames)
                       /\ m.frames[n + 1] \in A53Frames
  <2>1. PICK k \in Nat : /\ k = Len(m.frames) /\ k > 0 /\ m.frames[k] = Last(m.frames)
                         /\ m.frames[k] \in A53Frames
    BY <1>1, A53Facts, TopFrame
  <2>2. k - 1 \in Nat /\ (k - 1) + 1 = k
    BY <2>1
  <2>3. QED BY <2>1, <2>2, Zenon DEF Depth
<1>3. PICK e \in A53Frames : e = m.frames[n + 1]
  BY <1>2
<1>4. n = 0 /\ m.depth = 1 /\ e = m.frames[1] /\ Depth = 1
      /\ e.off = FALSE /\ e.outer = 0 /\ e.fp \in Halves
  <2>1. e.off \in BOOLEAN /\ e.fp \in Halves
    BY DEF A53Frames
  <2>2. n = 0 /\ Depth = 1
    BY <1>2, A53Facts
  <2>3. ~m.frames[1].off /\ m.frames[1].outer = 0 /\ m.depth = 1
    <3>1. 1 \in 1..Depth
      BY <2>2
    <3>2. QED BY <2>2, <3>1, A53Facts DEF CAInv, Nested
  <2>4. QED BY <1>3, <2>1, <2>2, <2>3
<1>7. PICK r \in Seq(A53Frames) : r = Front(m.frames) /\ r = <<>>
  <2>1. Front(m.frames) \in Seq(A53Frames) /\ Len(Front(m.frames)) = n
    BY <1>2, A53Facts, FrontFacts, Zenon DEF Depth
  <2>2. QED BY <1>4, <2>1
<1>8. PICK c : c = [m EXCEPT !.off = TRUE, !.depth = 0, !.fp = e.fp, !.frames = r]
  OBVIOUS
<1>9. m' \in IF c.depth = 0 /\ c.pend THEN A53!Switch([c EXCEPT !.pend = FALSE], e.off)
             ELSE {[c EXCEPT !.off = e.off]}
  <2>1. A53!Frame(m) = e
    BY <1>2, <1>3, Zenon DEF A53!Frame, Last
  <2>2. PICK g : g = [A53!portDISABLE_INTERRUPTS(m) EXCEPT !.depth = e.outer, !.fp = e.fp]
    OBVIOUS
  <2>3. g = [m EXCEPT !.off = TRUE, !.depth = 0, !.fp = e.fp]
    BY <2>2, <1>4, A53Facts DEF Machines, A53!portDISABLE_INTERRUPTS
  <2>4. c = A53!Pop(g)
    BY <1>7, <1>8, <2>3, A53Facts, Zenon DEF A53!Pop, Front, Machines
  <2>5. QED BY <1>1, <2>1, <2>2, <2>4, Zenon DEF A53!LeaveHandler
<1>10. /\ c.cur = m.cur /\ c.regs = m.regs /\ c.nesting = m.nesting
       /\ c.mask = m.mask /\ c.off = TRUE /\ c.pend = m.pend /\ c.depth = 0
       /\ c.fpu = m.fpu /\ c.fp = e.fp /\ c.frames = <<>> /\ c.saved = m.saved
  BY <1>7, <1>8, A53Facts DEF Machines
<1>11. c \in Machines(A53Frames, ASaved)
  <2>1. 0 \in Int
    OBVIOUS
  <2>2. QED BY <1>4, <1>7, <1>8, <2>1, A53Facts, ZenonT(60) DEF Machines
<1>12. m.cur \in Threads
  BY <1>1, A53Facts DEF Control, BeforeStart, Contexts
<1>13. ~Inside(n + 1) /\ m.frames[n + 1].irq # "pendsv"
  BY <1>1, <1>2 DEF Inside
<1>14. m.cur \in live => e.fp = FpOf(m.cur)
  BY <1>1, <1>4, A53Facts DEF OwnFpuA53
<1>15. CASE m.pend
  <2>1. PICK g : g = [c EXCEPT !.pend = FALSE]
    BY Zenon
  <2>2. /\ g.cur = m.cur /\ g.regs = m.regs /\ g.nesting = m.nesting
        /\ g.pend = FALSE /\ g.depth = 0 /\ g.fpu = m.fpu /\ g.fp = e.fp
        /\ g.frames = <<>> /\ g.saved = m.saved
    BY <1>10, <1>11, <2>1 DEF Machines
  <2>3. g \in Machines(A53Frames, ASaved)
    BY <1>11, <2>1, ZenonT(60) DEF Machines
  <2>4. /\ m' \in Machines(A53Frames, ASaved) /\ CAInv' /\ Depth' <= 1
        /\ OffA53' /\ OwnFpuA53'
        /\ m'.cur \in Threads /\ (Masked' <=> sections[m'.cur] > 0)
        /\ m'.frames = <<>> /\ m'.pend = FALSE
    <3>1. PICK off : off = FALSE /\ m' \in A53!Switch(g, off)
      BY <1>4, <1>9, <1>10, <1>15, <2>1
    <3>2. m.cur \in live => g.fp = FpOf(m.cur)
      BY <1>14, <2>2
    <3>3. QED BY <1>1, <1>12, <2>2, <2>3, <3>1, <3>2, A53Facts, A53Switched, Zenon
  <2>5. ~Inside(1) /\ m.frames[1].irq # "pendsv"
    BY <1>4, <1>13
  <2>6. StepOK
    BY <1>1, <1>4, <1>15, <2>4, <2>5, CARestore, Zenon
  <2>7. QED BY <2>4, <2>6, A53Kept
<1>16. CASE ~m.pend
  <2>1. m' = [c EXCEPT !.off = FALSE]
    BY <1>4, <1>9, <1>10, <1>16
  <2>2. /\ m'.cur = m.cur /\ m'.regs = m.regs /\ m'.nesting = m.nesting
        /\ m'.mask = m.mask /\ m'.off = FALSE /\ m'.pend = m.pend /\ m'.depth = n
        /\ m'.fpu = m.fpu /\ m'.fp = e.fp /\ m'.frames = <<>>
        /\ m'.frames = Front(m.frames) /\ m'.saved = m.saved
    BY <1>4, <1>7, <1>10, <1>11, <2>1 DEF Machines
  <2>3. m' \in Machines(A53Frames, ASaved)
    BY <1>11, <2>1, ZenonT(60) DEF Machines
  <2>4. SameContext
    BY <2>2 DEF SameContext
  <2>5. StepOK /\ CAInv'
    <3>1. /\ Depth = n + 1 /\ (n = 0 => ~m.pend)
          /\ m'.depth = m.frames[n + 1].outer /\ (Masked' <=> Masked)
      BY <1>2, <1>3, <1>4, <1>16, <2>2, A53Facts
    <3>2. QED BY <1>1, <1>13, <2>2, <2>4, <3>1, A53Facts, CAReturn, Zenon
  <2>6. Depth' <= 1 /\ OffA53' /\ OwnFpuA53'
    <3>1. m'.cur \in live' => m'.fp = FpOf(m'.cur)
      BY <1>1, <1>14, <2>2
    <3>2. QED BY <2>2, <3>1, A53Tasks
  <2>7. QED BY <2>3, <2>5, <2>6, A53Kept
<1>17. QED BY <1>15, <1>16

LEMMA A53Step ==
  ASSUME Control, A53Inv, port = "cortex_a53", UNCHANGED port, A53!PortNext
  PROVE  StepOK /\ A53Inv'
<1>1. ASSUME NEW t \in Threads, A53!StartScheduler(t)
      PROVE  StepOK /\ A53Inv'
  BY <1>1, A53Start
<1>2. ASSUME NEW i \in Interrupts, A53!Interrupted(i)
      PROVE  StepOK /\ A53Inv'
  BY <1>2, A53Interrupted, A53Hangs
<1>3. ~A53!SwitchInterrupts /\ ~A53!SwitchSteps
  BY DEF A53!SwitchInterrupts, A53!SwitchSteps, A53!SwitchTaken, A53!SwitchHandler
<1>4. \/ A53!EnterSection \/ A53!LeaveSection \/ A53!Yield \/ A53!RegisterFpu
      \/ A53!TaskUsesFpu \/ A53!HandlerUsesFpu \/ A53!DeviceMasks
      \/ A53!DeviceUnmasks \/ A53!DeviceYields \/ A53!TickBegins \/ A53!TickCounts
      \/ A53!TickFinishes \/ A53!HandlerReturns
      \/ (\E t \in Threads : A53!StartScheduler(t))
      \/ (\E i \in Interrupts : A53!Interrupted(i))
  BY <1>3, Zenon DEF A53!PortNext, A53!Interrupts, Interrupts
<1>5. QED
  BY <1>1, <1>2, <1>4, A53Enter, A53Leave, A53Yield, A53Registers, A53TaskUses,
     A53HandlerUses, A53Masks, A53Unmasks, A53Asks, A53Counts, A53Returns

-----------------------------------------------------------------------------
(* The port to RISC-V.                                                     *)

LEMMA RVFacts ==
  ASSUME Control, RVInv, port = "riscv32", UNCHANGED port
  PROVE  /\ m \in Machines(CoreFrames, RVSaved)
         /\ OwnNesting /\ OwnRegsA /\ Trapped /\ Depth <= 1
         /\ m.frames \in Seq(CoreFrames) /\ m.nesting \in Int /\ m.depth \in Int
         /\ m.off \in BOOLEAN /\ m.pend \in BOOLEAN
         /\ m.saved \in [Threads -> RVSaved] /\ m.cur \in Contexts /\ m.regs \in Contexts
         /\ ~m.mask /\ live = {} /\ (Masked <=> m.off) /\ (Masked' <=> m'.off)
         /\ main \notin Threads /\ main \in Contexts /\ Threads \subseteq Contexts
<1>1. m \in Machines(CoreFrames, RVSaved)
  BY DEF RVInv
<1>2. /\ m.frames \in Seq(CoreFrames) /\ m.nesting \in Int /\ m.depth \in Int
      /\ m.off \in BOOLEAN /\ m.pend \in BOOLEAN
      /\ m.saved \in [Threads -> RVSaved] /\ m.cur \in Contexts /\ m.regs \in Contexts
  BY <1>1 DEF Machines
<1>3. OwnNesting /\ OwnRegsA /\ Trapped /\ Depth <= 1 /\ ~m.mask /\ live = {}
  BY DEF RVInv, Trapped
<1>4. (Masked <=> m.off) /\ (Masked' <=> m'.off)
  BY DEF Masked
<1>5. main \notin Threads /\ main \in Contexts /\ Threads \subseteq Contexts
  BY PortsAssumption DEF Contexts
<1>6. QED BY <1>1, <1>2, <1>3, <1>4, <1>5

LEMMA RVKept ==
  ASSUME m' \in Machines(CoreFrames, RVSaved), live' = {}, ~m'.mask,
         StepOK, OwnNesting', OwnRegsA', Trapped'
  PROVE  StepOK /\ RVInv'
BY DEF RVInv

\* A task that no trap has interrupted.
LEMMA RVTask ==
  ASSUME m'.frames = <<>>, m'.depth = 0, ~m'.pend,
         m'.cur \in Threads => (m'.off <=> sections'[m'.cur] > 0),
         \A t \in Threads : t # m'.cur => (m'.saved[t].off <=> sections'[t] > 0)
  PROVE  Trapped'
<1>1. Depth' = 0
  BY NoFrames
<1>2. QED BY <1>1 DEF Trapped

LEMMA RVSection ==
  ASSUME Control, RVInv, port = "riscv32", UNCHANGED port, m.frames = <<>>,
         m'.frames = <<>>, m'.cur = m.cur, m'.pend = m.pend, m'.regs = m.regs,
         m'.saved = m.saved, m'.depth = m.depth,
         \/ /\ sections' = [sections EXCEPT ![m.cur] = @ + 1]
            /\ m'.nesting = m.nesting + 1 /\ m'.off
         \/ /\ sections[m.cur] > 0 /\ sections' = [sections EXCEPT ![m.cur] = @ - 1]
            /\ m'.nesting = m.nesting - 1
            /\ m.nesting = 1 => ~m'.off
            /\ m.nesting # 1 => (m'.off <=> m.off)
  PROVE  StepOK /\ OwnNesting' /\ OwnRegsA' /\ Trapped'
<1>1. /\ ~m.pend /\ m.depth = 0
      /\ m.cur \in Threads => (m.off <=> sections[m.cur] > 0)
      /\ \A t \in Threads : t # m.cur => (m.saved[t].off <=> sections[t] > 0)
  BY NoFramesNow DEF RVInv, Trapped
<1>2. /\ m.cur \in Contexts /\ sections[m.cur] \in Nat
      /\ \A t \in Contexts : t # m.cur => sections'[t] = sections[t]
      /\ m.cur \in Threads => m.nesting = sections[m.cur]
      /\ m.cur = main => m.nesting = 9999 + sections[m.cur]
      /\ sections'[m.cur] = sections[m.cur] + 1 \/ sections'[m.cur] = sections[m.cur] - 1
      /\ m'.nesting - m.nesting = sections'[m.cur] - sections[m.cur]
      /\ Threads \subseteq Contexts
  BY ControlFacts DEF RVInv, OwnNesting, Contexts
<1>3. m.cur \in Threads => (m'.off <=> sections'[m.cur] > 0)
  BY <1>1, <1>2, ControlFacts
<1>4. Control' /\ (Promise!Enters \/ Promise!Leaves)
  <2>1. \/ sections' = [sections EXCEPT ![m.cur] = @ + 1]
        \/ sections[m.cur] > 0 /\ sections' = [sections EXCEPT ![m.cur] = @ - 1]
    OBVIOUS
  <2>2. m.pend => sections[m.cur] > 0
    BY <1>1
  <2>3. m.cur \in Threads => (Masked' <=> sections'[m.cur] > 0)
    BY <1>3, RVFacts
  <2>4. QED BY <2>1, <2>2, <2>3, SectionStep
<1>5. OwnNesting'
  BY <1>2, ControlFacts DEF RVInv, OwnNesting
<1>6. OwnRegsA'
  BY DEF RVInv, OwnRegsA
<1>7. Trapped'
  <2>1. \A t \in Threads : t # m'.cur => (m'.saved[t].off <=> sections'[t] > 0)
    BY <1>1, <1>2
  <2>2. QED BY <1>1, <1>3, <2>1, RVTask
<1>8. QED
  BY <1>4, <1>5, <1>6, <1>7 DEF StepOK, Promise!ProcessorNext

\* The context of t is restored, of those in s.
LEMMA RVResumed ==
  ASSUME Control, port = "riscv32", UNCHANGED <<port, sections>>,
         NEW s, NEW t \in Threads, m'.cur = t, m'.saved = s,
         \A u \in Threads : /\ s[u].regs = u /\ s[u].nesting = sections[u]
                          /\ (s[u].off <=> sections[u] > 0),
         m'.regs = s[t].regs, m'.nesting = s[t].nesting, m'.off <=> s[t].off,
         m'.frames = <<>>, m'.depth = 0, m'.pend = FALSE
  PROVE  OwnNesting' /\ OwnRegsA' /\ Trapped' /\ (Masked' <=> sections[t] > 0)
<1>1. OwnNesting' /\ OwnRegsA'
  BY ControlFacts DEF OwnNesting, OwnRegsA
<1>2. m'.off <=> sections[t] > 0
  OBVIOUS
<1>3. Trapped'
  <2>1. m'.cur \in Threads => (m'.off <=> sections'[m'.cur] > 0)
    BY <1>2
  <2>2. \A u \in Threads : u # m'.cur => (m'.saved[u].off <=> sections'[u] > 0)
    OBVIOUS
  <2>3. QED BY <2>1, <2>2, RVTask
<1>4. Masked' <=> sections[t] > 0
  BY <1>2 DEF Masked
<1>5. QED BY <1>1, <1>3, <1>4

LEMMA RVRestored ==
  ASSUME NEW c \in Machines(CoreFrames, RVSaved), c.cur \in Threads,
         NEW d, d = RV!RestoreContext(c), NEW y \in RVSaved, y = c.saved[c.cur]
  PROVE  /\ d \in Machines(CoreFrames, RVSaved)
         /\ d.cur = c.cur /\ d.frames = c.frames /\ d.saved = c.saved
         /\ d.pend = c.pend /\ d.depth = c.depth /\ d.mask = c.mask
         /\ d.regs = y.regs /\ d.nesting = y.nesting /\ d.off = y.off
<1>1. y.regs \in Contexts /\ y.nesting \in Int /\ y.off \in BOOLEAN
  BY DEF RVSaved
<1>2. d = [c EXCEPT !.regs = y.regs, !.nesting = y.nesting, !.off = y.off]
  BY Zenon DEF RV!RestoreContext
<1>3. d \in Machines(CoreFrames, RVSaved)
  BY <1>1, <1>2, ZenonT(60) DEF Machines
<1>4. QED BY <1>2, <1>3 DEF Machines

LEMMA RVEnter ==
  ASSUME Control, RVInv, port = "riscv32", UNCHANGED port, RV!EnterSection
  PROVE  StepOK /\ RVInv'
<1>1. /\ m' = [m EXCEPT !.off = TRUE, !.nesting = m.nesting + 1]
      /\ sections' = [sections EXCEPT ![m.cur] = @ + 1] /\ UNCHANGED live
      /\ m.frames = <<>>
  <2>1. PICK c : c = [m EXCEPT !.off = TRUE]
    BY Zenon
  <2>2. m' = [c EXCEPT !.nesting = @ + 1]
    BY <2>1 DEF RV!EnterSection, RV!portENTER_CRITICAL, RV!portDISABLE_INTERRUPTS
  <2>3. m' = [m EXCEPT !.off = TRUE, !.nesting = m.nesting + 1]
    BY <2>1, <2>2, RVFacts DEF Machines
  <2>4. QED BY <2>3 DEF RV!EnterSection, RV!TaskRuns
<1>2. /\ m'.cur = m.cur /\ m'.regs = m.regs /\ m'.nesting = m.nesting + 1
      /\ m'.off = TRUE /\ m'.mask = m.mask /\ m'.pend = m.pend /\ m'.depth = m.depth
      /\ m'.frames = m.frames /\ m'.saved = m.saved
  BY <1>1, RVFacts DEF Machines
<1>3. m.nesting + 1 \in Int
  BY RVFacts
<1>4. m' \in Machines(CoreFrames, RVSaved)
  BY <1>1, <1>3, RVFacts, ZenonT(60) DEF Machines
<1>5. StepOK /\ OwnNesting' /\ OwnRegsA' /\ Trapped'
  BY <1>1, <1>2, RVSection
<1>6. QED BY <1>1, <1>2, <1>4, <1>5, RVFacts, RVKept

LEMMA RVLeave ==
  ASSUME Control, RVInv, port = "riscv32", UNCHANGED port, RV!LeaveSection
  PROVE  StepOK /\ RVInv'
<1>1. /\ sections' = [sections EXCEPT ![m.cur] = @ - 1] /\ UNCHANGED live
      /\ m.frames = <<>> /\ sections[m.cur] > 0 /\ m' = RV!portEXIT_CRITICAL(m)
  BY DEF RV!LeaveSection, RV!TaskRuns
<1>2. m.nesting # 0
  BY <1>1, RVFacts, ControlFacts DEF OwnNesting, Contexts
<1>3. PICK left : left = [m EXCEPT !.nesting = m.nesting - 1]
  BY Zenon
<1>4. m' = IF left.nesting = 0 THEN [left EXCEPT !.off = FALSE] ELSE left
  BY <1>1, <1>2, <1>3, Zenon DEF RV!portEXIT_CRITICAL, RV!portENABLE_INTERRUPTS
<1>5. m.nesting - 1 \in Int
  BY RVFacts
<1>6. left.nesting = m.nesting - 1
  BY <1>3, RVFacts DEF Machines
<1>7. PICK o \in BOOLEAN : o <=> m.nesting # 1 /\ m.off
  BY Zenon
<1>8. m' = [m EXCEPT !.off = o, !.nesting = m.nesting - 1]
  <2>1. CASE m.nesting = 1
    <3>1. left.nesting = 0 /\ o = FALSE
      BY <1>6, <1>7, <2>1
    <3>2. QED BY <1>3, <1>4, <3>1, RVFacts, Zenon DEF Machines
  <2>2. CASE m.nesting # 1
    <3>1. left.nesting # 0 /\ o = m.off
      BY <1>6, <1>7, <2>2, RVFacts
    <3>2. QED BY <1>3, <1>4, <3>1, RVFacts, Zenon DEF Machines
  <2>3. QED BY <2>1, <2>2
<1>9. /\ m'.cur = m.cur /\ m'.regs = m.regs /\ m'.nesting = m.nesting - 1
      /\ m'.off = o /\ m'.mask = m.mask /\ m'.pend = m.pend /\ m'.depth = m.depth
      /\ m'.frames = m.frames /\ m'.saved = m.saved
  BY <1>8, RVFacts DEF Machines
<1>10. m' \in Machines(CoreFrames, RVSaved)
  BY <1>5, <1>7, <1>8, RVFacts, ZenonT(60) DEF Machines
<1>11. StepOK /\ OwnNesting' /\ OwnRegsA' /\ Trapped'
  <2>1. /\ m.nesting = 1 => ~m'.off
        /\ m.nesting # 1 => (m'.off <=> m.off)
    BY <1>7, <1>9, RVFacts
  <2>2. QED BY <1>1, <1>9, <2>1, RVSection
<1>12. QED BY <1>1, <1>9, <1>10, <1>11, RVFacts, RVKept

LEMMA RVStart ==
  ASSUME Control, RVInv, port = "riscv32", UNCHANGED port,
         NEW t \in Threads, RV!StartScheduler(t)
  PROVE  StepOK /\ RVInv'
<1>1. /\ m.cur = main /\ UNCHANGED <<sections, live>> /\ m.frames = <<>>
  BY DEF RV!StartScheduler, Control, BeforeStart
<1>2. PICK c : c = [m EXCEPT !.off = TRUE, !.cur = t, !.nesting = 0, !.pend = FALSE,
                             !.depth = 0]
  OBVIOUS
<1>3. m' = RV!RestoreContext(c)
  <2>1. m' = RV!xPortStartScheduler([RV!portDISABLE_INTERRUPTS(m) EXCEPT !.cur = t])
    BY DEF RV!StartScheduler
  <2>2. c = [[RV!portDISABLE_INTERRUPTS(m) EXCEPT !.cur = t]
               EXCEPT !.nesting = 0, !.pend = FALSE, !.depth = 0]
    BY <1>2, RVFacts DEF RV!portDISABLE_INTERRUPTS, Machines
  <2>3. QED BY <2>1, <2>2 DEF RV!xPortStartScheduler, RV!vRestoreContextOfFirstTask
<1>4. c \in Machines(CoreFrames, RVSaved)
  <2>1. t \in Contexts /\ 0 \in Int
    BY RVFacts
  <2>2. QED BY <1>2, <2>1, RVFacts, ZenonT(60) DEF Machines
<1>5. /\ c.cur = t /\ c.frames = <<>> /\ c.saved = m.saved /\ c.pend = FALSE
      /\ c.depth = 0 /\ c.mask = m.mask
  BY <1>1, <1>2, RVFacts DEF Machines
<1>6. PICK y \in RVSaved : y = m.saved[t]
  BY RVFacts
<1>7. PICK d : d = m'
  OBVIOUS
<1>8. /\ d \in Machines(CoreFrames, RVSaved)
      /\ d.cur = c.cur /\ d.frames = c.frames /\ d.saved = c.saved
      /\ d.pend = c.pend /\ d.depth = c.depth /\ d.mask = c.mask
      /\ d.regs = y.regs /\ d.nesting = y.nesting /\ d.off = y.off
  <2>1. c.cur \in Threads /\ d = RV!RestoreContext(c) /\ y = c.saved[c.cur]
    BY <1>3, <1>5, <1>6, <1>7
  <2>2. QED BY <1>4, <2>1, RVRestored
<1>9. \A u \in Threads : /\ m.saved[u].regs = u /\ m.saved[u].nesting = sections[u]
                       /\ (m.saved[u].off <=> sections[u] > 0)
  <2>1. \A u \in Threads : u # m.cur
    BY <1>1, RVFacts
  <2>2. QED BY <2>1, RVFacts DEF OwnRegsA, OwnNesting, Trapped
<1>10. /\ OwnNesting' /\ OwnRegsA' /\ Trapped' /\ (Masked' <=> sections[t] > 0)
  <2>1. /\ m'.cur = t /\ m'.saved = m.saved /\ m'.regs = m.saved[t].regs
        /\ m'.nesting = m.saved[t].nesting /\ (m'.off <=> m.saved[t].off)
        /\ m'.frames = <<>> /\ m'.depth = 0 /\ m'.pend = FALSE
    BY <1>5, <1>6, <1>7, <1>8
  <2>2. QED BY <1>1, <1>9, <2>1, RVResumed, Zenon
<1>11. StepOK
  <2>1. ~Masked'
    BY <1>1, <1>10 DEF Control, BeforeStart
  <2>2. Control' /\ Promise!Starts
    BY <1>1, <1>5, <1>7, <1>8, <2>1, StartStep, Zenon
  <2>3. QED BY <2>2 DEF StepOK, Promise!ProcessorNext
<1>12. QED BY <1>1, <1>5, <1>7, <1>8, <1>10, <1>11, RVFacts, RVKept

LEMMA RVYield ==
  ASSUME Control, RVInv, port = "riscv32", UNCHANGED port, RV!Yield
  PROVE  StepOK /\ RVInv'
<1>1. /\ m' \in RV!portYIELD(m) /\ UNCHANGED <<sections, live>>
      /\ m.frames = <<>> /\ m.cur # main
  BY DEF RV!Yield, RV!TaskRuns
<1>2. PICK t \in Threads : m' = RV!RestoreContext([RV!SaveContext(m) EXCEPT !.cur = t])
  BY <1>1 DEF RV!portYIELD, RV!SwitchContext
<1>3. /\ m.cur \in Threads /\ m.depth = 0 /\ m.pend = FALSE
      /\ (m.off <=> sections[m.cur] > 0) /\ m.regs = m.cur
      /\ m.nesting = sections[m.cur]
  BY <1>1, RVFacts, NoFramesNow DEF Contexts, Trapped, OwnRegsA, OwnNesting
<1>4. PICK x \in RVSaved : x = [regs |-> m.regs, nesting |-> m.nesting, off |-> m.off]
  BY RVFacts, Zenon DEF RVSaved
<1>5. PICK s : s = [m.saved EXCEPT ![m.cur] = x]
  BY Zenon
<1>6. s \in [Threads -> RVSaved] /\ s[t] \in RVSaved
  BY <1>3, <1>4, <1>5, RVFacts
<1>7. PICK c : c = [m EXCEPT !.saved = s, !.off = TRUE, !.cur = t]
  OBVIOUS
<1>8. m' = RV!RestoreContext(c)
  <2>1. RV!SaveContext(m) = [m EXCEPT !.saved = s, !.off = TRUE]
    BY <1>4, <1>5, Zenon DEF RV!SaveContext
  <2>2. c = [[m EXCEPT !.saved = s, !.off = TRUE] EXCEPT !.cur = t]
    BY <1>7, RVFacts DEF Machines
  <2>3. QED BY <1>2, <2>1, <2>2
<1>9. c \in Machines(CoreFrames, RVSaved)
  <2>1. t \in Contexts
    BY RVFacts
  <2>2. QED BY <1>6, <1>7, <2>1, RVFacts, ZenonT(60) DEF Machines
<1>10. /\ c.cur = t /\ c.frames = <<>> /\ c.saved = s /\ c.pend = FALSE
       /\ c.depth = 0 /\ c.mask = m.mask
  BY <1>1, <1>3, <1>7, RVFacts DEF Machines
<1>11. PICK d : d = m'
  OBVIOUS
<1>12. PICK y \in RVSaved : y = s[t]
  BY <1>6
<1>13. /\ d \in Machines(CoreFrames, RVSaved)
       /\ d.cur = c.cur /\ d.frames = c.frames /\ d.saved = c.saved
       /\ d.pend = c.pend /\ d.depth = c.depth /\ d.mask = c.mask
       /\ d.regs = y.regs /\ d.nesting = y.nesting /\ d.off = y.off
  <2>1. c.cur \in Threads /\ d = RV!RestoreContext(c) /\ y = c.saved[c.cur]
    BY <1>8, <1>10, <1>11, <1>12
  <2>2. QED BY <1>9, <2>1, RVRestored
<1>14. \A u \in Threads : /\ s[u].regs = u /\ s[u].nesting = sections[u]
                        /\ (s[u].off <=> sections[u] > 0)
  <2>1. x.regs = m.cur /\ x.nesting = sections[m.cur] /\ (x.off <=> sections[m.cur] > 0)
    BY <1>3, <1>4
  <2>2. \A u \in Threads : s[u] = IF u = m.cur THEN x ELSE m.saved[u]
    BY <1>3, <1>5, RVFacts
  <2>3. \A u \in Threads : u # m.cur =>
          /\ m.saved[u].regs = u /\ m.saved[u].nesting = sections[u]
          /\ (m.saved[u].off <=> sections[u] > 0)
    BY RVFacts DEF OwnRegsA, OwnNesting, Trapped
  <2>4. QED BY <2>1, <2>2, <2>3
<1>15. /\ OwnNesting' /\ OwnRegsA' /\ Trapped' /\ (Masked' <=> sections[t] > 0)
  <2>1. /\ m'.cur = t /\ m'.saved = s /\ m'.regs = s[t].regs
        /\ m'.nesting = s[t].nesting /\ (m'.off <=> s[t].off)
        /\ m'.frames = <<>> /\ m'.depth = 0 /\ m'.pend = FALSE
    BY <1>10, <1>11, <1>12, <1>13
  <2>2. QED BY <1>1, <1>14, <2>1, RVResumed
<1>16. StepOK
  <2>1. /\ m'.cur = t /\ m'.frames = <<>> /\ m'.pend = m.pend
        /\ m.pend => sections[m.cur] > 0
    BY <1>3, <1>10, <1>11, <1>13, Zenon
  <2>2. Control' /\ Promise!Yields
    BY <1>1, <1>3, <1>15, <2>1, YieldStep
  <2>3. QED BY <2>2 DEF StepOK, Promise!ProcessorNext
<1>17. QED BY <1>1, <1>10, <1>11, <1>13, <1>15, <1>16, RVFacts, RVKept

\* A trap begins: the context of the task goes to its stack.
LEMMA RVInterrupted ==
  ASSUME Control, RVInv, port = "riscv32", UNCHANGED port,
         NEW i \in Interrupts, RV!Interrupted(i)
  PROVE  StepOK /\ RVInv'
<1>1. /\ m.cur # main /\ ~m.off /\ UNCHANGED <<sections, live>>
      /\ m' = RV!EnterHandler(m, i)
  BY DEF RV!Interrupted, RV!Takes
<1>2. /\ m.cur \in Threads /\ m.frames = <<>>
  BY <1>1, RVFacts DEF Contexts, Trapped
<1>3. /\ Depth = 0 /\ m.depth = 0 /\ sections[m.cur] = 0 /\ ~m.pend /\ m.pend = FALSE
      /\ m.regs = m.cur /\ m.nesting = 0 /\ m.off = FALSE
  <2>1. sections[m.cur] \in Nat /\ ~(sections[m.cur] > 0)
    BY <1>1, <1>2, RVFacts, ControlFacts DEF Trapped
  <2>2. QED BY <1>1, <1>2, <2>1, RVFacts, NoFramesNow DEF Trapped, OwnRegsA, OwnNesting
<1>4. PICK x \in RVSaved : x = [regs |-> m.regs, nesting |-> m.nesting, off |-> m.off]
  BY RVFacts, Zenon DEF RVSaved
<1>5. PICK s : s = [m.saved EXCEPT ![m.cur] = x]
  BY Zenon
<1>6. s \in [Threads -> RVSaved]
  BY <1>2, <1>4, <1>5, RVFacts
<1>7. PICK e \in CoreFrames : e = [irq |-> i, at |-> "entered", status |-> FALSE]
  BY Zenon DEF CoreFrames, Interrupts, Irqs, Stages
<1>8. e.irq = i /\ e.at = "entered" /\ i \in Irqs /\ i # "pendsv"
  BY <1>7 DEF Interrupts, Irqs
<1>9. m' = [m EXCEPT !.saved = s, !.off = TRUE, !.depth = 1,
                     !.frames = Append(m.frames, e)]
  <2>1. PICK c : c = [m EXCEPT !.saved = s, !.off = TRUE]
    OBVIOUS
  <2>2. RV!SaveContext(m) = c
    BY <1>4, <1>5, <2>1, Zenon DEF RV!SaveContext
  <2>3. PICK g : g = [c EXCEPT !.depth = @ + 1]
    BY Zenon
  <2>4. g = [m EXCEPT !.saved = s, !.off = TRUE, !.depth = 1]
    <3>1. c.depth = 0
      BY <1>3, <2>1, RVFacts DEF Machines
    <3>2. g = [c EXCEPT !.depth = 1]
      BY <2>3, <3>1
    <3>3. QED BY <2>1, <3>2, RVFacts DEF Machines
  <2>5. m' = [g EXCEPT !.frames = Append(g.frames, e)]
    BY <1>1, <1>7, <2>2, <2>3, Zenon DEF RV!EnterHandler, RV!Push
  <2>6. QED BY <2>4, <2>5, RVFacts DEF Machines
<1>10. /\ m'.cur = m.cur /\ m'.regs = m.regs /\ m'.nesting = m.nesting
       /\ m'.off = TRUE /\ m'.mask = m.mask /\ m'.pend = m.pend /\ m'.depth = 1
       /\ m'.frames = Append(m.frames, e) /\ m'.saved = s
  BY <1>9, RVFacts DEF Machines
<1>11. m' \in Machines(CoreFrames, RVSaved)
  <2>1. Append(m.frames, e) \in Seq(CoreFrames) /\ 1 \in Int
    BY RVFacts, AppendProperties
  <2>2. QED BY <1>6, <1>9, <2>1, RVFacts, ZenonT(60) DEF Machines
<1>12. /\ m'.frames \in Seq(CoreFrames) /\ Len(m'.frames) = 1 /\ m'.frames # <<>>
       /\ Depth' = 1 /\ m'.frames[1] = e
  <2>1. PICK n \in Nat : n = Depth /\ n + 1 = 1
    BY <1>3
  <2>2. /\ m'.frames \in Seq(CoreFrames) /\ Len(m'.frames) = n + 1 /\ m'.frames # <<>>
        /\ Depth' = n + 1 /\ m'.frames[n + 1] = e
    BY <1>10, <2>1, RVFacts, FramePushed
  <2>3. QED BY <2>1, <2>2
<1>13. StepOK
  <2>1. Wanted' <=> Wanted
    <3>1. ~SwitchInProgress
      BY <1>2 DEF SwitchInProgress
    <3>2. ~SwitchInProgress'
      BY <1>8, <1>12 DEF SwitchInProgress
    <3>3. QED BY <1>10, <3>1, <3>2 DEF Wanted
  <2>2. PICK k \in Irqs : k = i /\ k # "pendsv"
    BY <1>8
  <2>3. /\ k # "high" => ~Masked
        /\ Len(m'.frames) = Depth + 1 /\ \A f \in 1..Depth : SameFrame(f)
        /\ m'.frames[Depth + 1].irq = k /\ m'.frames[Depth + 1].at = "entered"
        /\ m'.pend \in BOOLEAN /\ (Masked => Masked')
    BY <1>1, <1>3, <1>8, <1>10, <1>12, <2>2, RVFacts
  <2>4. Control' /\ Promise!Accepts
    BY <1>1, <1>2, <1>10, <1>12, <2>1, <2>2, <2>3, EnterStep
  <2>5. QED BY <2>4 DEF StepOK, Promise!ProcessorNext
<1>14. OwnNesting' /\ OwnRegsA'
  BY <1>1, <1>2, <1>3, <1>5, <1>10, RVFacts DEF OwnNesting, OwnRegsA
<1>15. Trapped'
  <2>1. /\ s[m.cur].regs = m.cur /\ s[m.cur].nesting = 0 /\ ~s[m.cur].off
        /\ \A u \in Threads : u # m.cur => (s[u].off <=> sections[u] > 0)
    BY <1>2, <1>3, <1>4, <1>5, RVFacts DEF Trapped
  <2>2. ~Inside(1)'
    BY <1>8, <1>12 DEF Inside
  <2>3. QED BY <1>1, <1>3, <1>10, <1>12, <2>1, <2>2 DEF Trapped
<1>16. QED BY <1>1, <1>10, <1>11, <1>13, <1>14, <1>15, RVFacts, RVKept

\* There is no unit.
LEMMA RVUnit ==
  ASSUME Control, RVInv, port = "riscv32", UNCHANGED port,
         RV!RegisterFpu \/ RV!TaskUsesFpu \/ RV!HandlerUsesFpu
  PROVE  StepOK /\ RVInv'
<1>1. m' = m /\ UNCHANGED <<sections, live>>
  BY DEF RV!RegisterFpu, RV!TaskUsesFpu, RV!HandlerUsesFpu, RV!FpuAllowed,
         RV!vPortTaskUsesFPU
<1>2. m'.frames \in Seq(CoreFrames) /\ SameDepth /\ \A f \in 1..Depth : SameFrame(f)
  BY <1>1, RVFacts, FramesKept
<1>3. Control' /\ UNCHANGED <<Handlers, Wanted>>
  <2>1. m'.cur = m.cur /\ m'.pend = m.pend /\ Masked' = Masked
    BY <1>1 DEF Masked
  <2>2. QED BY <1>1, <1>2, <2>1, QuietStep
<1>4. StepOK
  BY <1>1, <1>3 DEF StepOK
<1>5. OwnNesting' /\ OwnRegsA' /\ Trapped'
  <2>1. Depth' = Depth /\ \A f \in 1..Depth : Inside(f)' <=> Inside(f)
    BY <1>1 DEF Depth, Inside
  <2>2. OwnNesting' /\ OwnRegsA'
    BY <1>1, RVFacts DEF OwnNesting, OwnRegsA
  <2>3. Trapped'
    BY <1>1, <2>1, RVFacts DEF Trapped, Inside
  <2>4. QED BY <2>2, <2>3
<1>6. QED BY <1>1, <1>4, <1>5, RVFacts, RVKept

\* The only handler goes on to another stage, with c its machine and off still set.
LEMMA RVStage ==
  ASSUME Control, RVInv, port = "riscv32", UNCHANGED <<port, sections, live>>,
         m.frames # <<>>, NEW p \in BOOLEAN, NEW e \in CoreFrames,
         m' = [m EXCEPT !.frames = [m.frames EXCEPT ![1] = e], !.off = TRUE, !.pend = p],
         e.irq = m.frames[1].irq,
         e.irq = "dev" /\ e.at \in {"inside", "counted", "switched"} => e.status
  PROVE  /\ m' \in Machines(CoreFrames, RVSaved) /\ live' = {} /\ ~m'.mask
         /\ OwnNesting' /\ OwnRegsA' /\ Trapped'
         /\ Depth = 1 /\ m'.frames = [m.frames EXCEPT ![1] = e]
         /\ m'.cur = m.cur /\ m.cur \in Threads /\ sections[m.cur] = 0 /\ m'.pend = p
         /\ Masked /\ Masked' /\ TopMoves(e.at) /\ m'.frames \in Seq(CoreFrames)
<1>1. PICK n \in Nat : /\ n = Len(m.frames) /\ n > 0 /\ n \in 1..n
                       /\ m.frames[n] \in CoreFrames /\ m.frames[n] = Last(m.frames)
  BY RVFacts, TopFrame
<1>2. n = Depth /\ n = 1
  <2>1. n = Depth
    BY <1>1 DEF Depth
  <2>2. QED BY <1>1, <2>1, RVFacts
<1>3. [m.frames EXCEPT ![1] = e] \in Seq(CoreFrames)
  BY <1>1, <1>2, RVFacts, FrameSet
<1>4. m' \in Machines(CoreFrames, RVSaved)
  BY <1>3, RVFacts, ZenonT(60) DEF Machines
<1>5. /\ m'.cur = m.cur /\ m'.regs = m.regs /\ m'.nesting = m.nesting
      /\ m'.off = TRUE /\ m'.mask = m.mask /\ m'.pend = p /\ m'.depth = m.depth
      /\ m'.frames = [m.frames EXCEPT ![1] = e] /\ m'.saved = m.saved
  BY RVFacts DEF Machines
<1>6. PICK stage : stage = e.at
  OBVIOUS
<1>7. /\ m'.frames \in Seq(CoreFrames) /\ m'.frames # <<>> /\ Depth' = n
      /\ TopMoves(stage) /\ m'.frames[n] = e
  BY <1>1, <1>2, <1>5, <1>6, RVFacts, FrameReplaced
<1>8. m.cur \in Threads
  BY RVFacts DEF Control, BeforeStart, Contexts
<1>9. m.off /\ sections[m.cur] = 0
  BY <1>8, RVFacts DEF Trapped
<1>10. OwnNesting' /\ OwnRegsA'
  BY <1>5, RVFacts DEF OwnNesting, OwnRegsA
<1>11. Trapped'
  <2>1. m'.frames[1].irq = "dev" /\ Inside(1)' => m'.frames[1].status
    BY <1>2, <1>7 DEF Inside
  <2>2. m'.frames[1] = e /\ Depth' = 1 /\ m.depth = 1
    BY <1>2, <1>7, RVFacts DEF Trapped
  <2>3. /\ m.saved[m.cur].regs = m.cur /\ m.saved[m.cur].nesting = 0
        /\ ~m.saved[m.cur].off
        /\ \A t \in Threads : t # m.cur => (m.saved[t].off <=> sections[t] > 0)
    BY <1>8, RVFacts DEF Trapped
  <2>4. QED BY <1>5, <1>7, <1>9, <2>1, <2>2, <2>3 DEF Trapped
<1>12. Masked /\ Masked' /\ ~m'.mask /\ live' = {}
  BY <1>5, <1>9, RVFacts
<1>13. QED BY <1>2, <1>4, <1>5, <1>6, <1>7, <1>8, <1>9, <1>10, <1>11, <1>12

LEMMA RVMasks ==
  ASSUME Control, RVInv, port = "riscv32", UNCHANGED port,
         RV!DeviceMasks \/ RV!TickBegins
  PROVE  StepOK /\ RVInv'
<1>1. /\ m.frames # <<>> /\ UNCHANGED <<sections, live>>
      /\ Last(m.frames).irq \in {"dev", "tick"} /\ Last(m.frames).at = "entered"
      /\ \/ m' = RV!AtStage(RV!portSET_INTERRUPT_MASK_FROM_ISR(m), "inside")
         \/ m' = RV!AtStage(m, "inside") /\ Last(m.frames).irq = "tick"
  BY DEF RV!DeviceMasks, RV!TickBegins, RV!InHandler, RV!Frame, RV!TickStarts, Last
<1>2. PICK n \in Nat : /\ n = Len(m.frames) /\ n > 0 /\ n \in 1..n
                       /\ m.frames[n] \in CoreFrames /\ m.frames[n] = Last(m.frames)
  BY <1>1, RVFacts, TopFrame
<1>3. n = Depth /\ n = 1 /\ m.off = TRUE
  <2>1. n = Depth
    BY <1>2 DEF Depth
  <2>2. m.cur \in Threads
    BY <1>1, RVFacts DEF Control, BeforeStart, Contexts
  <2>3. m.off
    BY <1>1, <2>2, RVFacts DEF Trapped
  <2>4. QED BY <1>2, <2>1, <2>3, RVFacts
<1>4. PICK b \in BOOLEAN : /\ b \/ Last(m.frames).irq = "tick"
                           /\ b => m' = RV!AtStage(RV!portSET_INTERRUPT_MASK_FROM_ISR(m), "inside")
                           /\ ~b => m' = RV!AtStage(m, "inside")
  BY <1>1, Zenon
<1>5. PICK d \in CoreFrames : d = IF b THEN [m.frames[n] EXCEPT !.status = TRUE]
                                  ELSE m.frames[n]
  BY <1>2, Zenon DEF CoreFrames
<1>6. PICK e \in CoreFrames : e = [d EXCEPT !.at = "inside"]
  BY Zenon DEF CoreFrames, Stages
<1>7. PICK s : s = [m.frames EXCEPT ![n] = d]
  BY Zenon
<1>8. /\ Len(s) = n /\ s[n] = d /\ [s EXCEPT ![n] = e] = [m.frames EXCEPT ![n] = e]
  BY <1>2, <1>7, RVFacts, FrameSet
<1>9. PICK c : c = [m EXCEPT !.frames = s, !.off = TRUE]
  OBVIOUS
<1>10. m' = RV!AtStage(c, "inside")
  <2>1. CASE b
    <3>1. d = [m.frames[n] EXCEPT !.status = m.off]
      BY <1>3, <1>5, <2>1, Zenon
    <3>2. RV!portSET_INTERRUPT_MASK_FROM_ISR(m) = c
      BY <1>2, <1>7, <1>9, <3>1, Zenon DEF RV!portSET_INTERRUPT_MASK_FROM_ISR
    <3>3. QED BY <1>4, <2>1, <3>2
  <2>2. CASE ~b
    <3>1. s = m.frames
      BY <1>2, <1>5, <1>7, <2>2, RVFacts
    <3>2. c = m
      BY <1>3, <1>9, <3>1, RVFacts, Zenon DEF Machines
    <3>3. QED BY <1>4, <2>2, <3>2
  <2>3. QED BY <2>1, <2>2
<1>11. c.frames = s
  BY <1>9, RVFacts DEF Machines
<1>12. m' = [c EXCEPT !.frames = [m.frames EXCEPT ![n] = e]]
  <2>1. m' = [c EXCEPT !.frames = [c.frames EXCEPT ![Len(c.frames)] =
                                     [c.frames[Len(c.frames)] EXCEPT !.at = "inside"]]]
    BY <1>10, Zenon DEF RV!AtStage
  <2>2. QED BY <2>1, <1>6, <1>8, <1>11, Zenon
<1>13. PICK p \in BOOLEAN : p = m.pend
  BY RVFacts
<1>14. m' = [m EXCEPT !.frames = [m.frames EXCEPT ![1] = e], !.off = TRUE, !.pend = p]
  BY <1>3, <1>9, <1>12, <1>13, RVFacts, Zenon DEF Machines
<1>15. /\ e.irq = m.frames[1].irq /\ e.at = "inside"
       /\ e.irq = "dev" => e.status
  <2>1. d.irq = m.frames[n].irq /\ (b => d.status)
    BY <1>2, <1>5 DEF CoreFrames
  <2>2. e.irq = d.irq /\ e.at = "inside" /\ e.status = d.status
    BY <1>6 DEF CoreFrames
  <2>3. QED BY <1>2, <1>3, <1>4, <2>1, <2>2
<1>16. /\ m' \in Machines(CoreFrames, RVSaved) /\ live' = {} /\ ~m'.mask
       /\ OwnNesting' /\ OwnRegsA' /\ Trapped'
       /\ m'.cur = m.cur /\ m'.pend = p
       /\ Masked /\ Masked' /\ TopMoves("inside") /\ m'.frames \in Seq(CoreFrames)
  BY <1>1, <1>14, <1>15, RVStage
<1>17. StepOK
  <2>1. Depth > 0 /\ m.frames[Depth].irq # "high" /\ m.frames[Depth].at = "entered"
    BY <1>1, <1>2, <1>3
  <2>2. Control' /\ Promise!HandlerMasks
    BY <1>1, <1>13, <1>16, <2>1, MaskStep
  <2>3. QED BY <2>2 DEF StepOK, Promise!ProcessorNext
<1>18. QED BY <1>16, <1>17, RVKept

LEMMA RVUnmasks ==
  ASSUME Control, RVInv, port = "riscv32", UNCHANGED port,
         RV!DeviceUnmasks \/ RV!TickFinishes
  PROVE  StepOK /\ RVInv'
<1>1. /\ m.frames # <<>> /\ UNCHANGED <<sections, live>>
      /\ Last(m.frames).at \in {"inside", "counted"}
      /\ \/ m' = RV!AtStage(RV!portCLEAR_INTERRUPT_MASK_FROM_ISR(m), "done")
            /\ Last(m.frames).irq = "dev"
         \/ m' = RV!AtStage(m, "done") /\ Last(m.frames).irq = "tick"
  BY DEF RV!DeviceUnmasks, RV!TickFinishes, RV!InHandler, RV!Frame, RV!TickEnds, Last
<1>2. PICK n \in Nat : /\ n = Len(m.frames) /\ n > 0 /\ n \in 1..n
                       /\ m.frames[n] \in CoreFrames /\ m.frames[n] = Last(m.frames)
  BY <1>1, RVFacts, TopFrame
<1>3. /\ n = Depth /\ n = 1 /\ m.off = TRUE /\ Inside(1)
      /\ m.frames[1].irq = "dev" => m.frames[1].status = TRUE
  <2>1. n = Depth
    BY <1>2 DEF Depth
  <2>2. m.cur \in Threads
    BY <1>1, RVFacts DEF Control, BeforeStart, Contexts
  <2>3. n = 1
    BY <1>2, <2>1, RVFacts
  <2>4. Inside(1)
    BY <1>1, <1>2, <2>3 DEF Inside
  <2>5. m.off /\ (m.frames[1].irq = "dev" => m.frames[1].status)
    BY <1>1, <2>2, <2>4, RVFacts DEF Trapped
  <2>6. m.frames[1].status \in BOOLEAN
    BY <1>2, <2>3 DEF CoreFrames
  <2>7. QED BY <2>1, <2>3, <2>4, <2>5, <2>6, RVFacts
<1>4. PICK e \in CoreFrames : e = [m.frames[n] EXCEPT !.at = "done"]
  BY <1>2, Zenon DEF CoreFrames, Stages
<1>5. m' = RV!AtStage(m, "done")
  <2>1. CASE Last(m.frames).irq = "dev"
    <3>1. RV!Frame(m).status = TRUE
      <4>1. RV!Frame(m) = m.frames[1]
        BY <1>2, <1>3, Zenon DEF RV!Frame
      <4>2. QED BY <1>2, <1>3, <2>1, <4>1
    <3>2. RV!portCLEAR_INTERRUPT_MASK_FROM_ISR(m) = [m EXCEPT !.off = TRUE]
      BY <3>1, Zenon DEF RV!portCLEAR_INTERRUPT_MASK_FROM_ISR
    <3>3. [m EXCEPT !.off = TRUE] = m
      BY <1>3, RVFacts DEF Machines
    <3>4. QED BY <1>1, <2>1, <3>2, <3>3, Zenon
  <2>2. CASE Last(m.frames).irq # "dev"
    BY <1>1, <2>2
  <2>3. QED BY <2>1, <2>2
<1>6. m' = [m EXCEPT !.frames = [m.frames EXCEPT ![n] = e]]
  BY <1>2, <1>4, <1>5, Zenon DEF RV!AtStage
<1>7. PICK p \in BOOLEAN : p = m.pend
  BY RVFacts
<1>8. m' = [m EXCEPT !.frames = [m.frames EXCEPT ![1] = e], !.off = TRUE, !.pend = p]
  BY <1>3, <1>6, <1>7, RVFacts, Zenon DEF Machines
<1>9. e.irq = m.frames[1].irq /\ e.at = "done"
  BY <1>2, <1>3, <1>4 DEF CoreFrames
<1>10. /\ m' \in Machines(CoreFrames, RVSaved) /\ live' = {} /\ ~m'.mask
       /\ OwnNesting' /\ OwnRegsA' /\ Trapped'
       /\ m'.cur = m.cur /\ m'.pend = p
       /\ Masked /\ Masked' /\ TopMoves("done") /\ m'.frames \in Seq(CoreFrames)
  BY <1>1, <1>8, <1>9, RVStage
<1>11. StepOK
  <2>1. /\ Depth > 0 /\ Inside(Depth)
        /\ m.frames[Depth].irq = "pendsv" => m.frames[Depth].at = "switched"
    BY <1>1, <1>2, <1>3
  <2>2. Control' /\ Promise!HandlerUnmasks
    BY <1>1, <1>7, <1>10, <2>1, UnmaskStep
  <2>3. QED BY <2>2 DEF StepOK, Promise!ProcessorNext
<1>12. QED BY <1>10, <1>11, RVKept

LEMMA RVAsks ==
  ASSUME Control, RVInv, port = "riscv32", UNCHANGED port, RV!DeviceYields
  PROVE  StepOK /\ RVInv'
<1>1. /\ m.frames # <<>> /\ UNCHANGED <<sections, live>>
      /\ Last(m.frames).irq = "dev" /\ Last(m.frames).at = "done"
      /\ m' = [m EXCEPT !.pend = TRUE]
  BY DEF RV!DeviceYields, RV!InHandler, RV!Frame, RV!portYIELD_FROM_ISR, Last
<1>2. PICK n \in Nat : /\ n = Len(m.frames) /\ n > 0 /\ n \in 1..n
                       /\ m.frames[n] \in CoreFrames /\ m.frames[n] = Last(m.frames)
  BY <1>1, RVFacts, TopFrame
<1>3. /\ m'.cur = m.cur /\ m'.regs = m.regs /\ m'.nesting = m.nesting
      /\ m'.off = m.off /\ m'.mask = m.mask /\ m'.pend = TRUE /\ m'.depth = m.depth
      /\ m'.frames = m.frames /\ m'.saved = m.saved
  BY <1>1, RVFacts DEF Machines
<1>4. m' \in Machines(CoreFrames, RVSaved)
  BY <1>1, RVFacts, ZenonT(60) DEF Machines
<1>5. Depth > 0 /\ m.frames[Depth].irq # "high"
  BY <1>1, <1>2 DEF Depth
<1>6. StepOK
  <2>1. m'.frames \in Seq(CoreFrames) /\ SameDepth /\ \A f \in 1..Depth : SameFrame(f)
    BY <1>3, RVFacts, FramesKept
  <2>2. Masked' <=> Masked
    BY <1>3, RVFacts
  <2>3. Control' /\ Promise!HandlerAsks
    BY <1>1, <1>3, <1>5, <2>1, <2>2, AskStep
  <2>4. QED BY <2>3 DEF StepOK, Promise!ProcessorNext
<1>7. OwnNesting' /\ OwnRegsA'
  BY <1>1, <1>3, RVFacts DEF OwnNesting, OwnRegsA
<1>8. Trapped'
  <2>1. Depth' = Depth /\ m'.frames[1] = m.frames[1]
    BY <1>3 DEF Depth
  <2>2. QED BY <1>1, <1>3, <2>1, RVFacts DEF Trapped, Inside
<1>9. QED BY <1>1, <1>3, <1>4, <1>6, <1>7, <1>8, RVFacts, RVKept

LEMMA RVCounts ==
  ASSUME Control, RVInv, port = "riscv32", UNCHANGED port, RV!TickCounts
  PROVE  StepOK /\ RVInv'
<1>1. /\ m.frames # <<>> /\ UNCHANGED <<sections, live>>
      /\ Last(m.frames).irq = "tick" /\ Last(m.frames).at = "inside"
      /\ \/ m' = RV!AtStage(m, "counted")
         \/ m' = RV!AtStage([m EXCEPT !.pend = TRUE], "counted")
  BY DEF RV!TickCounts, RV!InHandler, RV!Frame, RV!TickWantsSwitch, Last
<1>2. PICK n \in Nat : /\ n = Len(m.frames) /\ n > 0 /\ n \in 1..n
                       /\ m.frames[n] \in CoreFrames /\ m.frames[n] = Last(m.frames)
  BY <1>1, RVFacts, TopFrame
<1>3. n = Depth /\ n = 1 /\ m.off = TRUE
  <2>1. n = Depth
    BY <1>2 DEF Depth
  <2>2. m.cur \in Threads
    BY <1>1, RVFacts DEF Control, BeforeStart, Contexts
  <2>3. m.off
    BY <1>1, <2>2, RVFacts DEF Trapped
  <2>4. QED BY <1>2, <2>1, <2>3, RVFacts
<1>4. PICK p \in BOOLEAN : /\ p = m.pend \/ p = TRUE
                           /\ m' = RV!AtStage([m EXCEPT !.pend = p], "counted")
  <2>1. m = [m EXCEPT !.pend = m.pend] /\ m.pend \in BOOLEAN
    BY RVFacts DEF Machines
  <2>2. QED BY <1>1, <2>1, Zenon
<1>5. PICK e \in CoreFrames : e = [m.frames[n] EXCEPT !.at = "counted"]
  BY <1>2, Zenon DEF CoreFrames, Stages
<1>6. PICK c : c = [m EXCEPT !.pend = p]
  BY Zenon
<1>7. c.frames = m.frames
  BY <1>6, RVFacts DEF Machines
<1>8. m' = [c EXCEPT !.frames = [m.frames EXCEPT ![n] = e]]
  BY <1>2, <1>4, <1>5, <1>6, <1>7, Zenon DEF RV!AtStage
<1>9. m' = [m EXCEPT !.frames = [m.frames EXCEPT ![1] = e], !.off = TRUE, !.pend = p]
  BY <1>3, <1>6, <1>8, RVFacts, Zenon DEF Machines
<1>10. e.irq = m.frames[1].irq /\ e.irq = "tick" /\ e.at = "counted"
  BY <1>1, <1>2, <1>3, <1>5 DEF CoreFrames
<1>11. /\ m' \in Machines(CoreFrames, RVSaved) /\ live' = {} /\ ~m'.mask
       /\ OwnNesting' /\ OwnRegsA' /\ Trapped'
       /\ m'.cur = m.cur /\ m'.pend = p
       /\ Masked /\ Masked' /\ TopMoves("counted") /\ m'.frames \in Seq(CoreFrames)
  BY <1>1, <1>9, <1>10, RVStage
<1>12. StepOK
  <2>1. /\ Depth > 0 /\ m.frames[Depth].irq = "tick" /\ Inside(Depth)
        /\ m'.pend = m.pend \/ m'.pend = TRUE
    BY <1>1, <1>2, <1>3, <1>4, <1>11 DEF Inside
  <2>2. Masked' <=> Masked
    BY <1>11
  <2>3. Control' /\ (Promise!HandlerAsks \/ UNCHANGED <<Handlers, Wanted>>)
    BY <1>1, <1>11, <2>1, <2>2, CountStep, Zenon
  <2>4. QED BY <1>1, <1>11, <2>3 DEF StepOK, Promise!ProcessorNext
<1>13. QED BY <1>11, <1>12, RVKept

\* The trap ends: the context of the task picked, if a switch was asked for, is
\* restored.
LEMMA RVReturns ==
  ASSUME Control, RVInv, port = "riscv32", UNCHANGED port, RV!HandlerReturns
  PROVE  StepOK /\ RVInv'
<1>1. /\ m.frames # <<>> /\ UNCHANGED <<sections, live>>
      /\ Last(m.frames).irq # "pendsv" /\ Last(m.frames).at \in {"entered", "done"}
      /\ m' \in RV!LeaveHandler(m)
  BY DEF RV!HandlerReturns, RV!InHandler, RV!Frame, Last
<1>2. PICK n \in Nat : /\ n = Len(m.frames) /\ n > 0 /\ n \in 1..n
                       /\ m.frames[n] \in CoreFrames /\ m.frames[n] = Last(m.frames)
  BY <1>1, RVFacts, TopFrame
<1>3. n = Depth /\ n = 1 /\ m.depth = 1 /\ m.cur \in Threads
  <2>1. n = Depth
    BY <1>2 DEF Depth
  <2>2. m.cur \in Threads
    BY <1>1, RVFacts DEF Control, BeforeStart, Contexts
  <2>3. QED BY <1>2, <2>1, <2>2, RVFacts DEF Trapped
<1>4. ~Inside(1) /\ m.frames[1].irq # "pendsv"
  BY <1>1, <1>2, <1>3 DEF Inside
<1>5. PICK t \in Threads : /\ t = m.cur \/ m.pend
        /\ m' = RV!Pop(RV!RestoreContext(
                  [[m EXCEPT !.pend = FALSE, !.cur = t] EXCEPT !.depth = @ - 1]))
  <2>1. CASE m.pend
    <3>1. PICK t \in Threads :
            m' = RV!Pop(RV!RestoreContext(
                   [[[m EXCEPT !.pend = FALSE] EXCEPT !.cur = t] EXCEPT !.depth = @ - 1]))
      BY <1>1, <2>1 DEF RV!LeaveHandler, RV!SwitchContext
    <3>2. [[m EXCEPT !.pend = FALSE] EXCEPT !.cur = t] = [m EXCEPT !.pend = FALSE, !.cur = t]
      BY RVFacts DEF Machines
    <3>3. QED BY <2>1, <3>1, <3>2
  <2>2. CASE ~m.pend
    <3>1. m' = RV!Pop(RV!RestoreContext([m EXCEPT !.depth = @ - 1]))
      BY <1>1, <2>2 DEF RV!LeaveHandler
    <3>2. m = [m EXCEPT !.pend = FALSE, !.cur = m.cur]
      BY <2>2, RVFacts, Zenon DEF Machines
    <3>3. QED BY <1>3, <3>1, <3>2
  <2>3. QED BY <2>1, <2>2
<1>6. PICK c : c = [m EXCEPT !.pend = FALSE, !.cur = t, !.depth = 0]
  OBVIOUS
<1>7. m' = RV!Pop(RV!RestoreContext(c))
  <2>1. PICK g : g = [m EXCEPT !.pend = FALSE, !.cur = t]
    OBVIOUS
  <2>2. g.depth = 1
    BY <1>3, <2>1, RVFacts DEF Machines
  <2>3. [g EXCEPT !.depth = @ - 1] = [g EXCEPT !.depth = 0]
    BY <2>2
  <2>4. c = [g EXCEPT !.depth = 0]
    BY <1>6, <2>1, RVFacts DEF Machines
  <2>5. QED BY <1>5, <2>1, <2>3, <2>4
<1>8. c \in Machines(CoreFrames, RVSaved)
  <2>1. t \in Contexts /\ 0 \in Int
    BY RVFacts
  <2>2. QED BY <1>6, <2>1, RVFacts, ZenonT(60) DEF Machines
<1>9. /\ c.cur = t /\ c.frames = m.frames /\ c.saved = m.saved /\ c.pend = FALSE
      /\ c.depth = 0 /\ c.mask = m.mask
  BY <1>6, RVFacts DEF Machines
<1>10. PICK y \in RVSaved : y = m.saved[t]
  BY RVFacts
<1>11. PICK d : d = RV!RestoreContext(c)
  OBVIOUS
<1>12. /\ d \in Machines(CoreFrames, RVSaved)
       /\ d.cur = c.cur /\ d.frames = c.frames /\ d.saved = c.saved
       /\ d.pend = c.pend /\ d.depth = c.depth /\ d.mask = c.mask
       /\ d.regs = y.regs /\ d.nesting = y.nesting /\ d.off = y.off
  <2>1. c.cur \in Threads /\ y = c.saved[c.cur]
    BY <1>9, <1>10
  <2>2. QED BY <1>8, <1>11, <2>1, RVRestored
<1>13. Front(m.frames) = <<>> /\ <<>> \in Seq(CoreFrames)
  <2>1. PICK k \in Nat : k = 0 /\ n = k + 1
    BY <1>3
  <2>2. Len(m.frames) = k + 1
    BY <1>2, <2>1
  <2>3. Front(m.frames) \in Seq(CoreFrames) /\ Len(Front(m.frames)) = k
    BY <2>2, RVFacts, FrontFacts
  <2>4. QED BY <2>1, <2>3
<1>14. m' = [d EXCEPT !.frames = <<>>]
  <2>1. d.frames = m.frames
    BY <1>9, <1>12
  <2>2. m' = [d EXCEPT !.frames = Front(d.frames)]
    BY <1>7, <1>11 DEF RV!Pop, Front
  <2>3. QED BY <1>13, <2>1, <2>2
<1>15. /\ m'.cur = t /\ m'.saved = m.saved /\ m'.regs = y.regs
       /\ m'.nesting = y.nesting /\ m'.off = y.off
       /\ m'.frames = <<>> /\ m'.depth = 0 /\ m'.pend = FALSE /\ m'.mask = m.mask
  BY <1>9, <1>12, <1>14 DEF Machines
<1>16. m' \in Machines(CoreFrames, RVSaved)
  BY <1>12, <1>13, <1>14, ZenonT(60) DEF Machines
<1>17. \A u \in Threads : /\ m.saved[u].regs = u /\ m.saved[u].nesting = sections[u]
                        /\ (m.saved[u].off <=> sections[u] > 0)
  <2>1. /\ sections[m.cur] = 0 /\ m.saved[m.cur].regs = m.cur
        /\ m.saved[m.cur].nesting = 0 /\ ~m.saved[m.cur].off
    BY <1>1, <1>3, RVFacts DEF Trapped
  <2>2. \A u \in Threads : u # m.cur =>
          /\ m.saved[u].regs = u /\ m.saved[u].nesting = sections[u]
          /\ (m.saved[u].off <=> sections[u] > 0)
    BY RVFacts DEF OwnRegsA, OwnNesting, Trapped
  <2>3. QED BY <2>1, <2>2
<1>18. OwnNesting' /\ OwnRegsA' /\ Trapped' /\ (Masked' <=> sections[t] > 0)
  <2>1. /\ m'.regs = m.saved[t].regs /\ m'.nesting = m.saved[t].nesting
        /\ (m'.off <=> m.saved[t].off)
    BY <1>10, <1>15
  <2>2. QED BY <1>1, <1>15, <1>17, <2>1, RVResumed, Zenon
<1>19. Control' /\ Promise!Returns
  <2>1. CASE m.pend
    <3>1. Depth = 1 /\ m'.cur \in Threads /\ (Masked' <=> sections[m'.cur] > 0)
      BY <1>3, <1>15, <1>18
    <3>2. QED BY <1>1, <1>4, <1>15, <2>1, <3>1, RestoreStep, Zenon
  <2>2. CASE ~m.pend
    <3>1. PICK k \in Nat : k = 0 /\ Depth = k + 1
      BY <1>3
    <3>2. /\ Len(m'.frames) = k /\ m'.frames \in Seq(CoreFrames)
          /\ \A f \in 1..k : SameFrame(f)
      BY <1>13, <1>15, <3>1
    <3>3. m'.cur = m.cur /\ m'.pend = m.pend
      BY <1>5, <1>15, <2>2, RVFacts, Zenon
    <3>4. /\ ~Inside(Depth)
          /\ m.frames[Depth].irq = "pendsv" => m.frames[Depth].at \notin {"entered", "inside"}
      BY <1>3, <1>4
    <3>5. Masked' <=> sections[m.cur] > 0 \/ \E f \in 1..k : Inside(f)
      BY <1>15, <1>18, <3>1, <3>3
    <3>6. QED BY <1>1, <3>1, <3>2, <3>3, <3>4, <3>5, ReturnStep
  <2>3. QED BY <2>1, <2>2
<1>20. StepOK
  BY <1>19 DEF StepOK, Promise!ProcessorNext
<1>21. QED BY <1>1, <1>15, <1>16, <1>18, <1>20, RVFacts, RVKept

LEMMA RVStep ==
  ASSUME Control, RVInv, port = "riscv32", UNCHANGED port, RV!PortNext
  PROVE  StepOK /\ RVInv'
<1>1. ASSUME NEW t \in Threads, RV!StartScheduler(t)
      PROVE  StepOK /\ RVInv'
  BY <1>1, RVStart
<1>2. ASSUME NEW i \in Interrupts, RV!Interrupted(i)
      PROVE  StepOK /\ RVInv'
  BY <1>2, RVInterrupted
<1>3. ~RV!SwitchInterrupts /\ ~RV!SwitchSteps
  BY DEF RV!SwitchInterrupts, RV!SwitchSteps, RV!SwitchTaken, RV!SwitchHandler
<1>4. \/ RV!EnterSection \/ RV!LeaveSection \/ RV!Yield \/ RV!RegisterFpu
      \/ RV!TaskUsesFpu \/ RV!HandlerUsesFpu \/ RV!DeviceMasks
      \/ RV!DeviceUnmasks \/ RV!DeviceYields \/ RV!TickBegins \/ RV!TickCounts
      \/ RV!TickFinishes \/ RV!HandlerReturns
      \/ (\E t \in Threads : RV!StartScheduler(t))
      \/ (\E i \in Interrupts : RV!Interrupted(i))
  BY <1>3, Zenon DEF RV!PortNext, RV!Interrupts, Interrupts
<1>5. QED
  BY <1>1, <1>2, <1>4, RVEnter, RVLeave, RVYield, RVUnit, RVMasks, RVUnmasks,
     RVAsks, RVCounts, RVReturns

-----------------------------------------------------------------------------
(* The specification.                                                      *)

LEMMA StepOfPort ==
  ASSUME PortsInv, PortsNext
  PROVE  StepOK /\ PortsInv'
<1>1. port \in Chosen /\ Control /\ UNCHANGED port
  BY DEF PortsInv, PortsNext
<1>2. CASE port = "cortex_m0" /\ M0!PortNext
  <2>1. M0Inv
    BY <1>2 DEF PortsInv
  <2>2. StepOK /\ M0Inv'
    BY <1>1, <1>2, <2>1, M0Step
  <2>3. QED BY <1>1, <1>2, <2>2 DEF PortsInv, StepOK
<1>3. CASE port = "cortex_m3" /\ M3!PortNext
  <2>1. M3Inv
    BY <1>3 DEF PortsInv
  <2>2. StepOK /\ M3Inv'
    BY <1>1, <1>3, <2>1, M3Step
  <2>3. QED BY <1>1, <1>3, <2>2 DEF PortsInv, StepOK
<1>4. CASE port = "cortex_m4f" /\ M4F!PortNext
  <2>1. M4FInv
    BY <1>4 DEF PortsInv
  <2>2. StepOK /\ M4FInv'
    BY <1>1, <1>4, <2>1, M4FStep
  <2>3. QED BY <1>1, <1>4, <2>2 DEF PortsInv, StepOK
<1>5. CASE port = "cortex_a9" /\ A9!PortNext
  <2>1. A9Inv
    BY <1>5 DEF PortsInv
  <2>2. StepOK /\ A9Inv'
    BY <1>1, <1>5, <2>1, A9Step
  <2>3. QED BY <1>1, <1>5, <2>2 DEF PortsInv, StepOK
<1>6. CASE port = "cortex_a53" /\ A53!PortNext
  <2>1. A53Inv
    BY <1>6 DEF PortsInv
  <2>2. StepOK /\ A53Inv'
    BY <1>1, <1>6, <2>1, A53Step
  <2>3. QED BY <1>1, <1>6, <2>2 DEF PortsInv, StepOK
<1>7. CASE port = "riscv32" /\ RV!PortNext
  <2>1. RVInv
    BY <1>7 DEF PortsInv
  <2>2. StepOK /\ RVInv'
    BY <1>1, <1>7, <2>1, RVStep
  <2>3. QED BY <1>1, <1>7, <2>2 DEF PortsInv, StepOK
<1>8. QED BY <1>2, <1>3, <1>4, <1>5, <1>6, <1>7 DEF PortsNext

LEMMA StutterOfPorts ==
  ASSUME PortsInv, UNCHANGED portVars
  PROVE  PortsInv' /\ UNCHANGED <<m.cur, sections, Handlers, Wanted>>
<1>1. port' = port /\ m' = m /\ sections' = sections /\ live' = live
  BY DEF portVars
<1>2. Control' <=> Control
  BY <1>1 DEF Control, FramesOK, Guarded, BeforeStart, Inside, Depth, Masked
<1>3. (M0Inv' <=> M0Inv) /\ (M3Inv' <=> M3Inv) /\ (M4FInv' <=> M4FInv)
  BY <1>1 DEF M0Inv, M3Inv, M4FInv, OneNesting, OwnRegs, Switching, FoundUnmasked,
     OwnFpuM4F, Depth
<1>4. (A9Inv' <=> A9Inv) /\ (A53Inv' <=> A53Inv) /\ (RVInv' <=> RVInv)
  BY <1>1 DEF A9Inv, A53Inv, RVInv, OwnNesting, OwnRegsA, FoundUnmasked, Nested,
     SavedFpu, OffA9, OwnFpuA9, OffA53, OwnFpuA53, Trapped, Depth, Inside
<1>5. UNCHANGED <<m.cur, sections, Handlers, Wanted>>
  BY <1>1 DEF Handlers, Wanted, SwitchInProgress
<1>6. QED BY <1>1, <1>2, <1>3, <1>4, <1>5 DEF PortsInv

\* The machine main() runs on before it starts the scheduler.
LEMMA FreshMachine ==
  ASSUME NEW F, NEW S, NEW s \in [Threads -> S], NEW n \in Int,
         m = [cur |-> main, regs |-> main, nesting |-> n, mask |-> FALSE,
              off |-> FALSE, pend |-> FALSE, depth |-> 0, fpu |-> FALSE,
              fp |-> [low |-> main, high |-> main], frames |-> <<>>, saved |-> s,
              hung |-> FALSE],
         sections = [t \in Threads \union {main} |-> 0]
  PROVE  /\ m \in Machines(F, S) /\ Control /\ Promise!ProcessorInit
         /\ m.cur = main /\ m.frames = <<>> /\ ~m.pend /\ m.depth = 0
         /\ m.nesting = n /\ m.saved = s /\ ~m.mask /\ ~m.off /\ Depth = 0
         /\ main \notin Threads /\ sections[main] = 0
         /\ \A t \in Threads : sections[t] = 0
<1>1. main \in Contexts /\ main \notin Threads /\ Contexts = Threads \union {main}
  BY PortsAssumption DEF Contexts
<1>2. m \in Machines(F, S)
  <2>1. <<>> \in Seq(F) /\ 0 \in Int /\ main \in FpValues
    BY <1>1 DEF FpValues
  <2>2. QED BY <1>1, <2>1 DEF Machines, Halves
<1>3. /\ m.cur = main /\ m.frames = <<>> /\ ~m.pend /\ m.depth = 0
      /\ m.nesting = n /\ m.saved = s /\ ~m.mask /\ ~m.off /\ Depth = 0
  BY DEF Depth
<1>4. sections[main] = 0 /\ \A t \in Threads : sections[t] = 0
  OBVIOUS
<1>5. Control
  <2>1. sections \in [Contexts -> Nat]
    BY <1>1
  <2>2. FramesOK
    BY <1>3 DEF FramesOK
  <2>3. QED BY <1>1, <1>3, <1>4, <2>1, <2>2 DEF Control, Guarded, BeforeStart
<1>6. Promise!ProcessorInit
  <2>1. Handlers = <<>> /\ (Wanted <=> m.pend)
    BY <1>3, NoFramesNow
  <2>2. (m.pend \/ SwitchInProgress) = FALSE
    BY <1>3, <2>1 DEF Wanted
  <2>3. QED BY <1>1, <1>3, <2>1, <2>2 DEF Promise!ProcessorInit, Promise!Contexts
<1>7. QED BY <1>1, <1>2, <1>3, <1>4, <1>5, <1>6

LEMMA M0Init ==
  ASSUME port = "cortex_m0", M0!PortInit
  PROVE  Control /\ M0Inv /\ Promise!ProcessorInit
<1>1. PICK s : s = [t \in Threads |-> [regs |-> t]]
  BY Zenon
<1>2. s \in [Threads -> [regs : Contexts]]
  BY <1>1 DEF Contexts
<1>3. /\ m = [cur |-> main, regs |-> main, nesting |-> 0, mask |-> FALSE,
              off |-> FALSE, pend |-> FALSE, depth |-> 0, fpu |-> FALSE,
              fp |-> [low |-> main, high |-> main], frames |-> <<>>, saved |-> s,
              hung |-> FALSE]
      /\ sections = [t \in Threads \union {main} |-> 0] /\ live = {} /\ 0 \in Int
  BY <1>1 DEF M0!PortInit, M0!Reset, M0!FpOf, M0!pxPortInitialiseStack,
     M0!NestingAtReset
<1>4. /\ m \in Machines(CoreFrames, [regs : Contexts]) /\ Control
      /\ Promise!ProcessorInit /\ m.cur = main /\ m.saved = s /\ ~m.mask
      /\ Depth = 0 /\ main \notin Threads /\ \A t \in Threads : sections[t] = 0
  BY <1>2, <1>3, FreshMachine, Zenon
<1>5. QED
  BY <1>1, <1>3, <1>4 DEF M0Inv, OneNesting, OwnRegs, FoundUnmasked

LEMMA M3Init ==
  ASSUME port = "cortex_m3", M3!PortInit
  PROVE  Control /\ M3Inv /\ Promise!ProcessorInit
<1>1. PICK s : s = [t \in Threads |-> [regs |-> t]]
  BY Zenon
<1>2. s \in [Threads -> [regs : Contexts]]
  BY <1>1 DEF Contexts
<1>3. /\ m = [cur |-> main, regs |-> main, nesting |-> 0, mask |-> FALSE,
              off |-> FALSE, pend |-> FALSE, depth |-> 0, fpu |-> FALSE,
              fp |-> [low |-> main, high |-> main], frames |-> <<>>, saved |-> s,
              hung |-> FALSE]
      /\ sections = [t \in Threads \union {main} |-> 0] /\ live = {} /\ 0 \in Int
  BY <1>1 DEF M3!PortInit, M3!Reset, M3!FpOf, M3!pxPortInitialiseStack,
     M3!NestingAtReset
<1>4. /\ m \in Machines(CoreFrames, [regs : Contexts]) /\ Control
      /\ Promise!ProcessorInit /\ m.cur = main /\ m.saved = s /\ ~m.off
      /\ Depth = 0 /\ main \notin Threads /\ \A t \in Threads : sections[t] = 0
  BY <1>2, <1>3, FreshMachine, Zenon
<1>5. QED
  BY <1>1, <1>3, <1>4 DEF M3Inv, OneNesting, OwnRegs, FoundUnmasked

LEMMA M4FInit ==
  ASSUME port = "cortex_m4f", M4F!PortInit
  PROVE  Control /\ M4FInv /\ Promise!ProcessorInit
<1>1. PICK s : s = [t \in Threads |-> [regs |-> t, fpu |-> FALSE,
                                     fp |-> [low |-> "none", high |-> "none"]]]
  BY Zenon
<1>2. s \in [Threads -> [regs : Contexts, fpu : BOOLEAN, fp : Halves]]
  BY <1>1 DEF Contexts, Halves, FpValues
<1>3. /\ m = [cur |-> main, regs |-> main, nesting |-> 0, mask |-> FALSE,
              off |-> FALSE, pend |-> FALSE, depth |-> 0, fpu |-> FALSE,
              fp |-> [low |-> main, high |-> main], frames |-> <<>>, saved |-> s,
              hung |-> FALSE]
      /\ sections = [t \in Threads \union {main} |-> 0] /\ live = {} /\ 0 \in Int
  BY <1>1 DEF M4F!PortInit, M4F!Reset, M4F!FpOf, M4F!pxPortInitialiseStack,
     M4F!Context, M4F!NestingAtReset
<1>4. /\ m \in Machines(M4FFrames, [regs : Contexts, fpu : BOOLEAN, fp : Halves])
      /\ Control /\ Promise!ProcessorInit /\ m.cur = main /\ m.saved = s /\ ~m.off
      /\ Depth = 0 /\ main \notin Threads /\ \A t \in Threads : sections[t] = 0
  BY <1>2, <1>3, FreshMachine, Zenon
<1>5. OwnFpuM4F
  BY <1>3, <1>4 DEF OwnFpuM4F
<1>6. QED
  BY <1>1, <1>3, <1>4, <1>5 DEF M4FInv, OneNesting, OwnRegs, FoundUnmasked

\* What the ports to the Cortex-A and to RISC-V share.
LEMMA FreshContexts ==
  ASSUME m.cur = main, m.frames = <<>>, ~m.pend, m.depth = 0,
         m.nesting = 9999, Depth = 0, main \notin Threads,
         sections[main] = 0, \A t \in Threads : sections[t] = 0,
         \A t \in Threads : /\ m.saved[t].regs = t /\ m.saved[t].nesting = 0
                         /\ ~m.saved[t].off
  PROVE  OwnNesting /\ OwnRegsA /\ FoundUnmasked /\ Nested /\ Trapped
<1>1. OwnNesting /\ OwnRegsA
  BY DEF OwnNesting, OwnRegsA
<1>2. FoundUnmasked /\ Nested
  BY DEF FoundUnmasked, Nested
<1>3. Trapped
  BY DEF Trapped
<1>4. QED BY <1>1, <1>2, <1>3

LEMMA A9Init ==
  ASSUME port = "cortex_a9", A9!PortInit
  PROVE  Control /\ A9Inv /\ Promise!ProcessorInit
<1>1. PICK s : s = [t \in Threads |-> [regs |-> t, nesting |-> 0, off |-> FALSE,
                                     fpu |-> FALSE,
                                     fp |-> [low |-> "none", high |-> "none"]]]
  BY Zenon
<1>2. s \in [Threads -> ASaved]
  BY <1>1 DEF ASaved, Contexts, Halves, FpValues
<1>3. /\ m = [cur |-> main, regs |-> main, nesting |-> 9999, mask |-> FALSE,
              off |-> FALSE, pend |-> FALSE, depth |-> 0, fpu |-> FALSE,
              fp |-> [low |-> main, high |-> main], frames |-> <<>>, saved |-> s,
              hung |-> FALSE]
      /\ sections = [t \in Threads \union {main} |-> 0] /\ live = {}
  BY <1>1 DEF A9!PortInit, A9!Reset, A9!FpOf, A9!pxPortInitialiseStack,
     A9!Context, A9!NestingAtReset
<1>4. /\ m \in Machines(A9Frames, ASaved) /\ Control /\ Promise!ProcessorInit
      /\ m.cur = main /\ m.frames = <<>> /\ ~m.pend /\ m.depth = 0
      /\ m.nesting = 9999 /\ m.saved = s /\ Depth = 0 /\ main \notin Threads
      /\ sections[main] = 0 /\ \A t \in Threads : sections[t] = 0
  <2>1. PICK n \in Int : n = 9999
    OBVIOUS
  <2>2. m = [cur |-> main, regs |-> main, nesting |-> n, mask |-> FALSE,
             off |-> FALSE, pend |-> FALSE, depth |-> 0, fpu |-> FALSE,
             fp |-> [low |-> main, high |-> main], frames |-> <<>>, saved |-> s,
             hung |-> FALSE]
    BY <1>3, <2>1
  <2>3. sections = [t \in Threads \union {main} |-> 0]
    BY <1>3
  <2>4. /\ m.frames = <<>> /\ ~m.pend /\ m.depth = 0 /\ m.nesting = n
        /\ sections[main] = 0 /\ n \in Int
    BY <2>1, <2>2, <2>3
  <2>5. /\ m \in Machines(A9Frames, ASaved) /\ Control /\ Promise!ProcessorInit
        /\ m.cur = main /\ m.saved = s /\ Depth = 0 /\ main \notin Threads
        /\ \A t \in Threads : sections[t] = 0
    BY <1>2, <2>2, <2>3, <2>4, FreshMachine, Zenon
  <2>6. QED BY <2>1, <2>4, <2>5
<1>5. \A t \in Threads : /\ m.saved[t].regs = t /\ m.saved[t].nesting = 0
                      /\ ~m.saved[t].off
  BY <1>1, <1>4
<1>6. OwnNesting /\ OwnRegsA /\ FoundUnmasked /\ Nested
  BY <1>4, <1>5, FreshContexts
<1>7. QED
  BY <1>3, <1>4, <1>6 DEF A9Inv, SavedFpu, OffA9, OwnFpuA9

LEMMA A53Init ==
  ASSUME port = "cortex_a53", A53!PortInit
  PROVE  Control /\ A53Inv /\ Promise!ProcessorInit
<1>1. PICK s : s = [t \in Threads |-> [regs |-> t, nesting |-> 0, off |-> FALSE,
                                     fpu |-> FALSE,
                                     fp |-> [low |-> "none", high |-> "none"]]]
  BY Zenon
<1>2. s \in [Threads -> ASaved]
  BY <1>1 DEF ASaved, Contexts, Halves, FpValues
<1>3. /\ m = [cur |-> main, regs |-> main, nesting |-> 9999, mask |-> FALSE,
              off |-> FALSE, pend |-> FALSE, depth |-> 0, fpu |-> FALSE,
              fp |-> [low |-> main, high |-> main], frames |-> <<>>, saved |-> s,
              hung |-> FALSE]
      /\ sections = [t \in Threads \union {main} |-> 0] /\ live = {}
  BY <1>1 DEF A53!PortInit, A53!Reset, A53!FpOf, A53!pxPortInitialiseStack,
     A53!Context, A53!NestingAtReset
<1>4. /\ m \in Machines(A53Frames, ASaved) /\ Control /\ Promise!ProcessorInit
      /\ m.cur = main /\ m.frames = <<>> /\ ~m.pend /\ m.depth = 0
      /\ m.nesting = 9999 /\ m.saved = s /\ Depth = 0 /\ main \notin Threads
      /\ sections[main] = 0 /\ \A t \in Threads : sections[t] = 0
  <2>1. PICK n \in Int : n = 9999
    OBVIOUS
  <2>2. m = [cur |-> main, regs |-> main, nesting |-> n, mask |-> FALSE,
             off |-> FALSE, pend |-> FALSE, depth |-> 0, fpu |-> FALSE,
             fp |-> [low |-> main, high |-> main], frames |-> <<>>, saved |-> s,
             hung |-> FALSE]
    BY <1>3, <2>1
  <2>3. sections = [t \in Threads \union {main} |-> 0]
    BY <1>3
  <2>4. /\ m.frames = <<>> /\ ~m.pend /\ m.depth = 0 /\ m.nesting = n
        /\ sections[main] = 0 /\ n \in Int
    BY <2>1, <2>2, <2>3
  <2>5. /\ m \in Machines(A53Frames, ASaved) /\ Control /\ Promise!ProcessorInit
        /\ m.cur = main /\ m.saved = s /\ Depth = 0 /\ main \notin Threads
        /\ \A t \in Threads : sections[t] = 0
    BY <1>2, <2>2, <2>3, <2>4, FreshMachine, Zenon
  <2>6. QED BY <2>1, <2>4, <2>5
<1>5. \A t \in Threads : /\ m.saved[t].regs = t /\ m.saved[t].nesting = 0
                      /\ ~m.saved[t].off
  BY <1>1, <1>4
<1>6. OwnNesting /\ OwnRegsA /\ FoundUnmasked /\ Nested
  BY <1>4, <1>5, FreshContexts
<1>7. OffA53 /\ OwnFpuA53
  BY <1>3, <1>4 DEF OffA53, OwnFpuA53
<1>8. QED
  BY <1>3, <1>4, <1>6, <1>7 DEF A53Inv, SavedFpu

LEMMA RVInit ==
  ASSUME port = "riscv32", RV!PortInit
  PROVE  Control /\ RVInv /\ Promise!ProcessorInit
<1>1. PICK s : s = [t \in Threads |-> [regs |-> t, nesting |-> 0, off |-> FALSE]]
  BY Zenon
<1>2. s \in [Threads -> RVSaved]
  BY <1>1 DEF RVSaved, Contexts
<1>3. /\ m = [cur |-> main, regs |-> main, nesting |-> 9999, mask |-> FALSE,
              off |-> FALSE, pend |-> FALSE, depth |-> 0, fpu |-> FALSE,
              fp |-> [low |-> main, high |-> main], frames |-> <<>>, saved |-> s,
              hung |-> FALSE]
      /\ sections = [t \in Threads \union {main} |-> 0] /\ live = {}
  BY <1>1 DEF RV!PortInit, RV!Reset, RV!FpOf, RV!pxPortInitialiseStack,
     RV!NestingAtReset
<1>4. /\ m \in Machines(CoreFrames, RVSaved) /\ Control /\ Promise!ProcessorInit
      /\ m.cur = main /\ m.frames = <<>> /\ ~m.pend /\ m.depth = 0
      /\ m.nesting = 9999 /\ m.saved = s /\ Depth = 0 /\ main \notin Threads
      /\ sections[main] = 0 /\ ~m.mask /\ \A t \in Threads : sections[t] = 0
  <2>1. PICK n \in Int : n = 9999
    OBVIOUS
  <2>2. m = [cur |-> main, regs |-> main, nesting |-> n, mask |-> FALSE,
             off |-> FALSE, pend |-> FALSE, depth |-> 0, fpu |-> FALSE,
             fp |-> [low |-> main, high |-> main], frames |-> <<>>, saved |-> s,
             hung |-> FALSE]
    BY <1>3, <2>1
  <2>3. sections = [t \in Threads \union {main} |-> 0]
    BY <1>3
  <2>4. /\ m.frames = <<>> /\ ~m.pend /\ m.depth = 0 /\ m.nesting = n /\ ~m.mask
        /\ sections[main] = 0 /\ n \in Int
    BY <2>1, <2>2, <2>3
  <2>5. /\ m \in Machines(CoreFrames, RVSaved) /\ Control /\ Promise!ProcessorInit
        /\ m.cur = main /\ m.saved = s /\ Depth = 0 /\ main \notin Threads
        /\ \A t \in Threads : sections[t] = 0
    BY <1>2, <2>2, <2>3, <2>4, FreshMachine, Zenon
  <2>6. QED BY <2>1, <2>4, <2>5
<1>5. \A t \in Threads : /\ m.saved[t].regs = t /\ m.saved[t].nesting = 0
                      /\ ~m.saved[t].off
  BY <1>1, <1>4
<1>6. OwnNesting /\ OwnRegsA /\ Trapped
  BY <1>4, <1>5, FreshContexts
<1>7. QED
  BY <1>3, <1>4, <1>6 DEF RVInv

LEMMA InitOfPort ==
  ASSUME PortsInit
  PROVE  PortsInv /\ Promise!ProcessorInit
<1>1. port \in Chosen
  BY DEF PortsInit
<1>2. CASE port = "cortex_m0" /\ M0!PortInit
  BY <1>1, <1>2, M0Init DEF PortsInv
<1>3. CASE port = "cortex_m3" /\ M3!PortInit
  BY <1>1, <1>3, M3Init DEF PortsInv
<1>4. CASE port = "cortex_m4f" /\ M4F!PortInit
  BY <1>1, <1>4, M4FInit DEF PortsInv
<1>5. CASE port = "cortex_a9" /\ A9!PortInit
  BY <1>1, <1>5, A9Init DEF PortsInv
<1>6. CASE port = "cortex_a53" /\ A53!PortInit
  BY <1>1, <1>6, A53Init DEF PortsInv
<1>7. CASE port = "riscv32" /\ RV!PortInit
  BY <1>1, <1>7, RVInit DEF PortsInv
<1>8. QED BY <1>2, <1>3, <1>4, <1>5, <1>6, <1>7 DEF PortsInit

\* Under every port, interrupt by interrupt and switch by switch, the masks, the
\* nesting counters and the contexts on the stacks stay in step: PortsInv, that
\* says what each port keeps where, holds from main() on, for any number of
\* tasks and whatever the depth of sections and interrupts.
THEOREM PortsInvariance == PortsSpec => []PortsInv
<1>1. PortsInit => PortsInv
  BY InitOfPort
<1>2. PortsInv /\ [PortsNext]_portVars => PortsInv'
  BY StepOfPort, StutterOfPorts
<1>3. QED BY <1>1, <1>2, PTL DEF PortsSpec

LEMMA InvKeepsContext ==
  ASSUME PortsInv
  PROVE  ContextKept
<1> SUFFICES ASSUME m.frames = <<>>, m.cur # main
             PROVE  /\ m.regs = m.cur
                    /\ m.cur \in live => m.fp = FpOf(m.cur)
                    /\ sections[m.cur] = 0 => ~m.mask /\ ~m.off
  BY DEF ContextKept, TaskGoesOn
<1>1. Control /\ Depth = 0 /\ m.cur \in Threads
  BY NoFramesNow DEF PortsInv, Control, Contexts
<1>2. port # "riscv32" /\ sections[m.cur] = 0 => ~Masked
  BY <1>1, ControlFacts DEF Control, Guarded
<1>3. CASE port = "cortex_m0"
  <2>1. M0Inv
    BY <1>3 DEF PortsInv
  <2>2. QED BY <1>1, <1>2, <1>3, <2>1 DEF M0Inv, OwnRegs, Switching, Masked
<1>4. CASE port = "cortex_m3"
  <2>1. M3Inv
    BY <1>4 DEF PortsInv
  <2>2. QED BY <1>1, <1>2, <1>4, <2>1 DEF M3Inv, OwnRegs, Switching, Masked
<1>5. CASE port = "cortex_m4f"
  <2>1. M4FInv
    BY <1>5 DEF PortsInv
  <2>2. QED BY <1>1, <1>2, <1>5, <2>1 DEF M4FInv, OwnRegs, Switching, OwnFpuM4F, Masked
<1>6. CASE port = "cortex_a9"
  <2>1. A9Inv
    BY <1>6 DEF PortsInv
  <2>2. m.cur \in live => m.fp = FpOf(m.cur)
    <3>1. m.fp \in Halves
      BY <2>1 DEF A9Inv, Machines
    <3>2. m.cur \in live => m.fp.low = m.cur /\ m.fp.high = m.cur
      BY <2>1 DEF A9Inv, OwnFpuA9
    <3>3. QED BY <3>1, <3>2, FpOfHalves
  <2>3. QED BY <1>1, <1>2, <1>6, <2>1, <2>2 DEF A9Inv, OwnRegsA, OffA9, Masked
<1>7. CASE port = "cortex_a53"
  <2>1. A53Inv
    BY <1>7 DEF PortsInv
  <2>2. QED BY <1>1, <1>2, <1>7, <2>1 DEF A53Inv, OwnRegsA, OffA53, OwnFpuA53, Masked
<1>8. CASE port = "riscv32"
  <2>1. RVInv
    BY <1>8 DEF PortsInv
  <2>2. QED BY <1>1, <2>1 DEF RVInv, OwnRegsA, Trapped
<1>9. port \in {"cortex_m0", "cortex_m3", "cortex_m4f", "cortex_a9", "cortex_a53",
                "riscv32"}
  BY PortsAssumption DEF PortsInv
<1>10. QED BY <1>3, <1>4, <1>5, <1>6, <1>7, <1>8, <1>9

LEMMA InvKnowsInterrupts ==
  ASSUME PortsInv
  PROVE  InsideInterruptKnown
<1>1. Depth \in Nat /\ (m.frames = <<>> <=> Depth = 0)
  BY ControlFacts DEF PortsInv
<1>2. port = "cortex_a9" => (A9!xPortIsInsideInterrupt(m) <=> m.frames # <<>>)
  BY <1>1 DEF PortsInv, A9Inv, Nested, A9!xPortIsInsideInterrupt
<1>3. port = "cortex_a53" => (A53!xPortIsInsideInterrupt(m) <=> m.frames # <<>>)
  BY <1>1 DEF PortsInv, A53Inv, Nested, A53!xPortIsInsideInterrupt
<1>4. port = "riscv32" => (RV!xPortIsInsideInterrupt(m) <=> m.frames # <<>>)
  BY <1>1 DEF PortsInv, RVInv, Trapped, RV!xPortIsInsideInterrupt
<1>5. QED
  BY <1>2, <1>3, <1>4
     DEF InsideInterruptKnown, M0!xPortIsInsideInterrupt, M3!xPortIsInsideInterrupt,
         M4F!xPortIsInsideInterrupt

\* Whatever interrupts it and however often it is switched out, inside sections
\* or not, a task goes on with its registers, its floating point values and its
\* interrupts enabled outside sections.
THEOREM ContextsAreKept == PortsSpec => []ContextKept
<1>1. PortsInv => ContextKept
  BY InvKeepsContext
<1>2. QED BY <1>1, PortsInvariance, PTL

\* xPortIsInsideInterrupt tells handlers from tasks under every port, also after
\* a handler has switched tasks or another has interrupted it.
THEOREM InterruptsAreKnown == PortsSpec => []InsideInterruptKnown
<1>1. PortsInv => InsideInterruptKnown
  BY InvKnowsInterrupts
<1>2. QED BY <1>1, PortsInvariance, PTL

\* Every port implements Processor: no handler that calls the kernel starts while
\* a task is in a critical section or a handler inside the kernel, and a switch
\* asked for is made before the task goes on outside a section.
THEOREM PortsImplementProcessor == PortsSpec => ImplementsProcessor
<1>1. PortsInit => Promise!ProcessorInit
  BY InitOfPort
<1>2. PortsInv /\ [PortsNext]_portVars
        => [Promise!ProcessorNext]_(Promise!procVars)
  <2>1. ASSUME PortsInv, PortsNext
        PROVE  [Promise!ProcessorNext]_(Promise!procVars)
    <3>1. \/ Promise!ProcessorNext
          \/ UNCHANGED <<m.cur, sections, Handlers, Wanted>>
      BY <2>1, StepOfPort DEF StepOK
    <3>2. QED BY <3>1 DEF Promise!procVars, Wanted
  <2>2. ASSUME PortsInv, UNCHANGED portVars
        PROVE  UNCHANGED Promise!procVars
    BY <2>2, StutterOfPorts DEF Promise!procVars, Wanted
  <2>3. QED BY <2>1, <2>2
<1>3. QED
  BY <1>1, <1>2, PortsInvariance, PTL
     DEF PortsSpec, ImplementsProcessor, Promise!ProcessorSpec
====

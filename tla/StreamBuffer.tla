---------------------------- MODULE StreamBuffer ----------------------------
(***************************************************************************)
(* The stream, message and batching buffers of                             *)
(* src/src/kernel/stream_buffer.rs.  A buffer has one producer and one     *)
(* consumer, each a task or an interrupt handler, that share its head and  *)
(* its tail without a lock; a task that must wait registers itself and     *)
(* waits for a notification.  sb[t] holds the local variables of the call  *)
(* task t is inside.                                                       *)
(***************************************************************************)
EXTENDS Notify, Ring

CONSTANTS
  Buffers,
  NoBuffer,
  BufferKind,        \* [Buffers -> BufferKinds]
  Size,              \* xBufferSizeBytes of each buffer
  Trigger,           \* the trigger level each buffer is created with
  NoByte,            \* what a byte of the storage holds that is not in use
  PrefixBytes,       \* sbBYTES_TO_STORE_MESSAGE_LENGTH
  SendUses,          \* the <<task, buffer, length, byte, ticks>> of sends
  ReceiveUses,       \* the <<task, buffer, room, ticks>> of receives
  StreamHandlerUses, \* the <<operation, buffer, length or room, byte>> of
                     \* handlers
  ManagerUses        \* the <<task, buffer, level>> of changes of the trigger
                     \* level; level 0 resets the buffer

BufferKinds == {"stream", "message", "batching"}

ASSUME StreamBufferAssumption ==
  /\ NoBuffer \notin Buffers
  /\ BufferKind \in [Buffers -> BufferKinds]
  /\ PrefixBytes \in Nat \ {0}
  /\ Size \in [Buffers -> Nat \ {0}]
  /\ \A s \in Buffers :
       /\ Trigger[s] \in 1..Size[s]
       /\ BufferKind[s] = "message" => Size[s] > PrefixBytes /\ Trigger[s] = 1

VARIABLES buffer, sb

svars == <<vars, wait, buffer, sb>>

xLength(s) == Size[s] + 1

prvInitialiseNewStreamBuffer(s, level) ==
  [slots   |-> [i \in 0..Size[s] |-> NoByte],
   head    |-> 0,
   tail    |-> 0,
   trigger |-> level,
   waitingToReceive |-> NoTask,
   waitingToSend    |-> NoTask]

NoStreamCall == [op |-> "none", buffer |-> NoBuffer, length |-> 0,
                 byte |-> NoByte, ticks |-> 0, timeOut |-> NoTimeOut,
                 available |-> 0, data |-> <<>>]

StreamInit ==
  /\ SchedulerInit /\ NotifyInit
  /\ buffer = [s \in Buffers |-> prvInitialiseNewStreamBuffer(s, Trigger[s])]
  /\ sb = [t \in Tasks |-> NoStreamCall]

InBuffer(s) == prvBytesInBuffer(xLength(s), buffer[s].head, buffer[s].tail)

Space(s) ==
  xStreamBufferSpacesAvailable(xLength(s), buffer[s].head, buffer[s].tail)

IsMessage(s) == BufferKind[s] = "message"

Step(t, p, c) == Goto(t, p) /\ sb' = [sb EXCEPT ![t] = c]

ReturnTo(t, p) == Step(t, p, NoStreamCall)

Lesser(m, n) == IF m < n THEN m ELSE n
-----------------------------------------------------------------------------
(* Waking the other side.                                                  *)

\* sbSEND_COMPLETED and sbRECEIVE_COMPLETED between vTaskSuspendAll and
\* xTaskResumeAll: the task that has registered is taken and notified.
NotifyWaiting(k, x) ==
  IF x = NoTask THEN k ELSE NotifyTask(k, x, "eNoAction", 0)

NotifyWaitingFromISR(k, x) ==
  IF x = NoTask THEN k ELSE NotifyTaskFromISR(k, x, "eNoAction", 0)

\* A handler may pass on whether the task it woke has a higher priority.
WakesHigherFromISR(x) ==
  x # NoTask /\ os.notifyState[x] = "waiting" /\ Preempts(os, x)
-----------------------------------------------------------------------------
(* Sending.                                                                *)

xRequiredSpace(s, n) ==
  IF IsMessage(s) THEN n + PrefixBytes ELSE Lesser(n, Size[s])

\* What is put into the storage: a message after its length.
Framed(s, n, x) ==
  IF IsMessage(s)
    THEN [i \in 1..(PrefixBytes + n) |-> IF i <= PrefixBytes THEN n ELSE x]
    ELSE [i \in 1..n |-> x]

\* The bytes prvWriteMessageToBuffer accepts: all of a message or none.
Accepted(s, n, space, required) ==
  IF IsMessage(s) THEN IF space >= required THEN n ELSE 0
                  ELSE Lesser(n, space)

\* The critical section at the head of the loop: enough space, or register.
SendTry(t, c) ==
  LET s == c.buffer
      looked == [c EXCEPT !.available = Space(s)]
  IN  IF Space(s) < xRequiredSpace(s, c.length)
        THEN /\ os' = StateCleared(
                        configASSERT(os, buffer[s].waitingToSend = NoTask), t)
             /\ buffer' = [buffer EXCEPT ![s].waitingToSend = t]
             /\ Step(t, "streamWait", looked)
        ELSE Step(t, "sendWrite", looked) /\ UNCHANGED <<os, buffer>>

SendTries(t) ==
  At(t, "sendTry") /\ SendTry(t, sb[t]) /\ UNCHANGED <<locals, wait>>

\* The copy; the reader does not see it before the head is stored.
SendWrite(t, c) ==
  LET s == c.buffer
      space == IF c.available = 0 THEN Space(s) ELSE c.available
      n == Accepted(s, c.length, space, xRequiredSpace(s, c.length))
      data == Framed(s, n, c.byte)
  IN  IF n = 0
        THEN ReturnTo(t, "app") /\ UNCHANGED buffer
        ELSE /\ buffer' = [buffer EXCEPT ![s].slots =
                   prvWriteBytesToBuffer(@, xLength(s), buffer[s].head, data)]
             /\ Step(t, "sendPublish",
                     [NoStreamCall EXCEPT !.op = "send", !.buffer = s,
                                          !.available = Len(data)])

SendWrites(t) ==
  /\ At(t, "sendWrite")
  /\ SendWrite(t, sb[t])
  /\ UNCHANGED <<os, locals, wait>>

\* A message that can never fit does not wait.
xStreamBufferSend(t, s, n, x, ticksToWait) ==
  LET waits == IF IsMessage(s) /\ xRequiredSpace(s, n) > Size[s]
                 THEN 0 ELSE ticksToWait
      c == [NoStreamCall EXCEPT !.op = "send", !.buffer = s, !.length = n,
                                !.byte = x, !.ticks = waits]
  IN  /\ At(t, "app") /\ t # Idle
      /\ waits # 0 => os.suspended = 0
      /\ IF waits = 0
           THEN SendWrite(t, c) /\ UNCHANGED os
           ELSE SendTry(t, [c EXCEPT !.timeOut =
                   IF waits = portMAX_DELAY THEN NoTimeOut
                   ELSE vTaskInternalSetTimeOutState(os)])
      /\ UNCHANGED <<locals, wait>>

SendPublishes(t) ==
  LET c == sb[t]
      s == c.buffer
  IN  /\ At(t, "sendPublish")
      /\ buffer' = [buffer EXCEPT ![s].head = Advance(xLength(s), @, c.available)]
      /\ Step(t, "sendTrigger", [c EXCEPT !.available = 0])
      /\ UNCHANGED <<os, locals, wait>>

SendChecksTrigger(t) ==
  LET s == sb[t].buffer
  IN  /\ At(t, "sendTrigger")
      /\ IF InBuffer(s) >= buffer[s].trigger
           THEN Goto(t, "sendCompleted") /\ UNCHANGED sb
           ELSE ReturnTo(t, "app")
      /\ UNCHANGED <<os, locals, wait, buffer>>

\* Mutant: the receiver is not notified.
SendCompletesSilently(t) ==
  /\ At(t, "sendCompleted")
  /\ os' = vTaskSuspendAll(os)
  /\ ReturnTo(t, "resumeThenReturn")
  /\ UNCHANGED <<locals, wait, buffer>>

\* The trigger level is checked again: a receiver that has come since waits for
\* other bytes.
SendCompletes(t) ==
  LET s == sb[t].buffer
      k == vTaskSuspendAll(os)
  IN  /\ At(t, "sendCompleted")
      /\ IF InBuffer(s) < buffer[s].trigger
           THEN os' = k /\ UNCHANGED buffer
           ELSE /\ os' = NotifyWaiting(k, buffer[s].waitingToReceive)
                /\ buffer' = [buffer EXCEPT ![s].waitingToReceive = NoTask]
      /\ ReturnTo(t, "resumeThenReturn")
      /\ UNCHANGED <<locals, wait>>

xStreamBufferSendFromISR(s, n, x) ==
  LET required == IF IsMessage(s) THEN n + PrefixBytes ELSE n
      accepted == Accepted(s, n, Space(s), required)
      data == Framed(s, accepted, x)
      B == [buffer EXCEPT
              ![s].slots = prvWriteBytesToBuffer(@, xLength(s), buffer[s].head,
                                                 data),
              ![s].head = Advance(xLength(s), @, Len(data))]
      reached == InBuffer(s) + Len(data) >= buffer[s].trigger
      receiver == buffer[s].waitingToReceive
  IN  /\ InterruptsEnabled
      /\ accepted > 0
      /\ IF reached
           THEN /\ buffer' = [B EXCEPT ![s].waitingToReceive = NoTask]
                /\ \E yields \in {FALSE, WakesHigherFromISR(receiver)} :
                     os' = YieldIf(NotifyWaitingFromISR(os, receiver), yields)
           ELSE buffer' = B /\ UNCHANGED os
      /\ UNCHANGED <<pc, locals, wait, sb>>
-----------------------------------------------------------------------------
(* Receiving.                                                              *)

\* A receive returns only with more bytes than this.
xBytesToStoreMessageLength(s) ==
  CASE IsMessage(s) -> PrefixBytes
    [] BufferKind[s] = "batching" -> buffer[s].trigger
    [] OTHER -> 0

xStreamBufferReceive(t, s, n, ticksToWait) ==
  LET few == InBuffer(s) <= xBytesToStoreMessageLength(s)
      c == [NoStreamCall EXCEPT !.op = "receive", !.buffer = s, !.length = n]
  IN  /\ At(t, "app") /\ t # Idle
      /\ ticksToWait # 0 => os.suspended = 0
      /\ IF few
           THEN /\ ticksToWait # 0
                /\ os' = StateCleared(
                     configASSERT(os, buffer[s].waitingToReceive = NoTask), t)
                /\ buffer' = [buffer EXCEPT ![s].waitingToReceive = t]
                /\ Step(t, "streamWait", [c EXCEPT !.ticks = ticksToWait])
           ELSE /\ Step(t, "receiveRead", [c EXCEPT !.available = InBuffer(s)])
                /\ UNCHANGED <<os, buffer>>
      /\ UNCHANGED <<locals, wait>>

\* The receiver looks once more at what has come.
ReceiveChecksAgain(t) ==
  LET c == sb[t]
      s == c.buffer
  IN  /\ At(t, "receiveAgain")
      /\ IF InBuffer(s) > xBytesToStoreMessageLength(s)
           THEN Step(t, "receiveRead", [c EXCEPT !.available = InBuffer(s)])
           ELSE ReturnTo(t, "app")
      /\ UNCHANGED <<os, locals, wait, buffer>>

\* Mutant: the length of a message does not limit what is read.
ReadPastMessage(s, room, available) ==
  Lesser(room, IF IsMessage(s) THEN available - PrefixBytes ELSE available)

\* The bytes that prvReadMessageFromBuffer reads: a whole message if there is
\* room for it, else nothing.
Readable(s, room, available) ==
  LET length == buffer[s].slots[buffer[s].tail]
  IN  IF ~IsMessage(s) THEN Lesser(room, available)
      ELSE IF length > room THEN 0
      ELSE Lesser(length, available - PrefixBytes)

\* The bytes that leave the buffer with n bytes read.
Leaving(s, n) == IF IsMessage(s) THEN n + PrefixBytes ELSE n

\* n bytes that are read.
ReadOut(s, n) ==
  prvReadBytesFromBuffer(
    buffer[s].slots, xLength(s),
    IF IsMessage(s) THEN Advance(xLength(s), buffer[s].tail, PrefixBytes)
                    ELSE buffer[s].tail, n)

\* The buffers after n bytes have left s; what is no longer in use is forgotten.
Removed(s, n) ==
  [buffer EXCEPT
     ![s].tail = Advance(xLength(s), @, n),
     ![s].slots = prvWriteBytesToBuffer(@, xLength(s), buffer[s].tail,
                                        [i \in 1..n |-> NoByte])]

\* The copy; the writer does not reuse the space before the tail is stored.
ReceiveReads(t) ==
  LET c == sb[t]
      s == c.buffer
      n == Readable(s, c.length, c.available)
  IN  /\ At(t, "receiveRead")
      /\ IF n = 0
           THEN ReturnTo(t, "app")
           ELSE Step(t, "receivePublish", [c EXCEPT !.data = ReadOut(s, n),
                                                    !.available = 0])
      /\ UNCHANGED <<os, locals, wait, buffer>>

\* Mutant: the tail goes to the head, past bytes that came after the copy.
PublishesAll(t) ==
  LET c == sb[t]
  IN  /\ At(t, "receivePublish")
      /\ buffer' = Removed(c.buffer, InBuffer(c.buffer))
      /\ Step(t, "receiveCompleted",
              [NoStreamCall EXCEPT !.op = "receive", !.buffer = c.buffer])
      /\ UNCHANGED <<os, locals, wait>>

ReceivePublishes(t) ==
  LET c == sb[t]
  IN  /\ At(t, "receivePublish")
      /\ buffer' = Removed(c.buffer, Leaving(c.buffer, Len(c.data)))
      /\ Step(t, "receiveCompleted",
              [NoStreamCall EXCEPT !.op = "receive", !.buffer = c.buffer])
      /\ UNCHANGED <<os, locals, wait>>

ReceiveCompletes(t) ==
  LET s == sb[t].buffer
  IN  /\ At(t, "receiveCompleted")
      /\ os' = NotifyWaiting(vTaskSuspendAll(os), buffer[s].waitingToSend)
      /\ buffer' = [buffer EXCEPT ![s].waitingToSend = NoTask]
      /\ ReturnTo(t, "resumeThenReturn")
      /\ UNCHANGED <<locals, wait>>

\* A batching buffer is read by handlers like a stream buffer.
xStreamBufferReceiveFromISR(s, n) ==
  LET read == Readable(s, n, InBuffer(s))
      sender == buffer[s].waitingToSend
  IN  /\ InterruptsEnabled
      /\ InBuffer(s) > (IF IsMessage(s) THEN PrefixBytes ELSE 0)
      /\ read # 0
      /\ buffer' = [Removed(s, Leaving(s, read)) EXCEPT
                      ![s].waitingToSend = NoTask]
      /\ \E yields \in {FALSE, WakesHigherFromISR(sender)} :
           os' = YieldIf(NotifyWaitingFromISR(os, sender), yields)
      /\ UNCHANGED <<pc, locals, wait, sb>>
-----------------------------------------------------------------------------
(* Waiting for the other side.                                             *)

StreamWaits(t) ==
  /\ At(t, "streamWait")
  /\ BeginWait(t, [NoWait EXCEPT !.op = "wait", !.ticks = sb[t].ticks,
                                 !.then = "streamWoken"])
  /\ UNCHANGED <<os, locals, buffer, sb>>

\* The registration is withdrawn.  A sender whose time is not up tries again;
\* when it is up it writes what fits.
StreamWoken(t) ==
  LET c == sb[t]
      s == c.buffer
      left == [c EXCEPT !.ticks   = TicksLeftToWait(os, c.timeOut, @),
                        !.timeOut = TimeOutAfterCheck(os, @, c.ticks)]
  IN  /\ At(t, "streamWoken")
      /\ IF c.op = "receive"
           THEN /\ buffer' = [buffer EXCEPT ![s].waitingToReceive = NoTask]
                /\ Step(t, "receiveAgain", [c EXCEPT !.ticks = 0])
                /\ UNCHANGED os
           ELSE /\ buffer' = [buffer EXCEPT ![s].waitingToSend = NoTask]
                /\ os' = ClearDelayAborted(os)
                /\ Step(t, IF xTaskCheckForTimeOut(os, c.timeOut, c.ticks)
                             THEN "sendWrite" ELSE "sendTry", left)
      /\ UNCHANGED <<locals, wait>>

\* A handler wakes the task that waits for data or for space.
xStreamBufferSendCompletedFromISR(s) ==
  LET x == buffer[s].waitingToReceive
  IN  /\ InterruptsEnabled
      /\ x # NoTask
      /\ buffer' = [buffer EXCEPT ![s].waitingToReceive = NoTask]
      /\ \E yields \in {FALSE, WakesHigherFromISR(x)} :
           os' = YieldIf(NotifyWaitingFromISR(os, x), yields)
      /\ UNCHANGED <<pc, locals, wait, sb>>

xStreamBufferReceiveCompletedFromISR(s) ==
  LET x == buffer[s].waitingToSend
  IN  /\ InterruptsEnabled
      /\ x # NoTask
      /\ buffer' = [buffer EXCEPT ![s].waitingToSend = NoTask]
      /\ \E yields \in {FALSE, WakesHigherFromISR(x)} :
           os' = YieldIf(NotifyWaitingFromISR(os, x), yields)
      /\ UNCHANGED <<pc, locals, wait, sb>>
-----------------------------------------------------------------------------
(* Resetting a buffer and setting its trigger level, while nobody else uses *)
(* it.                                                                     *)

Unused(s) == \A t \in Tasks : sb[t].buffer # s

xStreamBufferReset(t, s) ==
  /\ At(t, "app") /\ t # Idle /\ Unused(s)
  /\ buffer[s].waitingToReceive = NoTask /\ buffer[s].waitingToSend = NoTask
  /\ buffer' = [buffer EXCEPT ![s] =
                  prvInitialiseNewStreamBuffer(s, buffer[s].trigger)]
  /\ UNCHANGED <<os, pc, locals, wait, sb>>

xStreamBufferResetFromISR(s) ==
  /\ InterruptsEnabled /\ Unused(s)
  /\ buffer[s].waitingToReceive = NoTask /\ buffer[s].waitingToSend = NoTask
  /\ buffer' = [buffer EXCEPT ![s] =
                  prvInitialiseNewStreamBuffer(s, buffer[s].trigger)]
  /\ UNCHANGED <<os, pc, locals, wait, sb>>

xStreamBufferSetTriggerLevel(t, s, level) ==
  /\ At(t, "app") /\ t # Idle /\ Unused(s)
  /\ level < xLength(s)
  /\ buffer' = [buffer EXCEPT ![s].trigger = level]
  /\ UNCHANGED <<os, pc, locals, wait, sb>>
-----------------------------------------------------------------------------
(* The specification.                                                      *)

StreamContinue(t) ==
  \/ StreamWaits(t) \/ StreamWoken(t)
  \/ SendTries(t) \/ SendWrites(t) \/ SendPublishes(t) \/ SendChecksTrigger(t)
  \/ SendCompletes(t)
  \/ ReceiveChecksAgain(t) \/ ReceiveReads(t) \/ ReceivePublishes(t)
  \/ ReceiveCompletes(t)

StreamHandler(op, s, n, x) ==
  \/ op = "send" /\ xStreamBufferSendFromISR(s, n, x)
  \/ op = "receive" /\ xStreamBufferReceiveFromISR(s, n)
  \/ op = "sendCompleted" /\ xStreamBufferSendCompletedFromISR(s)
  \/ op = "receiveCompleted" /\ xStreamBufferReceiveCompletedFromISR(s)
  \/ op = "reset" /\ xStreamBufferResetFromISR(s)

StreamNext ==
  \/ SchedulerNext /\ UNCHANGED <<wait, buffer, sb>>
  \/ NotifyNext /\ UNCHANGED <<buffer, sb>>
  \/ \E t \in Tasks : StreamContinue(t)
  \/ \E use \in SendUses :
       xStreamBufferSend(use[1], use[2], use[3], use[4], use[5])
  \/ \E use \in ReceiveUses :
       xStreamBufferReceive(use[1], use[2], use[3], use[4])
  \/ \E use \in StreamHandlerUses :
       StreamHandler(use[1], use[2], use[3], use[4])
  \/ \E use \in ManagerUses :
       IF use[3] = 0 THEN xStreamBufferReset(use[1], use[2])
                     ELSE xStreamBufferSetTriggerLevel(use[1], use[2], use[3])

StreamSpec == StreamInit /\ [][StreamNext]_svars
-----------------------------------------------------------------------------
(* Properties.                                                             *)

\* The bytes in a buffer, oldest first.
Raw(s) == prvReadBytesFromBuffer(buffer[s].slots, xLength(s), buffer[s].tail,
                                 InBuffer(s))

\* The messages from position i of bytes r on.
MessagesIn(r) ==
  LET f[i \in 1..(Len(r) + 1)] ==
        IF i > Len(r) THEN <<>>
        ELSE LET next == i + PrefixBytes + r[i]
             IN  IF r[i] \in 1..Len(r) /\ next <= Len(r) + 1
                   THEN <<SubSeq(r, i + PrefixBytes, next - 1)>> \o f[next]
                   ELSE <<NoByte>>
  IN  f[1]

\* What the consumer will get: bytes, or messages.
ContentsOf(s) == IF IsMessage(s) THEN MessagesIn(Raw(s)) ELSE Raw(s)

Stream == INSTANCE ByteStream WITH
            Streams  <- Buffers,
            Units    <- [s \in Buffers |-> IF IsMessage(s) THEN 1 ELSE Size[s]],
            contents <- [s \in Buffers |-> ContentsOf(s)]

\* A buffer is a stream: what is written is appended, what is read is removed from
\* the front, in the order it was written and, from a message buffer, one whole
\* message at a time, although neither side takes a lock.
ImplementsStream == Stream!Spec

\* A task receives exactly what leaves the buffer, although the copy and the move
\* of the tail are two steps and the producer writes between them.
ReceivedIsRemoved ==
  [][\A t \in Tasks :
       /\ pc[t] = "receivePublish" /\ pc'[t] = "receiveCompleted"
       => LET s == sb[t].buffer
              received == IF IsMessage(s) THEN <<sb[t].data>> ELSE sb[t].data
          IN  ContentsOf(s) = received \o ContentsOf(s)']_svars

\* The task is about to tell the other side.
AboutTo(s, locations) == \E t \in Tasks : sb[t].buffer = s /\ pc[t] \in locations

\* A task that waits in the call has registered, or has been taken and notified.
WaitersRegistered ==
  \A t \in Tasks :
    pc[t] \in {"notifyMark", "notifyBlock", "notifyYield"} /\ sb[t].op # "none" =>
      LET b == buffer[sb[t].buffer]
      IN  \/ t = IF sb[t].op = "send" THEN b.waitingToSend ELSE b.waitingToReceive
          \/ os.notifyState[t] = "received"

\* No wakeup is lost between the two sides: a task that has registered is waiting
\* for what is not there yet, or the other side is about to notify it.  The reader
\* of a batching buffer waits for more than the trigger level.
WaitersAreWoken ==
  /\ WaitersRegistered
  /\ \A s \in Buffers :
      LET receiver == buffer[s].waitingToReceive
          sender   == buffer[s].waitingToSend
      IN  /\ receiver # NoTask =>
               \/ InBuffer(s) < buffer[s].trigger
               \/ BufferKind[s] = "batching" /\ InBuffer(s) = buffer[s].trigger
               \/ AboutTo(s, {"sendTrigger", "sendCompleted"})
          /\ sender # NoTask =>
               \/ Space(s) < xRequiredSpace(s, sb[sender].length)
               \/ AboutTo(s, {"receiveCompleted"})
=============================================================================

------------------------------ MODULE Objects -------------------------------
(***************************************************************************)
(* Who answers for the memory of a kernel object: the wrappers of          *)
(* src/src/sync and the creating and deleting calls of the kernel, over an *)
(* allocator that keeps the promise of Allocator.  A value of a wrapper    *)
(* owns its object unless it was made from a handle; it is moved and lent  *)
(* as Rust allows, used up by into_raw and delete, and dropped by the last *)
(* of its users, a task, a callback of a timer or an interrupt handler.  A *)
(* call allocates and frees one block at a time, and timers are deleted by *)
(* the daemon.                                                             *)
(***************************************************************************)
EXTENDS Integers, FiniteSets, Sequences, SequencesExt, FiniteSetsExt, TLC

CONSTANTS
  Threads,         \* the tasks that create and delete
  Daemon, Idle,    \* of these, the timer daemon and the idle task
  Isr,             \* an interrupt handler as a user of values
  Values,          \* the values a program has at a time
  Memory,          \* the addresses of the blocks of the heap
  Statics,         \* the addresses of the control blocks of static objects
  Kinds,           \* the kinds of objects the program creates
  configTIMER_QUEUE_LENGTH,
  CallbacksRearm   \* whether callbacks start the timer they are called for

ASSUME ObjectsAssumption ==
  /\ {Daemon, Idle} \subseteq Threads /\ Isr \notin Threads
  /\ Kinds \subseteq {"queue", "mutex", "binary", "counting", "events", "stream",
                      "message", "timer", "task"}
  /\ Memory \subseteq Nat /\ Statics \subseteq Nat /\ Memory \cap Statics = {}
  /\ configTIMER_QUEUE_LENGTH \in Nat \ {0}
  /\ CallbacksRearm \in BOOLEAN

VARIABLES
  held,      \* the blocks that are allocated
  objects,   \* the kernel objects by address, with the blocks they are made of
  values,    \* the wrappers
  call,      \* what each task has begun
  raw,       \* the handles into_raw has returned and nobody has taken back
  commands,  \* the queue of the timer daemon
  ended,     \* the blocks of the tasks that have deleted themselves
  statics    \* the static control blocks not given out yet

objVars == <<held, objects, values, call, raw, commands, ended, statics>>

Nowhere == -1

NoValue == [kind |-> "none", handle |-> Nowhere, owns |-> FALSE, users |-> {}]

\* step tells what t goes on with, frees the blocks it has still to free, and
\* timer the one whose callback the daemon runs.
NoCall == [step |-> "none", value |-> Nowhere, blocks |-> <<>>, frees |-> <<>>,
           timer |-> Nowhere]

ObjectsInit ==
  /\ held = {} /\ objects = <<>>
  /\ values = [v \in Values |-> NoValue]
  /\ call = [t \in Threads |-> NoCall]
  /\ raw = {} /\ commands = <<>> /\ ended = {}
  /\ statics = Statics

\* A task is between two calls; the daemon is in a callback.
Runs(t) ==
  /\ t # Idle
  /\ call[t].step = "none" /\ call[t].frees = <<>>
  /\ t = Daemon => call[t].timer # Nowhere

SoleUser(v, t) == values[v].users = {t}

Including(a, o) ==
  [b \in DOMAIN objects \cup {a} |-> IF b = a THEN o ELSE objects[b]]

Without(a) == [b \in DOMAIN objects \ {a} |-> objects[b]]

-----------------------------------------------------------------------------
(* The wrappers.                                                           *)

\* How many blocks of the heap the kernel makes an object of, and of those that get
\* their storage from the caller.
xQueueGenericCreate               == 1
xQueueGenericCreateStatic         == 0
xEventGroupCreate                 == 1
xEventGroupCreateStatic           == 0
xStreamBufferGenericCreate        == 1
xStreamBufferGenericCreateStatic  == 0
xTimerCreate                      == 1
xTimerCreateStatic                == 0
xTaskCreate                       == 2
xTaskCreateStatic                 == 0

\* What new and new_static give: an object of so many blocks, in a value that tasks
\* may share or only move.
Gives(blocks, static, shared) ==
  [blocks |-> blocks, static |-> static, shared |-> shared]

QueueNew             == Gives(xQueueGenericCreate, xQueueGenericCreateStatic, TRUE)
MutexNew             == Gives(xQueueGenericCreate, xQueueGenericCreateStatic, TRUE)
BinarySemaphoreNew   == Gives(xQueueGenericCreate, xQueueGenericCreateStatic, TRUE)
CountingSemaphoreNew == Gives(xQueueGenericCreate, xQueueGenericCreateStatic, TRUE)
EventGroupNew        == Gives(xEventGroupCreate, xEventGroupCreateStatic, TRUE)
StreamBufferNew      == Gives(xStreamBufferGenericCreate,
                              xStreamBufferGenericCreateStatic, FALSE)
MessageBufferNew     == Gives(xStreamBufferGenericCreate,
                              xStreamBufferGenericCreateStatic, FALSE)
TimerNew             == Gives(xTimerCreate, xTimerCreateStatic, TRUE)
TaskSpawn            == Gives(xTaskCreate, xTaskCreateStatic, FALSE)

NewOf ==
  [queue    |-> QueueNew,           mutex    |-> MutexNew,
   binary   |-> BinarySemaphoreNew, counting |-> CountingSemaphoreNew,
   events   |-> EventGroupNew,      timer    |-> TimerNew,
   stream   |-> StreamBufferNew,    message  |-> MessageBufferNew,
   task     |-> TaskSpawn]

\* What becomes of the object when its owner goes out of scope: it is deleted by
\* the owner, by a command to the daemon, or not at all.
QueueDrop             == "deleted"
MutexDrop             == "deleted"
BinarySemaphoreDrop   == "deleted"
CountingSemaphoreDrop == "deleted"
EventGroupDrop        == "deleted"
StreamBufferDrop      == "kept"
MessageBufferDrop     == "kept"
TimerDrop             == "commanded"
TaskDrop              == "kept"

DropOf ==
  [queue    |-> QueueDrop,           mutex    |-> MutexDrop,
   binary   |-> BinarySemaphoreDrop, counting |-> CountingSemaphoreDrop,
   events   |-> EventGroupDrop,      timer    |-> TimerDrop,
   stream   |-> StreamBufferDrop,    message  |-> MessageBufferDrop,
   task     |-> TaskDrop]
-----------------------------------------------------------------------------
(* Creating.                                                               *)

Object(kind, blocks) == [kind |-> kind, blocks |-> blocks, active |-> FALSE]

Made(kind, a, t) == [kind |-> kind, handle |-> a, owns |-> TRUE, users |-> {t}]

\* pvPortMalloc, at the first free address.
Free == Memory \ held

Allocates == held' = IF Free = {} THEN held ELSE held \cup {Min(Free)}

\* The control block and the storage of its items are one block; without memory
\* there is no value.
New(t, v, kind) ==
  /\ Runs(t) /\ values[v] = NoValue /\ NewOf[kind].blocks = 1
  /\ Allocates
  /\ IF Free = {}
       THEN UNCHANGED <<objects, values>>
       ELSE LET o == Min(Free) IN
              /\ objects' = Including(o, Object(kind, <<o>>))
              /\ values' = [values EXCEPT ![v] = Made(kind, o, t)]
  /\ UNCHANGED <<call, raw, commands, ended, statics>>

\* Static storage is borrowed for ever.
NewStatic(t, v, kind, s) ==
  /\ Runs(t) /\ values[v] = NoValue /\ NewOf[kind].static = 0
  /\ s \in statics /\ statics' = statics \ {s}
  /\ objects' = Including(s, Object(kind, <<>>))
  /\ values' = [values EXCEPT ![v] = Made(kind, s, t)]
  /\ UNCHANGED <<held, call, raw, commands, ended>>

\* xTaskCreate allocates the stack, then the control block.
Spawn(t, v) ==
  /\ Runs(t) /\ values[v] = NoValue
  /\ "task" \in Kinds /\ NewOf["task"].blocks = 2
  /\ Allocates
  /\ IF Free = {}
       THEN UNCHANGED <<call, values>>
       ELSE LET o == Min(Free) IN
              /\ call' = [call EXCEPT ![t].step = "spawn", ![t].value = v,
                                      ![t].blocks = <<o>>]
              /\ values' = [values EXCEPT ![v].users = {t}]
  /\ UNCHANGED <<objects, raw, commands, ended, statics>>

\* Mutant: the stack is not freed when there is no memory for the control block.
SpawnForgets(c) == [c EXCEPT !.step = "none", !.value = Nowhere, !.blocks = <<>>]

SpawnFails(c) ==
  [c EXCEPT !.step = "none", !.value = Nowhere, !.blocks = <<>>, !.frees = c.blocks]

Spawned(t) ==
  LET v == call[t].value
  IN  /\ call[t].step = "spawn"
      /\ Allocates
      /\ IF Free = {}
           THEN /\ call' = [call EXCEPT ![t] = SpawnFails(@)]
                /\ values' = [values EXCEPT ![v] = NoValue]
                /\ UNCHANGED objects
           ELSE LET o == Min(Free) IN
                  /\ call' = [call EXCEPT ![t].step = "none", ![t].value = Nowhere,
                                          ![t].blocks = <<>>]
                  /\ objects' = Including(o, Object("task", Append(call[t].blocks, o)))
                  /\ values' = [values EXCEPT ![v] = Made("task", o, t)]
      /\ UNCHANGED <<raw, commands, ended, statics>>
-----------------------------------------------------------------------------
(* Lending and moving.                                                     *)

\* &T is Send if T is Sync.
Shares(t, v, u) ==
  /\ Runs(t) /\ t \in values[v].users /\ values[v].owns
  /\ NewOf[values[v].kind].shared /\ u # Idle
  /\ values' = [values EXCEPT ![v].users = @ \cup {u}]
  /\ UNCHANGED <<held, objects, call, raw, commands, ended, statics>>

Moves(t, v, u) ==
  /\ Runs(t) /\ SoleUser(v, t) /\ values[v].owns
  /\ u # Idle
  /\ values' = [values EXCEPT ![v].users = {u}]
  /\ UNCHANGED <<held, objects, call, raw, commands, ended, statics>>
-----------------------------------------------------------------------------
(* Dropping and deleting.                                                  *)

\* t begins to delete the object at a: it is gone, and its blocks are to be freed.
\* An object that is gone already is deleted again: its memory is not accounted
\* for.
Deletes(t, a, c) ==
  IF a \in DOMAIN objects
    THEN /\ objects' = Without(a)
         /\ call' = [call EXCEPT ![t] = [c EXCEPT !.frees = objects[a].blocks]]
    ELSE UNCHANGED objects /\ call' = [call EXCEPT ![t] = c]

HasRoom == Len(commands) < configTIMER_QUEUE_LENGTH

Command(name, a) == [name |-> name, timer |-> a]

\* Mutant: whoever drops a value forgets its object.
Forgets(t, v) ==
  /\ values' = [values EXCEPT ![v] = NoValue]
  /\ call' = [call EXCEPT ![t].step = "none", ![t].value = Nowhere]
  /\ UNCHANGED <<held, objects, raw, commands, ended, statics>>

\* The drop at the end of the scope of v, or of a call that used v up.  A timer
\* whose deletion the queue has no room for is never deleted.
Drop(t, v) ==
  LET x == values[v]
      c == [call[t] EXCEPT !.step = "none", !.value = Nowhere]
  IN  /\ values' = [values EXCEPT ![v] = NoValue]
      /\ CASE ~x.owns \/ DropOf[x.kind] = "kept" ->
                /\ call' = [call EXCEPT ![t] = c]
                /\ UNCHANGED <<objects, commands>>
           [] x.owns /\ DropOf[x.kind] = "commanded" ->
                /\ call' = [call EXCEPT ![t] = c]
                /\ commands' = IF HasRoom THEN Append(commands, Command("delete", x.handle))
                                          ELSE commands
                /\ UNCHANGED objects
           [] OTHER -> Deletes(t, x.handle, c) /\ UNCHANGED commands
      /\ UNCHANGED <<held, raw, ended, statics>>

Ends(t, v) ==
  /\ Runs(t) /\ t \in values[v].users
  /\ IF SoleUser(v, t)
       THEN Drop(t, v)
       ELSE /\ values' = [values EXCEPT ![v].users = @ \ {t}]
            /\ UNCHANGED <<held, objects, call, raw, commands, ended, statics>>

\* In an interrupt an object is not deleted but lost.
EndsInIsr(v) ==
  /\ Isr \in values[v].users
  /\ values' = [values EXCEPT ![v] = IF SoleUser(v, Isr) THEN NoValue
                                     ELSE [values[v] EXCEPT !.users = @ \ {Isr}]]
  /\ UNCHANGED <<held, objects, call, raw, commands, ended, statics>>

\* The value is dropped at the end of into_raw and delete.
Consumed(t, v) == [call[t] EXCEPT !.step = "drop", !.value = v]

Dropped(t) == call[t].step = "drop" /\ call[t].frees = <<>>
              /\ Drop(t, call[t].value)

\* Mutant: owns_handle stays set.
Kept(x) == x

Disowned(x) == [x EXCEPT !.owns = FALSE]

into_raw(t, v) ==
  /\ Runs(t) /\ SoleUser(v, t) /\ values[v].owns
  /\ values[v].kind \notin {"stream", "message"}
  /\ raw' = raw \cup {values[v].handle}
  /\ IF values[v].kind = "task"
       THEN values' = [values EXCEPT ![v] = NoValue] /\ UNCHANGED call
       ELSE /\ values' = [values EXCEPT ![v] = Disowned(@)]
            /\ call' = [call EXCEPT ![t] = Consumed(t, v)]
  /\ UNCHANGED <<held, objects, commands, ended, statics>>

\* Who deletes by a handle of into_raw does it once.
RawDelete(t, a) ==
  /\ Runs(t) /\ a \in raw /\ objects[a].kind \notin {"timer", "task"}
  /\ raw' = raw \ {a}
  /\ Deletes(t, a, call[t])
  /\ UNCHANGED <<held, values, commands, ended, statics>>

from_raw_owned(t, v, a) ==
  /\ Runs(t) /\ a \in raw /\ objects[a].kind = "task" /\ values[v] = NoValue
  /\ raw' = raw \ {a}
  /\ values' = [values EXCEPT ![v] = Made("task", a, t)]
  /\ UNCHANGED <<held, objects, call, commands, ended, statics>>

delete(t, v) ==
  LET x == values[v]
  IN  /\ Runs(t) /\ SoleUser(v, t) /\ x.owns /\ DropOf[x.kind] # "commanded"
      /\ IF DropOf[x.kind] = "kept"
           THEN /\ values' = [values EXCEPT ![v] = NoValue]
                /\ Deletes(t, x.handle, call[t])
           ELSE /\ values' = [values EXCEPT ![v] = Disowned(@)]
                /\ Deletes(t, x.handle, Consumed(t, v))
      /\ UNCHANGED <<held, raw, commands, ended, statics>>

\* The rest of a deletion: prvDeleteTCB frees the stack, then the control block.
Frees(t) ==
  /\ call[t].frees # <<>>
  /\ held' = held \ {Head(call[t].frees)}
  /\ call' = [call EXCEPT ![t].frees = Tail(@)]
  /\ UNCHANGED <<objects, values, raw, commands, ended, statics>>
-----------------------------------------------------------------------------
(* Timers.                                                                 *)

\* Mutant: the deletion is sent to the front of the queue.
DeleteTimerFirst(t, v) ==
  LET x == values[v]
  IN  /\ Runs(t) /\ SoleUser(v, t) /\ x.owns /\ x.kind = "timer"
      /\ HasRoom
      /\ commands' = <<Command("delete", x.handle)>> \o commands
      /\ values' = [values EXCEPT ![v] = Disowned(@)]
      /\ call' = [call EXCEPT ![t] = Consumed(t, v)]
      /\ UNCHANGED <<held, objects, raw, ended, statics>>

\* A full queue gives the value back.
DeleteTimer(t, v) ==
  LET x == values[v]
  IN  /\ Runs(t) /\ SoleUser(v, t) /\ x.owns /\ x.kind = "timer"
      /\ HasRoom
      /\ commands' = Append(commands, Command("delete", x.handle))
      /\ values' = [values EXCEPT ![v] = Disowned(@)]
      /\ call' = [call EXCEPT ![t] = Consumed(t, v)]
      /\ UNCHANGED <<held, objects, raw, ended, statics>>

\* xTimerDelete with a handle of into_raw.
RawDeleteTimer(t, a) ==
  /\ Runs(t) /\ a \in raw /\ objects[a].kind = "timer"
  /\ HasRoom
  /\ raw' = raw \ {a}
  /\ commands' = Append(commands, Command("delete", a))
  /\ UNCHANGED <<held, objects, values, call, ended, statics>>

\* By a task, a callback or a handler; start stands for the commands that leave
\* the timer active.
SendsCommand(v, name) ==
  /\ Isr \in values[v].users \/ \E t \in values[v].users \cap Threads : Runs(t)
  /\ values[v].kind = "timer" /\ values[v].owns
  /\ HasRoom
  /\ commands' = Append(commands, Command(name, values[v].handle))
  /\ UNCHANGED <<held, objects, values, call, raw, ended, statics>>

DaemonIsFree ==
  call[Daemon] = NoCall

\* prvProcessReceivedCommands, for one command.
prvProcessReceivedCommands ==
  /\ DaemonIsFree /\ commands # <<>>
  /\ commands' = Tail(commands)
  /\ LET a == Head(commands).timer
     IN  IF Head(commands).name = "delete"
           THEN Deletes(Daemon, a, NoCall)
           ELSE /\ IF a \in DOMAIN objects
                     THEN objects' = [objects EXCEPT ![a].active =
                                        Head(commands).name = "start"]
                     ELSE UNCHANGED objects
                /\ UNCHANGED call
  /\ UNCHANGED <<held, values, raw, ended, statics>>

\* A timer expires: one that is not reloaded is inactive before the callback.
prvProcessExpiredTimer(a) ==
  /\ DaemonIsFree
  /\ objects[a].kind = "timer" /\ objects[a].active
  /\ \E reload \in BOOLEAN : objects' = [objects EXCEPT ![a].active = reload]
  /\ call' = [call EXCEPT ![Daemon].timer = a]
  /\ UNCHANGED <<held, values, raw, commands, ended, statics>>

\* The wrapper that a callback makes from its handle does not leave it.
from_raw(v) ==
  /\ Runs(Daemon) /\ values[v] = NoValue
  /\ values' = [values EXCEPT ![v] =
       Disowned(Made("timer", call[Daemon].timer, Daemon))]
  /\ UNCHANGED <<held, objects, call, raw, commands, ended, statics>>

Rearms(v) ==
  /\ CallbacksRearm
  /\ Runs(Daemon) /\ SoleUser(v, Daemon) /\ ~values[v].owns
  /\ HasRoom
  /\ commands' = Append(commands, Command("start", values[v].handle))
  /\ UNCHANGED <<held, objects, values, call, raw, ended, statics>>

CallbackReturns ==
  /\ Runs(Daemon)
  /\ \A v \in Values : Daemon \notin values[v].users
  /\ call' = [call EXCEPT ![Daemon].timer = Nowhere]
  /\ UNCHANGED <<held, objects, values, raw, commands, ended, statics>>
-----------------------------------------------------------------------------
(* Tasks that delete themselves.                                           *)

\* No TaskHandle survives delete_self.
delete_self(a) ==
  /\ objects[a].kind = "task" /\ a \notin raw
  /\ \A v \in Values : values[v].handle # a
  /\ objects' = Without(a)
  /\ ended' = ended \cup {objects[a].blocks}
  /\ UNCHANGED <<held, values, call, raw, commands, statics>>

prvCheckTasksWaitingTermination ==
  /\ call[Idle] = NoCall
  /\ \E blocks \in ended :
       /\ ended' = ended \ {blocks}
       /\ call' = [call EXCEPT ![Idle].frees = blocks]
  /\ UNCHANGED <<held, objects, values, raw, commands, statics>>
-----------------------------------------------------------------------------
(* The specification.                                                      *)

ObjectsNext ==
  \/ \E t \in Threads :
       \/ \E v \in Values :
            \/ \E kind \in Kinds :
                 New(t, v, kind) \/ \E s \in statics : NewStatic(t, v, kind, s)
            \/ Spawn(t, v)
            \/ \E u \in Threads \cup {Isr} : Shares(t, v, u) \/ Moves(t, v, u)
            \/ Ends(t, v) \/ into_raw(t, v) \/ delete(t, v) \/ DeleteTimer(t, v)
            \/ \E a \in raw : from_raw_owned(t, v, a)
       \/ \E a \in raw : RawDelete(t, a) \/ RawDeleteTimer(t, a)
       \/ Spawned(t) \/ Dropped(t) \/ Frees(t)
  \/ \E v \in Values :
       \/ EndsInIsr(v) \/ from_raw(v) \/ Rearms(v)
       \/ \E name \in {"start", "stop"} : SendsCommand(v, name)
  \/ prvProcessReceivedCommands
  \/ \E a \in DOMAIN objects : prvProcessExpiredTimer(a) \/ delete_self(a)
  \/ CallbackReturns
  \/ prvCheckTasksWaitingTermination

ObjectsSpec == ObjectsInit /\ [][ObjectsNext]_objVars
-----------------------------------------------------------------------------
(* Properties.                                                             *)

Commanded(a, name) ==
  \E i \in 1..Len(commands) : commands[i] = Command(name, a)

Owners(a) == {v \in Values : values[v].owns /\ values[v].handle = a}

\* A value that owns an object is the only one to own it, and the object is alive,
\* of its kind and not about to be deleted: whatever the wrappers moved, shared,
\* turned into handles and back, and however memory was given out again.  What
\* the callback of a timer is called for is alive as long as the callback runs.
OwnersAreAlive ==
  /\ \A v \in Values :
       LET a == values[v].handle
       IN  values[v].owns =>
             /\ a \in DOMAIN objects /\ objects[a].kind = values[v].kind
             /\ Owners(a) = {v}
             /\ a \notin raw /\ ~Commanded(a, "delete")
  /\ call[Daemon].timer # Nowhere => call[Daemon].timer \in DOMAIN objects

\* A command that the daemon will receive is for a timer that is alive: its
\* deletion is the last command that was sent for it.
CommandsReachTimers ==
  \A i \in 1..Len(commands) :
    LET a == commands[i].timer
    IN  /\ a \in DOMAIN objects /\ objects[a].kind = "timer"
        /\ commands[i].name = "delete" =>
             \A j \in (i + 1)..Len(commands) : commands[j].timer # a

\* What has blocks of the heap: objects, tasks that have deleted themselves, and the
\* calls that create a task or free what was deleted.
BlocksOf(h) ==
  CASE h[1] = "object"   -> objects[h[2]].blocks
    [] h[1] = "ended"    -> h[2]
    [] h[1] = "creating" -> call[h[2]].blocks
    [] h[1] = "freeing"  -> call[h[2]].frees

Holders ==
  {h \in ({"object"} \X DOMAIN objects) \cup ({"ended"} \X ended)
           \cup ({"creating", "freeing"} \X Threads) : BlocksOf(h) # <<>>}

\* Every block the heap has given out is part of one object, or of a task being
\* created or deleted, and of one only, once, and these have no other blocks: nothing
\* is leaked by a creation that fails half way or freed twice.
MemoryIsAccountedFor ==
  /\ \A h \in Holders : IsInjective(BlocksOf(h))
  /\ \A h, g \in Holders : h # g => ToSet(BlocksOf(h)) \cap ToSet(BlocksOf(g)) = {}
  /\ UNION {ToSet(BlocksOf(h)) : h \in Holders} = held

\* An object stops being owned without being deleted only where the program says
\* so, in an interrupt, or with no room for the command that deletes a timer.
LeaksAreDeliberate ==
  [][\A a \in DOMAIN objects \cap DOMAIN objects' :
       \A v \in Owners(a) :
         Owners(a)' = {} =>
           \/ a \in raw'
           \/ Commanded(a, "delete")'
           \/ SoleUser(v, Isr)
           \/ objects[a].kind \in {"stream", "message", "task"}
           \/ objects[a].kind = "timer" /\ ~HasRoom]_objVars
=============================================================================

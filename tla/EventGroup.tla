----------------------------- MODULE EventGroup -----------------------------
(***************************************************************************)
(* The event groups of src/src/kernel/event_groups.rs: tasks set and clear *)
(* bits of a group and wait for any or all of some of them.                *)
(*                                                                         *)
(* Every task level operation works with the scheduler suspended, which    *)
(* other tasks cannot tell from one step; handlers do not touch a group.   *)
(***************************************************************************)
EXTENDS Scheduler, Waiting

CONSTANTS
  EventGroups,
  NoGroup,       \* the null handle
  EventBits,     \* the bits a group has
  WaitList,      \* the event list xTasksWaitingForBits of each group
  GroupUses      \* the <<task, operation, group, bits to set or clear,
                 \* bits to wait for, clear on exit, wait for all, ticks>>

ASSUME EventGroupAssumption ==
  /\ NoGroup \notin EventGroups
  /\ WaitList \in [EventGroups -> EventLists]
  /\ \A g, h \in EventGroups : g # h => WaitList[g] # WaitList[h]
  /\ \A use \in GroupUses :
       use[1] \in Tasks /\ use[3] \in EventGroups /\ use[8] \in Ticks

VARIABLES
  bits,      \* uxEventBits of each group
  alive,     \* whether the group has not been deleted
  item,      \* the value of each task's event list item
  waiting    \* the group each task waits for inside a call

egvars == <<bits, alive, item, waiting>>

\* The item says what is waited for and then what released the task.
NoItemValue == [bits |-> {}, clear |-> FALSE, all |-> FALSE, unblocked |-> FALSE]

\* eventUNBLOCKED_DUE_TO_BIT_SET with the bits at that time.
UnblockedWith(current) ==
  [NoItemValue EXCEPT !.bits = current, !.unblocked = TRUE]

\* A call in progress: the group and the condition.
NoGroupCall == [group |-> NoGroup, bits |-> {}, clear |-> FALSE, all |-> FALSE]

EventGroupInit ==
  /\ bits = [g \in EventGroups |-> {}]
  /\ alive = [g \in EventGroups |-> TRUE]
  /\ item = [t \in Tasks |-> NoItemValue]
  /\ waiting = [t \in Tasks |-> NoGroupCall]

prvTestWaitCondition(w, current) ==
  IF w.all THEN w.bits \subseteq current ELSE w.bits \cap current # {}

\* A task in application code uses a group that exists; it waits only with the
\* scheduler running.
MayUseGroup(t, g, n) ==
  /\ At(t, "app") /\ t # Idle
  /\ alive[g]
  /\ n # 0 => os.suspended = 0

LeaveGroup(t) == waiting' = [waiting EXCEPT ![t] = NoGroupCall]

ReturnFromGroup(t) == LeaveGroup(t) /\ Goto(t, "app")
-----------------------------------------------------------------------------
(* Setting and clearing bits.                                              *)

GroupWaiters(k, g) == k.lists[WaitList[g]].items

\* The loop over the list of a group, which releases the tasks of who in it.
ReleaseFrom(k, g, who) ==
  LET s == GroupWaiters(k, g)
      after[i \in 0..Len(s)] ==
        IF i = 0 THEN k
        ELSE IF s[i] \in who
          THEN xTaskRemoveFromUnorderedEventList(after[i - 1], s[i])
          ELSE after[i - 1]
  IN  after[Len(s)]

\* Mutants: the loop ends at the first match; bits are cleared in the loop.
FirstMatchOnly(k, g, current) ==
  LET s == SelectSeq(GroupWaiters(k, g),
                     LAMBDA t : prvTestWaitCondition(item[t], current))
  IN  IF s = <<>> THEN {} ELSE {Head(s)}

MatchedWhileClearing(k, g, current) ==
  LET step(acc, t) ==
        IF prvTestWaitCondition(item[t], acc.bits)
          THEN [bits |-> IF item[t].clear THEN acc.bits \ item[t].bits
                                          ELSE acc.bits,
                who  |-> acc.who \cup {t}]
          ELSE acc
  IN  FoldLeft(step, [bits |-> current, who |-> {}], GroupWaiters(k, g)).who

\* The waiters whose condition the bits meet.
Matched(k, g, current) ==
  {t \in ToSet(GroupWaiters(k, g)) : prvTestWaitCondition(item[t], current)}

\* The kernel, the bits and the items after xEventGroupSetBits, up to
\* xTaskResumeAll: what a released task clears is cleared when all are released.
SetBits(k, g, set) ==
  LET current == bits[g] \cup set
      matched == Matched(k, g, current)
      clears  == {t \in matched : item[t].clear}
  IN  [kernel |-> ReleaseFrom(k, g, matched),
       bits   |-> current \ UNION {item[t].bits : t \in clears},
       items  |-> [t \in Tasks |-> IF t \in matched
                                     THEN UnblockedWith(current) ELSE item[t]]]

xEventGroupSetBits(t, g, set) ==
  LET s == SetBits(vTaskSuspendAll(os), g, set)
  IN  /\ MayUseGroup(t, g, 0)
      /\ os' = s.kernel
      /\ bits' = [bits EXCEPT ![g] = s.bits]
      /\ item' = s.items
      /\ Goto(t, "resumeThenReturn")
      /\ UNCHANGED <<locals, alive, waiting>>

xEventGroupClearBits(t, g, clear) ==
  /\ MayUseGroup(t, g, 0)
  /\ bits' = [bits EXCEPT ![g] = @ \ clear]
  /\ UNCHANGED <<os, pc, locals, alive, item, waiting>>
-----------------------------------------------------------------------------
(* Waiting.                                                                *)

\* The current task starts to wait.
PlaceOnGroup(t, k, g, w, n) ==
  /\ os' = vTaskPlaceOnUnorderedEventList(k, WaitList[g], n)
  /\ waiting' = [waiting EXCEPT ![t] =
                   [group |-> g, bits |-> w.bits, clear |-> w.clear,
                    all |-> w.all]]
  /\ Goto(t, "groupResume")

xEventGroupWaitBits(t, g, w, n) ==
  LET met == prvTestWaitCondition(w, bits[g])
  IN  /\ MayUseGroup(t, g, n)
      /\ IF met \/ n = 0
           THEN /\ os' = vTaskSuspendAll(os)
                /\ bits' = [bits EXCEPT ![g] =
                              IF met /\ w.clear THEN @ \ w.bits ELSE @]
                /\ Goto(t, "resumeThenReturn")
                /\ UNCHANGED <<item, waiting>>
           ELSE /\ PlaceOnGroup(t, vTaskSuspendAll(os), g, w, n)
                /\ item' = [item EXCEPT ![t] = w]
                /\ UNCHANGED bits
      /\ UNCHANGED <<locals, alive>>

\* The bits are set first, by a nested xEventGroupSetBits; bits that were set
\* before count even if a task released by it has cleared them.
xEventGroupSync(t, g, set, wanted, n) ==
  LET w == [wanted EXCEPT !.clear = TRUE, !.all = TRUE]
      s == SetBits(vTaskSuspendAll(os), g, set)
      met == w.bits \subseteq bits[g] \cup set
  IN  /\ MayUseGroup(t, g, n)
      /\ bits' = [bits EXCEPT ![g] = IF met THEN s.bits \ w.bits ELSE s.bits]
      /\ IF met \/ n = 0
           THEN /\ os' = s.kernel
                /\ item' = s.items
                /\ Goto(t, "resumeThenReturn")
                /\ UNCHANGED waiting
           ELSE /\ PlaceOnGroup(t, s.kernel, g, w, n)
                /\ item' = [s.items EXCEPT ![t] = w]
      /\ UNCHANGED <<locals, alive>>

GroupResumes(t) ==
  /\ At(t, "groupResume")
  /\ os' = xTaskResumeAll(os)
  /\ Goto(t, "groupYield")
  /\ UNCHANGED <<locals, egvars>>

GroupYields(t) ==
  /\ At(t, "groupYield")
  /\ os' = YieldIf([os EXCEPT !.yielded[t] = FALSE], ~os.yielded[t])
  /\ Goto(t, "groupWoken")
  /\ UNCHANGED <<locals, egvars>>

uxTaskResetEventItemValue(k) ==
  [k EXCEPT !.eventValue[k.current] = configMAX_PRIORITIES - k.prio[k.current]]

\* A task that no setting of bits has released looks at them once more.
GroupWoken(t) ==
  LET w == waiting[t]
      late == ~item[t].unblocked /\ prvTestWaitCondition(w, bits[w.group])
  IN  /\ At(t, "groupWoken")
      /\ os' = uxTaskResetEventItemValue(os)
      /\ item' = [item EXCEPT ![t] = NoItemValue]
      /\ bits' = IF late /\ w.clear
                   THEN [bits EXCEPT ![w.group] = @ \ w.bits]
                   ELSE bits
      /\ ReturnFromGroup(t)
      /\ UNCHANGED <<locals, alive>>
-----------------------------------------------------------------------------
(* Deleting a group.                                                       *)

\* A task inside a call that waits for bits of a group.
InGroupCall(u, g) ==
  waiting[u].group = g /\ pc[u] \in {"groupResume", "groupYield", "groupWoken"}

\* Mutant: the tasks are woken as if their time were over.
DeleteTimesOut(t, g) ==
  LET waiters == ToSet(GroupWaiters(os, g))
  IN  /\ MayUseGroup(t, g, 0)
      /\ \A u \in Tasks : InGroupCall(u, g) => u \in waiters
      /\ os' = ReleaseFrom(vTaskSuspendAll(os), g, waiters)
      /\ alive' = [alive EXCEPT ![g] = FALSE]
      /\ bits' = [bits EXCEPT ![g] = {}]
      /\ Goto(t, "resumeThenReturn")
      /\ UNCHANGED <<locals, item, waiting>>

\* The tasks that wait are released.  A group is deleted while no task is inside
\* a call on it, but for those that wait in its list.
vEventGroupDelete(t, g) ==
  LET waiters == ToSet(GroupWaiters(os, g))
  IN  /\ MayUseGroup(t, g, 0)
      /\ \A u \in Tasks : InGroupCall(u, g) => u \in waiters
      /\ os' = ReleaseFrom(vTaskSuspendAll(os), g, waiters)
      /\ item' = [u \in Tasks |-> IF u \in waiters
                                    THEN UnblockedWith({}) ELSE item[u]]
      /\ alive' = [alive EXCEPT ![g] = FALSE]
      /\ bits' = [bits EXCEPT ![g] = {}]
      /\ Goto(t, "resumeThenReturn")
      /\ UNCHANGED <<locals, waiting>>
-----------------------------------------------------------------------------
(* The steps, for the modules that compose this one.                       *)

EventGroupContinue(t) == GroupResumes(t) \/ GroupYields(t) \/ GroupWoken(t)

EventGroupCall(t, op, g, some, w, n) ==
  \/ op = "set" /\ xEventGroupSetBits(t, g, some)
  \/ op = "clear" /\ xEventGroupClearBits(t, g, some)
  \/ op = "wait" /\ xEventGroupWaitBits(t, g, w, n)
  \/ op = "sync" /\ xEventGroupSync(t, g, some, w, n)
  \/ op = "delete" /\ vEventGroupDelete(t, g)

\* What a task waits for.
Wanted(wanted, clear, all) ==
  [NoItemValue EXCEPT !.bits = wanted, !.clear = clear, !.all = all]

EventGroupNext ==
  \/ \E t \in Tasks : EventGroupContinue(t)
  \/ \E use \in GroupUses :
       EventGroupCall(use[1], use[2], use[3], use[4],
                      Wanted(use[5], use[6], use[7]), use[8])

\* Tasks that use event groups and the scheduler.
EventGroupsNext ==
  \/ SchedulerNext /\ UNCHANGED egvars
  \/ EventGroupNext

EventGroupSpec ==
  SchedulerInit /\ EventGroupInit /\ [][EventGroupsNext]_<<vars, egvars>>
-----------------------------------------------------------------------------
(* Properties.                                                             *)

InGroupList(k, t, g) == k.eventList[t] = WaitList[g]

\* No task waits for what is already there: bits that are set release every task
\* they satisfy, and a task looks at the bits before it waits.
WaitersUnsatisfied ==
  \A g \in EventGroups, t \in Tasks :
    InGroupList(os, t, g) => ~prvTestWaitCondition(item[t], bits[g])

\* Tasks are released together: one call that sets bits releases exactly the
\* tasks that the bits satisfy, although some of them clear bits that others
\* have waited for.
ReleasedTogether ==
  [][\A g \in EventGroups, t, u \in Tasks :
       /\ InGroupList(os, t, g) /\ InGroupList(os, u, g)
       /\ item'[t].unblocked /\ alive'[g]
       => /\ prvTestWaitCondition(item[t], item'[t].bits)
          /\ prvTestWaitCondition(item[u], item'[t].bits) => item'[u].unblocked
     ]_<<os, item, alive>>

\* A task that was waiting when its group was deleted does not look at it again.
DeletedNotRead ==
  \A t \in Tasks :
    /\ waiting[t].group # NoGroup /\ pc[t] = "groupWoken" /\ os.current = t
    /\ ~alive[waiting[t].group]
    => item[t].unblocked
=============================================================================

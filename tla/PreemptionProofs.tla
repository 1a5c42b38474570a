-------------------------- MODULE PreemptionProofs --------------------------
(***************************************************************************)
(* Which task runs: SchedulerSpec never fails an assertion, leaves nothing *)
(* pending and gives the processor to a ready task of the highest          *)
(* priority, and its delayed lists implement BlockingTime.                 *)
(***************************************************************************)
EXTENDS TimeProofs, FiniteSetTheorems

(***************************************************************************)
(* What the kernel functions do to the fields that decide which task runs. *)
(***************************************************************************)

\* Nothing changes but where the tasks are linked.
Settled(k, r) ==
  /\ SameControl(k, r) /\ SameFlags(k, r)
  /\ r.basePrio = k.basePrio /\ r.yielded = k.yielded

\* The tasks are linked as s and e say, and no assertion has failed.
Linking(k, r, s, e) ==
  /\ Good(r) /\ Settled(k, r) /\ r.fault = k.fault
  /\ r.stateList = s /\ r.eventList = e

LEMMA SettledTransitive ==
  ASSUME NEW k, NEW q, NEW r, Settled(k, q), Settled(q, r)
  PROVE  Settled(k, r)
BY DEF Settled, SameControl, SameFlags

LEMMA LinkingTransitive ==
  ASSUME NEW k, NEW q, NEW r, NEW s, NEW e, NEW s1, NEW e1,
         Linking(k, q, s, e), Linking(q, r, s1, e1)
  PROVE  Linking(k, r, s1, e1)
BY SettledTransitive DEF Linking

LEMMA RemoveStateLinking ==
  ASSUME NEW k, Good(k), NEW t \in Tasks, k.stateList[t] # NoList
  PROVE  Linking(k, RemoveState(k, t),
                 [k.stateList EXCEPT ![t] = NoList], k.eventList)
<1> DEFINE r == RemoveState(k, t)
<1>1. k \in Kernel
  BY DEF Good
<1>2. /\ Good(r) /\ Frame(k, r, t) /\ r.fault = k.fault
      /\ r.stateList = [k.stateList EXCEPT ![t] = NoList]
      /\ r.eventList = k.eventList
  BY RemoveStateGood, RemoveStateUnlinks
<1>3. PICK M : M = uxListRemove(k.lists[k.stateList[t]], t)
  OBVIOUS
<1>4. r = [k EXCEPT !.lists[k.stateList[t]] = M, !.stateList[t] = NoList,
                    !.wake[t] = 0]
  BY <1>3 DEF RemoveState
<1>5. r.basePrio = k.basePrio /\ r.yielded = k.yielded
  BY <1>1, <1>4 DEF Kernel
<1>6. QED BY <1>2, <1>5 DEF Linking, Settled, Frame

LEMMA RemoveEventLinking ==
  ASSUME NEW k, Good(k), NEW t \in Tasks
  PROVE  LET s == [k.eventList EXCEPT ![t] = NoList]
         IN  /\ Linking(k, RemoveEventIfLinked(k, t), k.stateList, s)
             /\ k.eventList[t] # NoList =>
                  Linking(k, RemoveEvent(k, t), k.stateList, s)
<1> DEFINE s == [k.eventList EXCEPT ![t] = NoList]
           r == RemoveEvent(k, t)
<1>1. k \in Kernel
  BY DEF Good
<1>2. xPendingReadyList \in ItemLists
  BY ListNames
<1>3. k.eventList[t] # NoList => Linking(k, r, k.stateList, s)
  <2> SUFFICES ASSUME k.eventList[t] # NoList PROVE Linking(k, r, k.stateList, s)
    OBVIOUS
  <2>1. /\ Good(r) /\ Frame(k, r, t) /\ r.fault = k.fault
        /\ r.stateList = k.stateList /\ r.eventList = s
    BY <1>2, RemoveEventGood, EventFrame
  <2>2. PICK M : M = uxListRemove(k.lists[k.eventList[t]], t)
    OBVIOUS
  <2>3. r = [k EXCEPT !.lists[k.eventList[t]] = M, !.eventList[t] = NoList]
    BY <2>2 DEF RemoveEvent
  <2>4. r.basePrio = k.basePrio /\ r.yielded = k.yielded
    BY <1>1, <2>3 DEF Kernel
  <2>5. QED BY <2>1, <2>4 DEF Linking, Settled, Frame
<1>4. k.eventList[t] = NoList => Linking(k, k, k.stateList, s)
  <2>1. k.eventList[t] = NoList => k.eventList = s
    BY <1>1 DEF Kernel
  <2>2. QED BY <2>1 DEF Linking, Settled, SameControl, SameFlags
<1>5. QED BY <1>3, <1>4 DEF RemoveEventIfLinked

LEMMA UnlinkLinking ==
  ASSUME NEW k, Good(k), NEW t \in Tasks, k.stateList[t] # NoList
  PROVE  Linking(k, RemoveEventIfLinked(RemoveState(k, t), t),
                 [k.stateList EXCEPT ![t] = NoList],
                 [k.eventList EXCEPT ![t] = NoList])
<1>1. PICK q : q = RemoveState(k, t)
  OBVIOUS
<1>2. Linking(k, q, [k.stateList EXCEPT ![t] = NoList], k.eventList)
  BY <1>1, RemoveStateLinking
<1>3. Linking(q, RemoveEventIfLinked(q, t), q.stateList,
              [q.eventList EXCEPT ![t] = NoList])
  BY <1>2, RemoveEventLinking DEF Linking
<1>4. Linking(k, RemoveEventIfLinked(q, t), q.stateList,
              [q.eventList EXCEPT ![t] = NoList])
  BY <1>2, <1>3, LinkingTransitive
<1>5. q.stateList = [k.stateList EXCEPT ![t] = NoList] /\ q.eventList = k.eventList
  BY <1>2 DEF Linking
<1>6. QED BY <1>1, <1>4, <1>5

LEMMA AppendStateLinking ==
  ASSUME NEW k, Good(k), NEW l \in StateLists, l \notin DelayedLists,
         NEW t \in Tasks, k.stateList[t] = NoList
  PROVE  Linking(k, AppendState(k, l, t), [k.stateList EXCEPT ![t] = l],
                 k.eventList)
<1> DEFINE r == AppendState(k, l, t)
<1>1. /\ Good(r) /\ Frame(k, r, t) /\ r.fault = k.fault
      /\ r.stateList = [k.stateList EXCEPT ![t] = l] /\ r.eventList = k.eventList
  BY AppendStateFrame, AppendStateGood DEF StateLinked
<1>2. PICK M : M = vListInsertEnd(k.lists[l], t)
  OBVIOUS
<1>3. r = [k EXCEPT !.lists[l] = M, !.stateList[t] = l]
  BY <1>2 DEF AppendState
<1>4. r.basePrio = k.basePrio /\ r.yielded = k.yielded
  BY <1>3 DEF Kernel, Good
<1>5. QED BY <1>1, <1>4 DEF Linking, Settled, Frame

LEMMA AppendEventLinking ==
  ASSUME NEW k, Good(k), NEW l \in ItemLists, NEW t \in Tasks,
         k.eventList[t] = NoList
  PROVE  Linking(k, AppendEvent(k, l, t), k.stateList,
                 [k.eventList EXCEPT ![t] = l])
<1> DEFINE r == AppendEvent(k, l, t)
<1>1. /\ Good(r) /\ Frame(k, r, t) /\ r.fault = k.fault
      /\ r.stateList = k.stateList /\ r.eventList = [k.eventList EXCEPT ![t] = l]
  BY EventFrame, AppendEventGood
<1>2. PICK M : M = vListInsertEnd(k.lists[l], t)
  OBVIOUS
<1>3. r = [k EXCEPT !.lists[l] = M, !.eventList[t] = l]
  BY <1>2 DEF AppendEvent
<1>4. r.basePrio = k.basePrio /\ r.yielded = k.yielded
  BY <1>3 DEF Kernel, Good
<1>5. QED BY <1>1, <1>4 DEF Linking, Settled, Frame

LEMMA ReadyLinking ==
  ASSUME NEW k, Good(k), NEW t \in Tasks, k.stateList[t] = NoList
  PROVE  Linking(k, prvAddTaskToReadyList(k, t),
                 [k.stateList EXCEPT ![t] = k.prio[t]], k.eventList)
<1> DEFINE r == prvAddTaskToReadyList(k, t)
<1>1. /\ Good(r) /\ Frame(k, r, t) /\ r.fault = k.fault
      /\ r.stateList = [k.stateList EXCEPT ![t] = k.prio[t]]
      /\ r.eventList = k.eventList
  BY ReadyFrame, ReadyGood
<1>2. PICK M : M = vListInsertEnd(k.lists[k.prio[t]], t)
  OBVIOUS
<1>3. PICK top : top = IF k.prio[t] > k.topReady THEN k.prio[t] ELSE k.topReady
  OBVIOUS
<1>4. r = [k EXCEPT !.lists[k.prio[t]] = M, !.stateList[t] = k.prio[t],
                    !.topReady = top]
  BY <1>2, <1>3 DEF prvAddTaskToReadyList, AppendState, Good, Kernel
<1>5. r.basePrio = k.basePrio /\ r.yielded = k.yielded
  BY <1>4 DEF Kernel, Good
<1>6. QED BY <1>1, <1>5 DEF Linking, Settled, Frame

LEMMA MoveToReadyLinking ==
  ASSUME NEW k, Good(k), NEW t \in Tasks, k.stateList[t] # NoList
  PROVE  Linking(k, prvAddTaskToReadyList(RemoveState(k, t), t),
                 [k.stateList EXCEPT ![t] = k.prio[t]], k.eventList)
<1>1. PICK q : q = RemoveState(k, t)
  OBVIOUS
<1>2. Linking(k, q, [k.stateList EXCEPT ![t] = NoList], k.eventList)
  BY <1>1, RemoveStateLinking
<1>3. /\ Good(q) /\ q.prio = k.prio /\ q.eventList = k.eventList
      /\ q.stateList = [k.stateList EXCEPT ![t] = NoList]
      /\ k.stateList \in [Tasks -> StateLists \cup {NoList}]
  BY <1>2 DEF Linking, Settled, SameControl, Good, Kernel
<1>4. /\ q.stateList[t] = NoList
      /\ [q.stateList EXCEPT ![t] = k.prio[t]] = [k.stateList EXCEPT ![t] = k.prio[t]]
  BY <1>3
<1>5. Linking(q, prvAddTaskToReadyList(q, t), [q.stateList EXCEPT ![t] = q.prio[t]],
              q.eventList)
  BY <1>3, <1>4, ReadyLinking
<1>6. Linking(k, prvAddTaskToReadyList(q, t), [q.stateList EXCEPT ![t] = q.prio[t]],
              q.eventList)
  BY <1>2, <1>5, LinkingTransitive
<1>7. QED BY <1>1, <1>3, <1>4, <1>6

\* A reason to switch is remembered until the switch.
Noted(k) == k.pendSV \/ k.yieldPending \/ k.switchReq

\* The tasks stay where they are.
Still(k, r) ==
  /\ r.stateList = k.stateList /\ r.eventList = k.eventList
  /\ r.prio = k.prio /\ r.basePrio = k.basePrio
  /\ r.running = k.running /\ r.numTasks = k.numTasks

SameProcessor(k, r) ==
  /\ r.current = k.current /\ r.suspended = k.suspended
  /\ r.yielded = k.yielded

\* Nothing but the flags changes, and none is lost.
Flagged(k, r) ==
  /\ Still(k, r) /\ SameProcessor(k, r)
  /\ r.stage = k.stage /\ r.pendedTicks = k.pendedTicks /\ r.fault = k.fault
  /\ Noted(k) => Noted(r)
  /\ k.pendSV => r.pendSV
  /\ r.switchReq = k.switchReq

LEMMA YieldFlagged ==
  ASSUME NEW k \in Kernel, NEW c \in BOOLEAN
  PROVE  /\ Flagged(k, YieldIf(k, c)) /\ (c => YieldIf(k, c).pendSV)
         /\ Flagged(k, portYIELD(k)) /\ portYIELD(k).pendSV
         /\ Flagged(k, PendYieldIf(k, c)) /\ (c => PendYieldIf(k, c).yieldPending)
         /\ YieldIf(k, c).moved = k.moved /\ PendYieldIf(k, c).moved = k.moved
<1>1. Flagged(k, k)
  BY DEF Flagged, Still, SameProcessor
<1>2. /\ Flagged(k, portYIELD(k)) /\ portYIELD(k).pendSV
      /\ portYIELD(k).moved = k.moved
  BY DEF Kernel, portYIELD, Flagged, Still, SameProcessor, Noted
<1>3. /\ Flagged(k, YieldIf(k, c)) /\ (c => YieldIf(k, c).pendSV)
      /\ YieldIf(k, c).moved = k.moved
  BY <1>1, <1>2 DEF YieldIf
<1>4. Flagged(k, PendYieldIf(k, c)) /\ (c => PendYieldIf(k, c).yieldPending)
      /\ PendYieldIf(k, c).moved = k.moved
  <2>1. PICK y : y = (k.yieldPending \/ c)
    OBVIOUS
  <2>2. PendYieldIf(k, c) = [k EXCEPT !.yieldPending = y]
    BY <2>1 DEF PendYieldIf, Kernel
  <2>3. k.yieldPending \/ c => y
    BY <2>1
  <2>4. QED BY <2>2, <2>3 DEF Kernel, Flagged, Still, SameProcessor, Noted
<1>5. QED BY <1>2, <1>3, <1>4

LEMMA SuspendAllFields ==
  ASSUME NEW k \in Kernel
  PROVE  LET r == vTaskSuspendAll(k)
         IN  /\ Still(k, r) /\ r.current = k.current /\ r.yielded = k.yielded
             /\ r.suspended = k.suspended + 1
             /\ r.stage = k.stage /\ r.pendedTicks = k.pendedTicks
             /\ r.pendSV = k.pendSV /\ r.switchReq = k.switchReq
             /\ r.yieldPending = k.yieldPending /\ r.fault = k.fault
BY DEF vTaskSuspendAll, Kernel, Still

LEMMA ResumeAllFields ==
  ASSUME NEW k \in Kernel, k.suspended > 0
  PROVE  LET r == xTaskResumeAll(k)
         IN  /\ Still(k, r) /\ r.current = k.current
             /\ r.yielded = [k.yielded EXCEPT ![k.current] = FALSE]
             /\ r.suspended = k.suspended - 1
             /\ IF r.suspended = 0 /\ k.numTasks > 0
                  THEN r.stage = "drain" ELSE r.stage = k.stage
             /\ r.pendedTicks = k.pendedTicks
             /\ r.pendSV = k.pendSV /\ r.switchReq = k.switchReq
             /\ r.yieldPending = k.yieldPending /\ r.fault = k.fault
<1> DEFINE r == xTaskResumeAll(k)
<1>1. PICK q : q = [k EXCEPT !.suspended = k.suspended - 1,
                             !.yielded[k.current] = FALSE]
  OBVIOUS
<1>2. configASSERT(k, k.suspended > 0) = k
  BY DEF configASSERT, Kernel
<1>3. [configASSERT(k, k.suspended > 0) EXCEPT
         !.suspended = @ - 1, !.yielded[k.current] = FALSE] = q
  BY <1>1, <1>2 DEF Kernel
<1>4. r = IF q.suspended = 0 /\ q.numTasks > 0
            THEN [q EXCEPT !.stage = "drain", !.moved = FALSE] ELSE q
  BY <1>3, Zenon DEF xTaskResumeAll
<1>5. /\ Still(k, q) /\ q.current = k.current
      /\ q.yielded = [k.yielded EXCEPT ![k.current] = FALSE]
      /\ q.suspended = k.suspended - 1 /\ q.stage = k.stage
      /\ q.pendedTicks = k.pendedTicks /\ q.numTasks = k.numTasks
      /\ q.pendSV = k.pendSV /\ q.switchReq = k.switchReq
      /\ q.yieldPending = k.yieldPending /\ q.fault = k.fault
  BY <1>1 DEF Kernel, Still
<1> HIDE DEF r
<1>6. CASE ~(q.suspended = 0 /\ q.numTasks > 0)
  BY <1>4, <1>5, <1>6 DEF r
<1>7. CASE q.suspended = 0 /\ q.numTasks > 0
  <2>1. r = [k EXCEPT !.suspended = k.suspended - 1,
                      !.yielded[k.current] = FALSE,
                      !.stage = "drain", !.moved = FALSE]
    BY <1>1, <1>4, <1>7
  <2>2. /\ Still(k, r) /\ r.current = k.current
        /\ r.yielded = [k.yielded EXCEPT ![k.current] = FALSE]
        /\ r.suspended = k.suspended - 1 /\ r.stage = "drain"
        /\ r.pendedTicks = k.pendedTicks
        /\ r.pendSV = k.pendSV /\ r.switchReq = k.switchReq
        /\ r.yieldPending = k.yieldPending /\ r.fault = k.fault
    BY <2>1 DEF Kernel, Still
  <2>3. QED BY <1>5, <1>7, <2>2 DEF r
<1>8. QED BY <1>6, <1>7

LEMMA ResetFlagged ==
  ASSUME NEW k \in Kernel
  PROVE  Flagged(k, prvResetNextTaskUnblockTime(k))
<1>1. PICK n : prvResetNextTaskUnblockTime(k) = [k EXCEPT !.nextUnblock = n]
  BY DEF prvResetNextTaskUnblockTime
<1>2. QED BY <1>1 DEF Kernel, Flagged, Still, SameProcessor, Noted

LEMMA EndPendingReadyFields ==
  ASSUME NEW k \in Kernel
  PROVE  LET r == EndPendingReady(k)
         IN  /\ Still(k, r) /\ SameProcessor(k, r)
             /\ r.stage = "ticks" /\ r.pendedTicks = k.pendedTicks
             /\ r.pendSV = k.pendSV /\ r.switchReq = k.switchReq
             /\ r.yieldPending = k.yieldPending /\ r.fault = k.fault
<1> DEFINE r == EndPendingReady(k)
<1>1. PICK n : prvResetNextTaskUnblockTime(k) = [k EXCEPT !.nextUnblock = n]
  BY DEF prvResetNextTaskUnblockTime
<1>2. \/ r = [k EXCEPT !.nextUnblock = n, !.stage = "ticks", !.moved = FALSE]
      \/ r = [k EXCEPT !.stage = "ticks", !.moved = FALSE]
  BY <1>1 DEF EndPendingReady
<1> HIDE DEF r
<1>3. CASE r = [k EXCEPT !.nextUnblock = n, !.stage = "ticks", !.moved = FALSE]
  BY <1>3 DEF Kernel, Still, SameProcessor, r
<1>4. CASE r = [k EXCEPT !.stage = "ticks", !.moved = FALSE]
  BY <1>4 DEF Kernel, Still, SameProcessor, r
<1>5. QED BY <1>2, <1>3, <1>4

LEMMA EndResumeAllFields ==
  ASSUME NEW k \in Kernel, k.current \in Tasks
  PROVE  LET r == EndResumeAll(k)
         IN  /\ Still(k, r) /\ r.current = k.current
             /\ r.suspended = k.suspended
             /\ r.stage = "run" /\ r.pendedTicks = k.pendedTicks
             /\ r.pendSV <=> k.pendSV \/ k.yieldPending
             /\ r.switchReq = k.switchReq /\ r.yieldPending = k.yieldPending
             /\ r.fault = k.fault
             /\ r.yielded[k.current] = k.yieldPending
<1> DEFINE r == EndResumeAll(k)
<1>1. PICK q : q = YieldIf(k, k.yieldPending)
  OBVIOUS
<1>2. /\ q \in Kernel /\ Still(k, q) /\ SameProcessor(k, q)
      /\ q.pendedTicks = k.pendedTicks /\ q.switchReq = k.switchReq
      /\ q.yieldPending = k.yieldPending /\ q.fault = k.fault
      /\ q.pendSV <=> k.pendSV \/ k.yieldPending
  <2>1. CASE k.yieldPending
    <3>1. q = [k EXCEPT !.pendSV = TRUE]
      BY <1>1, <2>1 DEF YieldIf, portYIELD
    <3>2. q \in Kernel
      BY <3>1, ZenonT(60) DEF Kernel
    <3>3. QED BY <2>1, <3>1, <3>2 DEF Kernel, Still, SameProcessor
  <2>2. CASE ~k.yieldPending
    BY <1>1, <2>2 DEF YieldIf, Still, SameProcessor
  <2>3. QED BY <2>1, <2>2
<1>3. r = [q EXCEPT !.stage = "run", !.yielded[k.current] = k.yieldPending]
  BY <1>1 DEF EndResumeAll
<1> HIDE DEF r
<1>4. /\ Still(q, r) /\ r.current = q.current /\ r.suspended = q.suspended
      /\ r.stage = "run" /\ r.pendedTicks = q.pendedTicks
      /\ r.pendSV = q.pendSV /\ r.switchReq = q.switchReq
      /\ r.yieldPending = q.yieldPending /\ r.fault = q.fault
      /\ r.yielded = [q.yielded EXCEPT ![k.current] = k.yieldPending]
  BY <1>2, <1>3 DEF Kernel, Still
<1>5. r.yielded[k.current] = k.yieldPending
  BY <1>2, <1>4 DEF Kernel
<1>6. QED BY <1>2, <1>4, <1>5 DEF Still, SameProcessor, r

\* The search of a context switch ends at a ready list that is not empty.
LEMMA TopPriorityExists ==
  ASSUME NEW k, Sound(k), NEW t \in Tasks, k.stateList[t] \in Priorities
  PROVE  \E p \in Priorities : IsTopPriority(k, p)
<1> DEFINE p0 == k.stateList[t]
           D(p) == p \in Priorities /\ p <= k.topReady /\ ~IsEmpty(k, p)
           T == {n \in Nat : \E p \in Priorities : D(p) /\ n = k.topReady - p}
<1>1. k \in Kernel /\ Consistent(k) /\ Orderly(k)
  BY DEF Sound, Good
<1>2. k.topReady \in Nat /\ \A p \in Priorities : p \in Nat
  BY <1>1, TasksAssumption DEF Kernel, Priorities
<1>3. D(p0)
  <2>1. t \in ItemsOf(k, p0)
    BY <1>1, ListNames DEF Consistent
  <2>2. ~IsEmpty(k, p0)
    BY <2>1 DEF ItemsOf, ToSet, IsEmpty, listLIST_IS_EMPTY
  <2>3. QED BY <1>1, <2>2 DEF Orderly
<1>4. k.topReady - p0 \in T
  BY <1>2, <1>3
<1> HIDE DEF p0
<1>5. PICK n \in T : \A m \in T : ~(<<m, n>> \in OpToRel(<, Nat))
  BY <1>4, NatLessThanWellFounded, WFMin, ZenonT(60)
<1>6. \A m \in T : ~(m < n)
  BY <1>5 DEF OpToRel
<1>7. PICK p \in Priorities : D(p) /\ n = k.topReady - p
  OBVIOUS
<1>8. ASSUME NEW q \in Priorities, p < q, q <= k.topReady, ~IsEmpty(k, q)
      PROVE  FALSE
  <2>1. k.topReady - q \in T
    BY <1>2, <1>8
  <2>2. k.topReady - q < n
    BY <1>2, <1>7, <1>8
  <2>3. QED BY <1>6, <2>1, <2>2
<1>9. QED BY <1>7, <1>8 DEF IsTopPriority

\* A context switch gives the processor to a ready task of the highest priority,
\* or is put off while the scheduler is suspended.
LEMMA SwitchContextFields ==
  ASSUME NEW k, Sound(k), k.current \in Tasks,
         NEW i \in Tasks, k.stateList[i] \in Priorities
  PROVE  LET r == vTaskSwitchContext(k)
         IN  /\ Still(k, r) /\ r.suspended = k.suspended /\ r.yielded = k.yielded
             /\ r.stage = k.stage /\ r.pendedTicks = k.pendedTicks
             /\ r.pendSV = k.pendSV /\ r.switchReq = k.switchReq
             /\ r.fault = k.fault
             /\ k.suspended # 0 => r.yieldPending /\ r.current = k.current
             /\ k.suspended = 0 =>
                  /\ r.current \in Tasks /\ k.stateList[r.current] \in Priorities
                  /\ \A t \in Tasks : IsReady(k, t) =>
                                        k.prio[t] <= k.prio[r.current]
<1> DEFINE r == vTaskSwitchContext(k)
<1>1. k \in Kernel /\ Consistent(k) /\ Orderly(k)
  BY DEF Sound, Good
<1>2. CASE k.suspended # 0
  <2>1. r = [k EXCEPT !.yieldPending = TRUE]
    BY <1>2 DEF vTaskSwitchContext
  <2>2. QED BY <1>1, <1>2, <2>1 DEF Kernel, Still
<1>3. CASE k.suspended = 0
  <2>1. PICK y : y = [k EXCEPT !.yieldPending = FALSE]
    OBVIOUS
  <2>2. y \in Kernel /\ SameLinks(k, y) /\ y.prio = k.prio
    BY <1>1, <2>1, ZenonT(60) DEF Kernel, SameLinks
  <2>3. Sound(y)
    BY <2>2, SameLinksSound
  <2>4. r = taskSELECT_HIGHEST_PRIORITY_TASK(y)
    BY <1>3, <2>1 DEF vTaskSwitchContext
  <2>5. \E p \in Priorities : IsTopPriority(y, p)
    BY <2>2, <2>3, TopPriorityExists DEF SameLinks
  <2>6. PICK p \in Priorities :
          IsTopPriority(y, p) /\ p = CHOOSE q \in Priorities : IsTopPriority(y, q)
    BY <2>5
  <2>7. PICK L : L = listNEXT_ENTRY(y.lists[p])
    OBVIOUS
  <2>8. r = [y EXCEPT !.lists[p] = L, !.current = L.items[L.idx], !.topReady = p]
    BY <2>4, <2>5, <2>6, <2>7 DEF taskSELECT_HIGHEST_PRIORITY_TASK
  <2>9. L.items[L.idx] \in ItemsOf(y, p) /\ L.items[L.idx] \in Tasks
    <3>1. p \in Lists /\ y.lists[p] \in ListOf(Tasks) /\ y.lists[p].items # << >>
      BY <2>2, <2>6, ListNames
         DEF Kernel, Lists, IsTopPriority, IsEmpty, listLIST_IS_EMPTY
    <3>2. /\ L.items = y.lists[p].items
          /\ y.lists[p].items[L.idx] \in ToSet(y.lists[p].items)
          /\ y.lists[p].items[L.idx] \in Tasks
      BY <2>7, <3>1, NextEntryIsItem
    <3>3. QED BY <3>2 DEF ItemsOf
  <2> HIDE DEF r
  <2>10. /\ Still(y, r) /\ r.suspended = y.suspended /\ r.yielded = y.yielded
         /\ r.stage = y.stage /\ r.pendedTicks = y.pendedTicks
         /\ r.pendSV = y.pendSV /\ r.switchReq = y.switchReq /\ r.fault = y.fault
         /\ r.current = L.items[L.idx]
    BY <2>2, <2>8 DEF Kernel, Still
  <2>11. /\ Still(k, y) /\ y.suspended = k.suspended /\ y.yielded = k.yielded
         /\ y.stage = k.stage /\ y.pendedTicks = k.pendedTicks
         /\ y.pendSV = k.pendSV /\ y.switchReq = k.switchReq /\ y.fault = k.fault
    BY <1>1, <2>1 DEF Kernel, Still
  <2>12. r.current \in Tasks /\ k.stateList[r.current] = p
    <3>1. y.stateList[r.current] = p
      BY <2>3, <2>6, <2>9, <2>10, ListNames DEF Sound, Good, Consistent
    <3>2. QED BY <2>9, <2>10, <2>11, <3>1 DEF Still
  <2>13. k.prio[r.current] = p
    BY <1>1, <2>6, <2>12 DEF Orderly
  <2>14. ASSUME NEW t \in Tasks, IsReady(k, t)
         PROVE  k.prio[t] <= p
    <3>1. k.stateList[t] \in Priorities /\ k.stateList[t] = k.prio[t]
          /\ k.stateList[t] <= k.topReady
      BY <1>1, <2>14 DEF Orderly, IsReady, Kernel
    <3>2. t \in ItemsOf(k, k.stateList[t])
      BY <1>1, <3>1, ListNames DEF Consistent
    <3>3. ~IsEmpty(y, k.stateList[t]) /\ k.stateList[t] <= y.topReady
      BY <2>2, <3>1, <3>2 DEF SameLinks, ItemsOf, ToSet, IsEmpty, listLIST_IS_EMPTY
    <3>4. ~(p < k.stateList[t])
      BY <2>6, <3>1, <3>3 DEF IsTopPriority
    <3>5. p \in Int /\ k.stateList[t] \in Int
      BY <3>1, TasksAssumption DEF Priorities
    <3>6. QED BY <3>1, <3>4, <3>5
  <2>15. QED BY <1>3, <2>6, <2>10, <2>11, <2>12, <2>13, <2>14 DEF Still, r
<1>4. QED BY <1>2, <1>3

\* The current task that blocks leaves its ready list.
LEMMA DelaySettled ==
  ASSUME NEW k, Sound(k), k.current \in Tasks, k.stateList[k.current] # NoList,
         NEW n \in Ticks
  PROVE  LET r == prvAddCurrentTaskToDelayedList(k, n, FALSE)
         IN  /\ Settled(k, r) /\ r.eventList = k.eventList
             /\ r.stateList[k.current] \notin Priorities
             /\ r.stateList[k.current] # NoList
             /\ r.stateList[k.current] # xTasksWaitingTermination
             /\ \A u \in Tasks \ {k.current} : r.stateList[u] = k.stateList[u]
<1> DEFINE t == k.current
           r == prvAddCurrentTaskToDelayedList(k, n, FALSE)
<1>1. /\ k \in Kernel /\ k.tick \in Ticks /\ k.delayed \in DelayedLists
      /\ pxOverflowDelayedTaskList(k) \in DelayedLists
  BY TwoDelayedLists DEF Sound, Good, Kernel
<1>2. /\ SameControl(k, r) /\ r.eventList = k.eventList
      /\ r.stateList[t] \in {xSuspendedTaskList, xDelayedTaskList1,
                             xDelayedTaskList2}
      /\ \A u \in Tasks \ {t} : r.stateList[u] = k.stateList[u]
  BY DelayCurrentSound
<1>3. PICK q : q = [k EXCEPT !.delayAborted[t] = FALSE]
  OBVIOUS
<1>4. /\ q \in Kernel /\ SameLinks(k, q) /\ SameFlags(k, q)
      /\ q.basePrio = k.basePrio /\ q.yielded = k.yielded
  BY <1>1, <1>3 DEF Kernel, SameLinks, SameFlags
<1>5. Good(q) /\ q.stateList[t] # NoList
  BY <1>4, SameLinksConsistent DEF Good, SameLinks, Sound
<1>6. PICK k1 : k1 = RemoveState(q, t)
  OBVIOUS
<1>7. k1 \in Kernel /\ SameFlags(q, k1) /\ k1.basePrio = q.basePrio
      /\ k1.yielded = q.yielded
  BY <1>5, <1>6, RemoveStateLinking DEF Linking, Settled, Good
<1>8. PICK w \in Ticks : w = WrappingAdd(k.tick, n)
  BY <1>1, WrappingAddTicks
<1>9. PICK k2 : k2 = [k1 EXCEPT !.wake[t] = w]
  OBVIOUS
<1>10. PICK l \in DelayedLists :
         l = IF w < k.tick THEN pxOverflowDelayedTaskList(k) ELSE k.delayed
  BY <1>1
<1>11. PICK M : M = vListInsert(k2.lists[l], t, k2.wake, portMAX_DELAY)
  OBVIOUS
<1>12. PICK b : b = IF w < k2.nextUnblock THEN w ELSE k2.nextUnblock
  OBVIOUS
<1>13. InsertState(k2, l, t) = [k2 EXCEPT !.lists[l] = M, !.stateList[t] = l]
  BY <1>11 DEF InsertState
<1>14. \/ r = [k2 EXCEPT !.lists[l] = M, !.stateList[t] = l]
       \/ r = [InsertState(k2, l, t) EXCEPT !.nextUnblock = IF w < @ THEN w ELSE @]
  BY <1>3, <1>6, <1>8, <1>9, <1>10, <1>13 DEF prvAddCurrentTaskToDelayedList
<1> HIDE DEF r
<1>15. k2 \in Kernel /\ SameFlags(k1, k2) /\ k2.basePrio = k1.basePrio
       /\ k2.yielded = k1.yielded
  <2>1. k2 \in Kernel
    BY <1>7, <1>9, ZenonT(60) DEF Kernel
  <2>2. QED BY <1>7, <1>9, <2>1 DEF Kernel, SameFlags
<1>16. /\ SameFlags(k2, r) /\ r.basePrio = k2.basePrio /\ r.yielded = k2.yielded
  <2>1. CASE r = [k2 EXCEPT !.lists[l] = M, !.stateList[t] = l]
    BY <1>15, <2>1 DEF Kernel, SameFlags
  <2>2. CASE r = [InsertState(k2, l, t) EXCEPT
                    !.nextUnblock = IF w < @ THEN w ELSE @]
    <3>1. r = [k2 EXCEPT !.lists[l] = M, !.stateList[t] = l, !.nextUnblock = b]
      BY <1>12, <1>13, <1>15, <2>2 DEF Kernel
    <3>2. QED BY <1>15, <3>1 DEF Kernel, SameFlags
  <2>3. QED BY <1>14, <2>1, <2>2
<1>17. Settled(k, r)
  BY <1>2, <1>4, <1>7, <1>15, <1>16 DEF Settled, SameFlags
<1>18. \A l0 \in {xSuspendedTaskList, xDelayedTaskList1, xDelayedTaskList2} :
         l0 \notin Priorities /\ l0 # NoList /\ l0 # xTasksWaitingTermination
  BY ListsDiffer, TasksAssumption
     DEF NoList, xSuspendedTaskList, xDelayedTaskList1, xDelayedTaskList2, Priorities
<1>19. QED BY <1>2, <1>17, <1>18 DEF r
-----------------------------------------------------------------------------
(* What the tick does to them.                                             *)

\* The processing of a tick has ended, called in stage st.
TickEnded(k, st, r) ==
  /\ Still(k, r) /\ SameProcessor(k, r) /\ ~r.switchReq
  /\ Noted(k) => Noted(r)
  /\ k.pendSV => r.pendSV
  /\ IF st = "unblockISR"
       THEN r.stage = "run" /\ r.pendedTicks = k.pendedTicks
       ELSE r.stage = "ticks"

\* The processing of a tick goes on to wake tasks.
TickGoesOn(k, st, r) ==
  /\ Still(k, r) /\ SameProcessor(k, r)
  /\ r.switchReq = k.switchReq /\ r.pendSV = k.pendSV
  /\ r.yieldPending = k.yieldPending
  /\ r.stage = st /\ r.pendedTicks = k.pendedTicks

LEMMA EndTickFlags ==
  ASSUME NEW k \in Kernel
  PROVE  TickEnded(k, k.stage, EndIncrementTick(k))
<1> DEFINE r == EndIncrementTick(k)
<1>1. PICK c \in BOOLEAN : c = (\/ k.switchReq
                                \/ LengthOf(k, k.prio[k.current]) > 1
                                \/ k.yieldPending)
  OBVIOUS
<1>2. PICK k1 : k1 = [k EXCEPT !.switchReq = FALSE]
  OBVIOUS
<1>3. r = IF k.stage = "unblockISR"
            THEN [YieldIf(k1, c) EXCEPT !.stage = "run"]
            ELSE [PendYieldIf(k1, c) EXCEPT !.stage = "ticks",
                                            !.pendedTicks = @ - 1]
  BY <1>1, <1>2 DEF EndIncrementTick
<1> HIDE DEF r
<1>4. k1 \in Kernel
  BY <1>2, ZenonT(60) DEF Kernel
<1>5. /\ Still(k, k1) /\ SameProcessor(k, k1) /\ ~k1.switchReq
      /\ k1.pendSV = k.pendSV /\ k1.yieldPending = k.yieldPending
      /\ k1.pendedTicks = k.pendedTicks
  BY <1>2 DEF Kernel, Still, SameProcessor
<1>6. k.switchReq \/ k.yieldPending => c
  BY <1>1
<1>7. CASE k.stage = "unblockISR"
  <2>1. PICK v \in BOOLEAN : v = (k1.pendSV \/ c)
    OBVIOUS
  <2>2. YieldIf(k1, c) = [k1 EXCEPT !.pendSV = v]
    BY <1>1, <1>4, <2>1 DEF YieldIf, portYIELD, Kernel
  <2>3. r = [k1 EXCEPT !.pendSV = v, !.stage = "run"]
    BY <1>3, <1>7, <2>2
  <2>4. /\ Still(k1, r) /\ SameProcessor(k1, r) /\ r.pendSV = v
        /\ r.switchReq = k1.switchReq /\ r.pendedTicks = k1.pendedTicks
        /\ r.stage = "run"
    BY <1>4, <2>3 DEF Kernel, Still, SameProcessor
  <2>5. Noted(k) => v
    BY <1>5, <1>6, <2>1 DEF Noted
  <2>6. QED BY <1>5, <1>7, <2>1, <2>4, <2>5
            DEF TickEnded, Still, SameProcessor, Noted, r
<1>8. CASE k.stage # "unblockISR"
  <2>1. PICK v \in BOOLEAN : v = (k1.yieldPending \/ c)
    OBVIOUS
  <2>2. PendYieldIf(k1, c) = [k1 EXCEPT !.yieldPending = v]
    BY <1>4, <2>1 DEF PendYieldIf, Kernel
  <2>3. r = [k1 EXCEPT !.yieldPending = v, !.stage = "ticks",
                       !.pendedTicks = @ - 1]
    BY <1>3, <1>8, <2>2
  <2>4. /\ Still(k1, r) /\ SameProcessor(k1, r) /\ r.yieldPending = v
        /\ r.switchReq = k1.switchReq /\ r.pendSV = k1.pendSV
        /\ r.stage = "ticks"
    BY <1>4, <2>3 DEF Kernel, Still, SameProcessor
  <2>5. Noted(k) => v \/ k.pendSV
    BY <1>6, <2>1 DEF Noted
  <2>6. QED BY <1>5, <1>8, <2>1, <2>4, <2>5
            DEF TickEnded, Still, SameProcessor, Noted, r
<1>9. QED BY <1>7, <1>8

LEMMA TickFlags ==
  ASSUME NEW k, Sound(k), NEW st \in Unblocking
  PROVE  LET r == IncrementTick(k, st)
         IN  TickEnded(k, st, r) \/ TickGoesOn(k, st, r)
<1> DEFINE r == IncrementTick(k, st)
<1>1. PICK now \in Ticks : now = WrappingAdd(k.tick, 1)
  <2>1. k.tick \in Ticks /\ 1 \in Ticks
    BY TasksAssumption DEF Kernel, Ticks, Sound, Good
  <2>2. QED BY <2>1, WrappingAddTicks
<1>2. PICK k1 : k1 = [k EXCEPT !.tick = now, !.stage = st]
  OBVIOUS
<1>3. Sound(k1) /\ k1 \in Kernel /\ TickGoesOn(k, st, k1)
  <2>1. st \in Stages /\ k \in Kernel
    BY DEF Unblocking, Stages, Sound, Good
  <2>2. k1 \in Kernel
    BY <1>2, <2>1, ZenonT(60) DEF Kernel
  <2>3. SameLinks(k, k1) /\ k1.prio = k.prio
    BY <1>2, <2>1 DEF Kernel, SameLinks
  <2>4. Sound(k1)
    BY <2>2, <2>3, SameLinksSound
  <2>5. QED BY <1>2, <2>1, <2>2, <2>4 DEF Kernel, TickGoesOn, Still, SameProcessor
<1>4. PICK k2 : k2 = IF now = 0 THEN taskSWITCH_DELAYED_LISTS(k1) ELSE k1
  OBVIOUS
<1>5. k2 \in Kernel /\ TickGoesOn(k, st, k2)
  <2>1. CASE now # 0
    BY <1>3, <1>4, <2>1
  <2>2. CASE now = 0
    <3>1. PICK a : a = configASSERT(k1, IsEmpty(k1, k1.delayed))
      OBVIOUS
    <3>2. PICK d : d = pxOverflowDelayedTaskList(k1)
      OBVIOUS
    <3>3. PICK o : o = IF a.overflows = MaxOverflows THEN 0 ELSE a.overflows + 1
      OBVIOUS
    <3>4. PICK q : q = [a EXCEPT !.delayed = d, !.overflows = o]
      OBVIOUS
    <3>5. k2 = prvResetNextTaskUnblockTime(q)
      BY <1>4, <2>2, <3>1, <3>2, <3>3, <3>4 DEF taskSWITCH_DELAYED_LISTS
    <3>6. a \in Kernel /\ TickGoesOn(k, st, a)
      <4>1. PICK f \in BOOLEAN : f = (k1.fault \/ ~IsEmpty(k1, k1.delayed))
        OBVIOUS
      <4>2. a = [k1 EXCEPT !.fault = f]
        BY <1>3, <3>1, <4>1 DEF configASSERT, Kernel
      <4>3. a \in Kernel
        BY <1>3, <4>2, ZenonT(60) DEF Kernel
      <4>4. QED BY <1>3, <4>2, <4>3 DEF Kernel, TickGoesOn, Still, SameProcessor
    <3>7. q \in Kernel /\ TickGoesOn(k, st, q)
      <4>1. d \in {xDelayedTaskList1, xDelayedTaskList2}
        BY <3>2 DEF pxOverflowDelayedTaskList
      <4>2. o \in 0..MaxOverflows
        BY <3>3, <3>6, TasksAssumption DEF Kernel
      <4>3. q \in Kernel
        BY <3>4, <3>6, <4>1, <4>2, ZenonT(60) DEF Kernel
      <4>4. QED BY <3>4, <3>6, <4>3 DEF Kernel, TickGoesOn, Still, SameProcessor
    <3>8. PICK n : k2 = [q EXCEPT !.nextUnblock = n]
      BY <3>5 DEF prvResetNextTaskUnblockTime
    <3>9. k2 \in Kernel
      <4>1. k2 = taskSWITCH_DELAYED_LISTS(k1)
        BY <1>4, <2>2
      <4>2. Sound(k2)
        BY <1>3, <4>1, SwitchDelayedListsSound
      <4>3. QED BY <4>2 DEF Sound, Good
    <3>10. QED BY <3>7, <3>8, <3>9 DEF Kernel, TickGoesOn, Still, SameProcessor
  <2>3. QED BY <2>1, <2>2
<1>6. r = IF now >= k2.nextUnblock THEN k2 ELSE EndIncrementTick(k2)
  BY <1>1, <1>2, <1>4 DEF IncrementTick
<1>7. CASE now >= k2.nextUnblock
  BY <1>5, <1>6, <1>7
<1>8. CASE ~(now >= k2.nextUnblock)
  <2>1. TickEnded(k2, st, r)
    BY <1>5, <1>6, <1>8, EndTickFlags DEF TickGoesOn
  <2>2. QED BY <1>5, <2>1
            DEF TickEnded, TickGoesOn, Still, SameProcessor, Noted
<1>9. QED BY <1>7, <1>8
-----------------------------------------------------------------------------
(* What readies a task, creates one or changes its priority.               *)

\* Task t enters its ready list, and a higher priority than that of the current
\* task is noted.
Readied(k, t, r) ==
  /\ r.stateList = [k.stateList EXCEPT ![t] = k.prio[t]]
  /\ r.eventList = [k.eventList EXCEPT ![t] = NoList]
  /\ r.prio = k.prio /\ r.basePrio = k.basePrio
  /\ r.running = k.running /\ r.numTasks = k.numTasks
  /\ SameProcessor(k, r)
  /\ r.stage = k.stage /\ r.pendedTicks = k.pendedTicks /\ r.fault = k.fault
  /\ Noted(k) => Noted(r)
  /\ k.pendSV => r.pendSV
  /\ k.prio[t] > k.prio[k.current] => Noted(r)
  /\ r.switchReq => k.switchReq \/ k.stage \in Unblocking

LEMMA ReadiedByLinking ==
  ASSUME NEW k, NEW q, NEW r, NEW t \in Tasks,
         Linking(k, q, [k.stateList EXCEPT ![t] = k.prio[t]],
                       [k.eventList EXCEPT ![t] = NoList]),
         Flagged(q, r),
         k.prio[t] > k.prio[k.current] => Noted(r)
  PROVE  Readied(k, t, r)
BY DEF Linking, Settled, SameControl, SameFlags, Flagged, Still, SameProcessor,
       Noted, Readied

\* An unlinked task is made ready, its event list item is unlinked before.
LEMMA UnlinkThenReady ==
  ASSUME NEW k, NEW q, NEW t \in Tasks, k \in Kernel,
         Linking(k, q, [k.stateList EXCEPT ![t] = NoList],
                       [k.eventList EXCEPT ![t] = NoList])
  PROVE  Linking(k, prvAddTaskToReadyList(q, t),
                 [k.stateList EXCEPT ![t] = k.prio[t]],
                 [k.eventList EXCEPT ![t] = NoList])
<1>1. /\ Good(q) /\ q.prio = k.prio
      /\ q.stateList = [k.stateList EXCEPT ![t] = NoList]
      /\ q.eventList = [k.eventList EXCEPT ![t] = NoList]
      /\ k.stateList \in [Tasks -> StateLists \cup {NoList}]
  BY DEF Linking, Settled, SameControl, Kernel
<1>2. /\ q.stateList[t] = NoList
      /\ [q.stateList EXCEPT ![t] = k.prio[t]] = [k.stateList EXCEPT ![t] = k.prio[t]]
  BY <1>1
<1>3. Linking(q, prvAddTaskToReadyList(q, t), [q.stateList EXCEPT ![t] = q.prio[t]],
              q.eventList)
  BY <1>1, <1>2, ReadyLinking
<1>4. Linking(k, prvAddTaskToReadyList(q, t), [q.stateList EXCEPT ![t] = q.prio[t]],
              q.eventList)
  BY <1>3, LinkingTransitive
<1>5. QED BY <1>1, <1>2, <1>4

LEMMA UnblockFlags ==
  ASSUME NEW k, Sound(k), k.current \in Tasks, k.stage \in Unblocking
  PROVE  LET r == UnblockExpired(k)
         IN  \/ TickEnded(k, k.stage, r)
             \/ \E t \in Tasks : k.stateList[t] = k.delayed /\ Readied(k, t, r)
<1> DEFINE t == HeadOf(k, k.delayed)
           r == UnblockExpired(k)
<1>1. k \in Kernel /\ Good(k) /\ k.delayed \in DelayedLists
      /\ k.delayed \in StateLists /\ k.delayed \in Lists
  BY TwoDelayedLists, DelayedListNames DEF Sound, Good
<1>2. ASSUME NEW n \in Ticks, r = EndIncrementTick([k EXCEPT !.nextUnblock = n])
      PROVE  TickEnded(k, k.stage, r)
  <2>1. PICK q : q = [k EXCEPT !.nextUnblock = n]
    OBVIOUS
  <2>2. q \in Kernel
    BY <1>1, <2>1, ZenonT(60) DEF Kernel
  <2>3. Flagged(k, q) /\ q.yieldPending = k.yieldPending /\ q.pendSV = k.pendSV
    BY <1>1, <2>1 DEF Kernel, Flagged, Still, SameProcessor, Noted
  <2>4. TickEnded(q, q.stage, r)
    BY <1>2, <2>1, <2>2, EndTickFlags
  <2> HIDE DEF r
  <2>5. QED BY <2>3, <2>4 DEF TickEnded, Flagged, Still, SameProcessor, Noted
<1>3. CASE IsEmpty(k, k.delayed)
  <2>1. r = EndIncrementTick([k EXCEPT !.nextUnblock = portMAX_DELAY])
    BY <1>3 DEF UnblockExpired
  <2>2. portMAX_DELAY \in Ticks
    BY TasksAssumption DEF Ticks
  <2> HIDE DEF r
  <2>3. QED BY <1>2, <2>1, <2>2 DEF r
<1>4. CASE ~IsEmpty(k, k.delayed) /\ k.tick < k.wake[t]
  <2>1. r = EndIncrementTick([k EXCEPT !.nextUnblock = k.wake[t]])
    BY <1>4 DEF UnblockExpired
  <2>2. t \in Tasks
    BY <1>1, <1>4, HeadIsLinked
  <2>3. k.wake[t] \in Ticks
    BY <1>1, <2>2 DEF Kernel
  <2> HIDE DEF r, t
  <2>4. QED BY <1>2, <2>1, <2>3 DEF r
<1>5. CASE ~IsEmpty(k, k.delayed) /\ ~(k.tick < k.wake[t])
  <2> DEFINE u == RemoveEventIfLinked(RemoveState(k, t), t)
             q == prvAddTaskToReadyList(u, t)
  <2>1. t \in Tasks /\ k.stateList[t] = k.delayed
    BY <1>1, <1>5, HeadIsLinked
  <2>2. k.stateList[t] # NoList
    BY <1>1, <2>1, DelayedListNames
  <2>3. r = [q EXCEPT !.switchReq = @ \/ k.prio[t] > k.prio[k.current]]
    BY <1>5 DEF UnblockExpired
  <2> HIDE DEF r, t
  <2>4. Linking(k, u, [k.stateList EXCEPT ![t] = NoList],
                      [k.eventList EXCEPT ![t] = NoList])
    BY <1>1, <2>1, <2>2, UnlinkLinking
  <2> HIDE DEF u
  <2>5. Linking(k, q, [k.stateList EXCEPT ![t] = k.prio[t]],
                      [k.eventList EXCEPT ![t] = NoList])
    BY <1>1, <2>1, <2>4, UnlinkThenReady
  <2> HIDE DEF q
  <2>6. q \in Kernel
    BY <2>5 DEF Linking, Good
  <2>7. PICK v \in BOOLEAN : v = (q.switchReq \/ k.prio[t] > k.prio[k.current])
    OBVIOUS
  <2>8. r = [q EXCEPT !.switchReq = v]
    BY <2>3, <2>6, <2>7 DEF Kernel
  <2>9. /\ r.stateList = q.stateList /\ r.eventList = q.eventList
        /\ r.prio = q.prio /\ r.basePrio = q.basePrio
        /\ r.running = q.running /\ r.numTasks = q.numTasks
        /\ SameProcessor(q, r) /\ r.stage = q.stage
        /\ r.pendedTicks = q.pendedTicks /\ r.fault = q.fault
        /\ r.pendSV = q.pendSV /\ r.yieldPending = q.yieldPending
        /\ r.switchReq = v
    BY <2>6, <2>8 DEF Kernel, SameProcessor
  <2>10. Readied(k, t, r)
    BY <2>5, <2>7, <2>9
       DEF Linking, Settled, SameControl, SameFlags, SameProcessor, Noted, Readied
  <2>11. QED BY <2>1, <2>10 DEF r
<1>6. QED BY <1>3, <1>4, <1>5

LEMMA MovePendingFields ==
  ASSUME NEW k, Good(k), ~IsEmpty(k, xPendingReadyList), k.current \in Tasks,
         \A u \in Tasks : k.eventList[u] = xPendingReadyList =>
                            k.stateList[u] # NoList
  PROVE  LET t == HeadOf(k, xPendingReadyList)
         IN  /\ t \in Tasks /\ k.eventList[t] = xPendingReadyList
             /\ Readied(k, t, MovePendingReady(k))
<1> DEFINE t  == HeadOf(k, xPendingReadyList)
           k1 == RemoveEvent(k, t)
           k2 == RemoveState(k1, t)
           k3 == prvAddTaskToReadyList(k2, t)
           k4 == [k3 EXCEPT !.moved = TRUE]
           r  == MovePendingReady(k)
<1>1. t \in Tasks /\ k.eventList[t] = xPendingReadyList
  BY ListNames, HeadIsLinked DEF Lists
<1>2. r = PendYieldIf(k4, k.prio[t] > k.prio[k.current])
  BY DEF MovePendingReady
<1> HIDE DEF t, r
<1>3. k.eventList[t] # NoList /\ k.stateList[t] # NoList /\ k \in Kernel
  BY <1>1 DEF Good, xPendingReadyList, NoList
<1>4. Linking(k, k1, k.stateList, [k.eventList EXCEPT ![t] = NoList])
  BY <1>1, <1>3, RemoveEventLinking
<1> HIDE DEF k1
<1>5. Good(k1) /\ k1.stateList = k.stateList
      /\ k1.eventList = [k.eventList EXCEPT ![t] = NoList]
  BY <1>4 DEF Linking
<1>6. Linking(k1, k2, [k1.stateList EXCEPT ![t] = NoList], k1.eventList)
  BY <1>1, <1>3, <1>5, RemoveStateLinking
<1> HIDE DEF k2
<1>7. Linking(k, k2, [k.stateList EXCEPT ![t] = NoList],
                     [k.eventList EXCEPT ![t] = NoList])
  <2>1. Linking(k, k2, [k1.stateList EXCEPT ![t] = NoList], k1.eventList)
    BY <1>4, <1>6, LinkingTransitive
  <2>2. QED BY <1>5, <2>1
<1>8. Linking(k, k3, [k.stateList EXCEPT ![t] = k.prio[t]],
                     [k.eventList EXCEPT ![t] = NoList])
  BY <1>1, <1>3, <1>7, UnlinkThenReady
<1> HIDE DEF k3
<1>9. k4 \in Kernel /\ Flagged(k3, k4)
  <2>1. k3 \in Kernel
    BY <1>8 DEF Linking, Good
  <2>2. k4 \in Kernel
    BY <2>1, ZenonT(60) DEF Kernel
  <2>3. QED BY <2>1, <2>2 DEF Kernel, Flagged, Still, SameProcessor, Noted
<1> HIDE DEF k4
<1>10. PICK c \in BOOLEAN : c = (k.prio[t] > k.prio[k.current])
  <2>1. (k.prio[t] > k.prio[k.current]) \in BOOLEAN
    BY <1>1, <1>3, PriorityComparison
  <2>2. QED BY <2>1
<1>11. Flagged(k4, r) /\ (c => r.yieldPending)
  BY <1>2, <1>9, <1>10, YieldFlagged
<1>12. Flagged(k3, r)
  BY <1>9, <1>11 DEF Flagged, Still, SameProcessor
<1>13. k.prio[t] > k.prio[k.current] => Noted(r)
  BY <1>10, <1>11 DEF Noted
<1>14. Readied(k, t, r)
  BY <1>1, <1>8, <1>12, <1>13, ReadiedByLinking
<1>15. QED BY <1>1, <1>14 DEF t, r

\* A ready task keeps being ready with a new priority, and only it moves.
ReprioritisedAs(k, x, e, p, r) ==
  /\ r \in Kernel
  /\ r.stateList = [k.stateList EXCEPT ![x] = IF IsReady(k, x) THEN e ELSE @]
  /\ r.eventList = k.eventList
  /\ r.prio = [k.prio EXCEPT ![x] = e]
  /\ r.basePrio = [k.basePrio EXCEPT ![x] = p]
  /\ r.running = k.running /\ SameFlags(k, r) /\ SameProcessor(k, r)
  /\ r.stage = k.stage /\ r.pendedTicks = k.pendedTicks
  /\ r.fault = k.fault

LEMMA ReprioritisedFields ==
  ASSUME NEW k, Sound(k), NEW x \in Tasks, NEW e \in Priorities,
         NEW p \in Priorities, NEW v \in 1..configMAX_PRIORITIES
  PROVE  ReprioritisedAs(k, x, e, p, Reprioritised(k, x, e, p, v))
<1> DEFINE r == Reprioritised(k, x, e, p, v)
<1>1. k \in Kernel /\ Good(k) /\ Consistent(k)
  BY DEF Sound, Good
<1>2. PICK q : q = [k EXCEPT !.prio[x] = e, !.basePrio[x] = p, !.eventValue[x] = v]
  OBVIOUS
<1>3. q \in Kernel
  BY <1>1, <1>2, ZenonT(60) DEF Kernel
<1>4. /\ SameLinks(k, q) /\ SameFlags(k, q) /\ SameProcessor(k, q)
      /\ q.prio = [k.prio EXCEPT ![x] = e] /\ q.basePrio = [k.basePrio EXCEPT ![x] = p]
      /\ q.running = k.running /\ q.stage = k.stage
      /\ q.pendedTicks = k.pendedTicks /\ q.fault = k.fault
  BY <1>1, <1>2 DEF Kernel, SameLinks, SameFlags, SameProcessor
<1>5. q.stateList = k.stateList /\ q.eventList = k.eventList /\ q.prio[x] = e
  BY <1>1, <1>4 DEF SameLinks, Kernel
<1>6. r = IF IsReady(k, x) THEN prvAddTaskToReadyList(RemoveState(q, x), x) ELSE q
  BY <1>2 DEF Reprioritised
<1> HIDE DEF r
<1>7. CASE ~IsReady(k, x)
  <2>1. r = q
    BY <1>6, <1>7
  <2>2. k.stateList = [k.stateList EXCEPT ![x] = IF IsReady(k, x) THEN e ELSE @]
    BY <1>1, <1>7 DEF Kernel
  <2>3. QED BY <1>3, <1>4, <1>5, <2>1, <2>2 DEF r, ReprioritisedAs
<1>8. CASE IsReady(k, x)
  <2>1. Good(q) /\ q.stateList[x] # NoList
    <3>1. Good(q)
      BY <1>1, <1>3, <1>4, SameLinksConsistent DEF Good
    <3>2. k.prio[x] \in Priorities
      BY <1>1 DEF Kernel
    <3>3. QED BY <1>5, <1>8, <3>1, <3>2, ListsDiffer DEF IsReady
  <2>2. Linking(q, r, [q.stateList EXCEPT ![x] = q.prio[x]], q.eventList)
    BY <1>6, <1>8, <2>1, MoveToReadyLinking
  <2>3. /\ r \in Kernel /\ SameFlags(q, r) /\ SameProcessor(q, r)
        /\ r.prio = q.prio /\ r.basePrio = q.basePrio /\ r.running = q.running
        /\ r.stage = q.stage /\ r.pendedTicks = q.pendedTicks /\ r.fault = q.fault
        /\ r.stateList = [q.stateList EXCEPT ![x] = q.prio[x]]
        /\ r.eventList = q.eventList
    BY <2>2 DEF Linking, Settled, SameControl, Good, SameProcessor, SameFlags
  <2>4. SameFlags(k, r) /\ SameProcessor(k, r)
    BY <1>4, <2>3 DEF SameFlags, SameProcessor
  <2>5. r.stateList = [k.stateList EXCEPT ![x] = IF IsReady(k, x) THEN e ELSE @]
    BY <1>5, <1>8, <2>3
  <2>6. QED BY <1>4, <1>5, <2>3, <2>4, <2>5 DEF r, ReprioritisedAs
<1>9. QED BY <1>7, <1>8

\* The new task x enters the ready list of its priority p; before the scheduler
\* runs, the current task is the last one created with the highest priority.
CreatedAs(k, x, p, r) ==
  /\ r.stateList = [k.stateList EXCEPT ![x] = p]
  /\ r.eventList = k.eventList
  /\ r.prio = [k.prio EXCEPT ![x] = p]
  /\ r.basePrio = [k.basePrio EXCEPT ![x] = p]
  /\ r.running = k.running /\ r.numTasks = k.numTasks + 1
  /\ r.suspended = k.suspended /\ r.yielded = k.yielded
  /\ r.stage = k.stage /\ r.pendedTicks = k.pendedTicks
  /\ r.fault = k.fault
  /\ r.pendSV = k.pendSV /\ r.yieldPending = k.yieldPending
  /\ r.switchReq = k.switchReq
  /\ r.current = IF \/ k.current = NoTask
                    \/ ~k.running /\ r.prio[k.current] <= p
                   THEN x ELSE k.current

LEMMA CreatedFields ==
  ASSUME NEW k, Sound(k), NEW x \in Tasks, NEW p \in Priorities,
         k.stateList[x] = NoList, k.eventList[x] = NoList
  PROVE  CreatedAs(k, x, p,
                   prvAddNewTaskToReadyList(prvInitialiseNewTask(k, x, p), x))
<1> DEFINE q == prvInitialiseNewTask(k, x, p)
           r == prvAddNewTaskToReadyList(q, x)
<1>1. k \in Kernel
  BY DEF Sound, Good
<1>2. Sound(q)
  BY InitialiseNewTaskSound
<1>3. q.prio = [k.prio EXCEPT ![x] = p] /\ q.basePrio = [k.basePrio EXCEPT ![x] = p]
  BY <1>1 DEF prvInitialiseNewTask, Kernel
<1>4. /\ q.stateList = [k.stateList EXCEPT ![x] = NoList]
      /\ q.eventList = [k.eventList EXCEPT ![x] = NoList]
      /\ q.running = k.running /\ q.numTasks = k.numTasks
      /\ q.current = k.current /\ q.suspended = k.suspended
      /\ q.yielded = k.yielded /\ q.stage = k.stage
      /\ q.pendedTicks = k.pendedTicks /\ q.fault = k.fault
      /\ q.pendSV = k.pendSV /\ q.yieldPending = k.yieldPending
      /\ q.switchReq = k.switchReq
  BY <1>1 DEF prvInitialiseNewTask, Kernel
<1>5. q.stateList = k.stateList /\ q.eventList = k.eventList /\ q.prio[x] = p
  BY <1>1, <1>3, <1>4 DEF Kernel
<1> HIDE DEF q
<1>6. PICK c : c = IF \/ q.current = NoTask
                      \/ ~q.running /\ q.prio[q.current] <= q.prio[x]
                     THEN x ELSE q.current
  OBVIOUS
<1>7. PICK z : z = [q EXCEPT !.numTasks = q.numTasks + 1, !.current = c]
  OBVIOUS
<1>8. z = [q EXCEPT !.numTasks = @ + 1,
                    !.current  = IF \/ q.current = NoTask
                                    \/ ~q.running /\ q.prio[q.current] <= q.prio[x]
                                   THEN x ELSE @]
  BY <1>2, <1>6, <1>7 DEF Sound, Good, Kernel
<1>9. r = prvAddTaskToReadyList(z, x)
  BY <1>8 DEF prvAddNewTaskToReadyList
<1>10. c \in Tasks \cup {NoTask} /\ q \in Kernel
  BY <1>2, <1>6 DEF Sound, Good, Kernel
<1>11. z \in Kernel
  <2>1. PICK n \in Int : n = q.numTasks + 1
    BY <1>10 DEF Kernel
  <2>2. z = [q EXCEPT !.numTasks = n, !.current = c]
    BY <1>7, <2>1
  <2>3. QED BY <1>10, <2>2, ZenonT(60) DEF Kernel
<1>12. /\ SameLinks(q, z) /\ z.prio = q.prio /\ z.basePrio = q.basePrio
       /\ z.running = q.running /\ z.numTasks = q.numTasks + 1 /\ z.current = c
       /\ z.suspended = q.suspended /\ z.yielded = q.yielded
       /\ z.stage = q.stage /\ z.pendedTicks = q.pendedTicks
       /\ z.fault = q.fault /\ z.pendSV = q.pendSV
       /\ z.yieldPending = q.yieldPending /\ z.switchReq = q.switchReq
  BY <1>7, <1>10 DEF Kernel, SameLinks
<1>13. Good(z) /\ z.stateList[x] = NoList /\ z.prio[x] = p
  BY <1>2, <1>5, <1>11, <1>12, SameLinksConsistent DEF Good, Sound, SameLinks
<1> HIDE DEF r
<1>14. Linking(z, r, [z.stateList EXCEPT ![x] = z.prio[x]], z.eventList)
  BY <1>9, <1>13, ReadyLinking
<1>15. /\ r.stateList = [k.stateList EXCEPT ![x] = p] /\ r.eventList = k.eventList
       /\ r.prio = z.prio /\ r.basePrio = z.basePrio /\ r.running = z.running
       /\ r.numTasks = z.numTasks /\ r.current = z.current
       /\ r.suspended = z.suspended /\ r.yielded = z.yielded /\ r.stage = z.stage
       /\ r.pendedTicks = z.pendedTicks /\ r.fault = z.fault
       /\ r.pendSV = z.pendSV /\ r.yieldPending = z.yieldPending
       /\ r.switchReq = z.switchReq
  BY <1>5, <1>12, <1>13, <1>14
     DEF Linking, Settled, SameControl, SameFlags, SameLinks
<1>16. r.current = IF \/ k.current = NoTask
                      \/ ~k.running /\ r.prio[k.current] <= p
                     THEN x ELSE k.current
  BY <1>4, <1>5, <1>6, <1>12, <1>15
<1>17. /\ r.prio = [k.prio EXCEPT ![x] = p]
       /\ r.basePrio = [k.basePrio EXCEPT ![x] = p]
       /\ r.running = k.running /\ r.numTasks = k.numTasks + 1
       /\ r.suspended = k.suspended /\ r.yielded = k.yielded
       /\ r.stage = k.stage /\ r.pendedTicks = k.pendedTicks
       /\ r.fault = k.fault /\ r.pendSV = k.pendSV
       /\ r.yieldPending = k.yieldPending /\ r.switchReq = k.switchReq
  BY <1>3, <1>4, <1>12, <1>15
<1>18. QED BY <1>15, <1>16, <1>17 DEF q, r, CreatedAs
-----------------------------------------------------------------------------
(* The inductive invariant.                                                *)

\* The idle task is always ready, at priority 0.
IdleReady ==
  os.running =>
    /\ pc[Idle] = "app" /\ os.stateList[Idle] = 0
    /\ os.eventList[Idle] = NoList /\ os.prio[Idle] = 0

\* A task that lives is in a list, but between the two steps of an abort.
LiveLinked ==
  \A x \in Tasks :
    pc[x] \notin Dead =>
      \/ os.stateList[x] # NoList
      \/ \E t \in Tasks : pc[t] = "abortEvent" /\ target[t] = x

\* What an interrupt has put in the pending ready list is still suspended.
PendingSuspended ==
  \A t \in Tasks :
    os.eventList[t] = xPendingReadyList => os.stateList[t] = xSuspendedTaskList

\* uxCurrentNumberOfTasks counts the tasks that are not deleted or wait for the
\* idle task to free them.
Gone == {"none", "deleted"}

Counted ==
  {t \in Tasks : \/ pc[t] \notin Gone
                 \/ os.stateList[t] = xTasksWaitingTermination}

TasksCounted ==
  /\ IsFiniteSet(Counted) /\ os.numTasks = Cardinality(Counted)
  /\ \A t \in Tasks :
       pc[t] = "deleteYield" => os.stateList[t] = xTasksWaitingTermination

LinksInv == IdleReady /\ LiveLinked /\ PendingSuspended /\ TasksCounted

\* Where a task that has left its ready list resumes the scheduler, and where it
\* then yields unless it has been switched out already.
Unlisted == {"resumeThenYield", "groupResume"}
Yielding == {"yieldUnlessYielded", "groupYield"}

\* Where the scheduler has been suspended once.
Entering == {"delay", "delayUntil"} \cup Unlisted

\* The current task gives up the processor before it goes on.
Leaving ==
  \/ os.pendSV
  \/ /\ pc[os.current] \in {"suspendReset", "suspendYield"}
     /\ target[os.current] = os.current
  \/ pc[os.current] = "deleteYield"
  \/ /\ pc[os.current] \in Yielding
     /\ os.stage \notin {"drain", "ticks", "unblock"} => ~os.yielded[os.current]

\* The current task is ready or leaves, and it has suspended the scheduler only
\* once while it enters a delayed list.
CurrentReady ==
  /\ os.running => \/ os.stateList[os.current] \in Priorities
                   \/ os.suspended = 0 /\ Leaving
                   \/ pc[os.current] \in Unlisted
  /\ ~os.running /\ os.current # NoTask => os.stateList[os.current] \in Priorities
  /\ \A t \in Tasks :
       pc[t] \in Entering => os.suspended = 1

\* The stages in which xTaskResumeAll still processes what was deferred.
Resuming == {"drain", "ticks", "unblock"}

NothingLeft ==
  /\ os.pendedTicks # 0 => os.suspended > 0 \/ os.stage \in Resuming
  /\ \A t \in Tasks : os.eventList[t] = xPendingReadyList =>
                        os.suspended > 0 \/ os.stage = "drain"

\* A ready task of a higher priority than the current one is noted, but for the
\* new task of a creation in progress.
HigherNoted ==
  /\ os.switchReq => os.stage \in Unblocking
  /\ os.basePrio = os.prio
  /\ os.running =>
       \A t \in Tasks :
         IsReady(os, t) /\ os.prio[t] > os.prio[os.current] =>
           \/ Noted(os)
           \/ pc[os.current] = "createYield" /\ target[os.current] = t
  /\ ~os.running =>
       \A t \in Tasks :
         IsReady(os, t) => /\ os.current \in Tasks
                           /\ os.prio[t] <= os.prio[os.current]

PInv == LinksInv /\ CurrentReady /\ NothingLeft /\ HigherNoted /\ ~os.fault
-----------------------------------------------------------------------------
(* What a task that executes knows.                                        *)

LEMMA RunningTask ==
  ASSUME IInv, PInv, NEW t \in Tasks, Running(t)
  PROVE  /\ os.running /\ os.current = t /\ os.stage = "run" /\ ~os.pendSV
         /\ ~os.switchReq
         /\ \A u \in Tasks : u # t => pc[u] \notin Suspending
         /\ pc[t] \notin {"suspendReset", "suspendYield", "deleteYield"}
                     \cup Unlisted \cup Yielding =>
              os.stateList[t] \in Priorities
         /\ pc[t] # "abortEvent" =>
              \A x \in Tasks : pc[x] \notin Dead => os.stateList[x] # NoList
         /\ os.pendedTicks # 0 => os.suspended > 0
<1>1. /\ os.running /\ os.current = t /\ os.stage = "run" /\ ~os.pendSV
  BY DEF Running
<1>2. \A u \in Tasks : u # t => pc[u] \notin Suspending
  BY RunningFacts
<1>3. ~os.switchReq
  BY <1>1 DEF PInv, HigherNoted, Unblocking
<1>4. pc[t] \notin {"suspendReset", "suspendYield", "deleteYield"}
               \cup Unlisted \cup Yielding =>
        os.stateList[t] \in Priorities
  BY <1>1 DEF PInv, CurrentReady, Leaving
<1>5. pc[t] # "abortEvent" =>
        \A x \in Tasks : pc[x] \notin Dead => os.stateList[x] # NoList
  BY <1>2 DEF PInv, LinksInv, LiveLinked, Suspending
<1>6. os.pendedTicks # 0 => os.suspended > 0
  BY <1>1 DEF PInv, NothingLeft, Resuming
<1>7. QED BY <1>1, <1>2, <1>3, <1>4, <1>5, <1>6

\* The idle task is one of those counted.
LEMMA SomeTasks ==
  ASSUME IInv, PInv, os.running
  PROVE  /\ os.numTasks > 0 /\ Idle \in Tasks
         /\ os.stateList[Idle] = 0 /\ os.stateList[Idle] \in Priorities
<1>1. Idle \in Tasks /\ pc[Idle] = "app" /\ os.stateList[Idle] = 0
  BY TasksAssumption DEF PInv, LinksInv, IdleReady
<1>2. Idle \in Counted
  BY <1>1 DEF Counted, Gone
<1>3. IsFiniteSet(Counted) /\ os.numTasks = Cardinality(Counted)
  BY DEF PInv, LinksInv, TasksCounted
<1>4. Cardinality(Counted) \in Nat /\ Cardinality(Counted) # 0
  BY <1>2, <1>3, FS_CardinalityType, FS_EmptySet
<1>5. 0 \in Priorities
  BY TasksAssumption DEF Priorities
<1>6. QED BY <1>1, <1>3, <1>4, <1>5
-----------------------------------------------------------------------------
(* Steps that leave the tasks in their lists, or move living ones.         *)

\* Task u stays where it is, or lives and is moved.
StaysOrMoves(u) ==
  \/ /\ os'.stateList[u] = os.stateList[u] /\ os'.eventList[u] = os.eventList[u]
     /\ os'.prio[u] = os.prio[u]
  \/ /\ u # Idle /\ pc[u] \notin Dead
     /\ os'.stateList[u] # xTasksWaitingTermination
     /\ os'.eventList[u] = xPendingReadyList =>
          os'.stateList[u] = xSuspendedTaskList
     /\ os'.stateList[u] = NoList =>
          \E v \in Tasks : pc'[v] = "abortEvent" /\ target'[v] = u

\* The calls in progress stay, but for those that go on within a life.
CallsGoOn ==
  \A u \in Tasks :
    /\ pc'[u] \in Dead <=> pc[u] \in Dead
    /\ pc'[u] \in Gone <=> pc[u] \in Gone
    /\ pc[u] = "abortEvent" => \/ pc'[u] = "abortEvent" /\ target'[u] = target[u]
                               \/ os'.stateList[target[u]] # NoList

LEMMA KeepLinks ==
  ASSUME IInv, LinksInv, os'.running = os.running, os'.numTasks = os.numTasks,
         \A u \in Tasks : StaysOrMoves(u),
         CallsGoOn, pc'[Idle] = pc[Idle]
  PROVE  LinksInv'
<1>1. IdleReady'
  BY TasksAssumption DEF LinksInv, IdleReady, StaysOrMoves
<1>2. ASSUME NEW x \in Tasks, pc'[x] \notin Dead
      PROVE  \/ os'.stateList[x] # NoList
             \/ \E t \in Tasks : pc'[t] = "abortEvent" /\ target'[t] = x
  <2>1. pc[x] \notin Dead
    BY <1>2 DEF CallsGoOn
  <2>2. CASE os'.stateList[x] = os.stateList[x]
    BY <2>1, <2>2 DEF LinksInv, LiveLinked, CallsGoOn
  <2>3. CASE os'.stateList[x] # os.stateList[x]
    BY <2>3 DEF StaysOrMoves
  <2>4. QED BY <2>2, <2>3
<1>3. LiveLinked'
  BY <1>2 DEF LiveLinked
<1>4. PendingSuspended'
  BY DEF LinksInv, PendingSuspended, StaysOrMoves
<1>5. ASSUME NEW u \in Tasks
      PROVE  /\ (\/ pc'[u] \notin Gone
                 \/ os'.stateList[u] = xTasksWaitingTermination) <=>
                (\/ pc[u] \notin Gone
                 \/ os.stateList[u] = xTasksWaitingTermination)
             /\ pc'[u] = "deleteYield" =>
                  os'.stateList[u] = xTasksWaitingTermination
  <2>1. CASE os'.stateList[u] = os.stateList[u]
    BY <2>1 DEF CallsGoOn, LinksInv, TasksCounted, Dead, Gone
  <2>2. CASE os'.stateList[u] # os.stateList[u]
    BY <2>2 DEF CallsGoOn, StaysOrMoves, Dead, Gone
  <2>3. QED BY <2>1, <2>2
<1>6. Counted' = Counted
  BY <1>5 DEF Counted
<1>7. TasksCounted'
  BY <1>5, <1>6 DEF LinksInv, TasksCounted
<1>8. QED BY <1>1, <1>3, <1>4, <1>7 DEF LinksInv

\* Interrupts and the context switch interrupt no call.
LEMMA UnchangedGoOn ==
  ASSUME UNCHANGED <<pc, target>>
  PROVE  CallsGoOn /\ pc'[Idle] = pc[Idle]
BY DEF CallsGoOn

\* A living task goes on to location p.
LEMMA TaskGoesOn ==
  ASSUME IInv, NEW t \in Tasks, NEW p, pc' = [pc EXCEPT ![t] = p],
         pc[t] \notin Dead, p \notin Dead, t = Idle => p = pc[t],
         \A u \in Tasks \ {t} : target'[u] = target[u],
         pc[t] = "abortEvent" => os'.stateList[target[t]] # NoList
  PROVE  CallsGoOn /\ pc'[Idle] = pc[Idle]
<1>1. pc = [u \in Tasks |-> pc[u]]
  BY IInvFacts
<1>2. QED BY <1>1, TasksAssumption DEF CallsGoOn, Dead, Gone

LEMMA StillLinks ==
  ASSUME IInv, LinksInv, Still(os, os'), CallsGoOn, pc'[Idle] = pc[Idle]
  PROVE  LinksInv'
<1>1. \A u \in Tasks : StaysOrMoves(u)
  BY DEF Still, StaysOrMoves
<1>2. QED BY <1>1, KeepLinks DEF Still
-----------------------------------------------------------------------------
(* Steps that move no task.                                                *)

\* Still nothing above the current task that is not noted.
LEMMA StillPreempts ==
  ASSUME PInv, os.running, Still(os, os'), os'.current = os.current,
         Noted(os) => Noted(os'), os'.switchReq => os'.stage \in Unblocking,
         \A x \in Tasks :
           /\ IsReady(os, x) /\ os.prio[x] > os.prio[os.current]
           /\ pc[os.current] = "createYield" /\ target[os.current] = x
           => \/ Noted(os')
              \/ pc'[os.current] = "createYield" /\ target'[os.current] = x
  PROVE  HigherNoted'
<1>1. os'.running /\ os'.basePrio = os'.prio
  BY DEF Still, PInv, HigherNoted
<1>2. ASSUME NEW x \in Tasks, IsReady(os', x), os'.prio[x] > os'.prio[os'.current]
      PROVE  \/ Noted(os')
             \/ pc'[os'.current] = "createYield" /\ target'[os'.current] = x
  <2>1. IsReady(os, x) /\ os.prio[x] > os.prio[os.current]
    BY <1>2 DEF Still, IsReady
  <2>2. QED BY <2>1 DEF PInv, HigherNoted
<1>3. QED BY <1>1, <1>2 DEF HigherNoted

\* An interrupt or a masked loop.
LEMMA InterruptStill ==
  ASSUME IInv, PInv, os.running, UNCHANGED <<pc, locals>>,
         Still(os, os'), SameProcessor(os, os'), os'.fault = os.fault,
         Noted(os) => Noted(os'), os.pendSV => os'.pendSV,
         os'.switchReq => os'.stage \in Unblocking,
         os.stage \in Resuming <=> os'.stage \in Resuming,
         NothingLeft'
  PROVE  PInv'
<1>1. UNCHANGED <<pc, target>> /\ os'.running
  BY DEF locals, Still
<1>2. LinksInv'
  BY <1>1, UnchangedGoOn, StillLinks DEF PInv
<1>3. CurrentReady'
  <2>1. CurrentReady
    BY DEF PInv
  <2>2. Leaving => Leaving'
    BY <1>1 DEF Leaving, SameProcessor, Resuming
  <2>3. QED BY <1>1, <2>1, <2>2 DEF CurrentReady, Still, SameProcessor
<1>4. HigherNoted'
  BY <1>1, StillPreempts DEF SameProcessor
<1>5. QED BY <1>2, <1>3, <1>4 DEF PInv

LEMMA TaskCurrentReady ==
  ASSUME IInv, NEW t \in Tasks, Running(t), NEW p,
         pc' = [pc EXCEPT ![t] = p], os'.running, os'.current = t,
         p \in Entering => os'.suspended = 1,
         \/ os'.stateList[t] \in Priorities
         \/ p \in Unlisted
         \/ os'.suspended = 0 /\ Leaving'
  PROVE  CurrentReady'
<1>1. pc = [u \in Tasks |-> pc[u]]
  BY IInvFacts
<1>2. \A u \in Tasks : u # t => pc[u] \notin Suspending
  BY RunningFacts
<1>3. QED BY <1>1, <1>2
   DEF Entering, Unlisted, Yielding, CurrentReady, Suspending

\* The running task goes on.
LEMMA TaskStill ==
  ASSUME IInv, PInv, NEW t \in Tasks, Running(t), NEW p,
         pc' = [pc EXCEPT ![t] = p],
         pc[t] \notin Dead, p \notin Dead, t = Idle => p = pc[t],
         pc[t] # "abortEvent",
         \A u \in Tasks \ {t} : target'[u] = target[u],
         Still(os, os'), os'.current = t, os'.fault = os.fault,
         Noted(os) => Noted(os'), os'.switchReq = os.switchReq,
         pc[t] = "createYield" =>
           \A x \in Tasks : IsReady(os, x) /\ os.prio[x] > os.prio[t]
                              /\ target[t] = x => Noted(os'),
         CurrentReady', NothingLeft'
  PROVE  PInv'
<1>1. os.running /\ os.current = t /\ ~os.switchReq
  BY RunningTask
<1>2. LinksInv'
  BY TaskGoesOn, StillLinks DEF PInv
<1>3. HigherNoted'
  BY <1>1, StillPreempts
<1>4. QED BY <1>2, <1>3 DEF PInv

\* It keeps the scheduler as it is, and may pend a switch.
LEMMA TaskFlags ==
  ASSUME IInv, PInv, NEW t \in Tasks, Running(t), NEW p,
         pc' = [pc EXCEPT ![t] = p],
         pc[t] \notin Dead, p \notin Dead, t = Idle => p = pc[t],
         pc[t] # "abortEvent",
         p \notin Entering,
         \A u \in Tasks \ {t} : target'[u] = target[u],
         Flagged(os, os'),
         pc[t] = "createYield" =>
           \A x \in Tasks : IsReady(os, x) /\ os.prio[x] > os.prio[t]
                              /\ target[t] = x => Noted(os'),
         os.stateList[t] \in Priorities \/ (os.suspended = 0 /\ Leaving')
  PROVE  PInv'
<1>1. os.running /\ os.current = t
  BY RunningTask
<1>2. /\ os'.current = t /\ os'.suspended = os.suspended /\ os'.running
      /\ os'.fault = os.fault /\ os'.switchReq = os.switchReq
      /\ Still(os, os') /\ (Noted(os) => Noted(os'))
      /\ os'.stateList = os.stateList
      /\ os'.stage = os.stage /\ os'.pendedTicks = os.pendedTicks
      /\ os'.eventList = os.eventList
  BY <1>1 DEF Flagged, SameProcessor, Still
<1>3. CurrentReady'
  BY <1>2, TaskCurrentReady
<1>4. NothingLeft'
  BY <1>2 DEF PInv, NothingLeft
<1>5. QED BY <1>2, <1>3, <1>4, TaskStill

LEMMA NotIdle ==
  ASSUME PInv, os.running, NEW t, pc[t] # "app"
  PROVE  t # Idle
BY DEF PInv, LinksInv, IdleReady

LEMMA SelfPc ==
  ASSUME IInv, NEW t \in Tasks, UNCHANGED pc
  PROVE  pc' = [pc EXCEPT ![t] = pc[t]]
<1>1. pc = [u \in Tasks |-> pc[u]]
  BY IInvFacts
<1>2. QED BY <1>1

\* Yielding.
LEMMA YieldPreempts ==
  ASSUME IInv, PInv, NEW t \in Tasks,
         \/ taskYIELD(t) \/ SuspendYields(t) \/ YieldUnlessYielded(t)
         \/ CreateYields(t)
  PROVE  PInv'
<1>1. Running(t) /\ t \in Tasks
  BY DEF taskYIELD, SuspendYields, YieldUnlessYielded, CreateYields, MayCall, At
<1>2. os \in Kernel /\ pc = [u \in Tasks |-> pc[u]] /\ target \in [Tasks -> Tasks]
  BY IInvFacts
<1>3. os.running /\ os.current = t /\ os.stage = "run" /\ ~os.pendSV
  BY <1>1, RunningTask
<1>4. CASE taskYIELD(t)
  <2>1. /\ pc' = [pc EXCEPT ![t] = "app"] /\ pc[t] = "app" /\ target' = target
        /\ os' = portYIELD(os)
    BY <1>2, <1>4 DEF taskYIELD, MayCall, At, locals
  <2>2. Flagged(os, os') /\ os.stateList[t] \in Priorities
    BY <1>1, <1>2, <2>1, YieldFlagged, RunningTask DEF Unlisted, Yielding
  <2>3. QED BY <1>1, <2>1, <2>2, TaskFlags DEF Entering, Unlisted, Dead
<1>5. CASE SuspendYields(t)
  <2>1. /\ pc' = [pc EXCEPT ![t] = "app"] /\ pc[t] = "suspendYield"
        /\ target' = [target EXCEPT ![t] = t]
    BY <1>5 DEF SuspendYields, At, Goto
  <2>2. PICK c \in BOOLEAN : c = (target[t] = os.current)
    OBVIOUS
  <2>3. os' = YieldIf(os, c)
    BY <1>5, <2>2 DEF SuspendYields
  <2>4. Flagged(os, os') /\ (c => os'.pendSV)
    BY <1>2, <2>3, YieldFlagged
  <2>5. os.stateList[t] \in Priorities \/ (os.suspended = 0 /\ Leaving')
    BY <1>3, <2>1, <2>2, <2>4
       DEF Entering, Unlisted, Yielding, PInv, CurrentReady, Leaving
  <2>6. t # Idle
    BY <1>3, <2>1, NotIdle
  <2>7. \A u \in Tasks \ {t} : target'[u] = target[u]
    BY <1>2, <2>1
  <2>8. QED BY <1>1, <2>1, <2>4, <2>5, <2>6, <2>7, TaskFlags
     DEF Entering, Unlisted, Dead
<1>6. CASE YieldUnlessYielded(t)
  <2>1. /\ pc' = [pc EXCEPT ![t] = "app"] /\ pc[t] = "yieldUnlessYielded"
        /\ target' = target
    BY <1>6 DEF YieldUnlessYielded, At, Goto, locals
  <2>2. PICK q : q = [os EXCEPT !.yielded[t] = FALSE]
    OBVIOUS
  <2>3. PICK c \in BOOLEAN : c = (~os.yielded[t])
    OBVIOUS
  <2>4. os' = YieldIf(q, c)
    BY <1>6, <2>2, <2>3 DEF YieldUnlessYielded
  <2>5. q \in Kernel
    BY <1>2, <2>2, ZenonT(60) DEF Kernel
  <2>6. /\ Still(os, q) /\ q.current = os.current /\ q.suspended = os.suspended
        /\ q.stage = os.stage /\ q.pendedTicks = os.pendedTicks
        /\ q.fault = os.fault /\ q.pendSV = os.pendSV
        /\ q.yieldPending = os.yieldPending /\ q.switchReq = os.switchReq
    BY <1>2, <2>2, <2>5 DEF Kernel, Still
  <2>7. Flagged(q, os') /\ (c => os'.pendSV)
    BY <2>4, <2>5, YieldFlagged
  <2>8. /\ Still(os, os') /\ os'.current = t /\ os'.suspended = os.suspended
        /\ os'.stage = os.stage /\ os'.pendedTicks = os.pendedTicks
        /\ os'.fault = os.fault /\ (Noted(os) => Noted(os'))
        /\ os'.switchReq = os.switchReq /\ os'.running
        /\ os'.stateList = os.stateList /\ os'.eventList = os.eventList
    BY <1>3, <2>6, <2>7 DEF Flagged, Still, SameProcessor, Noted
  <2>9. os'.stateList[t] \in Priorities \/ (os'.suspended = 0 /\ Leaving')
    BY <1>3, <2>1, <2>3, <2>7, <2>8
       DEF Entering, Unlisted, Yielding, PInv, CurrentReady, Leaving
  <2>10. CurrentReady'
    BY <1>1, <2>1, <2>8, <2>9, TaskCurrentReady DEF Entering, Unlisted, Yielding
  <2>11. NothingLeft'
    BY <2>8 DEF PInv, NothingLeft
  <2>12. t # Idle
    BY <1>3, <2>1, NotIdle
  <2>13. QED BY <1>1, <2>1, <2>8, <2>10, <2>11, <2>12, TaskStill DEF Dead
<1>7. CASE CreateYields(t)
  <2>1. /\ pc' = [pc EXCEPT ![t] = "app"] /\ pc[t] = "createYield"
        /\ target' = [target EXCEPT ![t] = t] /\ target[t] \in Tasks
    BY <1>2, <1>7 DEF CreateYields, At, Goto
  <2>2. /\ os.prio[os.current] \in Int /\ os.prio[target[t]] \in Int
        /\ (os.prio[os.current] < os.prio[target[t]]) \in BOOLEAN
    BY <1>2, <1>3, <2>1, TasksAssumption, PriorityComparison DEF Kernel, Priorities
  <2>3. PICK c \in IF pc[target[t]] = "none"
                     THEN BOOLEAN
                     ELSE {os.prio[os.current] < os.prio[target[t]]} :
          os' = YieldIf(os, c)
    BY <1>7 DEF CreateYields
  <2>4. c \in BOOLEAN
    BY <2>2, <2>3
  <2>5. Flagged(os, os') /\ (c => os'.pendSV)
    BY <1>2, <2>3, <2>4, YieldFlagged
  <2>6. ASSUME NEW x \in Tasks, IsReady(os, x), os.prio[x] > os.prio[t], target[t] = x
        PROVE  Noted(os')
    <3>1. pc[x] # "none"
      BY <1>2, <2>6, ListsDiffer DEF IInv, DeadUnlinked, IsReady, Kernel
    <3>2. c
      BY <1>3, <2>2, <2>3, <2>6, <3>1
    <3>3. QED BY <2>5, <3>2 DEF Noted
  <2>7. os.stateList[t] \in Priorities
    BY <1>1, <2>1, RunningTask DEF Unlisted, Yielding
  <2>8. t # Idle
    BY <1>3, <2>1, NotIdle
  <2>9. \A u \in Tasks \ {t} : target'[u] = target[u]
    BY <1>2, <2>1
  <2>10. QED BY <1>1, <2>1, <2>5, <2>6, <2>7, <2>8, <2>9, TaskFlags
     DEF Entering, Unlisted, Dead
<1>8. QED BY <1>4, <1>5, <1>6, <1>7

LEMMA IdleYieldsPreempts == ASSUME IInv, PInv, IdleYields PROVE PInv'
<1>1. /\ Running(Idle) /\ pc[Idle] = "app" /\ os' = portYIELD(os)
      /\ UNCHANGED <<pc, target>> /\ Idle \in Tasks
  BY TasksAssumption DEF IdleYields, At, locals
<1>2. os \in Kernel
  BY IInvFacts
<1>3. pc' = [pc EXCEPT ![Idle] = "app"]
  BY <1>1, SelfPc
<1>4. Flagged(os, os') /\ os.stateList[Idle] \in Priorities
  BY <1>1, <1>2, YieldFlagged, RunningTask DEF Unlisted, Yielding
<1>5. QED BY <1>1, <1>3, <1>4, TaskFlags DEF Entering, Unlisted, Dead

LEMMA SuspendResetPreempts ==
  ASSUME IInv, PInv, NEW t \in Tasks, SuspendResetsUnblockTime(t)
  PROVE  PInv'
<1>1. /\ Running(t) /\ pc[t] = "suspendReset" /\ UNCHANGED target
      /\ pc' = [pc EXCEPT ![t] = "suspendYield"]
      /\ os' = prvResetNextTaskUnblockTime(os)
  BY DEF SuspendResetsUnblockTime, At, Goto, locals
<1>2. os \in Kernel /\ pc = [u \in Tasks |-> pc[u]]
  BY IInvFacts
<1>3. os.running /\ os.current = t /\ ~os.pendSV /\ os.stage = "run"
  BY <1>1, RunningTask
<1>4. Flagged(os, os')
  BY <1>1, <1>2, ResetFlagged
<1>5. os.stateList[t] \in Priorities \/ (os.suspended = 0 /\ Leaving')
  BY <1>1, <1>2, <1>3, <1>4
     DEF Entering, Unlisted, Yielding, PInv, CurrentReady, Leaving, Flagged, SameProcessor
<1>6. t # Idle
  BY <1>1, <1>3, NotIdle
<1>7. QED BY <1>1, <1>4, <1>5, <1>6, TaskFlags DEF Entering, Unlisted, Dead

\* Suspending the scheduler.
LEMMA SuspendAllPreempts ==
  ASSUME IInv, PInv, NEW t \in Tasks, Running(t), pc[t] = "app", t # Idle,
         os' = vTaskSuspendAll(os),
         NEW p \in {"app", "abort", "delay", "delayUntil"},
         p \in {"delay", "delayUntil"} => os.suspended = 0,
         pc' = [pc EXCEPT ![t] = p],
         \A u \in Tasks \ {t} : target'[u] = target[u]
  PROVE  PInv'
<1>1. os \in Kernel /\ os.suspended \in Nat
  BY IInvFacts DEF Kernel
<1>2. os.running /\ os.current = t /\ os.stateList[t] \in Priorities
  BY RunningTask DEF Unlisted, Yielding
<1>3. /\ Still(os, os') /\ os'.current = t /\ os'.fault = os.fault
      /\ (Noted(os) => Noted(os')) /\ os'.switchReq = os.switchReq
      /\ os'.suspended = os.suspended + 1 /\ os'.suspended > 0
      /\ os'.running /\ os'.stateList[t] \in Priorities
  <2>1. /\ Still(os, os') /\ os'.current = os.current
        /\ os'.suspended = os.suspended + 1
        /\ os'.pendSV = os.pendSV /\ os'.switchReq = os.switchReq
        /\ os'.yieldPending = os.yieldPending /\ os'.fault = os.fault
    BY <1>1, SuspendAllFields
  <2>2. QED BY <1>1, <1>2, <2>1 DEF Still, Noted
<1>4. CurrentReady'
  <2>1. p \in Entering => os'.suspended = 1
    BY <1>3 DEF Entering, Unlisted, Yielding
  <2>2. QED BY <1>3, <2>1, TaskCurrentReady
<1>5. NothingLeft'
  BY <1>3 DEF NothingLeft
<1>6. QED BY <1>3, <1>4, <1>5, TaskStill DEF Dead

LEMMA SuspendPreempts ==
  ASSUME IInv, PInv, NEW t \in Tasks,
         \/ \E n \in DelayTicks : vTaskDelay(t, n)
         \/ \E n \in Periods : xTaskDelayUntil(t, n)
         \/ SuspendScheduler(t)
         \/ \E x \in Handles : xTaskAbortDelay(t, x)
  PROVE  PInv'
<1>1. /\ Running(t) /\ pc[t] = "app" /\ t # Idle
      /\ \A u \in Tasks \ {t} : target'[u] = target[u]
  BY IInvFacts
     DEF vTaskDelay, xTaskDelayUntil, SuspendScheduler, xTaskAbortDelay,
         MayCall, At, locals
<1>2. ASSUME NEW n \in DelayTicks, vTaskDelay(t, n) PROVE PInv'
  <2>1. CASE n > 0
    <3>1. /\ os' = vTaskSuspendAll(os) /\ pc' = [pc EXCEPT ![t] = "delay"]
          /\ os.suspended = 0
      BY <1>2, <2>1 DEF vTaskDelay, Goto
    <3>2. QED BY <1>1, <3>1, SuspendAllPreempts
  <2>2. CASE ~(n > 0)
    <3>1. os' = portYIELD(os) /\ UNCHANGED <<pc, target>>
      BY <1>2, <2>2 DEF vTaskDelay
    <3>2. os \in Kernel
      BY IInvFacts
    <3>3. pc' = [pc EXCEPT ![t] = "app"]
      BY <1>1, <3>1, SelfPc
    <3>4. Flagged(os, os') /\ os.stateList[t] \in Priorities
      BY <1>1, <3>1, <3>2, YieldFlagged, RunningTask DEF Unlisted, Yielding
    <3>5. QED BY <1>1, <3>1, <3>3, <3>4, TaskFlags DEF Entering, Unlisted, Dead
  <2>3. QED BY <2>1, <2>2
<1>3. ASSUME NEW n \in Periods, xTaskDelayUntil(t, n) PROVE PInv'
  <2>1. /\ os' = vTaskSuspendAll(os) /\ pc' = [pc EXCEPT ![t] = "delayUntil"]
        /\ os.suspended = 0
    BY <1>3 DEF xTaskDelayUntil, Goto
  <2>2. QED BY <1>1, <2>1, SuspendAllPreempts
<1>4. CASE SuspendScheduler(t)
  <2>1. os' = vTaskSuspendAll(os) /\ UNCHANGED pc
    BY <1>4 DEF SuspendScheduler
  <2>2. pc' = [pc EXCEPT ![t] = "app"]
    BY <1>1, <2>1, SelfPc
  <2>3. QED BY <1>1, <2>1, <2>2, SuspendAllPreempts
<1>5. ASSUME NEW x \in Handles, xTaskAbortDelay(t, x) PROVE PInv'
  <2>1. os' = vTaskSuspendAll(os) /\ pc' = [pc EXCEPT ![t] = "abort"]
    BY <1>5 DEF xTaskAbortDelay, Goto
  <2>2. QED BY <1>1, <2>1, SuspendAllPreempts
<1>6. QED BY <1>2, <1>3, <1>4, <1>5

\* Resuming it: what it deferred is processed before the caller goes on.
LEMMA ResumeAllPreempts ==
  ASSUME IInv, PInv, NEW t \in Tasks,
         ResumeThenYield(t) \/ ResumeThenReturn(t) \/ ResumeScheduler(t)
  PROVE  PInv'
<1>1. /\ Running(t) /\ os.suspended > 0 /\ os' = xTaskResumeAll(os)
      /\ UNCHANGED target
  BY DEF ResumeThenYield, ResumeThenReturn, ResumeScheduler, At, MayCall, locals,
         IInv, CallsValid, Suspending
<1>2. os \in Kernel /\ os.suspended \in Nat /\ pc = [u \in Tasks |-> pc[u]]
  BY IInvFacts DEF Kernel
<1>3. os.running /\ os.current = t /\ os.stage = "run" /\ os.numTasks > 0
  BY <1>1, RunningTask, SomeTasks
<1>4. /\ Still(os, os') /\ os'.current = t
      /\ os'.suspended = os.suspended - 1
      /\ os'.yielded = [os.yielded EXCEPT ![t] = FALSE]
      /\ IF os'.suspended = 0 THEN os'.stage = "drain" ELSE os'.stage = "run"
      /\ os'.fault = os.fault /\ os'.pendedTicks = os.pendedTicks
      /\ (Noted(os) => Noted(os')) /\ os'.switchReq = os.switchReq
      /\ os'.running /\ os'.stateList = os.stateList
  BY <1>1, <1>2, <1>3, ResumeAllFields DEF Still, Noted
<1>5. PICK p \in {"app", "yieldUnlessYielded"} :
        /\ pc' = [pc EXCEPT ![t] = p] /\ t # Idle
        /\ pc[t] = "resumeThenYield" => p = "yieldUnlessYielded"
        /\ pc[t] \in {"app", "resumeThenReturn", "resumeThenYield"}
  <2>1. CASE ResumeThenYield(t)
    BY <1>3, <2>1, NotIdle DEF ResumeThenYield, At, Goto
  <2>2. CASE ResumeThenReturn(t)
    BY <1>3, <2>2, NotIdle DEF ResumeThenReturn, At, Goto
  <2>3. CASE ResumeScheduler(t)
    BY <2>3, SelfPc DEF ResumeScheduler, At, MayCall
  <2>4. QED BY <2>1, <2>2, <2>3
<1>6. CurrentReady'
  <2>1. CASE pc[t] = "resumeThenYield"
    <3>1. os.suspended = 1
      BY <2>1 DEF Entering, Unlisted, Yielding, PInv, CurrentReady
    <3>2. os'.suspended = 0 /\ os'.stage = "drain"
      BY <1>4, <3>1
    <3>3. Leaving'
      BY <1>2, <1>4, <1>5, <2>1, <3>2 DEF Entering, Unlisted, Yielding, Leaving
    <3>4. QED BY <1>1, <1>4, <1>5, <3>2, <3>3, TaskCurrentReady
       DEF Entering, Unlisted, Yielding
  <2>2. CASE pc[t] # "resumeThenYield"
    <3>1. os.stateList[t] \in Priorities
      BY <1>1, <1>5, <2>2, RunningTask DEF Unlisted, Yielding
    <3>2. QED BY <1>1, <1>4, <1>5, <3>1, TaskCurrentReady
       DEF Entering, Unlisted, Yielding
  <2>3. QED BY <2>1, <2>2
<1>7. NothingLeft'
  <2>1. os'.suspended > 0 \/ os'.stage = "drain"
    BY <1>1, <1>2, <1>4
  <2>2. QED BY <2>1 DEF NothingLeft, Resuming
<1>8. QED BY <1>1, <1>4, <1>5, <1>6, <1>7, TaskStill DEF Dead

\* What a deleted task leaves behind is forgotten.
LEMMA DeleteFreesPreempts ==
  ASSUME IInv, PInv, NEW t \in Tasks, DeleteFrees(t) PROVE PInv'
<1> DEFINE x == target[t]
<1>1. /\ pc = [u \in Tasks |-> pc[u]] /\ target \in [Tasks -> Tasks] /\ x \in Tasks
  BY IInvFacts
<1>2. /\ Running(t) /\ pc[t] = "deleteFree" /\ os' = os
      /\ pc' = [pc EXCEPT ![t] = "app", ![x] = "none"]
      /\ target' = [target EXCEPT ![t] = t, ![x] = x]
  BY DEF DeleteFrees, At
<1>3. pc[x] = "deleted" /\ x # t
  BY <1>2 DEF IInv, CallsValid
<1> HIDE DEF x
<1>4. os.running /\ os.current = t /\ os.stateList[t] \in Priorities
      /\ \A u \in Tasks : u # t => pc[u] \notin Suspending
  BY <1>2, RunningTask DEF Unlisted, Yielding
<1>5. t # Idle /\ x # Idle
  BY <1>2, <1>3, <1>4, NotIdle
<1>6. \A u \in Tasks : pc'[u] = IF u = t THEN "app" ELSE IF u = x THEN "none" ELSE pc[u]
  BY <1>1, <1>2, <1>3
<1>7. CallsGoOn /\ pc'[Idle] = pc[Idle]
  <2>1. ASSUME NEW u \in Tasks
        PROVE  /\ pc'[u] \in Dead <=> pc[u] \in Dead
               /\ pc'[u] \in Gone <=> pc[u] \in Gone
               /\ pc[u] # "abortEvent"
    <3>1. pc'[u] = IF u = t THEN "app" ELSE IF u = x THEN "none" ELSE pc[u]
      BY <1>6
    <3>2. CASE u = t
      BY <1>2, <3>1, <3>2 DEF Dead, Gone
    <3>3. CASE u # t
      BY <1>3, <1>4, <3>1, <3>3 DEF Dead, Gone, Suspending
    <3>4. QED BY <3>2, <3>3
  <2>2. QED BY <1>5, <1>6, <2>1, TasksAssumption DEF CallsGoOn
<1>8. LinksInv'
  BY <1>2, <1>7, StillLinks DEF Still, PInv
<1>9. CurrentReady'
  <2>1. ASSUME NEW u \in Tasks
        PROVE  pc'[u] \notin Entering
    BY <1>4, <1>6 DEF Entering, Unlisted, Suspending
  <2>2. os'.running /\ os'.stateList[os'.current] \in Priorities
    BY <1>2, <1>4
  <2>3. QED BY <2>1, <2>2 DEF CurrentReady
<1>10. NothingLeft'
  BY <1>2 DEF NothingLeft, PInv
<1>11. HigherNoted'
  BY <1>2, <1>4, <1>6 DEF HigherNoted, PInv, Noted
<1>12. QED BY <1>2, <1>8, <1>9, <1>10, <1>11 DEF PInv

\* A task that has deleted itself gives up the processor for good.
LEMMA DeleteYieldsPreempts ==
  ASSUME IInv, PInv, NEW t \in Tasks, DeleteYields(t) PROVE PInv'
<1>1. /\ Running(t) /\ pc[t] = "deleteYield" /\ UNCHANGED target
      /\ pc' = [pc EXCEPT ![t] = "deleted"]
      /\ os' = portYIELD(configASSERT(os, os.suspended = 0))
  BY DEF DeleteYields, At, Goto, locals
<1>2. os \in Kernel /\ pc = [u \in Tasks |-> pc[u]]
  BY IInvFacts
<1>3. os.running /\ os.current = t
      /\ \A u \in Tasks : u # t => pc[u] \notin Suspending
  BY <1>1, RunningTask
<1>4. os.suspended = 0
  <2>1. os.stateList[t] \notin Priorities
    BY <1>1, ListsDiffer DEF IInv, DeadUnlinked, Dead
  <2>2. QED BY <1>1, <1>3, <2>1
     DEF Entering, Unlisted, Yielding, PInv, CurrentReady
<1>5. configASSERT(os, os.suspended = 0) = os
  BY <1>2, <1>4 DEF configASSERT, Kernel
<1>6. Flagged(os, os') /\ os'.pendSV
  BY <1>1, <1>2, <1>5, YieldFlagged
<1>7. /\ Still(os, os') /\ os'.current = t /\ os'.suspended = 0
      /\ os'.stage = os.stage /\ os'.pendedTicks = os.pendedTicks
      /\ os'.fault = os.fault /\ os'.switchReq = os.switchReq
      /\ os'.running /\ os'.stateList = os.stateList /\ os'.eventList = os.eventList
      /\ os'.prio = os.prio /\ os'.numTasks = os.numTasks
  BY <1>3, <1>4, <1>6 DEF Flagged, SameProcessor, Still
<1>8. t # Idle
  BY <1>1, <1>3, NotIdle
<1>9. \A u \in Tasks : pc'[u] = IF u = t THEN "deleted" ELSE pc[u]
  BY <1>1, <1>2
<1>10. LinksInv'
  <2>1. IdleReady'
    BY <1>3, <1>7, <1>8, <1>9, TasksAssumption DEF PInv, LinksInv, IdleReady
  <2>2. LiveLinked'
    BY <1>1, <1>7, <1>9 DEF PInv, LinksInv, LiveLinked, Dead
  <2>3. PendingSuspended'
    BY <1>7 DEF PInv, LinksInv, PendingSuspended
  <2>4. Counted' = Counted
    BY <1>1, <1>7, <1>9 DEF PInv, LinksInv, TasksCounted, Counted, Gone
  <2>5. TasksCounted'
    BY <1>7, <1>9, <2>4 DEF PInv, LinksInv, TasksCounted
  <2>6. QED BY <2>1, <2>2, <2>3, <2>5 DEF LinksInv
<1>11. CurrentReady'
  <2>1. ASSUME NEW u \in Tasks
        PROVE  pc'[u] \notin Entering
    BY <1>3, <1>9 DEF Entering, Unlisted, Suspending
  <2>2. os'.running /\ os'.suspended = 0 /\ Leaving'
    BY <1>6, <1>7 DEF Leaving
  <2>3. QED BY <2>1, <2>2 DEF CurrentReady
<1>12. NothingLeft'
  BY <1>4, <1>7 DEF NothingLeft, PInv
<1>13. HigherNoted'
  BY <1>3, <1>6, <1>7, StillPreempts, RunningTask, <1>1 DEF Noted
<1>14. QED BY <1>7, <1>10, <1>11, <1>12, <1>13 DEF PInv
-----------------------------------------------------------------------------
(* The tick and the context switch.                                        *)

LEMMA TickStill ==
  ASSUME IInv, PInv, os.running, os.suspended = 0, os.stage # "drain",
         NEW st \in Unblocking, os.stage \in Resuming <=> st = "unblock",
         TickEnded(os, st, os') \/ TickGoesOn(os, st, os'),
         os'.fault = os.fault, UNCHANGED <<pc, locals>>
  PROVE  PInv'
<1>1. /\ Still(os, os') /\ SameProcessor(os, os')
      /\ Noted(os) => Noted(os')
      /\ os.pendSV => os'.pendSV
      /\ os'.switchReq => os'.stage \in Unblocking
  BY DEF TickEnded, TickGoesOn, Noted
<1>2. /\ os.stage \in Resuming <=> os'.stage \in Resuming
      /\ os.stage \in Resuming \/ os'.pendedTicks = os.pendedTicks
  BY DEF TickEnded, TickGoesOn, Unblocking, Resuming
<1>3. NothingLeft'
  BY <1>1, <1>2 DEF PInv, NothingLeft, Still
<1>4. QED BY <1>1, <1>2, <1>3, InterruptStill

LEMMA TickPreempts == ASSUME IInv, PInv, OnTime(os), TickISR PROVE PInv'
<1>1. os.running /\ os.stage = "run" /\ UNCHANGED <<pc, locals>>
  BY DEF TickISR, InterruptsEnabled
<1>2. os \in Kernel /\ Sound(os)
  BY IInvFacts
<1>3. CASE os.suspended = 0
  <2>1. "unblockISR" \in Unblocking /\ os.stage \notin Unblocking
        /\ os.stage \notin Resuming
    BY <1>1 DEF Unblocking, Resuming
  <2>2. os' = IncrementTick(os, "unblockISR")
    BY <1>3 DEF TickISR
  <2>3. TickEnded(os, "unblockISR", os') \/ TickGoesOn(os, "unblockISR", os')
    BY <1>2, <2>1, <2>2, TickFlags
  <2>4. os'.fault = os.fault
    BY <1>1, <1>2, <2>1, <2>2, TickKeeps
  <2>5. QED BY <1>1, <1>3, <2>1, <2>3, <2>4, TickStill
<1>4. CASE os.suspended # 0
  <2>1. os' = [os EXCEPT !.pendedTicks = @ + 1] /\ os.suspended > 0
    BY <1>2, <1>4 DEF TickISR, Kernel
  <2>2. /\ Still(os, os') /\ SameProcessor(os, os') /\ os'.fault = os.fault
        /\ os'.pendSV = os.pendSV /\ os'.yieldPending = os.yieldPending
        /\ os'.switchReq = os.switchReq /\ os'.stage = os.stage
    BY <1>2, <2>1 DEF Kernel, Still, SameProcessor
  <2>3. NothingLeft'
    BY <2>1, <2>2 DEF SameProcessor, NothingLeft
  <2>4. os'.switchReq => os'.stage \in Unblocking
    BY <2>2 DEF PInv, HigherNoted
  <2>5. QED BY <1>1, <2>2, <2>3, <2>4, InterruptStill DEF Noted
<1>5. QED BY <1>3, <1>4

LEMMA ContextSwitchPreempts == ASSUME IInv, PInv, ContextSwitch PROVE PInv'
<1>1. /\ os.running /\ os.stage = "run" /\ UNCHANGED <<pc, locals>> /\ os.pendSV
      /\ os' = vTaskSwitchContext([os EXCEPT !.pendSV = FALSE])
  BY DEF ContextSwitch, InterruptsEnabled
<1>2. os \in Kernel /\ Sound(os) /\ os.current \in Tasks
  BY <1>1, StageFacts, IInvFacts
<1>3. PICK q : q = [os EXCEPT !.pendSV = FALSE]
  OBVIOUS
<1>4. q \in Kernel /\ SameLinks(os, q) /\ q.prio = os.prio
  BY <1>2, <1>3, ZenonT(60) DEF Kernel, SameLinks
<1>5. Sound(q)
  BY <1>2, <1>4, SameLinksSound
<1>6. /\ Still(os, q) /\ SameProcessor(os, q) /\ q.stage = os.stage
      /\ q.pendedTicks = os.pendedTicks /\ q.fault = os.fault
      /\ q.switchReq = os.switchReq /\ ~q.pendSV
  BY <1>2, <1>3 DEF Kernel, Still, SameProcessor
<1>7. q.current \in Tasks /\ Idle \in Tasks /\ q.stateList[Idle] \in Priorities
  BY <1>1, <1>2, <1>6, SomeTasks DEF SameProcessor, Still
<1>8. /\ Still(q, os') /\ os'.suspended = q.suspended /\ os'.yielded = q.yielded
      /\ os'.stage = q.stage /\ os'.pendedTicks = q.pendedTicks
      /\ os'.pendSV = q.pendSV /\ os'.switchReq = q.switchReq
      /\ os'.fault = q.fault
      /\ q.suspended # 0 => os'.yieldPending /\ os'.current = q.current
      /\ q.suspended = 0 =>
           /\ os'.current \in Tasks /\ q.stateList[os'.current] \in Priorities
           /\ \A t \in Tasks : IsReady(q, t) => q.prio[t] <= q.prio[os'.current]
  BY <1>1, <1>3, <1>5, <1>7, SwitchContextFields
<1>9. /\ Still(os, os') /\ os'.suspended = os.suspended
      /\ os'.stage = os.stage /\ os'.pendedTicks = os.pendedTicks
      /\ os'.switchReq = os.switchReq /\ os'.fault = os.fault
      /\ os.suspended # 0 => os'.yieldPending /\ os'.current = os.current
      /\ os.suspended = 0 =>
           /\ os'.current \in Tasks /\ os.stateList[os'.current] \in Priorities
           /\ \A t \in Tasks : IsReady(os, t) => os.prio[t] <= os.prio[os'.current]
  BY <1>6, <1>8 DEF Still, SameProcessor, IsReady
<1>10. UNCHANGED <<pc, target>>
  BY <1>1 DEF locals
<1>11. LinksInv'
  BY <1>9, <1>10, UnchangedGoOn, StillLinks DEF PInv
<1>12. CurrentReady'
  BY <1>1, <1>9, <1>10 DEF PInv, CurrentReady, Still
<1>13. NothingLeft'
  BY <1>9 DEF PInv, NothingLeft, Still
<1>14. HigherNoted'
  <2>1. os'.running /\ os'.basePrio = os'.prio
        /\ (os'.switchReq => os'.stage \in Unblocking)
    BY <1>1, <1>9 DEF PInv, HigherNoted, Still
  <2>2. ASSUME NEW t \in Tasks, IsReady(os', t), os'.prio[t] > os'.prio[os'.current]
        PROVE  Noted(os')
    <3>1. CASE os.suspended # 0
      BY <1>9, <3>1 DEF Noted
    <3>2. CASE os.suspended = 0
      <4>1. IsReady(os, t) /\ os.prio[t] > os.prio[os'.current]
        BY <1>9, <2>2 DEF IsReady, Still
      <4>2. os.prio[t] <= os.prio[os'.current] /\ os'.current \in Tasks
        BY <1>9, <3>2, <4>1
      <4>3. os.prio[t] \in Int /\ os.prio[os'.current] \in Int
        BY <1>2, <4>2, TasksAssumption DEF Kernel, Priorities
      <4>4. QED BY <4>1, <4>2, <4>3
    <3>3. QED BY <3>1, <3>2
  <2>3. QED BY <2>1, <2>2 DEF HigherNoted
<1>15. QED BY <1>9, <1>11, <1>12, <1>13, <1>14 DEF PInv
-----------------------------------------------------------------------------
(* Steps that ready a task.                                                *)

LEMMA ReadiedStep ==
  ASSUME IInv, PInv, os.running, NEW x \in Tasks, pc[x] \notin Dead, x # Idle,
         Readied(os, x, os'), CallsGoOn, pc'[Idle] = pc[Idle],
         pc[os.current] = "createYield" => UNCHANGED <<pc, target>>,
         CurrentReady'
  PROVE  PInv'
<1>1. /\ os \in Kernel /\ os.prio[x] \in Priorities /\ Sound(os)
      /\ os.stateList \in [Tasks -> StateLists \cup {NoList}]
      /\ os.eventList \in [Tasks -> ItemLists \cup {NoList}]
  BY IInvFacts DEF Kernel
<1>2. /\ \A u \in Tasks : os'.stateList[u] = IF u = x THEN os.prio[x]
                                                     ELSE os.stateList[u]
      /\ \A u \in Tasks : os'.eventList[u] = IF u = x THEN NoList
                                                     ELSE os.eventList[u]
  BY <1>1 DEF Readied
<1>3. NoList # xPendingReadyList
  BY DEF NoList, xPendingReadyList
<1>4. LinksInv'
  <2>1. os.prio[x] # NoList /\ os.prio[x] # xTasksWaitingTermination
    BY <1>1, ListsDiffer
  <2>2. \A u \in Tasks : StaysOrMoves(u)
    BY <1>2, <1>3, <2>1 DEF StaysOrMoves, Readied
  <2>3. QED BY <2>2, KeepLinks DEF Readied, PInv
<1>5. NothingLeft'
  BY <1>2, <1>3 DEF NothingLeft, PInv, Readied, SameProcessor
<1>6. HigherNoted'
  <2>1. os'.running /\ os'.basePrio = os'.prio /\ os'.current = os.current
        /\ (os'.switchReq => os'.stage \in Unblocking) /\ os'.prio = os.prio
        /\ (Noted(os) => Noted(os'))
        /\ (os.prio[x] > os.prio[os.current] => Noted(os'))
    BY DEF PInv, HigherNoted, Readied, SameProcessor
  <2>2. ASSUME NEW u \in Tasks, IsReady(os', u), os'.prio[u] > os'.prio[os'.current]
        PROVE  \/ Noted(os')
               \/ pc'[os'.current] = "createYield" /\ target'[os'.current] = u
    <3>1. CASE u = x
      BY <2>1, <2>2, <3>1
    <3>2. CASE u # x
      <4>1. IsReady(os, u) /\ os.prio[u] > os.prio[os.current]
        BY <1>2, <2>1, <2>2, <3>2 DEF IsReady
      <4>2. QED BY <2>1, <4>1 DEF PInv, HigherNoted
    <3>3. QED BY <3>1, <3>2
  <2>3. QED BY <2>1, <2>2 DEF HigherNoted
<1>7. QED BY <1>4, <1>5, <1>6 DEF PInv, Readied

\* An interrupt, a masked loop or a call that returns at once readies a task.
LEMMA ReadiedSilently ==
  ASSUME IInv, PInv, os.running, NEW x \in Tasks, pc[x] \notin Dead, x # Idle,
         Readied(os, x, os'), UNCHANGED <<pc, locals>>
  PROVE  PInv'
<1>1. UNCHANGED <<pc, target>>
  BY DEF locals
<1>2. CallsGoOn /\ pc'[Idle] = pc[Idle]
  BY <1>1, UnchangedGoOn
<1>3. /\ os \in Kernel /\ os.prio[x] \in Priorities /\ os.current \in Tasks
      /\ os.stateList \in [Tasks -> StateLists \cup {NoList}]
  BY IInvFacts, StageFacts DEF Kernel
<1>4. CurrentReady'
  <2>1. os'.current = os.current /\ os'.running
        /\ os'.suspended = os.suspended
    BY DEF Readied, SameProcessor
  <2>2. Leaving => Leaving'
    BY <1>1 DEF Leaving, Readied, SameProcessor
  <2>3. \/ os'.stateList[os.current] = os.stateList[os.current]
        \/ os'.stateList[os.current] \in Priorities
    BY <1>3 DEF Readied
  <2>4. QED BY <1>1, <2>1, <2>2, <2>3 DEF PInv, CurrentReady
<1>5. QED BY <1>1, <1>2, <1>4, ReadiedStep

LEMMA MaskedPreempts == ASSUME IInv, PInv, OnTime(os), MaskedStep PROVE PInv'
<1>1. UNCHANGED <<pc, locals>> /\ os.stage \in Loops
  BY DEF Loops, MaskedStep, DrainPendingReady, FinishPendingReady, ProcessPendedTick,
         FinishResumeAll, UnblockDelayed
<1>2. /\ os \in Kernel /\ Sound(os) /\ Good(os)
      /\ os.running /\ os.suspended = 0 /\ os.current \in Tasks
  BY <1>1, IInvFacts, StageFacts
<1>3. CASE DrainPendingReady
  <2>1. ~IsEmpty(os, xPendingReadyList) /\ os' = MovePendingReady(os)
    BY <1>3 DEF DrainPendingReady
  <2>2. \A u \in Tasks : os.eventList[u] = xPendingReadyList =>
                           os.stateList[u] # NoList
    BY DEF PInv, LinksInv, PendingSuspended, xSuspendedTaskList, NoList
  <2>3. PICK x \in Tasks :
          os.eventList[x] = xPendingReadyList /\ Readied(os, x, os')
    BY <1>2, <2>1, <2>2, MovePendingFields
  <2>4. x # Idle /\ pc[x] \notin Dead
    BY <1>2, <2>3
       DEF PInv, LinksInv, IdleReady, IInv, DeadUnlinked, xPendingReadyList, NoList
  <2>5. QED BY <1>1, <1>2, <2>3, <2>4, ReadiedSilently
<1>4. CASE FinishPendingReady
  <2>1. /\ os.stage = "drain" /\ IsEmpty(os, xPendingReadyList)
        /\ os' = EndPendingReady(os)
    BY <1>4 DEF FinishPendingReady
  <2>2. /\ Still(os, os') /\ SameProcessor(os, os')
        /\ os'.stage = "ticks" /\ os'.pendedTicks = os.pendedTicks
        /\ os'.pendSV = os.pendSV /\ os'.switchReq = os.switchReq
        /\ os'.yieldPending = os.yieldPending /\ os'.fault = os.fault
    BY <1>2, <2>1, EndPendingReadyFields
  <2>3. \A u \in Tasks : os.eventList[u] # xPendingReadyList
    <3>1. ItemsOf(os, xPendingReadyList) = {}
      BY <2>1 DEF ItemsOf, ToSet, IsEmpty, listLIST_IS_EMPTY
    <3>2. QED BY <1>2, <3>1, ListNames DEF Good, Consistent
  <2>4. NothingLeft'
    BY <2>2, <2>3 DEF NothingLeft, Resuming, Still
  <2>5. ~os.switchReq
    BY <2>1 DEF PInv, HigherNoted, Unblocking
  <2>6. os.stage \in Resuming <=> os'.stage \in Resuming
    BY <2>1, <2>2 DEF Resuming
  <2>7. QED BY <1>1, <1>2, <2>2, <2>4, <2>5, <2>6, InterruptStill DEF Noted
<1>5. CASE ProcessPendedTick
  <2>1. os.stage = "ticks" /\ os' = IncrementTick(os, "unblock")
    BY <1>5 DEF ProcessPendedTick
  <2>2. "unblock" \in Unblocking /\ os.stage \notin Unblocking
        /\ os.stage \in Resuming
    BY <2>1 DEF Unblocking, Resuming
  <2>3. TickEnded(os, "unblock", os') \/ TickGoesOn(os, "unblock", os')
    BY <1>2, <2>1, <2>2, TickFlags
  <2>4. os'.fault = os.fault
    BY <1>2, <2>1, <2>2, TickKeeps
  <2>5. QED BY <1>1, <1>2, <2>1, <2>2, <2>3, <2>4, TickStill
<1>6. CASE FinishResumeAll
  <2>1. os.stage = "ticks" /\ os.pendedTicks = 0 /\ os' = EndResumeAll(os)
    BY <1>6 DEF FinishResumeAll
  <2>2. /\ Still(os, os') /\ os'.current = os.current
        /\ os'.suspended = os.suspended
        /\ os'.stage = "run" /\ os'.pendedTicks = os.pendedTicks
        /\ os'.pendSV <=> os.pendSV \/ os.yieldPending
        /\ os'.switchReq = os.switchReq /\ os'.yieldPending = os.yieldPending
        /\ os'.fault = os.fault
        /\ os'.yielded[os.current] = os.yieldPending
    BY <1>2, <2>1, EndResumeAllFields
  <2>3. UNCHANGED <<pc, target>> /\ os'.running
    BY <1>1, <1>2, <2>2 DEF locals, Still
  <2>4. LinksInv'
    BY <2>2, <2>3, UnchangedGoOn, StillLinks DEF PInv
  <2>5. CurrentReady'
    <3>1. Leaving => Leaving'
      BY <2>2, <2>3 DEF Leaving
    <3>2. QED BY <2>2, <2>3, <3>1 DEF PInv, CurrentReady, Still
  <2>6. NothingLeft'
    BY <1>2, <2>1, <2>2 DEF PInv, NothingLeft, Still
  <2>7. ~os.switchReq
    BY <2>1 DEF PInv, HigherNoted, Unblocking
  <2>8. HigherNoted'
    BY <1>2, <2>2, <2>3, <2>7, StillPreempts DEF Noted
  <2>9. QED BY <2>2, <2>4, <2>5, <2>6, <2>8 DEF PInv
<1>7. CASE UnblockDelayed
  <2>1. /\ os.stage \in Unblocking /\ os.stage # "drain"
        /\ os' = UnblockExpired(os)
        /\ os.stage \in Resuming <=> os.stage = "unblock"
    BY <1>7 DEF UnblockDelayed, Unblocking, Resuming
  <2>2. os'.fault = os.fault
    BY <1>2, <2>1, UnblockKeeps
  <2>3. CASE TickEnded(os, os.stage, os')
    BY <1>1, <1>2, <2>1, <2>2, <2>3, TickStill
  <2>4. CASE \E t \in Tasks : os.stateList[t] = os.delayed /\ Readied(os, t, os')
    <3>1. PICK x \in Tasks : os.stateList[x] = os.delayed /\ Readied(os, x, os')
      BY <2>4
    <3>2. x # Idle /\ pc[x] \notin Dead
      BY <1>2, <3>1, ListsDiffer
         DEF PInv, LinksInv, IdleReady, IInv, DeadUnlinked, Kernel,
             xDelayedTaskList1, xDelayedTaskList2, NoList,
             xTasksWaitingTermination
    <3>3. QED BY <1>1, <1>2, <3>1, <3>2, ReadiedSilently
  <2>5. QED BY <1>2, <2>1, <2>3, <2>4, UnblockFlags
<1>8. QED BY <1>3, <1>4, <1>5, <1>6, <1>7 DEF MaskedStep
-----------------------------------------------------------------------------
(* Calls that move a task.                                                 *)

\* Task x is taken out of its list for another one that is not a ready list.
LEMMA UnreadiedStep ==
  ASSUME IInv, PInv, os.running, NEW x \in Tasks, pc[x] \notin Dead, x # Idle,
         \A u \in Tasks \ {x} : /\ os'.stateList[u] = os.stateList[u]
                                /\ os'.eventList[u] = os.eventList[u],
         os'.stateList[x] \notin Priorities,
         os'.stateList[x] # xTasksWaitingTermination,
         os'.stateList[x] = NoList =>
           \E v \in Tasks : pc'[v] = "abortEvent" /\ target'[v] = x,
         os'.eventList[x] = xPendingReadyList =>
           /\ os'.stateList[x] = xSuspendedTaskList
           /\ os.eventList[x] = xPendingReadyList \/ os.suspended > 0,
         os'.prio = os.prio, os'.basePrio = os.basePrio,
         os'.running = os.running, os'.numTasks = os.numTasks,
         os'.current = os.current, os'.suspended = os.suspended,
         os'.stage = os.stage, os'.pendedTicks = os.pendedTicks,
         os'.fault = os.fault, os'.switchReq = os.switchReq,
         Noted(os) => Noted(os'),
         CallsGoOn, pc'[Idle] = pc[Idle],
         pc[os.current] = "createYield" => UNCHANGED <<pc, target>>,
         CurrentReady'
  PROVE  PInv'
<1>1. os' \in Kernel \/ \A u \in Tasks : os'.prio[u] \in Priorities
  BY IInvFacts DEF Kernel
<1>2. LinksInv'
  <2>1. \A u \in Tasks : StaysOrMoves(u)
    BY DEF StaysOrMoves
  <2>2. QED BY <2>1, KeepLinks DEF PInv
<1>3. NothingLeft'
  BY DEF NothingLeft, PInv
<1>4. HigherNoted'
  <2>1. \A u \in Tasks : os.prio[u] \in Priorities
    BY IInvFacts DEF Kernel
  <2>2. ASSUME NEW u \in Tasks, IsReady(os', u)
        PROVE  IsReady(os, u)
    BY <2>1, <2>2 DEF IsReady
  <2>3. QED BY <2>2 DEF HigherNoted, PInv
<1>5. QED BY <1>2, <1>3, <1>4 DEF PInv

\* The current task blocks.
LEMMA DelayStepPreempts ==
  ASSUME IInv, PInv, OnTime(os), NEW t \in Tasks, Running(t),
         pc[t] \in {"delay", "delayUntil"}, NEW n \in Ticks, n > 0,
         os' = prvAddCurrentTaskToDelayedList(os, n, FALSE),
         pc' = [pc EXCEPT ![t] = "resumeThenYield"], UNCHANGED target
  PROVE  PInv'
<1>1. os \in Kernel /\ Sound(os) /\ pc = [u \in Tasks |-> pc[u]]
  BY IInvFacts
<1>2. /\ os.running /\ os.current = t /\ os.stage = "run"
      /\ os.stateList[t] \in Priorities
  BY RunningTask DEF Unlisted, Yielding
<1>3. t # Idle /\ os.suspended = 1 /\ os.stage \notin Unblocking
  BY <1>2, NotIdle
     DEF Entering, Unlisted, Yielding, PInv, CurrentReady, Unblocking
<1>4. os.stateList[t] # NoList /\ os.eventList[t] # xPendingReadyList
  BY <1>2, ListsDiffer DEF PInv, LinksInv, PendingSuspended
<1>5. /\ Settled(os, os') /\ os'.eventList = os.eventList
      /\ os'.stateList[t] \notin Priorities /\ os'.stateList[t] # NoList
      /\ os'.stateList[t] # xTasksWaitingTermination
      /\ \A u \in Tasks \ {t} : os'.stateList[u] = os.stateList[u]
  BY <1>1, <1>2, <1>4, DelaySettled
<1>6. os'.fault = os.fault
  BY <1>1, <1>2, <1>3, <1>4, DelayKeeps
<1>7. /\ os'.running /\ os'.current = os.current /\ os'.suspended = os.suspended
      /\ os'.stage = os.stage /\ os'.pendedTicks = os.pendedTicks
      /\ os'.prio = os.prio /\ os'.basePrio = os.basePrio
      /\ os'.numTasks = os.numTasks /\ os'.switchReq = os.switchReq
      /\ Noted(os) => Noted(os')
  BY <1>2, <1>5 DEF Settled, SameControl, SameFlags, Noted
<1>8. CurrentReady'
  BY <1>2, <1>3, <1>7, TaskCurrentReady DEF Entering, Unlisted, Yielding
<1>9. CallsGoOn /\ pc'[Idle] = pc[Idle]
  BY <1>3, TaskGoesOn DEF Dead
<1>10. pc[t] \notin Dead /\ pc[t] # "createYield"
  BY DEF Dead
<1>11. QED BY <1>2, <1>3, <1>4, <1>5, <1>6, <1>7, <1>8, <1>9, <1>10, UnreadiedStep

LEMMA DelayPreempts ==
  ASSUME IInv, PInv, OnTime(os), DelaysTimed, NEW t \in Tasks,
         DelayBlocks(t) \/ DelayUntilBlocks(t)
  PROVE  PInv'
<1>1. /\ os \in Kernel /\ Sound(os) /\ ticks \in [Tasks -> Ticks]
      /\ lastWake \in [Tasks -> Ticks]
  BY IInvFacts
<1>2. /\ Running(t) /\ pc[t] \in {"delay", "delayUntil"} /\ UNCHANGED target
      /\ pc' = [pc EXCEPT ![t] = "resumeThenYield"]
  BY DEF DelayBlocks, DelayUntilBlocks, At, Goto
<1>3. CASE DelayBlocks(t)
  <2>1. ticks[t] \in Ticks /\ ticks[t] > 0
    BY <1>1, <1>3 DEF DelayBlocks, At, DelaysTimed
  <2>2. os' = prvAddCurrentTaskToDelayedList(os, ticks[t], FALSE)
    BY <1>3 DEF DelayBlocks
  <2>3. QED BY <1>2, <2>1, <2>2, DelayStepPreempts
<1>4. CASE DelayUntilBlocks(t)
  <2> DEFINE wake == WrappingAdd(lastWake[t], ticks[t])
             n    == WrappingSub(wake, os.tick)
  <2>1. /\ lastWake[t] \in Ticks /\ ticks[t] \in Ticks /\ os.tick \in Ticks
        /\ Ticks \subseteq Int
    BY <1>1 DEF Kernel, Ticks
  <2>2. wake \in Ticks
    BY <2>1, WrappingAddTicks
  <2>3. os' = IF WakeIsAhead(os.tick, lastWake[t], wake)
                THEN prvAddCurrentTaskToDelayedList(os, n, FALSE)
                ELSE os
    BY <1>4 DEF DelayUntilBlocks
  <2> HIDE DEF wake
  <2>4. n \in Ticks
    BY <2>1, <2>2, WrappingAddTicks
  <2>5. CASE WakeIsAhead(os.tick, lastWake[t], wake)
    <3>1. wake # os.tick
      <4>1. wake \in Int /\ os.tick \in Int /\ lastWake[t] \in Int
        BY <2>1, <2>2
      <4>2. QED BY <2>5, <4>1 DEF WakeIsAhead
    <3>2. n > 0
      BY <2>1, <2>2, <3>1, TasksAssumption DEF WrappingSub, Ticks
    <3> HIDE DEF n
    <3>3. QED BY <1>2, <2>3, <2>4, <2>5, <3>2, DelayStepPreempts
  <2>6. CASE ~WakeIsAhead(os.tick, lastWake[t], wake)
    <3>1. os' = os
      BY <2>3, <2>6
    <3>2. os.running /\ os.current = t /\ os.stateList[t] \in Priorities
      BY <1>2, RunningTask DEF Unlisted, Yielding
    <3>3. t # Idle /\ os.suspended = 1
      BY <1>2, <3>2, NotIdle
         DEF Entering, Unlisted, Yielding, PInv, CurrentReady
    <3>4. Still(os, os') /\ (Noted(os) => Noted(os'))
      BY <3>1 DEF Still
    <3>5. CurrentReady'
      BY <1>2, <3>1, <3>2, <3>3, TaskCurrentReady
    <3>6. NothingLeft'
      BY <3>1 DEF NothingLeft, PInv
    <3>7. QED BY <1>2, <3>1, <3>2, <3>3, <3>4, <3>5, <3>6, TaskStill DEF Dead
  <2>7. QED BY <2>5, <2>6
<1>5. QED BY <1>3, <1>4

\* A handle is that of a living task, and not of the idle task.
LEMMA HandleFacts ==
  ASSUME IInv, NEW x \in Handles
  PROVE  x \in Tasks /\ x # Idle /\ pc[x] \notin Dead
BY DEF Handles, Dead

LEMMA SuspendTaskPreempts ==
  ASSUME IInv, PInv, NEW t \in Tasks, NEW x \in Handles, vTaskSuspend(t, x)
  PROVE  PInv'
<1> DEFINE u == RemoveEventIfLinked(RemoveState(os, x), x)
           a == AppendState(u, xSuspendedTaskList, x)
<1>1. /\ Running(t) /\ pc[t] = "app" /\ t # Idle
      /\ x = t => os.suspended = 0
      /\ os' = StopWaitingForNotification(a, x)
      /\ target' = [target EXCEPT ![t] = x]
      /\ pc' = [pc EXCEPT ![t] = "suspendReset"]
  BY DEF vTaskSuspend, MayCall, At, Goto
<1>2. x \in Tasks /\ x # Idle /\ pc[x] \notin Dead
  BY HandleFacts
<1>3. /\ os \in Kernel /\ Good(os) /\ pc = [v \in Tasks |-> pc[v]]
      /\ target \in [Tasks -> Tasks]
      /\ os.stateList \in [Tasks -> StateLists \cup {NoList}]
      /\ os.eventList \in [Tasks -> ItemLists \cup {NoList}]
  BY IInvFacts DEF Kernel
<1>4. /\ os.running /\ os.current = t /\ os.stateList[t] \in Priorities
      /\ os.stateList[x] # NoList
  BY <1>1, <1>2, RunningTask DEF Unlisted, Yielding
<1>5. Linking(os, u, [os.stateList EXCEPT ![x] = NoList],
                     [os.eventList EXCEPT ![x] = NoList])
  BY <1>2, <1>3, <1>4, UnlinkLinking
<1> HIDE DEF u
<1>6. /\ Good(u) /\ u.stateList = [os.stateList EXCEPT ![x] = NoList]
      /\ u.eventList = [os.eventList EXCEPT ![x] = NoList]
      /\ u.stateList[x] = NoList
  BY <1>2, <1>3, <1>5 DEF Linking
<1>7. xSuspendedTaskList \in StateLists /\ xSuspendedTaskList \notin DelayedLists
  BY ListNames, DelayedListNames
<1>8. Linking(u, a, [u.stateList EXCEPT ![x] = xSuspendedTaskList], u.eventList)
  BY <1>2, <1>6, <1>7, AppendStateLinking
<1> HIDE DEF a
<1>9. Linking(os, a, [u.stateList EXCEPT ![x] = xSuspendedTaskList], u.eventList)
  BY <1>5, <1>8, LinkingTransitive
<1>10. PICK N : os' = [a EXCEPT !.notifyState = N]
  <2>1. a \in Kernel
    BY <1>9 DEF Linking, Good
  <2>2. PICK v : v = IF a.notifyState[x] = "waiting" THEN "notWaiting"
                                                    ELSE a.notifyState[x]
    OBVIOUS
  <2>3. os' = [a EXCEPT !.notifyState[x] = v]
    BY <1>1, <2>1, <2>2 DEF StopWaitingForNotification, Kernel
  <2>4. os' = [a EXCEPT !.notifyState = [a.notifyState EXCEPT ![x] = v]]
    BY <2>1, <2>3 DEF Kernel
  <2>5. QED BY <2>4
<1>11. /\ os'.stateList = a.stateList /\ os'.eventList = a.eventList
       /\ os'.prio = a.prio /\ os'.basePrio = a.basePrio
       /\ os'.running = a.running /\ os'.numTasks = a.numTasks
       /\ os'.current = a.current /\ os'.suspended = a.suspended
       /\ os'.stage = a.stage /\ os'.pendedTicks = a.pendedTicks
       /\ os'.fault = a.fault /\ os'.switchReq = a.switchReq
       /\ os'.pendSV = a.pendSV /\ os'.yieldPending = a.yieldPending
  BY <1>9, <1>10 DEF Linking, Good, Kernel
<1>12. /\ os'.prio = os.prio /\ os'.basePrio = os.basePrio
       /\ os'.running = os.running /\ os'.numTasks = os.numTasks
       /\ os'.current = os.current /\ os'.suspended = os.suspended
       /\ os'.stage = os.stage /\ os'.pendedTicks = os.pendedTicks
       /\ os'.fault = os.fault /\ os'.switchReq = os.switchReq
       /\ Noted(os) => Noted(os')
  BY <1>9, <1>11 DEF Linking, Settled, SameControl, SameFlags, Noted
<1>13. /\ \A v \in Tasks : os'.stateList[v] = IF v = x THEN xSuspendedTaskList
                                                       ELSE os.stateList[v]
       /\ \A v \in Tasks : os'.eventList[v] = IF v = x THEN NoList
                                                       ELSE os.eventList[v]
  BY <1>3, <1>6, <1>9, <1>11 DEF Linking
<1>14. CurrentReady'
  <2>1. CASE x = t
    <3>1. pc'[t] = "suspendReset" /\ target'[t] = t
      BY <1>1, <1>3, <2>1
    <3>2. os'.suspended = 0 /\ Leaving'
      BY <1>1, <1>4, <1>12, <2>1, <3>1 DEF Leaving
    <3>3. QED BY <1>1, <1>4, <1>12, <3>2, TaskCurrentReady
       DEF Entering, Unlisted, Yielding
  <2>2. CASE x # t
    BY <1>1, <1>4, <1>12, <1>13, <2>2, TaskCurrentReady
       DEF Entering, Unlisted, Yielding
  <2>3. QED BY <2>1, <2>2
<1>15. CallsGoOn /\ pc'[Idle] = pc[Idle]
  <2>1. \A v \in Tasks \ {t} : target'[v] = target[v]
    BY <1>1, <1>3
  <2>2. QED BY <1>1, <2>1, TaskGoesOn DEF Dead
<1>16. /\ os'.stateList[x] \notin Priorities
       /\ os'.stateList[x] # xTasksWaitingTermination
       /\ os'.stateList[x] # NoList /\ os'.eventList[x] # xPendingReadyList
  BY <1>2, <1>13, ListsDiffer DEF xSuspendedTaskList, NoList, xPendingReadyList
<1>17. \A v \in Tasks \ {x} : /\ os'.stateList[v] = os.stateList[v]
                              /\ os'.eventList[v] = os.eventList[v]
  BY <1>13
<1>18. pc[os.current] # "createYield"
  BY <1>1, <1>4
<1>19. QED BY <1>2, <1>4, <1>12, <1>14, <1>15, <1>16, <1>17, <1>18, UnreadiedStep

LEMMA ResumeTaskPreempts ==
  ASSUME IInv, PInv, NEW t \in Tasks, NEW x \in Handles, vTaskResume(t, x)
  PROVE  PInv'
<1> DEFINE q      == prvAddTaskToReadyList(RemoveState(os, x), x)
           higher == os.prio[x] > os.prio[os.current]
<1>1. /\ Running(t) /\ UNCHANGED <<pc, locals>>
      /\ os.stateList[x] = xSuspendedTaskList /\ os.eventList[x] = NoList
      /\ os' = YieldIf(q, higher)
  BY DEF vTaskResume, prvTaskIsTaskSuspended, MayCall, At
<1>2. x \in Tasks /\ x # Idle /\ pc[x] \notin Dead
  BY HandleFacts
<1>3. /\ os \in Kernel /\ Good(os) /\ os.current = t /\ os.running
      /\ os.eventList \in [Tasks -> ItemLists \cup {NoList}]
  BY <1>1, IInvFacts, RunningTask DEF Kernel
<1>4. xSuspendedTaskList # NoList
  BY DEF xSuspendedTaskList, NoList
<1>5. Linking(os, q, [os.stateList EXCEPT ![x] = os.prio[x]], os.eventList)
  BY <1>1, <1>2, <1>3, <1>4, MoveToReadyLinking
<1> HIDE DEF q
<1>6. os.eventList = [os.eventList EXCEPT ![x] = NoList]
  BY <1>1, <1>3
<1>7. Linking(os, q, [os.stateList EXCEPT ![x] = os.prio[x]],
                     [os.eventList EXCEPT ![x] = NoList])
  BY <1>5, <1>6
<1>8. higher \in BOOLEAN
  BY <1>2, <1>3, PriorityComparison
<1>9. q \in Kernel
  BY <1>5 DEF Linking, Good
<1>10. Flagged(q, YieldIf(q, higher)) /\ (higher => YieldIf(q, higher).pendSV)
  <2> HIDE DEF higher
  <2>1. QED BY <1>8, <1>9, YieldFlagged
<1>11. os.prio[x] > os.prio[os.current] => Noted(os')
  BY <1>1, <1>10 DEF Noted
<1>12. Flagged(q, os')
  BY <1>1, <1>10
<1> HIDE DEF higher
<1>13. Readied(os, x, os')
  BY <1>2, <1>7, <1>11, <1>12, ReadiedByLinking
<1>14. QED BY <1>1, <1>2, <1>3, <1>13, ReadiedSilently

LEMMA ResumeFromISRPreempts ==
  ASSUME IInv, PInv, NEW x \in Handles, xTaskResumeFromISR(x)
  PROVE  PInv'
<1>1. /\ os.running /\ UNCHANGED <<pc, locals>>
      /\ os.stateList[x] = xSuspendedTaskList /\ os.eventList[x] = NoList
  BY DEF xTaskResumeFromISR, prvTaskIsTaskSuspended, InterruptsEnabled
<1>2. x \in Tasks /\ x # Idle /\ pc[x] \notin Dead
  BY HandleFacts
<1>3. /\ os \in Kernel /\ Good(os) /\ os.current \in Tasks
      /\ os.stateList \in [Tasks -> StateLists \cup {NoList}]
      /\ os.eventList \in [Tasks -> ItemLists \cup {NoList}]
      /\ os.suspended \in Nat /\ Sound(os)
  BY <1>1, IInvFacts, StageFacts DEF Kernel
<1>4. PICK higher \in BOOLEAN : higher = (os.prio[x] > os.prio[os.current])
  <2>1. (os.prio[x] > os.prio[os.current]) \in BOOLEAN
    BY <1>2, <1>3, PriorityComparison
  <2>2. QED BY <2>1
<1>5. CASE os.suspended = 0
  <2>1. PICK yields \in {FALSE, higher} :
          os' = YieldIf(prvAddTaskToReadyList(
                          RemoveState(PendYieldIf(os, higher), x), x), yields)
    BY <1>4, <1>5 DEF xTaskResumeFromISR
  <2> DEFINE q == PendYieldIf(os, higher)
             r == prvAddTaskToReadyList(RemoveState(q, x), x)
  <2>2. Flagged(os, q) /\ (higher => q.yieldPending)
    BY <1>3, <1>4, YieldFlagged
  <2>3. Good(q)
    BY <1>3, <1>4, YieldSound DEF Sound
  <2> HIDE DEF q
  <2>4. /\ q.stateList = os.stateList /\ q.eventList = os.eventList
        /\ q.prio = os.prio /\ q.stateList[x] # NoList
    BY <1>1, <2>2 DEF Flagged, Still, xSuspendedTaskList, NoList
  <2>5. Linking(q, r, [q.stateList EXCEPT ![x] = q.prio[x]], q.eventList)
    BY <1>2, <2>3, <2>4, MoveToReadyLinking
  <2> HIDE DEF r
  <2>6. q.eventList = [q.eventList EXCEPT ![x] = NoList]
    BY <1>1, <1>3, <2>4
  <2>7. Linking(q, r, [q.stateList EXCEPT ![x] = q.prio[x]],
                      [q.eventList EXCEPT ![x] = NoList])
    BY <2>5, <2>6
  <2>8. r \in Kernel /\ os' = YieldIf(r, yields) /\ yields \in BOOLEAN
    BY <1>4, <2>1, <2>5 DEF Linking, Good, q, r
  <2>9. Flagged(r, os')
    BY <2>8, YieldFlagged
  <2>10. q.prio[x] > q.prio[q.current] => Noted(os')
    <3>1. q.current = os.current
      BY <2>2 DEF Flagged, SameProcessor
    <3>2. q.yieldPending => Noted(os')
      BY <2>5, <2>9 DEF Linking, Settled, SameFlags, Flagged, Noted
    <3>3. QED BY <1>4, <2>2, <2>4, <3>1, <3>2
  <2>11. Readied(q, x, os')
    BY <1>2, <2>7, <2>9, <2>10, ReadiedByLinking
  <2>12. Readied(os, x, os')
    BY <2>2, <2>11 DEF Readied, Flagged, Still, SameProcessor
  <2>13. QED BY <1>1, <1>2, <2>12, ReadiedSilently
<1>6. CASE os.suspended # 0
  <2>1. os' = AppendEvent(os, xPendingReadyList, x) /\ os.suspended > 0
    BY <1>3, <1>6 DEF xTaskResumeFromISR
  <2>2. Linking(os, os', os.stateList,
                [os.eventList EXCEPT ![x] = xPendingReadyList])
    BY <1>1, <1>2, <1>3, <2>1, ListNames, AppendEventLinking
  <2>3. /\ os'.prio = os.prio /\ os'.basePrio = os.basePrio
        /\ os'.running = os.running /\ os'.numTasks = os.numTasks
        /\ os'.current = os.current /\ os'.suspended = os.suspended
        /\ os'.stage = os.stage /\ os'.pendedTicks = os.pendedTicks
        /\ os'.fault = os.fault /\ os'.switchReq = os.switchReq
        /\ os'.pendSV = os.pendSV /\ os'.yielded = os.yielded
        /\ os'.stateList = os.stateList
        /\ Noted(os) => Noted(os')
    BY <2>2 DEF Linking, Settled, SameControl, SameFlags, Noted
  <2>4. UNCHANGED <<pc, target>>
    BY <1>1 DEF locals
  <2>5. CallsGoOn /\ pc'[Idle] = pc[Idle]
    BY <2>4, UnchangedGoOn
  <2>6. CurrentReady'
    <3>1. Leaving => Leaving'
      BY <2>3, <2>4 DEF Leaving
    <3>2. QED BY <2>3, <2>4, <3>1 DEF PInv, CurrentReady
  <2>7. \A u \in Tasks \ {x} : /\ os'.stateList[u] = os.stateList[u]
                               /\ os'.eventList[u] = os.eventList[u]
    BY <1>3, <2>2 DEF Linking
  <2>8. /\ os'.stateList[x] = xSuspendedTaskList
        /\ os'.stateList[x] \notin Priorities
        /\ os'.stateList[x] # xTasksWaitingTermination
        /\ os'.stateList[x] # NoList
    BY <1>1, <2>3, ListsDiffer DEF xSuspendedTaskList, NoList
  <2>9. QED BY <1>1, <1>2, <2>1, <2>3, <2>4, <2>5, <2>6, <2>7, <2>8, UnreadiedStep
<1>7. QED BY <1>5, <1>6

\* A new priority is noted by the yield of the call.
LEMMA PrioritySetPreempts ==
  ASSUME IInv, PInv, NEW t \in Tasks, NEW x \in Handles, NEW p \in NewPriorities,
         vTaskPrioritySet(t, x, p)
  PROVE  PInv'
<1> DEFINE v == configMAX_PRIORITIES - p
           r == Reprioritised(os, x, p, p, v)
<1>1. Running(t) /\ pc[t] = "app" /\ UNCHANGED <<pc, locals>>
  BY DEF vTaskPrioritySet, MayCall, At
<1>2. x \in Tasks /\ x # Idle /\ pc[x] \notin Dead
  BY HandleFacts
<1>3. /\ os \in Kernel /\ Good(os) /\ Sound(os) /\ Orderly(os)
      /\ os.current = t /\ os.running /\ os.stateList[t] \in Priorities
      /\ ~os.switchReq
      /\ os.stateList \in [Tasks -> StateLists \cup {NoList}]
      /\ os.prio \in [Tasks -> Priorities] /\ Priorities \subseteq Int
  BY <1>1, IInvFacts, RunningTask, TasksAssumption
     DEF Unlisted, Yielding, Kernel, Sound, Priorities
<1>4. p \in Priorities /\ v \in 1..configMAX_PRIORITIES
  BY SchedulerAssumption, TasksAssumption DEF Priorities
<1>5. os.basePrio = os.prio
  BY DEF PInv, HigherNoted
<1>6. PICK yields \in BOOLEAN :
        yields = IF p > os.prio[x] THEN x # t /\ p > os.prio[t] ELSE x = t
  <2>1. p \in Int /\ os.prio[x] \in Int /\ os.prio[t] \in Int
    BY <1>2, <1>3, <1>4
  <2>2. (IF p > os.prio[x] THEN x # t /\ p > os.prio[t] ELSE x = t) \in BOOLEAN
    BY <2>1
  <2>3. QED BY <2>2
<1>7. os' = YieldIf(r, yields) /\ p # os.prio[x]
  BY <1>5, <1>6 DEF vTaskPrioritySet, Reprioritised
<1> HIDE DEF v
<1>8. ReprioritisedAs(os, x, p, p, r)
  BY <1>2, <1>3, <1>4, ReprioritisedFields
<1>9. /\ r \in Kernel
      /\ r.stateList = [os.stateList EXCEPT ![x] = IF IsReady(os, x) THEN p ELSE @]
      /\ r.eventList = os.eventList
      /\ r.prio = [os.prio EXCEPT ![x] = p]
      /\ r.basePrio = [os.basePrio EXCEPT ![x] = p]
      /\ r.running = os.running /\ SameFlags(os, r) /\ SameProcessor(os, r)
      /\ r.stage = os.stage /\ r.pendedTicks = os.pendedTicks
      /\ r.fault = os.fault
  BY <1>8 DEF ReprioritisedAs
<1> HIDE DEF r
<1>10. Flagged(r, os') /\ (yields => os'.pendSV)
  BY <1>7, <1>9, YieldFlagged
<1>11. /\ os'.eventList = os.eventList /\ os'.prio = [os.prio EXCEPT ![x] = p]
       /\ os'.basePrio = os'.prio /\ os'.running /\ os'.numTasks = os.numTasks
       /\ os'.current = t /\ os'.suspended = os.suspended
       /\ os'.stage = os.stage /\ os'.pendedTicks = os.pendedTicks
       /\ os'.fault = os.fault /\ ~os'.switchReq
       /\ (Noted(os) => Noted(os')) /\ (yields => Noted(os'))
  BY <1>3, <1>5, <1>9, <1>10
     DEF Flagged, Still, SameProcessor, SameFlags, Noted
<1>12. /\ os'.stateList[x] = IF IsReady(os, x) THEN p ELSE os.stateList[x]
       /\ \A u \in Tasks \ {x} : os'.stateList[u] = os.stateList[u]
       /\ os'.prio[x] = p
       /\ \A u \in Tasks \ {x} : os'.prio[u] = os.prio[u]
  BY <1>2, <1>3, <1>9, <1>10, <1>11 DEF Flagged, Still
<1>13. UNCHANGED <<pc, target>>
  BY <1>1 DEF locals
<1>14. LinksInv'
  <2>1. os'.stateList[x] # xTasksWaitingTermination
    BY <1>2, <1>4, <1>12, LiveNotEnding, ListsDiffer
  <2>2. os'.eventList[x] = xPendingReadyList =>
          os'.stateList[x] = xSuspendedTaskList
    BY <1>2, <1>3, <1>11, <1>12, ListsDiffer
       DEF PInv, LinksInv, PendingSuspended, IsReady
  <2>3. os'.stateList[x] = NoList =>
          \E u \in Tasks : pc'[u] = "abortEvent" /\ target'[u] = x
    BY <1>2, <1>4, <1>12, <1>13, ListsDiffer DEF PInv, LinksInv, LiveLinked
  <2>4. \A u \in Tasks : StaysOrMoves(u)
    BY <1>2, <1>11, <1>12, <2>1, <2>2, <2>3 DEF StaysOrMoves
  <2>5. CallsGoOn /\ pc'[Idle] = pc[Idle]
    BY <1>13, UnchangedGoOn
  <2>6. QED BY <1>3, <1>11, <2>4, <2>5, KeepLinks DEF PInv
<1>15. CurrentReady'
  <2>1. os'.stateList[t] \in Priorities
    <3>1. os.stateList[t] = os.prio[t]
      BY <1>3 DEF Orderly
    <3>2. QED BY <1>3, <1>4, <1>12, <3>1 DEF IsReady
  <2>2. pc' = [pc EXCEPT ![t] = "app"]
    BY <1>1, SelfPc
  <2>3. QED BY <1>1, <1>11, <2>1, <2>2, TaskCurrentReady
     DEF Entering, Unlisted, Yielding
<1>16. NothingLeft'
  BY <1>11 DEF PInv, NothingLeft
<1>17. HigherNoted'
  <2>1. ASSUME NEW u \in Tasks, IsReady(os', u), os'.prio[u] > os'.prio[t]
        PROVE  Noted(os')
    <3>1. /\ p \in Int /\ os.prio[x] \in Int /\ os.prio[t] \in Int
          /\ os.prio[u] \in Int
      BY <1>2, <1>3, <1>4
    <3>2. \A w \in Tasks :
            IsReady(os, w) /\ os.prio[w] > os.prio[t] => Noted(os')
      BY <1>1, <1>3, <1>11 DEF PInv, HigherNoted
    <3>3. yields => Noted(os')
      BY <1>11
    <3>4. u # x => IsReady(os, u)
      BY <1>12, <2>1 DEF IsReady
    <3>5. u = x => IsReady(os, x)
      <4>1. CASE u = x /\ ~IsReady(os, x)
        <5>1. os.stateList[x] = p
          BY <1>12, <2>1, <4>1 DEF IsReady
        <5>2. os.stateList[x] = os.prio[x]
          BY <1>2, <1>3, <1>4, <5>1 DEF Orderly
        <5>3. QED BY <4>1, <5>2 DEF IsReady
      <4>2. QED BY <4>1
    <3>6. CASE x = t
      <4>1. u # t /\ os.prio[u] > p
        BY <1>12, <2>1, <3>1, <3>6
      <4>2. CASE p > os.prio[x]
        <5>1. os.prio[u] > os.prio[t]
          BY <3>1, <3>6, <4>1, <4>2
        <5>2. QED BY <3>2, <3>4, <3>6, <4>1, <5>1
      <4>3. CASE ~(p > os.prio[x])
        BY <1>6, <3>3, <3>6, <4>3
      <4>4. QED BY <4>2, <4>3
    <3>7. CASE x # t /\ u = x
      <4>1. p > os.prio[t]
        BY <1>12, <2>1, <3>7
      <4>2. CASE p > os.prio[x]
        BY <1>6, <3>3, <3>7, <4>1, <4>2
      <4>3. CASE ~(p > os.prio[x])
        <5>1. os.prio[x] > os.prio[t]
          BY <3>1, <4>1, <4>3
        <5>2. QED BY <1>2, <3>2, <3>5, <3>7, <5>1
      <4>4. QED BY <4>2, <4>3
    <3>8. CASE x # t /\ u # x
      <4>1. os.prio[u] > os.prio[t]
        BY <1>12, <2>1, <3>8
      <4>2. QED BY <3>2, <3>4, <3>8, <4>1
    <3>9. QED BY <3>6, <3>7, <3>8
  <2>2. QED BY <1>11, <2>1 DEF HigherNoted
<1>18. QED BY <1>11, <1>14, <1>15, <1>16, <1>17 DEF PInv

\* A blocked task is not the current one, nor in the pending ready list.
LEMMA AbortUnlinksPreempts ==
  ASSUME IInv, PInv, NEW t \in Tasks, AbortUnlinksState(t)
  PROVE  PInv'
<1>1. PICK x : x = target[t]
  OBVIOUS
<1>2. /\ Running(t) /\ pc[t] = "abort" /\ UNCHANGED locals
      /\ target' = target /\ target'[t] = x
  BY <1>1 DEF AbortUnlinksState, At, locals
<1>3. /\ os \in Kernel /\ Good(os) /\ x \in Tasks /\ pc[x] \notin Dead
      /\ os.stateList \in [Tasks -> StateLists \cup {NoList}]
      /\ pc = [u \in Tasks |-> pc[u]]
  BY <1>1, <1>2, IInvFacts DEF IInv, CallsValid, Kernel
<1>4. /\ os.running /\ os.current = t /\ os.stateList[t] \in Priorities
      /\ t # Idle
  BY <1>2, RunningTask, NotIdle DEF Unlisted, Yielding
<1>5. CASE IsBlocked(os, x)
  <2>1. os' = RemoveState(os, x) /\ pc' = [pc EXCEPT ![t] = "abortEvent"]
    BY <1>1, <1>5 DEF AbortUnlinksState, Goto
  <2>2. /\ x # t /\ os.eventList[x] # xPendingReadyList
        /\ os.stateList[x] \in {xDelayedTaskList1, xDelayedTaskList2,
                                xSuspendedTaskList}
    BY <1>4, <1>5 DEF IsBlocked
  <2>3. os.stateList[x] # NoList /\ x # Idle
    <3>1. 0 \in Priorities
      BY <1>4, SomeTasks
    <3>2. os.stateList[x] # NoList /\ os.stateList[x] # 0
      BY <2>2, <3>1, ListsDiffer, TasksAssumption
         DEF Priorities, xDelayedTaskList1, xDelayedTaskList2,
             xSuspendedTaskList, NoList
    <3>3. QED BY <1>4, <3>2 DEF PInv, LinksInv, IdleReady
  <2>4. Linking(os, os', [os.stateList EXCEPT ![x] = NoList], os.eventList)
    BY <1>3, <2>1, <2>3, RemoveStateLinking
  <2>5. /\ os'.prio = os.prio /\ os'.basePrio = os.basePrio
        /\ os'.running = os.running /\ os'.numTasks = os.numTasks
        /\ os'.current = os.current /\ os'.suspended = os.suspended
        /\ os'.stage = os.stage /\ os'.pendedTicks = os.pendedTicks
        /\ os'.fault = os.fault /\ os'.switchReq = os.switchReq
        /\ os'.eventList = os.eventList
        /\ (Noted(os) => Noted(os'))
    BY <2>4 DEF Linking, Settled, SameControl, SameFlags, Noted
  <2>6. /\ os'.stateList[x] = NoList
        /\ \A u \in Tasks \ {x} : os'.stateList[u] = os.stateList[u]
    BY <1>3, <2>4 DEF Linking
  <2>7. CurrentReady'
    BY <1>2, <1>4, <2>1, <2>2, <2>5, <2>6, TaskCurrentReady
       DEF Entering, Unlisted, Yielding
  <2>8. CallsGoOn /\ pc'[Idle] = pc[Idle]
    BY <1>2, <1>4, <2>1, TaskGoesOn DEF Dead
  <2>9. pc'[t] = "abortEvent" /\ target'[t] = x
    BY <1>2, <1>3, <2>1
  <2>10. /\ os'.stateList[x] \notin Priorities
         /\ os'.stateList[x] # xTasksWaitingTermination
         /\ os'.eventList[x] # xPendingReadyList
    BY <2>2, <2>5, <2>6, ListsDiffer
  <2>11. pc[os.current] # "createYield"
    BY <1>2, <1>4
  <2>12. \A u \in Tasks \ {x} : /\ os'.stateList[u] = os.stateList[u]
                                /\ os'.eventList[u] = os.eventList[u]
    BY <2>5, <2>6
  <2>13. QED BY <1>3, <1>4, <2>3, <2>5, <2>7, <2>8, <2>9, <2>10, <2>11, <2>12,
                UnreadiedStep
<1>6. CASE ~IsBlocked(os, x)
  <2>1. os' = os /\ pc' = [pc EXCEPT ![t] = "resumeThenReturn"]
    BY <1>1, <1>6 DEF AbortUnlinksState, Goto
  <2>2. Still(os, os') /\ (Noted(os) => Noted(os'))
    BY <2>1 DEF Still
  <2>3. CurrentReady'
    BY <1>2, <1>4, <2>1, TaskCurrentReady DEF Entering, Unlisted, Yielding
  <2>4. NothingLeft'
    BY <2>1 DEF NothingLeft, PInv
  <2>5. QED BY <1>2, <1>4, <2>1, <2>2, <2>3, <2>4, TaskStill DEF Dead
<1>7. QED BY <1>5, <1>6

LEMMA AbortReadiesPreempts ==
  ASSUME IInv, PInv, NEW t \in Tasks, AbortMakesReady(t)
  PROVE  PInv'
<1>1. PICK x : x = target[t]
  OBVIOUS
<1> DEFINE aborted == IF os.eventList[x] = NoList
                        THEN os
                        ELSE [RemoveEvent(os, x) EXCEPT !.delayAborted[x] = TRUE]
           higher  == os.prio[x] > os.prio[os.current]
           r       == prvAddTaskToReadyList(aborted, x)
           S       == [os.stateList EXCEPT ![x] = NoList]
           E       == [os.eventList EXCEPT ![x] = NoList]
<1>2. /\ Running(t) /\ pc[t] = "abortEvent"
      /\ target' = [target EXCEPT ![t] = t]
      /\ os' = PendYieldIf(r, higher)
      /\ pc' = [pc EXCEPT ![t] = "resumeThenReturn"]
  BY <1>1 DEF AbortMakesReady, At, Goto
<1>3. /\ os \in Kernel /\ Good(os) /\ x \in Tasks /\ pc[x] \notin Dead
      /\ os.stateList[x] = NoList
      /\ os.stateList \in [Tasks -> StateLists \cup {NoList}]
      /\ os.eventList \in [Tasks -> ItemLists \cup {NoList}]
      /\ pc = [u \in Tasks |-> pc[u]] /\ target \in [Tasks -> Tasks]
      /\ os.prio[x] \in Priorities
  BY <1>1, <1>2, IInvFacts DEF IInv, CallsValid, Kernel
<1>4. /\ os.running /\ os.current = t /\ os.stateList[t] \in Priorities
      /\ t # Idle
  BY <1>2, RunningTask, NotIdle DEF Unlisted, Yielding
<1>5. x # Idle /\ x # t
  BY <1>3, <1>4, SomeTasks, ListsDiffer
<1>6. S = os.stateList
  BY <1>3
<1>7. Linking(os, aborted, S, E)
  <2> HIDE DEF E, S
  <2>1. CASE os.eventList[x] = NoList
    <3>1. E = os.eventList /\ aborted = os
      BY <1>3, <2>1 DEF E
    <3> HIDE DEF aborted
    <3>2. QED BY <1>3, <1>6, <3>1
              DEF Linking, Settled, SameControl, SameFlags
  <2>2. CASE os.eventList[x] # NoList
    <3>1. PICK q : q = RemoveEvent(os, x)
      OBVIOUS
    <3>2. Linking(os, q, os.stateList, E)
      BY <1>3, <2>2, <3>1, RemoveEventLinking DEF E
    <3>3. aborted = [q EXCEPT !.delayAborted[x] = TRUE]
      BY <2>2, <3>1
    <3>4. Good(q) /\ q \in Kernel /\ q.delayAborted \in [Tasks -> BOOLEAN]
      BY <3>2 DEF Linking, Good, Kernel
    <3> HIDE DEF aborted
    <3>5. aborted \in Kernel
      BY <1>3, <3>3, <3>4, ZenonT(60) DEF Kernel
    <3>6. SameLinks(q, aborted) /\ Settled(q, aborted) /\ aborted.fault = q.fault
      BY <3>3, <3>4 DEF Kernel, SameLinks, Settled, SameControl, SameFlags
    <3>7. Good(aborted)
      BY <3>4, <3>5, <3>6, SameLinksConsistent DEF Good
    <3>8. Linking(q, aborted, os.stateList, E)
      BY <3>2, <3>6, <3>7 DEF Linking, SameLinks
    <3>9. QED BY <1>6, <3>2, <3>8, LinkingTransitive
  <2>3. QED BY <2>1, <2>2
<1> HIDE DEF aborted
<1>8. Linking(os, r, [os.stateList EXCEPT ![x] = os.prio[x]], E)
  BY <1>3, <1>7, UnlinkThenReady
<1> HIDE DEF r
<1>9. higher \in BOOLEAN /\ r \in Kernel
  BY <1>3, <1>4, <1>8, PriorityComparison DEF Linking, Good
<1>10. Flagged(r, os') /\ (higher => os'.yieldPending)
  <2> HIDE DEF higher
  <2>1. QED BY <1>2, <1>9, YieldFlagged
<1>11. os.prio[x] > os.prio[os.current] => Noted(os')
  BY <1>10 DEF Noted
<1> HIDE DEF higher
<1>12. Readied(os, x, os')
  BY <1>3, <1>8, <1>10, <1>11, ReadiedByLinking
<1>13. /\ os'.stateList[x] = os.prio[x] /\ os'.stateList[t] = os.stateList[t]
       /\ os'.running /\ os'.current = t
  BY <1>3, <1>4, <1>5, <1>12 DEF Readied, SameProcessor
<1>14. CurrentReady'
  BY <1>2, <1>4, <1>13, TaskCurrentReady DEF Entering, Unlisted, Yielding
<1>15. CallsGoOn /\ pc'[Idle] = pc[Idle]
  <2>1. os'.stateList[target[t]] # NoList
    BY <1>1, <1>3, <1>13, ListsDiffer
  <2>2. \A u \in Tasks \ {t} : target'[u] = target[u]
    BY <1>2, <1>3
  <2>3. QED BY <1>2, <1>4, <2>1, <2>2, TaskGoesOn DEF Dead
<1>16. pc[os.current] # "createYield"
  BY <1>2, <1>4
<1>17. QED BY <1>3, <1>4, <1>5, <1>12, <1>14, <1>15, <1>16, ReadiedStep
-----------------------------------------------------------------------------
(* Creating tasks.                                                         *)

\* A new task is linked and counted.
LEMMA NewTaskLinks ==
  ASSUME IInv, PInv, NEW x \in Tasks, pc[x] = "none", NEW p \in Priorities,
         os'.stateList = [os.stateList EXCEPT ![x] = p],
         os'.eventList = os.eventList, os'.numTasks = os.numTasks + 1,
         pc'[x] = "app",
         \A u \in Tasks : u # x =>
           /\ pc[u] # "abortEvent"
           /\ pc'[u] = pc[u] \/ (pc[u] = "app" /\ pc'[u] = "createYield"),
         IdleReady'
  PROVE  LinksInv'
<1>1. /\ os.stateList[x] = NoList /\ os.eventList[x] = NoList
      /\ os.stateList \in [Tasks -> StateLists \cup {NoList}]
  BY IInvFacts DEF IInv, DeadUnlinked, Dead, Kernel
<1>2. /\ os'.stateList[x] = p
      /\ \A u \in Tasks : u # x => os'.stateList[u] = os.stateList[u]
  BY <1>1
<1>3. p # NoList /\ p # xTasksWaitingTermination
      /\ NoList # xPendingReadyList
  BY ListsDiffer DEF NoList, xPendingReadyList
<1>4. LiveLinked'
  <2>1. ASSUME NEW u \in Tasks, pc'[u] \notin Dead
        PROVE  os'.stateList[u] # NoList
    <3>1. CASE u = x
      BY <1>2, <1>3, <3>1
    <3>2. CASE u # x
      <4>1. pc[u] \notin Dead
        BY <2>1, <3>2 DEF Dead
      <4>2. \A v \in Tasks : pc[v] # "abortEvent"
        OBVIOUS
      <4>3. QED BY <1>2, <3>2, <4>1, <4>2 DEF PInv, LinksInv, LiveLinked
    <3>3. QED BY <3>1, <3>2
  <2>2. QED BY <2>1 DEF LiveLinked
<1>5. PendingSuspended'
  BY <1>1, <1>2, <1>3 DEF PInv, LinksInv, PendingSuspended
<1>6. TasksCounted'
  <2>1. /\ IsFiniteSet(Counted) /\ os.numTasks = Cardinality(Counted)
        /\ \A u \in Tasks :
             pc[u] = "deleteYield" => os.stateList[u] = xTasksWaitingTermination
    BY DEF PInv, LinksInv, TasksCounted
  <2>2. x \notin Counted
    BY <1>1, ListsDiffer DEF Counted, Gone
  <2>3. Counted' = Counted \cup {x}
    <3>1. ASSUME NEW u \in Tasks
          PROVE  u \in Counted' <=> u \in Counted \cup {x}
      BY <1>2 DEF Counted, Gone
    <3>2. QED BY <3>1 DEF Counted
  <2>4. /\ IsFiniteSet(Counted \cup {x})
        /\ Cardinality(Counted \cup {x}) = Cardinality(Counted) + 1
    BY <2>1, <2>2, FS_AddElement
  <2>5. \A u \in Tasks :
          pc'[u] = "deleteYield" => os'.stateList[u] = xTasksWaitingTermination
    BY <1>2, <2>1
  <2>6. QED BY <2>1, <2>3, <2>4, <2>5 DEF TasksCounted
<1>7. QED BY <1>4, <1>5, <1>6 DEF LinksInv

\* Before the scheduler runs, the current task is a ready one of the highest
\* priority.
LEMMA NewCurrent ==
  ASSUME IInv, PInv, ~os.running, NEW x \in Tasks, pc[x] = "none",
         NEW p \in Priorities, NEW r, r.current \in Tasks, CreatedAs(os, x, p, r)
  PROVE  /\ r.stateList[r.current] \in Priorities
         /\ \A u \in Tasks : IsReady(r, u) => r.prio[u] <= r.prio[r.current]
         /\ r.basePrio = r.prio
<1>1. /\ os.stateList[x] = NoList
      /\ os.stateList \in [Tasks -> StateLists \cup {NoList}]
      /\ os.prio \in [Tasks -> Priorities] /\ Priorities \subseteq Int
      /\ NoTask \notin Tasks
  BY IInvFacts, TasksAssumption DEF IInv, DeadUnlinked, Dead, Kernel, Priorities
<1>2. /\ r.stateList[x] = p /\ r.prio[x] = p
      /\ \A u \in Tasks : u # x => /\ r.stateList[u] = os.stateList[u]
                                   /\ r.prio[u] = os.prio[u]
      /\ r.current = IF os.current = NoTask \/ r.prio[os.current] <= p
                       THEN x ELSE os.current
  BY <1>1 DEF CreatedAs
<1>3. os.current # NoTask => /\ os.stateList[os.current] \in Priorities
                             /\ os.current # x
  BY <1>1, ListsDiffer DEF PInv, CurrentReady
<1>4. \A u \in Tasks : u # x /\ IsReady(r, u) =>
        /\ os.current \in Tasks /\ os.prio[u] <= os.prio[os.current]
  BY <1>2 DEF PInv, HigherNoted, IsReady
<1>5. r.basePrio = r.prio
  BY DEF PInv, HigherNoted, CreatedAs
<1>6. CASE r.current = x
  <2>1. ASSUME NEW u \in Tasks, u # x, IsReady(r, u)
        PROVE  r.prio[u] <= p
    <3>1. /\ os.current \in Tasks /\ os.prio[u] <= os.prio[os.current]
          /\ os.current # NoTask
      BY <1>1, <1>4, <2>1
    <3>2. os.current # x
      BY <1>3, <3>1
    <3>3. os.prio[os.current] <= p
      BY <1>2, <1>6, <3>1, <3>2
    <3>4. os.prio[u] \in Int /\ os.prio[os.current] \in Int /\ p \in Int
      BY <1>1, <3>1
    <3>5. QED BY <1>2, <2>1, <3>1, <3>3, <3>4
  <2>2. p <= p
    BY <1>1
  <2>3. QED BY <1>2, <1>5, <1>6, <2>1, <2>2
<1>7. CASE r.current # x
  <2>1. /\ os.current # NoTask /\ r.current = os.current
        /\ ~(r.prio[os.current] <= p)
    BY <1>2, <1>7
  <2>2. os.current \in Tasks /\ os.current # x
        /\ os.stateList[os.current] \in Priorities
    BY <1>3, <2>1
  <2>3. ~(os.prio[os.current] <= p) /\ os.prio[os.current] \in Int /\ p \in Int
    BY <1>1, <1>2, <2>1, <2>2
  <2>4. p <= os.prio[os.current]
    BY <2>3
  <2>5. QED BY <1>2, <1>4, <1>5, <2>1, <2>2, <2>4
<1>8. QED BY <1>6, <1>7

LEMMA CreateBeforeStartPreempts ==
  ASSUME IInv, PInv, NEW t \in Tasks, NEW p \in InitialPriorities,
         CreateBeforeStart(t, p)
  PROVE  PInv'
<1>1. /\ ~os.running /\ pc[t] = "none" /\ t # Idle
      /\ os' = prvAddNewTaskToReadyList(prvInitialiseNewTask(os, t, p), t)
      /\ pc' = [pc EXCEPT ![t] = "app"]
  BY DEF CreateBeforeStart, Goto
<1>2. p \in Priorities
  BY SchedulerAssumption
<1>3. CreatedAs(os, t, p, os')
  BY <1>1, <1>2, IInvFacts, CreatedFields DEF IInv, DeadUnlinked, Dead
<1>4. os'.current \in Tasks
  BY <1>1, <1>2, CreateSound DEF Created
<1>5. /\ os'.stateList[os'.current] \in Priorities
      /\ \A u \in Tasks : IsReady(os', u) => os'.prio[u] <= os'.prio[os'.current]
      /\ os'.basePrio = os'.prio
  BY <1>1, <1>2, <1>3, <1>4, NewCurrent
<1>6. /\ ~os'.running /\ os'.numTasks = os.numTasks + 1
      /\ os'.eventList = os.eventList /\ os'.suspended = os.suspended
      /\ os'.stage = os.stage /\ os'.pendedTicks = os.pendedTicks
      /\ os'.fault = os.fault /\ os'.switchReq = os.switchReq
      /\ os'.stateList = [os.stateList EXCEPT ![t] = p]
  BY <1>1, <1>3 DEF CreatedAs
<1>7. /\ \A u \in Tasks : pc[u] \in {"none", "app"} /\ pc'[u] \in {"none", "app"}
      /\ pc'[t] = "app" /\ \A u \in Tasks : u # t => pc'[u] = pc[u]
  BY <1>1, IInvFacts DEF IInv, ControlValid
<1>8. IdleReady'
  BY <1>6 DEF IdleReady
<1>9. LinksInv'
  BY <1>1, <1>2, <1>6, <1>7, <1>8, NewTaskLinks
<1>10. CurrentReady'
  BY <1>5, <1>6, <1>7 DEF Entering, Unlisted, Yielding, CurrentReady
<1>11. NothingLeft'
  BY <1>6 DEF PInv, NothingLeft
<1>12. HigherNoted'
  BY <1>4, <1>5, <1>6 DEF PInv, HigherNoted
<1>13. QED BY <1>6, <1>9, <1>10, <1>11, <1>12 DEF PInv

LEMMA StartPreempts ==
  ASSUME IInv, PInv, vTaskStartScheduler
  PROVE  PInv'
<1>1. PICK r : r = prvAddNewTaskToReadyList(prvInitialiseNewTask(os, Idle, 0), Idle)
  OBVIOUS
<1>2. /\ ~os.running
      /\ os' = [r EXCEPT !.nextUnblock = portMAX_DELAY, !.running = TRUE,
                         !.tick = configINITIAL_TICK_COUNT]
      /\ pc' = [pc EXCEPT ![Idle] = "app"]
  BY <1>1 DEF vTaskStartScheduler, prvCreateIdleTasks, Goto
<1>3. Idle \in Tasks /\ 0 \in Priorities
  BY TasksAssumption DEF Priorities
<1>4. pc[Idle] = "none" /\ \A u \in Tasks : pc[u] \in {"none", "app"}
  BY <1>2 DEF IInv, ControlValid
<1>5. CreatedAs(os, Idle, 0, r)
  BY <1>1, <1>3, <1>4, IInvFacts, CreatedFields DEF IInv, DeadUnlinked, Dead
<1>6. r.current \in Tasks /\ r \in Kernel
  BY <1>1, <1>3, <1>4, CreateSound DEF Created, Sound, Good
<1>7. /\ r.stateList[r.current] \in Priorities
      /\ \A u \in Tasks : IsReady(r, u) => r.prio[u] <= r.prio[r.current]
      /\ r.basePrio = r.prio
  BY <1>2, <1>3, <1>4, <1>5, <1>6, NewCurrent
<1>8. /\ os'.running /\ os'.numTasks = r.numTasks
      /\ os'.stateList = r.stateList /\ os'.eventList = r.eventList
      /\ os'.prio = r.prio /\ os'.basePrio = r.basePrio
      /\ os'.current = r.current /\ os'.suspended = r.suspended
      /\ os'.stage = r.stage /\ os'.pendedTicks = r.pendedTicks
      /\ os'.fault = r.fault /\ os'.switchReq = r.switchReq
  BY <1>2, <1>6 DEF Kernel
<1>9. /\ os'.numTasks = os.numTasks + 1
      /\ os'.eventList = os.eventList /\ os'.suspended = os.suspended
      /\ os'.stage = os.stage /\ os'.pendedTicks = os.pendedTicks
      /\ os'.fault = os.fault /\ os'.switchReq = os.switchReq
      /\ os'.stateList = [os.stateList EXCEPT ![Idle] = 0]
      /\ os'.prio = [os.prio EXCEPT ![Idle] = 0]
  BY <1>5, <1>8 DEF CreatedAs
<1>10. /\ pc'[Idle] = "app" /\ \A u \in Tasks : u # Idle => pc'[u] = pc[u]
       /\ \A u \in Tasks : pc'[u] \in {"none", "app"}
  BY <1>2, <1>3, <1>4, IInvFacts
<1>11. IdleReady'
  <2>1. os.eventList[Idle] = NoList
    BY <1>3, <1>4 DEF IInv, DeadUnlinked, Dead
  <2>2. os'.stateList[Idle] = 0 /\ os'.prio[Idle] = 0
    <3>1. /\ os.stateList \in [Tasks -> StateLists \cup {NoList}]
          /\ os.prio \in [Tasks -> Priorities]
      BY IInvFacts DEF Kernel
    <3>2. QED BY <1>3, <1>9, <3>1
  <2>3. QED BY <1>9, <1>10, <2>1, <2>2 DEF IdleReady
<1>12. LinksInv'
  BY <1>3, <1>4, <1>9, <1>10, <1>11, NewTaskLinks
<1>13. CurrentReady'
  BY <1>7, <1>8, <1>10 DEF Entering, Unlisted, Yielding, CurrentReady
<1>14. NothingLeft'
  BY <1>9 DEF PInv, NothingLeft
<1>15. HigherNoted'
  <2>1. ASSUME NEW u \in Tasks, IsReady(os', u), os'.prio[u] > os'.prio[os'.current]
        PROVE  FALSE
    <3>1. r.prio[u] <= r.prio[r.current] /\ r.prio[u] > r.prio[r.current]
      BY <1>7, <1>8, <2>1 DEF IsReady
    <3>2. r.prio[u] \in Int /\ r.prio[r.current] \in Int
      BY <1>6, TasksAssumption DEF Kernel, Priorities
    <3>3. QED BY <3>1, <3>2
  <2>2. QED BY <1>7, <1>8, <1>9, <2>1 DEF PInv, HigherNoted
<1>16. QED BY <1>9, <1>12, <1>13, <1>14, <1>15 DEF PInv

\* The new task may have a higher priority: the caller then yields.
LEMMA CreatePreempts ==
  ASSUME IInv, PInv, NEW t \in Tasks, NEW x \in Tasks, NEW p \in InitialPriorities,
         xTaskCreate(t, x, p)
  PROVE  PInv'
<1>1. /\ Running(t) /\ pc[t] = "app" /\ pc[x] = "none" /\ x # t /\ x # Idle
      /\ t # Idle
      /\ os' = prvAddNewTaskToReadyList(prvInitialiseNewTask(os, x, p), x)
      /\ pc' = [pc EXCEPT ![t] = "createYield", ![x] = "app"]
      /\ target' = [target EXCEPT ![t] = x]
  BY DEF xTaskCreate, MayCall, At
<1>2. p \in Priorities
  BY SchedulerAssumption
<1>3. CreatedAs(os, x, p, os')
  BY <1>1, <1>2, IInvFacts, CreatedFields DEF IInv, DeadUnlinked, Dead
<1>4. /\ os.running /\ os.current = t /\ os.stateList[t] \in Priorities
      /\ \A u \in Tasks : u # t => pc[u] \notin Suspending
  BY <1>1, RunningTask DEF Unlisted, Yielding
<1>5. /\ os'.running /\ os'.current = t /\ os'.numTasks = os.numTasks + 1
      /\ os'.eventList = os.eventList /\ os'.suspended = os.suspended
      /\ os'.stage = os.stage /\ os'.pendedTicks = os.pendedTicks
      /\ os'.fault = os.fault /\ os'.switchReq = os.switchReq
      /\ os'.stateList = [os.stateList EXCEPT ![x] = p]
      /\ os'.prio = [os.prio EXCEPT ![x] = p]
      /\ os'.basePrio = [os.basePrio EXCEPT ![x] = p]
      /\ (Noted(os) => Noted(os'))
  BY <1>3, <1>4, TasksAssumption DEF CreatedAs, Noted
<1>6. /\ pc'[t] = "createYield" /\ pc'[x] = "app" /\ target'[t] = x
      /\ \A u \in Tasks : u # t /\ u # x => pc'[u] = pc[u]
  BY <1>1, IInvFacts
<1>7. /\ \A u \in Tasks : u # x => /\ os'.stateList[u] = os.stateList[u]
                                   /\ os'.prio[u] = os.prio[u]
      /\ os.basePrio = os.prio
  <2>1. /\ os.stateList \in [Tasks -> StateLists \cup {NoList}]
        /\ os.prio \in [Tasks -> Priorities]
    BY IInvFacts DEF Kernel
  <2>2. QED BY <1>5, <2>1 DEF PInv, HigherNoted
<1>8. IdleReady'
  BY <1>1, <1>4, <1>5, <1>6, <1>7, TasksAssumption DEF PInv, LinksInv, IdleReady
<1>9. LinksInv'
  <2>1. \A u \in Tasks : u # x =>
          /\ pc[u] # "abortEvent"
          /\ pc'[u] = pc[u] \/ (pc[u] = "app" /\ pc'[u] = "createYield")
    BY <1>1, <1>4, <1>6 DEF Suspending
  <2>2. /\ pc[x] = "none" /\ pc'[x] = "app" /\ os'.eventList = os.eventList
        /\ os'.numTasks = os.numTasks + 1
        /\ os'.stateList = [os.stateList EXCEPT ![x] = p]
    BY <1>1, <1>5, <1>6
  <2>3. QED BY <1>2, <1>8, <2>1, <2>2, NewTaskLinks
<1>10. CurrentReady'
  <2>1. os'.stateList[t] \in Priorities
    BY <1>1, <1>4, <1>7
  <2>2. \A u \in Tasks : pc'[u] \notin Entering
    BY <1>4, <1>6 DEF Entering, Unlisted, Suspending
  <2>3. QED BY <1>5, <2>1, <2>2 DEF CurrentReady
<1>11. NothingLeft'
  BY <1>5 DEF PInv, NothingLeft
<1>12. HigherNoted'
  <2>1. ASSUME NEW u \in Tasks, u # x, IsReady(os', u), os'.prio[u] > os'.prio[t]
        PROVE  Noted(os')
    <3>1. IsReady(os, u) /\ os.prio[u] > os.prio[t]
      BY <1>1, <1>7, <2>1 DEF IsReady
    <3>2. QED BY <1>1, <1>4, <1>5, <3>1 DEF PInv, HigherNoted
  <2>2. os'.basePrio = os'.prio
    BY <1>5, <1>7
  <2>3. QED BY <1>5, <1>6, <2>1, <2>2 DEF PInv, HigherNoted
<1>13. QED BY <1>5, <1>9, <1>10, <1>11, <1>12 DEF PInv
-----------------------------------------------------------------------------
(* Deleting tasks.                                                         *)

\* Task x is deleted and not counted any more.
LEMMA GoneTask ==
  ASSUME IInv, PInv, NEW t \in Tasks, Running(t), pc[t] = "app",
         NEW x \in Tasks, x # t, x # Idle, x \in Counted,
         os'.stateList = [os.stateList EXCEPT ![x] = NoList],
         os'.eventList[x] = NoList,
         \A u \in Tasks \ {x} : os'.eventList[u] = os.eventList[u],
         pc'[x] \in Gone,
         \A u \in Tasks \ {x} :
           pc'[u] = pc[u] \/ (u = t /\ u # Idle /\ pc'[u] = "deleteFree"),
         os'.numTasks = os.numTasks - 1,
         os'.prio = os.prio, os'.basePrio = os.basePrio,
         os'.running = os.running, os'.current = os.current,
         os'.suspended = os.suspended, os'.stage = os.stage,
         os'.pendedTicks = os.pendedTicks, os'.fault = os.fault,
         os'.switchReq = os.switchReq, Noted(os) => Noted(os')
  PROVE  PInv'
<1>1. /\ os.running /\ os.current = t /\ os.stateList[t] \in Priorities
      /\ \A u \in Tasks : u # t => pc[u] \notin Suspending
      /\ \A u \in Tasks : pc[u] \notin Dead => os.stateList[u] # NoList
  BY RunningTask DEF Unlisted, Yielding
<1>2. /\ os'.stateList[x] = NoList
      /\ \A u \in Tasks : u # x => os'.stateList[u] = os.stateList[u]
      /\ os.prio \in [Tasks -> Priorities]
  BY IInvFacts DEF Kernel
<1>3. LinksInv'
  <2>1. IdleReady'
    BY <1>2, TasksAssumption DEF PInv, LinksInv, IdleReady
  <2>2. LiveLinked'
    <3>1. ASSUME NEW u \in Tasks, pc'[u] \notin Dead
          PROVE  os'.stateList[u] # NoList
      <4>1. u # x
        BY <3>1 DEF Gone, Dead
      <4>2. pc[u] \notin Dead
        BY <3>1, <4>1 DEF Dead
      <4>3. QED BY <1>1, <1>2, <4>1, <4>2
    <3>2. QED BY <3>1 DEF LiveLinked
  <2>3. PendingSuspended'
    <3>1. NoList # xPendingReadyList
      BY DEF NoList, xPendingReadyList
    <3>2. QED BY <1>2, <3>1 DEF PInv, LinksInv, PendingSuspended
  <2>4. TasksCounted'
    <3>1. /\ IsFiniteSet(Counted) /\ os.numTasks = Cardinality(Counted)
          /\ \A u \in Tasks : pc[u] = "deleteYield" =>
                                os.stateList[u] = xTasksWaitingTermination
      BY DEF PInv, LinksInv, TasksCounted
    <3>2. Counted' = Counted \ {x}
      <4>1. ASSUME NEW u \in Tasks, u # x
            PROVE  u \in Counted' <=> u \in Counted
        BY <1>2, <4>1 DEF Counted, Gone
      <4>2. x \notin Counted'
        BY <1>2, ListsDiffer DEF Counted
      <4>3. QED BY <4>1, <4>2 DEF Counted
    <3>3. /\ IsFiniteSet(Counted \ {x})
          /\ Cardinality(Counted \ {x}) = Cardinality(Counted) - 1
      BY <3>1, FS_RemoveElement
    <3>4. \A u \in Tasks :
            pc'[u] = "deleteYield" => os'.stateList[u] = xTasksWaitingTermination
      BY <1>2, <3>1 DEF Gone
    <3>5. QED BY <3>1, <3>2, <3>3, <3>4 DEF TasksCounted
  <2>5. QED BY <2>1, <2>2, <2>3, <2>4 DEF LinksInv
<1>4. CurrentReady'
  <2>1. os'.stateList[t] \in Priorities
    BY <1>1, <1>2
  <2>2. \A u \in Tasks : pc'[u] \notin Entering
    BY <1>1 DEF Entering, Unlisted, Suspending, Gone
  <2>3. QED BY <1>1, <2>1, <2>2 DEF CurrentReady
<1>5. NothingLeft'
  <2>1. NoList # xPendingReadyList
    BY DEF NoList, xPendingReadyList
  <2>2. QED BY <2>1 DEF PInv, NothingLeft
<1>6. HigherNoted'
  <2>1. ASSUME NEW u \in Tasks, IsReady(os', u)
        PROVE  IsReady(os, u)
    <3>1. u # x
      BY <1>2, <2>1, ListsDiffer DEF IsReady
    <3>2. QED BY <1>2, <2>1, <3>1 DEF IsReady
  <2>2. \A u \in Tasks : IsReady(os, u) /\ os.prio[u] > os.prio[t] => Noted(os')
    BY <1>1 DEF PInv, HigherNoted
  <2>3. QED BY <1>1, <2>1, <2>2 DEF PInv, HigherNoted
<1>7. QED BY <1>3, <1>4, <1>5, <1>6 DEF PInv

\* The task that deletes itself waits for the idle task and gives up the
\* processor.
LEMMA DeleteSelfPreempts ==
  ASSUME IInv, PInv, NEW t \in Tasks, vTaskDelete(t, t)
  PROVE  PInv'
<1> DEFINE a == RemoveEventIfLinked(RemoveState(os, t), t)
           b == AppendState(a, xTasksWaitingTermination, t)
<1>1. /\ Running(t) /\ pc[t] = "app" /\ t # Idle /\ os.suspended = 0
      /\ pc' = [pc EXCEPT ![t] = "deleteYield"]
  BY DEF vTaskDelete, MayCall, At
<1>2. /\ os \in Kernel /\ Good(os) /\ pc[t] \notin Dead
      /\ os.stateList \in [Tasks -> StateLists \cup {NoList}]
      /\ os.eventList \in [Tasks -> ItemLists \cup {NoList}]
      /\ pc = [u \in Tasks |-> pc[u]]
  BY <1>1, IInvFacts DEF Dead, Kernel
<1>3. /\ os.running /\ os.current = t /\ os.stateList[t] \in Priorities
      /\ os.stateList[t] # NoList /\ ~os.switchReq
      /\ \A u \in Tasks : u # t => pc[u] \notin Suspending
      /\ \A u \in Tasks : pc[u] \notin Dead => os.stateList[u] # NoList
      /\ os.pendedTicks # 0 => os.suspended > 0
  BY <1>1, <1>2, RunningTask DEF Unlisted, Yielding
<1>4. os' = [b EXCEPT !.numDeleted = @ + 1, !.yieldPending = TRUE]
  BY <1>3 DEF vTaskDelete
<1>5. Linking(os, a, [os.stateList EXCEPT ![t] = NoList],
                     [os.eventList EXCEPT ![t] = NoList])
  BY <1>2, <1>3, UnlinkLinking
<1> HIDE DEF a
<1>6. xTasksWaitingTermination \in StateLists
      /\ xTasksWaitingTermination \notin DelayedLists
  BY ListNames, DelayedListNames
<1>7. Good(a) /\ a.stateList[t] = NoList
      /\ a.stateList = [os.stateList EXCEPT ![t] = NoList]
      /\ a.eventList = [os.eventList EXCEPT ![t] = NoList]
  BY <1>2, <1>5 DEF Linking
<1>8. Linking(a, b, [a.stateList EXCEPT ![t] = xTasksWaitingTermination],
              a.eventList)
  BY <1>6, <1>7, AppendStateLinking
<1> HIDE DEF b
<1>9. Linking(os, b, [a.stateList EXCEPT ![t] = xTasksWaitingTermination],
              a.eventList)
  BY <1>5, <1>8, LinkingTransitive
<1>10. PICK n : n = b.numDeleted + 1
  OBVIOUS
<1>11. os' = [b EXCEPT !.numDeleted = n, !.yieldPending = TRUE] /\ b \in Kernel
  BY <1>4, <1>9, <1>10 DEF Linking, Good
<1>12. /\ os'.stateList = b.stateList /\ os'.eventList = b.eventList
       /\ os'.prio = b.prio /\ os'.basePrio = b.basePrio
       /\ os'.running = b.running /\ os'.numTasks = b.numTasks
       /\ os'.current = b.current /\ os'.suspended = b.suspended
       /\ os'.stage = b.stage /\ os'.pendedTicks = b.pendedTicks
       /\ os'.fault = b.fault /\ os'.switchReq = b.switchReq
       /\ os'.yieldPending
  BY <1>11 DEF Kernel
<1>13. /\ os'.prio = os.prio /\ os'.basePrio = os.basePrio
       /\ os'.running /\ os'.numTasks = os.numTasks
       /\ os'.current = t /\ os'.suspended = 0
       /\ os'.stage = os.stage /\ os'.pendedTicks = os.pendedTicks
       /\ os'.fault = os.fault /\ os'.switchReq = os.switchReq /\ Noted(os')
  BY <1>1, <1>3, <1>9, <1>12
     DEF Linking, Settled, SameControl, SameFlags, Noted
<1>14. /\ os'.stateList[t] = xTasksWaitingTermination
       /\ \A u \in Tasks : u # t => os'.stateList[u] = os.stateList[u]
       /\ os'.eventList[t] = NoList
       /\ \A u \in Tasks : u # t => os'.eventList[u] = os.eventList[u]
  BY <1>2, <1>7, <1>9, <1>12 DEF Linking
<1>15. pc'[t] = "deleteYield" /\ \A u \in Tasks : u # t => pc'[u] = pc[u]
  BY <1>1, <1>2
<1>16. LinksInv'
  <2>1. IdleReady'
    BY <1>1, <1>3, <1>13, <1>14, <1>15, TasksAssumption
       DEF PInv, LinksInv, IdleReady
  <2>2. LiveLinked'
    BY <1>3, <1>14, <1>15 DEF LiveLinked, Dead
  <2>3. PendingSuspended'
    <3>1. NoList # xPendingReadyList
      BY DEF NoList, xPendingReadyList
    <3>2. QED BY <1>14, <3>1 DEF PInv, LinksInv, PendingSuspended
  <2>4. Counted' = Counted
    BY <1>1, <1>14, <1>15 DEF Counted, Gone
  <2>5. TasksCounted'
    BY <1>13, <1>14, <1>15, <2>4 DEF PInv, LinksInv, TasksCounted
  <2>6. QED BY <2>1, <2>2, <2>3, <2>5 DEF LinksInv
<1>17. CurrentReady'
  <2>1. Leaving'
    BY <1>13, <1>15 DEF Leaving
  <2>2. \A u \in Tasks : pc'[u] \notin Entering
    BY <1>3, <1>15 DEF Entering, Unlisted, Suspending
  <2>3. QED BY <1>13, <2>1, <2>2 DEF CurrentReady
<1>18. NothingLeft'
  <2>1. NoList # xPendingReadyList
    BY DEF NoList, xPendingReadyList
  <2>2. QED BY <1>1, <1>13, <1>14, <2>1 DEF PInv, NothingLeft
<1>19. HigherNoted'
  BY <1>3, <1>13 DEF PInv, HigherNoted
<1>20. QED BY <1>13, <1>16, <1>17, <1>18, <1>19 DEF PInv

LEMMA DeleteOtherPreempts ==
  ASSUME IInv, PInv, NEW t \in Tasks, NEW x \in Handles, x # t, vTaskDelete(t, x)
  PROVE  PInv'
<1> DEFINE a == RemoveEventIfLinked(RemoveState(os, x), x)
<1>1. /\ Running(t) /\ pc[t] = "app" /\ t # Idle
      /\ pc' = [pc EXCEPT ![t] = "deleteFree", ![x] = "deleted"]
  BY DEF vTaskDelete, MayCall, At
<1>2. x \in Tasks /\ x # Idle /\ pc[x] \notin Dead
  BY HandleFacts
<1>3. /\ os \in Kernel /\ Good(os)
      /\ os.stateList \in [Tasks -> StateLists \cup {NoList}]
      /\ os.eventList \in [Tasks -> ItemLists \cup {NoList}]
      /\ pc = [u \in Tasks |-> pc[u]]
  BY IInvFacts DEF Kernel
<1>4. os.running /\ os.current = t /\ os.stateList[x] # NoList
  BY <1>1, <1>2, RunningTask
<1>5. os' = prvResetNextTaskUnblockTime([a EXCEPT !.numTasks = @ - 1])
  BY <1>4 DEF vTaskDelete
<1>6. Linking(os, a, [os.stateList EXCEPT ![x] = NoList],
                     [os.eventList EXCEPT ![x] = NoList])
  BY <1>2, <1>3, <1>4, UnlinkLinking
<1> HIDE DEF a
<1>7. a \in Kernel
  BY <1>6 DEF Linking, Good
<1>8. PICK n \in Int : n = a.numTasks - 1
  BY <1>7 DEF Kernel
<1>9. PICK q : q = [a EXCEPT !.numTasks = n]
  OBVIOUS
<1>10. q \in Kernel /\ os' = prvResetNextTaskUnblockTime(q)
  <2>1. q \in Kernel
    BY <1>7, <1>9, ZenonT(60) DEF Kernel
  <2>2. [a EXCEPT !.numTasks = @ - 1] = q
    BY <1>7, <1>8, <1>9 DEF Kernel
  <2>3. QED BY <1>5, <2>1, <2>2
<1>11. /\ q.stateList = a.stateList /\ q.eventList = a.eventList
       /\ q.prio = a.prio /\ q.basePrio = a.basePrio
       /\ q.running = a.running /\ q.numTasks = a.numTasks - 1
       /\ SameProcessor(a, q) /\ q.stage = a.stage
       /\ q.pendedTicks = a.pendedTicks /\ q.fault = a.fault
       /\ q.switchReq = a.switchReq /\ (Noted(a) => Noted(q))
  BY <1>7, <1>8, <1>9 DEF Kernel, SameProcessor, Noted
<1>12. Flagged(q, os')
  BY <1>10, ResetFlagged
<1>13. /\ os'.stateList = [os.stateList EXCEPT ![x] = NoList]
       /\ os'.eventList = [os.eventList EXCEPT ![x] = NoList]
       /\ os'.numTasks = os.numTasks - 1
       /\ os'.prio = os.prio /\ os'.basePrio = os.basePrio
       /\ os'.running = os.running /\ os'.current = os.current
       /\ os'.suspended = os.suspended /\ os'.stage = os.stage
       /\ os'.pendedTicks = os.pendedTicks /\ os'.fault = os.fault
       /\ os'.switchReq = os.switchReq /\ (Noted(os) => Noted(os'))
  BY <1>6, <1>11, <1>12
     DEF Linking, Settled, SameControl, SameFlags, Flagged, Still,
         SameProcessor, Noted
<1>14. /\ os'.eventList[x] = NoList
       /\ \A u \in Tasks \ {x} : os'.eventList[u] = os.eventList[u]
  BY <1>2, <1>3, <1>13
<1>15. /\ pc'[x] \in Gone
       /\ \A u \in Tasks \ {x} :
            pc'[u] = pc[u] \/ (u = t /\ u # Idle /\ pc'[u] = "deleteFree")
  BY <1>1, <1>2, <1>3 DEF Gone
<1>16. x \in Counted
  BY <1>2 DEF Counted, Gone, Dead
<1>17. QED BY <1>1, <1>2, <1>13, <1>14, <1>15, <1>16, GoneTask

\* The idle task frees a task.
LEMMA TerminationPreempts ==
  ASSUME IInv, PInv, prvCheckTasksWaitingTermination
  PROVE  PInv'
<1> DEFINE x == HeadOf(os, xTasksWaitingTermination)
           a == RemoveState(os, x)
<1>1. /\ Running(Idle) /\ pc[Idle] = "app" /\ os.numDeleted > 0
      /\ os' = [a EXCEPT !.numTasks = @ - 1, !.numDeleted = @ - 1]
      /\ pc' = [pc EXCEPT ![x] = "none"]
  BY DEF prvCheckTasksWaitingTermination, At, Goto, Forget
<1>2. /\ Idle \in Tasks /\ xTasksWaitingTermination \in StateLists
      /\ xTasksWaitingTermination \in Lists
  BY TasksAssumption, ListNames DEF Lists
<1>3. /\ os.running /\ os.current = Idle /\ os.stage = "run"
      /\ os \in Kernel /\ Good(os)
      /\ os.stateList \in [Tasks -> StateLists \cup {NoList}]
      /\ os.numDeleted \in Int /\ os.numDeleted <= Ending(os)
      /\ pc = [u \in Tasks |-> pc[u]]
  BY <1>1, <1>2, RunningFacts, IInvFacts DEF Kernel, IInv, ControlValid
<1>4. Ending(os) \in Int
  BY <1>2, <1>3 DEF Ending, LengthOf, Kernel, ListOf
<1>5. ~IsEmpty(os, xTasksWaitingTermination)
  <2>1. Ending(os) > 0
    BY <1>1, <1>3, <1>4
  <2>2. QED BY <2>1 DEF Ending, LengthOf, IsEmpty, listLIST_IS_EMPTY
<1>6. /\ x \in Tasks /\ os.stateList[x] = xTasksWaitingTermination
  BY <1>2, <1>3, <1>5, HeadIsLinked
<1> HIDE DEF x
<1>7. pc[x] \in Dead /\ os.eventList[x] = NoList
  BY <1>6, ListsDiffer DEF IInv, DeadUnlinked
<1>8. x # Idle /\ os.stateList[x] # NoList
  BY <1>1, <1>6, <1>7, ListsDiffer DEF Dead
<1>9. Linking(os, a, [os.stateList EXCEPT ![x] = NoList], os.eventList)
  BY <1>3, <1>6, <1>8, RemoveStateLinking
<1> HIDE DEF a
<1>10. a \in Kernel
  BY <1>9 DEF Linking, Good
<1>11. PICK n, m : /\ n = a.numTasks - 1
                   /\ os' = [a EXCEPT !.numTasks = n, !.numDeleted = m]
  BY <1>1, <1>10 DEF Kernel
<1>12. /\ os'.stateList = a.stateList /\ os'.eventList = a.eventList
       /\ os'.prio = a.prio /\ os'.basePrio = a.basePrio
       /\ os'.running = a.running /\ os'.numTasks = a.numTasks - 1
       /\ os'.current = a.current /\ os'.suspended = a.suspended
       /\ os'.stage = a.stage /\ os'.pendedTicks = a.pendedTicks
       /\ os'.fault = a.fault /\ os'.switchReq = a.switchReq
       /\ os'.pendSV = a.pendSV /\ os'.yieldPending = a.yieldPending
  BY <1>10, <1>11 DEF Kernel
<1>13. /\ os'.stateList = [os.stateList EXCEPT ![x] = NoList]
       /\ os'.eventList = os.eventList
       /\ os'.numTasks = os.numTasks - 1
       /\ os'.prio = os.prio /\ os'.basePrio = os.basePrio
       /\ os'.running = os.running /\ os'.current = os.current
       /\ os'.suspended = os.suspended /\ os'.stage = os.stage
       /\ os'.pendedTicks = os.pendedTicks /\ os'.fault = os.fault
       /\ os'.switchReq = os.switchReq /\ (Noted(os) => Noted(os'))
  BY <1>9, <1>12 DEF Linking, Settled, SameControl, SameFlags, Noted
<1>14. /\ os'.eventList[x] = NoList
       /\ \A u \in Tasks \ {x} : os'.eventList[u] = os.eventList[u]
  BY <1>7, <1>13
<1>15. pc'[x] \in Gone /\ \A u \in Tasks \ {x} : pc'[u] = pc[u]
  BY <1>1, <1>3, <1>6 DEF Gone
<1>16. x \in Counted
  BY <1>6 DEF Counted
<1>17. QED BY <1>1, <1>2, <1>6, <1>8, <1>13, <1>14, <1>15, <1>16, GoneTask
-----------------------------------------------------------------------------
(* The invariant holds at first, and every step keeps it.                  *)

LEMMA InitPInv == SchedulerInit => PInv
<1> SUFFICES ASSUME SchedulerInit PROVE PInv
  OBVIOUS
<1>1. /\ os.stateList = [t \in Tasks |-> NoList]
      /\ os.eventList = [t \in Tasks |-> NoList]
      /\ os.prio = [t \in Tasks |-> 0] /\ os.basePrio = [t \in Tasks |-> 0]
      /\ os.current = NoTask /\ os.running = FALSE /\ os.fault = FALSE
      /\ os.suspended = 0 /\ os.pendedTicks = 0 /\ os.numTasks = 0
      /\ os.stage = "run" /\ os.switchReq = FALSE
  BY DEF SchedulerInit, KernelInit
<1>2. pc = [t \in Tasks |-> "none"]
  BY DEF SchedulerInit
<1>3. /\ 0 \in Priorities /\ NoList \notin Priorities
      /\ NoList # xTasksWaitingTermination /\ NoList # xPendingReadyList
  BY ListsDiffer, ListNames, TasksAssumption DEF Priorities, Lists
<1>4. LinksInv
  <2>1. Counted = {}
    BY <1>1, <1>2, <1>3 DEF Counted, Gone
  <2>2. IsFiniteSet({}) /\ Cardinality({}) = 0
    BY FS_EmptySet
  <2>3. TasksCounted
    BY <1>1, <1>2, <2>1, <2>2 DEF TasksCounted
  <2>4. IdleReady /\ LiveLinked /\ PendingSuspended
    BY <1>1, <1>2, <1>3 DEF IdleReady, LiveLinked, PendingSuspended, Dead
  <2>5. QED BY <2>3, <2>4 DEF LinksInv
<1>5. CurrentReady
  BY <1>1, <1>2 DEF Entering, Unlisted, Yielding, CurrentReady
<1>6. NothingLeft
  BY <1>1, <1>3 DEF NothingLeft
<1>7. HigherNoted
  <2>1. \A t \in Tasks : ~IsReady(os, t)
    BY <1>1, <1>3 DEF IsReady
  <2>2. QED BY <1>1, <2>1 DEF HigherNoted
<1>8. QED BY <1>1, <1>4, <1>5, <1>6, <1>7 DEF PInv

LEMMA CallPreempts ==
  ASSUME IInv, PInv, NEW t \in Tasks, Call(t) PROVE PInv'
<1>1. CASE \/ \E n \in DelayTicks : vTaskDelay(t, n)
           \/ \E n \in Periods : xTaskDelayUntil(t, n)
           \/ SuspendScheduler(t)
           \/ \E x \in Handles : xTaskAbortDelay(t, x)
  BY <1>1, SuspendPreempts
<1>2. CASE taskYIELD(t)
  BY <1>2, YieldPreempts
<1>3. CASE ResumeScheduler(t)
  BY <1>3, ResumeAllPreempts
<1>4. CASE \E x \in Handles : vTaskSuspend(t, x)
  BY <1>4, SuspendTaskPreempts
<1>5. CASE \E x \in Handles : vTaskResume(t, x)
  BY <1>5, ResumeTaskPreempts
<1>6. ASSUME NEW x \in Handles, vTaskDelete(t, x) PROVE PInv'
  BY <1>6, DeleteSelfPreempts, DeleteOtherPreempts
<1>7. CASE \E x \in Handles : \E p \in NewPriorities : vTaskPrioritySet(t, x, p)
  BY <1>7, PrioritySetPreempts
<1>8. CASE \E x \in Tasks, p \in InitialPriorities : xTaskCreate(t, x, p)
  BY <1>8, CreatePreempts
<1>9. QED BY <1>1, <1>2, <1>3, <1>4, <1>5, <1>6, <1>7, <1>8 DEF Call

LEMMA ContinuePreempts ==
  ASSUME IInv, PInv, OnTime(os), DelaysTimed, NEW t \in Tasks, Continue(t)
  PROVE  PInv'
<1>1. CASE ResumeThenYield(t) \/ ResumeThenReturn(t)
  BY <1>1, ResumeAllPreempts
<1>2. CASE YieldUnlessYielded(t) \/ SuspendYields(t) \/ CreateYields(t)
  BY <1>2, YieldPreempts
<1>3. CASE DelayBlocks(t) \/ DelayUntilBlocks(t)
  BY <1>3, DelayPreempts
<1>4. CASE SuspendResetsUnblockTime(t)
  BY <1>4, SuspendResetPreempts
<1>5. CASE AbortUnlinksState(t)
  BY <1>5, AbortUnlinksPreempts
<1>6. CASE AbortMakesReady(t)
  BY <1>6, AbortReadiesPreempts
<1>7. CASE DeleteFrees(t)
  BY <1>7, DeleteFreesPreempts
<1>8. CASE DeleteYields(t)
  BY <1>8, DeleteYieldsPreempts
<1>9. QED BY <1>1, <1>2, <1>3, <1>4, <1>5, <1>6, <1>7, <1>8 DEF Continue

LEMMA NextPInv ==
  ASSUME IInv, PInv, OnTime(os), DelaysTimed, [SchedulerNext]_vars
  PROVE  PInv'
<1>1. CASE Start
  BY <1>1, CreateBeforeStartPreempts, StartPreempts DEF Start
<1>2. CASE Interrupt
  BY <1>2, TickPreempts, ResumeFromISRPreempts DEF Interrupt
<1>3. CASE ContextSwitch
  BY <1>3, ContextSwitchPreempts
<1>4. CASE MaskedStep
  BY <1>4, MaskedPreempts
<1>5. CASE IdleStep
  BY <1>5, TerminationPreempts, IdleYieldsPreempts DEF IdleStep
<1>6. ASSUME NEW t \in Tasks, Call(t) PROVE PInv'
  BY <1>6, CallPreempts
<1>7. ASSUME NEW t \in Tasks, Continue(t) PROVE PInv'
  BY <1>7, ContinuePreempts
<1>8. CASE UNCHANGED vars
  <2>1. os' = os /\ pc' = pc /\ target' = target
    BY <1>8 DEF vars
  <2>2. LinksInv' /\ CurrentReady' /\ NothingLeft' /\ (~os.fault)'
    BY <2>1 DEF PInv, LinksInv, IdleReady, LiveLinked, PendingSuspended,
                TasksCounted, Counted, CurrentReady, Leaving, NothingLeft
  <2>3. HigherNoted'
    BY <2>1 DEF PInv, HigherNoted, IsReady, Noted
  <2>4. QED BY <2>2, <2>3 DEF PInv
<1>9. QED BY <1>1, <1>2, <1>3, <1>4, <1>5, <1>6, <1>7, <1>8 DEF SchedulerNext
-----------------------------------------------------------------------------
(* What the scheduler promises.                                            *)

SchedulerInv == TimeIInv /\ PInv

\* Every step keeps the lists, the time and the choice of the task that runs:
\* the inductive invariant of the scheduler.
THEOREM SchedulerInvariance == SchedulerSpec => []SchedulerInv
<1>1. SchedulerInit => PInv
  BY InitPInv
<1>2. TimeIInv /\ PInv /\ [SchedulerNext]_vars => PInv'
  BY NextPInv DEF TimeIInv
<1>3. TimeIInv /\ PInv => SchedulerInv
  BY DEF SchedulerInv
<1>4. QED BY <1>1, <1>2, <1>3, TimeInvariance, PTL DEF SchedulerSpec

\* No configASSERT of the scheduler fails and no item is unlinked twice: a context
\* switch always finds a ready task, the scheduler is resumed no more often than it
\* was suspended, the delayed lists are exchanged only when the current one is
\* empty, and no task deletes itself while the scheduler is suspended.
THEOREM AssertsHold == SchedulerSpec => []NoAssertFails
<1>1. SchedulerInv => NoAssertFails
  BY DEF SchedulerInv, PInv, NoAssertFails
<1>2. QED BY <1>1, SchedulerInvariance, PTL

\* When xTaskResumeAll has resumed the scheduler, it has counted every tick that
\* was pended and made ready every task that an interrupt resumed.
THEOREM NothingStaysPending == SchedulerSpec => []NothingLeftPending
<1>1. SchedulerInv => NothingLeftPending
  <2> SUFFICES ASSUME SchedulerInv, os.stage = "run", os.suspended = 0
               PROVE  os.pendedTicks = 0 /\ IsEmpty(os, xPendingReadyList)
    BY DEF NothingLeftPending
  <2>1. Good(os) /\ NothingLeft
    BY IInvFacts DEF SchedulerInv, TimeIInv, PInv
  <2>2. /\ os.pendedTicks = 0
        /\ \A t \in Tasks : os.eventList[t] # xPendingReadyList
    BY <2>1 DEF NothingLeft, Resuming
  <2>3. xPendingReadyList \in Lists /\ xPendingReadyList \in ItemLists
    BY ListNames DEF Lists
  <2>4. IsEmpty(os, xPendingReadyList)
    BY <2>1, <2>2, <2>3, HeadIsLinked
  <2>5. QED BY <2>2, <2>4
<1>2. QED BY <1>1, SchedulerInvariance, PTL

\* The running task has the highest priority of the ready ones, unless a switch
\* is pending or deferred by a suspended scheduler: no interrupt, no task that
\* resumes, aborts, deletes or changes the priority of another, and no tick
\* counted late loses the switch it asks for.
THEOREM HighestRuns == SchedulerSpec => []HighestPriorityRuns
<1>1. SchedulerInv => HighestPriorityRuns
  <2> SUFFICES ASSUME SchedulerInv, InterruptsEnabled, ~os.pendSV,
                      ~os.yieldPending, NEW t \in Tasks, IsReady(os, t),
                      os.prio[t] > os.prio[os.current]
               PROVE  pc[os.current] = "createYield" /\ target[os.current] = t
    BY DEF HighestPriorityRuns
  <2>1. HigherNoted /\ os.running /\ os.stage = "run"
    BY DEF SchedulerInv, PInv, InterruptsEnabled
  <2>2. ~Noted(os)
    BY <2>1 DEF HigherNoted, Noted, Unblocking
  <2>3. QED BY <2>1, <2>2 DEF HigherNoted
<1>2. QED BY <1>1, SchedulerInvariance, PTL

\* The delayed lists and the wrapping tick count implement BlockingTime: a block is
\* neither shortened nor lengthened by the wrap, by the exchange of the two lists,
\* or by ticks that are pended while the scheduler is suspended, and only a task
\* that is ready begins to block.
THEOREM TicksAreCountedDown == SchedulerSpec => CountsDown
<1>1. SchedulerInit => Blocking!Init
  <2> SUFFICES ASSUME SchedulerInit PROVE Blocking!Init
    OBVIOUS
  <2>1. os.stateList = [t \in Tasks |-> NoList] /\ os \in Kernel
    BY InitIInv, IInvFacts DEF SchedulerInit, KernelInit
  <2>2. /\ os.delayed # NoList /\ pxOverflowDelayedTaskList(os) # NoList
    BY <2>1, TwoDelayedLists, DelayedListNames
  <2>3. TicksLeft = [t \in Tasks |-> 0]
    BY <2>1, <2>2 DEF TicksLeft
  <2>4. QED BY <2>3 DEF Blocking!Init
<1>2. SchedulerInv /\ [SchedulerNext]_vars => CountStep
  <2> SUFFICES ASSUME SchedulerInv, [SchedulerNext]_vars PROVE CountStep
    OBVIOUS
  <2>1. IInv /\ OnTime(os) /\ DelaysTimed /\ PInv
    BY DEF SchedulerInv, TimeIInv
  <2>2. IInv'
    BY <2>1, NextIInv
  <2>3. BlocksOnce
    <3> SUFFICES ASSUME NEW t \in Tasks, At(t, "delay") \/ At(t, "delayUntil")
                 PROVE  os.stateList[t] \notin DelayedLists
      BY DEF BlocksOnce
    <3>1. Running(t) /\ pc[t] \in {"delay", "delayUntil"}
      BY DEF At
    <3>2. os.stateList[t] \in Priorities
      BY <2>1, <3>1, RunningTask DEF Unlisted, Yielding
    <3>3. QED BY <3>2, DelayedListNames
  <2>4. QED BY <2>1, <2>2, <2>3, NextTimed
<1>3. QED BY <1>1, <1>2, SchedulerInvariance, PTL
          DEF SchedulerSpec, CountsDown, Blocking!Spec, CountStep
=============================================================================

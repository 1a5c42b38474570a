-------------------------- MODULE EventGroupProofs --------------------------
(***************************************************************************)
(* Event groups used with all of the scheduler's calls: no task waits for  *)
(* bits that are there, one setting of bits releases together all that it  *)
(* satisfies, and a group that has been deleted is not looked at again.    *)
(***************************************************************************)
EXTENDS EventGroup, PreemptionProofs

(***************************************************************************)
(* The inductive invariant.                                                *)
(***************************************************************************)

\* The variables are functions, and a call in progress is about a group.
GroupsOK ==
  /\ bits = [g \in EventGroups |-> bits[g]]
  /\ alive = [g \in EventGroups |-> alive[g]]
  /\ item = [t \in Tasks |-> item[t]]
  /\ waiting = [t \in Tasks |-> waiting[t]]
  /\ \A t \in Tasks : waiting[t].group \in EventGroups \cup {NoGroup}

\* A task in a ready list waits in no event list.
ReadyUnlinked ==
  \A t \in Tasks : os.stateList[t] \in Priorities => os.eventList[t] = NoList

\* A task in the list of a group has not been released.
WaitersNotReleased ==
  \A t \in Tasks : os.eventList[t] \in EventLists => ~item[t].unblocked

\* A task inside a call on a group that has been deleted was released by that.
DeletedReleases ==
  \A t \in Tasks, g \in EventGroups :
    InGroupCall(t, g) => alive[g] \/ item[t].unblocked

GInv == /\ GroupsOK /\ ReadyUnlinked /\ WaitersUnsatisfied
        /\ WaitersNotReleased /\ DeletedReleases

EventGroupIInv == TimeIInv /\ PInv /\ GInv
-----------------------------------------------------------------------------
(* What xTaskRemoveFromUnorderedEventList does to a task that waits.       *)

\* The tasks of S have been made ready, and nothing else has happened.
Freed(k, r, S) ==
  /\ Sound(r) /\ OnTime(r) /\ Ending(r) = Ending(k) /\ SameControl(k, r)
  /\ r.basePrio = k.basePrio /\ r.yielded = k.yielded
  /\ r.numTasks = k.numTasks /\ r.switchReq = k.switchReq /\ r.fault = k.fault
  /\ \A u \in Tasks :
       /\ r.stateList[u] = IF u \in S THEN k.prio[u] ELSE k.stateList[u]
       /\ r.eventList[u] = IF u \in S THEN NoList ELSE k.eventList[u]
  /\ Noted(k) => Noted(r)
  /\ \A u \in S : k.prio[u] > k.prio[k.current] => Noted(r)

LEMMA ResetIfTickless ==
  ASSUME NEW k, Sound(k), OnTime(k)
  PROVE  LET r == ResetUnblockIfTickless(k)
         IN  /\ Sound(r) /\ OnTime(r) /\ Ending(r) = Ending(k)
             /\ SameControl(k, r) /\ Flagged(k, r)
<1>1. CASE configUSE_TICKLESS_IDLE
  <2>1. ResetUnblockIfTickless(k) = prvResetNextTaskUnblockTime(k)
    BY <1>1 DEF ResetUnblockIfTickless
  <2>2. Good(k) /\ k \in Kernel
    BY DEF Sound, Good
  <2>3. LET r == prvResetNextTaskUnblockTime(k)
        IN  Sound(r) /\ SameControl(k, r) /\ Ending(r) = Ending(k)
    BY ResetUnblockTimeSound
  <2>4. OnTime(prvResetNextTaskUnblockTime(k))
    BY <2>2, ResetKeeps
  <2>5. Flagged(k, prvResetNextTaskUnblockTime(k))
    BY <2>2, ResetFlagged
  <2>6. QED BY <2>1, <2>3, <2>4, <2>5
<1>2. CASE ~configUSE_TICKLESS_IDLE
  <2>1. ResetUnblockIfTickless(k) = k
    BY <1>2 DEF ResetUnblockIfTickless
  <2>2. SameControl(k, k) /\ Flagged(k, k)
    BY DEF SameControl, Flagged, Still, SameProcessor
  <2>3. QED BY <2>1, <2>2
<1>3. QED BY <1>1, <1>2

LEMMA WaiterFreed ==
  ASSUME NEW k, Sound(k), OnTime(k), k.suspended # 0, k.current \in Tasks,
         NEW t \in Tasks, k.eventList[t] # NoList,
         k.stateList[t] \notin {NoList, xTasksWaitingTermination}
  PROVE  Freed(k, xTaskRemoveFromUnorderedEventList(k, t), {t})
<1> DEFINE a == RemoveEvent(k, t)
           b == ResetUnblockIfTickless(a)
           c == prvAddTaskToReadyList(RemoveState(b, t), t)
           r == PendYieldIf(c, Preempts(k, t))
<1>1. Good(k) /\ k \in Kernel /\ Orderly(k)
  BY DEF Sound, Good
<1>2. configASSERT(k, k.suspended # 0) = k
  <2>1. k.fault \in BOOLEAN
    BY <1>1 DEF Kernel
  <2>2. (k.fault \/ ~(k.suspended # 0)) = k.fault
    BY <2>1
  <2>3. [k EXCEPT !.fault = k.fault] = k
    BY <1>1 DEF Kernel
  <2>4. QED BY <2>2, <2>3 DEF configASSERT
<1>3. xTaskRemoveFromUnorderedEventList(k, t) = r
  BY <1>2 DEF xTaskRemoveFromUnorderedEventList
<1>4. /\ Good(a) /\ SameControl(k, a) /\ Ending(a) = Ending(k)
      /\ a.stateList = k.stateList /\ a.topReady = k.topReady
      /\ a.eventList = [k.eventList EXCEPT ![t] = NoList]
  <2> HIDE DEF a
  <2>1. QED BY <1>1, RemoveEventGood DEF a
<1>5. Settled(k, a) /\ a.fault = k.fault
  <2>1. Linking(k, RemoveEvent(k, t), k.stateList,
                [k.eventList EXCEPT ![t] = NoList])
    BY <1>1, RemoveEventLinking
  <2>2. QED BY <2>1 DEF Linking
<1>6. OnTime(a)
  <2>1. PICK l \in ItemLists : TRUE
    BY ListNames
  <2>2. Frame(k, a, t)
    BY <1>1, <2>1, EventFrame
  <2>3. a \in Kernel /\ k \in Kernel /\ Untimed(k, a, t)
    BY <1>1, <1>4, <2>2, FrameUntimed DEF Good
  <2> HIDE DEF a
  <2>4. QED BY <2>3, UntimedKeeps
<1> HIDE DEF a
<1>7. Sound(a)
  BY <1>1, <1>4 DEF Sound, Orderly, SameControl
<1>8. /\ Sound(b) /\ OnTime(b) /\ Ending(b) = Ending(a)
      /\ SameControl(a, b) /\ Flagged(a, b)
  BY <1>6, <1>7, ResetIfTickless
<1> HIDE DEF b
<1>9. b.stateList = k.stateList /\ b.prio = k.prio
      /\ b.eventList = [k.eventList EXCEPT ![t] = NoList]
  BY <1>4, <1>8 DEF Flagged, Still, SameControl
<1>10. /\ Sound(c) /\ SameControl(b, c) /\ Ending(c) = Ending(b)
       /\ c.stateList = [b.stateList EXCEPT ![t] = b.prio[t]]
       /\ c.eventList = b.eventList
  <2>1. b.stateList[t] # xTasksWaitingTermination
    BY <1>9
  <2>2. QED BY <1>8, <2>1, MoveToReadySound
<1>11. Settled(b, c) /\ c.fault = b.fault
  <2>1. Good(b) /\ b.stateList[t] # NoList
    BY <1>8, <1>9 DEF Sound
  <2>2. Linking(b, prvAddTaskToReadyList(RemoveState(b, t), t),
                [b.stateList EXCEPT ![t] = b.prio[t]], b.eventList)
    BY <2>1, MoveToReadyLinking
  <2>3. QED BY <2>2 DEF Linking
<1>12. OnTime(c)
  <2>1. Good(b) /\ b \in Kernel
    BY <1>8 DEF Sound, Good
  <2>2. Frame(b, c, t) /\ c \in Kernel
    BY <2>1, MoveToReadyFrame
  <2>3. Untimed(b, c, t)
    BY <2>2, FrameUntimed
  <2> HIDE DEF c
  <2>4. QED BY <1>8, <2>1, <2>2, <2>3, UntimedKeeps
<1> HIDE DEF c
<1>13. PICK e \in BOOLEAN : e = Preempts(k, t)
  BY <1>1, PriorityComparison DEF Preempts
<1>14. /\ Sound(r) /\ SameControl(c, r) /\ SameLinks(c, r)
       /\ Ending(r) = Ending(c)
  BY <1>10, <1>13, YieldSound
<1>15. Flagged(c, r) /\ (e => r.yieldPending)
  BY <1>10, <1>13, YieldFlagged DEF Sound, Good
<1>16. OnTime(r)
  <2>1. c \in Kernel
    BY <1>10 DEF Sound, Good
  <2>2. Quiet(c, r)
    BY <2>1, QuietFunctions
  <2> HIDE DEF r
  <2>3. QED BY <1>12, <2>1, <2>2, QuietKeeps
<1> HIDE DEF r
<1>17. SameControl(k, r) /\ Ending(r) = Ending(k)
  BY <1>4, <1>8, <1>10, <1>14 DEF SameControl
<1>18. /\ r.basePrio = k.basePrio /\ r.yielded = k.yielded
       /\ r.numTasks = k.numTasks /\ r.switchReq = k.switchReq
       /\ r.fault = k.fault
  BY <1>5, <1>8, <1>11, <1>15
     DEF Settled, SameFlags, Flagged, Still, SameProcessor
<1>19. Noted(k) => Noted(r)
  BY <1>5, <1>8, <1>11, <1>15 DEF Settled, SameFlags, Flagged, Noted
<1>20. \A u \in Tasks :
         /\ r.stateList[u] = IF u \in {t} THEN k.prio[u] ELSE k.stateList[u]
         /\ r.eventList[u] = IF u \in {t} THEN NoList ELSE k.eventList[u]
  <2>1. k.stateList = [u \in Tasks |-> k.stateList[u]]
        /\ k.eventList = [u \in Tasks |-> k.eventList[u]]
    BY <1>1 DEF Kernel
  <2>2. r.stateList = [k.stateList EXCEPT ![t] = k.prio[t]]
        /\ r.eventList = [k.eventList EXCEPT ![t] = NoList]
    BY <1>9, <1>10, <1>14 DEF SameLinks
  <2>3. QED BY <2>1, <2>2
<1>21. k.prio[t] > k.prio[k.current] => Noted(r)
  BY <1>13, <1>15 DEF Preempts, Noted
<1>22. QED BY <1>3, <1>14, <1>16, <1>17, <1>18, <1>19, <1>20, <1>21 DEF Freed
-----------------------------------------------------------------------------
(* The loop over the list of a group.                                      *)

LEMMA LeastNumber ==
  ASSUME NEW T, T \subseteq Nat, T # {}
  PROVE  \E n \in T : \A m \in T : ~(m < n)
<1>1. PICK n \in T : \A m \in T : ~(<<m, n>> \in OpToRel(<, Nat))
  BY NatLessThanWellFounded, WFMin, ZenonT(60)
<1>2. QED BY <1>1 DEF OpToRel

\* The states of the kernel between the turns of the loop.
LEMMA LoopStates ==
  ASSUME NEW k, NEW g, NEW who, NEW n \in Nat, Len(GroupWaiters(k, g)) = n
  PROVE  \E f :
           /\ f[0] = k
           /\ \A i \in 1..n :
                f[i] = IF GroupWaiters(k, g)[i] \in who
                         THEN xTaskRemoveFromUnorderedEventList(
                                f[i - 1], GroupWaiters(k, g)[i])
                         ELSE f[i - 1]
           /\ ReleaseFrom(k, g, who) = f[n]
<1> DEFINE s == GroupWaiters(k, g)
           Turn(q, i) == IF s[i] \in who
                           THEN xTaskRemoveFromUnorderedEventList(q, s[i])
                           ELSE q
           After(f, m) == /\ f = [i \in 0..m |-> IF i = 0 THEN k
                                                 ELSE Turn(f[i - 1], i)]
           T == {m \in Nat : ~\E f : After(f, m)}
<1>1. ASSUME T # {} PROVE FALSE
  <2>1. PICK m \in T : \A j \in T : ~(j < m)
    BY <1>1, LeastNumber
  <2> HIDE DEF Turn
  <2>2. CASE m = 0
    <3>1. After([i \in 0..0 |-> k], 0)
      OBVIOUS
    <3>2. QED BY <2>1, <2>2, <3>1
  <2>3. CASE m # 0
    <3>1. m - 1 \in Nat /\ m - 1 < m /\ m \in Nat
      BY <2>1, <2>3
    <3>2. PICK f : After(f, m - 1)
      BY <2>1, <3>1
    <3> DEFINE h == [i \in 0..m |-> IF i = 0 THEN k ELSE Turn(f[i - 1], i)]
    <3>3. \A i \in 0..(m - 1) : h[i] = f[i]
      BY <3>1, <3>2
    <3>4. \A i \in 0..m : i # 0 => i - 1 \in 0..(m - 1)
      BY <3>1
    <3>5. \A i \in 0..m : h[i] = IF i = 0 THEN k ELSE Turn(h[i - 1], i)
      BY <3>3, <3>4
    <3>6. After(h, m)
      BY <3>5
    <3>7. QED BY <2>1, <3>6
  <2>4. QED BY <2>2, <2>3
<1>2. \E f : After(f, n)
  BY <1>1
<1> DEFINE after == CHOOSE f : After(f, n)
<1>3. After(after, n)
  BY <1>2
<1>4. ReleaseFrom(k, g, who) = after[n]
  BY DEF ReleaseFrom
<1> HIDE DEF after
<1>5. after[0] = k
  BY <1>3
<1>6. \A i \in 1..n : after[i] = Turn(after[i - 1], i)
  <2> HIDE DEF Turn
  <2>1. \A i \in 1..n : i \in 0..n /\ i # 0
    OBVIOUS
  <2>2. QED BY <1>3, <2>1
<1>7. QED BY <1>4, <1>5, <1>6
LEMMA NobodyFreed ==
  ASSUME NEW k, Sound(k), OnTime(k)
  PROVE  Freed(k, k, {})
BY DEF Freed, SameControl

LEMMA OneMoreFreed ==
  ASSUME NEW k, Sound(k), k.suspended # 0, k.current \in Tasks,
         NEW S, NEW q, Freed(k, q, S),
         NEW t \in Tasks, t \notin S, k.eventList[t] # NoList,
         k.stateList[t] \notin {NoList, xTasksWaitingTermination}
  PROVE  Freed(k, xTaskRemoveFromUnorderedEventList(q, t), S \cup {t})
<1> DEFINE r == xTaskRemoveFromUnorderedEventList(q, t)
<1>1. /\ Sound(q) /\ OnTime(q) /\ Ending(q) = Ending(k) /\ SameControl(k, q)
      /\ q.suspended # 0 /\ q.current \in Tasks
      /\ q.current = k.current /\ q.prio = k.prio
  BY DEF Freed, SameControl
<1>2. q.eventList[t] # NoList
      /\ q.stateList[t] \notin {NoList, xTasksWaitingTermination}
  BY DEF Freed
<1>3. Freed(q, r, {t})
  BY <1>1, <1>2, WaiterFreed
<1> HIDE DEF r
<1>4. /\ Sound(r) /\ OnTime(r) /\ Ending(r) = Ending(k) /\ SameControl(k, r)
      /\ r.basePrio = k.basePrio /\ r.yielded = k.yielded
      /\ r.numTasks = k.numTasks /\ r.switchReq = k.switchReq
      /\ r.fault = k.fault
      /\ Noted(k) => Noted(r)
  BY <1>1, <1>3 DEF Freed, SameControl
<1>5. \A u \in Tasks :
        /\ r.stateList[u] = IF u \in S \cup {t} THEN k.prio[u] ELSE k.stateList[u]
        /\ r.eventList[u] = IF u \in S \cup {t} THEN NoList ELSE k.eventList[u]
  BY <1>1, <1>3 DEF Freed
<1>6. \A u \in S \cup {t} : k.prio[u] > k.prio[k.current] => Noted(r)
  BY <1>1, <1>3 DEF Freed
<1>7. QED BY <1>4, <1>5, <1>6 DEF Freed, r

\* The tasks that wait in the list of a group.
WaitersOf(k, g) == {u \in Tasks : InGroupList(k, u, g)}

LEMMA WaitersInList ==
  ASSUME NEW k, Good(k), NEW g \in EventGroups
  PROVE  /\ GroupWaiters(k, g) \in Seq(Tasks)
         /\ IsInjective(GroupWaiters(k, g))
         /\ ToSet(GroupWaiters(k, g)) = WaitersOf(k, g)
<1>1. WaitList[g] \in EventLists
  BY EventGroupAssumption
<1>2. WaitList[g] \in ItemLists /\ WaitList[g] \in Lists
  BY <1>1 DEF ItemLists, Lists
<1>3. k.lists[WaitList[g]] \in ListOf(Tasks)
  BY <1>2 DEF Good, Kernel
<1>4. GroupWaiters(k, g) \in Seq(Tasks)
  BY <1>3 DEF GroupWaiters, ListOf
<1>5. /\ IsInjective(GroupWaiters(k, g))
      /\ ToSet(GroupWaiters(k, g)) = WaitersOf(k, g)
  BY <1>2 DEF Good, Consistent, ItemsOf, GroupWaiters, WaitersOf, InGroupList
<1>6. QED BY <1>4, <1>5

LEMMA LoopFrees ==
  ASSUME NEW k, Sound(k), OnTime(k), k.suspended # 0, k.current \in Tasks,
         NEW g \in EventGroups, NEW who,
         \A u \in WaitersOf(k, g) :
           k.stateList[u] \notin {NoList, xTasksWaitingTermination}
  PROVE  Freed(k, ReleaseFrom(k, g, who), WaitersOf(k, g) \cap who)
<1> DEFINE s == GroupWaiters(k, g)
           n == Len(s)
           D(i) == {u \in Tasks : u \in who /\ \E j \in 1..i : s[j] = u}
<1>1. /\ s \in Seq(Tasks) /\ ToSet(s) = WaitersOf(k, g)
      /\ IsInjective(s) /\ n \in Nat
  <2>1. Good(k)
    BY DEF Sound
  <2>2. QED BY <2>1, WaitersInList
<1>2. PICK f : /\ f[0] = k
               /\ \A i \in 1..n :
                    f[i] = IF s[i] \in who
                             THEN xTaskRemoveFromUnorderedEventList(
                                    f[i - 1], s[i])
                             ELSE f[i - 1]
               /\ ReleaseFrom(k, g, who) = f[n]
  BY <1>1, LoopStates
<1>3. /\ \A i \in 1..n : s[i] \in Tasks /\ s[i] \in WaitersOf(k, g)
      /\ \A u \in WaitersOf(k, g) : \E i \in 1..n : s[i] = u
      /\ \A i, j \in 1..n : s[i] = s[j] => i = j
  BY <1>1 DEF ToSet, IsInjective
<1>4. \A u \in WaitersOf(k, g) : k.eventList[u] # NoList
  <2>1. WaitList[g] # NoList
    BY EventGroupAssumption, ListNames DEF Lists, ItemLists
  <2>2. QED BY <2>1 DEF WaitersOf, InGroupList
<1> HIDE DEF s, n
<1> DEFINE T == {i \in 0..n : ~Freed(k, f[i], D(i))}
<1>5. ASSUME T # {} PROVE FALSE
  <2>1. PICK i \in T : \A j \in T : ~(j < i)
    <3>1. T \subseteq Nat
      BY <1>1
    <3> HIDE DEF T
    <3>2. QED BY <1>5, <3>1, LeastNumber
  <2>2. i \in 0..n /\ ~Freed(k, f[i], D(i))
    BY <2>1
  <2>3. CASE i = 0
    <3>1. D(i) = {}
      BY <2>3
    <3> HIDE DEF D
    <3>2. QED BY <1>2, <2>2, <2>3, <3>1, NobodyFreed
  <2>4. CASE i # 0
    <3>1. i \in 1..n /\ i - 1 \in 0..n /\ i - 1 < i
      BY <1>1, <2>2, <2>4
    <3>2. i - 1 \notin T
      BY <2>1, <3>1
    <3>3. Freed(k, f[i - 1], D(i - 1))
      BY <3>1, <3>2
    <3>4. CASE s[i] \in who
      <4>1. D(i) = D(i - 1) \cup {s[i]}
        BY <1>3, <3>1, <3>4
      <4>2. s[i] \notin D(i - 1) /\ s[i] \in Tasks
        <5>1. \A j \in 1..(i - 1) : j \in 1..n /\ j # i
          BY <1>1, <3>1
        <5>2. QED BY <1>3, <3>1, <5>1
      <4>3. f[i] = xTaskRemoveFromUnorderedEventList(f[i - 1], s[i])
        BY <1>2, <3>1, <3>4
      <4>4. /\ k.eventList[s[i]] # NoList
            /\ k.stateList[s[i]] \notin {NoList, xTasksWaitingTermination}
        BY <1>3, <1>4, <3>1
      <4> HIDE DEF D
      <4>5. Freed(k, xTaskRemoveFromUnorderedEventList(f[i - 1], s[i]),
                  D(i - 1) \cup {s[i]})
        BY <3>3, <4>2, <4>4, OneMoreFreed
      <4>6. QED BY <2>2, <4>1, <4>3, <4>5
    <3>5. CASE s[i] \notin who
      <4>1. D(i) = D(i - 1)
        BY <3>1, <3>5
      <4>2. f[i] = f[i - 1]
        BY <1>2, <3>1, <3>5
      <4>3. QED BY <2>2, <3>3, <4>1, <4>2
    <3>6. QED BY <3>4, <3>5
  <2>5. QED BY <2>3, <2>4
<1>6. Freed(k, f[n], D(n))
  <2>1. n \in 0..n
    BY <1>1
  <2> HIDE DEF D
  <2>2. QED BY <1>5, <2>1
<1>7. D(n) = WaitersOf(k, g) \cap who
  BY <1>3 DEF WaitersOf
<1>8. QED BY <1>2, <1>6, <1>7
-----------------------------------------------------------------------------
(* What a call on a group does to the kernel.                              *)

\* The scheduler is suspended once more, tasks that waited are made ready, and
\* the current task may have begun to wait.
Rearranged(k, r) ==
  /\ Sound(r) /\ OnTime(r) /\ Ending(r) = Ending(k)
  /\ r.suspended = k.suspended + 1
  /\ r.current = k.current /\ r.running = k.running /\ r.stage = k.stage
  /\ r.pendedTicks = k.pendedTicks /\ r.numDeleted = k.numDeleted
  /\ r.prio = k.prio /\ r.basePrio = k.basePrio /\ r.numTasks = k.numTasks
  /\ r.switchReq = k.switchReq /\ r.fault = k.fault
  /\ Noted(k) => Noted(r)
  /\ \A u \in Tasks :
       \/ r.stateList[u] = k.stateList[u] /\ r.eventList[u] = k.eventList[u]
       \/ /\ k.eventList[u] # NoList
          /\ r.stateList[u] = k.prio[u] /\ r.eventList[u] = NoList
          /\ k.prio[u] > k.prio[k.current] => Noted(r)
       \/ /\ u = k.current
          /\ r.stateList[u] \notin Priorities
          /\ r.stateList[u] \notin {NoList, xTasksWaitingTermination}
          /\ r.eventList[u] # xPendingReadyList

\* A task that waits in an event list lives, and no abort is half done to it.
LEMMA WaiterLives ==
  ASSUME IInv, PInv, NEW t \in Tasks, At(t, "app"),
         NEW u \in Tasks, os.eventList[u] # NoList
  PROVE  /\ pc[u] \notin Dead /\ u # Idle
         /\ os.stateList[u] \notin {NoList, xTasksWaitingTermination}
<1>1. Running(t) /\ pc[t] = "app"
  BY DEF At
<1>2. pc[u] \notin Dead
  BY DEF IInv, DeadUnlinked
<1>3. os.stateList[u] # NoList
  BY <1>1, <1>2, RunningTask
<1>4. os.stateList[u] # xTasksWaitingTermination
  BY <1>2, LiveNotEnding
<1>5. u # Idle
  BY <1>1 DEF Running, PInv, LinksInv, IdleReady
<1>6. QED BY <1>2, <1>3, <1>4, <1>5

LEMMA RearrangedStep ==
  ASSUME IInv, PInv, NEW t \in Tasks, At(t, "app"), t # Idle,
         Rearranged(os, os'),
         NEW p \in {"resumeThenReturn", "groupResume"},
         pc' = [pc EXCEPT ![t] = p], UNCHANGED locals,
         p = "groupResume" => os.suspended = 0,
         p = "resumeThenReturn" => os'.stateList[t] = os.stateList[t]
  PROVE  IInv' /\ PInv'
<1>1. /\ Running(t) /\ pc[t] = "app" /\ pc[t] \notin Dead
      /\ os.running /\ os.current = t /\ os.stage = "run" /\ ~os.switchReq
      /\ os.stateList[t] \in Priorities
      /\ os.suspended \in Nat
  <2>1. Running(t) /\ pc[t] = "app"
    BY DEF At
  <2>2. os \in Kernel
    BY IInvFacts
  <2>3. QED BY <2>1, <2>2, RunningTask DEF Dead, Kernel, Unlisted, Yielding
<1>2. /\ os'.running /\ os'.current = t /\ os'.stage = "run"
      /\ os'.suspended = os.suspended + 1 /\ os'.suspended > 0
      /\ Sound(os') /\ Ending(os') = Ending(os)
      /\ os'.prio = os.prio /\ os'.basePrio = os.basePrio
      /\ os'.numTasks = os.numTasks /\ os'.numDeleted = os.numDeleted
      /\ ~os'.switchReq /\ os'.fault = os.fault
      /\ Noted(os) => Noted(os')
  BY <1>1 DEF Rearranged
<1>3. \A u \in Tasks : os.prio[u] \in Priorities /\ os.prio[u] \in Int
  BY IInvFacts, TasksAssumption DEF Kernel, Priorities
<1>4. UNCHANGED <<target, ticks, lastWake>>
  BY DEF locals
<1>5. ASSUME NEW u \in Tasks
      PROVE  \/ os'.stateList[u] = os.stateList[u] /\ os'.eventList[u] = os.eventList[u]
             \/ /\ pc[u] \notin Dead /\ u # Idle
                /\ os'.stateList[u] \notin {NoList, xTasksWaitingTermination}
                /\ os'.eventList[u] # xPendingReadyList
                /\ u = t \/ (os.prio[u] > os.prio[t] => Noted(os'))
  <2>1. CASE /\ os.eventList[u] # NoList
             /\ os'.stateList[u] = os.prio[u] /\ os'.eventList[u] = NoList
             /\ os.prio[u] > os.prio[os.current] => Noted(os')
    BY <1>1, <1>3, <2>1, WaiterLives, ListNames DEF Lists, ItemLists
  <2>2. CASE /\ u = os.current
             /\ os'.stateList[u] \notin Priorities
             /\ os'.stateList[u] \notin {NoList, xTasksWaitingTermination}
             /\ os'.eventList[u] # xPendingReadyList
    BY <1>1, <2>2
  <2>3. QED BY <2>1, <2>2 DEF Rearranged
<1>6. LiveMove
  BY <1>5 DEF LiveMove
<1>7. KernelStep
  BY <1>1, <1>2, <1>6 DEF KernelStep, TickCounted, Loops
<1>8. /\ p \notin Dead /\ p # "deleteFree"
      /\ p \notin {"abort", "abortEvent"}
  BY DEF Dead
<1>9. IInv'
  BY <1>1, <1>2, <1>4, <1>7, <1>8, TaskStep, IInvFacts
<1>10. LinksInv'
  <2>1. \A u \in Tasks : StaysOrMoves(u)
    BY <1>2, <1>5 DEF StaysOrMoves
  <2>2. CallsGoOn /\ pc'[Idle] = pc[Idle]
    BY <1>1, <1>4, <1>8, TaskGoesOn
  <2>3. QED BY <1>1, <1>2, <2>1, <2>2, KeepLinks DEF PInv
<1>11. CurrentReady'
  <2>1. p \in Entering => os'.suspended = 1
    BY <1>2 DEF Entering, Unlisted
  <2>2. os'.stateList[t] \in Priorities \/ p \in Unlisted
    BY <1>1 DEF Unlisted
  <2>3. QED BY <1>1, <1>2, <2>1, <2>2, TaskCurrentReady
<1>12. NothingLeft'
  BY <1>2 DEF NothingLeft
<1>13. HigherNoted'
  <2>1. os'.basePrio = os'.prio
    BY <1>2 DEF PInv, HigherNoted
  <2>2. ASSUME NEW u \in Tasks, IsReady(os', u), os'.prio[u] > os'.prio[t]
        PROVE  Noted(os')
    <3>1. u # t /\ os.prio[u] > os.prio[t]
      BY <1>2, <1>3, <2>2
    <3>2. CASE os'.stateList[u] = os.stateList[u]
      <4>1. IsReady(os, u)
        BY <1>2, <2>2, <3>2 DEF IsReady
      <4>2. QED BY <1>1, <1>2, <3>1, <4>1 DEF PInv, HigherNoted
    <3>3. CASE os'.stateList[u] # os.stateList[u]
      BY <1>5, <3>1, <3>3
    <3>4. QED BY <3>2, <3>3
  <2>3. QED BY <1>2, <2>1, <2>2 DEF HigherNoted
<1>14. QED BY <1>2, <1>9, <1>10, <1>11, <1>12, <1>13 DEF PInv
-----------------------------------------------------------------------------
(* Beginning to wait.                                                      *)

LEMMA CurrentBlocked ==
  ASSUME NEW k, Sound(k), OnTime(k), k.running, k.stage \notin Unblocking,
         k.current \in Tasks, k.stateList[k.current] \in Priorities,
         NEW n \in Ticks, n # 0
  PROVE  LET r == prvAddCurrentTaskToDelayedList(k, n, TRUE)
         IN  /\ Sound(r) /\ OnTime(r) /\ Ending(r) = Ending(k)
             /\ Settled(k, r) /\ r.fault = k.fault
             /\ r.eventList = k.eventList
             /\ r.stateList[k.current] \notin Priorities
             /\ r.stateList[k.current] \notin {NoList, xTasksWaitingTermination}
             /\ \A u \in Tasks \ {k.current} : r.stateList[u] = k.stateList[u]
<1> DEFINE t == k.current
           r == prvAddCurrentTaskToDelayedList(k, n, TRUE)
<1>1. /\ k \in Kernel /\ Good(k) /\ k.stateList[t] # NoList
      /\ k.stateList[t] # xTasksWaitingTermination
  BY ListsDiffer DEF Sound, Good
<1>2. CASE n # portMAX_DELAY
  <2>1. r = prvAddCurrentTaskToDelayedList(k, n, FALSE)
    BY <1>2 DEF prvAddCurrentTaskToDelayedList
  <2>2. n > 0
    BY TasksAssumption DEF Ticks
  <2>3. Sound(r) /\ Ending(r) = Ending(k)
    <3>1. LET q == prvAddCurrentTaskToDelayedList(k, n, FALSE)
          IN  Sound(q) /\ (k.stateList[t] # xTasksWaitingTermination =>
                             Ending(q) = Ending(k))
      BY DelayCurrentSound
    <3>2. QED BY <1>1, <2>1, <3>1
  <2>4. OnTime(r) /\ r.fault = k.fault
    <3>1. LET q == prvAddCurrentTaskToDelayedList(k, n, FALSE)
          IN  OnTime(q) /\ (k.stateList[t] # NoList => q.fault = k.fault)
      BY <2>2, DelayKeeps
    <3>2. QED BY <1>1, <2>1, <3>1
  <2>5. /\ Settled(k, r) /\ r.eventList = k.eventList
        /\ r.stateList[t] \notin Priorities /\ r.stateList[t] # NoList
        /\ r.stateList[t] # xTasksWaitingTermination
        /\ \A u \in Tasks \ {t} : r.stateList[u] = k.stateList[u]
    <3>1. LET q == prvAddCurrentTaskToDelayedList(k, n, FALSE)
          IN  /\ Settled(k, q) /\ q.eventList = k.eventList
              /\ q.stateList[t] \notin Priorities /\ q.stateList[t] # NoList
              /\ q.stateList[t] # xTasksWaitingTermination
              /\ \A u \in Tasks \ {t} : q.stateList[u] = k.stateList[u]
      BY <1>1, DelaySettled
    <3>2. QED BY <2>1, <3>1
  <2>6. QED BY <2>3, <2>4, <2>5
<1>3. CASE n = portMAX_DELAY
  <2> DEFINE k0 == [k EXCEPT !.delayAborted[t] = FALSE]
             k1 == RemoveState(k0, t)
             k2 == AppendState(k1, xSuspendedTaskList, t)
  <2>1. r = k2
    BY <1>3 DEF prvAddCurrentTaskToDelayedList
  <2>2. /\ k0 \in Kernel /\ SameControl(k, k0) /\ SameLinks(k, k0)
        /\ Quiet(k, k0) /\ k0.fault = k.fault
        /\ Settled(k, k0)
    BY <1>1 DEF Kernel, SameControl, SameLinks, Quiet, SameClock, Settled, SameFlags
  <2> HIDE DEF k0
  <2>3. /\ Good(k0) /\ OnTime(k0) /\ k0.stateList = k.stateList
        /\ k0.eventList = k.eventList
    BY <1>1, <2>2, SameLinksConsistent, QuietKeeps DEF Good, SameLinks
  <2>4. Linking(k0, k1, [k0.stateList EXCEPT ![t] = NoList], k0.eventList)
        /\ Frame(k0, k1, t)
    BY <1>1, <2>3, RemoveStateLinking, RemoveStateFrame
  <2> HIDE DEF k1
  <2>5. Good(k1) /\ k1.stateList[t] = NoList
    BY <1>1, <2>3, <2>4 DEF Linking, Kernel
  <2>6. Linking(k1, k2, [k1.stateList EXCEPT ![t] = xSuspendedTaskList],
                k1.eventList)
        /\ Frame(k1, k2, t)
    BY <2>5, ListNames, DelayedListNames, AppendStateLinking, AppendStateFrame
  <2> HIDE DEF k2
  <2>7. OnTime(k2)
    <3>1. Untimed(k0, k1, t) /\ Untimed(k1, k2, t)
      BY <2>4, <2>6, FrameUntimed
    <3>2. k1 \in Kernel /\ k2 \in Kernel
      BY <2>4, <2>6 DEF Linking, Good
    <3>3. OnTime(k1)
      BY <2>2, <2>3, <3>1, <3>2, UntimedKeeps
    <3>4. QED BY <3>1, <3>2, <3>3, UntimedKeeps
  <2>8. Sound(r) /\ Ending(r) = Ending(k)
    <3>1. Sound(prvAddCurrentTaskToDelayedList(k, n, TRUE))
          /\ Ending(prvAddCurrentTaskToDelayedList(k, n, TRUE)) = Ending(k)
      BY <1>1, DelayCurrentSound
    <3>2. QED BY <3>1
  <2>9. Settled(k, k2) /\ k2.fault = k.fault
    BY <2>2, <2>4, <2>6 DEF Linking, Settled, SameControl, SameFlags
  <2>10. /\ k2.eventList = k.eventList
         /\ k2.stateList[t] = xSuspendedTaskList
         /\ \A u \in Tasks \ {t} : k2.stateList[u] = k.stateList[u]
    BY <1>1, <2>3, <2>4, <2>6 DEF Linking, Kernel
  <2>11. xSuspendedTaskList # NoList
    BY ListNames DEF Lists
  <2>12. QED BY <2>1, <2>7, <2>8, <2>9, <2>10, <2>11, ListsDiffer
<1>4. QED BY <1>2, <1>3

LEMMA CurrentPlaced ==
  ASSUME NEW k, Sound(k), OnTime(k), k.running, k.stage \notin Unblocking,
         k.current \in Tasks, k.stateList[k.current] \in Priorities,
         k.eventList[k.current] = NoList,
         NEW l \in EventLists, NEW n \in Ticks, n # 0
  PROVE  LET r == vTaskPlaceOnUnorderedEventList(k, l, n)
         IN  /\ Sound(r) /\ OnTime(r) /\ Ending(r) = Ending(k)
             /\ Settled(k, r) /\ r.fault = k.fault
             /\ r.stateList[k.current] \notin Priorities
             /\ r.stateList[k.current] \notin {NoList, xTasksWaitingTermination}
             /\ r.eventList[k.current] = l
             /\ \A u \in Tasks \ {k.current} :
                  /\ r.stateList[u] = k.stateList[u]
                  /\ r.eventList[u] = k.eventList[u]
<1> DEFINE t == k.current
           a == AppendEvent(k, l, t)
           r == prvAddCurrentTaskToDelayedList(a, n, TRUE)
<1>1. k \in Kernel /\ Good(k) /\ Orderly(k) /\ l \in ItemLists
  BY DEF Sound, Good, ItemLists
<1>2. /\ Linking(k, a, k.stateList, [k.eventList EXCEPT ![t] = l])
      /\ Frame(k, a, t)
  BY <1>1, AppendEventLinking, EventFrame
<1>3. /\ Good(a) /\ SameControl(k, a) /\ a.stateList = k.stateList
      /\ a.topReady = k.topReady /\ Ending(a) = Ending(k)
  <2>1. LET q == AppendEvent(k, l, t)
        IN  /\ Good(q) /\ SameControl(k, q) /\ q.stateList = k.stateList
            /\ q.topReady = k.topReady /\ Ending(q) = Ending(k)
    BY <1>1, AppendEventGood
  <2>2. QED BY <2>1
<1> HIDE DEF a
<1>4. Sound(a)
  BY <1>1, <1>3 DEF Sound, Orderly, SameControl
<1>5. OnTime(a)
  <2>1. a \in Kernel /\ Untimed(k, a, t)
    BY <1>2, <1>3, FrameUntimed DEF Good
  <2>2. QED BY <1>1, <2>1, UntimedKeeps
<1>6. /\ a.running /\ a.stage \notin Unblocking /\ a.current = t
      /\ a.stateList[a.current] \in Priorities /\ a.current \in Tasks
  BY <1>3 DEF SameControl
<1>7. /\ Sound(r) /\ OnTime(r) /\ Ending(r) = Ending(a)
      /\ Settled(a, r) /\ r.fault = a.fault
      /\ r.eventList = a.eventList
      /\ r.stateList[t] \notin Priorities
      /\ r.stateList[t] \notin {NoList, xTasksWaitingTermination}
      /\ \A u \in Tasks \ {t} : r.stateList[u] = a.stateList[u]
  <2>1. LET q == prvAddCurrentTaskToDelayedList(a, n, TRUE)
        IN  /\ Sound(q) /\ OnTime(q) /\ Ending(q) = Ending(a)
            /\ Settled(a, q) /\ q.fault = a.fault
            /\ q.eventList = a.eventList
            /\ q.stateList[a.current] \notin Priorities
            /\ q.stateList[a.current] \notin {NoList, xTasksWaitingTermination}
            /\ \A u \in Tasks \ {a.current} : q.stateList[u] = a.stateList[u]
    BY <1>4, <1>5, <1>6, CurrentBlocked
  <2>2. QED BY <1>6, <2>1
<1> HIDE DEF r
<1>8. Settled(k, r) /\ r.fault = k.fault
  BY <1>2, <1>7, SettledTransitive DEF Linking
<1>9. r.eventList[t] = l /\ \A u \in Tasks \ {t} : r.eventList[u] = k.eventList[u]
  BY <1>1, <1>2, <1>7 DEF Linking, Kernel
<1>10. vTaskPlaceOnUnorderedEventList(k, l, n) = r
  BY DEF vTaskPlaceOnUnorderedEventList, a, r
<1>11. QED BY <1>3, <1>7, <1>8, <1>9, <1>10
-----------------------------------------------------------------------------
(* The kernel after each call.                                             *)

LEMMA CallSuspends ==
  ASSUME IInv, OnTime(os)
  PROVE  LET k == vTaskSuspendAll(os)
         IN  /\ Rearranged(os, k) /\ k.lists = os.lists
             /\ k.stateList = os.stateList /\ k.eventList = os.eventList
<1> DEFINE k == vTaskSuspendAll(os)
<1>1. os \in Kernel /\ Sound(os)
  BY IInvFacts
<1>2. /\ Still(os, k) /\ k.current = os.current
      /\ k.suspended = os.suspended + 1 /\ k.stage = os.stage
      /\ k.pendedTicks = os.pendedTicks /\ k.pendSV = os.pendSV
      /\ k.switchReq = os.switchReq /\ k.yieldPending = os.yieldPending
      /\ k.fault = os.fault
  BY <1>1, SuspendAllFields
<1>3. /\ Sound(k) /\ SameLinks(os, k) /\ Ending(k) = Ending(os)
      /\ SameControl([os EXCEPT !.suspended = @ + 1], k)
  BY <1>1, SuspendAllSound
<1>4. k.numDeleted = os.numDeleted
  BY <1>1, <1>3 DEF SameControl, Kernel
<1>5. OnTime(k)
  <2>1. Quiet(os, k)
    BY <1>1, QuietFunctions
  <2> HIDE DEF k
  <2>2. QED BY <1>1, <2>1, QuietKeeps
<1> HIDE DEF k
<1>6. Rearranged(os, k)
  BY <1>2, <1>3, <1>4, <1>5 DEF Rearranged, Still, Noted
<1>7. QED BY <1>3, <1>6 DEF k, SameLinks

LEMMA CallReleases ==
  ASSUME IInv, PInv, OnTime(os), NEW t \in Tasks, At(t, "app"),
         NEW g \in EventGroups, NEW who
  PROVE  LET r == ReleaseFrom(vTaskSuspendAll(os), g, who)
             S == WaitersOf(os, g) \cap who
         IN  /\ Rearranged(os, r)
             /\ \A u \in Tasks :
                  /\ r.stateList[u] = IF u \in S THEN os.prio[u]
                                                 ELSE os.stateList[u]
                  /\ r.eventList[u] = IF u \in S THEN NoList
                                                 ELSE os.eventList[u]
<1> DEFINE k == vTaskSuspendAll(os)
           r == ReleaseFrom(k, g, who)
           S == WaitersOf(os, g) \cap who
<1>1. /\ Rearranged(os, k) /\ k.lists = os.lists
      /\ k.stateList = os.stateList /\ k.eventList = os.eventList
  BY CallSuspends
<1>2. os.current = t /\ os.running /\ os.suspended \in Nat
  BY IInvFacts DEF At, Running, Kernel
<1> HIDE DEF k
<1>3. /\ Sound(k) /\ OnTime(k) /\ k.suspended # 0 /\ k.current \in Tasks
      /\ k.prio = os.prio /\ k.current = os.current
  BY <1>1, <1>2 DEF Rearranged
<1>4. WaitersOf(k, g) = WaitersOf(os, g)
  BY <1>1 DEF WaitersOf, InGroupList
<1>5. \A u \in WaitersOf(os, g) : u \in Tasks /\ os.eventList[u] # NoList
  <2>1. WaitList[g] # NoList
    BY EventGroupAssumption, ListNames DEF Lists, ItemLists
  <2>2. QED BY <2>1 DEF WaitersOf, InGroupList
<1>6. \A u \in WaitersOf(k, g) :
        k.stateList[u] \notin {NoList, xTasksWaitingTermination}
  BY <1>1, <1>4, <1>5, WaiterLives
<1>7. Freed(k, r, S)
  BY <1>3, <1>4, <1>6, LoopFrees
<1> HIDE DEF r
<1>8. \A u \in Tasks :
        /\ r.stateList[u] = IF u \in S THEN os.prio[u] ELSE os.stateList[u]
        /\ r.eventList[u] = IF u \in S THEN NoList ELSE os.eventList[u]
  BY <1>1, <1>3, <1>7 DEF Freed
<1>9. Rearranged(os, r)
  <2>1. /\ Sound(r) /\ OnTime(r) /\ Ending(r) = Ending(os)
        /\ r.suspended = os.suspended + 1
        /\ r.current = os.current /\ r.running = os.running
        /\ r.stage = os.stage
        /\ r.pendedTicks = os.pendedTicks /\ r.numDeleted = os.numDeleted
        /\ r.prio = os.prio /\ r.basePrio = os.basePrio
        /\ r.numTasks = os.numTasks
        /\ r.switchReq = os.switchReq /\ r.fault = os.fault
        /\ Noted(os) => Noted(r)
    BY <1>1, <1>7 DEF Freed, Rearranged, SameControl
  <2>2. ASSUME NEW u \in Tasks
        PROVE  \/ /\ r.stateList[u] = os.stateList[u]
                  /\ r.eventList[u] = os.eventList[u]
               \/ /\ os.eventList[u] # NoList
                  /\ r.stateList[u] = os.prio[u] /\ r.eventList[u] = NoList
                  /\ os.prio[u] > os.prio[os.current] => Noted(r)
    <3>1. CASE u \in S
      <4>1. os.prio[u] > os.prio[os.current] => Noted(r)
        BY <1>3, <1>7, <3>1 DEF Freed
      <4>2. QED BY <1>5, <1>8, <3>1, <4>1
    <3>2. CASE u \notin S
      BY <1>8, <3>2
    <3>3. QED BY <3>1, <3>2
  <2>3. QED BY <2>1, <2>2 DEF Rearranged
<1>10. QED BY <1>8, <1>9 DEF r, k

LEMMA CallPlaces ==
  ASSUME IInv, PInv, ReadyUnlinked, NEW t \in Tasks, At(t, "app"),
         NEW q, Rearranged(os, q), q.stateList[t] = os.stateList[t],
         q.eventList[t] = os.eventList[t],
         NEW g \in EventGroups, NEW n \in Ticks, n # 0
  PROVE  LET r == vTaskPlaceOnUnorderedEventList(q, WaitList[g], n)
         IN  /\ Rearranged(os, r)
             /\ r.stateList[t] \notin Priorities
             /\ r.eventList[t] = WaitList[g]
             /\ \A u \in Tasks \ {t} : /\ r.stateList[u] = q.stateList[u]
                                       /\ r.eventList[u] = q.eventList[u]
<1> DEFINE l == WaitList[g]
           r == vTaskPlaceOnUnorderedEventList(q, l, n)
<1>1. /\ os.running /\ os.current = t /\ os.stage = "run"
      /\ os.stateList[t] \in Priorities
  <2>1. Running(t) /\ pc[t] = "app"
    BY DEF At
  <2>2. QED BY <2>1, RunningTask DEF Unlisted, Yielding
<1>2. /\ q.running /\ q.stage \notin Unblocking /\ q.current = t
      /\ q.stateList[q.current] \in Priorities
      /\ q.eventList[q.current] = NoList /\ Sound(q) /\ OnTime(q)
      /\ q.current \in Tasks
  BY <1>1 DEF Rearranged, ReadyUnlinked, Unblocking
<1>3. l \in EventLists /\ l # xPendingReadyList
  BY EventGroupAssumption, TasksAssumption DEF xPendingReadyList, NoList
<1>4. /\ Sound(r) /\ OnTime(r) /\ Ending(r) = Ending(q)
      /\ Settled(q, r) /\ r.fault = q.fault
      /\ r.stateList[t] \notin Priorities
      /\ r.stateList[t] \notin {NoList, xTasksWaitingTermination}
      /\ r.eventList[t] = l
      /\ \A u \in Tasks \ {t} : /\ r.stateList[u] = q.stateList[u]
                                /\ r.eventList[u] = q.eventList[u]
  <2> HIDE DEF l
  <2>1. LET s == vTaskPlaceOnUnorderedEventList(q, l, n)
        IN  /\ Sound(s) /\ OnTime(s) /\ Ending(s) = Ending(q)
            /\ Settled(q, s) /\ s.fault = q.fault
            /\ s.stateList[q.current] \notin Priorities
            /\ s.stateList[q.current] \notin {NoList, xTasksWaitingTermination}
            /\ s.eventList[q.current] = l
            /\ \A u \in Tasks \ {q.current} :
                 /\ s.stateList[u] = q.stateList[u]
                 /\ s.eventList[u] = q.eventList[u]
    BY <1>2, <1>3, CurrentPlaced
  <2>2. QED BY <1>2, <2>1
<1> HIDE DEF r, l
<1>5. /\ Ending(r) = Ending(os) /\ r.suspended = os.suspended + 1
      /\ r.current = os.current /\ r.running = os.running
      /\ r.stage = os.stage
      /\ r.pendedTicks = os.pendedTicks /\ r.numDeleted = os.numDeleted
      /\ r.prio = os.prio /\ r.basePrio = os.basePrio
      /\ r.numTasks = os.numTasks
      /\ r.switchReq = os.switchReq /\ r.fault = os.fault
      /\ Noted(os) => Noted(r)
  BY <1>4 DEF Rearranged, Settled, SameControl, SameFlags, Noted
<1>6. Noted(q) => Noted(r)
  BY <1>4 DEF Settled, SameFlags, Noted
<1>7. Rearranged(os, r)
  BY <1>1, <1>3, <1>4, <1>5, <1>6 DEF Rearranged
<1>8. QED BY <1>4, <1>7 DEF r, l
-----------------------------------------------------------------------------
(* The steps of the group keep the invariants of the scheduler.            *)

LEMMA DelaysTimedOn ==
  ASSUME IInv, DelaysTimed, NEW t, NEW p, p # "delay", Goto(t, p), UNCHANGED locals
  PROVE  DelaysTimed'
<1>1. pc = [u \in Tasks |-> pc[u]] /\ pc' = [pc EXCEPT ![t] = p] /\ ticks' = ticks
  BY IInvFacts DEF Goto, locals
<1>2. \A u \in Tasks : pc'[u] = "delay" => pc[u] = "delay"
  BY <1>1
<1>3. QED BY <1>1, <1>2 DEF DelaysTimed

LEMMA CallKeeps ==
  ASSUME TimeIInv, PInv, NEW t \in Tasks, NEW g, NEW n, MayUseGroup(t, g, n),
         Rearranged(os, os'), UNCHANGED locals,
         \/ /\ Goto(t, "resumeThenReturn")
            /\ os'.stateList[t] = os.stateList[t]
         \/ Goto(t, "groupResume") /\ n # 0
  PROVE  TimeIInv' /\ PInv'
<1>1. IInv /\ OnTime(os) /\ DelaysTimed
  BY DEF TimeIInv
<1>2. At(t, "app") /\ t # Idle /\ (n # 0 => os.suspended = 0)
  BY DEF MayUseGroup
<1>3. IInv' /\ PInv' /\ DelaysTimed'
  <2>1. CASE Goto(t, "resumeThenReturn") /\ os'.stateList[t] = os.stateList[t]
    BY <1>1, <1>2, <2>1, RearrangedStep, DelaysTimedOn DEF Goto
  <2>2. CASE Goto(t, "groupResume") /\ n # 0
    BY <1>1, <1>2, <2>2, RearrangedStep, DelaysTimedOn DEF Goto
  <2>3. QED BY <2>1, <2>2
<1>4. QED BY <1>3 DEF TimeIInv, Rearranged

LEMMA GroupResumesKeeps ==
  ASSUME TimeIInv, PInv, NEW t \in Tasks, GroupResumes(t)
  PROVE  TimeIInv' /\ PInv' /\ Still(os, os')
<1>1. IInv /\ OnTime(os) /\ DelaysTimed
  BY DEF TimeIInv
<1>2. /\ Running(t) /\ pc[t] = "groupResume" /\ os' = xTaskResumeAll(os)
      /\ Goto(t, "groupYield") /\ UNCHANGED locals
      /\ pc' = [pc EXCEPT ![t] = "groupYield"] /\ pc[t] \notin Dead
      /\ UNCHANGED <<target, ticks, lastWake>>
  BY DEF GroupResumes, At, Goto, Dead, locals
<1>3. /\ os.suspended = 1 /\ os.suspended > 0
  BY <1>2 DEF PInv, CurrentReady, Entering, Unlisted
<1>4. /\ os \in Kernel /\ os.running /\ os.current = t /\ os.stage = "run"
      /\ pc = [u \in Tasks |-> pc[u]]
      /\ \A u \in Tasks : u # t => pc[u] \notin Suspending
      /\ t # Idle
  BY <1>1, <1>2, IInvFacts, RunningFacts, NotIdle
<1>5. /\ Still(os, os') /\ os'.current = t /\ os'.suspended = 0
      /\ os'.stage = "drain"
      /\ os'.pendSV = os.pendSV /\ os'.switchReq = os.switchReq
      /\ os'.yieldPending = os.yieldPending /\ os'.fault = os.fault
  <2>1. os.numTasks > 0
    BY <1>1, <1>4, SomeTasks
  <2>2. LET r == xTaskResumeAll(os)
        IN  /\ Still(os, r) /\ r.current = os.current
            /\ r.suspended = os.suspended - 1
            /\ r.suspended = 0 /\ os.numTasks > 0 => r.stage = "drain"
            /\ r.pendSV = os.pendSV /\ r.switchReq = os.switchReq
            /\ r.yieldPending = os.yieldPending /\ r.fault = os.fault
    BY <1>3, <1>4, ResumeAllFields
  <2>3. QED BY <1>2, <1>3, <1>4, <2>1, <2>2
<1>6. IInv'
  <2>1. KernelStep /\ os'.current = t
    BY <1>1, <1>2, <1>3, ResumeAllStep
  <2>2. /\ "groupYield" \notin Dead /\ "groupYield" # "deleteFree"
        /\ "groupYield" \notin {"abort", "abortEvent"}
        /\ "groupYield" \notin Suspending
    BY DEF Dead, Suspending
  <2>3. QED BY <1>1, <1>2, <1>4, <2>1, <2>2, TaskStep, IInvFacts
<1>7. OnTime(os')
  BY <1>1, <1>2, <1>4, ResumeAllQuiet, QuietKeeps
<1>8. DelaysTimed'
  BY <1>1, <1>2, DelaysTimedOn
<1>9. CurrentReady'
  <2>1. Leaving'
    BY <1>2, <1>4, <1>5 DEF Leaving, Yielding
  <2>2. "groupYield" \notin Entering
    BY DEF Entering, Unlisted
  <2>3. os'.running
    BY <1>4, <1>5 DEF Still
  <2>4. QED BY <1>1, <1>2, <1>5, <2>1, <2>2, <2>3, TaskCurrentReady
<1>10. NothingLeft'
  BY <1>5 DEF NothingLeft, Resuming
<1>11. PInv'
  <2>1. Noted(os) => Noted(os')
    BY <1>5 DEF Noted
  <2>2. "groupYield" \notin Dead
    BY DEF Dead
  <2>3. QED BY <1>1, <1>2, <1>4, <1>5, <1>9, <1>10, <2>1, <2>2, TaskStill
<1>12. QED BY <1>5, <1>6, <1>7, <1>8, <1>11 DEF TimeIInv

LEMMA GroupYieldsKeeps ==
  ASSUME TimeIInv, PInv, NEW t \in Tasks, GroupYields(t)
  PROVE  TimeIInv' /\ PInv' /\ Still(os, os')
<1>1. IInv /\ OnTime(os) /\ DelaysTimed
  BY DEF TimeIInv
<1>2. /\ Running(t) /\ pc[t] = "groupYield"
      /\ Goto(t, "groupWoken") /\ UNCHANGED locals
      /\ pc' = [pc EXCEPT ![t] = "groupWoken"] /\ pc[t] \notin Dead
      /\ UNCHANGED <<target, ticks, lastWake>>
  BY DEF GroupYields, At, Goto, Dead, locals
<1>3. /\ os \in Kernel /\ os.running /\ os.current = t /\ os.stage = "run"
      /\ ~os.pendSV /\ t # Idle /\ Sound(os)
  BY <1>1, <1>2, IInvFacts, RunningTask, NotIdle
<1>4. PICK q : q = [os EXCEPT !.yielded[t] = FALSE]
  OBVIOUS
<1>5. PICK c \in BOOLEAN : c = (~os.yielded[t])
  OBVIOUS
<1>6. os' = YieldIf(q, c)
  BY <1>4, <1>5 DEF GroupYields
<1>7. q \in Kernel
  <2>1. [os EXCEPT !.yielded[t] = FALSE] \in Kernel
    BY <1>3, ZenonT(60) DEF Kernel
  <2>2. QED BY <1>4, <2>1
<1>8. /\ Still(os, q) /\ SameControl(os, q) /\ SameLinks(os, q)
      /\ Quiet(os, q) /\ q.fault = os.fault
      /\ q.pendSV = os.pendSV /\ q.switchReq = os.switchReq
      /\ q.yieldPending = os.yieldPending
  BY <1>3, <1>4 DEF Kernel, Still, SameControl, SameLinks, Quiet, SameClock
<1>9. Sound(q) /\ Ending(q) = Ending(os) /\ OnTime(q)
  BY <1>1, <1>3, <1>7, <1>8, SameLinksSound, QuietKeeps DEF SameControl
<1>10. /\ Sound(os') /\ SameControl(q, os') /\ SameLinks(q, os')
       /\ Ending(os') = Ending(q)
  BY <1>6, <1>9, YieldSound
<1>11. /\ Flagged(q, os') /\ (c => os'.pendSV)
  BY <1>6, <1>7, YieldFlagged
<1>12. /\ Still(os, os') /\ os'.current = t /\ os'.fault = os.fault
       /\ os'.suspended = os.suspended /\ os'.stage = os.stage
       /\ os'.pendedTicks = os.pendedTicks
       /\ os'.switchReq = os.switchReq
       /\ Noted(os) => Noted(os')
  BY <1>3, <1>8, <1>11
     DEF Flagged, Still, SameControl, SameProcessor, Noted
<1>13. OnTime(os')
  <2>1. Quiet(q, os')
    BY <1>6, <1>7, QuietFunctions
  <2>2. QED BY <1>7, <1>9, <2>1, QuietKeeps
<1>14. IInv'
  <2>1. SameControl(os, os') /\ SameLinks(os, os')
    BY <1>8, <1>10 DEF SameControl, SameLinks
  <2>2. LiveMove
    BY <2>1, UnmovedStep DEF SameLinks
  <2>3. KernelStep
    BY <1>1, <1>3, <1>9, <1>10, <2>1, <2>2, SettledStep
  <2>4. /\ "groupWoken" \notin Dead /\ "groupWoken" # "deleteFree"
        /\ "groupWoken" \notin {"abort", "abortEvent"}
        /\ "groupWoken" \notin Suspending
    BY DEF Dead, Suspending
  <2>5. QED BY <1>1, <1>2, <1>3, <1>12, <2>3, <2>4, TaskStep, IInvFacts
<1>15. os.stateList[t] \in Priorities \/ (os.suspended = 0 /\ c)
  BY <1>2, <1>3, <1>5
     DEF PInv, CurrentReady, Leaving, Unlisted, Yielding
<1>16. CurrentReady'
  <2>1. os'.stateList[t] \in Priorities \/ (os'.suspended = 0 /\ Leaving')
    BY <1>11, <1>12, <1>15 DEF Leaving, Still
  <2>2. "groupWoken" \notin Entering
    BY DEF Entering, Unlisted
  <2>3. os'.running
    BY <1>3, <1>12 DEF Still
  <2>4. QED BY <1>1, <1>2, <1>12, <2>1, <2>2, <2>3, TaskCurrentReady
<1>17. NothingLeft'
  BY <1>12 DEF PInv, NothingLeft, Still
<1>18. PInv'
  <2>1. "groupWoken" \notin Dead
    BY DEF Dead
  <2>2. QED BY <1>1, <1>2, <1>3, <1>12, <1>16, <1>17, <2>1, TaskStill
<1>19. DelaysTimed'
  BY <1>1, <1>2, DelaysTimedOn
<1>20. QED BY <1>12, <1>13, <1>14, <1>18, <1>19 DEF TimeIInv

LEMMA GroupWokenKeeps ==
  ASSUME TimeIInv, PInv, NEW t \in Tasks, GroupWoken(t)
  PROVE  TimeIInv' /\ PInv' /\ Still(os, os')
<1>1. IInv /\ OnTime(os) /\ DelaysTimed
  BY DEF TimeIInv
<1>2. /\ Running(t) /\ pc[t] = "groupWoken"
      /\ Goto(t, "app") /\ UNCHANGED locals
      /\ pc' = [pc EXCEPT ![t] = "app"] /\ pc[t] \notin Dead
      /\ UNCHANGED <<target, ticks, lastWake>>
      /\ os' = uxTaskResetEventItemValue(os)
  BY DEF GroupWoken, ReturnFromGroup, At, Goto, Dead, locals
<1>3. /\ os \in Kernel /\ os.running /\ os.current = t /\ os.stage = "run"
      /\ t # Idle /\ Sound(os) /\ os.stateList[t] \in Priorities
  BY <1>1, <1>2, IInvFacts, RunningTask, NotIdle DEF Unlisted, Yielding
<1>4. PICK v \in 1..configMAX_PRIORITIES : v = configMAX_PRIORITIES - os.prio[t]
  BY <1>3, TasksAssumption DEF Kernel, Priorities
<1>5. os' = [os EXCEPT !.eventValue[t] = v]
  BY <1>2, <1>3, <1>4 DEF uxTaskResetEventItemValue
<1>6. os' \in Kernel
  <2>1. [os EXCEPT !.eventValue[t] = v] \in Kernel
    BY <1>3, ZenonT(60) DEF Kernel
  <2>2. QED BY <1>5, <2>1
<1>7. /\ Flagged(os, os') /\ SameControl(os, os') /\ SameLinks(os, os')
      /\ Quiet(os, os')
  BY <1>3, <1>5
     DEF Kernel, Flagged, Still, SameProcessor, SameControl, SameLinks, Quiet,
         SameClock, Noted
<1>8. Sound(os') /\ Ending(os') = Ending(os) /\ OnTime(os')
  BY <1>1, <1>3, <1>6, <1>7, SameLinksSound, QuietKeeps DEF SameControl
<1>9. IInv'
  <2>1. LiveMove
    BY <1>7, UnmovedStep DEF SameLinks
  <2>2. KernelStep /\ os'.current = t
    BY <1>1, <1>3, <1>7, <1>8, <2>1, SettledStep
  <2>3. /\ "app" \notin Dead /\ "app" # "deleteFree"
        /\ "app" \notin {"abort", "abortEvent"}
        /\ "app" \notin Suspending
    BY DEF Dead, Suspending
  <2>4. QED BY <1>1, <1>2, <1>3, <2>2, <2>3, TaskStep, IInvFacts
<1>10. PInv'
  <2>1. "app" \notin Dead /\ "app" \notin Entering
    BY DEF Dead, Entering, Unlisted
  <2>2. QED BY <1>1, <1>2, <1>3, <1>7, <2>1, TaskFlags
<1>11. DelaysTimed'
  BY <1>1, <1>2, DelaysTimedOn
<1>12. QED BY <1>7, <1>8, <1>9, <1>10, <1>11 DEF TimeIInv, Flagged
-----------------------------------------------------------------------------
(* A call of task t on group g keeps the invariant of the groups: it       *)
(* releases the tasks of S and leaves the bits B.                          *)

Releases(t, g, S, B) ==
  /\ S \subseteq WaitersOf(os, g)
  /\ \A u \in Tasks \ {t} :
       /\ os'.stateList[u] = IF u \in S THEN os.prio[u] ELSE os.stateList[u]
       /\ os'.eventList[u] = IF u \in S THEN NoList ELSE os.eventList[u]
       /\ IF u \in S THEN item'[u].unblocked ELSE item'[u] = item[u]
       /\ waiting'[u] = waiting[u]
  /\ \A u \in WaitersOf(os, g) \ S : ~prvTestWaitCondition(item[u], B)
  /\ bits' = [bits EXCEPT ![g] = B]

\* Task t goes on or begins to wait for bits that are not there.
WaitsIfUnsatisfied(t, g, B) ==
  \/ /\ os'.stateList[t] = os.stateList[t] /\ os'.eventList[t] = os.eventList[t]
     /\ item'[t] = item[t] /\ waiting'[t] = waiting[t]
     /\ Goto(t, "resumeThenReturn")
  \/ /\ os'.stateList[t] \notin Priorities /\ os'.eventList[t] = WaitList[g]
     /\ ~item'[t].unblocked /\ ~prvTestWaitCondition(item'[t], B)
     /\ waiting'[t].group = g
     /\ Goto(t, "groupResume")

LEMMA CallGInv ==
  ASSUME IInv, PInv, GInv, NEW t \in Tasks, NEW g \in EventGroups, NEW n,
         MayUseGroup(t, g, n), NEW S, NEW B,
         Releases(t, g, S, B), WaitsIfUnsatisfied(t, g, B), GroupsOK',
         \/ alive' = alive
         \/ /\ alive' = [alive EXCEPT ![g] = FALSE]
            /\ Goto(t, "resumeThenReturn")
            /\ \A u \in Tasks : InGroupCall(u, g) => u \in S
  PROVE  GInv'
<1>1. /\ At(t, "app") /\ alive[g] /\ pc[t] = "app" /\ os.current = t
      /\ os.stateList[t] \in Priorities /\ os.eventList[t] = NoList
  <2>1. At(t, "app") /\ alive[g] /\ Running(t) /\ pc[t] = "app"
    BY DEF MayUseGroup, At
  <2>2. os.stateList[t] \in Priorities /\ os.current = t
    BY <2>1, RunningTask DEF Unlisted, Yielding
  <2>3. QED BY <2>1, <2>2 DEF GInv, ReadyUnlinked
<1>2. /\ pc = [u \in Tasks |-> pc[u]]
      /\ \A u \in Tasks : os.prio[u] \in Priorities
  BY IInvFacts DEF Kernel
<1>3. \A u \in Tasks \ {t} : pc'[u] = pc[u]
  BY <1>2 DEF WaitsIfUnsatisfied, Goto
<1>4. /\ \A h \in EventGroups : WaitList[h] \in EventLists /\ WaitList[h] # NoList
      /\ \A h, i \in EventGroups : WaitList[h] = WaitList[i] => h = i
      /\ NoList \notin EventLists
  <2>1. NoList \notin EventLists
    BY ListNames DEF Lists, ItemLists
  <2>2. QED BY <2>1, EventGroupAssumption
<1>5. \A u \in WaitersOf(os, g) : u \in Tasks /\ os.eventList[u] = WaitList[g]
                                  /\ u # t
  BY <1>1, <1>4 DEF WaitersOf, InGroupList
<1>6. bits'[g] = B /\ \A h \in EventGroups : h # g => bits'[h] = bits[h]
  BY DEF GInv, GroupsOK, Releases
<1>7. ReadyUnlinked'
  <2>1. ASSUME NEW u \in Tasks, os'.stateList[u] \in Priorities
        PROVE  os'.eventList[u] = NoList
    <3>1. CASE u = t
      BY <1>1, <2>1, <3>1 DEF WaitsIfUnsatisfied
    <3>2. CASE u # t
      BY <2>1, <3>2 DEF Releases, GInv, ReadyUnlinked
    <3>3. QED BY <3>1, <3>2
  <2>2. QED BY <2>1 DEF ReadyUnlinked
<1>8. ASSUME NEW h \in EventGroups, NEW u \in Tasks,
             os'.eventList[u] = WaitList[h]
      PROVE  ~prvTestWaitCondition(item'[u], bits'[h])
  <2>1. CASE u = t
    <3>1. h = g
      BY <1>1, <1>4, <1>8, <2>1 DEF WaitsIfUnsatisfied
    <3>2. QED BY <1>1, <1>4, <1>6, <1>8, <2>1, <3>1 DEF WaitsIfUnsatisfied
  <2>2. CASE u # t
    <3>1. /\ u \notin S /\ os.eventList[u] = WaitList[h] /\ item'[u] = item[u]
      BY <1>4, <1>8, <2>2 DEF Releases
    <3>2. CASE h = g
      BY <1>6, <3>1, <3>2 DEF Releases, WaitersOf, InGroupList
    <3>3. CASE h # g
      BY <1>6, <3>1, <3>3 DEF GInv, WaitersUnsatisfied, InGroupList
    <3>4. QED BY <3>2, <3>3
  <2>3. QED BY <2>1, <2>2
<1>9. WaitersUnsatisfied'
  BY <1>8 DEF WaitersUnsatisfied, InGroupList
<1>10. WaitersNotReleased'
  <2>1. ASSUME NEW u \in Tasks, os'.eventList[u] \in EventLists
        PROVE  ~item'[u].unblocked
    <3>1. CASE u = t
      BY <1>1, <1>4, <2>1, <3>1 DEF WaitsIfUnsatisfied
    <3>2. CASE u # t
      BY <1>4, <2>1, <3>2 DEF Releases, GInv, WaitersNotReleased
    <3>3. QED BY <3>1, <3>2
  <2>2. QED BY <2>1 DEF WaitersNotReleased
<1>11. DeletedReleases'
  <2>1. ASSUME NEW u \in Tasks, NEW h \in EventGroups, InGroupCall(u, h)'
        PROVE  alive'[h] \/ item'[u].unblocked
    <3>1. CASE u = t
      <4>1. waiting'[t].group = g /\ pc'[t] # "resumeThenReturn"
            /\ Goto(t, "groupResume")
        BY <1>2, <2>1, <3>1 DEF WaitsIfUnsatisfied, InGroupCall, Goto
      <4>2. h = g
        BY <2>1, <3>1, <4>1 DEF InGroupCall
      <4>3. alive' = alive
        BY <1>2, <2>1, <3>1, <4>1 DEF InGroupCall, Goto
      <4>4. QED BY <1>1, <4>2, <4>3
    <3>2. CASE u # t
      <4>1. InGroupCall(u, h)
        BY <1>3, <2>1, <3>2 DEF InGroupCall, Releases
      <4>2. item[u].unblocked => item'[u].unblocked
        BY <3>2 DEF Releases
      <4>3. CASE alive' = alive \/ h # g
        BY <4>1, <4>2, <4>3 DEF GInv, DeletedReleases, GroupsOK
      <4>4. CASE h = g /\ \A v \in Tasks : InGroupCall(v, g) => v \in S
        BY <3>2, <4>1, <4>4 DEF Releases
      <4>5. QED BY <4>3, <4>4
    <3>3. QED BY <3>1, <3>2
  <2>2. QED BY <2>1 DEF DeletedReleases
<1>12. QED BY <1>7, <1>9, <1>10, <1>11 DEF GInv
-----------------------------------------------------------------------------
(* Setting bits.                                                           *)

\* The tasks that a setting of bits of g to current releases.
Satisfied(g, current) ==
  {u \in WaitersOf(os, g) : prvTestWaitCondition(item[u], current)}

\* The caller is ready: it waits nowhere.
LEMMA CallerNotWaiting ==
  ASSUME IInv, PInv, GInv, NEW t \in Tasks, At(t, "app"), NEW g \in EventGroups
  PROVE  /\ t \notin WaitersOf(os, g)
         /\ os.stateList[t] \in Priorities /\ os.eventList[t] = NoList
<1>1. Running(t) /\ pc[t] = "app"
  BY DEF At
<1>2. os.stateList[t] \in Priorities
  BY <1>1, RunningTask DEF Unlisted, Yielding
<1>3. os.eventList[t] = NoList
  BY <1>2 DEF GInv, ReadyUnlinked
<1>4. WaitList[g] # NoList
  BY EventGroupAssumption, ListNames DEF Lists, ItemLists
<1>5. QED BY <1>2, <1>3, <1>4 DEF WaitersOf, InGroupList

LEMMA BitsOnlyHelp ==
  ASSUME NEW w, NEW some, NEW more, some \subseteq more,
         prvTestWaitCondition(w, some)
  PROVE  prvTestWaitCondition(w, more)
BY DEF prvTestWaitCondition

LEMMA SetBitsFields ==
  ASSUME IInv, OnTime(os), NEW g \in EventGroups, NEW set
  PROVE  LET s == SetBits(vTaskSuspendAll(os), g, set)
             current == bits[g] \cup set
             S == Satisfied(g, current)
         IN  /\ s.kernel = ReleaseFrom(vTaskSuspendAll(os), g, S)
             /\ s.bits \subseteq current
             /\ s.items = [u \in Tasks |-> IF u \in S THEN UnblockedWith(current)
                                                      ELSE item[u]]
<1> DEFINE k == vTaskSuspendAll(os)
           current == bits[g] \cup set
           S == Satisfied(g, current)
<1>1. Good(os) /\ k.lists = os.lists
  BY IInvFacts, CallSuspends
<1>2. GroupWaiters(k, g) = GroupWaiters(os, g)
  BY <1>1 DEF GroupWaiters
<1>3. Matched(k, g, current) = S
  BY <1>1, <1>2, WaitersInList DEF Matched, Satisfied
<1> HIDE DEF k, S
<1>4. SetBits(k, g, set) =
        [kernel |-> ReleaseFrom(k, g, S),
         bits   |-> current \ UNION {item[u].bits : u \in {v \in S : item[v].clear}},
         items  |-> [u \in Tasks |-> IF u \in S THEN UnblockedWith(current)
                                                ELSE item[u]]]
  BY <1>3 DEF SetBits
<1> QED BY <1>4 DEF k, S

\* The bits that are left satisfy nobody who still waits.
LEMMA OthersUnsatisfied ==
  ASSUME NEW g, NEW current, NEW B, B \subseteq current
  PROVE  \A u \in WaitersOf(os, g) \ Satisfied(g, current) :
           ~prvTestWaitCondition(item[u], B)
BY BitsOnlyHelp DEF Satisfied

LEMMA UnblockedFields ==
  ASSUME NEW current
  PROVE  /\ UnblockedWith(current).unblocked
         /\ UnblockedWith(current).bits = current
BY DEF UnblockedWith, NoItemValue

LEMMA SetBitsKeeps ==
  ASSUME TimeIInv, PInv, GInv, NEW t \in Tasks, NEW g \in EventGroups, NEW set,
         xEventGroupSetBits(t, g, set)
  PROVE  /\ TimeIInv' /\ PInv' /\ GInv'
         /\ alive' = alive
         /\ item' = [u \in Tasks |->
                       IF u \in Satisfied(g, bits[g] \cup set)
                         THEN UnblockedWith(bits[g] \cup set) ELSE item[u]]
<1> DEFINE k == vTaskSuspendAll(os)
           s == SetBits(k, g, set)
           current == bits[g] \cup set
           S == Satisfied(g, current)
           B == s.bits
<1>1. IInv /\ OnTime(os) /\ MayUseGroup(t, g, 0) /\ At(t, "app")
  BY DEF TimeIInv, xEventGroupSetBits, MayUseGroup
<1>2. /\ s.kernel = ReleaseFrom(k, g, S)
      /\ B \subseteq current
      /\ s.items = [u \in Tasks |-> IF u \in S THEN UnblockedWith(current)
                                               ELSE item[u]]
  BY <1>1, SetBitsFields
<1>3. /\ os' = s.kernel /\ item' = s.items
      /\ bits' = [bits EXCEPT ![g] = B]
      /\ Goto(t, "resumeThenReturn")
      /\ UNCHANGED <<locals, alive, waiting>>
  BY DEF xEventGroupSetBits
<1> HIDE DEF s, k, B
<1>4. S \subseteq WaitersOf(os, g)
  BY DEF Satisfied
<1>5. /\ Rearranged(os, os')
      /\ \A u \in Tasks :
           /\ os'.stateList[u] = IF u \in S THEN os.prio[u] ELSE os.stateList[u]
           /\ os'.eventList[u] = IF u \in S THEN NoList ELSE os.eventList[u]
  <2>1. WaitersOf(os, g) \cap S = S
    BY <1>4
  <2> HIDE DEF S
  <2>2. LET r == ReleaseFrom(vTaskSuspendAll(os), g, S)
        IN  /\ Rearranged(os, r)
            /\ \A u \in Tasks :
                 /\ r.stateList[u] = IF u \in WaitersOf(os, g) \cap S
                                       THEN os.prio[u] ELSE os.stateList[u]
                 /\ r.eventList[u] = IF u \in WaitersOf(os, g) \cap S
                                       THEN NoList ELSE os.eventList[u]
    BY <1>1, CallReleases
  <2>3. QED BY <1>2, <1>3, <2>1, <2>2 DEF k
<1>6. t \notin S
  BY <1>1, <1>4, CallerNotWaiting
<1>7. TimeIInv' /\ PInv'
  BY <1>1, <1>3, <1>5, <1>6, CallKeeps
<1>8. Releases(t, g, S, B)
  <2>1. \A u \in S : item'[u].unblocked
    BY <1>2, <1>3, <1>4, UnblockedFields DEF WaitersOf
  <2>2. \A u \in Tasks \ S : item'[u] = item[u]
    BY <1>2, <1>3
  <2>3. \A u \in WaitersOf(os, g) \ S : ~prvTestWaitCondition(item[u], B)
    BY <1>2, OthersUnsatisfied
  <2> HIDE DEF S
  <2>4. QED BY <1>3, <1>4, <1>5, <2>1, <2>2, <2>3 DEF Releases
<1>9. WaitsIfUnsatisfied(t, g, B)
  BY <1>2, <1>3, <1>5, <1>6 DEF WaitsIfUnsatisfied
<1>10. GroupsOK'
  BY <1>2, <1>3 DEF GInv, GroupsOK
<1>11. GInv'
  BY <1>1, <1>3, <1>8, <1>9, <1>10, CallGInv
<1>12. QED BY <1>2, <1>3, <1>7, <1>11
LEMMA ClearBitsKeeps ==
  ASSUME TimeIInv, PInv, GInv, NEW t \in Tasks, NEW g \in EventGroups, NEW clear,
         xEventGroupClearBits(t, g, clear)
  PROVE  TimeIInv' /\ PInv' /\ GInv' /\ item' = item /\ alive' = alive
<1>1. /\ bits' = [bits EXCEPT ![g] = bits[g] \ clear]
      /\ UNCHANGED <<os, pc, locals, alive, item, waiting>>
  BY DEF xEventGroupClearBits
<1>2. UNCHANGED vars
  BY <1>1 DEF vars, locals
<1>3. TimeIInv' /\ PInv'
  <2>1. IInv /\ OnTime(os) /\ DelaysTimed
    BY DEF TimeIInv
  <2>2. IInv'
    BY <1>2, <2>1, NextIInv
  <2>3. OnTime(os') /\ DelaysTimed'
    BY <1>1, <1>2, <2>1, NextDelaysTimed
  <2>4. PInv'
    BY <1>2, <2>1, NextPInv
  <2>5. QED BY <2>2, <2>3, <2>4 DEF TimeIInv
<1>4. \A h \in EventGroups : bits'[h] \subseteq bits[h]
  BY <1>1 DEF GInv, GroupsOK
<1>5. WaitersUnsatisfied'
  BY <1>1, <1>4, BitsOnlyHelp DEF GInv, WaitersUnsatisfied
<1>6. GroupsOK' /\ ReadyUnlinked' /\ WaitersNotReleased' /\ DeletedReleases'
  BY <1>1
     DEF GInv, GroupsOK, ReadyUnlinked, WaitersNotReleased, DeletedReleases,
         InGroupCall
<1>7. QED BY <1>1, <1>3, <1>5, <1>6 DEF GInv
-----------------------------------------------------------------------------
(* Waiting for bits.                                                       *)

LEMMA WantedFields ==
  ASSUME NEW b, NEW c, NEW a
  PROVE  LET wanted == Wanted(b, c, a)
             w == [wanted EXCEPT !.clear = TRUE, !.all = TRUE]
         IN  /\ ~wanted.unblocked
             /\ ~w.unblocked /\ w.all /\ w.bits = b
BY DEF Wanted, NoItemValue

\* A wait for bits that are there, or one that does not wait.
LEMMA WaitReturns ==
  ASSUME TimeIInv, PInv, GInv, NEW t \in Tasks, NEW g \in EventGroups,
         NEW n, MayUseGroup(t, g, n),
         os' = vTaskSuspendAll(os), Goto(t, "resumeThenReturn"),
         NEW B, B \subseteq bits[g], bits' = [bits EXCEPT ![g] = B],
         UNCHANGED <<locals, item, waiting, alive>>
  PROVE  TimeIInv' /\ PInv' /\ GInv'
<1>1. IInv /\ OnTime(os) /\ At(t, "app")
  BY DEF TimeIInv, MayUseGroup
<1>2. /\ Rearranged(os, os')
      /\ os'.stateList = os.stateList /\ os'.eventList = os.eventList
  BY <1>1, CallSuspends
<1>3. TimeIInv' /\ PInv'
  BY <1>2, CallKeeps
<1>4. Releases(t, g, {}, B)
  <2>1. \A u \in WaitersOf(os, g) : ~prvTestWaitCondition(item[u], bits[g])
    BY DEF GInv, WaitersUnsatisfied, WaitersOf
  <2>2. \A u \in WaitersOf(os, g) : ~prvTestWaitCondition(item[u], B)
    BY <2>1, BitsOnlyHelp
  <2>3. QED BY <1>2, <2>2 DEF Releases
<1>5. WaitsIfUnsatisfied(t, g, B)
  BY <1>2 DEF WaitsIfUnsatisfied
<1>6. GroupsOK'
  BY DEF GInv, GroupsOK
<1>7. GInv'
  BY <1>1, <1>4, <1>5, <1>6, CallGInv
<1>8. QED BY <1>3, <1>7

LEMMA WaitBitsKeeps ==
  ASSUME TimeIInv, PInv, GInv, NEW t \in Tasks, NEW g \in EventGroups,
         NEW b, NEW c, NEW a, NEW n \in Ticks,
         xEventGroupWaitBits(t, g, Wanted(b, c, a), n)
  PROVE  /\ TimeIInv' /\ PInv' /\ GInv' /\ alive' = alive
         /\ ~item'[t].unblocked \/ item' = item
         /\ \A u \in Tasks \ {t} : item'[u] = item[u]
<1> DEFINE w == Wanted(b, c, a)
           k == vTaskSuspendAll(os)
<1>1. IInv /\ OnTime(os) /\ MayUseGroup(t, g, n) /\ At(t, "app")
  BY DEF TimeIInv, xEventGroupWaitBits, MayUseGroup
<1>2. ~w.unblocked
  BY WantedFields
<1> HIDE DEF w
<1>3. PICK met \in BOOLEAN : met = prvTestWaitCondition(w, bits[g])
  BY DEF prvTestWaitCondition
<1>4. CASE met \/ n = 0
  <2> DEFINE B == IF met /\ w.clear THEN bits[g] \ w.bits ELSE bits[g]
  <2>1. /\ os' = k /\ Goto(t, "resumeThenReturn")
        /\ bits' = [bits EXCEPT ![g] = B]
        /\ UNCHANGED <<locals, item, waiting, alive>>
    BY <1>3, <1>4 DEF xEventGroupWaitBits, w
  <2>2. B \subseteq bits[g]
    OBVIOUS
  <2> HIDE DEF B
  <2>3. TimeIInv' /\ PInv' /\ GInv'
    BY <1>1, <2>1, <2>2, WaitReturns
  <2>4. QED BY <2>1, <2>3
<1>5. CASE ~(met \/ n = 0)
  <2> DEFINE B == bits[g]
  <2>1. /\ os' = vTaskPlaceOnUnorderedEventList(k, WaitList[g], n)
        /\ waiting' = [waiting EXCEPT ![t] =
                         [group |-> g, bits |-> w.bits, clear |-> w.clear,
                          all |-> w.all]]
        /\ Goto(t, "groupResume")
        /\ item' = [item EXCEPT ![t] = w]
        /\ bits' = bits
        /\ UNCHANGED <<locals, alive>>
    BY <1>3, <1>5 DEF xEventGroupWaitBits, w, PlaceOnGroup
  <2>2. Rearranged(os, k) /\ k.stateList = os.stateList
        /\ k.eventList = os.eventList
    BY <1>1, CallSuspends
  <2> HIDE DEF k
  <2>3. /\ Rearranged(os, os')
        /\ os'.stateList[t] \notin Priorities
        /\ os'.eventList[t] = WaitList[g]
        /\ \A u \in Tasks \ {t} : /\ os'.stateList[u] = os.stateList[u]
                                  /\ os'.eventList[u] = os.eventList[u]
    <3>1. /\ k.stateList[t] = os.stateList[t]
          /\ k.eventList[t] = os.eventList[t]
      BY <2>2
    <3>2. ReadyUnlinked /\ n # 0
      BY <1>5 DEF GInv
    <3>3. LET r == vTaskPlaceOnUnorderedEventList(k, WaitList[g], n)
          IN  /\ Rearranged(os, r)
              /\ r.stateList[t] \notin Priorities
              /\ r.eventList[t] = WaitList[g]
              /\ \A u \in Tasks \ {t} : /\ r.stateList[u] = k.stateList[u]
                                        /\ r.eventList[u] = k.eventList[u]
      BY <1>1, <2>2, <3>1, <3>2, CallPlaces
    <3>4. QED BY <2>1, <2>2, <3>3
  <2>4. TimeIInv' /\ PInv'
    BY <1>1, <1>5, <2>1, <2>3, CallKeeps
  <2>5. /\ item'[t] = w /\ waiting'[t].group = g
        /\ \A u \in Tasks \ {t} : item'[u] = item[u] /\ waiting'[u] = waiting[u]
    BY <2>1 DEF GInv, GroupsOK
  <2>6. Releases(t, g, {}, B)
    <3>1. \A u \in WaitersOf(os, g) : ~prvTestWaitCondition(item[u], B)
      BY DEF GInv, WaitersUnsatisfied, WaitersOf
    <3>2. bits' = [bits EXCEPT ![g] = B]
      BY <2>1 DEF GInv, GroupsOK
    <3> HIDE DEF B
    <3>3. QED BY <2>3, <2>5, <3>1, <3>2 DEF Releases
  <2>7. WaitsIfUnsatisfied(t, g, B)
    BY <1>2, <1>3, <1>5, <2>1, <2>3, <2>5 DEF WaitsIfUnsatisfied
  <2>8. GroupsOK'
    BY <2>1 DEF GInv, GroupsOK
  <2>9. GInv'
    BY <1>1, <2>1, <2>6, <2>7, <2>8, CallGInv
  <2>10. QED BY <1>2, <2>1, <2>4, <2>5, <2>9
<1>6. QED BY <1>4, <1>5
\* A rendezvous: the bits are set first, and then waited for.
LEMMA SyncKeeps ==
  ASSUME TimeIInv, PInv, GInv, NEW t \in Tasks, NEW g \in EventGroups, NEW set,
         NEW b, NEW c, NEW a, NEW n \in Ticks,
         xEventGroupSync(t, g, set, Wanted(b, c, a), n)
  PROVE  /\ TimeIInv' /\ PInv' /\ GInv' /\ alive' = alive
         /\ \A u \in Tasks \ {t} :
              item'[u] = IF u \in Satisfied(g, bits[g] \cup set)
                           THEN UnblockedWith(bits[g] \cup set) ELSE item[u]
<1> DEFINE wanted == Wanted(b, c, a)
           w == [wanted EXCEPT !.clear = TRUE, !.all = TRUE]
           k == vTaskSuspendAll(os)
           s == SetBits(k, g, set)
           current == bits[g] \cup set
           S == Satisfied(g, current)
           met == w.bits \subseteq current
           B == IF met THEN s.bits \ w.bits ELSE s.bits
<1>1. IInv /\ OnTime(os) /\ MayUseGroup(t, g, n) /\ At(t, "app")
  BY DEF TimeIInv, xEventGroupSync, MayUseGroup
<1>2. ~w.unblocked /\ w.all
  BY WantedFields
<1>3. /\ s.kernel = ReleaseFrom(k, g, S)
      /\ s.bits \subseteq current
      /\ s.items = [u \in Tasks |-> IF u \in S THEN UnblockedWith(current)
                                               ELSE item[u]]
  BY <1>1, SetBitsFields
<1>4. /\ bits' = [bits EXCEPT ![g] = B]
      /\ UNCHANGED <<locals, alive>>
      /\ \/ /\ met \/ n = 0
            /\ os' = s.kernel /\ item' = s.items
            /\ Goto(t, "resumeThenReturn") /\ UNCHANGED waiting
         \/ /\ ~met /\ n # 0
            /\ os' = vTaskPlaceOnUnorderedEventList(s.kernel, WaitList[g], n)
            /\ waiting' = [waiting EXCEPT ![t] =
                             [group |-> g, bits |-> w.bits, clear |-> w.clear,
                              all |-> w.all]]
            /\ Goto(t, "groupResume")
            /\ item' = [s.items EXCEPT ![t] = w]
  BY DEF xEventGroupSync, PlaceOnGroup
<1> DEFINE q == s.kernel
           items == s.items
<1>5. B \subseteq current
  BY <1>3
<1>6. ~met => ~prvTestWaitCondition(w, B)
  BY <1>2, <1>5 DEF prvTestWaitCondition
<1> HIDE DEF w, k, s, B, met, q, items
<1>7. S \subseteq WaitersOf(os, g) /\ WaitersOf(os, g) \subseteq Tasks
  BY DEF Satisfied, WaitersOf
<1>8. t \notin S /\ os.stateList[t] \in Priorities /\ os.eventList[t] = NoList
  BY <1>1, <1>7, CallerNotWaiting
<1>9. /\ Rearranged(os, q)
      /\ \A u \in Tasks :
           /\ q.stateList[u] = IF u \in S THEN os.prio[u] ELSE os.stateList[u]
           /\ q.eventList[u] = IF u \in S THEN NoList ELSE os.eventList[u]
  <2>1. WaitersOf(os, g) \cap S = S
    BY <1>7
  <2> HIDE DEF S
  <2>2. LET r == ReleaseFrom(vTaskSuspendAll(os), g, S)
        IN  /\ Rearranged(os, r)
            /\ \A u \in Tasks :
                 /\ r.stateList[u] = IF u \in WaitersOf(os, g) \cap S
                                       THEN os.prio[u] ELSE os.stateList[u]
                 /\ r.eventList[u] = IF u \in WaitersOf(os, g) \cap S
                                       THEN NoList ELSE os.eventList[u]
    BY <1>1, CallReleases
  <2>3. QED BY <1>3, <2>1, <2>2 DEF k, q
<1>10. /\ \A u \in S : items[u].unblocked
       /\ \A u \in Tasks : items[u] = IF u \in S THEN UnblockedWith(current)
                                                 ELSE item[u]
       /\ items = [u \in Tasks |-> items[u]]
  <2> HIDE DEF S, current
  <2>1. QED BY <1>3, <1>7, UnblockedFields DEF items
<1>11. \A u \in WaitersOf(os, g) \ S : ~prvTestWaitCondition(item[u], B)
  BY <1>5, OthersUnsatisfied
<1> HIDE DEF S, current
<1>12. CASE /\ os' = q /\ item' = items
            /\ Goto(t, "resumeThenReturn") /\ UNCHANGED waiting
  <2>1. TimeIInv' /\ PInv'
    BY <1>1, <1>4, <1>8, <1>9, <1>12, CallKeeps
  <2>2. Releases(t, g, S, B)
    BY <1>4, <1>7, <1>9, <1>10, <1>11, <1>12 DEF Releases
  <2>3. WaitsIfUnsatisfied(t, g, B)
    BY <1>8, <1>9, <1>10, <1>12 DEF WaitsIfUnsatisfied
  <2>4. GroupsOK'
    BY <1>4, <1>10, <1>12 DEF GInv, GroupsOK
  <2>5. GInv'
    BY <1>1, <1>4, <2>2, <2>3, <2>4, CallGInv
  <2>6. QED BY <1>4, <1>10, <1>12, <2>1, <2>5 DEF S, current
<1>13. CASE /\ ~met /\ n # 0
            /\ os' = vTaskPlaceOnUnorderedEventList(q, WaitList[g], n)
            /\ waiting' = [waiting EXCEPT ![t] =
                             [group |-> g, bits |-> w.bits, clear |-> w.clear,
                              all |-> w.all]]
            /\ Goto(t, "groupResume")
            /\ item' = [items EXCEPT ![t] = w]
  <2>1. /\ Rearranged(os, os')
        /\ os'.stateList[t] \notin Priorities
        /\ os'.eventList[t] = WaitList[g]
        /\ \A u \in Tasks \ {t} : /\ os'.stateList[u] = q.stateList[u]
                                  /\ os'.eventList[u] = q.eventList[u]
    <3>1. /\ q.stateList[t] = os.stateList[t]
          /\ q.eventList[t] = os.eventList[t]
      BY <1>8, <1>9
    <3>2. ReadyUnlinked
      BY DEF GInv
    <3>3. LET r == vTaskPlaceOnUnorderedEventList(q, WaitList[g], n)
          IN  /\ Rearranged(os, r)
              /\ r.stateList[t] \notin Priorities
              /\ r.eventList[t] = WaitList[g]
              /\ \A u \in Tasks \ {t} : /\ r.stateList[u] = q.stateList[u]
                                        /\ r.eventList[u] = q.eventList[u]
      BY <1>1, <1>9, <1>13, <3>1, <3>2, CallPlaces
    <3>4. QED BY <1>13, <3>3
  <2>2. TimeIInv' /\ PInv'
    BY <1>1, <1>4, <1>13, <2>1, CallKeeps
  <2>3. /\ item'[t] = w /\ waiting'[t].group = g
        /\ \A u \in Tasks \ {t} : item'[u] = items[u] /\ waiting'[u] = waiting[u]
    BY <1>10, <1>13 DEF GInv, GroupsOK
  <2>4. Releases(t, g, S, B)
    BY <1>4, <1>7, <1>9, <1>10, <1>11, <2>1, <2>3 DEF Releases
  <2>5. WaitsIfUnsatisfied(t, g, B)
    BY <1>2, <1>6, <1>13, <2>1, <2>3 DEF WaitsIfUnsatisfied
  <2>6. GroupsOK'
    BY <1>4, <1>10, <1>13 DEF GInv, GroupsOK
  <2>7. GInv'
    BY <1>1, <1>4, <2>4, <2>5, <2>6, CallGInv
  <2>8. QED BY <1>4, <1>10, <2>2, <2>3, <2>7 DEF S, current
<1>14. QED BY <1>4, <1>12, <1>13 DEF q, items
-----------------------------------------------------------------------------
(* Deleting a group.                                                       *)

LEMMA DeleteKeeps ==
  ASSUME TimeIInv, PInv, GInv, NEW t \in Tasks, NEW g \in EventGroups,
         vEventGroupDelete(t, g)
  PROVE  /\ TimeIInv' /\ PInv' /\ GInv'
         /\ \A h \in EventGroups : alive'[h] => h # g
         /\ item' = [u \in Tasks |-> IF u \in WaitersOf(os, g)
                                       THEN UnblockedWith({}) ELSE item[u]]
<1> DEFINE S == WaitersOf(os, g)
<1>1. IInv /\ OnTime(os) /\ MayUseGroup(t, g, 0) /\ At(t, "app")
  BY DEF TimeIInv, vEventGroupDelete, MayUseGroup
<1>2. ToSet(GroupWaiters(os, g)) = S
  BY <1>1, IInvFacts, WaitersInList
<1>3. /\ \A u \in Tasks : InGroupCall(u, g) => u \in S
      /\ os' = ReleaseFrom(vTaskSuspendAll(os), g, S)
      /\ item' = [u \in Tasks |-> IF u \in S THEN UnblockedWith({})
                                             ELSE item[u]]
      /\ alive' = [alive EXCEPT ![g] = FALSE]
      /\ bits' = [bits EXCEPT ![g] = {}]
      /\ Goto(t, "resumeThenReturn")
      /\ UNCHANGED <<locals, waiting>>
  BY <1>2 DEF vEventGroupDelete
<1>4. /\ Rearranged(os, os')
      /\ \A u \in Tasks :
           /\ os'.stateList[u] = IF u \in S THEN os.prio[u] ELSE os.stateList[u]
           /\ os'.eventList[u] = IF u \in S THEN NoList ELSE os.eventList[u]
  <2>1. WaitersOf(os, g) \cap S = S
    OBVIOUS
  <2>2. LET r == ReleaseFrom(vTaskSuspendAll(os), g, S)
        IN  /\ Rearranged(os, r)
            /\ \A u \in Tasks :
                 /\ r.stateList[u] = IF u \in WaitersOf(os, g) \cap S
                                       THEN os.prio[u] ELSE os.stateList[u]
                 /\ r.eventList[u] = IF u \in WaitersOf(os, g) \cap S
                                       THEN NoList ELSE os.eventList[u]
    BY <1>1, CallReleases
  <2>3. QED BY <1>3, <2>1, <2>2
<1>5. t \notin S
  BY <1>1, CallerNotWaiting
<1>6. TimeIInv' /\ PInv'
  BY <1>1, <1>3, <1>4, <1>5, CallKeeps
<1>7. Releases(t, g, S, {})
  <2>1. \A u \in S : item'[u].unblocked
    BY <1>3, UnblockedFields DEF WaitersOf
  <2>2. \A u \in Tasks \ S : item'[u] = item[u]
    BY <1>3
  <2>3. WaitersOf(os, g) \ S = {}
    OBVIOUS
  <2> HIDE DEF S
  <2>4. S \subseteq WaitersOf(os, g)
    BY DEF S
  <2>5. QED BY <1>3, <1>4, <2>1, <2>2, <2>3, <2>4 DEF Releases
<1>8. WaitsIfUnsatisfied(t, g, {})
  BY <1>3, <1>4, <1>5 DEF WaitsIfUnsatisfied
<1>9. GroupsOK'
  BY <1>3 DEF GInv, GroupsOK
<1>10. GInv'
  <2> HIDE DEF S
  <2>1. QED BY <1>1, <1>3, <1>7, <1>8, <1>9, CallGInv
<1>11. \A h \in EventGroups : alive'[h] => h # g
  BY <1>3 DEF GInv, GroupsOK
<1>12. QED BY <1>3, <1>6, <1>10, <1>11
-----------------------------------------------------------------------------
(* Leaving a call that has waited.                                         *)

LEMMA StillGInv ==
  ASSUME GInv, UNCHANGED egvars,
         \A u \in Tasks :
           /\ \/ os'.eventList[u] = os.eventList[u]
              \/ os'.eventList[u] \notin EventLists
           /\ os'.stateList[u] \in Priorities => os'.eventList[u] = NoList,
         \A u \in Tasks : pc'[u] \in {"groupResume", "groupYield", "groupWoken"} =>
           pc[u] \in {"groupResume", "groupYield", "groupWoken"}
  PROVE  GInv'
<1>1. UNCHANGED <<bits, alive, item, waiting>>
  BY DEF egvars
<1>2. \A g \in EventGroups : WaitList[g] \in EventLists
  BY EventGroupAssumption
<1>3. WaitersUnsatisfied'
  BY <1>1, <1>2 DEF GInv, WaitersUnsatisfied, InGroupList
<1>4. WaitersNotReleased'
  BY <1>1 DEF GInv, WaitersNotReleased
<1>5. DeletedReleases'
  BY <1>1 DEF GInv, DeletedReleases, InGroupCall
<1>6. GroupsOK'
  BY <1>1 DEF GInv, GroupsOK
<1>7. ReadyUnlinked'
  BY DEF ReadyUnlinked
<1>8. QED BY <1>3, <1>4, <1>5, <1>6, <1>7 DEF GInv

LEMMA GroupContinueKeeps ==
  ASSUME TimeIInv, PInv, GInv, NEW t \in Tasks, EventGroupContinue(t)
  PROVE  /\ TimeIInv' /\ PInv' /\ GInv' /\ alive' = alive
         /\ ~item'[t].unblocked \/ item' = item
         /\ \A u \in Tasks \ {t} : item'[u] = item[u]
<1>1. pc = [u \in Tasks |-> pc[u]]
  BY IInvFacts DEF TimeIInv
<1>2. CASE GroupResumes(t) \/ GroupYields(t)
  <2>1. TimeIInv' /\ PInv' /\ Still(os, os')
    BY <1>2, GroupResumesKeeps, GroupYieldsKeeps
  <2>2. UNCHANGED egvars
    BY <1>2 DEF GroupResumes, GroupYields
  <2>3. \A u \in Tasks :
          pc'[u] \in {"groupResume", "groupYield", "groupWoken"} =>
            pc[u] \in {"groupResume", "groupYield", "groupWoken"}
    BY <1>1, <1>2 DEF GroupResumes, GroupYields, Goto, At
  <2>4. GInv'
    BY <2>1, <2>2, <2>3, StillGInv DEF Still, GInv, ReadyUnlinked
  <2>5. QED BY <2>1, <2>2, <2>4 DEF egvars
<1>3. CASE GroupWoken(t)
  <2>1. TimeIInv' /\ PInv' /\ Still(os, os')
    BY <1>3, GroupWokenKeeps
  <2>2. /\ item' = [item EXCEPT ![t] = NoItemValue]
        /\ waiting' = [waiting EXCEPT ![t] = NoGroupCall]
        /\ alive' = alive
        /\ Goto(t, "app")
        /\ \/ bits' = bits
           \/ bits' = [bits EXCEPT ![waiting[t].group] =
                         bits[waiting[t].group] \ waiting[t].bits]
    BY <1>3 DEF GroupWoken, ReturnFromGroup, LeaveGroup
  <2>3. /\ item'[t] = NoItemValue
        /\ \A u \in Tasks \ {t} : item'[u] = item[u] /\ waiting'[u] = waiting[u]
        /\ waiting'[t].group = NoGroup
        /\ pc'[t] = "app" /\ \A u \in Tasks \ {t} : pc'[u] = pc[u]
        /\ \A g \in EventGroups : bits'[g] \subseteq bits[g]
    BY <1>1, <2>2 DEF GInv, GroupsOK, NoGroupCall, Goto
  <2>4. /\ ~NoItemValue.unblocked
        /\ \A some : ~prvTestWaitCondition(NoItemValue, some)
    BY DEF NoItemValue, prvTestWaitCondition
  <2>5. WaitersUnsatisfied'
    <3>1. ASSUME NEW g \in EventGroups, NEW u \in Tasks, InGroupList(os', u, g)
          PROVE  ~prvTestWaitCondition(item'[u], bits'[g])
      <4>1. CASE u = t
        BY <2>3, <2>4, <4>1
      <4>2. CASE u # t
        <5>1. ~prvTestWaitCondition(item[u], bits[g])
          BY <2>1, <3>1 DEF Still, GInv, WaitersUnsatisfied, InGroupList
        <5>2. QED BY <2>3, <4>2, <5>1, BitsOnlyHelp
      <4>3. QED BY <4>1, <4>2
    <3>2. QED BY <3>1 DEF WaitersUnsatisfied, InGroupList
  <2>6. WaitersNotReleased'
    BY <2>1, <2>3, <2>4 DEF GInv, WaitersNotReleased, Still
  <2>7. DeletedReleases'
    BY <2>2, <2>3 DEF GInv, DeletedReleases, InGroupCall
  <2>8. ReadyUnlinked'
    BY <2>1 DEF Still, GInv, ReadyUnlinked
  <2>9. GroupsOK'
    BY <2>2, <2>3 DEF GInv, GroupsOK
  <2>10. GInv'
    BY <2>5, <2>6, <2>7, <2>8, <2>9 DEF GInv
  <2>11. QED BY <2>1, <2>2, <2>3, <2>4, <2>10
<1>4. QED BY <1>2, <1>3 DEF EventGroupContinue
-----------------------------------------------------------------------------
(* The steps of the scheduler put no task into the list of a group.        *)

LinksStay(r) ==
  \A u \in Tasks :
    /\ r.eventList[u] = os.eventList[u] \/ r.eventList[u] \notin EventLists
    /\ r.stateList[u] \in Priorities => r.eventList[u] = NoList

LEMMA OtherLists == NoList \notin EventLists /\ xPendingReadyList \notin EventLists
BY TasksAssumption DEF NoList, xPendingReadyList

LEMMA StillStays ==
  ASSUME ReadyUnlinked, NEW r, Still(os, r)
  PROVE  LinksStay(r)
BY DEF Still, LinksStay, ReadyUnlinked

\* Task x alone is moved, and is not left both ready and in an event list.
LEMMA OneMoves ==
  ASSUME ReadyUnlinked, NEW r, NEW x \in Tasks,
         \A u \in Tasks \ {x} : /\ r.stateList[u] = os.stateList[u]
                                /\ r.eventList[u] = os.eventList[u],
         r.eventList[x] \in {os.eventList[x], NoList, xPendingReadyList},
         r.stateList[x] \in Priorities => r.eventList[x] = NoList
  PROVE  LinksStay(r)
BY OtherLists DEF LinksStay, ReadyUnlinked

LEMMA ReadiedStays ==
  ASSUME ReadyUnlinked, os \in Kernel, NEW r, NEW x \in Tasks, Readied(os, x, r)
  PROVE  LinksStay(r)
<1>1. /\ os.stateList \in [Tasks -> StateLists \cup {NoList}]
      /\ os.eventList \in [Tasks -> ItemLists \cup {NoList}]
  BY DEF Kernel
<1>2. /\ r.eventList[x] = NoList
      /\ \A u \in Tasks \ {x} : /\ r.stateList[u] = os.stateList[u]
                                /\ r.eventList[u] = os.eventList[u]
  BY <1>1 DEF Readied
<1>3. QED BY <1>2, OneMoves

LEMMA YieldsStay ==
  ASSUME IInv, PInv, ReadyUnlinked, NEW t \in Tasks,
         \/ taskYIELD(t) \/ SuspendYields(t) \/ YieldUnlessYielded(t)
         \/ CreateYields(t) \/ DeleteYields(t) \/ DeleteFrees(t)
         \/ SuspendResetsUnblockTime(t) \/ (t = Idle /\ IdleYields)
  PROVE  LinksStay(os')
<1>1. os \in Kernel /\ target \in [Tasks -> Tasks]
  BY IInvFacts
<1>2. CASE taskYIELD(t) \/ IdleYields
  <2>1. os' = portYIELD(os)
    BY <1>2 DEF taskYIELD, IdleYields
  <2>2. Flagged(os, os')
    BY <1>1, <2>1, YieldFlagged
  <2>3. QED BY <2>2, StillStays DEF Flagged
<1>3. CASE SuspendYields(t)
  <2>1. PICK c \in BOOLEAN : c = (target[t] = os.current)
    OBVIOUS
  <2>2. os' = YieldIf(os, c)
    BY <1>3, <2>1 DEF SuspendYields
  <2>3. Flagged(os, os')
    BY <1>1, <2>2, YieldFlagged
  <2>4. QED BY <2>3, StillStays DEF Flagged
<1>4. CASE YieldUnlessYielded(t)
  <2>1. PICK q : q = [os EXCEPT !.yielded[t] = FALSE]
    OBVIOUS
  <2>2. PICK c \in BOOLEAN : c = (~os.yielded[t])
    OBVIOUS
  <2>3. os' = YieldIf(q, c)
    BY <1>4, <2>1, <2>2 DEF YieldUnlessYielded
  <2>4. q \in Kernel
    BY <1>1, <2>1, ZenonT(60) DEF Kernel
  <2>5. Still(os, q)
    BY <1>1, <2>1 DEF Kernel, Still
  <2>6. Flagged(q, os')
    BY <2>3, <2>4, YieldFlagged
  <2>7. Still(os, os')
    BY <2>5, <2>6 DEF Flagged, Still
  <2>8. QED BY <2>7, StillStays
<1>5. CASE CreateYields(t)
  <2>1. os.running /\ os.current \in Tasks
    BY <1>5, RunningFacts DEF CreateYields, At
  <2>2. (os.prio[os.current] < os.prio[target[t]]) \in BOOLEAN
    BY <1>1, <2>1, TasksAssumption, PriorityComparison DEF Kernel, Priorities
  <2>3. PICK c \in BOOLEAN : os' = YieldIf(os, c)
    BY <1>5, <2>2 DEF CreateYields
  <2>4. Flagged(os, os')
    BY <1>1, <2>3, YieldFlagged
  <2>5. QED BY <2>4, StillStays DEF Flagged
<1>6. CASE DeleteYields(t)
  <2>1. PICK c \in BOOLEAN : os' = portYIELD([os EXCEPT !.fault = c])
    <3>1. (os.fault \/ ~(os.suspended = 0)) \in BOOLEAN
      OBVIOUS
    <3>2. os' = portYIELD([os EXCEPT !.fault = @ \/ ~(os.suspended = 0)])
      BY <1>6 DEF DeleteYields, configASSERT
    <3>3. [os EXCEPT !.fault = @ \/ ~(os.suspended = 0)]
            = [os EXCEPT !.fault = (os.fault \/ ~(os.suspended = 0))]
      BY <1>1 DEF Kernel
    <3>4. QED BY <3>1, <3>2, <3>3
  <2>2. PICK q : q = [os EXCEPT !.fault = c]
    OBVIOUS
  <2>3. q \in Kernel
    BY <1>1, <2>2, ZenonT(60) DEF Kernel
  <2>4. Still(os, q)
    BY <1>1, <2>2 DEF Kernel, Still
  <2>5. Flagged(q, os')
    BY <2>1, <2>2, <2>3, YieldFlagged
  <2>6. Still(os, os')
    BY <2>4, <2>5 DEF Flagged, Still
  <2>7. QED BY <2>6, StillStays
<1>7. CASE DeleteFrees(t)
  <2>1. Still(os, os')
    BY <1>7 DEF DeleteFrees, Still
  <2>2. QED BY <2>1, StillStays
<1>8. CASE SuspendResetsUnblockTime(t)
  <2>1. os' = prvResetNextTaskUnblockTime(os)
    BY <1>8 DEF SuspendResetsUnblockTime
  <2>2. Flagged(os, os')
    BY <1>1, <2>1, ResetFlagged
  <2>3. QED BY <2>2, StillStays DEF Flagged
<1>9. QED BY <1>2, <1>3, <1>4, <1>5, <1>6, <1>7, <1>8

LEMMA SuspendsStay ==
  ASSUME IInv, PInv, ReadyUnlinked, NEW t \in Tasks,
         \/ \E n \in DelayTicks : vTaskDelay(t, n)
         \/ \E n \in Periods : xTaskDelayUntil(t, n)
         \/ SuspendScheduler(t)
         \/ \E x \in Handles : xTaskAbortDelay(t, x)
         \/ ResumeThenYield(t) \/ ResumeThenReturn(t) \/ ResumeScheduler(t)
  PROVE  LinksStay(os')
<1>1. os \in Kernel
  BY IInvFacts
<1>2. CASE os' = vTaskSuspendAll(os)
  <2>1. Still(os, os')
    BY <1>1, <1>2, SuspendAllFields
  <2>2. QED BY <2>1, StillStays
<1>3. CASE os' = portYIELD(os)
  <2>1. Flagged(os, os')
    BY <1>1, <1>3, YieldFlagged
  <2>2. QED BY <2>1, StillStays DEF Flagged
<1>4. CASE ResumeThenYield(t) \/ ResumeThenReturn(t) \/ ResumeScheduler(t)
  <2>1. os.suspended > 0 /\ os' = xTaskResumeAll(os)
    BY <1>4
       DEF ResumeThenYield, ResumeThenReturn, ResumeScheduler, At, MayCall,
           IInv, CallsValid, Suspending
  <2>2. Still(os, os')
    BY <1>1, <2>1, ResumeAllFields
  <2>3. QED BY <2>2, StillStays
<1>5. QED BY <1>2, <1>3, <1>4
  DEF vTaskDelay, xTaskDelayUntil, SuspendScheduler, xTaskAbortDelay
LEMMA InterruptsStay ==
  ASSUME IInv, PInv, ReadyUnlinked, TickISR \/ ContextSwitch \/ MaskedStep
  PROVE  LinksStay(os')
<1>1. os.running
  BY StageFacts
     DEF TickISR, ContextSwitch, InterruptsEnabled, MaskedStep, Loops,
         DrainPendingReady, FinishPendingReady, ProcessPendedTick,
         FinishResumeAll, UnblockDelayed, Unblocking
<1>2. os \in Kernel /\ Sound(os) /\ Good(os) /\ os.current \in Tasks
  BY <1>1, IInvFacts, StageFacts
<1>3. CASE TickISR
  <2>1. CASE os.suspended = 0
    <3>1. os' = IncrementTick(os, "unblockISR") /\ "unblockISR" \in Unblocking
      BY <1>3, <2>1 DEF TickISR, Unblocking
    <3>2. TickEnded(os, "unblockISR", os') \/ TickGoesOn(os, "unblockISR", os')
      BY <1>2, <3>1, TickFlags
    <3>3. QED BY <3>2, StillStays DEF TickEnded, TickGoesOn
  <2>2. CASE os.suspended # 0
    <3>1. os' = [os EXCEPT !.pendedTicks = @ + 1]
      BY <1>3, <2>2 DEF TickISR
    <3>2. Still(os, os')
      BY <1>2, <3>1 DEF Kernel, Still
    <3>3. QED BY <3>2, StillStays
  <2>3. QED BY <2>1, <2>2
<1>4. CASE ContextSwitch
  <2>1. os' = vTaskSwitchContext([os EXCEPT !.pendSV = FALSE])
    BY <1>4 DEF ContextSwitch
  <2>2. PICK q : q = [os EXCEPT !.pendSV = FALSE]
    OBVIOUS
  <2>3. q \in Kernel /\ SameLinks(os, q) /\ q.prio = os.prio
    BY <1>2, <2>2, ZenonT(60) DEF Kernel, SameLinks
  <2>4. Sound(q)
    BY <1>2, <2>3, SameLinksSound
  <2>5. Still(os, q) /\ q.current = os.current
    BY <1>2, <2>2 DEF Kernel, Still
  <2>6. q.current \in Tasks /\ Idle \in Tasks /\ q.stateList[Idle] \in Priorities
    BY <1>1, <1>2, <2>5, SomeTasks DEF Still
  <2>7. Still(q, os')
    BY <2>1, <2>2, <2>4, <2>6, SwitchContextFields
  <2>8. Still(os, os')
    BY <2>5, <2>7 DEF Still
  <2>9. QED BY <2>8, StillStays
<1>5. CASE DrainPendingReady
  <2>1. ~IsEmpty(os, xPendingReadyList) /\ os' = MovePendingReady(os)
    BY <1>5 DEF DrainPendingReady
  <2>2. \A u \in Tasks : os.eventList[u] = xPendingReadyList =>
                           os.stateList[u] # NoList
    BY DEF PInv, LinksInv, PendingSuspended, xSuspendedTaskList, NoList
  <2>3. PICK x \in Tasks : Readied(os, x, os')
    BY <1>2, <2>1, <2>2, MovePendingFields
  <2>4. QED BY <1>2, <2>3, ReadiedStays
<1>6. CASE FinishPendingReady
  <2>1. os' = EndPendingReady(os)
    BY <1>6 DEF FinishPendingReady
  <2>2. Still(os, os')
    BY <1>2, <2>1, EndPendingReadyFields
  <2>3. QED BY <2>2, StillStays
<1>7. CASE ProcessPendedTick
  <2>1. os' = IncrementTick(os, "unblock") /\ "unblock" \in Unblocking
    BY <1>7 DEF ProcessPendedTick, Unblocking
  <2>2. TickEnded(os, "unblock", os') \/ TickGoesOn(os, "unblock", os')
    BY <1>2, <2>1, TickFlags
  <2>3. QED BY <2>2, StillStays DEF TickEnded, TickGoesOn
<1>8. CASE FinishResumeAll
  <2>1. os' = EndResumeAll(os)
    BY <1>8 DEF FinishResumeAll
  <2>2. Still(os, os')
    BY <1>2, <2>1, EndResumeAllFields
  <2>3. QED BY <2>2, StillStays
<1>9. CASE UnblockDelayed
  <2>1. os.stage \in Unblocking /\ os' = UnblockExpired(os)
    BY <1>9 DEF UnblockDelayed, Unblocking
  <2>2. \/ TickEnded(os, os.stage, os')
        \/ \E x \in Tasks : Readied(os, x, os')
    BY <1>2, <2>1, UnblockFlags
  <2>3. QED BY <1>2, <2>2, StillStays, ReadiedStays DEF TickEnded
<1>10. QED BY <1>3, <1>4, <1>5, <1>6, <1>7, <1>8, <1>9 DEF MaskedStep

LEMMA DelaysStay ==
  ASSUME IInv, PInv, DelaysTimed, ReadyUnlinked, NEW t \in Tasks,
         DelayBlocks(t) \/ DelayUntilBlocks(t)
  PROVE  LinksStay(os')
<1>1. /\ os \in Kernel /\ Sound(os) /\ ticks \in [Tasks -> Ticks]
      /\ lastWake \in [Tasks -> Ticks]
  BY IInvFacts
<1>2. Running(t) /\ pc[t] \in {"delay", "delayUntil"}
  BY DEF DelayBlocks, DelayUntilBlocks, At
<1>3. os.current = t /\ os.stateList[t] \in Priorities /\ os.stateList[t] # NoList
  BY <1>2, RunningTask, ListsDiffer DEF Unlisted, Yielding
<1>4. \/ os' = os
      \/ \E n \in Ticks : os' = prvAddCurrentTaskToDelayedList(os, n, FALSE)
  <2>1. CASE DelayBlocks(t)
    BY <1>1, <2>1 DEF DelayBlocks
  <2>2. CASE DelayUntilBlocks(t)
    <3>1. PICK wake : wake = WrappingAdd(lastWake[t], ticks[t])
      OBVIOUS
    <3>2. wake \in Ticks
      BY <1>1, <3>1, WrappingAddTicks
    <3>3. os.tick \in Ticks
      BY <1>1 DEF Kernel
    <3>4. WrappingSub(wake, os.tick) \in Ticks
      BY <3>2, <3>3, WrappingAddTicks
    <3>5. QED BY <2>2, <3>1, <3>4 DEF DelayUntilBlocks
  <2>3. QED BY <2>1, <2>2
<1>5. CASE os' = os
  BY <1>5 DEF LinksStay, ReadyUnlinked
<1>6. ASSUME NEW n \in Ticks, os' = prvAddCurrentTaskToDelayedList(os, n, FALSE)
      PROVE  LinksStay(os')
  <2>1. /\ os'.eventList = os.eventList /\ os'.stateList[t] \notin Priorities
        /\ \A u \in Tasks \ {t} : os'.stateList[u] = os.stateList[u]
    BY <1>1, <1>3, <1>6, DelaySettled
  <2>2. QED BY <2>1, OneMoves
<1>7. QED BY <1>4, <1>5, <1>6
LEMMA ResumesStay ==
  ASSUME IInv, PInv, ReadyUnlinked, NEW x \in Handles,
         (\E t \in Tasks : vTaskResume(t, x)) \/ xTaskResumeFromISR(x)
  PROVE  LinksStay(os')
<1>1. /\ os.running /\ os.stateList[x] = xSuspendedTaskList
      /\ os.eventList[x] = NoList
  BY RunningFacts
     DEF vTaskResume, xTaskResumeFromISR, prvTaskIsTaskSuspended,
         InterruptsEnabled, MayCall, At
<1>2. x \in Tasks
  BY HandleFacts
<1>3. /\ os \in Kernel /\ Good(os) /\ os.current \in Tasks
      /\ os.stateList \in [Tasks -> StateLists \cup {NoList}]
      /\ os.eventList \in [Tasks -> ItemLists \cup {NoList}]
  BY <1>1, IInvFacts, StageFacts DEF Kernel
<1>4. (os.prio[x] > os.prio[os.current]) \in BOOLEAN
  BY <1>2, <1>3, PriorityComparison
<1>5. ASSUME NEW q, NEW c \in BOOLEAN, Flagged(os, q), Good(q),
             os' = YieldIf(prvAddTaskToReadyList(RemoveState(q, x), x), c)
      PROVE  LinksStay(os')
  <2>1. PICK r : r = prvAddTaskToReadyList(RemoveState(q, x), x)
    OBVIOUS
  <2>2. /\ q.stateList = os.stateList /\ q.eventList = os.eventList
        /\ q.stateList[x] # NoList
    BY <1>1, <1>5 DEF Flagged, Still, xSuspendedTaskList, NoList
  <2>3. Linking(q, r, [q.stateList EXCEPT ![x] = q.prio[x]], q.eventList)
    BY <1>2, <1>5, <2>1, <2>2, MoveToReadyLinking
  <2>4. r \in Kernel
    BY <2>3 DEF Linking, Good
  <2>5. Flagged(r, os')
    BY <1>5, <2>1, <2>4, YieldFlagged
  <2>6. /\ os'.stateList = [os.stateList EXCEPT ![x] = q.prio[x]]
        /\ os'.eventList = os.eventList
    BY <2>2, <2>3, <2>5 DEF Linking, Flagged, Still
  <2>7. \A u \in Tasks \ {x} : os'.stateList[u] = os.stateList[u]
    BY <1>3, <2>6
  <2>8. QED BY <1>1, <1>2, <2>6, <2>7, OneMoves
<1>6. ASSUME NEW t \in Tasks, vTaskResume(t, x) PROVE LinksStay(os')
  <2>1. Flagged(os, os)
    BY DEF Flagged, Still, SameProcessor
  <2>2. PICK c \in BOOLEAN : c = (os.prio[x] > os.prio[os.current])
    BY <1>4
  <2>3. os' = YieldIf(prvAddTaskToReadyList(RemoveState(os, x), x), c)
    BY <1>6, <2>2 DEF vTaskResume
  <2>4. QED BY <1>3, <1>5, <2>1, <2>3
<1>7. CASE xTaskResumeFromISR(x) /\ os.suspended = 0
  <2>1. PICK c \in BOOLEAN : c = (os.prio[x] > os.prio[os.current])
    BY <1>4
  <2>2. PICK yields \in {FALSE, c} :
          os' = YieldIf(prvAddTaskToReadyList(
                          RemoveState(PendYieldIf(os, c), x), x), yields)
    BY <1>7, <2>1 DEF xTaskResumeFromISR
  <2>3. PICK q : q = PendYieldIf(os, c)
    OBVIOUS
  <2>4. Flagged(os, q) /\ Good(q)
    BY <1>3, <2>3, YieldFlagged, YieldSound, IInvFacts DEF Sound
  <2>5. yields \in BOOLEAN
    BY <2>2
  <2>6. os' = YieldIf(prvAddTaskToReadyList(RemoveState(q, x), x), yields)
    BY <2>2, <2>3
  <2>7. QED BY <1>5, <2>4, <2>5, <2>6
<1>8. CASE xTaskResumeFromISR(x) /\ os.suspended # 0
  <2>1. os' = AppendEvent(os, xPendingReadyList, x)
    BY <1>8 DEF xTaskResumeFromISR
  <2>2. Linking(os, os', os.stateList,
                [os.eventList EXCEPT ![x] = xPendingReadyList])
    BY <1>1, <1>2, <1>3, <2>1, ListNames, AppendEventLinking
  <2>3. /\ os'.stateList = os.stateList
        /\ os'.eventList[x] = xPendingReadyList
        /\ \A u \in Tasks \ {x} : os'.eventList[u] = os.eventList[u]
    BY <1>2, <1>3, <2>2 DEF Linking
  <2>4. os'.stateList[x] \notin Priorities
    BY <1>1, <2>3, ListsDiffer
  <2>5. QED BY <1>2, <2>3, <2>4, OneMoves
<1>9. QED BY <1>6, <1>7, <1>8

LEMMA PrioritySetStays ==
  ASSUME IInv, PInv, ReadyUnlinked, NEW t \in Tasks, NEW x \in Handles,
         NEW p \in NewPriorities, vTaskPrioritySet(t, x, p)
  PROVE  LinksStay(os')
<1>1. Running(t)
  BY DEF vTaskPrioritySet, MayCall, At
<1>2. x \in Tasks
  BY HandleFacts
<1>3. /\ os \in Kernel /\ Sound(os)
      /\ os.stateList \in [Tasks -> StateLists \cup {NoList}]
      /\ os.prio \in [Tasks -> Priorities] /\ Priorities \subseteq Int
  BY IInvFacts, TasksAssumption DEF Kernel, Priorities
<1>4. PICK v : v = configMAX_PRIORITIES - p
  OBVIOUS
<1>5. p \in Priorities /\ v \in 1..configMAX_PRIORITIES
  BY <1>4, SchedulerAssumption, TasksAssumption DEF Priorities
<1>6. os.basePrio = os.prio
  BY DEF PInv, HigherNoted
<1>7. PICK r : r = Reprioritised(os, x, p, p, v)
  OBVIOUS
<1>8. PICK yields \in BOOLEAN : os' = YieldIf(r, yields)
  <2>1. p \in Int /\ os.prio[x] \in Int /\ os.prio[t] \in Int
    BY <1>2, <1>3, <1>5
  <2>2. (IF p > os.prio[x] THEN x # t /\ p > os.prio[t] ELSE x = t) \in BOOLEAN
    BY <2>1
  <2>3. os' = YieldIf(r, IF p > os.prio[x] THEN x # t /\ p > os.prio[t] ELSE x = t)
    BY <1>4, <1>6, <1>7 DEF vTaskPrioritySet, Reprioritised
  <2>4. QED BY <2>2, <2>3
<1>9. /\ r \in Kernel /\ r.eventList = os.eventList
      /\ r.stateList = [os.stateList EXCEPT ![x] = IF IsReady(os, x) THEN p ELSE @]
  <2>1. ReprioritisedAs(os, x, p, p, r)
    BY <1>2, <1>3, <1>5, <1>7, ReprioritisedFields
  <2>2. QED BY <2>1 DEF ReprioritisedAs
<1>10. Flagged(r, os')
  BY <1>8, <1>9, YieldFlagged
<1>11. /\ os'.eventList = os.eventList
       /\ \A u \in Tasks : os'.stateList[u] \in Priorities =>
                             os.stateList[u] \in Priorities
  <2>1. /\ os'.eventList = os.eventList
        /\ os'.stateList[x] = IF IsReady(os, x) THEN p ELSE os.stateList[x]
        /\ \A u \in Tasks \ {x} : os'.stateList[u] = os.stateList[u]
    BY <1>2, <1>3, <1>9, <1>10 DEF Flagged, Still
  <2>2. IsReady(os, x) => os.stateList[x] \in Priorities
    BY <1>2, <1>3 DEF IsReady
  <2>3. QED BY <2>1, <2>2
<1>12. QED BY <1>11 DEF LinksStay, ReadyUnlinked

LEMMA AbortsStay ==
  ASSUME IInv, PInv, ReadyUnlinked, NEW t \in Tasks,
         AbortUnlinksState(t) \/ AbortMakesReady(t)
  PROVE  LinksStay(os')
<1>1. PICK x : x = target[t]
  OBVIOUS
<1>2. Running(t) /\ pc[t] \in {"abort", "abortEvent"}
  BY DEF AbortUnlinksState, AbortMakesReady, At
<1>3. /\ os \in Kernel /\ Good(os) /\ x \in Tasks /\ os.current = t
      /\ os.stateList \in [Tasks -> StateLists \cup {NoList}]
      /\ os.eventList \in [Tasks -> ItemLists \cup {NoList}]
      /\ os.prio[x] \in Priorities
      /\ NoList \notin Priorities
  BY <1>1, <1>2, IInvFacts, RunningFacts, ListsDiffer
     DEF IInv, CallsValid, Kernel
<1>4. CASE AbortUnlinksState(t)
  <2>1. CASE os' = os
    BY <2>1 DEF LinksStay, ReadyUnlinked
  <2>2. CASE IsBlocked(os, x) /\ os' = RemoveState(os, x)
    <3>1. os.stateList[x] # NoList
      BY <2>2
         DEF IsBlocked, xDelayedTaskList1, xDelayedTaskList2,
             xSuspendedTaskList, NoList
    <3>2. Linking(os, os', [os.stateList EXCEPT ![x] = NoList], os.eventList)
      BY <1>3, <2>2, <3>1, RemoveStateLinking
    <3>3. /\ os'.stateList[x] = NoList /\ os'.eventList = os.eventList
          /\ \A u \in Tasks \ {x} : os'.stateList[u] = os.stateList[u]
      BY <1>3, <3>2 DEF Linking
    <3>4. QED BY <1>3, <3>3, OneMoves
  <2>3. QED BY <1>1, <1>4, <2>1, <2>2 DEF AbortUnlinksState
<1>5. CASE AbortMakesReady(t)
  <2> DEFINE aborted == IF os.eventList[x] = NoList
                          THEN os
                          ELSE [RemoveEvent(os, x) EXCEPT !.delayAborted[x] = TRUE]
             higher  == os.prio[x] > os.prio[os.current]
             r       == prvAddTaskToReadyList(aborted, x)
             E       == [os.eventList EXCEPT ![x] = NoList]
  <2>1. os' = PendYieldIf(r, higher) /\ os.stateList[x] = NoList
    BY <1>1, <1>5 DEF AbortMakesReady, At, IInv, CallsValid
  <2>2. os.stateList = [os.stateList EXCEPT ![x] = NoList]
    BY <1>3, <2>1
  <2>3. Linking(os, aborted, os.stateList, E)
    <3>1. CASE os.eventList[x] = NoList
      <4>1. E = os.eventList /\ aborted = os
        BY <1>3, <3>1
      <4> HIDE DEF aborted, E
      <4>2. QED BY <1>3, <4>1 DEF Linking, Settled, SameControl, SameFlags
    <3>2. CASE os.eventList[x] # NoList
      <4>1. PICK q : q = RemoveEvent(os, x)
        OBVIOUS
      <4>2. Linking(os, q, os.stateList, E)
        BY <1>3, <3>2, <4>1, RemoveEventLinking
      <4>3. aborted = [q EXCEPT !.delayAborted[x] = TRUE]
        BY <3>2, <4>1
      <4> HIDE DEF aborted, E
      <4>4. Good(q) /\ q \in Kernel /\ q.delayAborted \in [Tasks -> BOOLEAN]
        BY <4>2 DEF Linking, Good, Kernel
      <4>5. aborted \in Kernel
        BY <1>3, <4>3, <4>4, ZenonT(60) DEF Kernel
      <4>6. /\ SameLinks(q, aborted) /\ Settled(q, aborted)
            /\ aborted.fault = q.fault
        BY <4>3, <4>4 DEF Kernel, SameLinks, Settled, SameControl, SameFlags
      <4>7. Good(aborted)
        BY <4>4, <4>5, <4>6, SameLinksConsistent DEF Good
      <4>8. Linking(q, aborted, os.stateList, E)
        BY <4>2, <4>6, <4>7 DEF Linking, SameLinks
      <4>9. QED BY <4>2, <4>8, LinkingTransitive
    <3>3. QED BY <3>1, <3>2
  <2> HIDE DEF aborted
  <2>4. Linking(os, aborted, [os.stateList EXCEPT ![x] = NoList], E)
    BY <2>2, <2>3
  <2>5. Linking(os, r, [os.stateList EXCEPT ![x] = os.prio[x]], E)
    BY <1>3, <2>4, UnlinkThenReady
  <2> HIDE DEF r
  <2>6. higher \in BOOLEAN /\ r \in Kernel
    BY <1>3, <2>5, PriorityComparison DEF Linking, Good
  <2>7. PICK c \in BOOLEAN : c = higher
    BY <2>6
  <2>8. os' = PendYieldIf(r, c)
    BY <2>1, <2>7
  <2> HIDE DEF higher
  <2>9. Flagged(r, os')
    BY <2>6, <2>8, YieldFlagged
  <2>10. /\ os'.eventList[x] = NoList
         /\ \A u \in Tasks \ {x} : /\ os'.stateList[u] = os.stateList[u]
                                   /\ os'.eventList[u] = os.eventList[u]
    BY <1>3, <2>5, <2>9 DEF Linking, Flagged, Still
  <2>11. QED BY <1>3, <2>10, OneMoves
<1>6. QED BY <1>4, <1>5
\* Task x is unlinked, and k is what becomes of the kernel.
LEMMA UnlinkedStays ==
  ASSUME IInv, ReadyUnlinked, NEW x \in Tasks, os.stateList[x] # NoList,
         NEW a, a = RemoveEventIfLinked(RemoveState(os, x), x), NEW r,
         r.eventList = a.eventList,
         \A u \in Tasks \ {x} : r.stateList[u] = a.stateList[u]
  PROVE  LinksStay(r)
<1>1. /\ os \in Kernel /\ Good(os)
      /\ os.stateList \in [Tasks -> StateLists \cup {NoList}]
      /\ os.eventList \in [Tasks -> ItemLists \cup {NoList}]
  BY IInvFacts DEF Kernel
<1>2. Linking(os, a, [os.stateList EXCEPT ![x] = NoList],
                     [os.eventList EXCEPT ![x] = NoList])
  BY <1>1, UnlinkLinking
<1>3. /\ a.stateList = [os.stateList EXCEPT ![x] = NoList]
      /\ a.eventList = [os.eventList EXCEPT ![x] = NoList]
  BY <1>2 DEF Linking
<1>4. /\ r.eventList[x] = NoList
      /\ \A u \in Tasks \ {x} : /\ r.stateList[u] = os.stateList[u]
                                /\ r.eventList[u] = os.eventList[u]
  BY <1>1, <1>3
<1>5. QED BY <1>4, OneMoves

LEMMA SuspendedOrDeletedStays ==
  ASSUME IInv, PInv, ReadyUnlinked, NEW t \in Tasks, NEW x \in Handles,
         vTaskSuspend(t, x) \/ vTaskDelete(t, x)
  PROVE  LinksStay(os')
<1>1. Running(t) /\ pc[t] = "app"
  BY DEF vTaskSuspend, vTaskDelete, MayCall, At
<1>2. x \in Tasks /\ pc[x] \notin Dead
  BY HandleFacts
<1>3. os.current = t /\ os.stateList[x] # NoList
  BY <1>1, <1>2, RunningTask
<1>4. PICK a : a = RemoveEventIfLinked(RemoveState(os, x), x)
  OBVIOUS
<1>5. Good(a) /\ a.stateList = [os.stateList EXCEPT ![x] = NoList]
  <2>1. Linking(os, a, [os.stateList EXCEPT ![x] = NoList],
                       [os.eventList EXCEPT ![x] = NoList])
    BY <1>2, <1>3, <1>4, IInvFacts, UnlinkLinking
  <2>2. QED BY <2>1 DEF Linking
<1>6. a.stateList[x] = NoList /\ a \in Kernel
  BY <1>2, <1>5, IInvFacts DEF Good, Kernel
<1>7. a.stateList \in [Tasks -> StateLists \cup {NoList}]
  BY <1>6 DEF Kernel
<1>8. ASSUME NEW l \in {xSuspendedTaskList, xTasksWaitingTermination},
             NEW r, r = AppendState(a, l, x)
      PROVE  /\ r \in Kernel /\ r.eventList = a.eventList
             /\ \A u \in Tasks \ {x} : r.stateList[u] = a.stateList[u]
  <2>1. l \in StateLists /\ l \notin DelayedLists
    BY ListNames, DelayedListNames
  <2>2. Linking(a, r, [a.stateList EXCEPT ![x] = l], a.eventList)
    BY <1>2, <1>5, <1>6, <1>8, <2>1, AppendStateLinking
  <2>3. QED BY <1>7, <2>2 DEF Linking, Good
<1>9. CASE vTaskSuspend(t, x)
  <2>1. PICK r : r = AppendState(a, xSuspendedTaskList, x)
    OBVIOUS
  <2>2. os' = StopWaitingForNotification(r, x)
    BY <1>4, <1>9, <2>1 DEF vTaskSuspend
  <2>3. /\ r \in Kernel /\ r.eventList = a.eventList
        /\ \A u \in Tasks \ {x} : r.stateList[u] = a.stateList[u]
    BY <1>8, <2>1
  <2>4. os'.eventList = r.eventList /\ os'.stateList = r.stateList
    BY <2>2, <2>3 DEF StopWaitingForNotification, Kernel
  <2>5. QED BY <1>2, <1>3, <1>4, <2>3, <2>4, UnlinkedStays
<1>10. CASE vTaskDelete(t, x) /\ x = t
  <2>1. PICK r : r = AppendState(a, xTasksWaitingTermination, x)
    OBVIOUS
  <2>2. os' = [r EXCEPT !.numDeleted = @ + 1, !.yieldPending = TRUE]
    BY <1>3, <1>4, <1>10, <2>1 DEF vTaskDelete
  <2>3. /\ r \in Kernel /\ r.eventList = a.eventList
        /\ \A u \in Tasks \ {x} : r.stateList[u] = a.stateList[u]
    BY <1>8, <2>1
  <2>4. os'.eventList = r.eventList /\ os'.stateList = r.stateList
    BY <2>2, <2>3 DEF Kernel
  <2>5. QED BY <1>2, <1>3, <1>4, <2>3, <2>4, UnlinkedStays
<1>11. CASE vTaskDelete(t, x) /\ x # t
  <2>1. os' = prvResetNextTaskUnblockTime([a EXCEPT !.numTasks = @ - 1])
    BY <1>3, <1>4, <1>11 DEF vTaskDelete
  <2>2. PICK n \in Int : n = a.numTasks - 1
    BY <1>6 DEF Kernel
  <2>3. PICK q : q = [a EXCEPT !.numTasks = n]
    OBVIOUS
  <2>4. q \in Kernel
    BY <1>6, <2>3, ZenonT(60) DEF Kernel
  <2>5. os' = prvResetNextTaskUnblockTime(q)
    <3>1. [a EXCEPT !.numTasks = @ - 1] = q
      BY <1>6, <2>2, <2>3 DEF Kernel
    <3>2. QED BY <2>1, <3>1
  <2>6. q.stateList = a.stateList /\ q.eventList = a.eventList
    BY <1>6, <2>3 DEF Kernel
  <2>7. Flagged(q, os')
    BY <2>4, <2>5, ResetFlagged
  <2>8. os'.stateList = a.stateList /\ os'.eventList = a.eventList
    BY <2>6, <2>7 DEF Flagged, Still
  <2>9. QED BY <1>2, <1>3, <1>4, <2>8, UnlinkedStays
<1>12. QED BY <1>9, <1>10, <1>11

LEMMA CreatesStay ==
  ASSUME IInv, PInv, ReadyUnlinked,
         \/ \E t \in Tasks, p \in InitialPriorities : CreateBeforeStart(t, p)
         \/ vTaskStartScheduler
         \/ \E t, x \in Tasks, p \in InitialPriorities : xTaskCreate(t, x, p)
  PROVE  LinksStay(os')
<1>1. /\ os.stateList \in [Tasks -> StateLists \cup {NoList}]
      /\ Sound(os) /\ Idle \in Tasks /\ 0 \in Priorities
      /\ InitialPriorities \subseteq Priorities
  BY IInvFacts, SchedulerAssumption, TasksAssumption DEF Kernel, Priorities
<1>2. PICK x \in Tasks, p \in Priorities :
        /\ pc[x] = "none"
        /\ \E r : /\ r = prvAddNewTaskToReadyList(prvInitialiseNewTask(os, x, p), x)
                  /\ \/ os' = r
                     \/ os' = [r EXCEPT !.nextUnblock = portMAX_DELAY,
                                        !.running = TRUE,
                                        !.tick = configINITIAL_TICK_COUNT]
  <2>1. CASE vTaskStartScheduler
    <3>1. pc[Idle] = "none"
      BY <1>1, <2>1 DEF vTaskStartScheduler, IInv, ControlValid
    <3>2. QED BY <1>1, <2>1, <3>1 DEF vTaskStartScheduler, prvCreateIdleTasks
  <2>2. CASE \E t \in Tasks, i \in InitialPriorities : CreateBeforeStart(t, i)
    BY <1>1, <2>2 DEF CreateBeforeStart
  <2>3. CASE \E t, y \in Tasks, i \in InitialPriorities : xTaskCreate(t, y, i)
    BY <1>1, <2>3 DEF xTaskCreate
  <2>4. QED BY <2>1, <2>2, <2>3
<1>3. PICK r : /\ r = prvAddNewTaskToReadyList(prvInitialiseNewTask(os, x, p), x)
               /\ \/ os' = r
                  \/ os' = [r EXCEPT !.nextUnblock = portMAX_DELAY,
                                     !.running = TRUE,
                                     !.tick = configINITIAL_TICK_COUNT]
  BY <1>2
<1>4. os.stateList[x] = NoList /\ os.eventList[x] = NoList
  BY <1>2 DEF IInv, DeadUnlinked, Dead
<1>5. CreatedAs(os, x, p, r)
  BY <1>1, <1>3, <1>4, CreatedFields
<1>6. r \in Kernel
  BY <1>2, <1>3, CreateSound DEF Created, Sound, Good
<1>7. os'.stateList = r.stateList /\ os'.eventList = r.eventList
  BY <1>3, <1>6 DEF Kernel
<1>8. /\ os'.eventList = os.eventList
      /\ \A u \in Tasks \ {x} : os'.stateList[u] = os.stateList[u]
  BY <1>1, <1>5, <1>7 DEF CreatedAs
<1>9. QED BY <1>4, <1>8, OneMoves

LEMMA TerminationStays ==
  ASSUME IInv, PInv, ReadyUnlinked, prvCheckTasksWaitingTermination
  PROVE  LinksStay(os')
<1>1. PICK x : x = HeadOf(os, xTasksWaitingTermination)
  OBVIOUS
<1>2. PICK a : a = RemoveState(os, x)
  OBVIOUS
<1>3. /\ os.numDeleted > 0 /\ Running(Idle)
      /\ os' = [a EXCEPT !.numTasks = @ - 1, !.numDeleted = @ - 1]
  BY <1>1, <1>2 DEF prvCheckTasksWaitingTermination, At
<1>4. /\ Idle \in Tasks /\ xTasksWaitingTermination \in StateLists
      /\ xTasksWaitingTermination \in Lists
  BY TasksAssumption, ListNames DEF Lists
<1>5. /\ os \in Kernel /\ Good(os)
      /\ os.stateList \in [Tasks -> StateLists \cup {NoList}]
      /\ os.numDeleted \in Int /\ os.numDeleted <= Ending(os)
  BY <1>3, <1>4, RunningFacts, IInvFacts DEF Kernel, IInv, ControlValid
<1>6. Ending(os) \in Int
  BY <1>4, <1>5 DEF Ending, LengthOf, Kernel, ListOf
<1>7. ~IsEmpty(os, xTasksWaitingTermination)
  <2>1. Ending(os) > 0
    BY <1>3, <1>5, <1>6
  <2>2. QED BY <2>1 DEF Ending, LengthOf, IsEmpty, listLIST_IS_EMPTY
<1>8. x \in Tasks /\ os.stateList[x] = xTasksWaitingTermination
  BY <1>1, <1>4, <1>5, <1>7, HeadIsLinked
<1>9. os.stateList[x] # NoList
  BY <1>8, ListsDiffer
<1>10. Linking(os, a, [os.stateList EXCEPT ![x] = NoList], os.eventList)
  BY <1>2, <1>5, <1>8, <1>9, RemoveStateLinking
<1>11. a \in Kernel
  BY <1>10 DEF Linking, Good
<1>12. os'.stateList = a.stateList /\ os'.eventList = a.eventList
  BY <1>3, <1>11 DEF Kernel
<1>13. /\ os'.eventList = os.eventList /\ os'.stateList[x] = NoList
       /\ \A u \in Tasks \ {x} : os'.stateList[u] = os.stateList[u]
  BY <1>5, <1>8, <1>10, <1>12 DEF Linking
<1>14. QED BY <1>8, <1>13, ListsDiffer, OneMoves
LEMMA SchedulerStays ==
  ASSUME IInv, PInv, DelaysTimed, ReadyUnlinked, SchedulerNext
  PROVE  LinksStay(os')
<1>1. CASE Start
  BY <1>1, CreatesStay DEF Start
<1>2. CASE Interrupt
  BY <1>2, InterruptsStay, ResumesStay DEF Interrupt
<1>3. CASE ContextSwitch \/ MaskedStep
  BY <1>3, InterruptsStay
<1>4. CASE IdleStep
  BY <1>4, TerminationStays, YieldsStay, TasksAssumption DEF IdleStep
<1>5. ASSUME NEW t \in Tasks, Call(t) PROVE LinksStay(os')
  <2>1. CASE \/ \E n \in DelayTicks : vTaskDelay(t, n)
             \/ \E n \in Periods : xTaskDelayUntil(t, n)
             \/ SuspendScheduler(t) \/ ResumeScheduler(t)
             \/ \E x \in Handles : xTaskAbortDelay(t, x)
    BY <2>1, SuspendsStay
  <2>2. CASE taskYIELD(t)
    BY <2>2, YieldsStay
  <2>3. CASE \E x \in Handles : vTaskSuspend(t, x) \/ vTaskDelete(t, x)
    BY <2>3, SuspendedOrDeletedStays
  <2>4. CASE \E x \in Handles : vTaskResume(t, x)
    BY <2>4, ResumesStay
  <2>5. CASE \E x \in Handles : \E p \in NewPriorities : vTaskPrioritySet(t, x, p)
    BY <2>5, PrioritySetStays
  <2>6. CASE \E x \in Tasks, p \in InitialPriorities : xTaskCreate(t, x, p)
    BY <2>6, CreatesStay
  <2>7. QED BY <1>5, <2>1, <2>2, <2>3, <2>4, <2>5, <2>6 DEF Call
<1>6. ASSUME NEW t \in Tasks, Continue(t) PROVE LinksStay(os')
  <2>1. CASE ResumeThenYield(t) \/ ResumeThenReturn(t)
    BY <2>1, SuspendsStay
  <2>2. CASE \/ YieldUnlessYielded(t) \/ SuspendYields(t) \/ CreateYields(t)
             \/ SuspendResetsUnblockTime(t) \/ DeleteFrees(t) \/ DeleteYields(t)
    BY <2>2, YieldsStay
  <2>3. CASE DelayBlocks(t) \/ DelayUntilBlocks(t)
    BY <2>3, DelaysStay
  <2>4. CASE AbortUnlinksState(t) \/ AbortMakesReady(t)
    BY <2>4, AbortsStay
  <2>5. QED BY <1>6, <2>1, <2>2, <2>3, <2>4 DEF Continue
<1>7. QED BY <1>1, <1>2, <1>3, <1>4, <1>5, <1>6 DEF SchedulerNext

LEMMA SchedulerKeepsGroups ==
  ASSUME TimeIInv, PInv, GInv, SchedulerNext, UNCHANGED egvars
  PROVE  TimeIInv' /\ PInv' /\ GInv'
<1>1. IInv /\ OnTime(os) /\ DelaysTimed /\ ReadyUnlinked
  BY DEF TimeIInv, GInv
<1>2. IInv'
  BY <1>1, NextIInv
<1>3. OnTime(os)' /\ DelaysTimed' /\ PInv'
  BY <1>1, <1>2, NextTimed, NextDelaysTimed, NextPInv
<1>4. LinksStay(os')
  BY <1>1, SchedulerStays
<1>5. StaysLocated
  BY <1>1, IInvFacts, NextLocations
<1>6. \A u \in Tasks :
        pc'[u] \in {"groupResume", "groupYield", "groupWoken"} =>
          pc[u] \in {"groupResume", "groupYield", "groupWoken"}
  BY <1>5 DEF StaysLocated, Locations
<1>7. GInv'
  BY <1>4, <1>6, StillGInv DEF LinksStay
<1>8. QED BY <1>2, <1>3, <1>7 DEF TimeIInv
-----------------------------------------------------------------------------
(* The invariant holds at first, and every step keeps it.                  *)

LEMMA InitEventGroupIInv == SchedulerInit /\ EventGroupInit => EventGroupIInv
<1> SUFFICES ASSUME SchedulerInit, EventGroupInit PROVE EventGroupIInv
  OBVIOUS
<1>1. TimeIInv /\ PInv
  BY InitIInv, InitTimed, InitPInv DEF TimeIInv
<1>2. os.eventList = [t \in Tasks |-> NoList] /\ pc = [t \in Tasks |-> "none"]
  BY DEF SchedulerInit, KernelInit
<1>3. \A t \in Tasks, g \in EventGroups : ~InGroupList(os, t, g)
  BY <1>2, OtherLists, EventGroupAssumption DEF InGroupList
<1>4. WaitersUnsatisfied
  BY <1>3 DEF WaitersUnsatisfied
<1>5. WaitersNotReleased /\ ReadyUnlinked
  BY <1>2, OtherLists DEF WaitersNotReleased, ReadyUnlinked
<1>6. DeletedReleases
  BY <1>2 DEF DeletedReleases, InGroupCall
<1>7. GroupsOK
  BY DEF GroupsOK, EventGroupInit, NoGroupCall
<1>8. QED BY <1>1, <1>4, <1>5, <1>6, <1>7 DEF EventGroupIInv, GInv

\* A call of the uses, with its arguments where they belong.
LEMMA UseIsCall ==
  ASSUME EventGroupNext
  PROVE  \/ \E t \in Tasks : EventGroupContinue(t)
         \/ \E t \in Tasks, g \in EventGroups, n \in Ticks :
            \E op, some, b, c, a :
              EventGroupCall(t, op, g, some, Wanted(b, c, a), n)
<1>1. CASE \E t \in Tasks : EventGroupContinue(t)
  BY <1>1
<1>2. ASSUME NEW use \in GroupUses,
             EventGroupCall(use[1], use[2], use[3], use[4],
                            Wanted(use[5], use[6], use[7]), use[8])
      PROVE  \E t \in Tasks, g \in EventGroups, n \in Ticks :
             \E op, some, b, c, a :
               EventGroupCall(t, op, g, some, Wanted(b, c, a), n)
  <2>1. use[1] \in Tasks /\ use[3] \in EventGroups /\ use[8] \in Ticks
    BY EventGroupAssumption
  <2>2. QED BY <1>2, <2>1
<1>3. QED BY <1>1, <1>2 DEF EventGroupNext

LEMMA CallsKeep ==
  ASSUME TimeIInv, PInv, GInv, NEW t \in Tasks, NEW g \in EventGroups,
         NEW n \in Ticks, NEW op, NEW some, NEW b, NEW c, NEW a,
         EventGroupCall(t, op, g, some, Wanted(b, c, a), n)
  PROVE  TimeIInv' /\ PInv' /\ GInv'
<1>1. CASE xEventGroupSetBits(t, g, some)
  BY <1>1, SetBitsKeeps
<1>2. CASE xEventGroupClearBits(t, g, some)
  BY <1>2, ClearBitsKeeps
<1>3. CASE xEventGroupWaitBits(t, g, Wanted(b, c, a), n)
  BY <1>3, WaitBitsKeeps
<1>4. CASE xEventGroupSync(t, g, some, Wanted(b, c, a), n)
  BY <1>4, SyncKeeps
<1>5. CASE vEventGroupDelete(t, g)
  BY <1>5, DeleteKeeps
<1>6. QED BY <1>1, <1>2, <1>3, <1>4, <1>5 DEF EventGroupCall

LEMMA NextEventGroupIInv ==
  ASSUME EventGroupIInv, [EventGroupsNext]_<<vars, egvars>>
  PROVE  EventGroupIInv'
<1>1. TimeIInv /\ PInv /\ GInv
  BY DEF EventGroupIInv
<1>2. CASE SchedulerNext /\ UNCHANGED egvars
  BY <1>1, <1>2, SchedulerKeepsGroups DEF EventGroupIInv
<1>3. CASE EventGroupNext
  <2>1. CASE \E t \in Tasks : EventGroupContinue(t)
    BY <1>1, <2>1, GroupContinueKeeps DEF EventGroupIInv
  <2>2. CASE \E t \in Tasks, g \in EventGroups, n \in Ticks :
             \E op, some, b, c, a :
               EventGroupCall(t, op, g, some, Wanted(b, c, a), n)
    BY <1>1, <2>2, CallsKeep DEF EventGroupIInv
  <2>3. QED BY <1>3, <2>1, <2>2, UseIsCall
<1>4. CASE UNCHANGED <<vars, egvars>>
  <2>1. UNCHANGED vars /\ UNCHANGED egvars /\ UNCHANGED <<os, pc>>
    BY <1>4 DEF vars
  <2>2. IInv /\ OnTime(os) /\ DelaysTimed
    BY <1>1 DEF TimeIInv
  <2>3. IInv'
    BY <2>1, <2>2, NextIInv
  <2>4. TimeIInv' /\ PInv'
    BY <1>1, <2>1, <2>2, <2>3, NextTimed, NextDelaysTimed, NextPInv DEF TimeIInv
  <2>5. GInv'
    BY <1>1, <2>1, StillGInv DEF GInv, ReadyUnlinked
  <2>6. QED BY <2>4, <2>5 DEF EventGroupIInv
<1>5. QED BY <1>2, <1>3, <1>4 DEF EventGroupsNext
-----------------------------------------------------------------------------
(* Who is released by a step.                                              *)

\* The step of ReleasedTogether.
Together ==
  \A g \in EventGroups, t, u \in Tasks :
    /\ InGroupList(os, t, g) /\ InGroupList(os, u, g)
    /\ item'[t].unblocked /\ alive'[g]
    => /\ prvTestWaitCondition(item[t], item'[t].bits)
       /\ prvTestWaitCondition(item[u], item'[t].bits) => item'[u].unblocked

LEMMA NoneReleased ==
  ASSUME GInv, NEW t \in Tasks, ~item'[t].unblocked \/ item' = item,
         \A u \in Tasks \ {t} : item'[u] = item[u]
  PROVE  Together
<1>1. ASSUME NEW g \in EventGroups, NEW v \in Tasks, InGroupList(os, v, g)
      PROVE  ~item'[v].unblocked
  <2>1. ~item[v].unblocked
    BY <1>1, EventGroupAssumption DEF GInv, WaitersNotReleased, InGroupList
  <2>2. QED BY <2>1
<1>2. QED BY <1>1 DEF Together

LEMMA SomeReleased ==
  ASSUME GInv, NEW t \in Tasks, NEW h \in EventGroups, NEW current,
         os.eventList[t] = NoList,
         \A u \in Tasks \ {t} :
           item'[u] = IF u \in Satisfied(h, current)
                        THEN UnblockedWith(current) ELSE item[u]
  PROVE  Together
<1>1. UnblockedWith(current).unblocked /\ UnblockedWith(current).bits = current
  BY DEF UnblockedWith, NoItemValue
<1>2. ASSUME NEW g \in EventGroups, NEW v \in Tasks, NEW u \in Tasks,
             InGroupList(os, v, g), InGroupList(os, u, g), item'[v].unblocked
      PROVE  /\ prvTestWaitCondition(item[v], item'[v].bits)
             /\ prvTestWaitCondition(item[u], item'[v].bits) => item'[u].unblocked
  <2>1. v # t /\ u # t /\ ~item[v].unblocked
    BY <1>2, EventGroupAssumption, OtherLists
       DEF GInv, WaitersNotReleased, InGroupList
  <2>2. v \in Satisfied(h, current) /\ item'[v] = UnblockedWith(current)
    BY <1>2, <2>1
  <2>3. g = h
    BY <1>2, <2>2, EventGroupAssumption DEF Satisfied, WaitersOf, InGroupList
  <2>4. prvTestWaitCondition(item[v], current)
    BY <2>2 DEF Satisfied
  <2>5. ASSUME prvTestWaitCondition(item[u], current) PROVE item'[u].unblocked
    <3>1. u \in Satisfied(h, current)
      BY <1>2, <2>3, <2>5 DEF Satisfied, WaitersOf
    <3>2. QED BY <1>1, <2>1, <3>1
  <2>6. QED BY <1>1, <2>2, <2>4, <2>5
<1>3. QED BY <1>2 DEF Together

LEMMA StepTogether ==
  ASSUME EventGroupIInv, [EventGroupsNext]_<<vars, egvars>>
  PROVE  Together
<1>1. TimeIInv /\ PInv /\ GInv /\ IInv
  BY DEF EventGroupIInv, TimeIInv
<1>2. ASSUME item' = item PROVE Together
  BY <1>1, <1>2, NoneReleased, TasksAssumption
<1>3. ASSUME NEW t \in Tasks, NEW g \in EventGroups, NEW n \in Ticks, NEW op,
             NEW some, NEW b, NEW c, NEW a,
             EventGroupCall(t, op, g, some, Wanted(b, c, a), n)
      PROVE  Together
  <2>1. CASE xEventGroupSetBits(t, g, some)
    <3>1. os.eventList[t] = NoList
      BY <1>1, <2>1, CallerNotWaiting DEF xEventGroupSetBits, MayUseGroup
    <3>2. item' = [u \in Tasks |->
                     IF u \in Satisfied(g, bits[g] \cup some)
                       THEN UnblockedWith(bits[g] \cup some) ELSE item[u]]
      BY <1>1, <2>1, SetBitsKeeps
    <3>3. QED BY <1>1, <3>1, <3>2, SomeReleased
  <2>2. CASE xEventGroupClearBits(t, g, some)
    BY <1>1, <1>2, <2>2, ClearBitsKeeps
  <2>3. CASE xEventGroupWaitBits(t, g, Wanted(b, c, a), n)
    <3>1. /\ ~item'[t].unblocked \/ item' = item
          /\ \A u \in Tasks \ {t} : item'[u] = item[u]
      BY <1>1, <2>3, WaitBitsKeeps
    <3>2. QED BY <1>1, <3>1, NoneReleased
  <2>4. CASE xEventGroupSync(t, g, some, Wanted(b, c, a), n)
    <3>1. os.eventList[t] = NoList
      BY <1>1, <2>4, CallerNotWaiting DEF xEventGroupSync, MayUseGroup
    <3>2. \A u \in Tasks \ {t} :
            item'[u] = IF u \in Satisfied(g, bits[g] \cup some)
                         THEN UnblockedWith(bits[g] \cup some) ELSE item[u]
      BY <1>1, <2>4, SyncKeeps
    <3>3. QED BY <1>1, <3>1, <3>2, SomeReleased
  <2>5. CASE vEventGroupDelete(t, g)
    <3>1. /\ \A h \in EventGroups : alive'[h] => h # g
          /\ item' = [u \in Tasks |-> IF u \in WaitersOf(os, g)
                                        THEN UnblockedWith({}) ELSE item[u]]
      BY <1>1, <2>5, DeleteKeeps
    <3>2. ASSUME NEW h \in EventGroups, NEW v \in Tasks, InGroupList(os, v, h),
                 alive'[h]
          PROVE  ~item'[v].unblocked
      <4>1. v \notin WaitersOf(os, g)
        BY <3>1, <3>2, EventGroupAssumption DEF WaitersOf, InGroupList
      <4>2. item'[v] = item[v]
        BY <3>1, <4>1
      <4>3. QED BY <1>1, <3>2, <4>2, EventGroupAssumption
                DEF GInv, WaitersNotReleased, InGroupList
    <3>3. QED BY <3>2 DEF Together
  <2>6. QED BY <1>3, <2>1, <2>2, <2>3, <2>4, <2>5 DEF EventGroupCall
<1>4. ASSUME NEW t \in Tasks, EventGroupContinue(t) PROVE Together
  <2>1. /\ ~item'[t].unblocked \/ item' = item
        /\ \A u \in Tasks \ {t} : item'[u] = item[u]
    BY <1>1, <1>4, GroupContinueKeeps
  <2>2. QED BY <1>1, <2>1, NoneReleased
<1>5. CASE EventGroupNext
  BY <1>3, <1>4, <1>5, UseIsCall
<1>6. CASE UNCHANGED egvars
  BY <1>2, <1>6 DEF egvars
<1>7. QED BY <1>5, <1>6 DEF EventGroupsNext
-----------------------------------------------------------------------------
(* What event groups promise.                                              *)

\* Whatever calls the tasks make of the scheduler and of event groups, the lists,
\* the time, the choice of the task that runs and the groups stay in order: the
\* inductive invariant.
THEOREM EventGroupsInvariance == EventGroupSpec => []EventGroupIInv
<1>1. SchedulerInit /\ EventGroupInit => EventGroupIInv
  BY InitEventGroupIInv
<1>2. EventGroupIInv /\ [EventGroupsNext]_<<vars, egvars>> => EventGroupIInv'
  BY NextEventGroupIInv
<1>3. QED BY <1>1, <1>2, PTL DEF EventGroupSpec

\* No task waits in the list of a group for bits that are set: what xEventGroupSetBits
\* sets releases every task it satisfies, and the bits are looked at before waiting,
\* also by xEventGroupSync after it has set its own.
THEOREM WaitersAreUnsatisfied == EventGroupSpec => []WaitersUnsatisfied
<1>1. EventGroupIInv => WaitersUnsatisfied
  BY DEF EventGroupIInv, GInv
<1>2. QED BY <1>1, EventGroupsInvariance, PTL

\* A task that waited when vEventGroupDelete deleted its group was released by that
\* and does not read the bits of the group when it runs again, whatever else happens
\* in between: suspension, an aborted delay, a timeout.
THEOREM DeletedGroupsNotRead == EventGroupSpec => []DeletedNotRead
<1>1. EventGroupIInv => DeletedNotRead
  <2>1. ASSUME EventGroupIInv, NEW t \in Tasks, waiting[t].group # NoGroup,
               pc[t] = "groupWoken", ~alive[waiting[t].group]
        PROVE  item[t].unblocked
    <3>1. waiting[t].group \in EventGroups
      BY <2>1 DEF EventGroupIInv, GInv, GroupsOK
    <3>2. InGroupCall(t, waiting[t].group)
      BY <2>1 DEF InGroupCall
    <3>3. QED BY <2>1, <3>1, <3>2 DEF EventGroupIInv, GInv, DeletedReleases
  <2>2. QED BY <2>1 DEF DeletedNotRead
<1>2. QED BY <1>1, EventGroupsInvariance, PTL

\* One setting of bits releases all the tasks it satisfies and no other: each is told
\* the same bits, although some clear bits that others waited for.
THEOREM TasksReleasedTogether == EventGroupSpec => ReleasedTogether
<1>1. EventGroupIInv /\ [EventGroupsNext]_<<vars, egvars>> => [Together]_<<os, item, alive>>
  BY StepTogether
<1>2. ReleasedTogether <=> [][Together]_<<os, item, alive>>
  BY DEF ReleasedTogether, Together
<1>3. QED BY <1>1, <1>2, EventGroupsInvariance, PTL DEF EventGroupSpec
=============================================================================

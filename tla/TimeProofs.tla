---------------------------- MODULE TimeProofs -----------------------------
(***************************************************************************)
(* The delayed lists keep time: a tick finds every task that is due, and   *)
(* the two lists with the wrapping tick count implement BlockingTime.      *)
(***************************************************************************)
EXTENDS SchedulerProofs

DelayedLists == {xDelayedTaskList1, xDelayedTaskList2}

\* The items of a sequence are in the order of their values.
InOrder(s, f) == \A i, j \in 1..Len(s) : i < j => f[s[i]] <= f[s[j]]

LEMMA DelayedListNames ==
  /\ DelayedLists \subseteq StateLists /\ DelayedLists \subseteq Lists
  /\ DelayedLists \cap Priorities = {} /\ DelayedLists \cap ItemLists = {}
  /\ NoList \notin DelayedLists
  /\ xSuspendedTaskList \notin DelayedLists
  /\ xTasksWaitingTermination \notin DelayedLists
  /\ xDelayedTaskList1 # xDelayedTaskList2
BY ListNames, TasksAssumption
DEF DelayedLists, Lists, StateLists, Priorities, NoList, xSuspendedTaskList,
    xTasksWaitingTermination, xDelayedTaskList1, xDelayedTaskList2

\* Removing an item keeps the order, whatever the value of the removed item.
LEMMA OrderAfterRemoval ==
  ASSUME NEW L \in ListOf(Tasks), IsInjective(L.items),
         NEW x \in ToSet(L.items), NEW f, NEW g,
         \A u \in Tasks \ {x} : g[u] = f[u], InOrder(L.items, f)
  PROVE  InOrder(uxListRemove(L, x).items, g)
<1> DEFINE i == PositionOf(L, x)
           s == L.items
           w == RemoveAt(s, i)
<1>1. s \in Seq(Tasks) /\ Len(s) \in Nat /\ DOMAIN s = 1..Len(s)
  BY DEF ListOf
<1>2. i \in 1..Len(s) /\ s[i] = x
  <2>1. \E j \in 1..Len(s) : s[j] = x
    BY <1>1 DEF ToSet
  <2>2. QED BY <2>1 DEF PositionOf
<1>3. uxListRemove(L, x).items = w
  BY DEF uxListRemove
<1> HIDE DEF i
<1>4. /\ Len(w) = Len(s) - 1
      /\ \A j \in 1..(Len(s) - 1) : w[j] = IF j < i THEN s[j] ELSE s[j + 1]
  BY <1>1, <1>2, RemoveAtProperties
<1> HIDE DEF w
<1>5. \A j \in 1..Len(s) : j # i => s[j] \in Tasks \ {x}
  <2>1. \A j \in 1..Len(s) : s[j] = s[i] => j = i
    BY <1>1, <1>2 DEF IsInjective
  <2>2. QED BY <2>1, <1>1, <1>2
<1>6. ASSUME NEW a \in 1..Len(w), NEW b \in 1..Len(w), a < b
      PROVE  g[w[a]] <= g[w[b]]
  <2> DEFINE p == IF a < i THEN a ELSE a + 1
             q == IF b < i THEN b ELSE b + 1
  <2>1. /\ p \in 1..Len(s) /\ q \in 1..Len(s) /\ p < q /\ p # i /\ q # i
        /\ w[a] = s[p] /\ w[b] = s[q]
    BY <1>1, <1>2, <1>4, <1>6
  <2> HIDE DEF p, q
  <2>2. f[s[p]] <= f[s[q]]
    BY <2>1 DEF InOrder
  <2>3. g[s[p]] = f[s[p]] /\ g[s[q]] = f[s[q]]
    BY <2>1, <1>5
  <2>4. QED BY <2>1, <2>2, <2>3
<1>7. QED BY <1>3, <1>6 DEF InOrder

\* vListInsert inserts where the order says.
LEMMA OrderAfterInsertion ==
  ASSUME NEW L \in ListOf(Tasks), NEW x \in Tasks, NEW f \in [Tasks -> Ticks],
         InOrder(L.items, f)
  PROVE  InOrder(vListInsert(L, x, f, portMAX_DELAY).items, f)
<1> DEFINE i == InsertionPoint(L, f, f[x], portMAX_DELAY)
           s == L.items
           w == InsertAt(s, i, x)
<1>1. s \in Seq(Tasks) /\ Len(s) \in Nat
  BY DEF ListOf
<1>2. \A u \in Tasks : f[u] \in Int /\ f[u] <= portMAX_DELAY
  BY TasksAssumption DEF Ticks
<1>3. i \in 1..(Len(s) + 1) /\ IsInsertionPoint(L, f, f[x], portMAX_DELAY, i)
  BY <1>2, InsertionPointExists
<1>4. vListInsert(L, x, f, portMAX_DELAY).items = w
  BY DEF vListInsert
<1> HIDE DEF i
<1>5. /\ Len(w) = Len(s) + 1
      /\ \A j \in 1..(Len(s) + 1) :
           w[j] = IF j < i THEN s[j] ELSE IF j = i THEN x ELSE s[j - 1]
  <2>1. /\ InsertAt(s, i, x) \in Seq(Tasks)
        /\ Len(InsertAt(s, i, x)) = Len(s) + 1
        /\ \A j \in 1..(Len(s) + 1) :
             InsertAt(s, i, x)[j] = IF j < i THEN s[j]
                                    ELSE IF j = i THEN x ELSE s[j - 1]
    <3> HIDE DEF s
    <3>1. QED BY <1>1, <1>3, InsertAtProperties
  <2>2. QED BY <2>1
<1> HIDE DEF w
<1>6. \A j \in 1..Len(s) : s[j] \in Tasks /\ f[s[j]] \in Int
  BY <1>1, <1>2
<1>7. \A j \in 1..Len(s) : j < i => f[s[j]] <= f[x]
  BY <1>1, <1>2, <1>3, <1>6 DEF IsInsertionPoint
<1>8. \A j \in 1..Len(s) : i <= j => f[x] <= f[s[j]]
  <2>1. CASE f[x] = portMAX_DELAY
    BY <2>1, <1>1, <1>3 DEF IsInsertionPoint
  <2>2. CASE f[x] # portMAX_DELAY
    <3>1. SUFFICES ASSUME NEW j \in 1..Len(s), i <= j PROVE f[x] <= f[s[j]]
      OBVIOUS
    <3>2. i \in 1..Len(s) /\ f[s[i]] > f[x]
      BY <2>2, <3>1, <1>1, <1>3 DEF IsInsertionPoint
    <3>3. f[s[i]] <= f[s[j]]
      BY <3>1, <3>2, <1>6 DEF InOrder
    <3>4. f[s[i]] \in Int /\ f[s[j]] \in Int /\ f[x] \in Int
      BY <3>1, <3>2, <1>2, <1>6
    <3>5. QED BY <3>2, <3>3, <3>4
  <2>3. QED BY <2>1, <2>2
<1>9. ASSUME NEW a \in 1..Len(w), NEW b \in 1..Len(w), a < b
      PROVE  f[w[a]] <= f[w[b]]
  <2>1. a \in 1..(Len(s) + 1) /\ b \in 1..(Len(s) + 1) /\ a < b
    BY <1>5, <1>9
  <2>2. CASE b < i
    <3>1. w[a] = s[a] /\ w[b] = s[b] /\ a \in 1..Len(s) /\ b \in 1..Len(s)
      BY <2>1, <2>2, <1>1, <1>3, <1>5
    <3>2. QED BY <3>1, <2>1 DEF InOrder
  <2>3. CASE b = i
    <3>1. w[a] = s[a] /\ w[b] = x /\ a \in 1..Len(s) /\ a < i
      BY <2>1, <2>3, <1>1, <1>3, <1>5
    <3>2. QED BY <3>1, <1>7
  <2>4. CASE b > i /\ a = i
    <3>1. w[a] = x /\ w[b] = s[b - 1] /\ b - 1 \in 1..Len(s) /\ i <= b - 1
      BY <2>1, <2>4, <1>1, <1>3, <1>5
    <3>2. QED BY <3>1, <1>8
  <2>5. CASE b > i /\ a < i
    <3>1. /\ w[a] = s[a] /\ w[b] = s[b - 1] /\ b - 1 \in 1..Len(s)
          /\ a \in 1..Len(s) /\ a <= b - 1
      BY <2>1, <2>5, <1>1, <1>3, <1>5
    <3>2. f[s[a]] \in Int
      BY <3>1, <1>6
    <3>3. QED BY <3>1, <3>2 DEF InOrder
  <2>6. CASE b > i /\ a > i
    <3>1. /\ w[a] = s[a - 1] /\ w[b] = s[b - 1]
          /\ a - 1 \in 1..Len(s) /\ b - 1 \in 1..Len(s) /\ a - 1 < b - 1
      BY <2>1, <2>6, <1>1, <1>3, <1>5
    <3>2. QED BY <3>1 DEF InOrder
  <2>7. QED BY <2>1, <2>2, <2>3, <2>4, <2>5, <2>6, <1>3
<1>10. QED BY <1>4, <1>9 DEF InOrder
-----------------------------------------------------------------------------
(* What linking and unlinking items of one task leaves alone.              *)

SameClock(k, r) ==
  r.tick = k.tick /\ r.delayed = k.delayed /\ r.nextUnblock = k.nextUnblock

SameFlags(k, r) ==
  /\ r.yieldPending = k.yieldPending
  /\ r.pendSV = k.pendSV
  /\ r.switchReq = k.switchReq
  /\ r.moved = k.moved
  /\ r.numTasks = k.numTasks

\* At most task t leaves the delayed lists, which keep their order.
Frees(k, r, t) ==
  /\ \A l \in DelayedLists : SortedByWake(k, l) => SortedByWake(r, l)
  /\ \A u \in Tasks \ {t} : r.stateList[u] = k.stateList[u] /\ r.wake[u] = k.wake[u]
  /\ r.stateList[t] \in DelayedLists =>
       r.stateList[t] = k.stateList[t] /\ r.wake[t] = k.wake[t]

Frame(k, r, t) ==
  SameControl(k, r) /\ SameClock(k, r) /\ SameFlags(k, r) /\ Frees(k, r, t)

LEMMA FreesTransitive ==
  ASSUME NEW t \in Tasks, NEW k, NEW q, NEW r, Frees(k, q, t), Frees(q, r, t)
  PROVE  Frees(k, r, t)
BY DEF Frees

LEMMA FrameTransitive ==
  ASSUME NEW t \in Tasks, NEW k, NEW q, NEW r, Frame(k, q, t), Frame(q, r, t)
  PROVE  Frame(k, r, t)
BY FreesTransitive DEF Frame, SameControl, SameClock, SameFlags

LEMMA SortedIsInOrder ==
  \A k, l : SortedByWake(k, l) <=> InOrder(k.lists[l].items, k.wake)
BY DEF SortedByWake, InOrder

LEMMA SameListsFree ==
  ASSUME NEW t \in Tasks, NEW k, NEW r, r.lists = k.lists, r.wake = k.wake,
         r.stateList = k.stateList
  PROVE  Frees(k, r, t)
BY DEF Frees, SortedByWake

LEMMA RemoveStateFrame ==
  ASSUME NEW k, Good(k), NEW t \in Tasks
  PROVE  LET r == RemoveState(k, t)
         IN  Frame(k, r, t) /\ (k.stateList[t] # NoList => r.fault = k.fault)
<1> DEFINE l == k.stateList[t]
           M == uxListRemove(k.lists[l], t)
           r == RemoveState(k, t)
<1>1. k \in Kernel /\ Consistent(k)
  BY DEF Good
<1>2. /\ k.lists \in [Lists -> ListOf(Tasks)]
      /\ k.stateList \in [Tasks -> StateLists \cup {NoList}]
      /\ k.wake \in [Tasks -> Ticks]
  BY <1>1 DEF Kernel
<1>3. CASE l = NoList
  <2>1. r = configASSERT(k, FALSE)
    BY <1>3 DEF RemoveState
  <2> HIDE DEF r
  <2>2. /\ SameControl(k, r) /\ SameClock(k, r) /\ SameFlags(k, r)
        /\ r.lists = k.lists /\ r.stateList = k.stateList /\ r.wake = k.wake
    BY <2>1, <1>1 DEF Kernel, configASSERT, SameControl, SameClock, SameFlags
  <2>3. QED BY <2>2, <1>3, SameListsFree DEF Frame, r
<1>4. CASE l # NoList
  <2>1. l \in StateLists /\ l \in Lists
    BY <1>2, <1>4 DEF Lists
  <2>2. k.lists[l] \in ListOf(Tasks) /\ t \in ItemsOf(k, l)
        /\ IsInjective(k.lists[l].items)
    BY <1>1, <1>2, <2>1 DEF Consistent
  <2>3. r = [k EXCEPT !.lists[l] = M, !.stateList[t] = NoList, !.wake[t] = 0]
    BY <1>4 DEF RemoveState
  <2> HIDE DEF M, r
  <2>4. /\ SameControl(k, r) /\ SameClock(k, r) /\ SameFlags(k, r)
        /\ r.lists = [k.lists EXCEPT ![l] = M]
        /\ r.stateList = [k.stateList EXCEPT ![t] = NoList]
        /\ r.wake = [k.wake EXCEPT ![t] = 0]
        /\ r.fault = k.fault
    BY <2>3, <1>1 DEF Kernel, SameControl, SameClock, SameFlags
  <2>5. /\ \A u \in Tasks \ {t} : r.stateList[u] = k.stateList[u]
                                  /\ r.wake[u] = k.wake[u]
        /\ r.stateList[t] = NoList
    BY <2>4, <1>2
  <2>6. ASSUME NEW m \in DelayedLists, SortedByWake(k, m)
        PROVE  SortedByWake(r, m)
    <3>1. m \in Lists /\ m \in StateLists
      BY DelayedListNames
    <3>2. InOrder(k.lists[m].items, k.wake)
      BY <2>6, SortedIsInOrder
    <3>3. CASE m = l
      <4>1. InOrder(M.items, r.wake)
        BY <2>2, <2>5, <3>2, <3>3, OrderAfterRemoval DEF M, ItemsOf
      <4>2. r.lists[m] = M
        BY <2>4, <1>2, <3>1, <3>3
      <4>3. QED BY <4>1, <4>2, SortedIsInOrder
    <3>4. CASE m # l
      <4>1. r.lists[m] = k.lists[m]
        BY <2>4, <1>2, <3>1, <3>4
      <4>2. t \notin ItemsOf(k, m)
        BY <1>1, <3>1, <3>4 DEF Consistent
      <4>3. k.lists[m].items \in Seq(Tasks)
        BY <1>2, <3>1 DEF ListOf
      <4>4. \A i \in 1..Len(k.lists[m].items) :
              k.lists[m].items[i] \in Tasks \ {t}
        BY <4>2, <4>3 DEF ItemsOf, ToSet
      <4>5. QED BY <4>1, <4>4, <3>2, <2>5, SortedIsInOrder DEF InOrder
    <3>5. QED BY <3>3, <3>4
  <2>7. Frees(k, r, t)
    BY <2>5, <2>6, DelayedListNames DEF Frees
  <2>8. QED BY <2>4, <2>7 DEF Frame, r
<1>5. QED BY <1>3, <1>4

LEMMA AppendStateFrame ==
  ASSUME NEW k, Good(k), NEW l \in StateLists, l \notin DelayedLists,
         NEW t \in Tasks
  PROVE  LET r == AppendState(k, l, t)
         IN  Frame(k, r, t) /\ r.fault = k.fault
<1> DEFINE M == vListInsertEnd(k.lists[l], t)
           r == AppendState(k, l, t)
<1>1. /\ k \in Kernel /\ k.lists \in [Lists -> ListOf(Tasks)]
      /\ k.stateList \in [Tasks -> StateLists \cup {NoList}]
  BY DEF Good, Kernel
<1>2. r = [k EXCEPT !.lists[l] = M, !.stateList[t] = l]
  BY DEF AppendState
<1> HIDE DEF M, r
<1>3. /\ SameControl(k, r) /\ SameClock(k, r) /\ SameFlags(k, r)
      /\ r.lists = [k.lists EXCEPT ![l] = M]
      /\ r.stateList = [k.stateList EXCEPT ![t] = l]
      /\ r.wake = k.wake /\ r.fault = k.fault
  BY <1>1, <1>2 DEF Kernel, SameControl, SameClock, SameFlags
<1>4. \A m \in DelayedLists : r.lists[m] = k.lists[m]
  BY <1>1, <1>3, DelayedListNames
<1>5. /\ \A u \in Tasks \ {t} : r.stateList[u] = k.stateList[u]
      /\ r.stateList[t] = l
  BY <1>1, <1>3
<1>6. Frees(k, r, t)
  BY <1>3, <1>4, <1>5 DEF Frees, SortedByWake
<1>7. QED BY <1>3, <1>6 DEF Frame, r

LEMMA EventFrame ==
  ASSUME NEW k, Good(k), NEW t \in Tasks, NEW l \in ItemLists
  PROVE  LET r == RemoveEvent(k, t)
             s == RemoveEventIfLinked(k, t)
             a == AppendEvent(k, l, t)
         IN  /\ Frame(k, r, t) /\ (k.eventList[t] # NoList => r.fault = k.fault)
             /\ Frame(k, s, t) /\ s.fault = k.fault
             /\ Frame(k, a, t) /\ a.fault = k.fault
<1>1. /\ k \in Kernel /\ k.lists \in [Lists -> ListOf(Tasks)]
      /\ k.eventList \in [Tasks -> ItemLists \cup {NoList}]
  BY DEF Good, Kernel
<1>2. ASSUME NEW m \in ItemLists, NEW M, NEW e, NEW r,
             r = [k EXCEPT !.lists[m] = M, !.eventList[t] = e]
      PROVE  Frame(k, r, t) /\ r.fault = k.fault
  <2>1. /\ SameControl(k, r) /\ SameClock(k, r) /\ SameFlags(k, r)
        /\ r.lists = [k.lists EXCEPT ![m] = M]
        /\ r.stateList = k.stateList
        /\ r.wake = k.wake /\ r.fault = k.fault
    BY <1>1, <1>2 DEF Kernel, SameControl, SameClock, SameFlags
  <2>2. \A d \in DelayedLists : r.lists[d] = k.lists[d]
    BY <1>1, <2>1, DelayedListNames
  <2>3. QED BY <2>1, <2>2 DEF Frame, Frees, SortedByWake
<1>3. LET a == AppendEvent(k, l, t) IN Frame(k, a, t) /\ a.fault = k.fault
  BY <1>2 DEF AppendEvent
<1>4. ASSUME k.eventList[t] # NoList
      PROVE  LET r == RemoveEvent(k, t) IN Frame(k, r, t) /\ r.fault = k.fault
  <2>1. k.eventList[t] \in ItemLists
    BY <1>1, <1>4
  <2>2. RemoveEvent(k, t) =
          [k EXCEPT !.lists[k.eventList[t]] = uxListRemove(k.lists[k.eventList[t]], t),
                    !.eventList[t] = NoList]
    BY <1>4 DEF RemoveEvent
  <2>3. PICK r : r = RemoveEvent(k, t)
    OBVIOUS
  <2>4. Frame(k, r, t) /\ r.fault = k.fault
    <3>1. PICK m \in ItemLists : m = k.eventList[t]
      BY <2>1
    <3>2. r = [k EXCEPT !.lists[m] = uxListRemove(k.lists[m], t), !.eventList[t] = NoList]
      BY <2>2, <2>3, <3>1
    <3>3. QED BY <3>2, <1>2
  <2>5. QED BY <2>3, <2>4
<1>5. ASSUME NEW r, r.lists = k.lists, r.stateList = k.stateList, r.wake = k.wake,
             SameControl(k, r), SameClock(k, r), SameFlags(k, r)
      PROVE  Frame(k, r, t)
  BY <1>5, SameListsFree DEF Frame
<1>6. ASSUME k.eventList[t] = NoList
      PROVE  /\ Frame(k, RemoveEvent(k, t), t)
             /\ RemoveEventIfLinked(k, t) = k /\ Frame(k, k, t)
  <2> DEFINE r == RemoveEvent(k, t)
  <2>1. r = configASSERT(k, FALSE)
    BY <1>6 DEF RemoveEvent
  <2> HIDE DEF r
  <2>2. /\ r.lists = k.lists /\ r.stateList = k.stateList /\ r.wake = k.wake
        /\ SameControl(k, r) /\ SameClock(k, r) /\ SameFlags(k, r)
    BY <2>1, <1>1 DEF Kernel, configASSERT, SameControl, SameClock, SameFlags
  <2>3. Frame(k, k, t)
    BY <1>5 DEF SameControl, SameClock, SameFlags
  <2>4. QED BY <2>2, <2>3, <1>5, <1>6 DEF RemoveEventIfLinked, r
<1>7. RemoveEventIfLinked(k, t) = k \/ RemoveEventIfLinked(k, t) = RemoveEvent(k, t)
  BY DEF RemoveEventIfLinked
<1>8. k.eventList[t] # NoList => RemoveEventIfLinked(k, t) = RemoveEvent(k, t)
  BY DEF RemoveEventIfLinked
<1>9. QED BY <1>3, <1>4, <1>6, <1>7, <1>8

LEMMA RemoveStateUnlinks ==
  ASSUME NEW k, Good(k), NEW t \in Tasks
  PROVE  LET r == RemoveState(k, t)
         IN  /\ Good(r) /\ Frame(k, r, t) /\ r.stateList[t] = NoList
             /\ k.stateList[t] # NoList => r.fault = k.fault
<1>1. k.stateList = [u \in Tasks |-> k.stateList[u]]
  BY DEF Good, Kernel
<1>2. PICK r : r = RemoveState(k, t)
  OBVIOUS
<1>3. /\ Good(r) /\ Frame(k, r, t)
      /\ r.stateList = [k.stateList EXCEPT ![t] = NoList]
      /\ k.stateList[t] # NoList => r.fault = k.fault
  BY <1>2, RemoveStateGood, RemoveStateFrame
<1>4. r.stateList[t] = NoList
  BY <1>1, <1>3
<1>5. QED BY <1>2, <1>3, <1>4

LEMMA ReadyFrame ==
  ASSUME NEW k, Good(k), NEW t \in Tasks, k.stateList[t] = NoList
  PROVE  LET r == prvAddTaskToReadyList(k, t)
         IN  Frame(k, r, t) /\ r.fault = k.fault
<1> DEFINE q == AppendState(k, k.prio[t], t)
           r == prvAddTaskToReadyList(k, t)
<1>1. k.prio[t] \in StateLists /\ k.prio[t] \notin DelayedLists
  BY ListNames, DelayedListNames DEF Good, Kernel
<1>2. Frame(k, q, t) /\ q.fault = k.fault
  BY <1>1, AppendStateFrame
<1>3. q \in Kernel
  BY <1>1, AppendStateGood DEF StateLinked, Good
<1>4. r = [q EXCEPT !.topReady = IF k.prio[t] > @ THEN k.prio[t] ELSE @]
  BY DEF prvAddTaskToReadyList
<1> HIDE DEF q, r
<1>5. /\ SameControl(q, r) /\ SameClock(q, r) /\ SameFlags(q, r)
      /\ r.lists = q.lists /\ r.stateList = q.stateList
      /\ r.wake = q.wake /\ r.fault = q.fault
  BY <1>3, <1>4 DEF Kernel, SameControl, SameClock, SameFlags
<1>6. Frame(q, r, t)
  BY <1>5, SameListsFree DEF Frame
<1>7. QED BY <1>2, <1>5, <1>6, FrameTransitive DEF r
-----------------------------------------------------------------------------
(* The invariant.                                                          *)

\* DelayedTasksFound, said of the tasks and not of the items of the lists; no
\* task is delayed before the scheduler runs.
OnTime(k) ==
  LET o == pxOverflowDelayedTaskList(k)
  IN  /\ SortedByWake(k, k.delayed) /\ SortedByWake(k, o)
      /\ \A t \in Tasks :
           /\ k.stateList[t] = o => k.wake[t] <= k.tick
           /\ k.stateList[t] = k.delayed =>
                /\ k.wake[t] >= k.tick
                /\ k.stage \notin Unblocking => k.wake[t] # k.tick
                /\ k.running => k.nextUnblock <= k.wake[t]
           /\ ~k.running => k.stateList[t] \notin DelayedLists

DelaysTimed == \A t \in Tasks : pc[t] = "delay" => ticks[t] > 0

TimeIInv == IInv /\ OnTime(os) /\ DelaysTimed

\* TicksLeft of a kernel record.
Left(k) ==
  [t \in Tasks |->
     IF k.stateList[t] = k.delayed THEN k.wake[t] - k.tick
     ELSE IF k.stateList[t] = pxOverflowDelayedTaskList(k)
       THEN k.wake[t] + portMAX_DELAY + 1 - k.tick
       ELSE 0]

\* A step of BlockingTime.
CountStep ==
  [Blocking!Block \/ Blocking!Release \/ Blocking!Tick]_TicksLeft

LEMMA TwoDelayedLists ==
  ASSUME NEW k \in Kernel
  PROVE  /\ k.delayed \in DelayedLists
         /\ pxOverflowDelayedTaskList(k) \in DelayedLists
         /\ k.delayed # pxOverflowDelayedTaskList(k)
         /\ DelayedLists = {k.delayed, pxOverflowDelayedTaskList(k)}
BY DelayedListNames DEF Kernel, DelayedLists, pxOverflowDelayedTaskList

LEMMA KernelNumbers ==
  ASSUME NEW k \in Kernel
  PROVE  /\ k.tick \in Int /\ 0 <= k.tick /\ k.tick <= portMAX_DELAY
         /\ k.nextUnblock \in Int
         /\ \A t \in Tasks : /\ k.wake[t] \in Int
                             /\ 0 <= k.wake[t] /\ k.wake[t] <= portMAX_DELAY
         /\ portMAX_DELAY \in Nat
BY TasksAssumption DEF Kernel, Ticks

Untimed(k, r, t) ==
  /\ Frees(k, r, t) /\ SameClock(k, r)
  /\ r.running = k.running
  /\ r.stage \in Unblocking <=> k.stage \in Unblocking

\* Neither the clock nor a delayed list changes.
Quiet(k, r) ==
  /\ \A l \in DelayedLists : r.lists[l] = k.lists[l]
  /\ r.stateList = k.stateList /\ r.wake = k.wake
  /\ SameClock(k, r)
  /\ r.running = k.running
  /\ r.stage \in Unblocking <=> k.stage \in Unblocking

LEMMA QuietUntimed ==
  ASSUME NEW t \in Tasks, NEW k, NEW r, Quiet(k, r)
  PROVE  Untimed(k, r, t)
BY DEF Quiet, Untimed, Frees, SortedByWake

LEMMA FrameUntimed ==
  ASSUME NEW t \in Tasks, NEW k, NEW r, Frame(k, r, t)
  PROVE  Untimed(k, r, t)
BY DEF Frame, Untimed, SameControl

LEMMA UntimedTransitive ==
  ASSUME NEW t \in Tasks, NEW k, NEW q, NEW r, Untimed(k, q, t), Untimed(q, r, t)
  PROVE  Untimed(k, r, t)
BY FreesTransitive DEF Untimed, SameClock

LEMMA UntimedKeeps ==
  ASSUME NEW k \in Kernel, NEW r \in Kernel, NEW t \in Tasks, OnTime(k),
         Untimed(k, r, t)
  PROVE  /\ OnTime(r)
         /\ Left(r) = Left(k) \/ Left(r) = [Left(k) EXCEPT ![t] = 0]
<1> DEFINE o == pxOverflowDelayedTaskList(k)
<1>1. /\ r.delayed = k.delayed /\ r.tick = k.tick /\ r.nextUnblock = k.nextUnblock
      /\ pxOverflowDelayedTaskList(r) = o /\ r.running = k.running
      /\ r.stage \in Unblocking <=> k.stage \in Unblocking
  BY DEF Untimed, SameClock, pxOverflowDelayedTaskList
<1>2. /\ k.delayed \in DelayedLists /\ o \in DelayedLists /\ k.delayed # o
      /\ DelayedLists = {k.delayed, o}
  BY TwoDelayedLists
<1> HIDE DEF o
<1>3. SortedByWake(r, r.delayed) /\ SortedByWake(r, o)
  BY <1>1, <1>2 DEF OnTime, Untimed, Frees, o
<1>4. \A u \in Tasks : r.stateList[u] \in DelayedLists =>
                         r.stateList[u] = k.stateList[u] /\ r.wake[u] = k.wake[u]
  BY DEF Untimed, Frees
<1>5. OnTime(r)
  <2>1. \A u \in Tasks : /\ r.stateList[u] = o => r.wake[u] <= r.tick
                         /\ ~r.running => r.stateList[u] \notin DelayedLists
    BY <1>1, <1>2, <1>4 DEF OnTime, o
  <2>2. ASSUME NEW u \in Tasks, r.stateList[u] = r.delayed
        PROVE  /\ r.wake[u] >= r.tick
               /\ r.stage \notin Unblocking => r.wake[u] # r.tick
               /\ r.running => r.nextUnblock <= r.wake[u]
    <3>1. k.stateList[u] = k.delayed /\ r.wake[u] = k.wake[u]
      BY <1>1, <1>2, <1>4, <2>2
    <3>2. QED BY <1>1, <3>1 DEF OnTime
  <2>3. QED BY <1>1, <1>3, <2>1, <2>2 DEF OnTime
<1>6. \A u \in Tasks \ {t} : Left(r)[u] = Left(k)[u]
  BY <1>1 DEF Left, Untimed, Frees, o
<1>7. Left(r)[t] = Left(k)[t] \/ Left(r)[t] = 0
  BY <1>1, <1>2, <1>4 DEF Left, o
<1>8. QED
  <2>1. Left(r) = [u \in Tasks |-> Left(r)[u]] /\ Left(k) = [u \in Tasks |-> Left(k)[u]]
    BY DEF Left
  <2>2. QED BY <1>5, <1>6, <1>7, <2>1

LEMMA UntimedStep ==
  ASSUME IInv, IInv', OnTime(os), NEW t \in Tasks, Untimed(os, os', t)
  PROVE  OnTime(os') /\ CountStep
<1>1. os \in Kernel /\ os' \in Kernel
  BY DEF IInv, Sound, Good
<1>2. /\ OnTime(os')
      /\ Left(os') = Left(os) \/ Left(os') = [Left(os) EXCEPT ![t] = 0]
  BY <1>1, UntimedKeeps
<1>3. TicksLeft = Left(os) /\ TicksLeft' = Left(os')
  BY DEF TicksLeft, Left
<1>4. CountStep
  BY <1>2, <1>3 DEF CountStep, Blocking!Release
<1>5. QED BY <1>2, <1>4

\* Functions that change other fields of the kernel.
LEMMA QuietTransitive ==
  ASSUME NEW k, NEW q, NEW r, Quiet(k, q), Quiet(q, r)
  PROVE  Quiet(k, r)
BY DEF Quiet, SameClock

LEMMA QuietFunctions ==
  ASSUME NEW k \in Kernel, NEW cond
  PROVE  /\ Quiet(k, k)
         /\ Quiet(k, YieldIf(k, cond)) /\ Quiet(k, PendYieldIf(k, cond))
         /\ Quiet(k, portYIELD(k)) /\ Quiet(k, configASSERT(k, cond))
         /\ Quiet(k, vTaskSuspendAll(k))
<1>1. Quiet(k, k)
  BY DEF Quiet, SameClock
<1>2. Quiet(k, portYIELD(k))
  BY DEF Quiet, SameClock, Kernel, portYIELD
<1>3. Quiet(k, YieldIf(k, cond))
  BY <1>1, <1>2 DEF YieldIf
<1>4. Quiet(k, PendYieldIf(k, cond))
  BY DEF Quiet, SameClock, Kernel, PendYieldIf
<1>5. Quiet(k, configASSERT(k, cond))
  BY DEF Quiet, SameClock, Kernel, configASSERT
<1>6. Quiet(k, vTaskSuspendAll(k))
  BY DEF Quiet, SameClock, Kernel, vTaskSuspendAll
<1>7. QED BY <1>1, <1>2, <1>3, <1>4, <1>5, <1>6

LEMMA ResumeAllQuiet ==
  ASSUME NEW k \in Kernel, k.stage = "run"
  PROVE  Quiet(k, xTaskResumeAll(k))
<1> DEFINE a == configASSERT(k, k.suspended > 0)
           k1 == [a EXCEPT !.suspended = @ - 1, !.yielded[k.current] = FALSE]
           r == xTaskResumeAll(k)
<1>1. a = [k EXCEPT !.fault = @ \/ ~(k.suspended > 0)]
  BY DEF configASSERT
<1> HIDE DEF a
<1>2. PICK f : f = [k EXCEPT !.fault = a.fault, !.suspended = k.suspended - 1,
                             !.yielded[k.current] = FALSE]
  OBVIOUS
<1>3. k1 = f
  BY <1>1, <1>2 DEF Kernel
<1>4. /\ \A l \in DelayedLists : f.lists[l] = k.lists[l]
      /\ f.stateList = k.stateList /\ f.wake = k.wake
      /\ SameClock(k, f) /\ f.running = k.running /\ f.stage = "run"
  BY <1>2 DEF Kernel, SameClock
<1>5. \/ r = k1
      \/ r = [k1 EXCEPT !.stage = "drain", !.moved = FALSE]
  BY DEF xTaskResumeAll, a
<1>6. \/ r = f
      \/ r = [k EXCEPT !.fault = a.fault, !.suspended = k.suspended - 1,
                       !.yielded[k.current] = FALSE, !.stage = "drain", !.moved = FALSE]
  BY <1>2, <1>3, <1>5
<1> HIDE DEF k1, r
<1>7. CASE r = f
  BY <1>4, <1>7 DEF Quiet, r
<1>8. CASE r = [k EXCEPT !.fault = a.fault, !.suspended = k.suspended - 1,
                         !.yielded[k.current] = FALSE, !.stage = "drain", !.moved = FALSE]
  BY <1>8 DEF Kernel, Quiet, SameClock, Unblocking, r
<1>9. QED BY <1>6, <1>7, <1>8 DEF r
-----------------------------------------------------------------------------
(* The kernel functions that read or set the clock.                        *)

SameDelays(k, r) ==
  /\ r.lists = k.lists /\ r.stateList = k.stateList /\ r.wake = k.wake
  /\ r.tick = k.tick /\ r.delayed = k.delayed /\ r.running = k.running

LEMMA SwitchContextQuiet ==
  ASSUME NEW k \in Kernel
  PROVE  Quiet(k, vTaskSwitchContext(k)) 
<1>1. CASE k.suspended # 0
  BY <1>1 DEF vTaskSwitchContext, Quiet, SameClock, Kernel
<1>2. CASE k.suspended = 0
  <2> DEFINE q == [k EXCEPT !.yieldPending = FALSE]
             r == taskSELECT_HIGHEST_PRIORITY_TASK(q)
  <2>1. q \in Kernel /\ Quiet(k, q)
    BY ZenonT(60) DEF Kernel, Quiet, SameClock
  <2> HIDE DEF q
  <2>2. Quiet(q, r)
    <3>1. CASE \E p \in Priorities : IsTopPriority(q, p)
      <4>1. PICK p : p = (CHOOSE m \in Priorities : IsTopPriority(q, m))
        OBVIOUS
      <4>2. p \in Priorities
        BY <3>1, <4>1
      <4>3. PICK L : L = listNEXT_ENTRY(q.lists[p])
        OBVIOUS
      <4>4. r = [q EXCEPT !.lists[p] = L, !.current = L.items[L.idx], !.topReady = p]
        BY <3>1, <4>1, <4>3 DEF taskSELECT_HIGHEST_PRIORITY_TASK
      <4>5. q.lists \in [Lists -> ListOf(Tasks)]
        BY <2>1 DEF Kernel
      <4>6. /\ r.lists = [q.lists EXCEPT ![p] = L]
            /\ r.stateList = q.stateList /\ r.wake = q.wake /\ r.running = q.running
            /\ r.stage = q.stage /\ SameClock(q, r)
        BY <2>1, <4>4 DEF Kernel, SameClock
      <4>7. \A l \in DelayedLists : r.lists[l] = q.lists[l]
        BY <4>2, <4>5, <4>6, DelayedListNames
      <4>8. QED BY <4>6, <4>7 DEF Quiet
    <3>2. CASE ~\E p \in Priorities : IsTopPriority(q, p)
      <4>1. r = configASSERT(q, FALSE)
        BY <3>2 DEF taskSELECT_HIGHEST_PRIORITY_TASK
      <4>2. QED BY <4>1, <2>1, QuietFunctions
    <3>3. QED BY <3>1, <3>2
  <2>3. vTaskSwitchContext(k) = r
    BY <1>2 DEF vTaskSwitchContext, q
  <2> HIDE DEF r
  <2>4. QED BY <2>1, <2>2, <2>3, QuietTransitive
<1>3. QED BY <1>1, <1>2

\* The first task of a list that is in order is the first to wake.
LEMMA HeadWakesFirst ==
  ASSUME NEW k, Good(k), NEW l \in DelayedLists, SortedByWake(k, l),
         NEW t \in Tasks, k.stateList[t] = l
  PROVE  ~IsEmpty(k, l) /\ k.wake[HeadOf(k, l)] <= k.wake[t]
<1> DEFINE s == k.lists[l].items
<1>1. k \in Kernel /\ Consistent(k) /\ l \in Lists /\ l \in StateLists
  BY DelayedListNames DEF Good
<1>2. s \in Seq(Tasks) /\ Len(s) \in Nat /\ DOMAIN s = 1..Len(s)
  BY <1>1 DEF Kernel, ListOf
<1>3. t \in ToSet(s)
  BY <1>1 DEF Consistent, ItemsOf
<1>4. PICK i \in 1..Len(s) : s[i] = t
  BY <1>2, <1>3 DEF ToSet
<1>5. 1 \in 1..Len(s)
  BY <1>2, <1>4
<1>6. s # << >>
  BY <1>2, <1>4
<1>7. HeadOf(k, l) = s[1]
  BY DEF HeadOf, listGET_OWNER_OF_HEAD_ENTRY
<1>8. k.wake[s[1]] <= k.wake[t]
  <2>1. CASE i = 1
    BY <2>1, <1>1, <1>4, KernelNumbers
  <2>2. CASE i # 1
    BY <2>2, <1>2, <1>4, <1>5 DEF SortedByWake
  <2>3. QED BY <2>1, <2>2
<1>9. QED BY <1>6, <1>7, <1>8 DEF IsEmpty, listLIST_IS_EMPTY

LEMMA ResetTime ==
  ASSUME NEW k, Good(k), SortedByWake(k, k.delayed)
  PROVE  LET r == prvResetNextTaskUnblockTime(k)
         IN  /\ SameDelays(k, r) /\ r.stage = k.stage /\ r.fault = k.fault
             /\ \A t \in Tasks : k.stateList[t] = k.delayed =>
                                   r.nextUnblock <= k.wake[t]
<1> DEFINE n == IF IsEmpty(k, k.delayed) THEN portMAX_DELAY
                                         ELSE k.wake[HeadOf(k, k.delayed)]
           r == prvResetNextTaskUnblockTime(k)
<1>1. k \in Kernel /\ k.delayed \in DelayedLists
  BY TwoDelayedLists DEF Good
<1>2. r = [k EXCEPT !.nextUnblock = n]
  BY DEF prvResetNextTaskUnblockTime
<1>3. ASSUME NEW t \in Tasks, k.stateList[t] = k.delayed
      PROVE  n <= k.wake[t]
  BY <1>1, <1>3, HeadWakesFirst
<1> HIDE DEF n, r
<1>4. /\ SameDelays(k, r) /\ r.stage = k.stage /\ r.fault = k.fault
      /\ r.nextUnblock = n
  BY <1>1, <1>2 DEF Kernel, SameDelays
<1>5. QED BY <1>3, <1>4 DEF r

\* Only the next unblock time and the stage change.
LEMMA OnTimeAgain ==
  ASSUME NEW k, NEW r, OnTime(k), SameDelays(k, r),
         r.stage \in Unblocking <=> k.stage \in Unblocking,
         \A t \in Tasks : /\ k.running /\ k.stateList[t] = k.delayed
                          => r.nextUnblock <= k.wake[t]
  PROVE  OnTime(r) /\ Left(r) = Left(k)
<1>1. pxOverflowDelayedTaskList(r) = pxOverflowDelayedTaskList(k)
  BY DEF SameDelays, pxOverflowDelayedTaskList
<1>2. Left(r) = Left(k)
  BY <1>1 DEF Left, SameDelays
<1>3. OnTime(r)
  BY <1>1 DEF OnTime, SameDelays, SortedByWake
<1>4. QED BY <1>2, <1>3

LEMMA ResetKeeps ==
  ASSUME NEW k, Good(k), OnTime(k)
  PROVE  LET r == prvResetNextTaskUnblockTime(k)
         IN  OnTime(r) /\ Left(r) = Left(k)
<1> DEFINE r == prvResetNextTaskUnblockTime(k)
<1>1. /\ SameDelays(k, r) /\ r.stage = k.stage
      /\ \A t \in Tasks : k.stateList[t] = k.delayed => r.nextUnblock <= k.wake[t]
  BY ResetTime DEF OnTime
<1> HIDE DEF r
<1>2. QED BY <1>1, OnTimeAgain DEF r

LEMMA QuietKeeps ==
  ASSUME NEW k \in Kernel, NEW r, OnTime(k), Quiet(k, r)
  PROVE  OnTime(r) /\ Left(r) = Left(k)
<1>1. /\ pxOverflowDelayedTaskList(r) = pxOverflowDelayedTaskList(k)
      /\ k.delayed \in DelayedLists /\ pxOverflowDelayedTaskList(k) \in DelayedLists
  BY TwoDelayedLists DEF Quiet, SameClock, pxOverflowDelayedTaskList
<1>2. Left(r) = Left(k)
  BY <1>1 DEF Left, Quiet, SameClock
<1>3. OnTime(r)
  BY <1>1 DEF OnTime, Quiet, SameClock, SortedByWake
<1>4. QED BY <1>2, <1>3

LEMMA EndPendingReadyKeeps ==
  ASSUME NEW k, Sound(k), OnTime(k), k.stage = "drain"
  PROVE  LET r == EndPendingReady(k)
         IN  OnTime(r) /\ Left(r) = Left(k) /\ r.fault = k.fault
<1> DEFINE q == IF k.moved THEN prvResetNextTaskUnblockTime(k) ELSE k
           r == EndPendingReady(k)
<1>1. q \in Kernel /\ OnTime(q) /\ Left(q) = Left(k) /\ q.stage = "drain"
      /\ q.fault = k.fault
  <2>1. CASE k.moved
    <3>1. Good(k) /\ SortedByWake(k, k.delayed)
      BY DEF Sound, OnTime
    <3>2. QED BY <2>1, <3>1, ResetKeeps, ResetTime, ResetUnblockTimeSound
              DEF Sound, Good
  <2>2. CASE ~k.moved
    BY <2>2 DEF Sound, Good
  <2>3. QED BY <2>1, <2>2
<1>2. r = [q EXCEPT !.stage = "ticks", !.moved = FALSE]
  BY DEF EndPendingReady
<1> HIDE DEF q, r
<1>3. Quiet(q, r) /\ r.fault = q.fault
  BY <1>1, <1>2 DEF Kernel, Quiet, SameClock, Unblocking
<1>4. QED BY <1>1, <1>3, QuietKeeps DEF r

LEMMA EndResumeAllQuiet ==
  ASSUME NEW k \in Kernel, k.stage = "ticks"
  PROVE  Quiet(k, EndResumeAll(k)) /\ EndResumeAll(k).fault = k.fault
<1> DEFINE q == YieldIf(k, k.yieldPending)
           r == EndResumeAll(k)
<1>1. q \in Kernel /\ Quiet(k, q) /\ q.stage = "ticks" /\ q.fault = k.fault
  BY ZenonT(60) DEF Kernel, Quiet, SameClock, YieldIf, portYIELD
<1>2. r = [q EXCEPT !.stage = "run", !.yielded[k.current] = k.yieldPending]
  BY DEF EndResumeAll
<1> HIDE DEF q, r
<1>3. Quiet(q, r) /\ r.fault = q.fault
  BY <1>1, <1>2 DEF Kernel, Quiet, SameClock, Unblocking
<1>4. QED BY <1>1, <1>3, QuietTransitive DEF r
-----------------------------------------------------------------------------
(* The tick.                                                               *)

LEMMA EndTickFields ==
  ASSUME NEW k \in Kernel
  PROVE  LET r == EndIncrementTick(k)
         IN  /\ SameDelays(k, r) /\ r.nextUnblock = k.nextUnblock
             /\ r.stage \in {"run", "ticks"} /\ r.fault = k.fault
<1> DEFINE switch == \/ k.switchReq
                     \/ LengthOf(k, k.prio[k.current]) > 1
                     \/ k.yieldPending
           k1     == [k EXCEPT !.switchReq = FALSE]
           r      == EndIncrementTick(k)
<1>1. k1 \in Kernel /\ SameDelays(k, k1) /\ k1.nextUnblock = k.nextUnblock
      /\ k1.fault = k.fault
  BY ZenonT(60) DEF Kernel, SameDelays
<1>2. \/ r = [YieldIf(k1, switch) EXCEPT !.stage = "run"]
      \/ r = [PendYieldIf(k1, switch) EXCEPT !.stage = "ticks", !.pendedTicks = @ - 1]
  BY DEF EndIncrementTick
<1> HIDE DEF k1, switch
<1>3. \/ r = [k1 EXCEPT !.stage = "run"]
      \/ r = [k1 EXCEPT !.pendSV = TRUE, !.stage = "run"]
      \/ r = [k1 EXCEPT !.yieldPending = @ \/ switch, !.stage = "ticks",
                        !.pendedTicks = @ - 1]
  BY <1>1, <1>2 DEF Kernel, YieldIf, portYIELD, PendYieldIf
<1> HIDE DEF r
<1>4. /\ SameDelays(k1, r) /\ r.nextUnblock = k1.nextUnblock
      /\ r.stage \in {"run", "ticks"} /\ r.fault = k1.fault
  <2>1. CASE r = [k1 EXCEPT !.stage = "run"]
    BY <1>1, <2>1 DEF Kernel, SameDelays
  <2>2. CASE r = [k1 EXCEPT !.pendSV = TRUE, !.stage = "run"]
    BY <1>1, <2>2 DEF Kernel, SameDelays
  <2>3. CASE r = [k1 EXCEPT !.yieldPending = @ \/ switch, !.stage = "ticks",
                            !.pendedTicks = @ - 1]
    BY <1>1, <2>3 DEF Kernel, SameDelays
  <2>4. QED BY <1>3, <2>1, <2>2, <2>3
<1>5. QED BY <1>1, <1>4 DEF SameDelays, r

\* The clock has advanced and the tasks that are due are still in the list.
Ticked(k) ==
  LET o == pxOverflowDelayedTaskList(k)
  IN  /\ SortedByWake(k, k.delayed) /\ SortedByWake(k, o)
      /\ k.running
      /\ \A t \in Tasks :
           /\ k.stateList[t] = o => k.wake[t] <= k.tick
           /\ k.stateList[t] = k.delayed =>
                k.wake[t] >= k.tick /\ k.nextUnblock <= k.wake[t]

\* The end of the processing of a tick when no task is due any more.
LEMMA EndTickKeeps ==
  ASSUME NEW k \in Kernel, Ticked(k),
         \A t \in Tasks : k.stateList[t] = k.delayed => k.wake[t] > k.tick
  PROVE  LET r == EndIncrementTick(k)
         IN  OnTime(r) /\ Left(r) = Left(k) /\ r.fault = k.fault
<1> DEFINE r == EndIncrementTick(k)
<1>1. /\ SameDelays(k, r) /\ r.nextUnblock = k.nextUnblock
      /\ r.stage \in {"run", "ticks"} /\ r.fault = k.fault
  BY EndTickFields
<1> HIDE DEF r
<1>2. pxOverflowDelayedTaskList(r) = pxOverflowDelayedTaskList(k)
  BY <1>1 DEF SameDelays, pxOverflowDelayedTaskList
<1>3. Left(r) = Left(k)
  BY <1>1, <1>2 DEF Left, SameDelays
<1>4. \A t \in Tasks : k.stateList[t] = k.delayed => k.wake[t] # k.tick
  BY KernelNumbers
<1>5. OnTime(r)
  BY <1>1, <1>2, <1>4 DEF OnTime, Ticked, SameDelays, SortedByWake
<1>6. QED BY <1>1, <1>3, <1>5 DEF r

\* The time every task has left is one less.
LeftAfterTick(k) ==
  [t \in Tasks |-> IF Left(k)[t] = 0 THEN 0 ELSE Left(k)[t] - 1]

LEMMA TickKeeps ==
  ASSUME NEW k, Sound(k), OnTime(k), k.running, k.stage \notin Unblocking,
         NEW st \in Unblocking
  PROVE  LET r == IncrementTick(k, st)
         IN  OnTime(r) /\ Left(r) = LeftAfterTick(k) /\ r.fault = k.fault
<1> DEFINE now == WrappingAdd(k.tick, 1)
           k1  == [k EXCEPT !.tick = now, !.stage = st]
           k2  == IF now = 0 THEN taskSWITCH_DELAYED_LISTS(k1) ELSE k1
           r   == IncrementTick(k, st)
           o   == pxOverflowDelayedTaskList(k)
<1>1. k \in Kernel /\ Good(k)
  BY DEF Sound, Good
<1>2. /\ now \in Ticks /\ 1 \in Ticks
      /\ now = IF k.tick = portMAX_DELAY THEN 0 ELSE k.tick + 1
  <2>1. k.tick \in Ticks /\ 1 \in Ticks
    BY <1>1, TasksAssumption DEF Kernel, Ticks
  <2>2. QED BY <2>1, WrappingAddTicks, <1>1, KernelNumbers DEF WrappingAdd
<1>3. /\ o \in DelayedLists /\ k.delayed \in DelayedLists /\ k.delayed # o
  BY <1>1, TwoDelayedLists
<1>4. \A t \in Tasks :
        /\ k.wake[t] \in Int /\ 0 <= k.wake[t] /\ k.wake[t] <= portMAX_DELAY
        /\ k.stateList[t] = o => k.wake[t] <= k.tick
        /\ k.stateList[t] = k.delayed =>
             k.wake[t] >= k.tick + 1 /\ k.nextUnblock <= k.wake[t]
  BY <1>1, KernelNumbers DEF OnTime
<1>5. k.tick \in Int /\ 0 <= k.tick /\ k.tick <= portMAX_DELAY /\ portMAX_DELAY \in Nat
  BY <1>1, KernelNumbers
<1> HIDE DEF now
<1>6. /\ k1 \in Kernel /\ SameLinks(k, k1)
      /\ k1.wake = k.wake /\ k1.delayed = k.delayed /\ k1.running = k.running
      /\ k1.nextUnblock = k.nextUnblock /\ k1.tick = now /\ k1.stage = st
      /\ k1.fault = k.fault /\ k1.prio = k.prio
  <2>1. st \in Stages
    BY DEF Unblocking, Stages
  <2>2. k1 \in Kernel
    BY <1>1, <1>2, <2>1, ZenonT(60) DEF Kernel
  <2>3. QED BY <1>1, <2>2 DEF Kernel, SameLinks
<1>7. Sound(k1) /\ Good(k1)
  BY <1>6, SameLinksSound DEF Sound
<1>8. r = IF now >= k2.nextUnblock THEN k2 ELSE EndIncrementTick(k2)
  BY DEF IncrementTick, now
<1> HIDE DEF k1, r, o
<1>9. /\ k2 \in Kernel /\ Ticked(k2) /\ k2.tick = now /\ k2.stage = st
      /\ Left(k2) = LeftAfterTick(k) /\ k2.fault = k.fault
  <2>1. CASE now # 0
    <3>1. k2 = k1 /\ now = k.tick + 1
      BY <2>1, <1>2
    <3>2. pxOverflowDelayedTaskList(k1) = o
      BY <1>6 DEF pxOverflowDelayedTaskList, o
    <3>3. Ticked(k1)
      BY <1>4, <1>5, <1>6, <3>1, <3>2
         DEF Ticked, SameLinks, OnTime, SortedByWake, o
    <3>4. ASSUME NEW t \in Tasks
          PROVE  Left(k1)[t] = IF Left(k)[t] = 0 THEN 0 ELSE Left(k)[t] - 1
      BY <1>3, <1>4, <1>5, <1>6, <3>1, <3>2 DEF Left, SameLinks, o
    <3>5. Left(k1) = LeftAfterTick(k)
      BY <3>4 DEF LeftAfterTick, Left
    <3>6. QED BY <1>6, <3>1, <3>3, <3>5
  <2>2. CASE now = 0
    <3> DEFINE a == configASSERT(k1, IsEmpty(k1, k1.delayed))
               c == [a EXCEPT !.delayed = pxOverflowDelayedTaskList(k1),
                              !.overflows = IF @ = MaxOverflows THEN 0 ELSE @ + 1]
    <3>1. k.tick = portMAX_DELAY
      BY <2>2, <1>2, <1>5
    <3>2. \A t \in Tasks : k.stateList[t] # k.delayed
      BY <1>4, <1>5, <3>1
    <3>3. IsEmpty(k1, k1.delayed)
      <4>1. k1.delayed \in Lists /\ k1.delayed \in StateLists
        BY <1>3, <1>6, DelayedListNames
      <4>2. QED BY <4>1, <1>6, <1>7, <3>2, HeadIsLinked DEF SameLinks
    <3>4. k2 = prvResetNextTaskUnblockTime(c)
      BY <2>2 DEF taskSWITCH_DELAYED_LISTS
    <3>5. a = [k1 EXCEPT !.fault = @ \/ FALSE] /\ a \in Kernel
      BY <1>6, <3>3, ZenonT(60) DEF configASSERT, Kernel
    <3>6. /\ SameLinks(k1, a) /\ a.wake = k1.wake /\ a.tick = k1.tick
          /\ a.running = k1.running /\ a.stage = k1.stage /\ a.fault = k1.fault
      BY <1>6, <3>3 DEF configASSERT, SameLinks, Kernel
    <3>7. pxOverflowDelayedTaskList(k1) = o
      BY <1>6 DEF pxOverflowDelayedTaskList, o
    <3> HIDE DEF a
    <3>8. c \in Kernel
      <4>1. \A m \in 0..MaxOverflows :
              (IF m = MaxOverflows THEN 0 ELSE m + 1) \in 0..MaxOverflows
        BY TasksAssumption
      <4>2. pxOverflowDelayedTaskList(k1) \in {xDelayedTaskList1, xDelayedTaskList2}
        BY <1>3, <3>7 DEF DelayedLists
      <4>3. a \in Kernel
        BY <3>5
      <4> DEFINE p == pxOverflowDelayedTaskList(k1)
      <4> HIDE DEF p
      <4>4. c = [a EXCEPT !.delayed = p,
                          !.overflows = IF @ = MaxOverflows THEN 0 ELSE @ + 1]
        BY DEF p
      <4>5. p \in {xDelayedTaskList1, xDelayedTaskList2}
        BY <4>2 DEF p
      <4> HIDE DEF c
      <4>6. QED BY <4>1, <4>3, <4>4, <4>5, ZenonT(60) DEF Kernel
    <3>9. /\ SameLinks(a, c) /\ c.wake = a.wake /\ c.tick = a.tick
          /\ c.running = a.running /\ c.stage = a.stage /\ c.fault = a.fault
          /\ c.delayed = o
      BY <3>5, <3>7 DEF SameLinks, Kernel
    <3> HIDE DEF c
    <3>10. /\ c.lists = k.lists /\ c.stateList = k.stateList /\ c.wake = k.wake
           /\ c.tick = 0 /\ c.running /\ c.stage = st /\ c.fault = k.fault
      BY <1>6, <2>2, <3>6, <3>9 DEF SameLinks
    <3>11. Good(c)
      BY <1>7, <3>6, <3>8, <3>9, SameLinksConsistent DEF Good
    <3>12. pxOverflowDelayedTaskList(c) = k.delayed
      BY <1>1, <1>3, <3>9 DEF pxOverflowDelayedTaskList, o, Kernel
    <3>13. SortedByWake(c, c.delayed) /\ SortedByWake(c, k.delayed)
      BY <3>9, <3>10 DEF OnTime, SortedByWake, o
    <3>14. /\ SameDelays(c, k2) /\ k2.stage = st /\ k2.fault = k.fault
           /\ \A t \in Tasks : c.stateList[t] = c.delayed =>
                                 k2.nextUnblock <= c.wake[t]
      BY <3>4, <3>10, <3>11, <3>13, ResetTime
    <3>15. k2 \in Kernel
      BY <2>2, <1>7, SwitchDelayedListsSound DEF Sound, Good
    <3> HIDE DEF k2
    <3>16. /\ pxOverflowDelayedTaskList(k2) = k.delayed /\ k2.delayed = o
           /\ k2.stateList = k.stateList /\ k2.wake = k.wake /\ k2.tick = 0
           /\ k2.running /\ k2.lists = k.lists
      BY <3>9, <3>10, <3>12, <3>14 DEF SameDelays, pxOverflowDelayedTaskList
    <3>17. Ticked(k2)
      BY <1>4, <3>2, <3>9, <3>10, <3>13, <3>14, <3>16
         DEF Ticked, SortedByWake
    <3>18. ASSUME NEW t \in Tasks
           PROVE  Left(k2)[t] = IF Left(k)[t] = 0 THEN 0 ELSE Left(k)[t] - 1
      BY <1>3, <1>4, <1>5, <3>1, <3>2, <3>16 DEF Left, o
    <3>19. Left(k2) = LeftAfterTick(k)
      BY <3>18 DEF LeftAfterTick, Left
    <3>20. QED BY <2>2, <3>14, <3>15, <3>16, <3>17, <3>19
  <2>3. QED BY <2>1, <2>2
<1> HIDE DEF k2
<1>10. CASE now >= k2.nextUnblock
  <2>1. OnTime(k2)
    BY <1>9 DEF OnTime, Ticked
  <2>2. QED BY <2>1, <1>8, <1>9, <1>10 DEF r
<1>11. CASE ~(now >= k2.nextUnblock)
  <2>1. \A t \in Tasks : k2.stateList[t] = k2.delayed => k2.wake[t] > k2.tick
    BY <1>9, <1>11, KernelNumbers DEF Ticked
  <2>2. QED BY <2>1, <1>8, <1>9, <1>11, EndTickKeeps DEF r
<1>12. QED BY <1>10, <1>11

LEMMA UnlinkFrame ==
  ASSUME NEW k, Good(k), NEW t \in Tasks
  PROVE  LET r == RemoveEventIfLinked(RemoveState(k, t), t)
         IN  /\ Frame(k, r, t) /\ Good(r) /\ r.stateList[t] = NoList
             /\ k.stateList[t] # NoList => r.fault = k.fault
<1> DEFINE q == RemoveState(k, t)
           r == RemoveEventIfLinked(q, t)
<1>1. /\ Good(q) /\ q.stateList = [k.stateList EXCEPT ![t] = NoList]
      /\ Frame(k, q, t) /\ (k.stateList[t] # NoList => q.fault = k.fault)
  BY RemoveStateGood, RemoveStateFrame
<1> HIDE DEF q
<1>2. Good(r) /\ r.stateList = q.stateList
  BY <1>1, RemoveEventIfLinkedGood
<1>3. Frame(q, r, t) /\ r.fault = q.fault
  BY <1>1, EventFrame, ListNames
<1> HIDE DEF r
<1>4. Frame(k, r, t)
  BY <1>1, <1>3, FrameTransitive
<1>5. r.stateList[t] = NoList
  BY <1>1, <1>2 DEF Good, Kernel
<1>6. QED BY <1>1, <1>2, <1>3, <1>4, <1>5 DEF q, r

LEMMA UnblockKeeps ==
  ASSUME NEW k, Sound(k), OnTime(k), k.running, k.current \in Tasks,
         k.stage \in Unblocking
  PROVE  LET r == UnblockExpired(k)
         IN  /\ OnTime(r) /\ r.fault = k.fault
             /\ \/ Left(r) = Left(k)
                \/ \E t \in Tasks : Left(r) = [Left(k) EXCEPT ![t] = 0]
<1> DEFINE t == HeadOf(k, k.delayed)
           r == UnblockExpired(k)
<1>1. k \in Kernel /\ Good(k) /\ k.delayed \in DelayedLists
      /\ k.delayed \in StateLists /\ k.delayed \in Lists
  BY TwoDelayedLists, DelayedListNames DEF Sound, Good
<1>2. Ticked(k)
  BY <1>1 DEF OnTime, Ticked
<1>3. ASSUME NEW n \in Ticks,
             \A u \in Tasks : k.stateList[u] = k.delayed =>
                                k.wake[u] > k.tick /\ n <= k.wake[u],
             r = EndIncrementTick([k EXCEPT !.nextUnblock = n])
      PROVE  OnTime(r) /\ Left(r) = Left(k) /\ r.fault = k.fault
  <2>1. PICK q : q = [k EXCEPT !.nextUnblock = n]
    OBVIOUS
  <2>2. q \in Kernel
    BY <2>1, <1>1, ZenonT(60) DEF Kernel
  <2>3. SameDelays(k, q) /\ q.nextUnblock = n /\ q.fault = k.fault
    BY <2>1, <1>1 DEF Kernel, SameDelays
  <2>4. pxOverflowDelayedTaskList(q) = pxOverflowDelayedTaskList(k)
    BY <2>3 DEF SameDelays, pxOverflowDelayedTaskList
  <2>5. Ticked(q)
    BY <1>2, <1>3, <2>3, <2>4 DEF Ticked, SameDelays, SortedByWake
  <2>6. \A u \in Tasks : q.stateList[u] = q.delayed => q.wake[u] > q.tick
    BY <1>3, <2>3 DEF SameDelays
  <2>7. OnTime(r) /\ Left(r) = Left(q) /\ r.fault = q.fault
    BY <1>3, <2>1, <2>2, <2>5, <2>6, EndTickKeeps
  <2>8. Left(q) = Left(k)
    BY <2>3, <2>4 DEF Left, SameDelays
  <2>9. QED BY <2>3, <2>7, <2>8
<1>4. CASE IsEmpty(k, k.delayed)
  <2>1. r = EndIncrementTick([k EXCEPT !.nextUnblock = portMAX_DELAY])
    BY <1>4 DEF UnblockExpired
  <2>2. \A u \in Tasks : k.stateList[u] # k.delayed
    BY <1>1, <1>2, <1>4, HeadWakesFirst DEF Ticked
  <2>3. portMAX_DELAY \in Ticks
    BY TasksAssumption DEF Ticks
  <2> HIDE DEF r
  <2>4. QED BY <1>3, <2>1, <2>2, <2>3 DEF r
<1>5. CASE ~IsEmpty(k, k.delayed) /\ k.tick < k.wake[t]
  <2>1. r = EndIncrementTick([k EXCEPT !.nextUnblock = k.wake[t]])
    BY <1>5 DEF UnblockExpired
  <2>2. t \in Tasks
    BY <1>1, <1>5, HeadIsLinked
  <2>3. k.wake[t] \in Ticks
    BY <1>1, <2>2 DEF Kernel
  <2>4. \A u \in Tasks : k.stateList[u] = k.delayed => k.wake[t] <= k.wake[u]
    BY <1>1, <1>2, HeadWakesFirst DEF Ticked
  <2>5. \A u \in Tasks : k.stateList[u] = k.delayed => k.wake[u] > k.tick
    BY <1>1, <1>5, <2>2, <2>4, KernelNumbers
  <2> HIDE DEF r, t
  <2>6. QED BY <1>3, <2>1, <2>3, <2>4, <2>5 DEF r
<1>6. CASE ~IsEmpty(k, k.delayed) /\ ~(k.tick < k.wake[t])
  <2> DEFINE u == RemoveEventIfLinked(RemoveState(k, t), t)
             q == prvAddTaskToReadyList(u, t)
  <2>1. t \in Tasks /\ k.stateList[t] = k.delayed
    BY <1>1, <1>6, HeadIsLinked
  <2>2. k.stateList[t] # NoList
    BY <1>1, <2>1, DelayedListNames
  <2>3. PICK higher : r = [q EXCEPT !.switchReq = @ \/ higher]
    BY <1>6 DEF UnblockExpired
  <2> HIDE DEF r, t
  <2>4. Frame(k, u, t) /\ Good(u) /\ u.stateList[t] = NoList /\ u.fault = k.fault
    BY <1>1, <2>1, <2>2, UnlinkFrame
  <2> HIDE DEF u
  <2>5. q \in Kernel /\ Frame(u, q, t) /\ q.fault = u.fault
    BY <2>1, <2>4, ReadyFrame, ReadyGood DEF Good
  <2>6. Untimed(k, q, t)
    BY <2>1, <2>4, <2>5, FrameTransitive, FrameUntimed
  <2> HIDE DEF q
  <2>7. Quiet(q, r) /\ r.fault = q.fault
    BY <2>3, <2>5 DEF Kernel, Quiet, SameClock
  <2>8. /\ OnTime(q)
        /\ Left(q) = Left(k) \/ Left(q) = [Left(k) EXCEPT ![t] = 0]
    BY <1>1, <2>1, <2>5, <2>6, UntimedKeeps
  <2>9. OnTime(r) /\ Left(r) = Left(q)
    BY <2>5, <2>7, <2>8, QuietKeeps
  <2>10. QED BY <2>1, <2>4, <2>5, <2>7, <2>8, <2>9 DEF r
<1>7. QED BY <1>4, <1>5, <1>6
-----------------------------------------------------------------------------
(* Entering a delayed list.                                                *)

\* The value of an item that is in no list does not matter to any list.
LEMMA UnlinkedWake ==
  ASSUME NEW k, Good(k), NEW t \in Tasks, k.stateList[t] = NoList, NEW w \in Ticks,
         OnTime(k)
  PROVE  LET r == [k EXCEPT !.wake[t] = w]
         IN  /\ Good(r) /\ OnTime(r) /\ Left(r) = Left(k) /\ SameClock(k, r)
             /\ SameControl(k, r) /\ r.stateList = k.stateList
             /\ r.lists = k.lists /\ r.wake = [k.wake EXCEPT ![t] = w]
             /\ r.fault = k.fault
<1> DEFINE r == [k EXCEPT !.wake[t] = w]
           o == pxOverflowDelayedTaskList(k)
<1>1. k \in Kernel /\ Consistent(k)
  BY DEF Good
<1>2. r \in Kernel
  BY <1>1, ZenonT(60) DEF Kernel
<1>3. /\ SameClock(k, r) /\ SameControl(k, r) /\ SameLinks(k, r)
      /\ r.wake = [k.wake EXCEPT ![t] = w] /\ r.fault = k.fault
  BY <1>1 DEF Kernel, SameClock, SameControl, SameLinks
<1> HIDE DEF r
<1>4. Good(r)
  BY <1>1, <1>2, <1>3, SameLinksConsistent DEF Good
<1>5. /\ k.delayed \in DelayedLists /\ o \in DelayedLists
      /\ pxOverflowDelayedTaskList(r) = o
  BY <1>1, <1>3, TwoDelayedLists DEF SameClock, pxOverflowDelayedTaskList
<1>6. \A u \in Tasks \ {t} : r.wake[u] = k.wake[u]
  BY <1>1, <1>3 DEF Kernel
<1>7. k.stateList[t] \notin DelayedLists
  BY DelayedListNames
<1>8. ASSUME NEW l \in DelayedLists, SortedByWake(k, l)
      PROVE  SortedByWake(r, l)
  <2>1. l \in StateLists /\ l \in Lists
    BY DelayedListNames
  <2>2. t \notin ItemsOf(k, l)
    BY <1>1, <1>7, <2>1 DEF Consistent
  <2>3. k.lists[l].items \in Seq(Tasks)
    BY <1>1, <2>1 DEF Kernel, ListOf
  <2>4. \A i \in 1..Len(k.lists[l].items) : k.lists[l].items[i] \in Tasks \ {t}
    BY <2>2, <2>3 DEF ItemsOf, ToSet
  <2>5. QED BY <1>3, <1>6, <1>8, <2>4 DEF SortedByWake, SameLinks
<1> HIDE DEF o
<1>9. OnTime(r)
  <2>1. SortedByWake(r, r.delayed) /\ SortedByWake(r, o)
    BY <1>3, <1>5, <1>8 DEF OnTime, SameClock, o
  <2>2. \A u \in Tasks : r.stateList[u] \in DelayedLists => r.wake[u] = k.wake[u]
    BY <1>3, <1>6, <1>7 DEF SameLinks
  <2>3. QED BY <1>3, <1>5, <2>1, <2>2
            DEF OnTime, SameLinks, SameClock, SameControl, o
<1>10. ASSUME NEW u \in Tasks PROVE Left(r)[u] = Left(k)[u]
  BY <1>3, <1>5, <1>6, <1>7 DEF Left, SameLinks, SameClock, o
<1>11. Left(r) = Left(k)
  BY <1>10 DEF Left
<1>12. QED BY <1>3, <1>4, <1>9, <1>11 DEF r, SameLinks

LEMMA InsertFields ==
  ASSUME NEW k, Good(k), NEW l \in DelayedLists, NEW t \in Tasks,
         SortedByWake(k, l)
  PROVE  LET r == InsertState(k, l, t)
         IN  /\ SameControl(k, r) /\ SameClock(k, r) /\ r.wake = k.wake
             /\ r.stateList = [k.stateList EXCEPT ![t] = l]
             /\ \A m \in DelayedLists : SortedByWake(k, m) => SortedByWake(r, m)
             /\ r.fault = k.fault
<1> DEFINE M == vListInsert(k.lists[l], t, k.wake, portMAX_DELAY)
           r == InsertState(k, l, t)
<1>1. k \in Kernel /\ k.lists \in [Lists -> ListOf(Tasks)] /\ l \in Lists
      /\ k.wake \in [Tasks -> Ticks] /\ DelayedLists \subseteq Lists
  BY DelayedListNames DEF Good, Kernel
<1>2. InOrder(M.items, k.wake)
  BY <1>1, SortedIsInOrder, OrderAfterInsertion
<1>3. r = [k EXCEPT !.lists[l] = M, !.stateList[t] = l]
  BY DEF InsertState
<1> HIDE DEF M, r
<1>4. /\ SameControl(k, r) /\ SameClock(k, r) /\ r.wake = k.wake
      /\ r.lists = [k.lists EXCEPT ![l] = M]
      /\ r.stateList = [k.stateList EXCEPT ![t] = l] /\ r.fault = k.fault
  BY <1>1, <1>3 DEF Kernel, SameControl, SameClock
<1>5. ASSUME NEW m \in DelayedLists, SortedByWake(k, m)
      PROVE  SortedByWake(r, m)
  <2>1. CASE m = l
    BY <2>1, <1>1, <1>2, <1>4, SortedIsInOrder
  <2>2. CASE m # l
    BY <2>2, <1>1, <1>4, <1>5 DEF SortedByWake
  <2>3. QED BY <2>1, <2>2
<1>6. QED BY <1>4, <1>5 DEF r

\* The current task blocks for n ticks: it waits in the list its wake time is
\* in order with, and has n ticks left.
LEMMA DelayKeeps ==
  ASSUME NEW k, Sound(k), OnTime(k), k.running, k.stage \notin Unblocking,
         k.current \in Tasks, NEW n \in Ticks, n > 0
  PROVE  LET r == prvAddCurrentTaskToDelayedList(k, n, FALSE)
         IN  /\ OnTime(r) /\ Left(r) = [Left(k) EXCEPT ![k.current] = n]
             /\ k.stateList[k.current] # NoList => r.fault = k.fault
<1> DEFINE t    == k.current
           wake == WrappingAdd(k.tick, n)
           k0   == [k EXCEPT !.delayAborted[t] = FALSE]
           k1   == RemoveState(k0, t)
           k2   == [k1 EXCEPT !.wake[t] = wake]
           o    == pxOverflowDelayedTaskList(k)
           l    == IF wake < k.tick THEN o ELSE k.delayed
           k3   == InsertState(k2, l, t)
           r    == prvAddCurrentTaskToDelayedList(k, n, FALSE)
<1>1. k \in Kernel /\ Good(k) /\ t \in Tasks
  BY DEF Sound, Good
<1>2. /\ k.tick \in Int /\ 0 <= k.tick /\ k.tick <= portMAX_DELAY
      /\ portMAX_DELAY \in Nat /\ n \in Int /\ n <= portMAX_DELAY
  BY <1>1, KernelNumbers DEF Ticks
<1>3. /\ wake \in Ticks
      /\ IF wake < k.tick THEN wake + portMAX_DELAY + 1 - k.tick = n
                          ELSE wake - k.tick = n
  BY <1>1, <1>2, WrappingAddTicks DEF Kernel, WrappingAdd
<1>4. /\ o \in DelayedLists /\ k.delayed \in DelayedLists /\ k.delayed # o
      /\ l \in DelayedLists
  BY <1>1, TwoDelayedLists
<1>5. r = IF wake < k.tick THEN k3
          ELSE [k3 EXCEPT !.nextUnblock = IF wake < @ THEN wake ELSE @]
  BY DEF prvAddCurrentTaskToDelayedList
<1>6. k0 \in Kernel /\ SameControl(k, k0) /\ SameLinks(k, k0) /\ Quiet(k, k0)
      /\ k0.fault = k.fault
  BY <1>1 DEF Kernel, SameControl, SameLinks, Quiet, SameClock
<1> HIDE DEF k0, wake
<1>7. Good(k0) /\ OnTime(k0) /\ Left(k0) = Left(k)
  BY <1>1, <1>6, SameLinksConsistent, QuietKeeps DEF Good
<1>8. /\ Good(k1) /\ Frame(k0, k1, t) /\ k1.stateList[t] = NoList
      /\ k.stateList[t] # NoList => k1.fault = k.fault
  <2>1. k0.stateList = k.stateList
    BY <1>6 DEF SameLinks
  <2>2. QED BY <1>1, <1>6, <1>7, <2>1, RemoveStateUnlinks
<1> HIDE DEF k1
<1>9. k1 \in Kernel /\ OnTime(k1)
  BY <1>1, <1>6, <1>7, <1>8, FrameUntimed, UntimedKeeps DEF Good
<1>10. /\ k1.tick = k.tick /\ k1.delayed = k.delayed
       /\ k1.nextUnblock = k.nextUnblock /\ k1.running = k.running
       /\ k1.stage = k.stage
  BY <1>6, <1>8 DEF Frame, SameClock, SameControl, Quiet
<1>11. \A u \in Tasks \ {t} : Left(k1)[u] = Left(k)[u]
  <2>1. pxOverflowDelayedTaskList(k0) = o /\ pxOverflowDelayedTaskList(k1) = o
    BY <1>6, <1>10 DEF pxOverflowDelayedTaskList, Quiet, SameClock
  <2>2. \A u \in Tasks \ {t} : Left(k1)[u] = Left(k0)[u]
    BY <1>8, <2>1 DEF Left, Frame, Frees, SameClock
  <2>3. QED BY <1>7, <2>2
<1>12. /\ Good(k2) /\ OnTime(k2) /\ Left(k2) = Left(k1) /\ SameClock(k1, k2)
       /\ SameControl(k1, k2) /\ k2.stateList = k1.stateList
       /\ k2.wake = [k1.wake EXCEPT ![t] = wake] /\ k2.fault = k1.fault
  BY <1>1, <1>3, <1>8, <1>9, UnlinkedWake
<1> HIDE DEF k2, o
<1>13. /\ k2.tick = k.tick /\ k2.delayed = k.delayed
       /\ k2.nextUnblock = k.nextUnblock /\ k2.running = k.running
       /\ k2.stage = k.stage /\ pxOverflowDelayedTaskList(k2) = o
  BY <1>10, <1>12 DEF SameClock, SameControl, pxOverflowDelayedTaskList, o
<1>14. SortedByWake(k2, o) /\ SortedByWake(k2, k.delayed) /\ SortedByWake(k2, l)
  BY <1>12, <1>13 DEF OnTime
<1> HIDE DEF l
<1>15. /\ SameControl(k2, k3) /\ SameClock(k2, k3) /\ k3.wake = k2.wake
       /\ k3.stateList = [k2.stateList EXCEPT ![t] = l]
       /\ SortedByWake(k3, o) /\ SortedByWake(k3, k.delayed) /\ k3.fault = k2.fault
  BY <1>1, <1>4, <1>12, <1>14, InsertFields
<1>16. k3 \in Kernel
  <2>1. k2.stateList[t] = NoList
    BY <1>8, <1>12
  <2>2. l \in StateLists
    BY <1>4, DelayedListNames
  <2>3. QED BY <1>1, <1>12, <2>1, <2>2, InsertStateGood DEF StateLinked, Good
<1> HIDE DEF k3, r
<1> DEFINE b == IF wake < k.tick THEN k.nextUnblock
                ELSE IF wake < k.nextUnblock THEN wake ELSE k.nextUnblock
<1>17. /\ SameDelays(k3, r) /\ r.stage = k3.stage /\ r.fault = k3.fault
       /\ r.nextUnblock = b
  BY <1>5, <1>13, <1>15, <1>16 DEF Kernel, SameDelays, SameClock
<1> HIDE DEF b
<1>18. /\ r.tick = k.tick /\ r.delayed = k.delayed /\ r.running /\ r.stage = k.stage
       /\ pxOverflowDelayedTaskList(r) = o /\ r.wake = k2.wake
       /\ r.stateList = [k2.stateList EXCEPT ![t] = l]
       /\ SortedByWake(r, o) /\ SortedByWake(r, k.delayed)
  BY <1>13, <1>15, <1>17
     DEF SameDelays, SameClock, SameControl, pxOverflowDelayedTaskList, SortedByWake, o
<1>19. /\ r.stateList[t] = l /\ r.wake[t] = wake
       /\ \A u \in Tasks \ {t} : r.stateList[u] = k2.stateList[u]
  BY <1>1, <1>8, <1>9, <1>12, <1>18 DEF Kernel
<1>20. OnTime(r)
  <2>1. /\ r.stateList[t] = o => r.wake[t] <= r.tick
        /\ r.stateList[t] = r.delayed =>
             /\ r.wake[t] >= r.tick /\ r.wake[t] # r.tick
             /\ r.nextUnblock <= r.wake[t]
    BY <1>1, <1>2, <1>3, <1>4, <1>17, <1>18, <1>19, KernelNumbers DEF l, b, Ticks
  <2>2. ASSUME NEW u \in Tasks, u # t
        PROVE  /\ r.stateList[u] = o => r.wake[u] <= r.tick
               /\ r.stateList[u] = r.delayed =>
                    /\ r.wake[u] >= r.tick /\ r.wake[u] # r.tick
                    /\ r.nextUnblock <= r.wake[u]
    <3>1. r.stateList[u] = k2.stateList[u] /\ r.wake[u] = k2.wake[u]
      BY <1>18, <1>19, <2>2
    <3>2. k.nextUnblock \in Int /\ wake \in Int /\ k2.wake[u] \in Int
      <4>1. k2 \in Kernel
        BY <1>12 DEF Good
      <4>2. wake \in Int
        BY <1>2, <1>3 DEF Ticks
      <4>3. QED BY <1>1, <4>1, <4>2, KernelNumbers
    <3>3. b <= k.nextUnblock
      BY <3>2 DEF b
    <3>4. b \in Int
      BY <3>2 DEF b
    <3>5. QED BY <1>12, <1>13, <1>17, <1>18, <3>1, <3>2, <3>3, <3>4 DEF OnTime
  <2>3. QED BY <2>1, <2>2, <1>18 DEF OnTime
<1>21. Left(r) = [Left(k) EXCEPT ![t] = n]
  <2>1. Left(r)[t] = n
    BY <1>1, <1>3, <1>4, <1>18, <1>19 DEF Left, l
  <2>2. ASSUME NEW u \in Tasks, u # t PROVE Left(r)[u] = Left(k)[u]
    <3>1. r.stateList[u] = k2.stateList[u]
      BY <1>19, <2>2
    <3>2. Left(r)[u] = Left(k2)[u]
      BY <1>13, <1>18, <3>1 DEF Left
    <3>3. QED BY <1>11, <1>12, <2>2, <3>2
  <2>3. QED BY <2>1, <2>2 DEF Left
<1>22. QED BY <1>8, <1>12, <1>15, <1>17, <1>20, <1>21 DEF r
-----------------------------------------------------------------------------
(* Each action keeps the time and counts at most one tick.                 *)

LEMMA TicksLeftIsLeft == TicksLeft = Left(os) /\ TicksLeft' = Left(os')
BY DEF TicksLeft, Left

LEMMA QuietStep ==
  ASSUME IInv, OnTime(os), Quiet(os, os')
  PROVE  OnTime(os') /\ CountStep
<1>1. OnTime(os') /\ Left(os') = Left(os)
  BY IInvFacts, QuietKeeps
<1>2. QED BY <1>1, TicksLeftIsLeft DEF CountStep

LEMMA SameTimeStep ==
  ASSUME OnTime(os'), Left(os') = Left(os)
  PROVE  OnTime(os') /\ CountStep
BY TicksLeftIsLeft DEF CountStep

\* The actions that change neither the clock nor a delayed list.
LEMMA QuietActions ==
  ASSUME IInv, OnTime(os), NEW t \in Tasks,
         \/ ResumeThenYield(t) \/ ResumeThenReturn(t) \/ ResumeScheduler(t)
         \/ YieldUnlessYielded(t) \/ taskYIELD(t) \/ SuspendYields(t)
         \/ CreateYields(t) \/ DeleteYields(t) \/ DeleteFrees(t)
         \/ \E n \in DelayTicks : vTaskDelay(t, n)
         \/ \E n \in Periods : xTaskDelayUntil(t, n)
         \/ SuspendScheduler(t) \/ \E x \in Handles : xTaskAbortDelay(t, x)
  PROVE  OnTime(os') /\ CountStep
<1>1. os \in Kernel
  BY IInvFacts
<1>2. SUFFICES Quiet(os, os')
  BY QuietStep
<1>3. CASE ResumeThenYield(t) \/ ResumeThenReturn(t) \/ ResumeScheduler(t)
  <2>1. os.stage = "run" /\ os' = xTaskResumeAll(os)
    BY <1>3 DEF ResumeThenYield, ResumeThenReturn, ResumeScheduler, At, MayCall,
                Running
  <2>2. QED BY <1>1, <2>1, ResumeAllQuiet
<1>4. CASE YieldUnlessYielded(t)
  <2> DEFINE q == [os EXCEPT !.yielded[t] = FALSE]
  <2>1. q \in Kernel /\ Quiet(os, q)
    BY <1>1, ZenonT(60) DEF Kernel, Quiet, SameClock
  <2>2. os' = YieldIf(q, ~os.yielded[t])
    BY <1>4 DEF YieldUnlessYielded
  <2> HIDE DEF q
  <2>3. QED BY <2>1, <2>2, QuietFunctions, QuietTransitive
<1>5. CASE taskYIELD(t)
  BY <1>1, <1>5, QuietFunctions DEF taskYIELD
<1>6. CASE SuspendYields(t)
  BY <1>1, <1>6, QuietFunctions DEF SuspendYields
<1>7. CASE CreateYields(t)
  <2>1. \E c : os' = YieldIf(os, c)
    BY <1>7 DEF CreateYields
  <2>2. QED BY <1>1, <2>1, QuietFunctions
<1>8. CASE DeleteYields(t)
  <2> DEFINE q == configASSERT(os, os.suspended = 0)
  <2>1. Quiet(os, q)
    BY <1>1, QuietFunctions
  <2>2. q \in Kernel
    <3>1. (os.suspended = 0) \in BOOLEAN
      OBVIOUS
    <3>2. QED BY <3>1, AssertGood, IInvFacts DEF Good
  <2>3. os' = portYIELD(q)
    BY <1>8 DEF DeleteYields
  <2> HIDE DEF q
  <2>4. QED BY <2>1, <2>2, <2>3, QuietFunctions, QuietTransitive
<1>9. CASE DeleteFrees(t)
  BY <1>1, <1>9, QuietFunctions DEF DeleteFrees
<1>10. CASE \E n \in DelayTicks : vTaskDelay(t, n)
  <2>1. os' = vTaskSuspendAll(os) \/ os' = portYIELD(os)
    BY <1>10 DEF vTaskDelay
  <2>2. QED BY <1>1, <2>1, QuietFunctions
<1>11. CASE \E n \in Periods : xTaskDelayUntil(t, n)
  BY <1>1, <1>11, QuietFunctions DEF xTaskDelayUntil
<1>12. CASE SuspendScheduler(t) \/ \E x \in Handles : xTaskAbortDelay(t, x)
  BY <1>1, <1>12, QuietFunctions DEF SuspendScheduler, xTaskAbortDelay
<1>13. QED BY <1>3, <1>4, <1>5, <1>6, <1>7, <1>8, <1>9, <1>10, <1>11, <1>12

LEMMA IdleYieldsTimed ==
  ASSUME IInv, OnTime(os), IdleYields
  PROVE  OnTime(os') /\ CountStep
BY IInvFacts, QuietFunctions, QuietStep DEF IdleYields

LEMMA ContextSwitchTimed ==
  ASSUME IInv, OnTime(os), ContextSwitch
  PROVE  OnTime(os') /\ CountStep
<1> DEFINE q == [os EXCEPT !.pendSV = FALSE]
<1>1. q \in Kernel /\ Quiet(os, q)
  BY IInvFacts, ZenonT(60) DEF Kernel, Quiet, SameClock
<1>2. os' = vTaskSwitchContext(q)
  BY DEF ContextSwitch
<1> HIDE DEF q
<1>3. Quiet(os, os')
  BY <1>1, <1>2, SwitchContextQuiet, QuietTransitive
<1>4. QED BY <1>3, QuietStep

LEMMA TickStep ==
  ASSUME OnTime(os'), Left(os') = LeftAfterTick(os)
  PROVE  OnTime(os') /\ CountStep
<1>1. Blocking!Tick
  BY TicksLeftIsLeft DEF Blocking!Tick, LeftAfterTick
<1>2. QED BY <1>1 DEF CountStep

LEMMA TickTimed ==
  ASSUME IInv, OnTime(os), TickISR
  PROVE  OnTime(os') /\ CountStep
<1>1. os \in Kernel /\ Sound(os) /\ os.running /\ os.stage = "run"
  BY IInvFacts DEF TickISR, InterruptsEnabled
<1>2. CASE os.suspended = 0
  <2>1. os' = IncrementTick(os, "unblockISR")
    BY <1>2 DEF TickISR
  <2>2. "unblockISR" \in Unblocking /\ os.stage \notin Unblocking
    BY <1>1 DEF Unblocking
  <2>3. QED BY <1>1, <2>1, <2>2, TickKeeps, TickStep
<1>3. CASE os.suspended # 0
  <2>1. os' = [os EXCEPT !.pendedTicks = @ + 1]
    BY <1>3 DEF TickISR
  <2>2. Quiet(os, os')
    BY <1>1, <2>1 DEF Kernel, Quiet, SameClock
  <2>3. QED BY <2>2, QuietStep
<1>4. QED BY <1>2, <1>3

LEMMA PendingReadyFrame ==
  ASSUME NEW k, Good(k), ~IsEmpty(k, xPendingReadyList)
  PROVE  LET r == MovePendingReady(k)
             t == HeadOf(k, xPendingReadyList)
         IN  /\ t \in Tasks /\ Untimed(k, r, t)
             /\ k.stateList[t] # NoList => r.fault = k.fault
<1> DEFINE t  == HeadOf(k, xPendingReadyList)
           k1 == RemoveEvent(k, t)
           k2 == RemoveState(k1, t)
           k3 == prvAddTaskToReadyList(k2, t)
           k4 == [k3 EXCEPT !.moved = TRUE]
           r  == MovePendingReady(k)
<1>1. t \in Tasks /\ k.eventList[t] = xPendingReadyList
  BY ListNames, HeadIsLinked DEF Lists
<1>2. r = PendYieldIf(k4, k.prio[t] > k.prio[k.current])
  BY DEF MovePendingReady
<1> HIDE DEF t
<1>3. xPendingReadyList # NoList /\ xPendingReadyList \in ItemLists
  BY ListNames DEF Lists
<1>4. Frame(k, k1, t) /\ Good(k1) /\ k1.stateList = k.stateList /\ k1.fault = k.fault
  BY <1>1, <1>3, EventFrame, RemoveEventGood
<1> HIDE DEF k1
<1>5. /\ Frame(k1, k2, t) /\ Good(k2) /\ k2.stateList[t] = NoList
      /\ k.stateList[t] # NoList => k2.fault = k.fault
  BY <1>1, <1>4, RemoveStateUnlinks
<1> HIDE DEF k2
<1>6. Frame(k2, k3, t) /\ k3 \in Kernel /\ k3.fault = k2.fault
  BY <1>1, <1>5, ReadyFrame, ReadyGood DEF Good
<1> HIDE DEF k3
<1>7. Frame(k, k3, t)
  BY <1>1, <1>4, <1>5, <1>6, FrameTransitive
<1>8. k4 \in Kernel /\ Quiet(k3, k4) /\ k4.fault = k3.fault
  BY <1>6, ZenonT(60) DEF Kernel, Quiet, SameClock
<1> HIDE DEF k4, r
<1>9. Quiet(k4, r) /\ r.fault = k4.fault
  BY <1>2, <1>8 DEF Kernel, Quiet, SameClock, PendYieldIf
<1>10. Untimed(k, r, t)
  <2>1. Untimed(k, k3, t) /\ Untimed(k3, k4, t) /\ Untimed(k4, r, t)
    BY <1>1, <1>7, <1>8, <1>9, FrameUntimed, QuietUntimed
  <2>2. QED BY <1>1, <2>1, UntimedTransitive
<1>11. QED BY <1>1, <1>5, <1>6, <1>8, <1>9, <1>10 DEF r, t

LEMMA MaskedTimed ==
  ASSUME IInv, IInv', OnTime(os), MaskedStep
  PROVE  OnTime(os') /\ CountStep
<1>1. os \in Kernel /\ Good(os) /\ Sound(os)
  BY IInvFacts
<1>2. CASE DrainPendingReady
  BY <1>1, <1>2, PendingReadyFrame, UntimedStep DEF DrainPendingReady
<1>3. CASE FinishPendingReady
  BY <1>1, <1>3, EndPendingReadyKeeps, SameTimeStep DEF FinishPendingReady
<1>4. CASE ProcessPendedTick
  <2>1. os' = IncrementTick(os, "unblock") /\ os.stage = "ticks"
    BY <1>4 DEF ProcessPendedTick
  <2>2. os.running
    BY <2>1, StageFacts DEF Loops
  <2>3. "unblock" \in Unblocking /\ os.stage \notin Unblocking
    BY <2>1 DEF Unblocking
  <2>4. QED BY <1>1, <2>1, <2>2, <2>3, TickKeeps, TickStep
<1>5. CASE FinishResumeAll
  BY <1>1, <1>5, EndResumeAllQuiet, QuietStep DEF FinishResumeAll
<1>6. CASE UnblockDelayed
  <2>1. os' = UnblockExpired(os) /\ os.stage \in Unblocking
    BY <1>6 DEF UnblockDelayed, Unblocking
  <2>2. os.running /\ os.current \in Tasks
    BY <2>1, StageFacts DEF Unblocking, Loops
  <2>3. /\ OnTime(os')
        /\ \/ Left(os') = Left(os)
           \/ \E t \in Tasks : Left(os') = [Left(os) EXCEPT ![t] = 0]
    BY <1>1, <2>1, <2>2, UnblockKeeps
  <2>4. CountStep
    BY <2>3, TicksLeftIsLeft DEF CountStep, Blocking!Release
  <2>5. QED BY <2>3, <2>4
<1>7. QED BY <1>2, <1>3, <1>4, <1>5, <1>6 DEF MaskedStep

LEMMA BlockStep ==
  ASSUME os \in Kernel, OnTime(os'), NEW t \in Tasks, NEW n \in Ticks, n > 0,
         Left(os') = [Left(os) EXCEPT ![t] = n],
         os.stateList[t] \notin DelayedLists
  PROVE  CountStep
<1>1. Left(os)[t] = 0
  BY TwoDelayedLists DEF Left
<1>2. n \in 1..portMAX_DELAY
  BY TasksAssumption DEF Ticks
<1>3. Blocking!Block
  BY <1>1, <1>2, TicksLeftIsLeft DEF Blocking!Block
<1>4. QED BY <1>3 DEF CountStep

\* A task that blocks is given the time it asked for, if it waits for no other.
LEMMA DelayTimed ==
  ASSUME IInv, OnTime(os), DelaysTimed, NEW t \in Tasks,
         DelayBlocks(t) \/ DelayUntilBlocks(t)
  PROVE  OnTime(os') /\ (os.stateList[t] \notin DelayedLists => CountStep)
<1>1. /\ os \in Kernel /\ Sound(os) /\ ticks \in [Tasks -> Ticks]
      /\ lastWake \in [Tasks -> Ticks]
  BY IInvFacts
<1>2. Running(t) /\ os.running /\ os.stage = "run" /\ os.current = t
  BY RunningFacts DEF DelayBlocks, DelayUntilBlocks, At
<1>3. os.stage \notin Unblocking
  BY <1>2 DEF Unblocking
<1>4. ASSUME NEW n \in Ticks, n > 0, os' = prvAddCurrentTaskToDelayedList(os, n, FALSE)
      PROVE  OnTime(os') /\ (os.stateList[t] \notin DelayedLists => CountStep)
  <2>1. OnTime(os') /\ Left(os') = [Left(os) EXCEPT ![t] = n]
    BY <1>1, <1>2, <1>3, <1>4, DelayKeeps
  <2>2. QED BY <1>1, <1>4, <2>1, BlockStep
<1>5. CASE DelayBlocks(t)
  <2>1. ticks[t] \in Ticks /\ ticks[t] > 0
    BY <1>1, <1>5 DEF DelayBlocks, At, DelaysTimed
  <2>2. os' = prvAddCurrentTaskToDelayedList(os, ticks[t], FALSE)
    BY <1>5 DEF DelayBlocks
  <2>3. QED BY <1>4, <2>1, <2>2
<1>6. CASE DelayUntilBlocks(t)
  <2> DEFINE wake == WrappingAdd(lastWake[t], ticks[t])
             n    == WrappingSub(wake, os.tick)
  <2>1. /\ lastWake[t] \in Ticks /\ ticks[t] \in Ticks /\ os.tick \in Ticks
        /\ Ticks \subseteq Int
    BY <1>1 DEF Kernel, Ticks
  <2>2. wake \in Ticks
    BY <2>1, WrappingAddTicks
  <2>3. os' = IF WakeIsAhead(os.tick, lastWake[t], wake)
                THEN prvAddCurrentTaskToDelayedList(os, n, FALSE)
                ELSE os
    BY <1>6 DEF DelayUntilBlocks
  <2> HIDE DEF wake
  <2>4. n \in Ticks
    BY <2>1, <2>2, WrappingAddTicks
  <2>5. CASE WakeIsAhead(os.tick, lastWake[t], wake)
    <3>1. wake # os.tick
      <4>1. wake \in Int /\ os.tick \in Int /\ lastWake[t] \in Int
        BY <2>1, <2>2
      <4>2. QED BY <2>5, <4>1 DEF WakeIsAhead
    <3>2. n > 0
      BY <2>1, <2>2, <3>1, TasksAssumption DEF WrappingSub, Ticks
    <3> HIDE DEF n
    <3>3. QED BY <1>4, <2>3, <2>4, <2>5, <3>2
  <2>6. CASE ~WakeIsAhead(os.tick, lastWake[t], wake)
    BY <1>1, <2>3, <2>6, QuietFunctions, QuietStep
  <2>7. QED BY <2>5, <2>6
<1>7. QED BY <1>5, <1>6
-----------------------------------------------------------------------------
(* The actions that link and unlink tasks.                                 *)

LEMMA SuspendTimed ==
  ASSUME IInv, IInv', OnTime(os), NEW t \in Tasks, NEW x \in Handles,
         vTaskSuspend(t, x)
  PROVE  OnTime(os') /\ CountStep
<1> DEFINE u == RemoveEventIfLinked(RemoveState(os, x), x)
           a == AppendState(u, xSuspendedTaskList, x)
<1>1. x \in Tasks /\ Good(os)
  BY IInvFacts DEF Handles
<1>2. os' = StopWaitingForNotification(a, x)
  BY DEF vTaskSuspend
<1>3. Frame(os, u, x) /\ Good(u) /\ u.stateList[x] = NoList
  BY <1>1, UnlinkFrame
<1> HIDE DEF u
<1>4. xSuspendedTaskList \in StateLists /\ xSuspendedTaskList \notin DelayedLists
  BY ListNames, DelayedListNames
<1>5. Frame(u, a, x) /\ a \in Kernel
  BY <1>1, <1>3, <1>4, AppendStateFrame, AppendStateGood DEF StateLinked, Good
<1> HIDE DEF a
<1>6. Quiet(a, os')
  BY <1>2, <1>5 DEF StopWaitingForNotification, Kernel, Quiet, SameClock
<1>7. Untimed(os, os', x)
  <2>1. Untimed(os, a, x) /\ Untimed(a, os', x)
    BY <1>1, <1>3, <1>5, <1>6, FrameTransitive, FrameUntimed, QuietUntimed
  <2>2. QED BY <1>1, <2>1, UntimedTransitive
<1>8. QED BY <1>1, <1>7, UntimedStep

LEMMA SuspendResetTimed ==
  ASSUME IInv, OnTime(os), NEW t \in Tasks, SuspendResetsUnblockTime(t)
  PROVE  OnTime(os') /\ CountStep
BY IInvFacts, ResetKeeps, SameTimeStep DEF SuspendResetsUnblockTime

\* A task is moved to its ready list.
LEMMA MoveToReadyFrame ==
  ASSUME NEW k, Good(k), NEW t \in Tasks
  PROVE  LET r == prvAddTaskToReadyList(RemoveState(k, t), t)
         IN  /\ Frame(k, r, t) /\ r \in Kernel
             /\ k.stateList[t] # NoList => r.fault = k.fault
<1> DEFINE q == RemoveState(k, t)
           r == prvAddTaskToReadyList(q, t)
<1>1. /\ Good(q) /\ Frame(k, q, t) /\ q.stateList[t] = NoList
      /\ k.stateList[t] # NoList => q.fault = k.fault
  BY RemoveStateUnlinks
<1> HIDE DEF q
<1>2. Frame(q, r, t) /\ r \in Kernel /\ r.fault = q.fault
  BY <1>1, ReadyFrame, ReadyGood DEF Good
<1> HIDE DEF r
<1>3. Frame(k, r, t)
  BY <1>1, <1>2, FrameTransitive
<1>4. QED BY <1>1, <1>2, <1>3 DEF q, r

LEMMA ResumeTimed ==
  ASSUME IInv, IInv', OnTime(os), NEW x \in Handles,
         (\E t \in Tasks : vTaskResume(t, x)) \/ xTaskResumeFromISR(x)
  PROVE  OnTime(os') /\ CountStep
<1>1. x \in Tasks /\ Good(os) /\ os \in Kernel
  BY IInvFacts DEF Handles
<1>2. SUFFICES Untimed(os, os', x)
  BY <1>1, UntimedStep
<1>3. ASSUME NEW k \in Kernel, Good(k), Quiet(os, k), NEW c,
             os' = YieldIf(prvAddTaskToReadyList(RemoveState(k, x), x), c)
      PROVE  Untimed(os, os', x)
  <2> DEFINE r == prvAddTaskToReadyList(RemoveState(k, x), x)
  <2>1. Frame(k, r, x) /\ r \in Kernel
    BY <1>1, <1>3, MoveToReadyFrame
  <2> HIDE DEF r
  <2>2. Quiet(r, os')
    BY <1>3, <2>1, QuietFunctions DEF r
  <2>3. Untimed(os, k, x) /\ Untimed(k, r, x) /\ Untimed(r, os', x)
    BY <1>1, <1>3, <2>1, <2>2, FrameUntimed, QuietUntimed
  <2>4. QED BY <1>1, <2>3, UntimedTransitive
<1>4. CASE \E t \in Tasks : vTaskResume(t, x)
  <2>1. os' = YieldIf(prvAddTaskToReadyList(RemoveState(os, x), x),
                      os.prio[x] > os.prio[os.current])
    BY <1>4 DEF vTaskResume
  <2>2. QED BY <1>1, <1>3, <2>1, QuietFunctions
<1>5. CASE xTaskResumeFromISR(x)
  <2> DEFINE higher == os.prio[x] > os.prio[os.current]
             k      == PendYieldIf(os, higher)
  <2>1. CASE os.suspended = 0
    <3>1. PICK c : os' = YieldIf(prvAddTaskToReadyList(RemoveState(k, x), x), c)
      BY <1>5, <2>1 DEF xTaskResumeFromISR
    <3>2. higher \in BOOLEAN /\ Sound(os)
      <4>1. os.running
        BY <1>5 DEF xTaskResumeFromISR, InterruptsEnabled
      <4>2. os.current \in Tasks
        BY <4>1, StageFacts
      <4>3. QED BY <1>1, <4>2, PriorityComparison, IInvFacts
    <3> HIDE DEF higher
    <3>3. Sound(k) /\ Quiet(os, k)
      BY <1>1, <3>2, YieldSound, QuietFunctions
    <3> HIDE DEF k
    <3>4. QED BY <1>3, <3>1, <3>3 DEF Sound, Good
  <2>2. CASE os.suspended # 0
    <3>1. os' = AppendEvent(os, xPendingReadyList, x)
      BY <1>5, <2>2 DEF xTaskResumeFromISR
    <3>2. Frame(os, os', x)
      BY <1>1, <3>1, ListNames, EventFrame
    <3>3. QED BY <1>1, <3>2, FrameUntimed
  <2>3. QED BY <2>1, <2>2
<1>6. QED BY <1>4, <1>5

LEMMA PrioritySetTimed ==
  ASSUME IInv, IInv', OnTime(os), NEW t \in Tasks, NEW x \in Handles,
         NEW p \in NewPriorities, vTaskPrioritySet(t, x, p)
  PROVE  OnTime(os') /\ CountStep
<1> DEFINE e == IF os.basePrio[x] = os.prio[x] \/ p > os.prio[x]
                  THEN p ELSE os.prio[x]
           v == configMAX_PRIORITIES - p
           q == [os EXCEPT !.prio[x] = e, !.basePrio[x] = p, !.eventValue[x] = v]
           m == IF IsReady(os, x) THEN prvAddTaskToReadyList(RemoveState(q, x), x)
                                  ELSE q
<1>1. x \in Tasks /\ Good(os) /\ os \in Kernel
  BY IInvFacts DEF Handles
<1>2. PICK c : os' = YieldIf(m, c)
  BY DEF vTaskPrioritySet
<1>3. p \in Priorities /\ e \in Priorities /\ v \in 1..configMAX_PRIORITIES
  <2>1. p \in Priorities /\ os.prio[x] \in Priorities
    BY <1>1, SchedulerAssumption DEF Kernel
  <2>2. QED BY <2>1, TasksAssumption DEF Priorities
<1> HIDE DEF e, v
<1>4. q \in Kernel
  BY <1>1, <1>3, ZenonT(60) DEF Kernel
<1>5. Quiet(os, q) /\ SameLinks(os, q)
  BY <1>1 DEF Kernel, Quiet, SameClock, SameLinks
<1> HIDE DEF q
<1>6. Good(q)
  BY <1>1, <1>4, <1>5, SameLinksConsistent DEF Good
<1>7. Untimed(q, m, x) /\ m \in Kernel
  BY <1>1, <1>4, <1>6, MoveToReadyFrame, FrameUntimed, QuietFunctions, QuietUntimed
<1> HIDE DEF m
<1>8. Quiet(m, os')
  BY <1>2, <1>7, QuietFunctions
<1>9. Untimed(os, q, x) /\ Untimed(m, os', x)
  BY <1>1, <1>5, <1>8, QuietUntimed
<1>10. Untimed(os, os', x)
  BY <1>1, <1>7, <1>9, UntimedTransitive
<1>11. QED BY <1>1, <1>10, UntimedStep

LEMMA AbortUnlinksTimed ==
  ASSUME IInv, IInv', OnTime(os), NEW t \in Tasks, AbortUnlinksState(t)
  PROVE  OnTime(os') /\ CountStep
<1>1. target[t] \in Tasks /\ Good(os) /\ os \in Kernel
  BY IInvFacts
<1>2. os' = RemoveState(os, target[t]) \/ os' = os
  BY DEF AbortUnlinksState
<1>3. Untimed(os, os', target[t])
  BY <1>1, <1>2, RemoveStateFrame, FrameUntimed, QuietFunctions, QuietUntimed
<1>4. QED BY <1>1, <1>3, UntimedStep

LEMMA AbortReadyTimed ==
  ASSUME IInv, IInv', OnTime(os), NEW t \in Tasks, AbortMakesReady(t)
  PROVE  OnTime(os') /\ CountStep
<1> DEFINE x == target[t]
           q == RemoveEvent(os, x)
           a == IF os.eventList[x] = NoList THEN os
                ELSE [q EXCEPT !.delayAborted[x] = TRUE]
           r == prvAddTaskToReadyList(a, x)
<1>1. x \in Tasks /\ Good(os) /\ os \in Kernel /\ os.stateList[x] = NoList
  BY IInvFacts DEF AbortMakesReady, At, IInv, CallsValid
<1>2. PICK c : os' = PendYieldIf(r, c)
  BY DEF AbortMakesReady
<1> HIDE DEF x
<1>3. Good(q) /\ Frame(os, q, x) /\ q.stateList = os.stateList
  BY <1>1, RemoveEventGood, EventFrame, ListNames
<1> HIDE DEF q
<1>4. Good(a) /\ Untimed(os, a, x) /\ a.stateList[x] = NoList
  <2>1. CASE os.eventList[x] = NoList
    BY <2>1, <1>1, QuietFunctions, QuietUntimed
  <2>2. CASE os.eventList[x] # NoList
    <3>1. PICK b : b = [q EXCEPT !.delayAborted[x] = TRUE]
      OBVIOUS
    <3>2. b \in Kernel
      BY <1>3, <3>1, ZenonT(60) DEF Good, Kernel
    <3>3. Quiet(q, b) /\ SameLinks(q, b)
      BY <1>3, <3>1 DEF Good, Kernel, Quiet, SameClock, SameLinks
    <3>4. Good(b)
      BY <1>3, <3>2, <3>3, SameLinksConsistent DEF Good
    <3>5. Untimed(os, b, x)
      BY <1>1, <1>3, <3>3, FrameUntimed, QuietUntimed, UntimedTransitive
    <3>6. QED BY <1>1, <1>3, <2>2, <3>1, <3>3, <3>4, <3>5 DEF SameLinks
  <2>3. QED BY <2>1, <2>2
<1> HIDE DEF a
<1>5. r \in Kernel /\ Untimed(a, r, x)
  BY <1>1, <1>4, ReadyGood, ReadyFrame, FrameUntimed DEF Good
<1> HIDE DEF r
<1>6. Untimed(r, os', x)
  BY <1>1, <1>2, <1>5, QuietFunctions, QuietUntimed
<1>7. Untimed(os, os', x)
  BY <1>1, <1>4, <1>5, <1>6, UntimedTransitive
<1>8. QED BY <1>1, <1>7, UntimedStep

LEMMA CreateUntimed ==
  ASSUME IInv, NEW x \in Tasks, pc[x] = "none", NEW p \in Priorities
  PROVE  LET r == prvAddNewTaskToReadyList(prvInitialiseNewTask(os, x, p), x)
         IN  Untimed(os, r, x) /\ r \in Kernel /\ r.fault = os.fault
<1> DEFINE q == prvInitialiseNewTask(os, x, p)
           r == prvAddNewTaskToReadyList(q, x)
<1>1. /\ os \in Kernel /\ Sound(os)
      /\ os.stateList[x] = NoList /\ os.eventList[x] = NoList
  BY IInvFacts DEF IInv, DeadUnlinked, Dead
<1>2. Sound(q) /\ q.stateList = os.stateList /\ q.running = os.running
      /\ q.stage = os.stage
  BY <1>1, InitialiseNewTaskSound
<1>3. q.lists = os.lists /\ q.wake = os.wake /\ SameClock(os, q) /\ q.fault = os.fault
  BY <1>1 DEF prvInitialiseNewTask, Kernel, SameClock
<1> HIDE DEF q
<1>4. Quiet(os, q)
  BY <1>2, <1>3 DEF Quiet
<1>5. PICK c, n : /\ c \in {q.current, x} /\ n = q.numTasks + 1
                  /\ r = prvAddTaskToReadyList(
                           [q EXCEPT !.numTasks = n, !.current = c], x)
  BY DEF prvAddNewTaskToReadyList
<1>6. PICK b : b = [q EXCEPT !.numTasks = n, !.current = c]
  OBVIOUS
<1>7. q \in Kernel /\ Good(q)
  BY <1>2 DEF Sound, Good
<1>8. b \in Kernel
  <2>1. n \in Int /\ c \in Tasks \cup {NoTask}
    BY <1>5, <1>7 DEF Kernel
  <2>2. QED BY <1>6, <1>7, <2>1, ZenonT(60) DEF Kernel
<1>9. Quiet(q, b) /\ SameLinks(q, b) /\ b.fault = q.fault
  BY <1>6, <1>7 DEF Kernel, Quiet, SameClock, SameLinks
<1>10. Good(b) /\ b.stateList[x] = NoList
  BY <1>1, <1>2, <1>7, <1>8, <1>9, SameLinksConsistent DEF Good, SameLinks
<1>11. r = prvAddTaskToReadyList(b, x)
  BY <1>5, <1>6
<1> HIDE DEF r
<1>12. r \in Kernel /\ Frame(b, r, x) /\ r.fault = b.fault
  BY <1>10, <1>11, ReadyGood, ReadyFrame DEF Good
<1>13. Untimed(os, q, x) /\ Untimed(q, b, x) /\ Untimed(b, r, x)
  BY <1>4, <1>9, <1>12, QuietUntimed, FrameUntimed
<1>14. QED BY <1>3, <1>9, <1>12, <1>13, UntimedTransitive DEF q, r

LEMMA CreateTimed ==
  ASSUME IInv, IInv', OnTime(os), NEW x \in Tasks, NEW p \in InitialPriorities,
         CreateBeforeStart(x, p) \/ \E t \in Tasks : xTaskCreate(t, x, p)
  PROVE  OnTime(os') /\ CountStep
<1>1. p \in Priorities
  BY SchedulerAssumption
<1>2. pc[x] = "none"
      /\ os' = prvAddNewTaskToReadyList(prvInitialiseNewTask(os, x, p), x)
  BY DEF CreateBeforeStart, xTaskCreate
<1>3. QED BY <1>1, <1>2, CreateUntimed, UntimedStep

\* No task is delayed when the scheduler starts.
LEMMA StartTimed ==
  ASSUME IInv, OnTime(os), vTaskStartScheduler
  PROVE  OnTime(os') /\ CountStep
<1> DEFINE r == prvCreateIdleTasks(os)
<1>1. ~os.running /\ pc[Idle] = "none" /\ Idle \in Tasks /\ 0 \in Priorities
  BY TasksAssumption DEF vTaskStartScheduler, IInv, ControlValid, Priorities
<1>2. os' = [r EXCEPT !.nextUnblock = portMAX_DELAY, !.running = TRUE,
                      !.tick = configINITIAL_TICK_COUNT]
  BY DEF vTaskStartScheduler
<1>3. Untimed(os, r, Idle) /\ r \in Kernel
  BY <1>1, CreateUntimed DEF prvCreateIdleTasks
<1> HIDE DEF r
<1>4. OnTime(r) /\ os \in Kernel
  BY <1>1, <1>3, IInvFacts, UntimedKeeps
<1>5. \A t \in Tasks : os.stateList[t] \notin DelayedLists
                       /\ r.stateList[t] \notin DelayedLists
  BY <1>1, <1>3, <1>4 DEF OnTime, Untimed
<1>6. /\ os'.lists = r.lists /\ os'.stateList = r.stateList /\ os'.wake = r.wake
      /\ os'.delayed = r.delayed /\ os'.running
  BY <1>2, <1>3 DEF Kernel
<1>7. pxOverflowDelayedTaskList(os') = pxOverflowDelayedTaskList(r)
  BY <1>6 DEF pxOverflowDelayedTaskList
<1>8. r.delayed \in DelayedLists /\ pxOverflowDelayedTaskList(r) \in DelayedLists
      /\ os.delayed \in DelayedLists /\ pxOverflowDelayedTaskList(os) \in DelayedLists
  BY <1>3, <1>4, TwoDelayedLists
<1>9. OnTime(os')
  BY <1>4, <1>5, <1>6, <1>7, <1>8 DEF OnTime, SortedByWake
<1>10. Left(os) = [t \in Tasks |-> 0] /\ Left(os') = [t \in Tasks |-> 0]
  BY <1>5, <1>6, <1>7, <1>8 DEF Left
<1>11. QED BY <1>9, <1>10, SameTimeStep

LEMMA DeleteTimed ==
  ASSUME IInv, IInv', OnTime(os), NEW t \in Tasks, NEW x \in Handles,
         vTaskDelete(t, x)
  PROVE  OnTime(os') /\ CountStep
<1> DEFINE u == RemoveEventIfLinked(RemoveState(os, x), x)
<1>1. x \in Tasks /\ Good(os) /\ os \in Kernel /\ os' \in Kernel
  BY IInvFacts DEF Handles, IInv, Sound, Good
<1>2. Frame(os, u, x) /\ Good(u) /\ u.stateList[x] = NoList
  BY <1>1, UnlinkFrame
<1>3. CASE x = os.current
  <2> DEFINE a == AppendState(u, xTasksWaitingTermination, x)
  <2>1. os' = [a EXCEPT !.numDeleted = @ + 1, !.yieldPending = TRUE]
    BY <1>3 DEF vTaskDelete
  <2> HIDE DEF u
  <2>2. /\ xTasksWaitingTermination \in StateLists
        /\ xTasksWaitingTermination \notin DelayedLists
    BY ListNames, DelayedListNames
  <2>3. Frame(u, a, x) /\ a \in Kernel
    BY <1>1, <1>2, <2>2, AppendStateFrame, AppendStateGood DEF StateLinked, Good
  <2> HIDE DEF a
  <2>4. Quiet(a, os')
    BY <2>1, <2>3 DEF Kernel, Quiet, SameClock
  <2>5. Untimed(os, a, x) /\ Untimed(a, os', x)
    BY <1>1, <1>2, <2>3, <2>4, FrameTransitive, FrameUntimed, QuietUntimed
  <2>6. Untimed(os, os', x)
    BY <1>1, <2>5, UntimedTransitive
  <2>7. QED BY <1>1, <2>6, UntimedStep
<1>4. CASE x # os.current
  <2> DEFINE q == [u EXCEPT !.numTasks = @ - 1]
  <2>1. os' = prvResetNextTaskUnblockTime(q)
    BY <1>4 DEF vTaskDelete
  <2> HIDE DEF u
  <2>2. q \in Kernel
    <3>1. u.numTasks - 1 \in Int
      BY <1>2 DEF Good, Kernel
    <3>2. QED BY <1>2, <3>1, ZenonT(60) DEF Good, Kernel
  <2>3. Quiet(u, q) /\ SameLinks(u, q)
    BY <1>2 DEF Good, Kernel, Quiet, SameClock, SameLinks
  <2> HIDE DEF q
  <2>4. Good(q)
    BY <1>2, <2>2, <2>3, SameLinksConsistent DEF Good
  <2>5. Untimed(os, q, x)
    BY <1>1, <1>2, <2>3, FrameUntimed, QuietUntimed, UntimedTransitive
  <2>6. /\ OnTime(q)
        /\ Left(q) = Left(os) \/ Left(q) = [Left(os) EXCEPT ![x] = 0]
    BY <1>1, <2>2, <2>5, UntimedKeeps
  <2>7. OnTime(os') /\ Left(os') = Left(q)
    BY <2>1, <2>4, <2>6, ResetKeeps
  <2>8. CountStep
    BY <1>1, <2>6, <2>7, TicksLeftIsLeft DEF CountStep, Blocking!Release
  <2>9. QED BY <2>7, <2>8
<1>5. QED BY <1>3, <1>4

LEMMA TerminationTimed ==
  ASSUME IInv, IInv', OnTime(os), prvCheckTasksWaitingTermination
  PROVE  OnTime(os') /\ CountStep
<1> DEFINE x == HeadOf(os, xTasksWaitingTermination)
           a == RemoveState(os, x)
<1>1. os' = [a EXCEPT !.numTasks = @ - 1, !.numDeleted = @ - 1]
  BY DEF prvCheckTasksWaitingTermination
<1>2. x \in Tasks
  <2>1. os.numDeleted > 0 /\ os.numDeleted \in Int /\ os.numDeleted <= Ending(os)
    BY IInvFacts DEF prvCheckTasksWaitingTermination, IInv, ControlValid, Kernel
  <2>2. xTasksWaitingTermination \in Lists
    BY ListNames DEF Lists
  <2>3. Ending(os) \in Int
    BY <2>2, IInvFacts DEF Ending, LengthOf, Kernel, ListOf
  <2>4. ~IsEmpty(os, xTasksWaitingTermination)
    BY <2>1, <2>3 DEF Ending, LengthOf, IsEmpty, listLIST_IS_EMPTY
  <2>5. QED BY <2>2, <2>4, IInvFacts, HeadIsLinked
<1> HIDE DEF x
<1>3. Frame(os, a, x) /\ a \in Kernel
  BY <1>2, IInvFacts, RemoveStateFrame, RemoveStateGood DEF Good
<1> HIDE DEF a
<1>4. Quiet(a, os')
  BY <1>1, <1>3 DEF Kernel, Quiet, SameClock
<1>5. Untimed(os, os', x)
  BY <1>2, <1>3, <1>4, FrameUntimed, QuietUntimed, UntimedTransitive
<1>6. QED BY <1>2, <1>5, UntimedStep
-----------------------------------------------------------------------------
(* The theorem.                                                            *)

\* No task blocks that is in a delayed list already: what NextTimed needs for the
\* steps to be those of BlockingTime.
BlocksOnce ==
  \A t \in Tasks :
    At(t, "delay") \/ At(t, "delayUntil") => os.stateList[t] \notin DelayedLists

LEMMA InitTimed == SchedulerInit => OnTime(os) /\ DelaysTimed
<1> SUFFICES ASSUME SchedulerInit PROVE OnTime(os) /\ DelaysTimed
  OBVIOUS
<1>1. /\ os.lists = [l \in Lists |-> vListInitialise]
      /\ os.stateList = [t \in Tasks |-> NoList]
      /\ os.delayed = xDelayedTaskList1 /\ ~os.running
  BY DEF SchedulerInit, KernelInit
<1>2. os \in Kernel
  BY InitIInv, IInvFacts
<1>3. \A l \in DelayedLists : os.lists[l].items = << >>
  BY <1>1, DelayedListNames DEF vListInitialise
<1>4. \A l \in DelayedLists : SortedByWake(os, l)
  BY <1>3 DEF SortedByWake
<1>5. os.delayed \in DelayedLists /\ pxOverflowDelayedTaskList(os) \in DelayedLists
  BY <1>2, TwoDelayedLists
<1>6. \A t \in Tasks : os.stateList[t] \notin DelayedLists
  BY <1>1, DelayedListNames
<1>7. OnTime(os)
  BY <1>4, <1>5, <1>6 DEF OnTime
<1>8. DelaysTimed
  BY DEF SchedulerInit, DelaysTimed
<1>9. QED BY <1>7, <1>8

LEMMA NextTimed ==
  ASSUME IInv, IInv', OnTime(os), DelaysTimed, [SchedulerNext]_vars
  PROVE  OnTime(os') /\ (BlocksOnce => CountStep)
<1>1. CASE Start
  BY <1>1, CreateTimed, StartTimed DEF Start
<1>2. CASE Interrupt
  BY <1>2, TickTimed, ResumeTimed DEF Interrupt
<1>3. CASE ContextSwitch
  BY <1>3, ContextSwitchTimed
<1>4. CASE MaskedStep
  BY <1>4, MaskedTimed
<1>5. CASE IdleStep
  BY <1>5, TerminationTimed, IdleYieldsTimed DEF IdleStep
<1>6. ASSUME NEW t \in Tasks, Call(t) PROVE OnTime(os') /\ CountStep
  <2>1. CASE \/ \E n \in DelayTicks : vTaskDelay(t, n)
             \/ \E n \in Periods : xTaskDelayUntil(t, n)
             \/ SuspendScheduler(t) \/ ResumeScheduler(t) \/ taskYIELD(t)
             \/ \E x \in Handles : xTaskAbortDelay(t, x)
    BY <2>1, QuietActions
  <2>2. CASE \E x \in Handles : vTaskSuspend(t, x)
    BY <2>2, SuspendTimed
  <2>3. CASE \E x \in Handles : vTaskResume(t, x)
    BY <2>3, ResumeTimed
  <2>4. CASE \E x \in Handles : vTaskDelete(t, x)
    BY <2>4, DeleteTimed
  <2>5. CASE \E x \in Handles : \E p \in NewPriorities : vTaskPrioritySet(t, x, p)
    BY <2>5, PrioritySetTimed
  <2>6. CASE \E x \in Tasks, p \in InitialPriorities : xTaskCreate(t, x, p)
    BY <2>6, CreateTimed
  <2>7. QED BY <1>6, <2>1, <2>2, <2>3, <2>4, <2>5, <2>6 DEF Call
<1>7. ASSUME NEW t \in Tasks, Continue(t)
      PROVE  OnTime(os') /\ (BlocksOnce => CountStep)
  <2>1. CASE DelayBlocks(t) \/ DelayUntilBlocks(t)
    BY <2>1, DelayTimed DEF BlocksOnce, DelayBlocks, DelayUntilBlocks
  <2>2. CASE SuspendResetsUnblockTime(t)
    BY <2>2, SuspendResetTimed
  <2>3. CASE AbortUnlinksState(t)
    BY <2>3, AbortUnlinksTimed
  <2>4. CASE AbortMakesReady(t)
    BY <2>4, AbortReadyTimed
  <2>5. CASE \/ ResumeThenYield(t) \/ ResumeThenReturn(t)
             \/ YieldUnlessYielded(t) \/ SuspendYields(t)
             \/ CreateYields(t) \/ DeleteYields(t) \/ DeleteFrees(t)
    BY <2>5, QuietActions
  <2>6. QED BY <1>7, <2>1, <2>2, <2>3, <2>4, <2>5 DEF Continue
<1>8. CASE UNCHANGED vars
  <2>1. os' = os
    BY <1>8 DEF vars
  <2>2. QED BY <2>1, IInvFacts, QuietFunctions, QuietStep
<1>9. QED BY <1>1, <1>2, <1>3, <1>4, <1>5, <1>6, <1>7, <1>8 DEF SchedulerNext

\* A task on its way into a delay has a time to wait for.
LEMMA NextDelaysTimed ==
  ASSUME IInv, DelaysTimed, [SchedulerNext]_vars
  PROVE  DelaysTimed'
<1> DEFINE Keeps(t) == pc'[t] = "delay" => pc[t] = "delay" /\ ticks'[t] = ticks[t]
           KeepAll  == \A t \in Tasks : Keeps(t)
<1>1. KeepAll => DelaysTimed'
  BY DEF DelaysTimed
<1>2. pc = [u \in Tasks |-> pc[u]] /\ ticks \in [Tasks -> Ticks]
  BY IInvFacts
<1>3. CASE Start
  BY <1>2, <1>3, <1>1, TasksAssumption
     DEF Start, CreateBeforeStart, vTaskStartScheduler, Goto, locals
<1>4. CASE Interrupt \/ ContextSwitch \/ MaskedStep \/ UNCHANGED vars
  <2>1. UNCHANGED <<pc, ticks>>
    BY <1>4 DEF Interrupt, TickISR, xTaskResumeFromISR, ContextSwitch, MaskedStep,
                DrainPendingReady, FinishPendingReady, ProcessPendedTick,
                FinishResumeAll, UnblockDelayed, vars, locals
  <2>2. QED BY <2>1, <1>1
<1>5. CASE IdleStep
  BY <1>1, <1>2, <1>5
     DEF IdleStep, prvCheckTasksWaitingTermination, IdleYields, Goto, locals
<1>6. ASSUME NEW t \in Tasks, NEW n \in DelayTicks, vTaskDelay(t, n)
      PROVE  DelaysTimed'
  <2>1. ticks' = [ticks EXCEPT ![t] = n] /\ pc[t] = "app"
    BY <1>6 DEF vTaskDelay, MayCall, At
  <2>2. n \in Int
    BY SchedulerAssumption, TasksAssumption DEF Ticks
  <2>3. CASE n > 0
    <3>1. pc' = [pc EXCEPT ![t] = "delay"]
      BY <1>6, <2>3 DEF vTaskDelay, Goto
    <3>2. QED BY <1>2, <2>1, <2>3, <3>1 DEF DelaysTimed
  <2>4. CASE ~(n > 0)
    <3>1. pc' = pc
      BY <1>6, <2>4 DEF vTaskDelay
    <3>2. QED BY <1>2, <2>1, <3>1 DEF DelaysTimed
  <2>5. QED BY <2>3, <2>4
<1>7. ASSUME NEW t \in Tasks, Call(t), ~\E n \in DelayTicks : vTaskDelay(t, n)
      PROVE  KeepAll
  <2>1. CASE \E n \in Periods : xTaskDelayUntil(t, n)
    BY <2>1, <1>2 DEF xTaskDelayUntil, Goto, MayCall, At
  <2>2. CASE \/ SuspendScheduler(t) \/ ResumeScheduler(t) \/ taskYIELD(t)
             \/ \E x \in Handles : vTaskResume(t, x)
             \/ \E x \in Handles : \E p \in NewPriorities : vTaskPrioritySet(t, x, p)
    BY <2>2 DEF SuspendScheduler, ResumeScheduler, taskYIELD, vTaskResume,
                vTaskPrioritySet, locals
  <2>3. CASE \E x \in Handles : xTaskAbortDelay(t, x) \/ vTaskSuspend(t, x)
    BY <2>3, <1>2 DEF xTaskAbortDelay, vTaskSuspend, Goto
  <2>4. CASE \E x \in Handles : vTaskDelete(t, x)
    BY <2>4, <1>2 DEF vTaskDelete
  <2>5. CASE \E x \in Tasks, p \in InitialPriorities : xTaskCreate(t, x, p)
    BY <2>5, <1>2 DEF xTaskCreate
  <2>6. QED BY <1>7, <2>1, <2>2, <2>3, <2>4, <2>5 DEF Call
<1>8. ASSUME NEW t \in Tasks, Continue(t) PROVE KeepAll
  <2>1. CASE \/ ResumeThenYield(t) \/ ResumeThenReturn(t)
             \/ YieldUnlessYielded(t) \/ SuspendResetsUnblockTime(t)
             \/ DeleteYields(t) \/ AbortUnlinksState(t)
    BY <2>1, <1>2
       DEF ResumeThenYield, ResumeThenReturn, YieldUnlessYielded,
           SuspendResetsUnblockTime, DeleteYields, AbortUnlinksState, Goto, locals, At
  <2>2. CASE SuspendYields(t) \/ CreateYields(t) \/ AbortMakesReady(t)
    BY <2>2, <1>2 DEF SuspendYields, CreateYields, AbortMakesReady, Goto
  <2>3. CASE DelayBlocks(t) \/ DelayUntilBlocks(t)
    BY <2>3, <1>2 DEF DelayBlocks, DelayUntilBlocks, Goto
  <2>4. CASE DeleteFrees(t)
    <3>1. target[t] \in Tasks
      BY IInvFacts
    <3>2. QED BY <2>4, <1>2, <3>1 DEF DeleteFrees, Forget
  <2>5. QED BY <1>8, <2>1, <2>2, <2>3, <2>4 DEF Continue
<1> HIDE DEF KeepAll
<1>9. QED BY <1>1, <1>3, <1>4, <1>5, <1>6, <1>7, <1>8 DEF SchedulerNext

\* The delayed lists keep time through every step: the invariant.
THEOREM TimeInvariance == SchedulerSpec => []TimeIInv
<1>1. SchedulerInit => TimeIInv
  BY InitIInv, InitTimed DEF TimeIInv
<1>2. TimeIInv /\ [SchedulerNext]_vars => TimeIInv'
  <2> SUFFICES ASSUME TimeIInv, [SchedulerNext]_vars PROVE TimeIInv'
    OBVIOUS
  <2>1. IInv /\ OnTime(os) /\ DelaysTimed
    BY DEF TimeIInv
  <2>2. IInv'
    BY <2>1, NextIInv
  <2>3. OnTime(os')
    BY <2>1, <2>2, NextTimed
  <2>4. DelaysTimed'
    BY <2>1, NextDelaysTimed
  <2>5. QED BY <2>2, <2>3, <2>4 DEF TimeIInv, OnTime
<1>3. QED BY <1>1, <1>2, PTL DEF SchedulerSpec

\* Every tick finds the tasks that are due: the delayed list holds those that wake
\* before the tick count wraps and the overflow list the others, both in the order
\* of their wake times, none is left that has expired, and xNextTaskUnblockTime is
\* never later than the first of them, through blocking, aborting, suspending and
\* deleting tasks, pended ticks and the exchange of the lists.
THEOREM DelayedTasksAreFound == SchedulerSpec => []DelayedTasksFound
<1>1. TimeIInv => DelayedTasksFound
  <2> SUFFICES ASSUME TimeIInv PROVE DelayedTasksFound
    OBVIOUS
  <2> DEFINE d == os.delayed
             o == pxOverflowDelayedTaskList(os)
  <2>1. os \in Kernel /\ Consistent(os) /\ OnTime(os)
    BY IInvFacts DEF TimeIInv, Good
  <2>2. d \in StateLists /\ o \in StateLists
    BY <2>1, TwoDelayedLists, DelayedListNames
  <2>3. /\ ItemsOf(os, d) = {t \in Tasks : os.stateList[t] = d}
        /\ ItemsOf(os, o) = {t \in Tasks : os.stateList[t] = o}
    BY <2>1, <2>2 DEF Consistent
  <2>4. \A t \in ItemsOf(os, o) : os.wake[t] <= os.tick
    BY <2>1, <2>3 DEF OnTime
  <2>5. \A t \in ItemsOf(os, d) :
          /\ os.wake[t] >= os.tick /\ os.wake[t] \in Int /\ os.tick \in Int
          /\ os.stage \notin Unblocking => os.wake[t] # os.tick
          /\ os.running => os.nextUnblock <= os.wake[t]
    BY <2>1, <2>3, KernelNumbers DEF OnTime
  <2> HIDE DEF d, o
  <2>6. \A t \in ItemsOf(os, d) : IF os.stage \in Unblocking
                                    THEN os.wake[t] >= os.tick
                                    ELSE os.wake[t] > os.tick
    BY <2>5
  <2>7. DelayedListsSplit
    BY <2>1, <2>4, <2>6 DEF DelayedListsSplit, OnTime, Unblocking, d, o
  <2>8. NextUnblockNotLate
    BY <2>5 DEF NextUnblockNotLate, d
  <2>9. QED BY <2>7, <2>8 DEF DelayedTasksFound
<1>2. QED BY <1>1, TimeInvariance, PTL
=============================================================================

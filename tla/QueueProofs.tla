---------------------------- MODULE QueueProofs ----------------------------
(***************************************************************************)
(* What is proved about module Queue, for every set of tasks, queues and   *)
(* items, all lengths and priorities, and whatever calls tasks and         *)
(* handlers make:                                                          *)
(*   - the rings of slots are bounded first-in first-out queues;           *)
(*   - a queue is locked only inside a call, under a suspended scheduler;  *)
(*   - a task that holds no mutex has its own priority.                    *)
(* The first is proved from the queues and the calls alone (QueueIInv);    *)
(* the other two also follow what each operation of Tasks, Scheduler and   *)
(* Waiting leaves of the kernel record (Keeps).                            *)
(***************************************************************************)
EXTENDS Queue, SequenceTheorems, FiniteSetTheorems, TLAPS

-----------------------------------------------------------------------------
(* One ring: what is done to the fields r of queue q makes them r2.        *)

\* What a queue may hold: the members of a set are no sets.
ValuesOf(q) ==
  IF Kind[q] = "set" THEN {m \in Queues : Kind[m] # "set"} ELSE Items

Slots(q) == 0..(Length[q] - 1)

QueueType(q) ==
  [slots     : [Slots(q) -> Items \cup Queues \cup {NoItem}],
   write     : Slots(q),
   read      : Slots(q),
   count     : Int,
   rxLock    : Int,
   txLock    : Int,
   holder    : IF HasStorage(q) THEN {NoTask} ELSE Tasks \cup {NoTask},
   recursion : Int,
   container : {s \in Queues : Kind[s] = "set" /\ Kind[q] # "set"} \cup {NoQueue}]

\* The write position follows the last item, and the slots from the read position on
\* hold items.
InOrder(q, r) ==
  /\ r.count \in 0..Length[q]
  /\ r.write = NextSlot(q, SlotAfter(q, r.read, r.count))
  /\ \A n \in 1..r.count : r.slots[SlotAfter(q, r.read, n)] \in ValuesOf(q)

RingOK(q, r) == r \in QueueType(q) /\ (HasStorage(q) => InOrder(q, r))

SameItems(r, r2) ==
  r2.slots = r.slots /\ r2.write = r.write /\ r2.read = r.read /\ r2.count = r.count

PutBack(q, r, r2, x) ==
  /\ r.count # Length[q] /\ r2.count = r.count + 1
  /\ r2.slots = [r.slots EXCEPT ![r.write] = x]
  /\ r2.write = NextSlot(q, r.write) /\ r2.read = r.read

PutFront(q, r, r2, x) ==
  /\ r.count # Length[q] /\ r2.count = r.count + 1
  /\ r2.slots = [r.slots EXCEPT ![r.read] = x]
  /\ r2.read = PreviousSlot(q, r.read) /\ r2.write = r.write

Overwritten(q, r, r2, x) ==
  /\ Length[q] = 1 /\ r.count = 1 /\ r2.count = 1
  /\ r2.slots = [r.slots EXCEPT ![r.read] = x]
  /\ r2.read = PreviousSlot(q, r.read) /\ r2.write = r.write

Taken(q, r, r2) ==
  /\ r.count # 0 /\ r2.count = r.count - 1
  /\ r2.read = NextSlot(q, r.read) /\ r2.write = r.write
  /\ r2.slots = [r.slots EXCEPT ![NextSlot(q, r.read)] = NoItem]

Emptied(q, r2) == r2.count = 0 /\ r2.write = 0 /\ r2.read = Length[q] - 1

Changes(q, r, r2) ==
  \/ SameItems(r, r2) \/ Taken(q, r, r2) \/ Emptied(q, r2)
  \/ \E x \in ValuesOf(q) :
       PutBack(q, r, r2, x) \/ PutFront(q, r, r2, x) \/ Overwritten(q, r, r2, x)

QueueStep(q, r, r2) == r2 \in QueueType(q) /\ (HasStorage(q) => Changes(q, r, r2))

\* What BoundedFifo lets happen to the items of q.
FifoStep(q, s, s2) ==
  \/ s2 = s \/ s2 = <<>>
  \/ s # <<>> /\ s2 = Tail(s)
  \/ Length[q] = 1 /\ \E x \in Items \cup Queues : s2 = <<x>>
  \/ /\ Len(s) < Length[q]
     /\ \E x \in Items \cup Queues : s2 = Append(s, x) \/ s2 = <<x>> \o s

LEMMA QueueTypeFields ==
  ASSUME NEW q, NEW r \in QueueType(q)
  PROVE  /\ r.slots \in [Slots(q) -> Items \cup Queues \cup {NoItem}]
         /\ r.write \in Slots(q) /\ r.read \in Slots(q) /\ r.count \in Int
  BY DEF QueueType

LEMMA LengthType ==
  ASSUME QueueAssumption, NEW q \in Queues
  PROVE  Length[q] \in Nat /\ Length[q] > 0 /\ ValuesOf(q) \subseteq Items \cup Queues
  BY DEF QueueAssumption, ValuesOf

\* Where the positions lie.
LEMMA SlotsOfRing ==
  ASSUME NEW q, Length[q] \in Nat, Length[q] > 0, NEW i \in Slots(q), NEW n \in 0..Length[q]
  PROVE  /\ NextSlot(q, i) \in Slots(q) /\ PreviousSlot(q, i) \in Slots(q)
         /\ SlotAfter(q, i, n) \in Slots(q)
         /\ SlotAfter(q, i, 0) = i /\ SlotAfter(q, i, Length[q]) = i
  BY DEF Slots, NextSlot, PreviousSlot, SlotAfter

LEMMA OneSlotOn ==
  ASSUME NEW q, Length[q] \in Nat, NEW i \in Slots(q),
         NEW n \in Nat, n < Length[q]
  PROVE  /\ SlotAfter(q, i, n + 1) = NextSlot(q, SlotAfter(q, i, n))
         /\ SlotAfter(q, NextSlot(q, i), n) = SlotAfter(q, i, n + 1)
         /\ SlotAfter(q, PreviousSlot(q, i), n + 1) = SlotAfter(q, i, n)
  BY DEF Slots, NextSlot, PreviousSlot, SlotAfter

LEMMA SlotsDiffer ==
  ASSUME NEW q, Length[q] \in Nat, NEW i \in Slots(q),
         NEW n \in 1..Length[q], NEW m \in 1..Length[q], n # m
  PROVE  SlotAfter(q, i, n) # SlotAfter(q, i, m)
  BY DEF Slots, SlotAfter

LEMMA FunctionIsSequence ==
  ASSUME NEW S, NEW n \in Nat, NEW f \in [1..n -> S]
  PROVE  f \in Seq(S) /\ Len(f) = n
<1>1. f \in Seq(S)
  BY SeqDef
<1>2. DOMAIN f = 1..n /\ DOMAIN f = 1..Len(f) /\ Len(f) \in Nat
  BY <1>1, LenProperties
<1>3. QED BY <1>1, <1>2

LEMMA ItemsInType ==
  ASSUME QueueAssumption, NEW q \in Queues, NEW r, r \in QueueType(q), InOrder(q, r)
  PROVE  /\ ItemsIn(q, r) \in Seq(Items \cup Queues) /\ Len(ItemsIn(q, r)) = r.count
         /\ \A n \in 1..r.count : ItemsIn(q, r)[n] = r.slots[SlotAfter(q, r.read, n)]
<1>1. /\ r.count \in Nat
      /\ \A n \in 1..r.count : r.slots[SlotAfter(q, r.read, n)] \in Items \cup Queues
  BY LengthType DEF InOrder
<1>2. ItemsIn(q, r) \in [1..r.count -> Items \cup Queues]
  BY <1>1 DEF ItemsIn
<1>3. ItemsIn(q, r) \in Seq(Items \cup Queues) /\ Len(ItemsIn(q, r)) = r.count
  BY <1>1, <1>2, FunctionIsSequence
<1>4. QED BY <1>3 DEF ItemsIn

LEMMA PutBackStep ==
  ASSUME QueueAssumption, NEW q \in Queues, NEW r \in QueueType(q), NEW r2 \in QueueType(q),
         InOrder(q, r), NEW x \in ValuesOf(q), PutBack(q, r, r2, x)
  PROVE  InOrder(q, r2) /\ FifoStep(q, ItemsIn(q, r), ItemsIn(q, r2))
<1>1. PICK L, n, i : L = Length[q] /\ n = r.count /\ i = r.read
  OBVIOUS
<1>2. /\ L \in Nat /\ L > 0 /\ n \in 0..L /\ n # L /\ r2.count = n + 1
      /\ i \in Slots(q) /\ r2.read = i /\ x \in Items \cup Queues
  BY <1>1, LengthType, QueueTypeFields DEF PutBack, InOrder
<1>3. /\ r2.write = NextSlot(q, r.write) /\ r.write = NextSlot(q, SlotAfter(q, i, n))
      /\ \A m \in 1..n : r.slots[SlotAfter(q, i, m)] \in ValuesOf(q)
  BY <1>1 DEF PutBack, InOrder
<1>4. n \in Nat /\ n \in 0..(L - 1) /\ n + 1 \in 0..L /\ n + 1 \in 1..L
  BY <1>2
<1>5. /\ r.write = SlotAfter(q, i, n + 1) /\ r.write \in Slots(q)
      /\ \A m \in 1..n : SlotAfter(q, i, m) \in Slots(q) /\ SlotAfter(q, i, m) # r.write
  <2>1. SlotAfter(q, i, n + 1) = NextSlot(q, SlotAfter(q, i, n))
        /\ SlotAfter(q, i, n + 1) \in Slots(q)
    BY <1>1, <1>2, <1>4, SlotsOfRing, OneSlotOn
  <2>2. ASSUME NEW m \in 1..n
        PROVE  SlotAfter(q, i, m) \in Slots(q)
               /\ SlotAfter(q, i, m) # SlotAfter(q, i, n + 1)
    <3>1. m \in 1..L /\ m \in 0..L /\ m # n + 1
      BY <1>2
    <3>2. QED BY <1>1, <1>2, <1>4, <3>1, SlotsOfRing, SlotsDiffer
  <2>3. QED BY <1>3, <2>1, <2>2
<1>6. /\ r2.slots[r.write] = x
      /\ \A m \in 1..n : r2.slots[SlotAfter(q, i, m)] = r.slots[SlotAfter(q, i, m)]
  BY <1>5, QueueTypeFields DEF PutBack
<1>7. \A m \in 1..(n + 1) : m \in 1..n \/ m = n + 1
  BY <1>2
<1>8. InOrder(q, r2)
  <2>1. \A m \in 1..(n + 1) : r2.slots[SlotAfter(q, i, m)] \in ValuesOf(q)
    BY <1>3, <1>5, <1>6, <1>7
  <2>2. r2.write = NextSlot(q, SlotAfter(q, i, n + 1))
    BY <1>3, <1>5
  <2>3. QED BY <1>1, <1>2, <1>4, <2>1, <2>2 DEF InOrder
<1>9. PICK s, s2 : s = ItemsIn(q, r) /\ s2 = ItemsIn(q, r2)
  OBVIOUS
<1>10. /\ s \in Seq(Items \cup Queues) /\ Len(s) = n
       /\ \A m \in 1..n : s[m] = r.slots[SlotAfter(q, i, m)]
  BY <1>1, <1>9, ItemsInType
<1>11. /\ s2 \in Seq(Items \cup Queues) /\ Len(s2) = n + 1
       /\ \A m \in 1..(n + 1) : s2[m] = r2.slots[SlotAfter(q, i, m)]
  <2>1. /\ s2 \in Seq(Items \cup Queues) /\ Len(s2) = r2.count
        /\ \A m \in 1..r2.count : s2[m] = r2.slots[SlotAfter(q, r2.read, m)]
    BY <1>8, <1>9, ItemsInType
  <2>2. QED BY <1>2, <2>1
<1>12. s2 = Append(s, x)
  <2>1. \A m \in 1..n : m \in 1..(n + 1)
    BY <1>2
  <2>2. ASSUME NEW m \in 1..n PROVE s2[m] = s[m]
    <3>1. /\ s[m] = r.slots[SlotAfter(q, i, m)] /\ s2[m] = r2.slots[SlotAfter(q, i, m)]
          /\ r2.slots[SlotAfter(q, i, m)] = r.slots[SlotAfter(q, i, m)]
      BY <1>6, <1>10, <1>11, <2>1
    <3>2. QED BY <3>1
  <2>3. s2[n + 1] = x
    BY <1>4, <1>5, <1>6, <1>11
  <2>4. /\ Append(s, x) \in Seq(Items \cup Queues) /\ Len(Append(s, x)) = n + 1
        /\ \A m \in 1..n : Append(s, x)[m] = s[m]
        /\ Append(s, x)[n + 1] = x
    BY <1>2, <1>10, AppendProperties
  <2>5. \A m \in 1..(n + 1) : s2[m] = Append(s, x)[m]
    BY <1>7, <2>2, <2>3, <2>4
  <2>6. QED BY <1>11, <2>4, <2>5, SeqEqual
<1>13. Len(s) < Length[q]
  BY <1>1, <1>2, <1>10
<1>14. QED BY <1>2, <1>8, <1>9, <1>12, <1>13 DEF FifoStep

LEMMA PutFrontStep ==
  ASSUME QueueAssumption, NEW q \in Queues, NEW r \in QueueType(q), NEW r2 \in QueueType(q),
         InOrder(q, r), NEW x \in ValuesOf(q), PutFront(q, r, r2, x)
  PROVE  InOrder(q, r2) /\ FifoStep(q, ItemsIn(q, r), ItemsIn(q, r2))
<1>1. PICK L, n, i, j : /\ L = Length[q] /\ n = r.count /\ i = r.read
                        /\ j = PreviousSlot(q, i)
  OBVIOUS
<1>2. /\ L \in Nat /\ L > 0 /\ n \in 0..L /\ n # L /\ r2.count = n + 1
      /\ i \in Slots(q) /\ r2.read = j /\ x \in Items \cup Queues
  BY <1>1, LengthType, QueueTypeFields DEF PutFront, InOrder
<1>3. /\ r2.write = NextSlot(q, SlotAfter(q, i, n))
      /\ \A m \in 1..n : r.slots[SlotAfter(q, i, m)] \in ValuesOf(q)
  BY <1>1 DEF PutFront, InOrder
<1>4. n \in Nat /\ n < L /\ n + 1 \in 0..L /\ n + 1 \in 1..L /\ L \in 1..L
  BY <1>2
<1>5. /\ SlotAfter(q, j, 1) = i /\ SlotAfter(q, j, n + 1) = SlotAfter(q, i, n)
      /\ \A m \in 1..n : /\ SlotAfter(q, j, m + 1) = SlotAfter(q, i, m)
                         /\ SlotAfter(q, i, m) \in Slots(q) /\ SlotAfter(q, i, m) # i
  <2>1. SlotAfter(q, i, L) = i /\ SlotAfter(q, i, 0) = i
    BY <1>1, <1>2, <1>4, SlotsOfRing
  <2>2. SlotAfter(q, j, 0 + 1) = SlotAfter(q, i, 0)
    BY <1>1, <1>2, OneSlotOn
  <2>3. SlotAfter(q, j, n + 1) = SlotAfter(q, i, n)
    BY <1>1, <1>2, <1>4, OneSlotOn
  <2>4. ASSUME NEW m \in 1..n
        PROVE  /\ SlotAfter(q, j, m + 1) = SlotAfter(q, i, m)
               /\ SlotAfter(q, i, m) \in Slots(q) /\ SlotAfter(q, i, m) # i
    <3>1. m \in 1..L /\ m \in 0..L /\ m # L /\ m \in Nat /\ m < L
      BY <1>2
    <3>2. SlotAfter(q, i, m) # SlotAfter(q, i, L)
      BY <1>1, <1>2, <1>4, <3>1, SlotsDiffer
    <3>3. SlotAfter(q, i, m) \in Slots(q)
      BY <1>1, <1>2, <3>1, SlotsOfRing
    <3>4. SlotAfter(q, j, m + 1) = SlotAfter(q, i, m)
      BY <1>1, <1>2, <3>1, OneSlotOn
    <3>5. QED BY <2>1, <3>2, <3>3, <3>4
  <2>5. QED BY <2>1, <2>2, <2>3, <2>4
<1>6. /\ r2.slots[i] = x
      /\ \A m \in 1..n : r2.slots[SlotAfter(q, i, m)] = r.slots[SlotAfter(q, i, m)]
  BY <1>1, <1>2, <1>5, QueueTypeFields DEF PutFront
<1>7. \A m \in 1..(n + 1) : m = 1 \/ (m - 1 \in 1..n /\ m = (m - 1) + 1)
  BY <1>2
<1>8. /\ r2.slots[SlotAfter(q, j, 1)] = x
      /\ \A m \in 1..n : r2.slots[SlotAfter(q, j, m + 1)] = r.slots[SlotAfter(q, i, m)]
  BY <1>5, <1>6
<1>9. InOrder(q, r2)
  <2>1. ASSUME NEW m \in 1..(n + 1)
        PROVE  r2.slots[SlotAfter(q, j, m)] \in ValuesOf(q)
    <3>1. CASE m = 1
      BY <1>8, <3>1
    <3>2. CASE m # 1
      <4>1. PICK l \in 1..n : m = l + 1
        BY <1>7, <3>2
      <4>2. QED BY <1>3, <1>8, <4>1
    <3>3. QED BY <3>1, <3>2
  <2>2. r2.write = NextSlot(q, SlotAfter(q, j, n + 1))
    BY <1>3, <1>5
  <2>3. QED BY <1>1, <1>2, <1>4, <2>1, <2>2 DEF InOrder
<1>10. PICK s, s2 : s = ItemsIn(q, r) /\ s2 = ItemsIn(q, r2)
  OBVIOUS
<1>11. /\ s \in Seq(Items \cup Queues) /\ Len(s) = n
       /\ \A m \in 1..n : s[m] = r.slots[SlotAfter(q, i, m)]
  BY <1>1, <1>10, ItemsInType
<1>12. /\ s2 \in Seq(Items \cup Queues) /\ Len(s2) = n + 1
       /\ \A m \in 1..(n + 1) : s2[m] = r2.slots[SlotAfter(q, j, m)]
  <2>1. /\ s2 \in Seq(Items \cup Queues) /\ Len(s2) = r2.count
        /\ \A m \in 1..r2.count : s2[m] = r2.slots[SlotAfter(q, r2.read, m)]
    BY <1>9, <1>10, ItemsInType
  <2>2. QED BY <1>2, <2>1
<1>13. s2 = <<x>> \o s
  <2>1. PICK S, t : S = Items \cup Queues /\ t = <<x>> /\ t \in Seq(S)
    <3>1. PICK S : S = Items \cup Queues /\ x \in S
      BY <1>2
    <3>2. <<x>> \in Seq(S)
      BY <3>1
    <3>3. QED BY <3>1, <3>2
  <2>2. Len(t) = 1 /\ t[1] = x
    BY <2>1
  <2>3. /\ t \o s \in Seq(Items \cup Queues) /\ Len(t \o s) = 1 + n
        /\ \A m \in 1..(1 + n) : (t \o s)[m] = IF m <= 1 THEN t[m] ELSE s[m - 1]
    <3>1. /\ t \o s \in Seq(S) /\ Len(t \o s) = Len(t) + Len(s)
          /\ \A m \in 1..(Len(t) + Len(s)) :
               (t \o s)[m] = IF m <= Len(t) THEN t[m] ELSE s[m - Len(t)]
      BY <1>11, <2>1, ConcatProperties
    <3>2. QED BY <1>11, <2>1, <2>2, <3>1
  <2>4. ASSUME NEW m \in 1..(n + 1) PROVE s2[m] = (t \o s)[m]
    <3>1. m \in 1..(1 + n)
      BY <1>4
    <3>2. CASE m = 1
      BY <1>8, <1>12, <2>2, <2>3, <3>1, <3>2
    <3>3. CASE m # 1
      <4>1. PICK l \in 1..n : m = l + 1 /\ l = m - 1 /\ ~(m <= 1)
        BY <1>4, <1>7, <3>3
      <4>2. (t \o s)[m] = s[l]
        BY <2>3, <3>1, <4>1
      <4>3. QED BY <1>8, <1>11, <1>12, <4>1, <4>2
    <3>4. QED BY <3>2, <3>3
  <2>5. Len(s2) = Len(t \o s)
    BY <1>4, <1>12, <2>3
  <2>6. s2 = t \o s
    BY <1>12, <2>3, <2>4, <2>5, SeqEqual
  <2>7. QED BY <2>1, <2>6
<1>14. Len(s) < Length[q]
  BY <1>1, <1>4, <1>11
<1>15. QED BY <1>2, <1>9, <1>10, <1>13, <1>14 DEF FifoStep

LEMMA OverwrittenStep ==
  ASSUME QueueAssumption, NEW q \in Queues, NEW r \in QueueType(q), NEW r2 \in QueueType(q),
         InOrder(q, r), NEW x \in ValuesOf(q), Overwritten(q, r, r2, x)
  PROVE  InOrder(q, r2) /\ FifoStep(q, ItemsIn(q, r), ItemsIn(q, r2))
<1>1. /\ Length[q] = 1 /\ r2.count = 1 /\ r.read = 0 /\ r2.read = 0 /\ r2.write = 0
      /\ r2.slots = [r.slots EXCEPT ![0] = x]
  BY QueueTypeFields DEF Overwritten, Slots, PreviousSlot
<1>2. r2.slots[0] = x /\ x \in Items \cup Queues
  BY <1>1, QueueTypeFields, LengthType DEF Slots
<1>3. SlotAfter(q, 0, 1) = 0 /\ NextSlot(q, 0) = 0
  BY <1>1 DEF SlotAfter, NextSlot
<1>4. InOrder(q, r2)
  BY <1>1, <1>2, <1>3 DEF InOrder
<1>5. /\ ItemsIn(q, r2) \in Seq(Items \cup Queues) /\ Len(ItemsIn(q, r2)) = 1
      /\ \A n \in 1..1 : ItemsIn(q, r2)[n] = r2.slots[SlotAfter(q, 0, n)]
  <2>1. /\ ItemsIn(q, r2) \in Seq(Items \cup Queues) /\ Len(ItemsIn(q, r2)) = r2.count
        /\ \A n \in 1..r2.count :
             ItemsIn(q, r2)[n] = r2.slots[SlotAfter(q, r2.read, n)]
    BY <1>4, ItemsInType
  <2>2. QED BY <1>1, <2>1
<1>6. ItemsIn(q, r2)[1] = x
  BY <1>2, <1>3, <1>5
<1>7. ItemsIn(q, r2) = <<x>>
  BY <1>5, <1>6
<1>8. QED BY <1>1, <1>2, <1>4, <1>7 DEF FifoStep

LEMMA TakenStep ==
  ASSUME QueueAssumption, NEW q \in Queues, NEW r \in QueueType(q), NEW r2 \in QueueType(q),
         InOrder(q, r), Taken(q, r, r2)
  PROVE  InOrder(q, r2) /\ FifoStep(q, ItemsIn(q, r), ItemsIn(q, r2))
<1>1. PICK L, n, i, j : /\ L = Length[q] /\ n = r2.count /\ i = r.read
                        /\ j = NextSlot(q, i)
  OBVIOUS
<1>2. /\ L \in Nat /\ L > 0 /\ n \in Nat /\ n < L /\ r.count = n + 1
      /\ i \in Slots(q) /\ r2.read = j
  BY <1>1, LengthType, QueueTypeFields DEF Taken, InOrder
<1>3. /\ r2.write = NextSlot(q, SlotAfter(q, i, n + 1))
      /\ \A m \in 1..(n + 1) : r.slots[SlotAfter(q, i, m)] \in ValuesOf(q)
  BY <1>1, <1>2 DEF Taken, InOrder
<1>4. n + 1 \in 0..L /\ n \in 0..L /\ \A m \in 1..n : m + 1 \in 1..(n + 1)
  BY <1>2
<1>5. /\ SlotAfter(q, i, 1) = j /\ SlotAfter(q, j, n) = SlotAfter(q, i, n + 1)
      /\ \A m \in 1..n : /\ SlotAfter(q, j, m) = SlotAfter(q, i, m + 1)
                         /\ SlotAfter(q, i, m + 1) \in Slots(q)
                         /\ SlotAfter(q, i, m + 1) # j
  <2>1. SlotAfter(q, i, 0) = i /\ SlotAfter(q, i, 0 + 1) = NextSlot(q, SlotAfter(q, i, 0))
    BY <1>1, <1>2, <1>4, SlotsOfRing, OneSlotOn
  <2>2. SlotAfter(q, i, 1) = j
    BY <1>1, <2>1
  <2>3. SlotAfter(q, j, n) = SlotAfter(q, i, n + 1)
    BY <1>1, <1>2, OneSlotOn
  <2>4. ASSUME NEW m \in 1..n
        PROVE  /\ SlotAfter(q, j, m) = SlotAfter(q, i, m + 1)
               /\ SlotAfter(q, i, m + 1) \in Slots(q) /\ SlotAfter(q, i, m + 1) # j
    <3>1. /\ m \in Nat /\ m < L /\ m + 1 \in 0..L /\ m + 1 \in 1..L /\ 1 \in 1..L
          /\ m + 1 # 1
      BY <1>2
    <3>2. SlotAfter(q, i, m + 1) # SlotAfter(q, i, 1)
      BY <1>1, <1>2, <3>1, SlotsDiffer
    <3>3. SlotAfter(q, i, m + 1) \in Slots(q)
      BY <1>1, <1>2, <3>1, SlotsOfRing
    <3>4. SlotAfter(q, j, m) = SlotAfter(q, i, m + 1)
      BY <1>1, <1>2, <3>1, OneSlotOn
    <3>5. QED BY <2>2, <3>2, <3>3, <3>4
  <2>5. QED BY <2>2, <2>3, <2>4
<1>6. \A m \in 1..n : r2.slots[SlotAfter(q, j, m)] = r.slots[SlotAfter(q, i, m + 1)]
  BY <1>1, <1>5, QueueTypeFields DEF Taken
<1>7. InOrder(q, r2)
  <2>1. \A m \in 1..n : r2.slots[SlotAfter(q, j, m)] \in ValuesOf(q)
    BY <1>3, <1>4, <1>6
  <2>2. r2.write = NextSlot(q, SlotAfter(q, j, n))
    BY <1>3, <1>5
  <2>3. QED BY <1>1, <1>2, <1>4, <2>1, <2>2 DEF InOrder
<1>8. PICK s, s2 : s = ItemsIn(q, r) /\ s2 = ItemsIn(q, r2)
  OBVIOUS
<1>9. /\ s2 \in Seq(Items \cup Queues) /\ Len(s2) = n
      /\ \A m \in 1..n : s2[m] = r2.slots[SlotAfter(q, j, m)]
  BY <1>1, <1>2, <1>7, <1>8, ItemsInType
<1>10. /\ s \in Seq(Items \cup Queues) /\ Len(s) = n + 1
       /\ \A m \in 1..(n + 1) : s[m] = r.slots[SlotAfter(q, i, m)]
  <2>1. /\ s \in Seq(Items \cup Queues) /\ Len(s) = r.count
        /\ \A m \in 1..r.count : s[m] = r.slots[SlotAfter(q, r.read, m)]
    BY <1>8, ItemsInType
  <2>2. QED BY <1>1, <1>2, <2>1
<1>11. s # <<>>
  BY <1>2, <1>10
<1>12. s2 = Tail(s)
  <2>1. /\ Tail(s) \in Seq(Items \cup Queues) /\ Len(Tail(s)) = n
        /\ \A m \in 1..n : Tail(s)[m] = s[m + 1]
    BY <1>2, <1>10, <1>11, HeadTailProperties
  <2>2. ASSUME NEW m \in 1..n PROVE s2[m] = Tail(s)[m]
    <3>1. /\ s2[m] = r2.slots[SlotAfter(q, j, m)] /\ Tail(s)[m] = s[m + 1]
          /\ r2.slots[SlotAfter(q, j, m)] = r.slots[SlotAfter(q, i, m + 1)]
          /\ s[m + 1] = r.slots[SlotAfter(q, i, m + 1)]
      BY <1>4, <1>6, <1>9, <1>10, <2>1
    <3>2. QED BY <3>1
  <2>3. QED BY <1>9, <2>1, <2>2, SeqEqual
<1>13. QED BY <1>7, <1>8, <1>11, <1>12 DEF FifoStep

LEMMA EmptiedStep ==
  ASSUME QueueAssumption, NEW q \in Queues, NEW r \in QueueType(q), NEW r2 \in QueueType(q),
         InOrder(q, r), Emptied(q, r2)
  PROVE  InOrder(q, r2) /\ FifoStep(q, ItemsIn(q, r), ItemsIn(q, r2))
<1>1. Length[q] \in Nat /\ Length[q] > 0
  BY LengthType
<1>2. InOrder(q, r2)
  BY <1>1 DEF InOrder, Emptied, NextSlot, SlotAfter
<1>3. ItemsIn(q, r2) \in Seq(Items \cup Queues) /\ Len(ItemsIn(q, r2)) = 0
  BY <1>2, ItemsInType DEF Emptied
<1>4. ItemsIn(q, r2) = <<>>
  BY <1>3
<1>5. QED BY <1>2, <1>4 DEF FifoStep

\* A ring stays a ring, and its items change as those of a bounded queue.
LEMMA RingStep ==
  ASSUME QueueAssumption, NEW q \in Queues, NEW r, NEW r2, RingOK(q, r), QueueStep(q, r, r2)
  PROVE  /\ RingOK(q, r2)
         /\ HasStorage(q) => FifoStep(q, ItemsIn(q, r), ItemsIn(q, r2))
<1>1. r \in QueueType(q) /\ r2 \in QueueType(q)
  BY DEF RingOK, QueueStep
<1>2. SUFFICES ASSUME HasStorage(q)
               PROVE  InOrder(q, r2) /\ FifoStep(q, ItemsIn(q, r), ItemsIn(q, r2))
  BY <1>1 DEF RingOK
<1>3. InOrder(q, r) /\ Changes(q, r, r2)
  BY <1>2 DEF RingOK, QueueStep
<1>4. CASE SameItems(r, r2)
  <2>1. InOrder(q, r2)
    BY <1>3, <1>4 DEF InOrder, SameItems
  <2>2. ItemsIn(q, r2) = ItemsIn(q, r)
    BY <1>4 DEF ItemsIn, SameItems
  <2>3. QED BY <2>1, <2>2 DEF FifoStep
<1>5. CASE Taken(q, r, r2)
  BY <1>1, <1>3, <1>5, TakenStep
<1>6. CASE Emptied(q, r2)
  BY <1>1, <1>3, <1>6, EmptiedStep
<1>7. ASSUME NEW x \in ValuesOf(q),
             PutBack(q, r, r2, x) \/ PutFront(q, r, r2, x) \/ Overwritten(q, r, r2, x)
      PROVE  InOrder(q, r2) /\ FifoStep(q, ItemsIn(q, r), ItemsIn(q, r2))
  BY <1>1, <1>3, <1>7, PutBackStep, PutFrontStep, OverwrittenStep
<1>8. QED BY <1>3, <1>4, <1>5, <1>6, <1>7 DEF Changes

-----------------------------------------------------------------------------
(* All queues: what the operators of Queue make of the queues Q.           *)

RingsOK(Q) == Q = [q \in Queues |-> Q[q]] /\ \A q \in Queues : RingOK(q, Q[q])

Steps(Q, R) == R = [q \in Queues |-> R[q]] /\ \A q \in Queues : QueueStep(q, Q[q], R[q])

\* Only queue q changes.
StepsAt(Q, R, q) ==
  /\ R = [r \in Queues |-> R[r]] /\ QueueStep(q, Q[q], R[q])
  /\ \A r \in Queues : r # q => R[r] = Q[r]

LEMMA SameStep ==
  ASSUME NEW q, NEW r, RingOK(q, r)
  PROVE  QueueStep(q, r, r)
  BY DEF RingOK, QueueStep, Changes, SameItems

LEMMA StepAt ==
  ASSUME NEW Q, NEW R, RingsOK(Q), NEW q \in Queues, StepsAt(Q, R, q)
  PROVE  Steps(Q, R)
<1>1. \A r \in Queues : r # q => QueueStep(r, Q[r], R[r])
  BY SameStep DEF RingsOK, StepsAt
<1>2. QED BY <1>1 DEF Steps, StepsAt

LEMMA StepsKeepRings ==
  ASSUME QueueAssumption, NEW Q, NEW R, RingsOK(Q), Steps(Q, R)
  PROVE  RingsOK(R)
  BY RingStep DEF RingsOK, Steps

\* Locks, holders and containers may change with the items.
LEMMA SameItemsStep ==
  ASSUME NEW q, NEW r, NEW r1, NEW r2, QueueStep(q, r, r1), r2 \in QueueType(q),
         SameItems(r1, r2)
  PROVE  QueueStep(q, r, r2)
  BY DEF QueueStep, Changes, SameItems, Taken, Emptied, PutBack, PutFront, Overwritten

LEMMA FieldsKeepType ==
  ASSUME NEW q, NEW r \in QueueType(q)
  PROVE  /\ \A i \in Int : /\ [r EXCEPT !.txLock = i] \in QueueType(q)
                           /\ [r EXCEPT !.rxLock = i] \in QueueType(q)
                           /\ SameItems(r, [r EXCEPT !.txLock = i])
                           /\ SameItems(r, [r EXCEPT !.rxLock = i])
  BY DEF QueueType, SameItems

LEMMA HolderKeepsType ==
  ASSUME NEW q, NEW r \in QueueType(q), NEW i \in Int, NEW t,
         t = NoTask \/ (t \in Tasks /\ ~HasStorage(q))
  PROVE  /\ [r EXCEPT !.holder = t, !.recursion = i] \in QueueType(q)
         /\ SameItems(r, [r EXCEPT !.holder = t, !.recursion = i])
  BY DEF QueueType, SameItems

LEMMA CopyStep ==
  ASSUME QueueAssumption, NEW Q, RingsOK(Q), NEW q \in Queues, NEW x, NEW position,
         HasStorage(q) => x \in ValuesOf(q),
         Q[q].count # Length[q] \/ position = "overwrite",
         position = "overwrite" /\ HasStorage(q) => Length[q] = 1
  PROVE  /\ StepsAt(Q, prvCopyDataToQueue(Q, q, x, position), q)
         /\ prvCopyDataToQueue(Q, q, x, position)[q].container = Q[q].container
         /\ prvCopyDataToQueue(Q, q, x, position)[q].txLock = Q[q].txLock
<1> DEFINE R == prvCopyDataToQueue(Q, q, x, position)
<1>1. PICK r : r = Q[q]
  OBVIOUS
<1>2. r \in QueueType(q) /\ Q = [p \in Queues |-> Q[p]]
  BY <1>1 DEF RingsOK, RingOK
<1>3. PICK n \in Int : n = IF position = "overwrite" /\ r.count > 0 THEN r.count
                                                               ELSE r.count + 1
  BY <1>2, QueueTypeFields
<1>4. CASE ~HasStorage(q)
  <2>1. R = [Q EXCEPT ![q].count = n]
    BY <1>1, <1>2, <1>3, <1>4 DEF prvCopyDataToQueue
  <2>2. PICK r2 : r2 = [r EXCEPT !.count = n]
    OBVIOUS
  <2>3. r2 \in QueueType(q) /\ r2.container = r.container /\ r2.txLock = r.txLock
    BY <1>2, <2>2 DEF QueueType
  <2>4. R = [Q EXCEPT ![q] = r2]
    BY <1>1, <1>2, <2>1, <2>2
  <2>5. QED BY <1>1, <1>2, <1>4, <2>3, <2>4 DEF StepsAt, QueueStep
<1>5. CASE HasStorage(q)
  <2>1. /\ InOrder(q, r) /\ Length[q] \in Nat /\ Length[q] > 0
        /\ r.count \in 0..Length[q] /\ x \in ValuesOf(q) /\ x \in Items \cup Queues
    BY <1>1, <1>5, LengthType DEF RingsOK, RingOK, InOrder
  <2>2. /\ NextSlot(q, r.write) \in Slots(q) /\ PreviousSlot(q, r.read) \in Slots(q)
        /\ r.write \in Slots(q) /\ r.read \in Slots(q)
    BY <1>2, <2>1, QueueTypeFields, SlotsOfRing DEF InOrder
  <2>3. CASE position = "back"
    <3>1. PICK r2 : r2 = [r EXCEPT !.count = n, !.slots = [r.slots EXCEPT ![r.write] = x],
                                   !.write = NextSlot(q, r.write)]
      OBVIOUS
    <3>2. R = [Q EXCEPT ![q] = r2]
      BY <1>1, <1>2, <1>3, <1>5, <2>3, <3>1 DEF prvCopyDataToQueue, QueueType
    <3>3. /\ r2 \in QueueType(q) /\ r2.container = r.container /\ r2.txLock = r.txLock
          /\ r2.count = n /\ r2.slots = [r.slots EXCEPT ![r.write] = x]
          /\ r2.write = NextSlot(q, r.write) /\ r2.read = r.read
      BY <1>2, <2>1, <2>2, <3>1 DEF QueueType
    <3>4. PutBack(q, r, r2, x)
      BY <1>1, <1>3, <2>3, <3>3 DEF PutBack
    <3>5. QED BY <1>1, <1>2, <2>1, <3>2, <3>3, <3>4 DEF StepsAt, QueueStep, Changes
  <2>4. CASE position # "back"
    <3>1. PICK r2 : r2 = [r EXCEPT !.count = n, !.slots = [r.slots EXCEPT ![r.read] = x],
                                   !.read = PreviousSlot(q, r.read)]
      OBVIOUS
    <3>2. R = [Q EXCEPT ![q] = r2]
      BY <1>1, <1>2, <1>3, <1>5, <2>4, <3>1 DEF prvCopyDataToQueue, QueueType
    <3>3. /\ r2 \in QueueType(q) /\ r2.container = r.container /\ r2.txLock = r.txLock
          /\ r2.count = n /\ r2.slots = [r.slots EXCEPT ![r.read] = x]
          /\ r2.read = PreviousSlot(q, r.read) /\ r2.write = r.write
      BY <1>2, <2>1, <2>2, <3>1 DEF QueueType
    <3>4. PutFront(q, r, r2, x) \/ Overwritten(q, r, r2, x)
      <4>1. CASE position = "overwrite" /\ r.count > 0
        <5>1. n = r.count
          BY <1>3, <4>1
        <5>2. Length[q] = 1 /\ r.count = 1
          BY <1>5, <2>1, <4>1
        <5>3. QED BY <3>3, <5>1, <5>2 DEF Overwritten
      <4>2. CASE ~(position = "overwrite" /\ r.count > 0)
        <5>1. n = r.count + 1
          BY <1>3, <4>2
        <5>2. r.count # Length[q]
          BY <1>1, <1>5, <2>1, <4>2
        <5>3. QED BY <3>3, <5>1, <5>2 DEF PutFront
      <4>3. QED BY <4>1, <4>2
    <3>5. QED BY <1>1, <1>2, <2>1, <3>2, <3>3, <3>4 DEF StepsAt, QueueStep, Changes
  <2>5. QED BY <2>3, <2>4
<1>6. QED BY <1>4, <1>5

LEMMA TakeStep ==
  ASSUME QueueAssumption, NEW Q, RingsOK(Q), NEW q \in Queues, Q[q].count # 0
  PROVE  /\ StepsAt(Q, TakeItem(Q, q), q)
         /\ TakeItem(Q, q)[q].rxLock = Q[q].rxLock
<1> DEFINE R == TakeItem(Q, q)
<1>1. PICK r : r = Q[q]
  OBVIOUS
<1>2. r \in QueueType(q) /\ Q = [p \in Queues |-> Q[p]]
  BY <1>1 DEF RingsOK, RingOK
<1>3. CASE ~HasStorage(q)
  <2>1. PICK r2 : r2 = [r EXCEPT !.count = r.count - 1]
    OBVIOUS
  <2>2. r2 \in QueueType(q) /\ r2.rxLock = r.rxLock
    BY <1>2, <2>1 DEF QueueType
  <2>3. R = [Q EXCEPT ![q] = r2]
    BY <1>1, <1>2, <1>3, <2>1 DEF TakeItem
  <2>4. QED BY <1>1, <1>2, <1>3, <2>2, <2>3 DEF StepsAt, QueueStep
<1>4. CASE HasStorage(q)
  <2>1. PICK i : i = NextSlot(q, r.read)
    OBVIOUS
  <2>2. PICK r2 : r2 = [r EXCEPT !.count = r.count - 1, !.read = i,
                                 !.slots = [r.slots EXCEPT ![i] = NoItem]]
    OBVIOUS
  <2>3. i \in Slots(q)
    BY <1>2, <2>1, LengthType, QueueTypeFields, SlotsOfRing
  <2>4. R = [Q EXCEPT ![q] = r2]
    BY <1>1, <1>2, <1>4, <2>1, <2>2 DEF TakeItem, QueueType
  <2>5. /\ r2 \in QueueType(q) /\ r2.rxLock = r.rxLock
        /\ r2.count = r.count - 1 /\ r2.read = i /\ r2.write = r.write
        /\ r2.slots = [r.slots EXCEPT ![i] = NoItem]
    <3>1. PICK f : /\ f = [r.slots EXCEPT ![i] = NoItem]
                   /\ f \in [Slots(q) -> Items \cup Queues \cup {NoItem}]
      <4>1. r.slots \in [Slots(q) -> Items \cup Queues \cup {NoItem}]
        BY <1>2, QueueTypeFields
      <4>2. [r.slots EXCEPT ![i] = NoItem] \in [Slots(q) -> Items \cup Queues \cup {NoItem}]
        BY <2>3, <4>1
      <4>3. QED BY <4>2
    <3>2. r2 = [r EXCEPT !.count = r.count - 1, !.read = i, !.slots = f]
      BY <2>2, <3>1
    <3>3. PICK n \in Int : n = r.count - 1
      BY <1>2, QueueTypeFields
    <3>4. r2 = [r EXCEPT !.count = n, !.read = i, !.slots = f]
      BY <3>2, <3>3
    <3>5. /\ r2 \in QueueType(q) /\ r2.rxLock = r.rxLock
          /\ r2.count = n /\ r2.read = i /\ r2.write = r.write /\ r2.slots = f
      BY <1>2, <2>3, <3>1, <3>4 DEF QueueType
    <3>6. QED BY <3>1, <3>3, <3>5
  <2>6. Taken(q, r, r2)
    BY <1>1, <2>1, <2>5 DEF Taken
  <2>7. QED BY <1>1, <1>2, <2>4, <2>5, <2>6 DEF StepsAt, QueueStep, Changes
<1>5. QED BY <1>3, <1>4

\* A field of one queue that is not about its items changes.
LEMMA FieldStep ==
  ASSUME NEW Q, NEW R, NEW q \in Queues, StepsAt(Q, R, q), NEW r2,
         r2 \in QueueType(q), SameItems(R[q], r2)
  PROVE  StepsAt(Q, [R EXCEPT ![q] = r2], q)
<1>1. QueueStep(q, Q[q], r2)
  BY SameItemsStep DEF StepsAt
<1>2. QED BY <1>1 DEF StepsAt

LEMMA SameStepAt ==
  ASSUME NEW Q, RingsOK(Q), NEW q \in Queues
  PROVE  StepsAt(Q, Q, q)
  BY SameStep DEF RingsOK, StepsAt

LEMMA LockedStep ==
  ASSUME NEW Q, NEW R, NEW q \in Queues, StepsAt(Q, R, q)
  PROVE  /\ StepsAt(Q, prvIncrementQueueTxLock(R, q), q)
         /\ StepsAt(Q, prvIncrementQueueRxLock(R, q), q)
         /\ StepsAt(Q, prvLockQueue(R, q), q)
         /\ StepsAt(Q, [R EXCEPT ![q].txLock = queueUNLOCKED], q)
         /\ StepsAt(Q, [R EXCEPT ![q].rxLock = queueUNLOCKED], q)
         /\ StepsAt(Q, [R EXCEPT ![q].txLock = @ - 1], q)
         /\ StepsAt(Q, [R EXCEPT ![q].rxLock = @ - 1], q)
<1>1. PICK r : r = R[q] /\ r \in QueueType(q)
  BY DEF StepsAt, QueueStep
<1>2. PICK i \in Int, j \in Int : i = r.txLock /\ j = r.rxLock
  BY <1>1 DEF QueueType
<1>3. R = [p \in Queues |-> R[p]]
  BY DEF StepsAt
<1>4. \A k \in Int : /\ StepsAt(Q, [R EXCEPT ![q] = [r EXCEPT !.txLock = k]], q)
                     /\ StepsAt(Q, [R EXCEPT ![q] = [r EXCEPT !.rxLock = k]], q)
  BY <1>1, FieldsKeepType, FieldStep
<1>5. \A k \in Int : /\ StepsAt(Q, [R EXCEPT ![q].txLock = k], q)
                     /\ StepsAt(Q, [R EXCEPT ![q].rxLock = k], q)
  BY <1>1, <1>4
<1>6. /\ prvIncrementQueueTxLock(R, q) =
           [R EXCEPT ![q].txLock = IF i < os.numTasks THEN i + 1 ELSE i]
      /\ prvIncrementQueueRxLock(R, q) =
           [R EXCEPT ![q].rxLock = IF j < os.numTasks THEN j + 1 ELSE j]
  BY <1>1, <1>2, <1>3 DEF prvIncrementQueueTxLock, prvIncrementQueueRxLock
<1>7. PICK k \in Int, l \in Int :
        /\ k = (IF j = queueUNLOCKED THEN queueLOCKED_UNMODIFIED ELSE j)
        /\ l = (IF i = queueUNLOCKED THEN queueLOCKED_UNMODIFIED ELSE i)
  BY <1>2 DEF queueLOCKED_UNMODIFIED
<1>8. StepsAt(Q, prvLockQueue(R, q), q)
  <2>1. PICK r1, r2 : r1 = [r EXCEPT !.rxLock = k] /\ r2 = [r1 EXCEPT !.txLock = l]
    OBVIOUS
  <2>2. prvLockQueue(R, q) = [R EXCEPT ![q] = r2]
    <3>1. prvLockQueue(R, q) = [R EXCEPT ![q] = [r EXCEPT !.rxLock = k, !.txLock = l]]
      BY <1>1, <1>2, <1>3, <1>7 DEF prvLockQueue
    <3>2. r2 = [r EXCEPT !.rxLock = k, !.txLock = l]
      BY <1>1, <2>1 DEF QueueType
    <3>3. QED BY <3>1, <3>2
  <2>3. r2 \in QueueType(q) /\ SameItems(r, r2)
    <3>1. r1 \in QueueType(q) /\ SameItems(r, r1)
      BY <1>1, <2>1, FieldsKeepType
    <3>2. r2 \in QueueType(q) /\ SameItems(r1, r2)
      BY <2>1, <3>1, FieldsKeepType
    <3>3. QED BY <3>1, <3>2 DEF SameItems
  <2>4. StepsAt(Q, [R EXCEPT ![q] = r2], q)
    BY <1>1, <2>3, FieldStep
  <2>5. QED BY <2>2, <2>4
<1>9. /\ [R EXCEPT ![q].txLock = @ - 1] = [R EXCEPT ![q].txLock = i - 1]
      /\ [R EXCEPT ![q].rxLock = @ - 1] = [R EXCEPT ![q].rxLock = j - 1]
  <2>1. R[q].txLock = i /\ R[q].rxLock = j
    BY <1>1, <1>2
  <2>2. [R EXCEPT ![q].txLock = @ - 1] = [R EXCEPT ![q].txLock = i - 1]
    BY <1>3, <2>1
  <2>3. [R EXCEPT ![q].rxLock = @ - 1] = [R EXCEPT ![q].rxLock = j - 1]
    BY <1>3, <2>1
  <2>4. QED BY <2>2, <2>3
<1>10. /\ StepsAt(Q, prvIncrementQueueTxLock(R, q), q)
       /\ StepsAt(Q, prvIncrementQueueRxLock(R, q), q)
  <2>1. /\ (IF i < os.numTasks THEN i + 1 ELSE i) \in Int
        /\ (IF j < os.numTasks THEN j + 1 ELSE j) \in Int
    BY <1>2
  <2>2. QED BY <1>5, <1>6, <2>1
<1>11. /\ StepsAt(Q, [R EXCEPT ![q].txLock = @ - 1], q)
       /\ StepsAt(Q, [R EXCEPT ![q].rxLock = @ - 1], q)
  <2>1. /\ StepsAt(Q, [R EXCEPT ![q].txLock = i - 1], q)
        /\ StepsAt(Q, [R EXCEPT ![q].rxLock = j - 1], q)
    <3>1. i - 1 \in Int /\ j - 1 \in Int
      BY <1>2
    <3>2. QED BY <1>5, <3>1
  <2>2. QED BY <1>9, <2>1
<1>12. /\ StepsAt(Q, [R EXCEPT ![q].txLock = queueUNLOCKED], q)
       /\ StepsAt(Q, [R EXCEPT ![q].rxLock = queueUNLOCKED], q)
  <2>1. queueUNLOCKED \in Int
    BY DEF queueUNLOCKED
  <2>2. QED BY <1>5, <2>1
<1>13. QED BY <1>8, <1>10, <1>11, <1>12

\* Two steps that change different queues make one.
LEMMA ComposeSteps ==
  ASSUME NEW Q, NEW R, NEW S, Steps(Q, R), Steps(R, S),
         \A q \in Queues : R[q] = Q[q] \/ S[q] = R[q]
  PROVE  Steps(Q, S)
  BY DEF Steps

LEMMA NotifyStep ==
  ASSUME QueueAssumption, NEW k, NEW Q, RingsOK(Q), NEW q \in Queues,
         Q[q].container # NoQueue
  PROVE  /\ Kind[q] # "set" /\ Kind[Q[q].container] = "set"
         /\ Steps(Q, prvNotifyQueueSetContainer(k, Q, q).queues)
         /\ prvNotifyQueueSetContainer(k, Q, q).queues[q] = Q[q]
<1>1. PICK s : s = Q[q].container
  OBVIOUS
<1>2. s \in Queues /\ Kind[s] = "set" /\ Kind[q] # "set"
  BY <1>1 DEF RingsOK, RingOK, QueueType
<1>3. q \in ValuesOf(s)
  BY <1>2 DEF ValuesOf
<1>4. PICK C, R : /\ C = prvCopyDataToQueue(Q, s, q, "back")
                  /\ R = prvNotifyQueueSetContainer(k, Q, q).queues
  OBVIOUS
<1>5. StepsAt(Q, R, s)
  <2>1. CASE Q[s].count = Length[s]
    <3>1. R = Q
      BY <1>1, <1>4, <2>1 DEF prvNotifyQueueSetContainer
    <3>2. QED BY <1>2, <3>1, SameStepAt
  <2>2. CASE Q[s].count # Length[s]
    <3>1. StepsAt(Q, C, s)
      BY <1>2, <1>3, <1>4, <2>2, CopyStep
    <3>2. StepsAt(Q, prvIncrementQueueTxLock(C, s), s)
      BY <1>2, <3>1, LockedStep
    <3>3. R = C \/ R = prvIncrementQueueTxLock(C, s)
      BY <1>1, <1>4, <2>2 DEF prvNotifyQueueSetContainer
    <3>4. QED BY <3>1, <3>2, <3>3
  <2>3. QED BY <2>1, <2>2
<1>6. Steps(Q, R) /\ R[q] = Q[q]
  BY <1>2, <1>5, StepAt DEF StepsAt
<1>7. QED BY <1>1, <1>2, <1>4, <1>6

LEMMA AnnounceStep ==
  ASSUME QueueAssumption, NEW k, NEW Q, NEW R, RingsOK(Q), NEW q \in Queues,
         StepsAt(Q, R, q)
  PROVE  /\ Steps(Q, Announce(k, R, q).queues)
         /\ Announce(k, R, q).queues[q] = R[q]
<1>1. Steps(Q, R) /\ RingsOK(R)
  BY StepAt, StepsKeepRings
<1>2. CASE R[q].container = NoQueue
  BY <1>1, <1>2 DEF Announce
<1>3. CASE R[q].container # NoQueue
  <2>1. Announce(k, R, q) = prvNotifyQueueSetContainer(k, R, q)
    BY <1>3 DEF Announce
  <2>2. PICK S : /\ S = Announce(k, R, q).queues
                 /\ Steps(R, S) /\ S[q] = R[q]
    BY <1>1, <1>3, <2>1, NotifyStep
  <2>3. Steps(Q, S)
    BY <1>1, <2>2, ComposeSteps DEF StepsAt
  <2>4. QED BY <2>2, <2>3
<1>4. QED BY <1>2, <1>3

\* What an attempt to send makes of the queues.
Sent(Q, q, x, position) ==
  [prvCopyDataToQueue(Q, q, x, position) EXCEPT ![q].holder = NoTask, ![q].recursion = 0]

LEMMA SentStep ==
  ASSUME QueueAssumption, NEW Q, RingsOK(Q), NEW q \in Queues, NEW x, NEW position,
         HasStorage(q) => x \in ValuesOf(q),
         Q[q].count # Length[q] \/ position = "overwrite",
         position = "overwrite" /\ HasStorage(q) => Length[q] = 1
  PROVE  StepsAt(Q, Sent(Q, q, x, position), q)
<1>1. PICK C, r, r2 : /\ C = prvCopyDataToQueue(Q, q, x, position) /\ r = C[q]
                      /\ r2 = [r EXCEPT !.holder = NoTask, !.recursion = 0]
  OBVIOUS
<1>2. StepsAt(Q, C, q)
  BY <1>1, CopyStep
<1>3. r \in QueueType(q) /\ C = [p \in Queues |-> C[p]]
  BY <1>1, <1>2 DEF StepsAt, QueueStep
<1>4. r2 \in QueueType(q) /\ SameItems(r, r2)
  <2>1. 0 \in Int
    OBVIOUS
  <2>2. QED BY <1>1, <1>3, <2>1, HolderKeepsType
<1>5. Sent(Q, q, x, position) = [C EXCEPT ![q] = r2]
  BY <1>1, <1>3 DEF Sent
<1>6. StepsAt(Q, [C EXCEPT ![q] = r2], q)
  BY <1>1, <1>2, <1>4, FieldStep
<1>7. QED BY <1>5, <1>6

\* What an attempt to take a semaphore or a mutex makes of them.
TakenFrom(Q, q, t, op) ==
  TakeItem(IF Kind[q] = "mutex"
             THEN [Q EXCEPT ![q].holder = t,
                            ![q].recursion = IF op = "takeRecursive" THEN @ + 1 ELSE @]
             ELSE Q, q)

LEMMA TakenFromStep ==
  ASSUME QueueAssumption, NEW Q, RingsOK(Q), NEW q \in Queues, Q[q].count # 0,
         NEW t \in Tasks, NEW op
  PROVE  StepsAt(Q, TakenFrom(Q, q, t, op), q)
<1>1. CASE Kind[q] # "mutex"
  BY <1>1, TakeStep DEF TakenFrom
<1>2. CASE Kind[q] = "mutex"
  <2>1. PICK r : r = Q[q] /\ r \in QueueType(q) /\ Q = [p \in Queues |-> Q[p]]
    BY DEF RingsOK, RingOK
  <2>2. PICK n \in Int :
          n = IF op = "takeRecursive" THEN r.recursion + 1 ELSE r.recursion
    BY <2>1 DEF QueueType
  <2>3. ~HasStorage(q)
    BY <1>2 DEF HasStorage
  <2>4. PICK r2 : r2 = [r EXCEPT !.holder = t, !.recursion = n]
    OBVIOUS
  <2>5. r2 \in QueueType(q) /\ r2.count = r.count
    <3>1. r2 \in QueueType(q) /\ SameItems(r, r2)
      BY <2>1, <2>2, <2>3, <2>4, HolderKeepsType
    <3>2. QED BY <3>1 DEF SameItems
  <2>6. PICK R : R = [Q EXCEPT ![q] = r2]
    OBVIOUS
  <2>7. TakenFrom(Q, q, t, op) = TakeItem(R, q)
    <3>1. [Q EXCEPT ![q].holder = t,
                    ![q].recursion = IF op = "takeRecursive" THEN @ + 1 ELSE @] = R
      BY <2>1, <2>2, <2>4, <2>6
    <3>2. QED BY <1>2, <3>1 DEF TakenFrom
  <2>8. RingsOK(R) /\ R[q] = r2 /\ \A p \in Queues : p # q => R[p] = Q[p]
    BY <2>1, <2>3, <2>5, <2>6 DEF RingsOK, RingOK
  <2>9. StepsAt(R, TakeItem(R, q), q)
    BY <2>1, <2>5, <2>8, TakeStep
  <2>10. StepsAt(Q, TakeItem(R, q), q)
    BY <2>3, <2>8, <2>9 DEF StepsAt, QueueStep
  <2>11. QED BY <2>7, <2>10
<1>3. QED BY <1>1, <1>2

LEMMA ReceivedFromISRStep ==
  ASSUME QueueAssumption, NEW k, NEW Q, RingsOK(Q), NEW q \in Queues, Q[q].count # 0
  PROVE  StepsAt(Q, ReceivedFromISR(k, Q, q).queues, q)
<1>1. PICK R : R = TakeItem(Q, q) /\ StepsAt(Q, R, q)
  BY TakeStep
<1>2. StepsAt(Q, prvIncrementQueueRxLock(R, q), q)
  BY <1>1, LockedStep
<1>3. QED BY <1>1, <1>2 DEF ReceivedFromISR

\* The front of a queue that is not empty is an item of it.
LEMMA FrontItemType ==
  ASSUME QueueAssumption, RingsOK(queue), NEW q \in Queues, HasStorage(q),
         queue[q].count # 0
  PROVE  FrontItem(q) \in ValuesOf(q)
<1>1. PICK r : r = queue[q] /\ r \in QueueType(q) /\ InOrder(q, r)
  BY DEF RingsOK, RingOK
<1>2. /\ Length[q] \in Nat /\ Length[q] > 0 /\ r.read \in Slots(q)
      /\ r.count \in 0..Length[q] /\ r.count # 0
  BY <1>1, LengthType, QueueTypeFields DEF InOrder
<1>3. SlotAfter(q, r.read, 1) = NextSlot(q, r.read)
  BY <1>2 DEF SlotAfter, NextSlot, Slots
<1>4. 1 \in 1..r.count
  BY <1>2
<1>5. r.slots[SlotAfter(q, r.read, 1)] \in ValuesOf(q)
  BY <1>1, <1>4 DEF InOrder
<1>6. QED BY <1>1, <1>3, <1>5 DEF FrontItem

-----------------------------------------------------------------------------
(* The calls in progress.                                                  *)

QueueLocations ==
  {"queueTry", "queueSuspend", "queueLock", "queueCheck", "queueUnlockTx",
   "queueUnlockRx", "queueResume", "queueResumed", "queueDisinherit", "removeFromSet"}

IsCall(c) ==
  c = [op |-> c.op, queue |-> c.queue, item |-> c.item, ticks |-> c.ticks,
       timed |-> c.timed, timeOut |-> c.timeOut, then |-> c.then,
       inherited |-> c.inherited]

\* A call in progress is about a queue that its operation is for.
CallOK(c) ==
  /\ IsCall(c)
  /\ c.op # "none" => c.queue \in Queues
  /\ Sends(c.op) /\ HasStorage(c.queue) => c.item \in ValuesOf(c.queue)
  /\ c.op = "overwrite" /\ HasStorage(c.queue) => Length[c.queue] = 1

CallsOK ==
  /\ call = [t \in Tasks |-> call[t]] /\ pc = [t \in Tasks |-> pc[t]]
  /\ \A t \in Tasks : /\ CallOK(call[t])
                      /\ pc[t] \in QueueLocations => call[t].op # "none"

\* The inductive invariant.
QueueIInv == RingsOK(queue) /\ CallsOK

LEMMA NewCallOK ==
  ASSUME NEW op, NEW q \in Queues, NEW x, NEW n, op # "none",
         Sends(op) /\ HasStorage(q) => x \in ValuesOf(q),
         op = "overwrite" /\ HasStorage(q) => Length[q] = 1
  PROVE  CallOK(NewCall(op, q, x, n)) /\ NewCall(op, q, x, n).op # "none"
<1>1. PICK c : c = NewCall(op, q, x, n)
  OBVIOUS
<1>2. IsCall(c)
  BY <1>1 DEF NewCall, NoCall, IsCall
<1>3. c.op = op /\ c.queue = q /\ c.item = x
  BY <1>1 DEF NewCall, NoCall
<1>4. CallOK(c)
  BY <1>2, <1>3 DEF CallOK
<1>5. QED BY <1>1, <1>3, <1>4

LEMMA NoCallOK == CallOK(NoCall)
  BY DEF NoCall, CallOK, IsCall, Sends, Positions

\* What a call notes of its progress.
SameCall(c, c2) ==
  /\ IsCall(c2)
  /\ c2.op = c.op /\ c2.queue = c.queue /\ c2.item = c.item

LEMMA SameCallOK ==
  ASSUME NEW c, NEW c2, CallOK(c), SameCall(c, c2)
  PROVE  CallOK(c2) /\ c2.op = c.op
  BY DEF CallOK, SameCall

LEMMA FieldOfCall ==
  ASSUME NEW c, IsCall(c), NEW x
  PROVE  /\ SameCall(c, [c EXCEPT !.ticks = x]) /\ SameCall(c, [c EXCEPT !.timed = x])
         /\ SameCall(c, [c EXCEPT !.timeOut = x]) /\ SameCall(c, [c EXCEPT !.then = x])
         /\ SameCall(c, [c EXCEPT !.inherited = x])
<1>1. SameCall(c, [c EXCEPT !.ticks = x])
  BY DEF IsCall, SameCall
<1>2. SameCall(c, [c EXCEPT !.timed = x])
  BY DEF IsCall, SameCall
<1>3. SameCall(c, [c EXCEPT !.timeOut = x])
  BY DEF IsCall, SameCall
<1>4. SameCall(c, [c EXCEPT !.then = x])
  BY DEF IsCall, SameCall
<1>5. SameCall(c, [c EXCEPT !.inherited = x])
  BY DEF IsCall, SameCall
<1>6. QED BY <1>1, <1>2, <1>3, <1>4, <1>5

LEMMA FieldsOfCall ==
  ASSUME NEW c, IsCall(c), NEW x, NEW y
  PROVE  /\ SameCall(c, [c EXCEPT !.ticks = x, !.timeOut = y])
         /\ SameCall(c, [c EXCEPT !.timed = x, !.timeOut = y])
         /\ SameCall(c, [c EXCEPT !.then = x, !.inherited = y])
<1>1. PICK c1, c2, c3 : /\ c1 = [c EXCEPT !.ticks = x] /\ c2 = [c EXCEPT !.timed = x]
                        /\ c3 = [c EXCEPT !.then = x]
  OBVIOUS
<1>2. SameCall(c, c1) /\ SameCall(c, c2) /\ SameCall(c, c3)
  BY <1>1, FieldOfCall
<1>3. /\ SameCall(c1, [c1 EXCEPT !.timeOut = y]) /\ SameCall(c2, [c2 EXCEPT !.timeOut = y])
      /\ SameCall(c3, [c3 EXCEPT !.inherited = y])
  BY <1>2, FieldOfCall DEF SameCall
<1>4. /\ SameCall(c, [c1 EXCEPT !.timeOut = y]) /\ SameCall(c, [c2 EXCEPT !.timeOut = y])
      /\ SameCall(c, [c3 EXCEPT !.inherited = y])
  BY <1>2, <1>3 DEF SameCall
<1>5. /\ [c EXCEPT !.ticks = x, !.timeOut = y] = [c1 EXCEPT !.timeOut = y]
      /\ [c EXCEPT !.timed = x, !.timeOut = y] = [c2 EXCEPT !.timeOut = y]
      /\ [c EXCEPT !.then = x, !.inherited = y] = [c3 EXCEPT !.inherited = y]
  BY <1>1
<1>6. QED BY <1>4, <1>5

LEMMA StepKeepsCalls ==
  ASSUME CallsOK, NEW t, NEW p, NEW c, Step(t, p, c), CallOK(c),
         p \in QueueLocations => c.op # "none"
  PROVE  CallsOK'
  BY DEF CallsOK, Step, Goto

LEMMA SameCallKeepsCalls ==
  ASSUME CallsOK, NEW t \in Tasks, NEW p, UNCHANGED call,
         UNCHANGED pc \/ (Goto(t, p) /\ call[t].op # "none")
  PROVE  CallsOK'
  BY DEF CallsOK, Goto

LEMMA ReturnKeepsCalls ==
  ASSUME CallsOK, NEW t, Return(t)
  PROVE  CallsOK'
<1>1. Step(t, "app", NoCall) /\ "app" \notin QueueLocations
  BY DEF Return, QueueLocations
<1>2. QED BY <1>1, NoCallOK, StepKeepsCalls

\* What every step of the specification does.
Kept == Steps(queue, queue') /\ CallsOK'

LEMMA SameQueues ==
  ASSUME RingsOK(queue), UNCHANGED queue
  PROVE  Steps(queue, queue')
  BY SameStep DEF RingsOK, Steps

\* A call in progress, before or after its first attempt.
Active(c) == CallOK(c) /\ c.op # "none"

LEMMA GiveUpOrWaitKeeps ==
  ASSUME QueueIInv, NEW t \in Tasks, NEW c, Active(c), GiveUpOrWait(t, c)
  PROVE  Kept
<1>1. RingsOK(queue) /\ CallsOK /\ CallOK(c) /\ c.op # "none" /\ UNCHANGED queue
  BY DEF QueueIInv, Active, GiveUpOrWait
<1>2. CallsOK'
  <2>1. CASE Return(t)
    BY <1>1, <2>1, ReturnKeepsCalls
  <2>2. CASE ~Return(t)
    <3>1. PICK x : x = EntryTime(c.ticks)
      OBVIOUS
    <3>2. Step(t, "queueSuspend",
               IF c.timed THEN c ELSE [c EXCEPT !.timed = TRUE, !.timeOut = x])
      BY <2>2, <3>1 DEF GiveUpOrWait
    <3>3. PICK c2 : /\ c2 = [c EXCEPT !.timed = TRUE, !.timeOut = x]
                    /\ SameCall(c, c2)
      BY <1>1, FieldsOfCall DEF CallOK
    <3>4. CallOK(c2) /\ c2.op # "none"
      BY <1>1, <3>3, SameCallOK
    <3>5. Step(t, "queueSuspend", c) \/ Step(t, "queueSuspend", c2)
      BY <3>2, <3>3
    <3>6. QED BY <1>1, <3>4, <3>5, StepKeepsCalls
  <2>3. QED BY <2>1, <2>2
<1>3. QED BY <1>1, <1>2, SameQueues DEF Kept

LEMMA SendNowKeeps ==
  ASSUME QueueAssumption, QueueIInv, NEW t \in Tasks, NEW c, Active(c), Sends(c.op),
         ~IsFull(c.queue) \/ c.op = "overwrite", SendNow(t, c)
  PROVE  Kept
<1>1. /\ RingsOK(queue) /\ CallsOK /\ CallOK(c) /\ c.op # "none" /\ Return(t)
  BY DEF QueueIInv, Active, SendNow
<1>2. PICK q, R : q = c.queue /\ R = Sent(queue, q, c.item, c.op)
  OBVIOUS
<1>3. /\ q \in Queues /\ (HasStorage(q) => c.item \in ValuesOf(q))
      /\ (c.op = "overwrite" /\ HasStorage(q) => Length[q] = 1)
      /\ (queue[q].count # Length[q] \/ c.op = "overwrite")
  BY <1>1, <1>2 DEF CallOK, IsFull
<1>4. StepsAt(queue, R, q)
  BY <1>1, <1>2, <1>3, SentStep
<1>5. Steps(queue, R) /\ \A k : Steps(queue, Announce(k, R, q).queues)
  BY <1>1, <1>3, <1>4, StepAt, AnnounceStep
<1>6. queue' = R \/ \E k : queue' = Announce(k, R, q).queues
  BY <1>2 DEF SendNow, Sent
<1>7. CallsOK'
  BY <1>1, ReturnKeepsCalls
<1>8. QED BY <1>5, <1>6, <1>7 DEF Kept

LEMMA AttemptKeeps ==
  ASSUME QueueAssumption, QueueIInv, NEW t \in Tasks, NEW c, Active(c), Attempt(t, c)
  PROVE  Kept
<1>1. PICK q : /\ q = c.queue /\ q \in Queues
  BY DEF Active, CallOK
<1>2. RingsOK(queue) /\ CallsOK
  BY DEF QueueIInv
<1>3. CASE GiveUpOrWait(t, c)
  BY <1>3, GiveUpOrWaitKeeps
<1>4. CASE Sends(c.op) /\ ~GiveUpOrWait(t, c)
  BY <1>4, SendNowKeeps DEF Attempt, SendAttempt
<1>5. CASE ~Sends(c.op) /\ ~GiveUpOrWait(t, c)
  <2>1. queue[q].count # 0 /\ (ReceiveNow(t, c) \/ PeekNow(t, c) \/ TakeNow(t, c))
    BY <1>1, <1>5 DEF Attempt, ReceiveAttempt, IsVacant
  <2>2. CallsOK'
    BY <1>2, <2>1, ReturnKeepsCalls DEF ReceiveNow, PeekNow, TakeNow
  <2>3. \/ queue' = TakeItem(queue, q) \/ UNCHANGED queue
        \/ queue' = TakenFrom(queue, q, t, c.op)
    BY <1>1, <2>1 DEF ReceiveNow, PeekNow, TakeNow, TakenFrom
  <2>4. /\ Steps(queue, TakeItem(queue, q)) /\ Steps(queue, TakenFrom(queue, q, t, c.op))
        /\ Steps(queue, queue)
    BY <1>1, <1>2, <2>1, TakeStep, TakenFromStep, SameStepAt, StepAt
  <2>5. QED BY <2>2, <2>3, <2>4 DEF Kept
<1>6. QED BY <1>3, <1>4, <1>5

\* A step of a call that changes no queue and goes on with the same call.
LEMMA GoesOnKeeps ==
  ASSUME QueueIInv, NEW t \in Tasks, NEW p, NEW c, Step(t, p, c), SameCall(call[t], c),
         pc[t] \in QueueLocations
  PROVE  CallsOK'
<1>1. CallsOK /\ CallOK(call[t]) /\ call[t].op # "none"
  BY DEF QueueIInv, CallsOK
<1>2. CallOK(c) /\ c.op # "none"
  BY <1>1, SameCallOK
<1>3. QED BY <1>1, <1>2, StepKeepsCalls

LEMMA QueueLocksKeeps ==
  ASSUME QueueAssumption, QueueIInv, NEW t \in Tasks, QueueLocks(t)
  PROVE  Kept
<1>1. PICK c : c = call[t]
  OBVIOUS
<1>2. PICK x, y : x = TicksLeftToWait(os, c.timeOut, c.ticks)
                  /\ y = TimeOutAfterCheck(os, c.timeOut, c.ticks)
  OBVIOUS
<1>3. pc[t] \in QueueLocations /\ pc[t] = "queueLock"
  BY DEF QueueLocks, At, QueueLocations
<1>4. RingsOK(queue) /\ CallOK(c) /\ c.op # "none" /\ c.queue \in Queues
  BY <1>1, <1>3 DEF QueueIInv, CallsOK, CallOK
<1>5. PICK c2, c3 : /\ c2 = [c EXCEPT !.ticks = x, !.timeOut = y]
                    /\ c3 = [c2 EXCEPT !.then = "expired"]
  OBVIOUS
<1>6. SameCall(c, c2) /\ SameCall(c, c3)
  <2>1. SameCall(c, c2)
    BY <1>4, <1>5, FieldsOfCall DEF CallOK
  <2>2. SameCall(c2, c3)
    <3>1. IsCall(c2)
      BY <2>1 DEF SameCall
    <3>2. QED BY <1>5, <3>1, FieldOfCall
  <2>3. QED BY <2>1, <2>2 DEF SameCall
<1>7. [c EXCEPT !.ticks = TicksLeftToWait(os, c.timeOut, @),
                !.timeOut = TimeOutAfterCheck(os, @, c.ticks)] = c2
  BY <1>2, <1>5
<1>8. Step(t, "queueUnlockTx", c3) \/ Step(t, "queueCheck", c2)
  BY <1>1, <1>5, <1>7 DEF QueueLocks
<1>9. CallsOK'
  BY <1>1, <1>3, <1>6, <1>8, GoesOnKeeps
<1>10. Steps(queue, prvLockQueue(queue, c.queue))
  BY <1>4, SameStepAt, LockedStep, StepAt
<1>11. queue' = prvLockQueue(queue, c.queue)
  BY <1>1 DEF QueueLocks
<1>12. QED BY <1>9, <1>10, <1>11 DEF Kept

LEMMA QueueBlocksKeeps ==
  ASSUME QueueAssumption, QueueIInv, NEW t \in Tasks, QueueBlocks(t)
  PROVE  Kept
<1>1. PICK c, x : /\ c = call[t]
                  /\ x = (Kind[c.queue] = "mutex" /\ ~Sends(c.op)
                          /\ InheritanceOccurs(os, queue[c.queue].holder))
  OBVIOUS
<1>2. pc[t] \in QueueLocations /\ pc[t] = "queueCheck" /\ UNCHANGED queue
  BY DEF QueueBlocks, At, QueueLocations
<1>3. RingsOK(queue) /\ CallOK(c)
  BY <1>1, <1>2 DEF QueueIInv, CallsOK
<1>4. /\ SameCall(c, [c EXCEPT !.then = "block", !.inherited = x])
      /\ SameCall(c, [c EXCEPT !.then = "retry"])
  BY <1>3, FieldOfCall, FieldsOfCall DEF CallOK
<1>5. \/ Step(t, "queueUnlockTx", [c EXCEPT !.then = "block", !.inherited = x])
      \/ Step(t, "queueUnlockTx", [c EXCEPT !.then = "retry"])
  BY <1>1 DEF QueueBlocks
<1>6. CallsOK'
  BY <1>1, <1>2, <1>4, <1>5, GoesOnKeeps
<1>7. QED BY <1>2, <1>3, <1>6, SameQueues DEF Kept

LEMMA UnlockTxKeeps ==
  ASSUME QueueAssumption, QueueIInv, NEW t \in Tasks, UnlockTx(t)
  PROVE  Kept
<1>1. PICK q : q = call[t].queue
  OBVIOUS
<1>2. /\ RingsOK(queue) /\ CallsOK /\ q \in Queues /\ call[t].op # "none"
      /\ pc[t] \in QueueLocations
  BY <1>1 DEF UnlockTx, Unlocking, QueueIInv, CallsOK, CallOK, QueueLocations
<1>3. CallsOK'
  BY <1>2, SameCallKeepsCalls DEF UnlockTx
<1>4. PICK R : R = Announce(os, queue, q).queues
  OBVIOUS
<1>5. Steps(queue, R) /\ R[q] = queue[q]
  BY <1>2, <1>4, SameStepAt, AnnounceStep
<1>6. StepsAt(R, [R EXCEPT ![q].txLock = @ - 1], q)
  BY <1>2, <1>5, StepsKeepRings, SameStepAt, LockedStep
<1>7. Steps(queue, [R EXCEPT ![q].txLock = @ - 1])
  <2>1. PICK S : S = [R EXCEPT ![q].txLock = @ - 1] /\ StepsAt(R, S, q)
    BY <1>6
  <2>2. Steps(R, S)
    BY <1>2, <1>5, <2>1, StepsKeepRings, StepAt
  <2>3. \A p \in Queues : R[p] = queue[p] \/ S[p] = R[p]
    BY <1>5, <2>1 DEF StepsAt
  <2>4. Steps(queue, S)
    BY <1>5, <2>2, <2>3, ComposeSteps
  <2>5. QED BY <2>1, <2>4
<1>8. Steps(queue, [queue EXCEPT ![q].txLock = queueUNLOCKED])
  <2>1. StepsAt(queue, [queue EXCEPT ![q].txLock = queueUNLOCKED], q)
    BY <1>2, SameStepAt, LockedStep
  <2>2. QED BY <1>2, <2>1, StepAt
<1>9. \/ queue' = [R EXCEPT ![q].txLock = @ - 1]
      \/ queue' = [queue EXCEPT ![q].txLock = queueUNLOCKED]
  BY <1>1, <1>4 DEF UnlockTx
<1>10. QED BY <1>3, <1>7, <1>8, <1>9 DEF Kept

LEMMA UnlockRxKeeps ==
  ASSUME QueueAssumption, QueueIInv, NEW t \in Tasks, UnlockRx(t)
  PROVE  Kept
<1>1. PICK q : q = call[t].queue
  OBVIOUS
<1>2. /\ RingsOK(queue) /\ CallsOK /\ q \in Queues /\ call[t].op # "none"
      /\ pc[t] \in QueueLocations
  BY <1>1 DEF UnlockRx, Unlocking, QueueIInv, CallsOK, CallOK, QueueLocations
<1>3. CallsOK'
  BY <1>2, SameCallKeepsCalls DEF UnlockRx
<1>4. /\ Steps(queue, [queue EXCEPT ![q].rxLock = @ - 1])
      /\ Steps(queue, [queue EXCEPT ![q].rxLock = queueUNLOCKED])
  <2>1. /\ StepsAt(queue, [queue EXCEPT ![q].rxLock = @ - 1], q)
        /\ StepsAt(queue, [queue EXCEPT ![q].rxLock = queueUNLOCKED], q)
    BY <1>2, SameStepAt, LockedStep
  <2>2. QED BY <1>2, <2>1, StepAt
<1>5. \/ queue' = [queue EXCEPT ![q].rxLock = @ - 1]
      \/ queue' = [queue EXCEPT ![q].rxLock = queueUNLOCKED]
  BY <1>1 DEF UnlockRx
<1>6. QED BY <1>3, <1>4, <1>5 DEF Kept

LEMMA QueueResumedKeeps ==
  ASSUME QueueAssumption, QueueIInv, NEW t \in Tasks, QueueResumed(t)
  PROVE  Kept
<1>1. PICK c : c = call[t]
  OBVIOUS
<1>2. pc[t] \in QueueLocations /\ UNCHANGED queue
  BY DEF QueueResumed, At, QueueLocations
<1>3. RingsOK(queue) /\ CallsOK /\ CallOK(c)
  BY <1>1, <1>2 DEF QueueIInv, CallsOK
<1>4. SameCall(c, [c EXCEPT !.then = "none"]) /\ SameCall(c, c)
  BY <1>3, FieldOfCall DEF CallOK, SameCall
<1>5. \/ Step(t, "queueTry", [c EXCEPT !.then = "none"])
      \/ Step(t, "queueDisinherit", c)
      \/ Return(t)
  BY <1>1 DEF QueueResumed
<1>6. CallsOK'
  BY <1>1, <1>2, <1>3, <1>4, <1>5, GoesOnKeeps, ReturnKeepsCalls
<1>7. QED BY <1>2, <1>3, <1>6, SameQueues DEF Kept

\* The container of a queue is set or cleared.
LEMMA ContainerStep ==
  ASSUME RingsOK(queue), NEW q \in Queues, NEW s,
         s = NoQueue \/ (s \in Queues /\ Kind[s] = "set" /\ Kind[q] # "set")
  PROVE  Steps(queue, [queue EXCEPT ![q].container = s])
<1>1. PICK r, r2 : /\ r = queue[q] /\ r \in QueueType(q)
                   /\ queue = [p \in Queues |-> queue[p]]
                   /\ r2 = [r EXCEPT !.container = s]
  BY DEF RingsOK, RingOK
<1>2. r2 \in QueueType(q) /\ SameItems(r, r2)
  BY <1>1 DEF QueueType, SameItems
<1>3. [queue EXCEPT ![q].container = s] = [queue EXCEPT ![q] = r2]
  BY <1>1
<1>4. StepsAt(queue, [queue EXCEPT ![q] = r2], q)
  BY <1>1, <1>2, SameStepAt, FieldStep
<1>5. QED BY <1>3, <1>4, StepAt

LEMMA QueueContinueKeeps ==
  ASSUME QueueAssumption, QueueIInv, NEW t \in Tasks, QueueContinue(t)
  PROVE  Kept
<1>1. CallsOK /\ RingsOK(queue)
  BY DEF QueueIInv
<1>2. ASSUME pc[t] \in QueueLocations
      PROVE  CallOK(call[t]) /\ call[t].op # "none" /\ call[t].queue \in Queues
  BY <1>1, <1>2 DEF CallsOK, CallOK
<1>3. CASE QueueRetries(t)
  <2>1. pc[t] \in QueueLocations
    BY <1>3 DEF QueueRetries, At, QueueLocations
  <2>2. QED BY <1>2, <1>3, <2>1, AttemptKeeps DEF QueueRetries, Active
<1>4. CASE QueueSuspends(t) \/ QueueResumes(t)
  <2>1. /\ pc[t] \in QueueLocations /\ UNCHANGED <<queue, call>>
        /\ (Goto(t, "queueLock") \/ Goto(t, "queueResumed"))
    BY <1>4 DEF QueueSuspends, QueueResumes, At, QueueLocations
  <2>2. QED BY <1>1, <1>2, <2>1, SameCallKeepsCalls, SameQueues DEF Kept
<1>5. CASE QueueDisinherits(t)
  BY <1>1, <1>5, ReturnKeepsCalls, SameQueues DEF QueueDisinherits, Kept
<1>6. CASE QueueRemovedFromSet(t)
  <2>1. pc[t] \in QueueLocations /\ Return(t)
        /\ queue' = [queue EXCEPT ![call[t].queue].container = NoQueue]
    BY <1>6 DEF QueueRemovedFromSet, At, QueueLocations
  <2>2. QED BY <1>1, <1>2, <2>1, ReturnKeepsCalls, ContainerStep DEF Kept
<1>7. QED
  BY <1>3, <1>4, <1>5, <1>6, QueueLocksKeeps, QueueBlocksKeeps, UnlockTxKeeps,
     UnlockRxKeeps, QueueResumedKeeps DEF QueueContinue

\* A handler that puts an item into q.
LEMMA PutFromISRKeeps ==
  ASSUME QueueAssumption, QueueIInv, NEW q \in Queues, NEW x, NEW position,
         HasStorage(q) => x \in ValuesOf(q),
         position = "overwrite" /\ HasStorage(q) => Length[q] = 1,
         PutFromISR(q, x, position)
  PROVE  Kept
<1>1. RingsOK(queue) /\ (queue[q].count # Length[q] \/ position = "overwrite")
  BY DEF QueueIInv, PutFromISR, IsFull
<1>2. PICK R : R = prvCopyDataToQueue(queue, q, x, position) /\ StepsAt(queue, R, q)
  BY <1>1, CopyStep
<1>3. StepsAt(queue, prvIncrementQueueTxLock(R, q), q)
  BY <1>2, LockedStep
<1>4. /\ Steps(queue, R) /\ Steps(queue, prvIncrementQueueTxLock(R, q))
      /\ Steps(queue, Announce(os, R, q).queues)
  BY <1>1, <1>2, <1>3, StepAt, AnnounceStep
<1>5. queue' \in {R, prvIncrementQueueTxLock(R, q), Announce(os, R, q).queues}
  BY <1>2 DEF PutFromISR
<1>6. CallsOK'
  BY DEF QueueIInv, PutFromISR, CallsOK
<1>7. QED BY <1>4, <1>5, <1>6 DEF Kept

LEMMA SelectFromISRKeeps ==
  ASSUME QueueAssumption, QueueIInv, NEW s \in Queues, xQueueSelectFromSetFromISR(s)
  PROVE  Kept
<1>1. RingsOK(queue) /\ Kind[s] = "set" /\ HasStorage(s) /\ queue[s].count # 0
  BY DEF QueueIInv, xQueueSelectFromSetFromISR, HasStorage, IsVacant
<1>2. PICK m : m = FrontItem(s) /\ m \in Queues /\ m # s
  BY <1>1, FrontItemType DEF ValuesOf
<1>3. PICK n : n = ReceivedFromISR(os, queue, s) /\ StepsAt(queue, n.queues, s)
  BY <1>1, ReceivedFromISRStep
<1>4. PICK R : R = n.queues
  OBVIOUS
<1>5. Steps(queue, R) /\ RingsOK(R)
  BY <1>1, <1>3, <1>4, StepAt, StepsKeepRings
<1>6. CASE R[m].count = 0
  <2>1. queue' = R
    BY <1>2, <1>3, <1>4, <1>6 DEF xQueueSelectFromSetFromISR
  <2>2. CallsOK'
    BY DEF QueueIInv, xQueueSelectFromSetFromISR, CallsOK
  <2>3. QED BY <1>5, <2>1, <2>2 DEF Kept
<1>7. CASE R[m].count # 0
  <2>1. PICK S : /\ S = ReceivedFromISR(n.kernel, R, m).queues
                 /\ StepsAt(R, S, m)
    BY <1>2, <1>5, <1>7, ReceivedFromISRStep
  <2>2. Steps(R, S)
    BY <1>2, <1>5, <2>1, StepAt
  <2>3. \A p \in Queues : R[p] = queue[p] \/ S[p] = R[p]
    BY <1>2, <1>3, <1>4, <2>1 DEF StepsAt
  <2>4. Steps(queue, S)
    BY <1>5, <2>2, <2>3, ComposeSteps
  <2>5. queue' = S
    BY <1>2, <1>3, <1>4, <1>7, <2>1 DEF xQueueSelectFromSetFromISR
  <2>6. CallsOK'
    BY DEF QueueIInv, xQueueSelectFromSetFromISR, CallsOK
  <2>7. QED BY <2>4, <2>5, <2>6 DEF Kept
<1>8. QED BY <1>6, <1>7

LEMMA QueueHandlerKeeps ==
  ASSUME QueueAssumption, QueueIInv, NEW op, NEW q \in Queues, QueueHandler(op, q)
  PROVE  Kept
<1>1. ASSUME NEW x \in Items, NEW position, xQueueGenericSendFromISR(q, x, position)
      PROVE  Kept
  <2>1. x \in ValuesOf(q) /\ (position = "overwrite" => Length[q] = 1)
        /\ PutFromISR(q, x, position)
    BY <1>1 DEF xQueueGenericSendFromISR, ValuesOf
  <2>2. QED BY <2>1, PutFromISRKeeps
<1>2. CASE xQueueGiveFromISR(q)
  <2>1. ~HasStorage(q) /\ PutFromISR(q, NoItem, "back")
    BY <1>2 DEF xQueueGiveFromISR, HasStorage
  <2>2. QED BY <2>1, PutFromISRKeeps
<1>3. CASE xQueueReceiveFromISR(q)
  <2>1. RingsOK(queue) /\ queue[q].count # 0
        /\ queue' = ReceivedFromISR(os, queue, q).queues
    BY <1>3 DEF QueueIInv, xQueueReceiveFromISR, IsVacant
  <2>2. Steps(queue, ReceivedFromISR(os, queue, q).queues)
    BY <2>1, ReceivedFromISRStep, StepAt
  <2>3. CallsOK'
    BY <1>3 DEF QueueIInv, xQueueReceiveFromISR, CallsOK
  <2>4. QED BY <2>1, <2>2, <2>3 DEF Kept
<1>4. QED BY <1>1, <1>2, <1>3, SelectFromISRKeeps DEF QueueHandler

LEMMA ResetKeeps ==
  ASSUME QueueAssumption, QueueIInv, NEW t \in Tasks, NEW q \in Queues,
         xQueueGenericReset(t, q)
  PROVE  Kept
<1>1. RingsOK(queue) /\ CallsOK /\ UNCHANGED <<pc, call>>
  BY DEF QueueIInv, xQueueGenericReset
<1>2. PICK r : r = queue[q] /\ r \in QueueType(q) /\ queue = [p \in Queues |-> queue[p]]
  BY <1>1 DEF RingsOK, RingOK
<1>3. PICK r2 : r2 = [prvInitialiseNewQueue(q) EXCEPT !.container = r.container]
  OBVIOUS
<1>4. Length[q] \in Nat /\ Length[q] > 0
  BY LengthType
<1>5. [i \in 0..(Length[q] - 1) |-> NoItem]
        \in [Slots(q) -> Items \cup Queues \cup {NoItem}]
  BY DEF Slots
<1>6. 0 \in Slots(q) /\ Length[q] - 1 \in Slots(q)
  BY <1>4 DEF Slots
<1>7. r2 \in QueueType(q)
  <2>1. PICK f, n : /\ f = [i \in 0..(Length[q] - 1) |-> NoItem] /\ n = Length[q] - 1
                    /\ f \in [Slots(q) -> Items \cup Queues \cup {NoItem}]
                    /\ n \in Slots(q)
    BY <1>5, <1>6
  <2>2. r2 = [slots |-> f, write |-> 0, read |-> n, count |-> 0,
              rxLock |-> queueUNLOCKED, txLock |-> queueUNLOCKED, holder |-> NoTask,
              recursion |-> 0, container |-> r.container]
    BY <1>3, <2>1 DEF prvInitialiseNewQueue
  <2>3. queueUNLOCKED \in Int
    BY DEF queueUNLOCKED
  <2>4. QED BY <1>2, <1>6, <2>1, <2>2, <2>3 DEF QueueType
<1>8. Emptied(q, r2)
  BY <1>3 DEF prvInitialiseNewQueue, Emptied
<1>9. queue' = [queue EXCEPT ![q] = r2]
  BY <1>2, <1>3 DEF xQueueGenericReset
<1>10. StepsAt(queue, [queue EXCEPT ![q] = r2], q)
  BY <1>2, <1>7, <1>8 DEF StepsAt, QueueStep, Changes
<1>11. Steps(queue, queue')
  BY <1>1, <1>9, <1>10, StepAt
<1>12. CallsOK'
  BY <1>1 DEF CallsOK
<1>13. QED BY <1>11, <1>12 DEF Kept

\* The count of a recursive mutex changes, which has no storage.
LEMMA RecursionStep ==
  ASSUME QueueAssumption, TasksAssumption, RingsOK(queue), NEW t \in Tasks,
         NEW q \in Queues, queue[q].holder = t, NEW n \in {1, -1},
         queue' = [queue EXCEPT ![q].recursion = @ + n]
  PROVE  ~HasStorage(q) /\ Steps(queue, queue')
<1>1. PICK r : r = queue[q] /\ r \in QueueType(q) /\ queue = [p \in Queues |-> queue[p]]
  BY DEF RingsOK, RingOK
<1>2. ~HasStorage(q)
  BY <1>1 DEF QueueType, TasksAssumption
<1>3. PICK i \in Int : i = r.recursion + n
  BY <1>1 DEF QueueType
<1>4. PICK r2 : r2 = [r EXCEPT !.recursion = i]
  OBVIOUS
<1>5. r2 \in QueueType(q)
  BY <1>1, <1>4 DEF QueueType
<1>6. queue' = [queue EXCEPT ![q] = r2]
  BY <1>1, <1>3, <1>4
<1>7. StepsAt(queue, queue', q)
  BY <1>1, <1>2, <1>5, <1>6 DEF StepsAt, QueueStep
<1>8. QED BY <1>2, <1>7, StepAt

\* Application code begins a call.
LEMMA NewAttemptKeeps ==
  ASSUME QueueAssumption, QueueIInv, NEW t \in Tasks, NEW op, NEW q \in Queues, NEW x,
         NEW n, op # "none", Sends(op) /\ HasStorage(q) => x \in ValuesOf(q),
         op = "overwrite" /\ HasStorage(q) => Length[q] = 1,
         Attempt(t, NewCall(op, q, x, n))
  PROVE  Kept
<1>1. CallOK(NewCall(op, q, x, n)) /\ NewCall(op, q, x, n).op # "none"
  BY NewCallOK DEF Sends, Positions
<1>2. Active(NewCall(op, q, x, n))
  BY <1>1 DEF Active
<1>3. QED BY <1>2, AttemptKeeps

LEMMA QueueCallKeeps ==
  ASSUME QueueAssumption, TasksAssumption, QueueIInv, NEW t \in Tasks, NEW op,
         NEW q \in Queues, NEW n, QueueCall(t, op, q, n)
  PROVE  Kept
<1>1. CallsOK /\ RingsOK(queue)
  BY DEF QueueIInv
<1>2. ASSUME NEW x \in Items, op \in Positions, xQueueGenericSend(t, q, x, op, n)
      PROVE  Kept
  <2>1. /\ op # "none" /\ x \in ValuesOf(q) /\ (op = "overwrite" => Length[q] = 1)
        /\ Attempt(t, NewCall(op, q, x, n))
    BY <1>2 DEF xQueueGenericSend, Positions, ValuesOf
  <2>2. QED BY <2>1, NewAttemptKeeps
<1>3. CASE xQueueReceive(t, q, n) \/ xQueuePeek(t, q, n) \/ xQueueSemaphoreTake(t, q, n)
  <2>1. PICK o \in {"receive", "peek", "take"} : Attempt(t, NewCall(o, q, NoItem, n))
    BY <1>3 DEF xQueueReceive, xQueuePeek, xQueueSemaphoreTake
  <2>2. o # "none" /\ ~Sends(o) /\ o # "overwrite"
    BY DEF Sends, Positions
  <2>3. QED BY <2>1, <2>2, NewAttemptKeeps
<1>4. CASE xQueueTakeMutexRecursive(t, q, n)
  <2>1. CASE queue[q].holder = t
    <3>1. queue' = [queue EXCEPT ![q].recursion = @ + 1] /\ UNCHANGED <<pc, call>>
      BY <1>4, <2>1 DEF xQueueTakeMutexRecursive
    <3>2. Steps(queue, queue')
      BY <1>1, <2>1, <3>1, RecursionStep
    <3>3. QED BY <1>1, <3>1, <3>2 DEF Kept, CallsOK
  <2>2. CASE queue[q].holder # t
    <3>1. Attempt(t, NewCall("takeRecursive", q, NoItem, n))
      BY <1>4, <2>2 DEF xQueueTakeMutexRecursive
    <3>2. ~Sends("takeRecursive")
      BY DEF Sends, Positions
    <3>3. QED BY <3>1, <3>2, NewAttemptKeeps
  <2>3. QED BY <2>1, <2>2
<1>5. CASE xSemaphoreGive(t, q)
  <2>1. ~HasStorage(q) /\ Attempt(t, NewCall("back", q, NoItem, 0))
    BY <1>5 DEF xSemaphoreGive, HasStorage
  <2>2. QED BY <2>1, NewAttemptKeeps
<1>6. CASE xQueueGiveMutexRecursive(t, q)
  <2>1. queue[q].holder = t
    BY <1>6 DEF xQueueGiveMutexRecursive
  <2>2. CASE queue[q].recursion > 1
    <3>1. queue' = [queue EXCEPT ![q].recursion = @ - 1] /\ UNCHANGED <<pc, call>>
      BY <1>6, <2>2 DEF xQueueGiveMutexRecursive
    <3>2. queue' = [queue EXCEPT ![q].recursion = @ + -1]
      <4>1. PICK r : r = queue[q] /\ r.recursion \in Int
                     /\ queue = [p \in Queues |-> queue[p]]
        BY <1>1 DEF RingsOK, RingOK, QueueType
      <4>2. r.recursion - 1 = r.recursion + -1
        BY <4>1
      <4>3. QED BY <3>1, <4>1, <4>2
    <3>3. Steps(queue, queue')
      BY <1>1, <2>1, <3>2, RecursionStep
    <3>4. QED BY <1>1, <3>1, <3>3 DEF Kept, CallsOK
  <2>3. CASE ~(queue[q].recursion > 1)
    <3>1. Attempt(t, NewCall("back", q, NoItem, 0))
      BY <1>6, <2>3 DEF xQueueGiveMutexRecursive
    <3>2. ~HasStorage(q)
      BY <1>1, <2>1 DEF RingsOK, RingOK, QueueType, TasksAssumption
    <3>3. QED BY <3>1, <3>2, NewAttemptKeeps
  <2>4. QED BY <2>2, <2>3
<1>7. ASSUME NEW s \in Queues, xQueueAddToSet(t, q, s)
      PROVE  Kept
  <2>1. /\ Kind[s] = "set" /\ Kind[q] # "set" /\ UNCHANGED <<pc, call>>
        /\ queue' = [queue EXCEPT ![q].container = s]
    BY <1>7 DEF xQueueAddToSet
  <2>2. Steps(queue, queue')
    BY <1>1, <2>1, ContainerStep
  <2>3. QED BY <1>1, <2>1, <2>2 DEF Kept, CallsOK
<1>8. CASE xQueueRemoveFromSet(t, q)
  <2>1. /\ UNCHANGED queue
        /\ Step(t, "removeFromSet", NewCall("removeFromSet", q, NoItem, 0))
    BY <1>8 DEF xQueueRemoveFromSet
  <2>2. /\ CallOK(NewCall("removeFromSet", q, NoItem, 0))
        /\ NewCall("removeFromSet", q, NoItem, 0).op # "none"
    BY NewCallOK DEF Sends, Positions
  <2>3. CallsOK'
    BY <1>1, <2>1, <2>2, StepKeepsCalls
  <2>4. QED BY <1>1, <2>1, <2>3, SameQueues DEF Kept
<1>9. QED BY <1>2, <1>3, <1>4, <1>5, <1>6, <1>7, <1>8, ResetKeeps DEF QueueCall

-----------------------------------------------------------------------------
(* The steps of the scheduler, which know nothing of queues.               *)

\* Tasks only go to locations of the scheduler.
OwnLocations ==
  /\ pc' = [t \in Tasks |-> pc'[t]]
  /\ \A t \in Tasks : pc'[t] = pc[t] \/ pc'[t] \notin QueueLocations

LEMMA GotoOwn ==
  ASSUME pc = [t \in Tasks |-> pc[t]], NEW x, NEW p, p \notin QueueLocations, Goto(x, p)
  PROVE  OwnLocations
  BY DEF Goto, OwnLocations

LEMMA SchedulerLocations ==
  ASSUME pc = [t \in Tasks |-> pc[t]], SchedulerNext
  PROVE  OwnLocations
<1>1. /\ "none" \notin QueueLocations /\ "app" \notin QueueLocations
      /\ "delay" \notin QueueLocations /\ "delayUntil" \notin QueueLocations
      /\ "resumeThenYield" \notin QueueLocations
      /\ "yieldUnlessYielded" \notin QueueLocations
      /\ "resumeThenReturn" \notin QueueLocations
      /\ "suspendReset" \notin QueueLocations /\ "suspendYield" \notin QueueLocations
      /\ "abort" \notin QueueLocations /\ "abortEvent" \notin QueueLocations
      /\ "createYield" \notin QueueLocations /\ "deleteFree" \notin QueueLocations
      /\ "deleteYield" \notin QueueLocations /\ "deleted" \notin QueueLocations
  BY DEF QueueLocations
<1>2. UNCHANGED pc => OwnLocations
  BY DEF OwnLocations
<1>3. CASE Start
  BY <1>1, <1>3, GotoOwn DEF Start, CreateBeforeStart, vTaskStartScheduler
<1>4. CASE Interrupt \/ ContextSwitch \/ MaskedStep
  BY <1>2, <1>4 DEF Interrupt, TickISR, xTaskResumeFromISR, ContextSwitch, MaskedStep,
                    DrainPendingReady, FinishPendingReady, ProcessPendedTick,
                    FinishResumeAll, UnblockDelayed
<1>5. CASE IdleStep
  BY <1>1, <1>2, <1>5, GotoOwn DEF IdleStep, prvCheckTasksWaitingTermination, IdleYields
<1>6. ASSUME NEW t \in Tasks, Continue(t)
      PROVE  OwnLocations
  <2>1. CASE DeleteFrees(t)
    BY <1>1, <2>1 DEF DeleteFrees, OwnLocations
  <2>2. CASE ~DeleteFrees(t)
    BY <1>1, <1>2, <1>6, <2>2, GotoOwn
       DEF Continue, ResumeThenYield, YieldUnlessYielded, ResumeThenReturn, DelayBlocks,
           DelayUntilBlocks, SuspendResetsUnblockTime, SuspendYields,
           AbortUnlinksState, AbortMakesReady, CreateYields, DeleteYields
  <2>3. QED BY <2>1, <2>2
<1>7. ASSUME NEW t \in Tasks, Call(t)
      PROVE  OwnLocations
  <2>1. ASSUME NEW x \in Tasks, NEW p, xTaskCreate(t, x, p)
        PROVE  OwnLocations
    BY <1>1, <2>1 DEF xTaskCreate, OwnLocations
  <2>2. ASSUME NEW x \in Handles, vTaskDelete(t, x)
        PROVE  OwnLocations
    BY <1>1, <2>2 DEF vTaskDelete, OwnLocations
  <2>3. ASSUME NEW x \in Handles,
               \/ vTaskSuspend(t, x) \/ vTaskResume(t, x) \/ xTaskAbortDelay(t, x)
               \/ \E p \in NewPriorities : vTaskPrioritySet(t, x, p)
        PROVE  OwnLocations
    BY <1>1, <1>2, <2>3, GotoOwn
       DEF vTaskSuspend, vTaskResume, xTaskAbortDelay, vTaskPrioritySet
  <2>4. ASSUME NEW n, vTaskDelay(t, n) \/ xTaskDelayUntil(t, n)
        PROVE  OwnLocations
    BY <1>1, <1>2, <2>4, GotoOwn DEF vTaskDelay, xTaskDelayUntil
  <2>5. CASE taskYIELD(t) \/ SuspendScheduler(t) \/ ResumeScheduler(t)
    BY <1>2, <2>5 DEF taskYIELD, SuspendScheduler, ResumeScheduler
  <2>6. QED BY <1>7, <2>1, <2>2, <2>3, <2>4, <2>5 DEF Call
<1>8. QED BY <1>3, <1>4, <1>5, <1>6, <1>7 DEF SchedulerNext

LEMMA SchedulerKeeps ==
  ASSUME QueueIInv, SchedulerNext, UNCHANGED <<queue, call>>
  PROVE  Kept
<1>1. RingsOK(queue) /\ CallsOK
  BY DEF QueueIInv
<1>2. OwnLocations
  BY <1>1, SchedulerLocations DEF CallsOK
<1>3. CallsOK'
  BY <1>1, <1>2 DEF CallsOK, OwnLocations
<1>4. QED BY <1>1, <1>3, SameQueues DEF Kept

-----------------------------------------------------------------------------
(* The specification.                                                      *)

LEMMA QueueNextKeeps ==
  ASSUME QueueAssumption, TasksAssumption, QueueIInv, [QueueNext]_qvars
  PROVE  Kept
<1>1. CASE UNCHANGED qvars
  BY <1>1, SameQueues DEF qvars, QueueIInv, CallsOK, Kept
<1>2. CASE SchedulerNext /\ UNCHANGED <<queue, call, selected>>
  BY <1>2, SchedulerKeeps
<1>3. ASSUME NEW t \in Tasks, QueueContinue(t)
      PROVE  Kept
  BY <1>3, QueueContinueKeeps
<1>4. ASSUME NEW use \in TaskUses, QueueCall(use[1], use[2], use[3], use[4])
      PROVE  Kept
  <2>1. use[1] \in Tasks /\ use[3] \in Queues
    BY DEF QueueAssumption
  <2>2. QED BY <1>4, <2>1, QueueCallKeeps
<1>5. ASSUME NEW use \in HandlerUses, QueueHandler(use[1], use[2])
      PROVE  Kept
  <2>1. use[2] \in Queues
    BY DEF QueueAssumption
  <2>2. QED BY <1>5, <2>1, QueueHandlerKeeps
<1>6. QED BY <1>1, <1>2, <1>3, <1>4, <1>5 DEF QueueNext

LEMMA QueueInitInv ==
  ASSUME QueueAssumption, QueueInit
  PROVE  QueueIInv /\ \A q \in Queues : HasStorage(q) => queue[q].count = 0
<1>1. ASSUME NEW q \in Queues
      PROVE  /\ RingOK(q, NewQueue(q))
             /\ HasStorage(q) => NewQueue(q).count = 0
  <2>1. PICK L, f, n : /\ L = Length[q] /\ n = L - 1 /\ f = [i \in 0..(L - 1) |-> NoItem]
    OBVIOUS
  <2>2. L \in Nat /\ L > 0 /\ n \in Slots(q) /\ 0 \in Slots(q)
        /\ f \in [Slots(q) -> Items \cup Queues \cup {NoItem}]
    BY <2>1, LengthType DEF Slots
  <2>3. /\ Container[q] \in {s \in Queues : Kind[s] = "set" /\ Kind[q] # "set"} \cup {NoQueue}
        /\ Initially[q] \in Int /\ queueUNLOCKED \in Int
    BY DEF QueueAssumption, queueUNLOCKED
  <2>4. PICK m \in Int : m = IF Kind[q] = "mutex" THEN 1
                             ELSE IF Kind[q] = "semaphore" THEN Initially[q] ELSE 0
    BY <2>3
  <2>5. PICK r : r = NewQueue(q)
    OBVIOUS
  <2>6. r = [slots |-> f, write |-> 0, read |-> n, count |-> m, rxLock |-> queueUNLOCKED,
             txLock |-> queueUNLOCKED, holder |-> NoTask, recursion |-> 0,
             container |-> Container[q]]
    <3>1. CASE Kind[q] = "mutex"
      BY <2>1, <2>4, <2>5, <3>1 DEF NewQueue, prvInitialiseNewQueue, prvInitialiseMutex
    <3>2. CASE Kind[q] = "semaphore"
      BY <2>1, <2>4, <2>5, <3>2
         DEF NewQueue, prvInitialiseNewQueue, xQueueCreateCountingSemaphore
    <3>3. CASE Kind[q] # "mutex" /\ Kind[q] # "semaphore"
      BY <2>1, <2>4, <2>5, <3>3 DEF NewQueue, prvInitialiseNewQueue
    <3>4. QED BY <3>1, <3>2, <3>3
  <2>7. r \in QueueType(q)
    BY <2>2, <2>3, <2>6 DEF QueueType
  <2>8. ASSUME HasStorage(q) PROVE r.count = 0 /\ InOrder(q, r)
    <3>1. r.count = 0 /\ r.write = 0 /\ r.read = L - 1
      BY <2>1, <2>4, <2>6, <2>8 DEF HasStorage
    <3>2. QED BY <2>1, <2>2, <3>1 DEF InOrder, NextSlot, SlotAfter
  <2>9. QED BY <2>5, <2>7, <2>8 DEF RingOK
<1>2. RingsOK(queue)
  BY <1>1 DEF QueueInit, RingsOK
<1>3. CallsOK
  <2>1. /\ call = [t \in Tasks |-> NoCall] /\ pc = [t \in Tasks |-> "none"]
        /\ "none" \notin QueueLocations
    BY DEF QueueInit, SchedulerInit, QueueLocations
  <2>2. QED BY <2>1, NoCallOK DEF CallsOK
<1>4. QED BY <1>1, <1>2, <1>3 DEF QueueInit, QueueIInv

\* The inductive invariant holds in every reachable state.
THEOREM QueueInvariant == QueueSpec => []QueueIInv
<1>1. QueueInit => QueueIInv
  BY QueueAssumption, QueueInitInv
<1>2. QueueIInv /\ [QueueNext]_qvars => QueueIInv'
  <2>1. SUFFICES ASSUME QueueIInv, [QueueNext]_qvars PROVE QueueIInv'
    OBVIOUS
  <2>2. Steps(queue, queue') /\ CallsOK' /\ RingsOK(queue)
    BY <2>1, QueueAssumption, TasksAssumption, QueueNextKeeps DEF Kept, QueueIInv
  <2>3. RingsOK(queue')
    BY <2>2, QueueAssumption, StepsKeepRings
  <2>4. RingsOK(queue)'
    BY <2>3 DEF RingsOK
  <2>5. QED BY <2>2, <2>4 DEF QueueIInv
<1>3. QED BY <1>1, <1>2, PTL DEF QueueSpec

\* The queues of queue.rs are bounded first-in first-out queues: no interleaving
\* of tasks and interrupt handlers, no lock and no queue set makes an item get
\* lost, duplicated or overtaken, or a queue hold more than its length.
THEOREM QueuesAreFifos == QueueSpec => ImplementsFifo
<1>1. QueueInit => Fifo!Init
  <2>1. SUFFICES ASSUME QueueInit PROVE Fifo!Init
    OBVIOUS
  <2>2. \A q \in Stored : Contents(q) = <<>>
    <3>1. SUFFICES ASSUME NEW q \in Stored PROVE Contents(q) = <<>>
      OBVIOUS
    <3>2. queue[q].count = 0
      BY <2>1, QueueAssumption, QueueInitInv DEF Stored
    <3>3. QED BY <3>2 DEF Contents, ItemsIn
  <2>3. QED BY <2>2 DEF Fifo!Init
<1>2. QueueIInv /\ [QueueNext]_qvars => [Fifo!Next]_[q \in Stored |-> Contents(q)]
  <2>1. SUFFICES ASSUME QueueIInv, [QueueNext]_qvars PROVE Fifo!Next
    OBVIOUS
  <2>2. Steps(queue, queue') /\ RingsOK(queue)
    BY <2>1, QueueAssumption, TasksAssumption, QueueNextKeeps DEF Kept, QueueIInv
  <2>3. PICK f, g : f = [q \in Stored |-> Contents(q)] /\ g = [q \in Stored |-> Contents(q)]'
    OBVIOUS
  <2>4. ASSUME NEW q \in Stored
        PROVE  FifoStep(q, f[q], g[q])
    <3>1. q \in Queues /\ HasStorage(q)
      BY DEF Stored
    <3>2. FifoStep(q, ItemsIn(q, queue[q]), ItemsIn(q, queue'[q]))
      BY <2>2, <3>1, QueueAssumption, RingStep DEF RingsOK, Steps
    <3>3. f[q] = ItemsIn(q, queue[q]) /\ g[q] = ItemsIn(q, queue'[q])
      BY <2>3 DEF Contents, ItemsIn, Stored, HasStorage
    <3>4. QED BY <3>2, <3>3
  <2>5. QED BY <2>3, <2>4
        DEF Fifo!Next, Fifo!Put, Fifo!Overwrite, Fifo!Take, Fifo!Reset, FifoStep
<1>3. QED BY <1>1, <1>2, QueueInvariant, PTL DEF QueueSpec, ImplementsFifo, Fifo!Spec

-----------------------------------------------------------------------------
(* What the kernel's list handling leaves alone.                           *)

\* Which task has the processor, whether others may get it, and the priorities.
Keeps(k, r) ==
  /\ DOMAIN r = DOMAIN k
  /\ r.current = k.current /\ r.running = k.running /\ r.suspended = k.suspended
  /\ r.prio = k.prio /\ r.basePrio = k.basePrio /\ r.mutexesHeld = k.mutexesHeld

SamePriorities(k, r) ==
  /\ r.running = k.running
  /\ r.prio = k.prio /\ r.basePrio = k.basePrio /\ r.mutexesHeld = k.mutexesHeld

HasFields(k) ==
  {"current", "running", "suspended", "prio", "basePrio", "mutexesHeld"} \subseteq DOMAIN k

LEMMA SelfKept == ASSUME NEW k PROVE Keeps(k, k)
  BY DEF Keeps

LEMMA KeptAfterKept ==
  ASSUME NEW k, NEW r, NEW s, HasFields(k), Keeps(k, r), HasFields(r) => Keeps(r, s)
  PROVE  Keeps(k, s) /\ HasFields(s)
  BY DEF Keeps, HasFields

LEMMA FieldsKept ==
  ASSUME NEW k, HasFields(k), NEW v
  PROVE  /\ Keeps(k, [k EXCEPT !.fault = v])
         /\ Keeps(k, [k EXCEPT !.lists = v])
         /\ Keeps(k, [k EXCEPT !.stateList = v])
         /\ Keeps(k, [k EXCEPT !.eventList = v])
         /\ Keeps(k, [k EXCEPT !.wake = v])
         /\ Keeps(k, [k EXCEPT !.eventValue = v])
         /\ Keeps(k, [k EXCEPT !.notifyState = v])
         /\ Keeps(k, [k EXCEPT !.delayAborted = v])
         /\ Keeps(k, [k EXCEPT !.tick = v])
         /\ Keeps(k, [k EXCEPT !.nextUnblock = v])
         /\ Keeps(k, [k EXCEPT !.overflows = v])
         /\ Keeps(k, [k EXCEPT !.delayed = v])
         /\ Keeps(k, [k EXCEPT !.topReady = v])
         /\ Keeps(k, [k EXCEPT !.pendedTicks = v])
         /\ Keeps(k, [k EXCEPT !.yieldPending = v])
         /\ Keeps(k, [k EXCEPT !.numTasks = v])
         /\ Keeps(k, [k EXCEPT !.numDeleted = v])
         /\ Keeps(k, [k EXCEPT !.pendSV = v])
         /\ Keeps(k, [k EXCEPT !.stage = v])
         /\ Keeps(k, [k EXCEPT !.moved = v])
         /\ Keeps(k, [k EXCEPT !.switchReq = v])
         /\ Keeps(k, [k EXCEPT !.yielded = v])
  BY DEF Keeps, HasFields

LEMMA LinkKept ==
  ASSUME NEW k, HasFields(k), NEW l, NEW t
  PROVE  /\ Keeps(k, AppendState(k, l, t))
         /\ Keeps(k, InsertState(k, l, t))
         /\ Keeps(k, AppendEvent(k, l, t))
         /\ Keeps(k, InsertEvent(k, l, t))
  BY DEF Keeps, HasFields, AppendState, InsertState, AppendEvent, InsertEvent

LEMMA UnlinkKept ==
  ASSUME NEW k, HasFields(k), NEW t, NEW c
  PROVE  /\ Keeps(k, RemoveState(k, t))
         /\ Keeps(k, RemoveEvent(k, t))
         /\ Keeps(k, RemoveEventIfLinked(k, t))
         /\ Keeps(k, configASSERT(k, c))
         /\ Keeps(k, portYIELD(k))
         /\ Keeps(k, YieldIf(k, c))
         /\ Keeps(k, PendYieldIf(k, c))
         /\ Keeps(k, ClearDelayAborted(k))
         /\ Keeps(k, prvResetNextTaskUnblockTime(k))
         /\ Keeps(k, StopWaitingForNotification(k, t))
  BY DEF Keeps, HasFields, RemoveState, RemoveEvent, RemoveEventIfLinked, configASSERT,
         portYIELD, YieldIf, PendYieldIf, prvResetNextTaskUnblockTime, ClearDelayAborted,
         StopWaitingForNotification

LEMMA ReadyKept ==
  ASSUME NEW k, HasFields(k), NEW t
  PROVE  Keeps(k, prvAddTaskToReadyList(k, t))
<1>1. PICK r : r = AppendState(k, k.prio[t], t)
  OBVIOUS
<1>2. Keeps(k, r)
  BY <1>1, LinkKept
<1>3. HasFields(r) => Keeps(r, prvAddTaskToReadyList(k, t))
  BY <1>1, FieldsKept DEF prvAddTaskToReadyList
<1>4. QED BY <1>2, <1>3, KeptAfterKept

LEMMA DelayKept ==
  ASSUME NEW k, HasFields(k), NEW n, NEW b
  PROVE  Keeps(k, prvAddCurrentTaskToDelayedList(k, n, b))
<1> DEFINE t == k.current
           w == WrappingAdd(k.tick, n)
           j == [k EXCEPT !.delayAborted[t] = FALSE]
           r == RemoveState(j, t)
           s == [r EXCEPT !.wake[t] = w]
           u == InsertState(s, k.delayed, t)
           v == InsertState(s, pxOverflowDelayedTaskList(k), t)
           x == [u EXCEPT !.nextUnblock = IF w < @ THEN w ELSE @]
<1>1. \/ prvAddCurrentTaskToDelayedList(k, n, b) = AppendState(r, xSuspendedTaskList, t)
      \/ prvAddCurrentTaskToDelayedList(k, n, b) = v
      \/ prvAddCurrentTaskToDelayedList(k, n, b) = x
  BY DEF prvAddCurrentTaskToDelayedList
<1>2. Keeps(k, j) /\ HasFields(j)
  BY DEF Keeps, HasFields
<1>3. HasFields(r) => Keeps(r, s)
  BY FieldsKept
<1>4. HasFields(u) => Keeps(u, x)
  BY FieldsKept
<1> HIDE DEF j
<1>5. Keeps(k, r) /\ HasFields(r)
  BY <1>2, UnlinkKept, KeptAfterKept
<1> HIDE DEF r, s, t, w
<1>6. Keeps(k, s) /\ HasFields(s)
  BY <1>3, <1>5, KeptAfterKept
<1>7. Keeps(k, u) /\ HasFields(u) /\ Keeps(k, v)
  BY <1>6, LinkKept, KeptAfterKept
<1>8. Keeps(k, AppendState(r, xSuspendedTaskList, t))
  BY <1>5, LinkKept, KeptAfterKept
<1> HIDE DEF u, v, x
<1>9. Keeps(k, x)
  BY <1>4, <1>7, KeptAfterKept
<1>10. QED BY <1>1, <1>7, <1>8, <1>9

LEMMA WaitKept ==
  ASSUME NEW k, HasFields(k), NEW l, NEW n
  PROVE  Keeps(k, vTaskPlaceOnEventList(k, l, n))
<1>1. PICK r : r = InsertEvent(k, l, k.current)
  OBVIOUS
<1>2. Keeps(k, r)
  BY <1>1, LinkKept
<1>3. HasFields(r) => Keeps(r, vTaskPlaceOnEventList(k, l, n))
  BY <1>1, DelayKept DEF vTaskPlaceOnEventList
<1>4. QED BY <1>2, <1>3, KeptAfterKept

LEMMA RemovedFromEventListKept ==
  ASSUME NEW k, HasFields(k), NEW l
  PROVE  Keeps(k, xTaskRemoveFromEventList(k, l))
<1> DEFINE t == HeadOf(k, l)
           r == RemoveEvent(k, t)
           s == RemoveState(r, t)
           u == prvAddTaskToReadyList(s, t)
           w == ResetUnblockIfTickless(u)
           p == AppendEvent(r, xPendingReadyList, t)
           v == IF k.suspended = 0 THEN w ELSE p
<1>1. xTaskRemoveFromEventList(k, l) = PendYieldIf(v, Preempts(k, t))
  BY DEF xTaskRemoveFromEventList
<1> HIDE DEF t
<1>2. Keeps(k, r) /\ HasFields(r)
  BY UnlinkKept, KeptAfterKept, SelfKept
<1> HIDE DEF r
<1>3. Keeps(k, s) /\ HasFields(s)
  BY <1>2, UnlinkKept, KeptAfterKept
<1> HIDE DEF s
<1>4. Keeps(k, u) /\ HasFields(u)
  BY <1>3, ReadyKept, KeptAfterKept
<1> HIDE DEF u
<1>5. Keeps(u, w)
  BY <1>4, UnlinkKept, SelfKept DEF ResetUnblockIfTickless
<1>6. Keeps(k, w) /\ HasFields(w)
  BY <1>4, <1>5, KeptAfterKept
<1>7. Keeps(k, p) /\ HasFields(p)
  BY <1>2, LinkKept, KeptAfterKept
<1> HIDE DEF w, p
<1>8. Keeps(k, v) /\ HasFields(v)
  BY <1>6, <1>7
<1> HIDE DEF v
<1>9. QED BY <1>1, <1>8, UnlinkKept, KeptAfterKept

LEMMA WakeKept ==
  ASSUME NEW k, HasFields(k), NEW l
  PROVE  Keeps(k, WakeOne(k, l))
  BY SelfKept, RemovedFromEventListKept DEF WakeOne

LEMMA SwitchListsKept ==
  ASSUME NEW k, HasFields(k)
  PROVE  Keeps(k, taskSWITCH_DELAYED_LISTS(k))
<1> DEFINE a == configASSERT(k, IsEmpty(k, k.delayed))
           r == [a EXCEPT !.delayed   = pxOverflowDelayedTaskList(k),
                          !.overflows = IF @ = MaxOverflows THEN 0 ELSE @ + 1]
<1>1. taskSWITCH_DELAYED_LISTS(k) = prvResetNextTaskUnblockTime(r)
  BY DEF taskSWITCH_DELAYED_LISTS
<1>2. Keeps(k, a) /\ HasFields(a)
  BY UnlinkKept, KeptAfterKept, SelfKept
<1> HIDE DEF a
<1>3. Keeps(a, r)
  BY <1>2 DEF Keeps, HasFields
<1>4. Keeps(k, r) /\ HasFields(r)
  BY <1>2, <1>3, KeptAfterKept
<1> HIDE DEF r
<1>5. QED BY <1>1, <1>4, UnlinkKept, KeptAfterKept

LEMMA EndTickKept ==
  ASSUME NEW k, HasFields(k)
  PROVE  Keeps(k, EndIncrementTick(k))
<1> DEFINE c == \/ k.switchReq \/ LengthOf(k, k.prio[k.current]) > 1 \/ k.yieldPending
           r == [k EXCEPT !.switchReq = FALSE]
           u == YieldIf(r, c)
           v == PendYieldIf(r, c)
           x == [u EXCEPT !.stage = "run"]
           y == [v EXCEPT !.stage = "ticks", !.pendedTicks = @ - 1]
<1>1. EndIncrementTick(k) = x \/ EndIncrementTick(k) = y
  BY DEF EndIncrementTick
<1>2. Keeps(k, r) /\ HasFields(r)
  BY DEF Keeps, HasFields
<1> HIDE DEF r, c
<1>3. Keeps(k, u) /\ HasFields(u) /\ Keeps(k, v) /\ HasFields(v)
  BY <1>2, UnlinkKept, KeptAfterKept
<1> HIDE DEF u, v
<1>4. Keeps(u, x) /\ Keeps(v, y)
  BY <1>3 DEF Keeps, HasFields
<1> HIDE DEF x, y
<1>5. QED BY <1>1, <1>3, <1>4, KeptAfterKept

LEMMA TickKept ==
  ASSUME NEW k, HasFields(k), NEW st
  PROVE  Keeps(k, IncrementTick(k, st))
<1> DEFINE now == WrappingAdd(k.tick, 1)
           r == [k EXCEPT !.tick = now, !.stage = st]
           s == IF now = 0 THEN taskSWITCH_DELAYED_LISTS(r) ELSE r
<1>1. IncrementTick(k, st) = s \/ IncrementTick(k, st) = EndIncrementTick(s)
  BY DEF IncrementTick
<1> HIDE DEF now
<1>2. Keeps(k, r) /\ HasFields(r)
  BY DEF Keeps, HasFields
<1> HIDE DEF r
<1>3. Keeps(k, s) /\ HasFields(s)
  BY <1>2, SwitchListsKept, KeptAfterKept
<1> HIDE DEF s
<1>4. QED BY <1>1, <1>3, EndTickKept, KeptAfterKept

LEMMA UnblockKept ==
  ASSUME NEW k, HasFields(k)
  PROVE  Keeps(k, UnblockExpired(k))
<1> DEFINE t == HeadOf(k, k.delayed)
           e == [k EXCEPT !.nextUnblock = portMAX_DELAY]
           f == [k EXCEPT !.nextUnblock = k.wake[t]]
           r == RemoveState(k, t)
           s == RemoveEventIfLinked(r, t)
           u == prvAddTaskToReadyList(s, t)
           x == [u EXCEPT !.switchReq = @ \/ k.prio[t] > k.prio[k.current]]
<1>1. \/ UnblockExpired(k) = EndIncrementTick(e)
      \/ UnblockExpired(k) = EndIncrementTick(f)
      \/ UnblockExpired(k) = x
  BY DEF UnblockExpired
<1> HIDE DEF t
<1>2. Keeps(k, e) /\ HasFields(e) /\ Keeps(k, f) /\ HasFields(f)
  BY DEF Keeps, HasFields
<1> HIDE DEF e, f
<1>3. Keeps(k, r) /\ HasFields(r)
  BY UnlinkKept, KeptAfterKept, SelfKept
<1> HIDE DEF r
<1>4. Keeps(k, s) /\ HasFields(s)
  BY <1>3, UnlinkKept, KeptAfterKept
<1> HIDE DEF s
<1>5. Keeps(k, u) /\ HasFields(u)
  BY <1>4, ReadyKept, KeptAfterKept
<1> HIDE DEF u
<1>6. Keeps(u, x)
  BY <1>5 DEF Keeps, HasFields
<1> HIDE DEF x
<1>7. QED BY <1>1, <1>2, <1>5, <1>6, EndTickKept, KeptAfterKept

LEMMA MovePendingKept ==
  ASSUME NEW k, HasFields(k)
  PROVE  Keeps(k, MovePendingReady(k))
<1> DEFINE t == HeadOf(k, xPendingReadyList)
           r == RemoveEvent(k, t)
           s == RemoveState(r, t)
           u == prvAddTaskToReadyList(s, t)
           v == [u EXCEPT !.moved = TRUE]
<1>1. MovePendingReady(k) = PendYieldIf(v, k.prio[t] > k.prio[k.current])
  BY DEF MovePendingReady
<1> HIDE DEF t
<1>2. Keeps(k, r) /\ HasFields(r)
  BY UnlinkKept, KeptAfterKept, SelfKept
<1> HIDE DEF r
<1>3. Keeps(k, s) /\ HasFields(s)
  BY <1>2, UnlinkKept, KeptAfterKept
<1> HIDE DEF s
<1>4. Keeps(k, u) /\ HasFields(u)
  BY <1>3, ReadyKept, KeptAfterKept
<1> HIDE DEF u
<1>5. Keeps(k, v) /\ HasFields(v)
  BY <1>4, FieldsKept, KeptAfterKept
<1> HIDE DEF v
<1>6. QED BY <1>1, <1>5, UnlinkKept, KeptAfterKept

LEMMA EndPendingKept ==
  ASSUME NEW k, HasFields(k)
  PROVE  Keeps(k, EndPendingReady(k))
<1> DEFINE r == IF k.moved THEN prvResetNextTaskUnblockTime(k) ELSE k
<1>1. EndPendingReady(k) = [r EXCEPT !.stage = "ticks", !.moved = FALSE]
  BY DEF EndPendingReady
<1>2. Keeps(k, r) /\ HasFields(r)
  BY UnlinkKept, KeptAfterKept, SelfKept
<1> HIDE DEF r
<1>3. Keeps(r, EndPendingReady(k))
  BY <1>1, <1>2 DEF Keeps, HasFields
<1>4. QED BY <1>2, <1>3, KeptAfterKept

LEMMA EndResumeKept ==
  ASSUME NEW k, HasFields(k)
  PROVE  Keeps(k, EndResumeAll(k))
<1> DEFINE r == YieldIf(k, k.yieldPending)
<1>1. EndResumeAll(k) = [r EXCEPT !.stage = "run", !.yielded[k.current] = k.yieldPending]
  BY DEF EndResumeAll
<1>2. Keeps(k, r) /\ HasFields(r)
  BY UnlinkKept, KeptAfterKept, SelfKept
<1> HIDE DEF r
<1>3. Keeps(r, EndResumeAll(k))
  BY <1>1, <1>2 DEF Keeps, HasFields
<1>4. QED BY <1>2, <1>3, KeptAfterKept

\* Both fields are left, or the processor is given to another task.
LEMMA SwitchContextGives ==
  ASSUME NEW k, HasFields(k)
  PROVE  LET r == vTaskSwitchContext(k)
         IN  /\ DOMAIN r = DOMAIN k /\ r.running = k.running /\ r.suspended = k.suspended
             /\ r.prio = k.prio /\ r.basePrio = k.basePrio /\ r.mutexesHeld = k.mutexesHeld
             /\ k.suspended # 0 => r.current = k.current
  BY DEF HasFields, vTaskSwitchContext, taskSELECT_HIGHEST_PRIORITY_TASK, configASSERT

LEMMA SuspendAllGives ==
  ASSUME NEW k, HasFields(k)
  PROVE  LET r == vTaskSuspendAll(k)
         IN  /\ DOMAIN r = DOMAIN k /\ r.running = k.running /\ r.current = k.current
             /\ r.prio = k.prio /\ r.basePrio = k.basePrio /\ r.mutexesHeld = k.mutexesHeld
             /\ r.suspended = k.suspended + 1
  BY DEF HasFields, vTaskSuspendAll

LEMMA ResumeAllGives ==
  ASSUME NEW k, HasFields(k)
  PROVE  LET r == xTaskResumeAll(k)
         IN  /\ DOMAIN r = DOMAIN k /\ r.running = k.running /\ r.current = k.current
             /\ r.prio = k.prio /\ r.basePrio = k.basePrio /\ r.mutexesHeld = k.mutexesHeld
             /\ r.suspended = k.suspended - 1
  BY DEF HasFields, xTaskResumeAll, configASSERT

-----------------------------------------------------------------------------
(* What the steps do to the locks, the holders and the counts of mutexes.  *)

IsLocked(r) == r.txLock # queueUNLOCKED \/ r.rxLock # queueUNLOCKED

HasQueueFields(Q) ==
  /\ DOMAIN Q = Queues
  /\ \A p \in Queues : {"txLock", "rxLock", "holder", "count"} \subseteq DOMAIN Q[p]

\* No lock is taken, no holder changes, and of the mutexes only q is given or taken.
Leaves(Q, R, q) ==
  /\ HasQueueFields(R)
  /\ \A p \in Queues : /\ R[p].txLock # queueUNLOCKED => Q[p].txLock # queueUNLOCKED
                       /\ R[p].rxLock # queueUNLOCKED => Q[p].rxLock # queueUNLOCKED
                       /\ R[p].holder = Q[p].holder
                       /\ p # q /\ Kind[p] = "mutex" => R[p].count = Q[p].count

LEMMA RingsHaveFields ==
  ASSUME NEW Q, RingsOK(Q)
  PROVE  HasQueueFields(Q)
<1>1. ASSUME NEW p \in Queues
      PROVE  {"txLock", "rxLock", "holder", "count"} \subseteq DOMAIN Q[p]
  BY DEF RingsOK, RingOK, QueueType
<1>2. DOMAIN Q = Queues
  BY DEF RingsOK
<1>3. QED BY <1>1, <1>2 DEF HasQueueFields

LEMMA SelfLeft ==
  ASSUME NEW Q, HasQueueFields(Q), NEW q
  PROVE  Leaves(Q, Q, q)
  BY DEF Leaves

LEMMA LeavesTwice ==
  ASSUME NEW Q, NEW R, NEW S, NEW q, Leaves(Q, R, q), Leaves(R, S, q)
  PROVE  Leaves(Q, S, q)
  BY DEF Leaves

LEMMA CopyLeaves ==
  ASSUME NEW Q, HasQueueFields(Q), NEW q \in Queues, NEW x, NEW position
  PROVE  Leaves(Q, prvCopyDataToQueue(Q, q, x, position), q)
<1> DEFINE n == IF position = "overwrite" /\ Q[q].count > 0 THEN Q[q].count ELSE Q[q].count + 1
           A == [Q EXCEPT ![q].count = n]
           B == [A EXCEPT ![q].slots[Q[q].write] = x, ![q].write = NextSlot(q, @)]
           C == [A EXCEPT ![q].slots[Q[q].read] = x, ![q].read = PreviousSlot(q, @)]
<1>1. \/ prvCopyDataToQueue(Q, q, x, position) = A
      \/ prvCopyDataToQueue(Q, q, x, position) = B
      \/ prvCopyDataToQueue(Q, q, x, position) = C
  BY DEF prvCopyDataToQueue
<1> HIDE DEF n
<1>2. Leaves(Q, A, q) /\ HasQueueFields(A)
  BY DEF Leaves, HasQueueFields
<1> HIDE DEF A
<1>3. Leaves(A, B, q)
  BY <1>2 DEF Leaves, HasQueueFields
<1>4. Leaves(A, C, q)
  BY <1>2 DEF Leaves, HasQueueFields
<1> HIDE DEF B, C
<1>5. QED BY <1>1, <1>2, <1>3, <1>4, LeavesTwice

LEMMA TakeLeaves ==
  ASSUME NEW Q, HasQueueFields(Q), NEW q \in Queues
  PROVE  Leaves(Q, TakeItem(Q, q), q)
  BY DEF TakeItem, Leaves, HasQueueFields

LEMMA CountedLeaves ==
  ASSUME NEW Q, HasQueueFields(Q), NEW q \in Queues, NEW p
  PROVE  /\ Q[q].txLock # queueUNLOCKED => Leaves(Q, prvIncrementQueueTxLock(Q, q), p)
         /\ Q[q].rxLock # queueUNLOCKED => Leaves(Q, prvIncrementQueueRxLock(Q, q), p)
         /\ Leaves(Q, [Q EXCEPT ![q].txLock = queueUNLOCKED], p)
         /\ Leaves(Q, [Q EXCEPT ![q].rxLock = queueUNLOCKED], p)
         /\ Q[q].txLock # queueUNLOCKED => Leaves(Q, [Q EXCEPT ![q].txLock = @ - 1], p)
         /\ Q[q].rxLock # queueUNLOCKED => Leaves(Q, [Q EXCEPT ![q].rxLock = @ - 1], p)
  BY DEF prvIncrementQueueTxLock, prvIncrementQueueRxLock, Leaves, HasQueueFields

\* A set is told of an item: the sets are no mutexes.
LEMMA NotifyLeaves ==
  ASSUME NEW k, HasFields(k), NEW Q, HasQueueFields(Q), NEW q \in Queues, NEW p,
         Q[q].container \in Queues, Kind[Q[q].container] = "set"
  PROVE  /\ Leaves(Q, prvNotifyQueueSetContainer(k, Q, q).queues, p)
         /\ Keeps(k, prvNotifyQueueSetContainer(k, Q, q).kernel)
<1> DEFINE s == Q[q].container
           a == configASSERT(k, Q[s].count < Length[s])
           w == WakeOne(a, ReceiveList[s])
           C == prvCopyDataToQueue(Q, s, q, "back")
           D == prvIncrementQueueTxLock(C, s)
           n == prvNotifyQueueSetContainer(k, Q, q)
<1>1. /\ n.queues = Q \/ (n.queues = C /\ Q[s].txLock = queueUNLOCKED)
           \/ (n.queues = D /\ Q[s].txLock # queueUNLOCKED)
      /\ n.kernel = a \/ n.kernel = w
  BY DEF prvNotifyQueueSetContainer
<1>2. Keeps(k, a) /\ HasFields(a)
  BY UnlinkKept, KeptAfterKept, SelfKept
<1>3. Keeps(k, w)
  <2> HIDE DEF a
  <2>1. QED BY <1>2, WakeKept, KeptAfterKept
<1>4. s \in Queues /\ Kind[s] = "set"
  OBVIOUS
<1> HIDE DEF s, a, w, n
<1>5. Leaves(Q, C, s) /\ HasQueueFields(C)
  BY <1>4, CopyLeaves DEF Leaves
<1>6. Leaves(Q, C, p)
  BY <1>4, <1>5 DEF Leaves
<1>7. Q[s].txLock # queueUNLOCKED => Leaves(Q, D, p)
  <2> HIDE DEF C
  <2>1. QED BY <1>4, <1>5, <1>6 DEF Leaves, HasQueueFields, prvIncrementQueueTxLock
<1>8. QED BY <1>1, <1>2, <1>3, <1>6, <1>7, SelfLeft DEF n

LEMMA AnnounceLeaves ==
  ASSUME NEW k, HasFields(k), NEW Q, HasQueueFields(Q), NEW q \in Queues, NEW p,
         Q[q].container # NoQueue =>
           Q[q].container \in Queues /\ Kind[Q[q].container] = "set"
  PROVE  /\ Leaves(Q, Announce(k, Q, q).queues, p)
         /\ Keeps(k, Announce(k, Q, q).kernel)
<1>1. CASE Q[q].container = NoQueue
  <2>1. /\ Announce(k, Q, q).queues = Q
        /\ Announce(k, Q, q).kernel = WakeOne(k, ReceiveList[q])
    BY <1>1 DEF Announce
  <2>2. QED BY <2>1, WakeKept, SelfLeft
<1>2. CASE Q[q].container # NoQueue
  <2>1. Announce(k, Q, q) = prvNotifyQueueSetContainer(k, Q, q)
    BY <1>2 DEF Announce
  <2>2. QED BY <1>2, <2>1, NotifyLeaves
<1>3. QED BY <1>1, <1>2

-----------------------------------------------------------------------------
(* Who holds the scheduler.                                                *)

\* Where a task is that has suspended the scheduler inside a call.
Holding ==
  {"delay", "delayUntil", "resumeThenYield", "resumeThenReturn", "abort", "abortEvent",
   "queueLock", "queueCheck", "queueUnlockTx", "queueUnlockRx", "queueResume"}

\* Where a task is that has locked a queue.
LockedAt == {"queueCheck", "queueUnlockTx", "queueUnlockRx"}

\* A task that has suspended the scheduler inside a call is the current one.
HoldsOK ==
  /\ HasFields(os) /\ os.suspended \in Nat
  /\ \A t \in Tasks : pc[t] \in Holding =>
       os.running /\ os.current = t /\ os.suspended > 0

LEMMA TaskStepHolds ==
  ASSUME NEW t \in Tasks, HoldsOK, Running(t), HasFields(os'), os'.suspended \in Nat,
         \A u \in Tasks : u # t => pc'[u] = pc[u] \/ pc'[u] \notin Holding,
         pc'[t] \in Holding => os'.running /\ os'.current = t /\ os'.suspended > 0
  PROVE  HoldsOK'
<1>1. \A u \in Tasks : u # t => pc[u] \notin Holding
  BY DEF HoldsOK, Running
<1>2. \A u \in Tasks : pc'[u] \in Holding =>
        os'.running /\ os'.current = u /\ os'.suspended > 0
  BY <1>1
<1>3. HasFields(os)'
  BY DEF HasFields
<1>4. QED BY <1>2, <1>3 DEF HoldsOK

LEMMA GotoHolds ==
  ASSUME NEW t \in Tasks, NEW p, HoldsOK, Running(t), pc = [u \in Tasks |-> pc[u]],
         Goto(t, p) \/ (UNCHANGED pc /\ p = pc[t]),
         HasFields(os'), os'.suspended \in Nat,
         p \in Holding => os'.running /\ os'.current = t /\ os'.suspended > 0
  PROVE  HoldsOK'
<1>1. /\ pc'[t] = p
      /\ \A u \in Tasks : u # t => pc'[u] = pc[u]
  BY DEF Goto
<1>2. QED BY <1>1, TaskStepHolds

\* A task goes on to a place that is not under vTaskSuspendAll.
LEMMA LeavesHolds ==
  ASSUME NEW t \in Tasks, NEW p, HoldsOK, Running(t), pc = [u \in Tasks |-> pc[u]],
         Goto(t, p), p \notin Holding, Keeps(os, os')
  PROVE  HoldsOK' /\ SamePriorities(os, os')
<1>1. HasFields(os') /\ os'.suspended \in Nat
  BY DEF HoldsOK, Keeps, HasFields
<1>2. QED BY <1>1, GotoHolds DEF Keeps, SamePriorities

\* The kernel changes something else.
LEMMA KeptHolds ==
  ASSUME HoldsOK, UNCHANGED pc, Keeps(os, os')
  PROVE  HoldsOK' /\ SamePriorities(os, os')
<1>1. HasFields(os)' /\ os'.suspended \in Nat
  BY DEF HoldsOK, Keeps, HasFields
<1>2. QED BY <1>1 DEF HoldsOK, Keeps, SamePriorities

\* A task that is under vTaskSuspendAll goes on.
LEMMA StaysHolds ==
  ASSUME NEW t \in Tasks, NEW p, HoldsOK, Running(t), pc = [u \in Tasks |-> pc[u]],
         Goto(t, p), pc[t] \in Holding, Keeps(os, os')
  PROVE  HoldsOK' /\ SamePriorities(os, os')
<1>1. HasFields(os') /\ os'.suspended \in Nat
  BY DEF HoldsOK, Keeps, HasFields
<1>2. os'.running /\ os'.current = t /\ os'.suspended > 0
  BY DEF HoldsOK, Keeps
<1>3. QED BY <1>1, <1>2, GotoHolds DEF Keeps, SamePriorities

LEMMA SuspendsHolds ==
  ASSUME NEW t \in Tasks, NEW p, HoldsOK, Running(t), pc = [u \in Tasks |-> pc[u]],
         Goto(t, p) \/ (UNCHANGED pc /\ p = pc[t]), os' = vTaskSuspendAll(os)
  PROVE  HoldsOK' /\ SamePriorities(os, os')
<1>1. HasFields(os) /\ os.suspended \in Nat
  BY DEF HoldsOK
<1>2. /\ DOMAIN os' = DOMAIN os /\ os'.running = os.running /\ os'.current = os.current
      /\ os'.suspended = os.suspended + 1
  BY <1>1, SuspendAllGives
<1>3. HasFields(os') /\ os'.suspended \in Nat /\ os'.suspended > 0
  BY <1>1, <1>2 DEF HasFields
<1>4. os'.running /\ os'.current = t
  BY <1>2 DEF Running
<1>5. SamePriorities(os, os')
  BY <1>1, SuspendAllGives DEF SamePriorities
<1>6. QED BY <1>3, <1>4, <1>5, GotoHolds

LEMMA ResumesHolds ==
  ASSUME NEW t \in Tasks, NEW p, HoldsOK, Running(t), pc = [u \in Tasks |-> pc[u]],
         Goto(t, p) \/ (UNCHANGED pc /\ p = pc[t]), os' = xTaskResumeAll(os),
         p \notin Holding, os.suspended > 0
  PROVE  HoldsOK' /\ SamePriorities(os, os')
<1>1. HasFields(os) /\ os.suspended \in Nat
  BY DEF HoldsOK
<1>2. DOMAIN os' = DOMAIN os /\ os'.suspended = os.suspended - 1
  BY <1>1, ResumeAllGives
<1>3. HasFields(os') /\ os'.suspended \in Nat
  BY <1>1, <1>2 DEF HasFields
<1>4. SamePriorities(os, os')
  BY <1>1, ResumeAllGives DEF SamePriorities
<1>5. QED BY <1>3, <1>4, GotoHolds

LEMMA MovedKept ==
  ASSUME NEW k, HasFields(k), NEW x
  PROVE  /\ Keeps(k, prvAddTaskToReadyList(RemoveState(k, x), x))
         /\ HasFields(prvAddTaskToReadyList(RemoveState(k, x), x))
<1> DEFINE r == RemoveState(k, x)
<1>1. Keeps(k, r) /\ HasFields(r)
  BY UnlinkKept, KeptAfterKept, SelfKept
<1> HIDE DEF r
<1>2. Keeps(k, prvAddTaskToReadyList(r, x)) /\ HasFields(prvAddTaskToReadyList(r, x))
  BY <1>1, ReadyKept, KeptAfterKept
<1>3. QED BY <1>2 DEF r

LEMMA SuspendKept ==
  ASSUME NEW k, HasFields(k), NEW x, NEW l
  PROVE  Keeps(k, StopWaitingForNotification(
                    AppendState(RemoveEventIfLinked(RemoveState(k, x), x), l, x), x))
<1> DEFINE r == RemoveState(k, x)
           s == RemoveEventIfLinked(r, x)
           u == AppendState(s, l, x)
<1>1. Keeps(k, r) /\ HasFields(r)
  BY UnlinkKept, KeptAfterKept, SelfKept
<1> HIDE DEF r
<1>2. Keeps(k, s) /\ HasFields(s)
  BY <1>1, UnlinkKept, KeptAfterKept
<1> HIDE DEF s
<1>3. Keeps(k, u) /\ HasFields(u)
  BY <1>2, LinkKept, KeptAfterKept
<1> HIDE DEF u
<1>4. Keeps(k, StopWaitingForNotification(u, x))
  BY <1>3, UnlinkKept, KeptAfterKept
<1>5. QED BY <1>4 DEF u, s, r

LEMMA DeleteKept ==
  ASSUME NEW k, HasFields(k), NEW x, NEW l
  PROVE  LET unlinked == RemoveEventIfLinked(RemoveState(k, x), x)
         IN  /\ Keeps(k, [AppendState(unlinked, l, x) EXCEPT !.numDeleted = @ + 1,
                                                            !.yieldPending = TRUE])
             /\ Keeps(k, prvResetNextTaskUnblockTime([unlinked EXCEPT !.numTasks = @ - 1]))
<1> DEFINE r == RemoveState(k, x)
           s == RemoveEventIfLinked(r, x)
           u == AppendState(s, l, x)
           v == [u EXCEPT !.numDeleted = @ + 1, !.yieldPending = TRUE]
           w == [s EXCEPT !.numTasks = @ - 1]
<1>1. Keeps(k, r) /\ HasFields(r)
  BY UnlinkKept, KeptAfterKept, SelfKept
<1> HIDE DEF r
<1>2. Keeps(k, s) /\ HasFields(s)
  BY <1>1, UnlinkKept, KeptAfterKept
<1> HIDE DEF s
<1>3. Keeps(k, u) /\ HasFields(u)
  BY <1>2, LinkKept, KeptAfterKept
<1> HIDE DEF u
<1>4. Keeps(u, v) /\ Keeps(s, w)
  BY <1>2, <1>3 DEF Keeps, HasFields
<1> HIDE DEF v, w
<1>5. Keeps(k, v) /\ Keeps(k, w) /\ HasFields(w)
  BY <1>2, <1>3, <1>4, KeptAfterKept
<1>6. Keeps(k, prvResetNextTaskUnblockTime(w))
  BY <1>5, UnlinkKept, KeptAfterKept
<1>7. QED BY <1>5, <1>6 DEF v, w, u, s, r

LEMMA AbortKept ==
  ASSUME NEW k, HasFields(k), NEW x, NEW c,
         NEW a, \/ a = k
                \/ a = [RemoveEvent(k, x) EXCEPT !.delayAborted[x] = TRUE]
  PROVE  Keeps(k, PendYieldIf(prvAddTaskToReadyList(a, x), c))
<1> DEFINE r == RemoveEvent(k, x)
           s == [r EXCEPT !.delayAborted[x] = TRUE]
           u == prvAddTaskToReadyList(a, x)
<1>1. Keeps(k, r) /\ HasFields(r)
  BY UnlinkKept, KeptAfterKept, SelfKept
<1> HIDE DEF r
<1>2. Keeps(r, s)
  BY <1>1 DEF Keeps, HasFields
<1>3. a = k \/ a = s
  BY DEF r
<1> HIDE DEF s
<1>4. Keeps(k, a) /\ HasFields(a)
  BY <1>1, <1>2, <1>3, SelfKept, KeptAfterKept
<1>5. Keeps(k, u) /\ HasFields(u)
  BY <1>4, ReadyKept, KeptAfterKept
<1> HIDE DEF u
<1>6. Keeps(k, PendYieldIf(u, c))
  BY <1>5, UnlinkKept, KeptAfterKept
<1>7. QED BY <1>6 DEF u

\* Function f becomes g by a change of its value at x.
Becomes(f, g, x, v) ==
  /\ DOMAIN g = DOMAIN f
  /\ \A y \in DOMAIN f : g[y] = IF y = x THEN v ELSE f[y]

LEMMA ExceptBecomes ==
  ASSUME NEW f, NEW x, NEW v
  PROVE  Becomes(f, [f EXCEPT ![x] = v], x, v)
  BY DEF Becomes

\* A new task may become the current one.
LEMMA NewTaskGives ==
  ASSUME NEW k, HasFields(k), NEW x, NEW p,
         NEW r, r = prvAddNewTaskToReadyList(prvInitialiseNewTask(k, x, p), x)
  PROVE  /\ DOMAIN r = DOMAIN k /\ r.running = k.running /\ r.suspended = k.suspended
         /\ Becomes(k.prio, r.prio, x, p) /\ Becomes(k.basePrio, r.basePrio, x, p)
         /\ Becomes(k.mutexesHeld, r.mutexesHeld, x, 0)
<1> DEFINE s == prvInitialiseNewTask(k, x, p)
           c == \/ s.current = NoTask
                \/ ~s.running /\ s.prio[s.current] <= s.prio[x]
           u == [s EXCEPT !.numTasks = @ + 1, !.current = IF c THEN x ELSE @]
           w == prvAddTaskToReadyList(u, x)
<1>1. r = w
  BY DEF prvAddNewTaskToReadyList
<1>2. /\ DOMAIN s = DOMAIN k /\ s.running = k.running /\ s.suspended = k.suspended
      /\ s.prio = [k.prio EXCEPT ![x] = p] /\ s.basePrio = [k.basePrio EXCEPT ![x] = p]
      /\ s.mutexesHeld = [k.mutexesHeld EXCEPT ![x] = 0]
  BY DEF HasFields, prvInitialiseNewTask
<1> HIDE DEF s
<1>3. /\ DOMAIN u = DOMAIN s /\ u.running = s.running /\ u.suspended = s.suspended
      /\ u.prio = s.prio /\ u.basePrio = s.basePrio /\ u.mutexesHeld = s.mutexesHeld
  <2> HIDE DEF c
  <2>1. HasFields(s)
    BY <1>2 DEF HasFields
  <2>2. QED BY <2>1 DEF HasFields
<1> HIDE DEF u
<1>4. Keeps(u, w)
  BY <1>2, <1>3, ReadyKept DEF HasFields
<1> HIDE DEF w
<1>5. /\ Becomes(k.prio, s.prio, x, p) /\ Becomes(k.basePrio, s.basePrio, x, p)
      /\ Becomes(k.mutexesHeld, s.mutexesHeld, x, 0)
  BY <1>2, ExceptBecomes
<1>6. QED BY <1>1, <1>2, <1>3, <1>4, <1>5 DEF Keeps

\* The fields of the processor are left, whatever becomes of the priorities.
SameProcessor(k, r) ==
  /\ DOMAIN r = DOMAIN k
  /\ r.current = k.current /\ r.running = k.running /\ r.suspended = k.suspended

LEMMA PrioritySetGives ==
  ASSUME HasFields(os), NEW t, NEW x, NEW p, vTaskPrioritySet(t, x, p)
  PROVE  /\ SameProcessor(os, os') /\ os'.mutexesHeld = os.mutexesHeld
         /\ Becomes(os.basePrio, os'.basePrio, x, p)
         /\ \E e : /\ Becomes(os.prio, os'.prio, x, e)
                   /\ os.basePrio[x] = os.prio[x] => e = p
<1> DEFINE base == os.basePrio[x]
           e == IF base = os.prio[x] \/ p > os.prio[x] THEN p ELSE os.prio[x]
           y == IF p > base THEN x # t /\ p > os.prio[t] ELSE x = t
           c == [os EXCEPT !.prio[x] = e, !.basePrio[x] = p,
                           !.eventValue[x] = configMAX_PRIORITIES - p]
           m == IF IsReady(os, x) THEN prvAddTaskToReadyList(RemoveState(c, x), x) ELSE c
<1>1. os' = YieldIf(m, y)
  BY DEF vTaskPrioritySet
<1>2. base = os.prio[x] => e = p
  OBVIOUS
<1> HIDE DEF y, e
<1>3. /\ SameProcessor(os, c) /\ c.mutexesHeld = os.mutexesHeld
      /\ c.basePrio = [os.basePrio EXCEPT ![x] = p] /\ c.prio = [os.prio EXCEPT ![x] = e]
  BY DEF HasFields, SameProcessor
<1> HIDE DEF c
<1>4. HasFields(c)
  BY <1>3 DEF HasFields, SameProcessor
<1>5. Keeps(c, m) /\ HasFields(m)
  BY <1>4, MovedKept, SelfKept
<1> HIDE DEF m
<1>6. Keeps(c, os')
  BY <1>1, <1>4, <1>5, UnlinkKept, KeptAfterKept
<1>7. Becomes(os.basePrio, c.basePrio, x, p) /\ Becomes(os.prio, c.prio, x, e)
  BY <1>3, ExceptBecomes
<1>8. QED BY <1>2, <1>3, <1>6, <1>7 DEF Keeps, SameProcessor

\* Nobody is inside vTaskSuspendAll while the current task is elsewhere.
LEMMA NobodyHolds ==
  ASSUME HoldsOK, NEW t \in Tasks, Running(t), pc[t] \notin Holding
  PROVE  \A u \in Tasks : pc[u] \notin Holding
  BY DEF HoldsOK, Running

Elsewhere ==
  {"none", "app", "yieldUnlessYielded", "suspendReset", "suspendYield", "createYield",
   "deleteFree", "deleteYield", "deleted", "queueTry", "queueSuspend", "queueResumed",
   "queueDisinherit", "removeFromSet"}

LEMMA ElsewhereNotHeld == \A p \in Elsewhere : p \notin Holding
  BY DEF Elsewhere, Holding

IsPcFunction == pc = [u \in Tasks |-> pc[u]]

LEMMA ContinueHolds ==
  ASSUME HoldsOK, IsPcFunction, NEW t \in Tasks, Continue(t)
  PROVE  HoldsOK' /\ pc[t] \notin LockedAt /\ Running(t) /\ SamePriorities(os, os')
<1>1. HasFields(os) /\ pc = [u \in Tasks |-> pc[u]]
  BY DEF HoldsOK, IsPcFunction
<1>2. Running(t) /\ pc[t] \notin LockedAt
  BY DEF Continue, ResumeThenYield, YieldUnlessYielded, ResumeThenReturn, DelayBlocks,
         DelayUntilBlocks, SuspendResetsUnblockTime, SuspendYields, AbortUnlinksState,
         AbortMakesReady, CreateYields, DeleteFrees, DeleteYields, At, LockedAt
<1>3. CASE ResumeThenYield(t) \/ ResumeThenReturn(t)
  <2>1. /\ pc[t] \in Holding /\ os' = xTaskResumeAll(os)
        /\ Goto(t, "yieldUnlessYielded") \/ Goto(t, "app")
    BY <1>3 DEF ResumeThenYield, ResumeThenReturn, At, Holding
  <2>2. os.suspended > 0
    BY <2>1 DEF HoldsOK
  <2>3. QED BY <1>1, <1>2, <2>1, <2>2, ResumesHolds, ElsewhereNotHeld DEF Elsewhere
<1>4. CASE YieldUnlessYielded(t)
  <2>1. PICK r : r = [os EXCEPT !.yielded[t] = FALSE]
    OBVIOUS
  <2>2. Keeps(os, r)
    BY <1>1, <2>1 DEF Keeps, HasFields
  <2>3. os' = YieldIf(r, ~os.yielded[t]) /\ Goto(t, "app")
    BY <1>4, <2>1 DEF YieldUnlessYielded
  <2>4. Keeps(os, os')
    BY <1>1, <2>2, <2>3, UnlinkKept, KeptAfterKept
  <2>5. QED BY <1>1, <1>2, <2>3, <2>4, LeavesHolds, ElsewhereNotHeld DEF Elsewhere
<1>5. CASE DelayBlocks(t) \/ DelayUntilBlocks(t)
  <2>1. /\ pc[t] \in Holding /\ Goto(t, "resumeThenYield")
        /\ \/ os' = os
           \/ \E n : os' = prvAddCurrentTaskToDelayedList(os, n, FALSE)
    BY <1>5 DEF DelayBlocks, DelayUntilBlocks, At, Holding
  <2>2. Keeps(os, os')
    BY <1>1, <2>1, DelayKept, SelfKept
  <2>3. QED BY <1>1, <1>2, <2>1, <2>2, StaysHolds
<1>6. CASE SuspendResetsUnblockTime(t) \/ SuspendYields(t)
  <2>1. /\ Goto(t, "suspendYield") \/ Goto(t, "app")
        /\ os' = prvResetNextTaskUnblockTime(os) \/ \E c : os' = YieldIf(os, c)
    BY <1>6 DEF SuspendResetsUnblockTime, SuspendYields
  <2>2. Keeps(os, os')
    BY <1>1, <2>1, UnlinkKept
  <2>3. QED BY <1>1, <1>2, <2>1, <2>2, LeavesHolds, ElsewhereNotHeld DEF Elsewhere
<1>7. CASE AbortUnlinksState(t)
  <2>1. /\ Goto(t, "abortEvent") \/ Goto(t, "resumeThenReturn")
        /\ os' = os \/ os' = RemoveState(os, target[t])
    BY <1>7 DEF AbortUnlinksState, At, Holding
  <2>2. Keeps(os, os')
    BY <1>1, <2>1, UnlinkKept, SelfKept
  <2>3. pc[t] \in Holding
    BY <1>7 DEF AbortUnlinksState, At, Holding
  <2>4. QED BY <1>1, <1>2, <2>1, <2>2, <2>3, StaysHolds
<1>8. CASE AbortMakesReady(t)
  <2>1. pc[t] \in Holding /\ Goto(t, "resumeThenReturn")
    BY <1>8 DEF AbortMakesReady, At, Holding
  <2>2. PICK x, a, c : /\ \/ a = os
                          \/ a = [RemoveEvent(os, x) EXCEPT !.delayAborted[x] = TRUE]
                       /\ os' = PendYieldIf(prvAddTaskToReadyList(a, x), c)
    BY <1>8 DEF AbortMakesReady
  <2>3. Keeps(os, os')
    BY <1>1, <2>2, AbortKept
  <2>4. QED BY <1>1, <1>2, <2>1, <2>3, StaysHolds
<1>9. CASE CreateYields(t)
  <2>1. Goto(t, "app") /\ \E c : os' = YieldIf(os, c)
    BY <1>9 DEF CreateYields
  <2>2. Keeps(os, os')
    BY <1>1, <2>1, UnlinkKept
  <2>3. QED BY <1>1, <1>2, <2>1, <2>2, LeavesHolds, ElsewhereNotHeld DEF Elsewhere
<1>10. CASE DeleteFrees(t)
  <2>1. /\ \A u \in Tasks : pc'[u] = pc[u] \/ pc'[u] = "app" \/ pc'[u] = "none"
        /\ pc'[t] = "app" \/ pc'[t] = "none"
        /\ os' = os
    BY <1>1, <1>10 DEF DeleteFrees
  <2>2. pc'[t] \notin Holding /\ \A u \in Tasks : pc'[u] = pc[u] \/ pc'[u] \notin Holding
    BY <2>1, ElsewhereNotHeld DEF Elsewhere
  <2>3. HasFields(os') /\ os'.suspended \in Nat
    BY <2>1 DEF HoldsOK
  <2>4. SamePriorities(os, os')
    BY <2>1 DEF SamePriorities
  <2>5. QED BY <1>2, <2>2, <2>3, <2>4, TaskStepHolds
<1>11. CASE DeleteYields(t)
  <2>1. PICK r : r = configASSERT(os, os.suspended = 0)
    OBVIOUS
  <2>2. Keeps(os, r)
    BY <1>1, <2>1, UnlinkKept
  <2>3. os' = portYIELD(r) /\ Goto(t, "deleted")
    BY <1>11, <2>1 DEF DeleteYields
  <2>4. Keeps(os, os')
    BY <1>1, <2>2, <2>3, UnlinkKept, KeptAfterKept
  <2>5. QED BY <1>1, <1>2, <2>3, <2>4, LeavesHolds, ElsewhereNotHeld DEF Elsewhere
<1>12. QED BY <1>2, <1>3, <1>4, <1>5, <1>6, <1>7, <1>8, <1>9, <1>10, <1>11 DEF Continue

LEMMA CallHolds ==
  ASSUME TasksAssumption, HoldsOK, IsPcFunction, NEW t \in Tasks, Call(t)
  PROVE  /\ HoldsOK' /\ pc[t] \notin LockedAt /\ Running(t)
         /\ \/ SamePriorities(os, os') \/ "xTaskCreate" \in Calls
            \/ \E x \in Tasks, p \in NewPriorities : vTaskPrioritySet(t, x, p)
<1>1. HasFields(os) /\ os.suspended \in Nat /\ pc = [u \in Tasks |-> pc[u]]
  BY DEF HoldsOK, IsPcFunction
<1>2. Running(t) /\ pc[t] = "app"
  BY DEF Call, vTaskDelay, xTaskDelayUntil, taskYIELD, SuspendScheduler, ResumeScheduler,
         vTaskSuspend, vTaskResume, xTaskAbortDelay, vTaskDelete, vTaskPrioritySet,
         xTaskCreate, MayCall, At
<1>3. pc[t] \notin LockedAt /\ pc[t] \notin Holding
  BY <1>2, ElsewhereNotHeld DEF LockedAt, Elsewhere
<1>4. UNCHANGED pc /\ Keeps(os, os') => HoldsOK' /\ SamePriorities(os, os')
  BY KeptHolds
<1>5. ASSUME NEW n, vTaskDelay(t, n) \/ xTaskDelayUntil(t, n)
      PROVE  HoldsOK' /\ SamePriorities(os, os')
  <2>1. CASE os' = vTaskSuspendAll(os) /\ (Goto(t, "delay") \/ Goto(t, "delayUntil"))
    BY <1>1, <1>2, <2>1, SuspendsHolds
  <2>2. CASE os' = portYIELD(os) /\ UNCHANGED pc
    BY <1>1, <1>4, <2>2, UnlinkKept
  <2>3. QED BY <1>5, <2>1, <2>2 DEF vTaskDelay, xTaskDelayUntil
<1>6. ASSUME taskYIELD(t) \/ SuspendScheduler(t) \/ ResumeScheduler(t)
      PROVE  HoldsOK' /\ SamePriorities(os, os')
  <2>1. CASE taskYIELD(t)
    <3>1. os' = portYIELD(os) /\ UNCHANGED pc
      BY <2>1 DEF taskYIELD
    <3>2. Keeps(os, os')
      BY <1>1, <3>1, UnlinkKept
    <3>3. QED BY <3>1, <3>2, KeptHolds
  <2>2. CASE SuspendScheduler(t)
    <3>1. os' = vTaskSuspendAll(os) /\ UNCHANGED pc
      BY <2>2 DEF SuspendScheduler
    <3>2. pc = [u \in Tasks |-> pc[u]]
      BY <1>1
    <3>3. QED BY <1>2, <3>1, <3>2, SuspendsHolds
  <2>3. CASE ResumeScheduler(t)
    <3>1. os.suspended > 0 /\ os' = xTaskResumeAll(os) /\ UNCHANGED pc
      BY <2>3 DEF ResumeScheduler
    <3>2. QED BY <1>1, <1>2, <1>3, <3>1, ResumesHolds
  <2>4. QED BY <1>6, <2>1, <2>2, <2>3
<1>7. ASSUME NEW x, vTaskSuspend(t, x)
      PROVE  HoldsOK' /\ SamePriorities(os, os')
  <2>1. Goto(t, "suspendReset") /\ Keeps(os, os')
    BY <1>1, <1>7, SuspendKept DEF vTaskSuspend
  <2>2. QED BY <1>1, <1>2, <2>1, LeavesHolds, ElsewhereNotHeld DEF Elsewhere
<1>8. ASSUME NEW x, vTaskResume(t, x)
      PROVE  HoldsOK' /\ SamePriorities(os, os')
  <2>1. PICK r, c : /\ r = prvAddTaskToReadyList(RemoveState(os, x), x)
                    /\ os' = YieldIf(r, c) /\ UNCHANGED pc
    BY <1>8 DEF vTaskResume
  <2>2. Keeps(os, r) /\ HasFields(r)
    BY <1>1, <2>1, MovedKept
  <2>3. Keeps(os, os')
    BY <1>1, <2>1, <2>2, UnlinkKept, KeptAfterKept
  <2>4. QED BY <1>4, <2>1, <2>3
<1>9. ASSUME NEW x, xTaskAbortDelay(t, x)
      PROVE  HoldsOK' /\ SamePriorities(os, os')
  BY <1>1, <1>2, <1>9, SuspendsHolds DEF xTaskAbortDelay
<1>10. ASSUME NEW x \in Tasks, vTaskDelete(t, x)
       PROVE  HoldsOK' /\ SamePriorities(os, os')
  <2>1. Keeps(os, os')
    BY <1>1, <1>10, DeleteKept DEF vTaskDelete
  <2>2. /\ \A u \in Tasks : pc'[u] = pc[u] \/ pc'[u] \in Elsewhere
        /\ pc'[t] \in Elsewhere
    BY <1>1, <1>10 DEF vTaskDelete, Elsewhere
  <2>3. pc'[t] \notin Holding /\ \A u \in Tasks : pc'[u] = pc[u] \/ pc'[u] \notin Holding
    BY <2>2, ElsewhereNotHeld
  <2>4. HasFields(os') /\ os'.suspended \in Nat
    BY <1>1, <2>1 DEF Keeps, HasFields
  <2>5. SamePriorities(os, os')
    BY <2>1 DEF Keeps, SamePriorities
  <2>6. QED BY <1>2, <2>3, <2>4, <2>5, TaskStepHolds
<1>11. ASSUME NEW x, NEW p, vTaskPrioritySet(t, x, p)
       PROVE  HoldsOK'
  <2>1. SameProcessor(os, os') /\ UNCHANGED pc
    BY <1>1, <1>11, PrioritySetGives DEF vTaskPrioritySet
  <2>2. HasFields(os')
    BY <1>1, <2>1 DEF HasFields, SameProcessor
  <2>3. HasFields(os)' /\ os'.suspended \in Nat
    BY <1>1, <2>1, <2>2 DEF HasFields, SameProcessor
  <2>4. QED BY <2>1, <2>3 DEF HoldsOK, SameProcessor
<1>12. ASSUME NEW x \in Tasks, NEW p, xTaskCreate(t, x, p)
       PROVE  HoldsOK'
  <2>1. /\ DOMAIN os' = DOMAIN os /\ os'.suspended = os.suspended
    <3>1. os' = prvAddNewTaskToReadyList(prvInitialiseNewTask(os, x, p), x)
      BY <1>12 DEF xTaskCreate
    <3>2. QED BY <1>1, <3>1, NewTaskGives
  <2>2. HasFields(os') /\ os'.suspended \in Nat
    BY <1>1, <2>1 DEF HasFields
  <2>3. /\ \A u \in Tasks : pc'[u] = pc[u] \/ pc'[u] \in Elsewhere
        /\ pc'[t] \in Elsewhere
    BY <1>1, <1>12 DEF xTaskCreate, Elsewhere
  <2>4. pc'[t] \notin Holding /\ \A u \in Tasks : pc'[u] = pc[u] \/ pc'[u] \notin Holding
    BY <2>3, ElsewhereNotHeld
  <2>5. QED BY <1>2, <2>2, <2>4, TaskStepHolds
<1>13. \A x \in Handles : x \in Tasks
  BY DEF Handles
<1>14. HoldsOK'
  BY <1>5, <1>6, <1>7, <1>8, <1>9, <1>10, <1>11, <1>12, <1>13 DEF Call
<1>15. \/ SamePriorities(os, os') \/ "xTaskCreate" \in Calls
       \/ \E x \in Tasks, p \in NewPriorities : vTaskPrioritySet(t, x, p)
  <2>1. ASSUME NEW x \in Tasks, NEW p, xTaskCreate(t, x, p)
        PROVE  "xTaskCreate" \in Calls
    BY <2>1 DEF xTaskCreate, MayCall
  <2>2. QED BY <1>5, <1>6, <1>7, <1>8, <1>9, <1>10, <1>13, <2>1 DEF Call
<1>16. QED BY <1>2, <1>3, <1>14, <1>15

LEMMA MaskedHolds ==
  ASSUME HoldsOK, MaskedStep \/ TickISR \/ \E x \in Handles : xTaskResumeFromISR(x)
  PROVE  HoldsOK' /\ UNCHANGED pc /\ SamePriorities(os, os')
<1>1. HasFields(os)
  BY DEF HoldsOK
<1>2. CASE MaskedStep
  <2>1. Keeps(os, os')
    BY <1>1, <1>2, MovePendingKept, EndPendingKept, TickKept, EndResumeKept, UnblockKept
       DEF MaskedStep, DrainPendingReady, FinishPendingReady, ProcessPendedTick,
           FinishResumeAll, UnblockDelayed
  <2>2. UNCHANGED pc
    BY <1>2 DEF MaskedStep, DrainPendingReady, FinishPendingReady, ProcessPendedTick,
           FinishResumeAll, UnblockDelayed
  <2>3. QED BY <2>1, <2>2, KeptHolds
<1>3. CASE TickISR
  <2>1. /\ os' = IncrementTick(os, "unblockISR")
           \/ os' = [os EXCEPT !.pendedTicks = os.pendedTicks + 1]
        /\ UNCHANGED pc
    BY <1>3 DEF TickISR
  <2>2. Keeps(os, os')
    <3>1. Keeps(os, IncrementTick(os, "unblockISR"))
      BY <1>1, TickKept
    <3>2. Keeps(os, [os EXCEPT !.pendedTicks = os.pendedTicks + 1])
      BY <1>1 DEF Keeps, HasFields
    <3>3. QED BY <2>1, <3>1, <3>2
  <2>3. QED BY <2>1, <2>2, KeptHolds
<1>4. ASSUME NEW x, xTaskResumeFromISR(x)
      PROVE  HoldsOK' /\ UNCHANGED pc /\ SamePriorities(os, os')
  <2>1. PICK c : c = (os.prio[x] > os.prio[os.current])
    OBVIOUS
  <2>2. PICK r, s : /\ r = PendYieldIf(os, c)
                    /\ s = prvAddTaskToReadyList(RemoveState(r, x), x)
    OBVIOUS
  <2>3. Keeps(os, r) /\ HasFields(r)
    BY <1>1, <2>2, UnlinkKept, KeptAfterKept, SelfKept
  <2>4. Keeps(os, s) /\ HasFields(s)
    BY <1>1, <2>2, <2>3, MovedKept, KeptAfterKept
  <2>5. (\E y : os' = YieldIf(s, y)) \/ os' = AppendEvent(os, xPendingReadyList, x)
    BY <1>4, <2>1, <2>2, Zenon DEF xTaskResumeFromISR
  <2>6. Keeps(os, os')
    BY <1>1, <2>4, <2>5, UnlinkKept, LinkKept, KeptAfterKept
  <2>7. UNCHANGED pc
    BY <1>4 DEF xTaskResumeFromISR
  <2>8. QED BY <2>6, <2>7, KeptHolds
<1>5. QED BY <1>2, <1>3, <1>4

LEMMA StartHolds ==
  ASSUME TasksAssumption, HoldsOK, IsPcFunction, Start
  PROVE  HoldsOK' /\ \A u \in Tasks : pc[u] \notin Holding
<1>1. HasFields(os) /\ os.suspended \in Nat /\ ~os.running
  BY DEF HoldsOK, Start, CreateBeforeStart, vTaskStartScheduler
<1>2. \A u \in Tasks : pc[u] \notin Holding
  BY <1>1 DEF HoldsOK
<1>3. \A u \in Tasks : pc'[u] = pc[u] \/ pc'[u] = "app"
  BY DEF IsPcFunction, Start, CreateBeforeStart, vTaskStartScheduler, Goto
<1>4. HasFields(os') /\ os'.suspended \in Nat
  <2>1. CASE \E t \in Tasks, p \in InitialPriorities : CreateBeforeStart(t, p)
    <3>1. PICK t, p : os' = prvAddNewTaskToReadyList(prvInitialiseNewTask(os, t, p), t)
      BY <2>1 DEF CreateBeforeStart
    <3>2. DOMAIN os' = DOMAIN os /\ os'.suspended = os.suspended
      BY <1>1, <3>1, NewTaskGives
    <3>3. QED BY <1>1, <3>2 DEF HasFields
  <2>2. CASE vTaskStartScheduler
    <3>1. PICK r : /\ r = prvCreateIdleTasks(os)
                   /\ os' = [r EXCEPT !.nextUnblock = portMAX_DELAY, !.running = TRUE,
                                      !.tick = configINITIAL_TICK_COUNT]
      BY <2>2 DEF vTaskStartScheduler
    <3>2. HasFields(r) /\ r.suspended = os.suspended
      <4>1. r = prvAddNewTaskToReadyList(prvInitialiseNewTask(os, Idle, 0), Idle)
        BY <3>1 DEF prvCreateIdleTasks
      <4>2. DOMAIN r = DOMAIN os /\ r.suspended = os.suspended
        BY <1>1, <4>1, NewTaskGives
      <4>3. QED BY <1>1, <4>2 DEF HasFields
    <3>3. HasFields(os') /\ os'.suspended = r.suspended
      BY <3>1, <3>2 DEF HasFields
    <3>4. QED BY <1>1, <3>2, <3>3
  <2>3. QED BY <2>1, <2>2 DEF Start
<1>5. HasFields(os)'
  BY <1>4 DEF HasFields
<1>6. \A u \in Tasks : pc'[u] \notin Holding
  BY <1>2, <1>3, ElsewhereNotHeld DEF Elsewhere
<1>7. QED BY <1>2, <1>4, <1>5, <1>6 DEF HoldsOK

LEMMA IdleHolds ==
  ASSUME TasksAssumption, HoldsOK, IsPcFunction, IdleStep
  PROVE  /\ HoldsOK' /\ Running(Idle) /\ pc[Idle] \notin Holding
         /\ SamePriorities(os, os')
<1>1. HasFields(os) /\ os.suspended \in Nat
  BY DEF HoldsOK
<1>2. Running(Idle) /\ pc[Idle] = "app" /\ Idle \in Tasks
  BY DEF IdleStep, prvCheckTasksWaitingTermination, IdleYields, At, TasksAssumption
<1>3. pc[Idle] \notin Holding /\ "none" \notin Holding
  BY <1>2, ElsewhereNotHeld DEF Elsewhere
<1>4. CASE IdleYields
  <2>1. Keeps(os, os') /\ UNCHANGED pc
    BY <1>1, <1>4, UnlinkKept DEF IdleYields
  <2>2. QED BY <1>2, <1>3, <2>1, KeptHolds
<1>5. CASE prvCheckTasksWaitingTermination
  <2>1. PICK x, r : /\ r = RemoveState(os, x) /\ Goto(x, "none")
                    /\ os' = [r EXCEPT !.numTasks = @ - 1, !.numDeleted = @ - 1]
    BY <1>5 DEF prvCheckTasksWaitingTermination
  <2>2. Keeps(os, r) /\ HasFields(r)
    BY <1>1, <2>1, UnlinkKept, KeptAfterKept, SelfKept
  <2>3. HasFields(os') /\ os'.suspended \in Nat
    BY <1>1, <2>1, <2>2 DEF HasFields, Keeps
  <2>4. \A u \in Tasks : pc'[u] = pc[u] \/ pc'[u] = "none"
    BY <2>1 DEF IsPcFunction, Goto
  <2>5. pc'[Idle] \notin Holding
    BY <1>2, <1>3, <2>4
  <2>6. HoldsOK'
    BY <1>2, <1>3, <2>3, <2>4, <2>5, TaskStepHolds
  <2>7. SamePriorities(os, os')
    BY <2>1, <2>2 DEF HasFields, Keeps, SamePriorities
  <2>8. QED BY <1>2, <1>3, <2>6, <2>7
<1>6. QED BY <1>4, <1>5 DEF IdleStep

LEMMA SwitchHolds ==
  ASSUME HoldsOK, ContextSwitch
  PROVE  HoldsOK' /\ UNCHANGED pc /\ SamePriorities(os, os')
<1>1. PICK r : r = [os EXCEPT !.pendSV = FALSE] /\ os' = vTaskSwitchContext(r)
  BY DEF ContextSwitch
<1>2. HasFields(os) /\ os.suspended \in Nat
  BY DEF HoldsOK
<1>3. Keeps(os, r) /\ HasFields(r)
  <2>1. Keeps(os, r)
    BY <1>1, <1>2, FieldsKept
  <2>2. QED BY <1>2, <2>1, KeptAfterKept, SelfKept
<1>4. /\ DOMAIN os' = DOMAIN os /\ os'.running = os.running
      /\ os'.suspended = os.suspended /\ (os.suspended # 0 => os'.current = os.current)
  BY <1>1, <1>3, SwitchContextGives DEF Keeps
<1>5. HasFields(os)'
  BY <1>2, <1>4 DEF HasFields
<1>6. UNCHANGED pc
  BY DEF ContextSwitch
<1>7. SamePriorities(os, os')
  BY <1>1, <1>3, SwitchContextGives DEF Keeps, SamePriorities
<1>8. QED BY <1>2, <1>4, <1>5, <1>6, <1>7 DEF HoldsOK

LEMMA SameAfterSame ==
  ASSUME NEW k, NEW r, NEW s, HasFields(k), SameProcessor(k, r),
         HasFields(r) => Keeps(r, s) \/ SameProcessor(r, s)
  PROVE  SameProcessor(k, s) /\ HasFields(s)
  BY DEF SameProcessor, Keeps, HasFields

\* The priority of task h at most is changed.
Reprioritises(k, r, h) ==
  /\ SameProcessor(k, r) /\ r.basePrio = k.basePrio /\ r.mutexesHeld = k.mutexesHeld
  /\ r.prio = k.prio \/ \E p : Becomes(k.prio, r.prio, h, p)

LEMMA ReprioritisesAfter ==
  ASSUME NEW k, NEW r, NEW s, NEW u, NEW h, HasFields(k), Keeps(k, r),
         HasFields(r) => Reprioritises(r, s, h), HasFields(s) => Keeps(s, u)
  PROVE  Reprioritises(k, u, h) /\ HasFields(u)
<1>1. HasFields(r)
  BY DEF Keeps, HasFields
<1>2. HasFields(s)
  BY <1>1 DEF Reprioritises, SameProcessor, HasFields
<1>3. HasFields(u)
  BY <1>2 DEF Keeps, HasFields
<1>4. SameProcessor(k, u) /\ u.basePrio = k.basePrio /\ u.mutexesHeld = k.mutexesHeld
      /\ u.prio = s.prio /\ r.prio = k.prio
  BY <1>1, <1>2 DEF Keeps, Reprioritises, SameProcessor
<1>5. QED BY <1>1, <1>3, <1>4 DEF Reprioritises

LEMMA KeepsReprioritises ==
  ASSUME NEW k, NEW r, NEW h, Keeps(k, r)
  PROVE  Reprioritises(k, r, h)
  BY DEF Keeps, Reprioritises, SameProcessor

LEMMA ChangePriorityGives ==
  ASSUME NEW k, HasFields(k), NEW h, NEW p
  PROVE  Reprioritises(k, ChangePriority(k, h, p), h)
<1> DEFINE r == [k EXCEPT !.prio[h] = p, !.eventValue[h] = configMAX_PRIORITIES - p]
           s == prvAddTaskToReadyList(RemoveState(r, h), h)
<1>1. ChangePriority(k, h, p) = r \/ ChangePriority(k, h, p) = s
  BY DEF ChangePriority
<1>2. SameProcessor(k, r) /\ r.basePrio = k.basePrio /\ r.mutexesHeld = k.mutexesHeld
      /\ r.prio = [k.prio EXCEPT ![h] = p] /\ HasFields(r)
  BY DEF SameProcessor, HasFields
<1>3. Becomes(k.prio, r.prio, h, p)
  BY <1>2, ExceptBecomes
<1> HIDE DEF r
<1>4. Keeps(r, s)
  BY <1>2, MovedKept
<1> HIDE DEF s
<1>5. Reprioritises(k, r, h)
  BY <1>2, <1>3 DEF Reprioritises
<1>6. Reprioritises(k, s, h)
  BY <1>5, <1>4, SelfKept, ReprioritisesAfter
<1>7. QED BY <1>1, <1>5, <1>6

LEMMA InheritGives ==
  ASSUME NEW k, HasFields(k), NEW h
  PROVE  /\ Reprioritises(k, xTaskPriorityInherit(k, h), h)
         /\ h = NoTask => xTaskPriorityInherit(k, h) = k
<1>1. Reprioritises(k, k, h)
  BY SelfKept, KeepsReprioritises
<1>2. QED BY <1>1, ChangePriorityGives DEF xTaskPriorityInherit

LEMMA AfterTimeoutGives ==
  ASSUME NEW k, HasFields(k), NEW h, NEW w
  PROVE  /\ Reprioritises(k, vTaskPriorityDisinheritAfterTimeout(k, h, w), h)
         /\ h = NoTask => vTaskPriorityDisinheritAfterTimeout(k, h, w) = k
<1> DEFINE p == IF k.basePrio[h] > w THEN k.basePrio[h] ELSE w
           a == configASSERT(k, k.mutexesHeld[h] > 0)
           b == configASSERT(a, h # k.current)
           c == ChangePriority(b, h, p)
           r == vTaskPriorityDisinheritAfterTimeout(k, h, w)
<1>1. (r = k \/ r = a \/ r = c) /\ (h = NoTask => r = k)
  BY DEF vTaskPriorityDisinheritAfterTimeout
<1> HIDE DEF p
<1>2. Keeps(k, a) /\ HasFields(a)
  BY UnlinkKept, KeptAfterKept, SelfKept
<1> HIDE DEF a
<1>3. Keeps(k, b) /\ HasFields(b)
  BY <1>2, UnlinkKept, KeptAfterKept
<1> HIDE DEF b
<1>4. Reprioritises(b, c, h)
  BY <1>3, ChangePriorityGives
<1> HIDE DEF c
<1>5. Keeps(c, c)
  BY SelfKept
<1>6. Reprioritises(k, c, h)
  BY <1>3, <1>4, <1>5, ReprioritisesAfter
<1>7. Reprioritises(k, a, h) /\ Reprioritises(k, k, h)
  BY <1>2, SelfKept, KeepsReprioritises
<1> HIDE DEF r
<1>8. QED BY <1>1, <1>6, <1>7 DEF r

LEMMA IncrementGives ==
  ASSUME NEW k, HasFields(k)
  PROVE  LET r == pvTaskIncrementMutexHeldCount(k)
         IN  /\ SameProcessor(k, r) /\ r.basePrio = k.basePrio /\ r.prio = k.prio
             /\ Becomes(k.mutexesHeld, r.mutexesHeld, k.current,
                        k.mutexesHeld[k.current] + 1)
<1>1. /\ SameProcessor(k, pvTaskIncrementMutexHeldCount(k))
      /\ pvTaskIncrementMutexHeldCount(k).basePrio = k.basePrio
      /\ pvTaskIncrementMutexHeldCount(k).prio = k.prio
      /\ pvTaskIncrementMutexHeldCount(k).mutexesHeld =
           [k.mutexesHeld EXCEPT ![k.current] = k.mutexesHeld[k.current] + 1]
  BY DEF HasFields, SameProcessor, pvTaskIncrementMutexHeldCount
<1>2. QED BY <1>1, ExceptBecomes

LEMMA DisinheritGives ==
  ASSUME NEW k, HasFields(k), NEW h, h # NoTask
  PROVE  LET r == xTaskPriorityDisinherit(k, h)
         IN  /\ SameProcessor(k, r) /\ r.basePrio = k.basePrio
             /\ Becomes(k.mutexesHeld, r.mutexesHeld, h, k.mutexesHeld[h] - 1)
             /\ Disinherits(k, h) => Becomes(k.prio, r.prio, h, k.basePrio[h])
             /\ ~Disinherits(k, h) => r.prio = k.prio
<1> DEFINE a == configASSERT(k, h = k.current /\ k.mutexesHeld[h] > 0)
           b == [a EXCEPT !.mutexesHeld[h] = @ - 1]
           c == RemoveState(b, h)
           d == [c EXCEPT !.prio[h] = k.basePrio[h],
                          !.eventValue[h] = configMAX_PRIORITIES - k.basePrio[h]]
           e == prvAddTaskToReadyList(d, h)
           r == xTaskPriorityDisinherit(k, h)
<1>1. r = IF Disinherits(k, h) THEN e ELSE b
  BY DEF xTaskPriorityDisinherit
<1>2. Keeps(k, a) /\ HasFields(a)
  BY UnlinkKept, KeptAfterKept, SelfKept
<1> HIDE DEF a
<1>3. /\ SameProcessor(a, b) /\ b.basePrio = a.basePrio /\ b.prio = a.prio /\ HasFields(b)
      /\ b.mutexesHeld = [a.mutexesHeld EXCEPT ![h] = a.mutexesHeld[h] - 1]
  BY <1>2 DEF SameProcessor, HasFields
<1> HIDE DEF b
<1>4. /\ SameProcessor(k, b) /\ b.basePrio = k.basePrio /\ b.prio = k.prio
      /\ b.mutexesHeld = [k.mutexesHeld EXCEPT ![h] = k.mutexesHeld[h] - 1]
  BY <1>2, <1>3 DEF SameProcessor, Keeps
<1>5. Keeps(b, c) /\ HasFields(c)
  BY <1>3, UnlinkKept, KeptAfterKept, SelfKept
<1> HIDE DEF c
<1>6. /\ SameProcessor(c, d) /\ d.basePrio = c.basePrio /\ d.mutexesHeld = c.mutexesHeld
      /\ d.prio = [c.prio EXCEPT ![h] = k.basePrio[h]] /\ HasFields(d)
  BY <1>5 DEF SameProcessor, HasFields
<1> HIDE DEF d
<1>7. Keeps(d, e)
  BY <1>6, ReadyKept
<1> HIDE DEF e
<1>8. /\ SameProcessor(k, e) /\ e.basePrio = k.basePrio
      /\ e.mutexesHeld = [k.mutexesHeld EXCEPT ![h] = k.mutexesHeld[h] - 1]
      /\ e.prio = [k.prio EXCEPT ![h] = k.basePrio[h]]
  BY <1>4, <1>5, <1>6, <1>7 DEF SameProcessor, Keeps
<1>9. /\ Becomes(k.mutexesHeld, b.mutexesHeld, h, k.mutexesHeld[h] - 1)
      /\ Becomes(k.mutexesHeld, e.mutexesHeld, h, k.mutexesHeld[h] - 1)
      /\ Becomes(k.prio, e.prio, h, k.basePrio[h])
  BY <1>4, <1>8, ExceptBecomes
<1> HIDE DEF r
<1>10. QED BY <1>1, <1>4, <1>8, <1>9 DEF r

-----------------------------------------------------------------------------
(* Who has locked a queue.                                                 *)

\* A locked queue is that of the call of a task which will unlock it; the lock for
\* sending is released first.
LocksOK ==
  \A q \in Queues : IsLocked(queue[q]) =>
    \E t \in Tasks : /\ pc[t] \in LockedAt /\ call[t].queue = q
                     /\ queue[q].txLock # queueUNLOCKED => pc[t] # "queueUnlockRx"

\* No lock is taken.
TakesNoLock(Q, R) ==
  \A p \in Queues : /\ R[p].txLock # queueUNLOCKED => Q[p].txLock # queueUNLOCKED
                    /\ R[p].rxLock # queueUNLOCKED => Q[p].rxLock # queueUNLOCKED

LEMMA LeavesTakesNoLock ==
  ASSUME NEW Q, NEW R, NEW q, Leaves(Q, R, q)
  PROVE  TakesNoLock(Q, R)
  BY DEF Leaves, TakesNoLock

LEMMA NoLocksTaken ==
  ASSUME LocksOK, TakesNoLock(queue, queue'), \A u \in Tasks : pc[u] \notin LockedAt
  PROVE  LocksOK'
<1>1. \A q \in Queues : ~IsLocked(queue[q])
  BY DEF LocksOK
<1>2. \A q \in Queues : ~IsLocked(queue'[q])
  BY <1>1 DEF TakesNoLock, IsLocked
<1>3. QED BY <1>2 DEF LocksOK, IsLocked

LEMMA LocksKept ==
  ASSUME LocksOK, TakesNoLock(queue, queue'), UNCHANGED <<pc, call>>
  PROVE  LocksOK'
<1>1. \A q \in Queues : IsLocked(queue'[q]) => IsLocked(queue[q])
  BY DEF TakesNoLock, IsLocked
<1>2. QED BY <1>1 DEF LocksOK, TakesNoLock, IsLocked

LEMMA LockedAtHolds == \A p \in LockedAt : p \in Holding
  BY DEF LockedAt, Holding

LEMMA NobodyLocks ==
  ASSUME HoldsOK, NEW t \in Tasks, Running(t), pc[t] \notin LockedAt
  PROVE  \A u \in Tasks : pc[u] \notin LockedAt
<1>1. ASSUME NEW u \in Tasks, pc[u] \in LockedAt
      PROVE  FALSE
  <2>1. os.current = u
    BY <1>1, LockedAtHolds DEF HoldsOK
  <2>2. QED BY <1>1, <2>1 DEF Running
<1>2. QED BY <1>1

\* The steps of the scheduler.
LEMMA SchedulerKeepsLocks ==
  ASSUME TasksAssumption, HoldsOK, IsPcFunction, LocksOK, SchedulerNext,
         UNCHANGED <<queue, call>>
  PROVE  HoldsOK' /\ LocksOK'
<1>1. TakesNoLock(queue, queue')
  BY DEF TakesNoLock
<1>2. CASE Start
  <2>1. HoldsOK' /\ \A u \in Tasks : pc[u] \notin LockedAt
    BY <1>2, StartHolds, LockedAtHolds
  <2>2. QED BY <1>1, <2>1, NoLocksTaken
<1>3. CASE Interrupt \/ MaskedStep
  <2>1. HoldsOK' /\ UNCHANGED pc
    BY <1>3, MaskedHolds DEF Interrupt
  <2>2. QED BY <1>1, <2>1, LocksKept
<1>4. CASE ContextSwitch
  <2>1. HoldsOK' /\ UNCHANGED pc
    BY <1>4, SwitchHolds
  <2>2. QED BY <1>1, <2>1, LocksKept
<1>5. CASE IdleStep
  <2>1. HoldsOK' /\ Running(Idle) /\ pc[Idle] \notin LockedAt /\ Idle \in Tasks
    BY <1>5, IdleHolds, LockedAtHolds DEF TasksAssumption
  <2>2. \A u \in Tasks : pc[u] \notin LockedAt
    BY <2>1, NobodyLocks
  <2>3. QED BY <1>1, <2>1, <2>2, NoLocksTaken
<1>6. ASSUME NEW t \in Tasks, Call(t) \/ Continue(t)
      PROVE  HoldsOK' /\ LocksOK'
  <2>1. HoldsOK' /\ pc[t] \notin LockedAt /\ Running(t)
    BY <1>6, CallHolds, ContinueHolds
  <2>2. \A u \in Tasks : pc[u] \notin LockedAt
    BY <2>1, NobodyLocks
  <2>3. QED BY <1>1, <2>1, <2>2, NoLocksTaken
<1>7. QED BY <1>2, <1>3, <1>4, <1>5, <1>6 DEF SchedulerNext

\* A task inside or at the start of a call that has not suspended the scheduler.
LEMMA StepKeepsLocks ==
  ASSUME HoldsOK, IsPcFunction, LocksOK, NEW t \in Tasks, Running(t),
         pc[t] \notin Holding, SameProcessor(os, os'), TakesNoLock(queue, queue'),
         UNCHANGED pc \/ \E p : Goto(t, p) /\ p \notin Holding
  PROVE  HoldsOK' /\ LocksOK'
<1>1. HasFields(os') /\ os'.suspended \in Nat
  BY DEF HoldsOK, SameProcessor, HasFields
<1>2. /\ pc'[t] \notin Holding
      /\ \A u \in Tasks : u # t => pc'[u] = pc[u]
  BY DEF IsPcFunction, Goto
<1>3. HoldsOK'
  BY <1>1, <1>2, TaskStepHolds
<1>4. \A u \in Tasks : pc[u] \notin LockedAt
  BY NobodyLocks, LockedAtHolds
<1>5. QED BY <1>3, <1>4, NoLocksTaken

LEMMA TakesNoLockTwice ==
  ASSUME NEW Q, NEW R, NEW S, TakesNoLock(Q, R), TakesNoLock(R, S)
  PROVE  TakesNoLock(Q, S)
  BY DEF TakesNoLock

\* What a send makes of the fields of the queues, apart from the items.
LEMMA SentFields ==
  ASSUME NEW Q, HasQueueFields(Q), NEW q \in Queues, NEW x, NEW position
  PROVE  LET R == Sent(Q, q, x, position)
         IN  /\ HasQueueFields(R) /\ TakesNoLock(Q, R)
             /\ R[q].holder = NoTask
             /\ \A p \in Queues : p # q => R[p].holder = Q[p].holder
             /\ \A p \in Queues : p # q /\ Kind[p] = "mutex" => R[p].count = Q[p].count
             /\ R[q].count = prvCopyDataToQueue(Q, q, x, position)[q].count
<1> DEFINE C == prvCopyDataToQueue(Q, q, x, position)
           R == [C EXCEPT ![q].holder = NoTask, ![q].recursion = 0]
<1>1. Leaves(Q, C, q) /\ HasQueueFields(C) /\ TakesNoLock(Q, C)
  <2>1. Leaves(Q, C, q)
    BY CopyLeaves
  <2> HIDE DEF C
  <2>2. QED BY <2>1, LeavesTakesNoLock DEF Leaves
<1> HIDE DEF C
<1>2. /\ HasQueueFields(R) /\ TakesNoLock(C, R) /\ R[q].holder = NoTask
      /\ R[q].count = C[q].count
      /\ \A p \in Queues : p # q => R[p] = C[p]
  BY <1>1 DEF HasQueueFields, TakesNoLock
<1> HIDE DEF R
<1>3. TakesNoLock(Q, R)
  BY <1>1, <1>2, TakesNoLockTwice
<1>4. /\ \A p \in Queues : p # q => R[p].holder = Q[p].holder
      /\ \A p \in Queues : p # q /\ Kind[p] = "mutex" => R[p].count = Q[p].count
  BY <1>1, <1>2 DEF Leaves
<1>5. QED BY <1>2, <1>3, <1>4 DEF Sent, R, C

\* What a take makes of them.
LEMMA TakenFields ==
  ASSUME NEW Q, HasQueueFields(Q), NEW q \in Queues, NEW t, NEW op
  PROVE  LET R == TakenFrom(Q, q, t, op)
         IN  /\ HasQueueFields(R) /\ TakesNoLock(Q, R)
             /\ R[q].holder = IF Kind[q] = "mutex" THEN t ELSE Q[q].holder
             /\ \A p \in Queues : p # q => R[p] = Q[p]
             /\ Kind[q] = "mutex" => R[q].count = Q[q].count - 1
<1>1. CASE Kind[q] # "mutex"
  <2>1. TakenFrom(Q, q, t, op) = TakeItem(Q, q)
    BY <1>1 DEF TakenFrom
  <2>2. /\ HasQueueFields(TakeItem(Q, q)) /\ TakesNoLock(Q, TakeItem(Q, q))
        /\ TakeItem(Q, q)[q].holder = Q[q].holder
        /\ \A p \in Queues : p # q => TakeItem(Q, q)[p] = Q[p]
    BY DEF TakeItem, HasQueueFields, TakesNoLock
  <2>3. QED BY <1>1, <2>1, <2>2
<1>2. CASE Kind[q] = "mutex"
  <2> DEFINE n == IF op = "takeRecursive" THEN Q[q].recursion + 1 ELSE Q[q].recursion
             T == [Q EXCEPT ![q].holder = t, ![q].recursion = n]
             R == [T EXCEPT ![q].count = @ - 1]
  <2>1. TakenFrom(Q, q, t, op) = TakeItem(T, q)
    <3>1. [Q EXCEPT ![q].holder = t,
                    ![q].recursion = IF op = "takeRecursive" THEN @ + 1 ELSE @] = T
      BY DEF HasQueueFields
    <3>2. QED BY <1>2, <3>1 DEF TakenFrom
  <2>2. TakeItem(T, q) = R
    BY <1>2 DEF TakeItem, HasStorage
  <2> HIDE DEF n
  <2>3. /\ HasQueueFields(T) /\ TakesNoLock(Q, T) /\ T[q].holder = t
        /\ T[q].count = Q[q].count /\ \A p \in Queues : p # q => T[p] = Q[p]
    BY DEF HasQueueFields, TakesNoLock
  <2> HIDE DEF T
  <2>4. /\ HasQueueFields(R) /\ TakesNoLock(T, R) /\ R[q].holder = t
        /\ R[q].count = T[q].count - 1 /\ \A p \in Queues : p # q => R[p] = T[p]
    BY <2>3 DEF HasQueueFields, TakesNoLock
  <2> HIDE DEF R
  <2>5. TakesNoLock(Q, R)
    BY <2>3, <2>4, TakesNoLockTwice
  <2>6. QED BY <1>2, <2>1, <2>2, <2>3, <2>4, <2>5
<1>3. QED BY <1>1, <1>2

\* The container of a queue, if it has one, is a set.
LEMMA ContainerIsSet ==
  ASSUME NEW Q, RingsOK(Q), NEW q \in Queues, Q[q].container # NoQueue
  PROVE  Q[q].container \in Queues /\ Kind[Q[q].container] = "set"
  BY DEF RingsOK, RingOK, QueueType

LEMMA GiveUpGives ==
  ASSUME NEW t, NEW c, GiveUpOrWait(t, c)
  PROVE  /\ UNCHANGED <<os, queue>>
         /\ \/ c.ticks = 0 /\ Return(t)
            \/ c.ticks # 0 /\ Goto(t, "queueSuspend")
  BY DEF GiveUpOrWait, Step

\* The kernel record and the queues after a send that has room.
LEMMA SendNowGives ==
  ASSUME QueueAssumption, QueueIInv, HasFields(os), NEW t, NEW c, Active(c), Sends(c.op),
         ~IsFull(c.queue) \/ c.op = "overwrite", SendNow(t, c)
  PROVE  LET h == queue[c.queue].holder
             k == xTaskPriorityDisinherit(os, h)
             R == Sent(queue, c.queue, c.item, c.op)
         IN  /\ SameProcessor(os, k) /\ HasFields(k) /\ Keeps(k, os')
             /\ HasQueueFields(R) /\ Leaves(R, queue', NoQueue)
             /\ TakesNoLock(queue, queue')
<1>1. /\ RingsOK(queue) /\ CallOK(c) /\ c.op # "none"
  BY DEF QueueIInv, Active, SendNow
<1> DEFINE q == c.queue
           h == queue[q].holder
           k == xTaskPriorityDisinherit(os, h)
           R == Sent(queue, q, c.item, c.op)
           n == Announce(k, R, q)
<1>2. /\ q \in Queues /\ (HasStorage(q) => c.item \in ValuesOf(q))
      /\ (c.op = "overwrite" /\ HasStorage(q) => Length[q] = 1)
      /\ (queue[q].count # Length[q] \/ c.op = "overwrite")
  BY <1>1 DEF CallOK, IsFull
<1>3. \/ os' = k /\ queue' = R
      \/ queue' = n.queues /\ \E y : os' = YieldIf(n.kernel, y)
  BY DEF SendNow, Sent
<1>4. SameProcessor(os, k) /\ HasFields(k)
  <2>1. CASE h = NoTask
    BY <2>1, SelfKept DEF xTaskPriorityDisinherit, SameProcessor
  <2>2. CASE h # NoTask
    <3>1. SameProcessor(os, k)
      BY <2>2, DisinheritGives
    <3>2. QED BY <3>1 DEF SameProcessor, HasFields
  <2>3. QED BY <2>1, <2>2
<1> HIDE DEF q, h, k
<1>5. RingsOK(R)
  BY <1>1, <1>2, SentStep, StepAt, StepsKeepRings
<1>6. HasQueueFields(R) /\ TakesNoLock(queue, R)
  BY <1>1, <1>2, SentFields, RingsHaveFields
<1> HIDE DEF R
<1>7. Leaves(R, n.queues, NoQueue) /\ Keeps(k, n.kernel)
  BY <1>2, <1>4, <1>5, <1>6, AnnounceLeaves, ContainerIsSet
<1> HIDE DEF n
<1>8. Keeps(k, os')
  BY <1>3, <1>4, <1>7, SelfKept, UnlinkKept, KeptAfterKept
<1>9. Leaves(R, queue', NoQueue)
  BY <1>3, <1>6, <1>7, SelfLeft
<1>10. TakesNoLock(queue, queue')
  BY <1>6, <1>9, LeavesTakesNoLock, TakesNoLockTwice
<1>11. QED BY <1>4, <1>6, <1>8, <1>9, <1>10 DEF q, h, k, R

LEMMA ReceiveNowGives ==
  ASSUME HasFields(os), HasQueueFields(queue), NEW t, NEW c, c.queue \in Queues,
         ReceiveNow(t, c) \/ PeekNow(t, c)
  PROVE  /\ Keeps(os, os') /\ Leaves(queue, queue', c.queue) /\ Return(t)
<1>1. PICK q : q = c.queue /\ q \in Queues
  OBVIOUS
<1>2. /\ Return(t)
      /\ queue' = TakeItem(queue, q) \/ UNCHANGED queue
      /\ \E l, y : os' = YieldIf(WakeOne(os, l), y)
  BY <1>1 DEF ReceiveNow, PeekNow
<1>3. Leaves(queue, queue', q)
  BY <1>1, <1>2, TakeLeaves, SelfLeft
<1>4. PICK l, y, k : k = WakeOne(os, l) /\ os' = YieldIf(k, y)
  BY <1>2
<1>5. Keeps(os, k) /\ HasFields(k)
  BY <1>4, WakeKept, KeptAfterKept, SelfKept
<1>6. Keeps(os, os')
  BY <1>4, <1>5, UnlinkKept, KeptAfterKept
<1>7. QED BY <1>1, <1>2, <1>3, <1>6

LEMMA TakeNowGives ==
  ASSUME HasFields(os), NEW t, NEW c, TakeNow(t, c)
  PROVE  LET k == IF Kind[c.queue] = "mutex" THEN pvTaskIncrementMutexHeldCount(os) ELSE os
         IN  /\ SameProcessor(os, k) /\ HasFields(k) /\ Keeps(k, os')
             /\ queue' = TakenFrom(queue, c.queue, t, c.op) /\ Return(t)
<1> DEFINE k == IF Kind[c.queue] = "mutex" THEN pvTaskIncrementMutexHeldCount(os) ELSE os
           r == WakeOne(k, SendList[c.queue])
<1>1. /\ queue' = TakenFrom(queue, c.queue, t, c.op) /\ Return(t)
      /\ \E y : os' = YieldIf(r, y)
  BY DEF TakeNow, TakenFrom
<1>2. SameProcessor(os, k)
  BY IncrementGives DEF SameProcessor
<1> HIDE DEF k
<1>3. HasFields(k)
  BY <1>2 DEF SameProcessor, HasFields
<1>4. Keeps(k, r) /\ HasFields(r)
  BY <1>3, WakeKept, KeptAfterKept, SelfKept
<1> HIDE DEF r
<1>5. Keeps(k, os')
  BY <1>1, <1>3, <1>4, UnlinkKept, KeptAfterKept
<1>6. QED BY <1>1, <1>2, <1>3, <1>5 DEF k

LEMMA ReturnGoes ==
  ASSUME NEW t, Return(t)
  PROVE  Goto(t, "app")
  BY DEF Return, Step

\* An attempt at the head of the loop.
LEMMA AttemptKeepsLocks ==
  ASSUME QueueAssumption, QueueIInv, HoldsOK, LocksOK, NEW t \in Tasks, NEW c, Active(c),
         Running(t), pc[t] \notin Holding, Attempt(t, c)
  PROVE  HoldsOK' /\ LocksOK'
<1>1. /\ RingsOK(queue) /\ IsPcFunction /\ HasFields(os) /\ c.queue \in Queues
      /\ HasQueueFields(queue)
  BY RingsHaveFields DEF QueueIInv, CallsOK, IsPcFunction, HoldsOK, Active, CallOK
<1>2. "app" \notin Holding /\ "queueSuspend" \notin Holding
  BY ElsewhereNotHeld DEF Elsewhere
<1>3. SameProcessor(os, os') /\ TakesNoLock(queue, queue')
      /\ (Goto(t, "app") \/ Goto(t, "queueSuspend"))
  <2>1. CASE GiveUpOrWait(t, c)
    BY <2>1, GiveUpGives, ReturnGoes DEF SameProcessor, TakesNoLock
  <2>2. CASE Sends(c.op) /\ ~GiveUpOrWait(t, c)
    <3>1. (~IsFull(c.queue) \/ c.op = "overwrite") /\ SendNow(t, c)
      BY <2>2 DEF Attempt, SendAttempt
    <3>2. Goto(t, "app")
      BY <3>1, ReturnGoes DEF SendNow
    <3>3. PICK k : SameProcessor(os, k) /\ Keeps(k, os') /\ TakesNoLock(queue, queue')
      BY <1>1, <2>2, <3>1, SendNowGives
    <3>4. QED BY <1>1, <3>2, <3>3, SameAfterSame
  <2>3. CASE ~Sends(c.op) /\ ~GiveUpOrWait(t, c)
    <3>1. ReceiveNow(t, c) \/ PeekNow(t, c) \/ TakeNow(t, c)
      BY <2>3 DEF Attempt, ReceiveAttempt
    <3>2. CASE ReceiveNow(t, c) \/ PeekNow(t, c)
      <4>1. Keeps(os, os') /\ Leaves(queue, queue', c.queue) /\ Return(t)
        BY <1>1, <3>2, ReceiveNowGives
      <4>2. QED BY <4>1, ReturnGoes, LeavesTakesNoLock DEF Keeps, SameProcessor
    <3>3. CASE TakeNow(t, c)
      <4>1. PICK k : /\ SameProcessor(os, k) /\ Keeps(k, os')
                     /\ queue' = TakenFrom(queue, c.queue, t, c.op) /\ Return(t)
        BY <1>1, <3>3, TakeNowGives
      <4>2. TakesNoLock(queue, queue')
        BY <1>1, <4>1, TakenFields
      <4>3. QED BY <1>1, <4>1, <4>2, ReturnGoes, SameAfterSame
    <3>4. QED BY <3>1, <3>2, <3>3
  <2>4. QED BY <2>1, <2>2, <2>3
<1>4. QED BY <1>1, <1>2, <1>3, StepKeepsLocks

\* The steps of the loop while no queue is locked.
LEMMA UnlockedStepsKeepLocks ==
  ASSUME QueueAssumption, QueueIInv, HoldsOK, LocksOK, NEW t \in Tasks,
         \/ QueueSuspends(t) \/ QueueResumes(t) \/ QueueResumed(t)
         \/ QueueDisinherits(t) \/ QueueRemovedFromSet(t)
  PROVE  HoldsOK' /\ LocksOK'
<1>1. /\ RingsOK(queue) /\ IsPcFunction /\ HasFields(os) /\ HasQueueFields(queue)
      /\ os.suspended \in Nat /\ pc = [u \in Tasks |-> pc[u]]
  BY RingsHaveFields DEF QueueIInv, CallsOK, IsPcFunction, HoldsOK
<1>2. \A p \in Elsewhere : p \notin Holding
  BY ElsewhereNotHeld
<1>3. Running(t) /\ pc[t] \notin LockedAt
  BY DEF QueueSuspends, QueueResumes, QueueResumed, QueueDisinherits,
         QueueRemovedFromSet, At, LockedAt
<1>4. \A u \in Tasks : pc[u] \notin LockedAt
  BY <1>3, NobodyLocks
<1>5. ASSUME UNCHANGED queue, HoldsOK'
      PROVE  LocksOK'
  BY <1>4, <1>5, NoLocksTaken DEF TakesNoLock
<1>6. CASE QueueSuspends(t)
  <2>1. os' = vTaskSuspendAll(os) /\ Goto(t, "queueLock") /\ UNCHANGED queue
    BY <1>6 DEF QueueSuspends
  <2>2. HoldsOK'
    BY <1>1, <1>3, <2>1, SuspendsHolds
  <2>3. QED BY <1>5, <2>1, <2>2
<1>7. CASE QueueResumes(t)
  <2>1. /\ os' = xTaskResumeAll(os) /\ Goto(t, "queueResumed") /\ UNCHANGED queue
        /\ pc[t] \in Holding
    BY <1>7 DEF QueueResumes, At, Holding
  <2>2. os.suspended > 0 /\ "queueResumed" \notin Holding
    BY <1>2, <2>1 DEF HoldsOK, Elsewhere
  <2>3. HoldsOK'
    BY <1>1, <1>3, <2>1, <2>2, ResumesHolds
  <2>4. QED BY <1>5, <2>1, <2>3
<1>8. CASE QueueResumed(t)
  <2>1. pc[t] \in Elsewhere /\ UNCHANGED queue
    BY <1>8 DEF QueueResumed, At, Elsewhere
  <2>2. Goto(t, "queueTry") \/ Goto(t, "queueDisinherit") \/ Goto(t, "app")
    BY <1>8, ReturnGoes DEF QueueResumed, Step
  <2>3. PICK r, y : r = [os EXCEPT !.yielded[t] = FALSE] /\ os' = YieldIf(r, y)
    BY <1>8 DEF QueueResumed
  <2>4. Keeps(os, r) /\ HasFields(r)
    BY <1>1, <2>3 DEF Keeps, HasFields
  <2>5. Keeps(os, os')
    BY <1>1, <2>3, <2>4, UnlinkKept, KeptAfterKept
  <2>6. /\ pc[t] \notin Holding /\ "queueTry" \notin Holding
        /\ "queueDisinherit" \notin Holding /\ "app" \notin Holding
    BY <1>2, <2>1 DEF Elsewhere
  <2>7. HoldsOK'
    BY <1>1, <1>3, <2>2, <2>5, <2>6, LeavesHolds
  <2>8. QED BY <1>5, <2>1, <2>7
<1>9. CASE QueueDisinherits(t)
  <2>1. pc[t] \in Elsewhere /\ UNCHANGED queue /\ Goto(t, "app")
    BY <1>9, ReturnGoes DEF QueueDisinherits, At, Elsewhere
  <2>2. PICK h, w : os' = vTaskPriorityDisinheritAfterTimeout(os, h, w)
    BY <1>9 DEF QueueDisinherits
  <2>3. SameProcessor(os, os')
    BY <1>1, <2>2, AfterTimeoutGives DEF Reprioritises
  <2>4. TakesNoLock(queue, queue')
    BY <2>1 DEF TakesNoLock
  <2>5. pc[t] \notin Holding /\ "app" \notin Holding
    BY <1>2, <2>1 DEF Elsewhere
  <2>6. QED BY <1>1, <1>3, <2>1, <2>3, <2>4, <2>5, StepKeepsLocks
<1>10. CASE QueueRemovedFromSet(t)
  <2>1. pc[t] \in Elsewhere /\ UNCHANGED os /\ Goto(t, "app")
    BY <1>10, ReturnGoes DEF QueueRemovedFromSet, At, Elsewhere
  <2>2. TakesNoLock(queue, queue')
    BY <1>1, <1>10 DEF QueueRemovedFromSet, TakesNoLock, HasQueueFields
  <2>3. pc[t] \notin Holding /\ "app" \notin Holding /\ SameProcessor(os, os')
    BY <1>2, <2>1 DEF Elsewhere, SameProcessor
  <2>4. QED BY <1>1, <1>3, <2>1, <2>2, <2>3, StepKeepsLocks
<1>11. QED BY <1>6, <1>7, <1>8, <1>9, <1>10

\* The task that holds the scheduler goes on.
LEMMA HeldStepHolds ==
  ASSUME HoldsOK, IsPcFunction, NEW t \in Tasks, pc[t] \in Holding,
         SameProcessor(os, os'), UNCHANGED pc \/ \E p : Goto(t, p)
  PROVE  HoldsOK'
<1>1. HasFields(os)' /\ os'.suspended \in Nat
  BY DEF HoldsOK, SameProcessor, HasFields
<1>2. os'.running /\ os'.current = t /\ os'.suspended > 0
  BY DEF HoldsOK, SameProcessor
<1>3. \A u \in Tasks : u # t => pc'[u] = pc[u]
  BY DEF IsPcFunction, Goto
<1>4. \A u \in Tasks : u # t => pc[u] \notin Holding
  BY DEF HoldsOK
<1>5. QED BY <1>1, <1>2, <1>3, <1>4 DEF HoldsOK

\* While task t has locked a queue no other is locked.
LEMMA OnlyLock ==
  ASSUME HoldsOK, LocksOK, NEW t \in Tasks, os.current = t,
         NEW p \in Queues, IsLocked(queue[p])
  PROVE  /\ p = call[t].queue /\ pc[t] \in LockedAt
         /\ queue[p].txLock # queueUNLOCKED => pc[t] # "queueUnlockRx"
<1>1. PICK u \in Tasks :
        /\ pc[u] \in LockedAt /\ call[u].queue = p
        /\ queue[p].txLock # queueUNLOCKED => pc[u] # "queueUnlockRx"
  BY DEF LocksOK
<1>2. u = t
  BY <1>1, LockedAtHolds DEF HoldsOK
<1>3. QED BY <1>1, <1>2

\* The call goes on when its queue is locked.
LEMMA QueueLocksGoesOn ==
  ASSUME QueueIInv, NEW t \in Tasks, QueueLocks(t)
  PROVE  \E c : /\ SameCall(call[t], c)
                /\ Step(t, "queueUnlockTx", c) \/ Step(t, "queueCheck", c)
<1>1. PICK c, q : c = call[t] /\ q = c.queue
  OBVIOUS
<1>2. PICK x, y : /\ x = TicksLeftToWait(os, c.timeOut, c.ticks)
                  /\ y = TimeOutAfterCheck(os, c.timeOut, c.ticks)
  OBVIOUS
<1>3. PICK c2, c3 : /\ c2 = [c EXCEPT !.ticks = x, !.timeOut = y]
                    /\ c3 = [c2 EXCEPT !.then = "expired"]
  OBVIOUS
<1>4. SameCall(c, c2)
  <2>1. IsCall(c)
    BY <1>1 DEF QueueIInv, CallsOK, CallOK
  <2>2. QED BY <1>3, <2>1, FieldsOfCall
<1>5. SameCall(c, c3)
  <2>1. IsCall(c2)
    BY <1>4 DEF SameCall
  <2>2. SameCall(c2, c3)
    BY <1>3, <2>1, FieldOfCall
  <2>3. QED BY <1>4, <2>2 DEF SameCall
<1>6. [c EXCEPT !.ticks = TicksLeftToWait(os, c.timeOut, @),
                !.timeOut = TimeOutAfterCheck(os, @, c.ticks)] = c2
  BY <1>2, <1>3
<1>7. Step(t, "queueUnlockTx", c3) \/ Step(t, "queueCheck", c2)
  BY <1>1, <1>3, <1>6 DEF QueueLocks
<1>8. QED BY <1>1, <1>4, <1>5, <1>7

LEMMA QueueBlocksGoesOn ==
  ASSUME QueueIInv, NEW t \in Tasks, QueueBlocks(t)
  PROVE  \E c : SameCall(call[t], c) /\ Step(t, "queueUnlockTx", c)
<1>1. PICK c, x : /\ c = call[t]
                  /\ x = (Kind[c.queue] = "mutex" /\ ~Sends(c.op)
                          /\ InheritanceOccurs(os, queue[c.queue].holder))
  OBVIOUS
<1>2. IsCall(c)
  BY <1>1 DEF QueueIInv, CallsOK, CallOK
<1>3. /\ SameCall(c, [c EXCEPT !.then = "block", !.inherited = x])
      /\ SameCall(c, [c EXCEPT !.then = "retry"])
  BY <1>2, FieldOfCall, FieldsOfCall
<1>4. \/ Step(t, "queueUnlockTx", [c EXCEPT !.then = "block", !.inherited = x])
      \/ Step(t, "queueUnlockTx", [c EXCEPT !.then = "retry"])
  BY <1>1 DEF QueueBlocks
<1>5. QED BY <1>1, <1>3, <1>4

LEMMA QueueLocksKeepsLocks ==
  ASSUME QueueAssumption, QueueIInv, HoldsOK, LocksOK, NEW t \in Tasks, QueueLocks(t)
  PROVE  HoldsOK' /\ LocksOK'
<1>1. /\ RingsOK(queue) /\ IsPcFunction /\ HasFields(os) /\ HasQueueFields(queue)
      /\ call = [u \in Tasks |-> call[u]]
  BY RingsHaveFields DEF QueueIInv, CallsOK, IsPcFunction, HoldsOK
<1>2. PICK q : q = call[t].queue
  OBVIOUS
<1>3. Running(t) /\ pc[t] = "queueLock"
  BY DEF QueueLocks, At
<1>4. pc[t] \in Holding /\ pc[t] \notin LockedAt
  BY <1>3 DEF Holding, LockedAt
<1>5. PICK c : /\ c.queue = q
               /\ Step(t, "queueUnlockTx", c) \/ Step(t, "queueCheck", c)
  BY <1>2, QueueLocksGoesOn DEF SameCall
<1>6. /\ pc'[t] \in LockedAt /\ pc'[t] # "queueUnlockRx" /\ call'[t].queue = q
      /\ \E p : Goto(t, p)
  BY <1>1, <1>5 DEF Step, Goto, IsPcFunction, LockedAt
<1>7. SameProcessor(os, os')
  BY <1>1, UnlinkKept DEF QueueLocks, Keeps, SameProcessor
<1>8. HoldsOK'
  BY <1>1, <1>4, <1>6, <1>7, HeldStepHolds
<1>9. \A p \in Queues : ~IsLocked(queue[p])
  BY <1>3, <1>4, OnlyLock DEF Running
<1>10. \A p \in Queues : p # q => queue'[p] = queue[p]
  BY <1>1, <1>2 DEF QueueLocks, prvLockQueue, HasQueueFields
<1>11. LocksOK'
  <2>1. ASSUME NEW p \in Queues, IsLocked(queue'[p])
        PROVE  pc'[t] \in LockedAt /\ call'[t].queue = p /\ pc'[t] # "queueUnlockRx"
    BY <1>6, <1>9, <1>10, <2>1
  <2>2. QED BY <2>1 DEF LocksOK, IsLocked
<1>12. QED BY <1>8, <1>11

LEMMA QueueBlocksKeepsLocks ==
  ASSUME QueueAssumption, QueueIInv, HoldsOK, LocksOK, NEW t \in Tasks, QueueBlocks(t)
  PROVE  HoldsOK' /\ LocksOK'
<1>1. /\ IsPcFunction /\ HasFields(os) /\ call = [u \in Tasks |-> call[u]]
  BY DEF QueueIInv, CallsOK, IsPcFunction, HoldsOK
<1>2. PICK q : q = call[t].queue
  OBVIOUS
<1>3. Running(t) /\ pc[t] = "queueCheck" /\ UNCHANGED queue
  BY DEF QueueBlocks, At
<1>4. pc[t] \in Holding /\ pc[t] \in LockedAt
  BY <1>3 DEF Holding, LockedAt
<1>5. PICK c2 : Step(t, "queueUnlockTx", c2) /\ c2.queue = q
  BY <1>2, QueueBlocksGoesOn DEF SameCall
<1>6. /\ pc'[t] \in LockedAt /\ pc'[t] # "queueUnlockRx" /\ call'[t].queue = q
      /\ \E p : Goto(t, p)
  BY <1>1, <1>5 DEF Step, Goto, IsPcFunction, LockedAt
<1>7. SameProcessor(os, os')
  <2>1. PICK h, k, l, n : /\ k = os \/ k = xTaskPriorityInherit(os, h)
                          /\ os' = vTaskPlaceOnEventList(k, l, n) \/ os' = os
    BY DEF QueueBlocks
  <2>2. SameProcessor(os, k)
    BY <1>1, <2>1, InheritGives DEF Reprioritises, SameProcessor
  <2>3. HasFields(k) => Keeps(k, vTaskPlaceOnEventList(k, l, n))
    BY WaitKept
  <2>4. SameProcessor(os, vTaskPlaceOnEventList(k, l, n))
    BY <1>1, <2>2, <2>3, SameAfterSame
  <2>5. QED BY <2>1, <2>4 DEF SameProcessor
<1>8. HoldsOK'
  BY <1>1, <1>4, <1>6, <1>7, HeldStepHolds
<1>9. LocksOK'
  <2>1. ASSUME NEW p \in Queues, IsLocked(queue'[p])
        PROVE  pc'[t] \in LockedAt /\ call'[t].queue = p /\ pc'[t] # "queueUnlockRx"
    <3>1. IsLocked(queue[p])
      BY <1>3, <2>1
    <3>2. p = q
      BY <1>2, <1>3, <3>1, OnlyLock DEF Running
    <3>3. QED BY <1>6, <3>2
  <2>2. QED BY <2>1 DEF LocksOK, IsLocked
<1>10. QED BY <1>8, <1>9

\* A turn of prvUnlockQueue releases the queue of the call.
LEMMA UnlockStep ==
  ASSUME HoldsOK, LocksOK, IsPcFunction, NEW t \in Tasks, NEW q, q = call[t].queue,
         pc[t] \in Holding, SameProcessor(os, os'), UNCHANGED call,
         UNCHANGED pc \/ \E p : Goto(t, p),
         \A p \in Queues : p # q /\ IsLocked(queue'[p]) => IsLocked(queue[p]),
         q \in Queues /\ IsLocked(queue'[q]) =>
           /\ pc'[t] \in LockedAt
           /\ queue'[q].txLock # queueUNLOCKED => pc'[t] # "queueUnlockRx"
  PROVE  HoldsOK' /\ LocksOK'
<1>1. HoldsOK'
  BY HeldStepHolds
<1>2. os.current = t
  BY DEF HoldsOK
<1>3. ASSUME NEW p \in Queues, IsLocked(queue'[p])
      PROVE  p = q
  BY <1>2, <1>3, OnlyLock
<1>4. \A p \in Queues : IsLocked(queue'[p]) =>
        /\ pc'[t] \in LockedAt /\ call'[t].queue = p
        /\ queue'[p].txLock # queueUNLOCKED => pc'[t] # "queueUnlockRx"
  BY <1>3
<1>5. LocksOK'
  BY <1>4 DEF LocksOK, IsLocked
<1>6. QED BY <1>1, <1>5

LEMMA MaskedKept ==
  ASSUME NEW k, HasFields(k), NEW r, Keeps(k, r), NEW c, NEW st
  PROVE  /\ SameProcessor(k, [PendYieldIf(r, c) EXCEPT !.stage = st])
         /\ Keeps(k, [PendYieldIf(r, c) EXCEPT !.stage = st])
<1> DEFINE s == PendYieldIf(r, c)
<1>1. Keeps(k, s) /\ HasFields(s)
  BY UnlinkKept, KeptAfterKept
<1> HIDE DEF s
<1>2. Keeps(s, [s EXCEPT !.stage = st])
  BY <1>1, FieldsKept
<1>3. Keeps(k, [s EXCEPT !.stage = st])
  BY <1>1, <1>2, KeptAfterKept
<1>4. QED BY <1>3 DEF s, Keeps, SameProcessor

LEMMA UnlockTxKeepsLocks ==
  ASSUME QueueAssumption, QueueIInv, HoldsOK, LocksOK, NEW t \in Tasks, UnlockTx(t)
  PROVE  HoldsOK' /\ LocksOK'
<1>1. /\ RingsOK(queue) /\ IsPcFunction /\ HasFields(os) /\ HasQueueFields(queue)
  BY RingsHaveFields DEF QueueIInv, CallsOK, IsPcFunction, HoldsOK
<1>2. PICK q : q = call[t].queue
  OBVIOUS
<1>3. pc[t] = "queueUnlockTx" /\ UNCHANGED call
  BY DEF UnlockTx, Unlocking
<1>4. pc[t] \in Holding /\ pc[t] \in LockedAt /\ "queueUnlockRx" \in LockedAt
      /\ pc[t] \in QueueLocations
  BY <1>3 DEF Holding, LockedAt, QueueLocations
<1>5. q \in Queues
  BY <1>2, <1>4 DEF QueueIInv, CallsOK, CallOK
<1>6. PICK n : n = Announce(os, queue, q)
  OBVIOUS
<1>7. Leaves(queue, n.queues, q) /\ Keeps(os, n.kernel)
  BY <1>1, <1>5, <1>6, AnnounceLeaves, ContainerIsSet
<1>8. CASE UNCHANGED pc
  <2>1. /\ os' = [PendYieldIf(n.kernel, n.higher) EXCEPT !.stage = "masked"]
        /\ queue' = [n.queues EXCEPT ![q].txLock = @ - 1]
    <3>1. ~Goto(t, "queueUnlockRx")
      BY <1>1, <1>3, <1>8 DEF Goto, IsPcFunction
    <3>2. QED BY <1>2, <1>6, <3>1 DEF UnlockTx
  <2>2. SameProcessor(os, os')
    BY <1>1, <1>7, <2>1, MaskedKept
  <2>3. \A p \in Queues : p # q => queue'[p] = n.queues[p]
    BY <1>7, <2>1 DEF Leaves, HasQueueFields
  <2>4. \A p \in Queues : p # q /\ IsLocked(queue'[p]) => IsLocked(queue[p])
    BY <1>7, <2>3 DEF Leaves, IsLocked
  <2>5. pc'[t] \in LockedAt /\ pc'[t] # "queueUnlockRx"
    BY <1>3, <1>4, <1>8
  <2>6. QED BY <1>1, <1>2, <1>3, <1>4, <1>8, <2>2, <2>4, <2>5, UnlockStep
<1>9. CASE ~UNCHANGED pc
  <2>1. /\ os' = [os EXCEPT !.stage = "run"] /\ Goto(t, "queueUnlockRx")
        /\ queue' = [queue EXCEPT ![q].txLock = queueUNLOCKED]
    BY <1>2, <1>9 DEF UnlockTx
  <2>2. SameProcessor(os, os')
    BY <2>1 DEF SameProcessor
  <2>3. /\ \A p \in Queues : p # q => queue'[p] = queue[p]
        /\ queue'[q].txLock = queueUNLOCKED
    BY <1>1, <1>5, <2>1 DEF HasQueueFields
  <2>4. pc'[t] = "queueUnlockRx"
    BY <1>1, <2>1 DEF Goto, IsPcFunction
  <2>5. \A p \in Queues : p # q /\ IsLocked(queue'[p]) => IsLocked(queue[p])
    BY <2>3
  <2>6. QED BY <1>1, <1>2, <1>3, <1>4, <2>1, <2>2, <2>3, <2>4, <2>5, UnlockStep
<1>10. QED BY <1>8, <1>9

LEMMA UnlockRxKeepsLocks ==
  ASSUME QueueAssumption, QueueIInv, HoldsOK, LocksOK, NEW t \in Tasks, UnlockRx(t)
  PROVE  HoldsOK' /\ LocksOK'
<1>1. /\ RingsOK(queue) /\ IsPcFunction /\ HasFields(os) /\ HasQueueFields(queue)
  BY RingsHaveFields DEF QueueIInv, CallsOK, IsPcFunction, HoldsOK
<1>2. PICK q : q = call[t].queue
  OBVIOUS
<1>3. pc[t] = "queueUnlockRx" /\ UNCHANGED call /\ os.current = t
  BY DEF UnlockRx, Unlocking
<1>4. pc[t] \in Holding /\ pc[t] \in LockedAt /\ pc[t] \in QueueLocations
  BY <1>3 DEF Holding, LockedAt, QueueLocations
<1>5. q \in Queues
  BY <1>2, <1>4 DEF QueueIInv, CallsOK, CallOK
<1>6. queue[q].txLock = queueUNLOCKED
  <2>1. CASE IsLocked(queue[q])
    BY <1>3, <1>5, <2>1, OnlyLock
  <2>2. QED BY <2>1 DEF IsLocked
<1>7. CASE UNCHANGED pc
  <2>1. PICK c : /\ os' = [PendYieldIf(WakeOne(os, SendList[q]), c) EXCEPT !.stage = "masked"]
                 /\ queue' = [queue EXCEPT ![q].rxLock = @ - 1]
    <3>1. ~Goto(t, "queueResume")
      BY <1>1, <1>3, <1>7 DEF Goto, IsPcFunction
    <3>2. QED BY <1>2, <3>1 DEF UnlockRx
  <2>2. Keeps(os, WakeOne(os, SendList[q]))
    BY <1>1, WakeKept
  <2>3. SameProcessor(os, os')
    BY <1>1, <2>1, <2>2, MaskedKept
  <2>4. /\ \A p \in Queues : p # q => queue'[p] = queue[p]
        /\ queue'[q].txLock = queueUNLOCKED
    BY <1>1, <1>5, <1>6, <2>1 DEF HasQueueFields
  <2>5. \A p \in Queues : p # q /\ IsLocked(queue'[p]) => IsLocked(queue[p])
    BY <2>4
  <2>6. pc'[t] \in LockedAt
    BY <1>4, <1>7
  <2>7. QED BY <1>1, <1>2, <1>3, <1>4, <1>7, <2>3, <2>4, <2>5, <2>6, UnlockStep
<1>8. CASE ~UNCHANGED pc
  <2>1. /\ os' = [os EXCEPT !.stage = "run"] /\ Goto(t, "queueResume")
        /\ queue' = [queue EXCEPT ![q].rxLock = queueUNLOCKED]
    BY <1>2, <1>8 DEF UnlockRx
  <2>2. SameProcessor(os, os')
    BY <2>1 DEF SameProcessor
  <2>3. /\ \A p \in Queues : p # q => queue'[p] = queue[p]
        /\ queue'[q].txLock = queueUNLOCKED /\ queue'[q].rxLock = queueUNLOCKED
    BY <1>1, <1>5, <1>6, <2>1 DEF HasQueueFields
  <2>4. \A p \in Queues : p # q /\ IsLocked(queue'[p]) => IsLocked(queue[p])
    BY <2>3
  <2>5. ~IsLocked(queue'[q])
    BY <2>3 DEF IsLocked
  <2>6. QED BY <1>1, <1>2, <1>3, <1>4, <2>1, <2>2, <2>4, <2>5, UnlockStep
<1>9. QED BY <1>7, <1>8

-----------------------------------------------------------------------------
(* The calls and the handlers take no lock.                                *)

\* A call begins in application code, where no queue is locked.
LEMMA NewAttemptKeepsLocks ==
  ASSUME QueueAssumption, QueueIInv, HoldsOK, LocksOK, NEW t \in Tasks, At(t, "app"),
         NEW op, NEW q \in Queues, NEW x, NEW n, op # "none",
         Sends(op) /\ HasStorage(q) => x \in ValuesOf(q),
         op = "overwrite" /\ HasStorage(q) => Length[q] = 1,
         Attempt(t, NewCall(op, q, x, n))
  PROVE  HoldsOK' /\ LocksOK'
<1>1. CallOK(NewCall(op, q, x, n)) /\ NewCall(op, q, x, n).op # "none"
  BY NewCallOK DEF Sends, Positions
<1>2. Active(NewCall(op, q, x, n))
  BY <1>1 DEF Active
<1>3. Running(t) /\ pc[t] \notin Holding
  BY ElsewhereNotHeld DEF At, Elsewhere
<1>4. QED BY <1>2, <1>3, AttemptKeepsLocks

\* A call in application code that is one step.
LEMMA AppStepKeepsLocks ==
  ASSUME HoldsOK, IsPcFunction, LocksOK, NEW t \in Tasks, At(t, "app"),
         SameProcessor(os, os'), TakesNoLock(queue, queue'),
         UNCHANGED pc \/ Goto(t, "removeFromSet")
  PROVE  HoldsOK' /\ LocksOK'
<1>1. Running(t) /\ pc[t] \notin Holding /\ "removeFromSet" \notin Holding
  BY ElsewhereNotHeld DEF At, Elsewhere
<1>2. QED BY <1>1, StepKeepsLocks

LEMMA ResetKeepsLocks ==
  ASSUME QueueIInv, HoldsOK, LocksOK, NEW t \in Tasks, NEW q \in Queues,
         xQueueGenericReset(t, q)
  PROVE  HoldsOK' /\ LocksOK'
<1>1. /\ IsPcFunction /\ HasFields(os) /\ HasQueueFields(queue) /\ At(t, "app")
  BY RingsHaveFields DEF QueueIInv, CallsOK, IsPcFunction, HoldsOK, xQueueGenericReset,
                         MayUse
<1>2. Keeps(os, os')
  <2>1. PICK r, y : r = WakeOne(os, SendList[q]) /\ os' = YieldIf(r, y)
    BY DEF xQueueGenericReset
  <2>2. Keeps(os, r)
    BY <1>1, <2>1, WakeKept
  <2>3. QED BY <1>1, <2>1, <2>2, UnlinkKept, KeptAfterKept
<1>3. TakesNoLock(queue, queue')
  <2>1. PICK r : r = [prvInitialiseNewQueue(q) EXCEPT !.container = queue[q].container]
    OBVIOUS
  <2>2. r.txLock = queueUNLOCKED /\ r.rxLock = queueUNLOCKED
    BY <2>1 DEF prvInitialiseNewQueue
  <2>3. queue' = [queue EXCEPT ![q] = r]
    BY <2>1 DEF xQueueGenericReset
  <2>4. QED BY <1>1, <2>2, <2>3 DEF TakesNoLock, HasQueueFields
<1>4. SameProcessor(os, os') /\ UNCHANGED pc
  BY <1>2 DEF xQueueGenericReset, Keeps, SameProcessor
<1>5. QED BY <1>1, <1>3, <1>4, AppStepKeepsLocks

LEMMA CallKeepsLocks ==
  ASSUME QueueAssumption, TasksAssumption, QueueIInv, HoldsOK, LocksOK, NEW t \in Tasks,
         NEW op, NEW q \in Queues, NEW n, QueueCall(t, op, q, n)
  PROVE  HoldsOK' /\ LocksOK'
<1>1. /\ RingsOK(queue) /\ IsPcFunction /\ HasQueueFields(queue)
  BY RingsHaveFields DEF QueueIInv, CallsOK, IsPcFunction
<1>2. At(t, "app")
  BY DEF QueueCall, xQueueGenericSend, xQueueReceive, xQueuePeek, xQueueSemaphoreTake,
         xQueueTakeMutexRecursive, xSemaphoreGive, xQueueGiveMutexRecursive,
         xQueueGenericReset, xQueueAddToSet, xQueueRemoveFromSet, MayRead, MayUse
<1>3. UNCHANGED <<os, pc>> /\ TakesNoLock(queue, queue') => HoldsOK' /\ LocksOK'
  BY <1>1, <1>2, AppStepKeepsLocks DEF SameProcessor
<1>4. ASSUME NEW x \in Items, op \in Positions, xQueueGenericSend(t, q, x, op, n)
      PROVE  HoldsOK' /\ LocksOK'
  <2>1. /\ op # "none" /\ x \in ValuesOf(q) /\ (op = "overwrite" => Length[q] = 1)
        /\ Attempt(t, NewCall(op, q, x, n))
    BY <1>4 DEF xQueueGenericSend, Positions, ValuesOf
  <2>2. QED BY <1>2, <2>1, NewAttemptKeepsLocks
<1>5. CASE xQueueReceive(t, q, n) \/ xQueuePeek(t, q, n) \/ xQueueSemaphoreTake(t, q, n)
  <2>1. PICK o \in {"receive", "peek", "take"} : Attempt(t, NewCall(o, q, NoItem, n))
    BY <1>5 DEF xQueueReceive, xQueuePeek, xQueueSemaphoreTake
  <2>2. o # "none" /\ ~Sends(o) /\ o # "overwrite"
    BY DEF Sends, Positions
  <2>3. QED BY <1>2, <2>1, <2>2, NewAttemptKeepsLocks
<1>6. CASE xQueueTakeMutexRecursive(t, q, n)
  <2>1. CASE queue[q].holder = t
    <3>1. queue' = [queue EXCEPT ![q].recursion = @ + 1] /\ UNCHANGED <<os, pc>>
      BY <1>6, <2>1 DEF xQueueTakeMutexRecursive
    <3>2. TakesNoLock(queue, queue')
      BY <1>1, <3>1 DEF TakesNoLock, HasQueueFields
    <3>3. QED BY <1>3, <3>1, <3>2
  <2>2. CASE queue[q].holder # t
    <3>1. Attempt(t, NewCall("takeRecursive", q, NoItem, n))
      BY <1>6, <2>2 DEF xQueueTakeMutexRecursive
    <3>2. ~Sends("takeRecursive")
      BY DEF Sends, Positions
    <3>3. QED BY <1>2, <3>1, <3>2, NewAttemptKeepsLocks
  <2>3. QED BY <2>1, <2>2
<1>7. CASE xSemaphoreGive(t, q)
  <2>1. ~HasStorage(q) /\ Attempt(t, NewCall("back", q, NoItem, 0))
    BY <1>7 DEF xSemaphoreGive, HasStorage
  <2>2. QED BY <1>2, <2>1, NewAttemptKeepsLocks
<1>8. CASE xQueueGiveMutexRecursive(t, q)
  <2>1. queue[q].holder = t
    BY <1>8 DEF xQueueGiveMutexRecursive
  <2>2. CASE queue[q].recursion > 1
    <3>1. queue' = [queue EXCEPT ![q].recursion = @ - 1] /\ UNCHANGED <<os, pc>>
      BY <1>8, <2>2 DEF xQueueGiveMutexRecursive
    <3>2. TakesNoLock(queue, queue')
      BY <1>1, <3>1 DEF TakesNoLock, HasQueueFields
    <3>3. QED BY <1>3, <3>1, <3>2
  <2>3. CASE ~(queue[q].recursion > 1)
    <3>1. Attempt(t, NewCall("back", q, NoItem, 0))
      BY <1>8, <2>3 DEF xQueueGiveMutexRecursive
    <3>2. ~HasStorage(q)
      BY <1>1, <2>1 DEF RingsOK, RingOK, QueueType, TasksAssumption
    <3>3. QED BY <1>2, <3>1, <3>2, NewAttemptKeepsLocks
  <2>4. QED BY <2>2, <2>3
<1>9. ASSUME NEW s, xQueueAddToSet(t, q, s)
      PROVE  HoldsOK' /\ LocksOK'
  <2>1. UNCHANGED <<os, pc>> /\ queue' = [queue EXCEPT ![q].container = s]
    BY <1>9 DEF xQueueAddToSet
  <2>2. TakesNoLock(queue, queue')
    BY <1>1, <2>1 DEF TakesNoLock, HasQueueFields
  <2>3. QED BY <1>3, <2>1, <2>2
<1>10. CASE xQueueRemoveFromSet(t, q)
  <2>1. UNCHANGED <<os, queue>> /\ Goto(t, "removeFromSet")
    BY <1>10 DEF xQueueRemoveFromSet, Step
  <2>2. QED BY <1>1, <1>2, <2>1, AppStepKeepsLocks DEF SameProcessor, TakesNoLock
<1>11. QED BY <1>4, <1>5, <1>6, <1>7, <1>8, <1>9, <1>10, ResetKeepsLocks DEF QueueCall

\* A step of the loop of a call.
LEMMA ContinueKeepsLocks ==
  ASSUME QueueAssumption, QueueIInv, HoldsOK, LocksOK, NEW t \in Tasks, QueueContinue(t)
  PROVE  HoldsOK' /\ LocksOK'
<1>1. CASE QueueRetries(t)
  <2>1. /\ Running(t) /\ pc[t] = "queueTry" /\ Attempt(t, call[t])
    BY <1>1 DEF QueueRetries, At
  <2>2. pc[t] \notin Holding /\ pc[t] \in QueueLocations
    BY <2>1, ElsewhereNotHeld DEF Elsewhere, QueueLocations
  <2>3. Active(call[t])
    BY <2>2 DEF QueueIInv, CallsOK, Active
  <2>4. QED BY <2>1, <2>2, <2>3, AttemptKeepsLocks
<1>2. QED BY <1>1, QueueLocksKeepsLocks, QueueBlocksKeepsLocks, UnlockTxKeepsLocks,
             UnlockRxKeepsLocks, UnlockedStepsKeepLocks DEF QueueContinue

LEMMA PutFromISRGives ==
  ASSUME QueueIInv, HasFields(os), NEW q \in Queues, NEW x, NEW position,
         PutFromISR(q, x, position)
  PROVE  Keeps(os, os') /\ Leaves(queue, queue', q) /\ UNCHANGED <<pc, call>>
<1>1. RingsOK(queue) /\ HasQueueFields(queue)
  BY RingsHaveFields DEF QueueIInv
<1>2. PICK C : C = prvCopyDataToQueue(queue, q, x, position)
  OBVIOUS
<1>3. Leaves(queue, C, q) /\ HasQueueFields(C) /\ RingsOK(queue)
  BY <1>1, <1>2, CopyLeaves DEF Leaves
<1>4. C[q].container = queue[q].container
  <2> DEFINE n == IF position = "overwrite" /\ queue[q].count > 0
                    THEN queue[q].count ELSE queue[q].count + 1
             A == [queue EXCEPT ![q].count = n]
             B == [A EXCEPT ![q].slots[queue[q].write] = x, ![q].write = NextSlot(q, @)]
             D == [A EXCEPT ![q].slots[queue[q].read] = x, ![q].read = PreviousSlot(q, @)]
  <2>1. C = A \/ C = B \/ C = D
    BY <1>2 DEF prvCopyDataToQueue
  <2>2. /\ {"container", "count", "slots", "write", "read"} \subseteq DOMAIN queue[q]
        /\ DOMAIN queue = Queues
    BY <1>1 DEF RingsOK, RingOK, QueueType
  <2> HIDE DEF n
  <2>3. /\ A[q].container = queue[q].container /\ DOMAIN A = Queues
        /\ {"container", "count", "slots", "write", "read"} \subseteq DOMAIN A[q]
    BY <2>2
  <2> HIDE DEF A
  <2>4. B[q].container = A[q].container
    BY <2>3
  <2>5. D[q].container = A[q].container
    BY <2>3
  <2> HIDE DEF B, D
  <2>6. QED BY <2>1, <2>3, <2>4, <2>5
<1>5. PICK n : n = Announce(os, C, q)
  OBVIOUS
<1>6. Leaves(C, n.queues, q) /\ Keeps(os, n.kernel)
  BY <1>1, <1>3, <1>4, <1>5, AnnounceLeaves, ContainerIsSet
<1>7. /\ UNCHANGED <<pc, call>>
      /\ \/ ~Unlocked(q) /\ queue' = prvIncrementQueueTxLock(C, q) /\ UNCHANGED os
         \/ queue' = C /\ UNCHANGED os
         \/ queue' = n.queues /\ \E y : os' = YieldIf(n.kernel, y)
  BY <1>2, <1>5 DEF PutFromISR
<1>8. ~Unlocked(q) => Leaves(queue, prvIncrementQueueTxLock(C, q), q)
  BY <1>1, <1>3 DEF Unlocked, Leaves, HasQueueFields, prvIncrementQueueTxLock
<1>9. Leaves(queue, n.queues, q)
  BY <1>3, <1>6, LeavesTwice
<1>10. \A y : Keeps(os, YieldIf(n.kernel, y))
  BY <1>6, UnlinkKept, KeptAfterKept
<1>11. QED BY <1>3, <1>7, <1>8, <1>9, <1>10, SelfKept

LEMMA ReceivedFromISRGives ==
  ASSUME NEW k, HasFields(k), NEW Q, HasQueueFields(Q), NEW q \in Queues
  PROVE  /\ Keeps(k, ReceivedFromISR(k, Q, q).kernel)
         /\ Leaves(Q, ReceivedFromISR(k, Q, q).queues, q)
<1>1. PICK T : T = TakeItem(Q, q)
  OBVIOUS
<1>2. Leaves(Q, T, q) /\ HasQueueFields(T)
  BY <1>1, TakeLeaves DEF Leaves
<1>3. Q[q].rxLock # queueUNLOCKED => Leaves(Q, prvIncrementQueueRxLock(T, q), q)
  BY <1>2 DEF Leaves, HasQueueFields, prvIncrementQueueRxLock
<1>4. CASE Q[q].rxLock # queueUNLOCKED
  <2>1. /\ ReceivedFromISR(k, Q, q).kernel = k
        /\ ReceivedFromISR(k, Q, q).queues = prvIncrementQueueRxLock(T, q)
    BY <1>1, <1>4 DEF ReceivedFromISR
  <2>2. QED BY <1>3, <1>4, <2>1, SelfKept
<1>5. CASE Q[q].rxLock = queueUNLOCKED
  <2>1. /\ ReceivedFromISR(k, Q, q).kernel = WakeOne(k, SendList[q])
        /\ ReceivedFromISR(k, Q, q).queues = T
    BY <1>1, <1>5 DEF ReceivedFromISR
  <2>2. QED BY <1>2, <2>1, WakeKept
<1>6. QED BY <1>4, <1>5

\* The handlers leave the tasks where they are.
LEMMA HandlerGives ==
  ASSUME QueueAssumption, QueueIInv, HasFields(os), NEW op, NEW q \in Queues,
         QueueHandler(op, q)
  PROVE  /\ Keeps(os, os') /\ UNCHANGED <<pc, call>>
         /\ op = "select" => TakesNoLock(queue, queue')
         /\ op # "select" => Leaves(queue, queue', q)
         /\ op # "select" /\ op # "receive" => Kind[q] # "mutex"
<1>1. /\ RingsOK(queue) /\ HasQueueFields(queue)
  BY RingsHaveFields DEF QueueIInv
<1>2. ASSUME NEW k, Keeps(os, k), \E y : os' = YieldIf(k, y)
      PROVE  Keeps(os, os')
  BY <1>2, UnlinkKept, KeptAfterKept
<1>3. ASSUME op \in Positions, \E x \in Items : xQueueGenericSendFromISR(q, x, op)
      PROVE  Keeps(os, os') /\ Leaves(queue, queue', q) /\ UNCHANGED <<pc, call>>
             /\ Kind[q] # "mutex" /\ op # "select"
  BY <1>3, PutFromISRGives DEF xQueueGenericSendFromISR, Positions
<1>4. ASSUME xQueueGiveFromISR(q)
      PROVE  Keeps(os, os') /\ Leaves(queue, queue', q) /\ UNCHANGED <<pc, call>>
             /\ Kind[q] # "mutex"
  BY <1>4, PutFromISRGives DEF xQueueGiveFromISR
<1>5. ASSUME xQueueReceiveFromISR(q)
      PROVE  Keeps(os, os') /\ Leaves(queue, queue', q) /\ UNCHANGED <<pc, call>>
  <2>1. PICK n : /\ n = ReceivedFromISR(os, queue, q) /\ queue' = n.queues
                 /\ \E y : os' = YieldIf(n.kernel, y)
    BY <1>5 DEF xQueueReceiveFromISR
  <2>2. Keeps(os, n.kernel) /\ Leaves(queue, n.queues, q)
    BY <1>1, <2>1, ReceivedFromISRGives
  <2>3. QED BY <1>2, <1>5, <2>1, <2>2 DEF xQueueReceiveFromISR
<1>6. ASSUME xQueueSelectFromSetFromISR(q)
      PROVE  Keeps(os, os') /\ TakesNoLock(queue, queue') /\ UNCHANGED <<pc, call>>
  <2>1. PICK n, m, u : /\ n = ReceivedFromISR(os, queue, q) /\ m = FrontItem(q)
                       /\ u = ReceivedFromISR(n.kernel, n.queues, m)
    OBVIOUS
  <2>2. Keeps(os, n.kernel) /\ Leaves(queue, n.queues, q)
    BY <1>1, <2>1, ReceivedFromISRGives
  <2>3. HasFields(n.kernel) /\ HasQueueFields(n.queues)
    BY <2>2 DEF Keeps, HasFields, Leaves
  <2>4. m \in Queues
    <3>1. Kind[q] = "set" /\ HasStorage(q) /\ queue[q].count # 0
      BY <1>6 DEF xQueueSelectFromSetFromISR, HasStorage, IsVacant
    <3>2. QED BY <1>1, <2>1, <3>1, FrontItemType DEF ValuesOf
  <2>5. Keeps(n.kernel, u.kernel) /\ Leaves(n.queues, u.queues, m)
    BY <2>1, <2>3, <2>4, ReceivedFromISRGives
  <2>6. Keeps(os, u.kernel) /\ TakesNoLock(queue, u.queues) /\ TakesNoLock(queue, n.queues)
    BY <2>2, <2>5, KeptAfterKept, LeavesTakesNoLock, TakesNoLockTwice
  <2>7. \/ queue' = n.queues /\ \E y : os' = YieldIf(n.kernel, y)
        \/ queue' = u.queues /\ \E y : os' = YieldIf(u.kernel, y)
    <3>1. CASE n.queues[m].count = 0
      BY <1>6, <2>1, <3>1 DEF xQueueSelectFromSetFromISR
    <3>2. CASE n.queues[m].count # 0
      BY <1>6, <2>1, <3>2 DEF xQueueSelectFromSetFromISR
    <3>3. QED BY <3>1, <3>2
  <2>8. QED BY <1>2, <1>6, <2>2, <2>6, <2>7 DEF xQueueSelectFromSetFromISR
<1>7. \/ op \in Positions /\ \E x \in Items : xQueueGenericSendFromISR(q, x, op)
      \/ op = "give" /\ xQueueGiveFromISR(q)
      \/ op = "receive" /\ xQueueReceiveFromISR(q)
      \/ op = "select" /\ xQueueSelectFromSetFromISR(q)
  BY DEF QueueHandler
<1>8. QED BY <1>3, <1>4, <1>5, <1>6, <1>7

-----------------------------------------------------------------------------
(* No lock outlives its call.                                              *)

LEMMA QueueNextKeepsLocks ==
  ASSUME QueueAssumption, TasksAssumption, QueueIInv, HoldsOK, LocksOK,
         [QueueNext]_qvars
  PROVE  HoldsOK' /\ LocksOK'
<1>1. IsPcFunction /\ HasFields(os)
  BY DEF QueueIInv, CallsOK, IsPcFunction, HoldsOK
<1>2. CASE UNCHANGED qvars
  BY <1>2 DEF qvars, HoldsOK, LocksOK, HasFields, IsLocked
<1>3. CASE SchedulerNext /\ UNCHANGED <<queue, call, selected>>
  BY <1>1, <1>3, SchedulerKeepsLocks
<1>4. ASSUME NEW t \in Tasks, QueueContinue(t)
      PROVE  HoldsOK' /\ LocksOK'
  BY <1>4, ContinueKeepsLocks
<1>5. ASSUME NEW use \in TaskUses, QueueCall(use[1], use[2], use[3], use[4])
      PROVE  HoldsOK' /\ LocksOK'
  <2>1. use[1] \in Tasks /\ use[3] \in Queues
    BY DEF QueueAssumption
  <2>2. QED BY <1>5, <2>1, CallKeepsLocks
<1>6. ASSUME NEW use \in HandlerUses, QueueHandler(use[1], use[2])
      PROVE  HoldsOK' /\ LocksOK'
  <2>1. use[2] \in Queues
    BY DEF QueueAssumption
  <2>2. Keeps(os, os') /\ TakesNoLock(queue, queue') /\ UNCHANGED <<pc, call>>
    BY <1>1, <1>6, <2>1, HandlerGives, LeavesTakesNoLock
  <2>3. QED BY <2>2, KeptHolds, LocksKept
<1>7. QED BY <1>2, <1>3, <1>4, <1>5, <1>6 DEF QueueNext

LEMMA InitLocks ==
  ASSUME QueueAssumption, QueueInit
  PROVE  HoldsOK /\ LocksOK
<1>1. HasFields(os) /\ os.suspended \in Nat
  BY DEF QueueInit, SchedulerInit, KernelInit, HasFields
<1>2. \A t \in Tasks : pc[t] \notin Holding
  BY ElsewhereNotHeld DEF QueueInit, SchedulerInit, Elsewhere
<1>3. ASSUME NEW q \in Queues
      PROVE  ~IsLocked(queue[q])
  <2>1. PICK r : r = prvInitialiseNewQueue(q)
    OBVIOUS
  <2>2. r.txLock = queueUNLOCKED /\ r.rxLock = queueUNLOCKED
        /\ {"txLock", "rxLock", "holder", "recursion", "count"} \subseteq DOMAIN r
    BY <2>1 DEF prvInitialiseNewQueue
  <2>3. \/ queue[q] = r \/ queue[q] = [r EXCEPT !.holder = NoTask, !.recursion = 0, !.count = 1]
        \/ queue[q] = [r EXCEPT !.count = Initially[q]]
    BY <2>1 DEF QueueInit, NewQueue, prvInitialiseMutex, xQueueCreateCountingSemaphore
  <2>4. QED BY <2>2, <2>3 DEF IsLocked
<1>4. QED BY <1>1, <1>2, <1>3 DEF HoldsOK, LocksOK

\* The inductive invariant.
LocksIInv == QueueIInv /\ HoldsOK /\ LocksOK

LEMMA LocksInductive ==
  ASSUME QueueAssumption, TasksAssumption, LocksIInv, [QueueNext]_qvars
  PROVE  LocksIInv'
<1>1. QueueIInv'
  BY QueueNextKeeps, StepsKeepRings DEF LocksIInv, QueueIInv, Kept
<1>2. QED BY <1>1, QueueNextKeepsLocks DEF LocksIInv

LEMMA LocksAreThose ==
  ASSUME LocksIInv
  PROVE  LocksAreReleased
<1>1. ASSUME NEW q \in Queues, IsLocked(queue[q])
      PROVE  /\ os.suspended > 0 /\ InCall(os.current, q)
             /\ pc[os.current] \in {"queueCheck", "queueUnlockTx", "queueUnlockRx"}
  <2>1. PICK t \in Tasks : pc[t] \in LockedAt /\ call[t].queue = q
    BY <1>1 DEF LocksIInv, LocksOK
  <2>2. os.current = t /\ os.suspended > 0
    BY <2>1, LockedAtHolds DEF LocksIInv, HoldsOK
  <2>3. pc[t] \in QueueLocations
    BY <2>1 DEF LockedAt, QueueLocations
  <2>4. call[t].op # "none"
    BY <2>3 DEF LocksIInv, QueueIInv, CallsOK
  <2>5. QED BY <2>1, <2>2, <2>4 DEF InCall, LockedAt
<1>2. QED BY <1>1 DEF LocksAreReleased, IsLocked

\* Whatever tasks and handlers do between the steps of a call, a queue is locked
\* only by the current task, inside the call that will unlock it, with the
\* scheduler suspended: prvLockQueue and prvUnlockQueue.
THEOREM LocksReleased == QueueSpec => []LocksAreReleased
<1> USE QueueAssumption, TasksAssumption
<1>1. QueueInit => LocksIInv
  BY QueueInitInv, InitLocks DEF LocksIInv
<1>2. LocksIInv /\ [QueueNext]_qvars => LocksIInv'
  BY LocksInductive
<1>3. LocksIInv => LocksAreReleased
  BY LocksAreThose
<1>4. QED BY <1>1, <1>2, <1>3, PTL DEF QueueSpec

-----------------------------------------------------------------------------
(* Inherited priorities are given back.                                    *)

\* A mutex is available or has a holder, and nothing else has one.
HoldersOK(Q) ==
  \A q \in Queues :
    /\ Q[q].holder \in Tasks \cup {NoTask}
    /\ Kind[q] # "mutex" => Q[q].holder = NoTask
    /\ Kind[q] = "mutex" =>
         /\ Q[q].count \in {0, 1}
         /\ Q[q].count = 0 <=> Q[q].holder # NoTask

PriorityOK(t) ==
  /\ IsFiniteSet(HeldBy(t)) /\ os.mutexesHeld[t] = Cardinality(HeldBy(t))
  /\ os.mutexesHeld[t] = 0 => os.prio[t] = os.basePrio[t]

PriorityFields(k) ==
  DOMAIN k.prio = Tasks /\ DOMAIN k.basePrio = Tasks /\ DOMAIN k.mutexesHeld = Tasks

\* Mutexes are held only while the scheduler runs.
PrioritiesOK ==
  /\ HoldersOK(queue) /\ PriorityFields(os)
  /\ \A q \in Queues : queue[q].holder # NoTask => os.running
  /\ \A t \in Tasks : PriorityOK(t)

SameHolders(Q, R) ==
  \A q \in Queues : /\ R[q].holder = Q[q].holder
                    /\ Kind[q] = "mutex" => R[q].count = Q[q].count

LEMMA LeavesHolders ==
  ASSUME NEW Q, NEW R, NEW q \in Queues, Leaves(Q, R, q), Kind[q] # "mutex"
  PROVE  SameHolders(Q, R)
  BY DEF Leaves, SameHolders

LEMMA SameHeld ==
  ASSUME SameHolders(queue, queue')
  PROVE  /\ \A t : HeldBy(t)' = HeldBy(t)
         /\ HoldersOK(queue) => HoldersOK(queue')
<1>1. \A q \in Queues : queue'[q].holder = queue[q].holder
  BY DEF SameHolders
<1>2. \A t : HeldBy(t)' = HeldBy(t)
  BY <1>1 DEF HeldBy, Mutexes
<1>3. HoldersOK(queue) => HoldersOK(queue')
  BY DEF SameHolders, HoldersOK
<1>4. QED BY <1>2, <1>3

LEMMA HeldIsCounted ==
  ASSUME PrioritiesOK, NEW q \in Queues, queue[q].holder # NoTask
  PROVE  /\ Kind[q] = "mutex" /\ queue[q].holder \in Tasks
         /\ q \in HeldBy(queue[q].holder) /\ os.mutexesHeld[queue[q].holder] # 0
<1>1. Kind[q] = "mutex" /\ queue[q].holder \in Tasks
  BY DEF PrioritiesOK, HoldersOK
<1>2. q \in HeldBy(queue[q].holder)
  BY <1>1 DEF HeldBy, Mutexes
<1>3. PriorityOK(queue[q].holder)
  BY <1>1 DEF PrioritiesOK
<1>4. Cardinality(HeldBy(queue[q].holder)) # 0
  BY <1>2, <1>3, FS_EmptySet DEF PriorityOK
<1>5. QED BY <1>1, <1>2, <1>3, <1>4 DEF PriorityOK

LEMMA SamePrioritiesKeep ==
  ASSUME PrioritiesOK, SamePriorities(os, os'), SameHolders(queue, queue')
  PROVE  PrioritiesOK'
<1>1. /\ HoldersOK(queue)' /\ PriorityFields(os)'
      /\ \A q \in Queues : queue'[q].holder # NoTask => os'.running
  <2>1. HoldersOK(queue')
    BY SameHeld DEF PrioritiesOK
  <2>2. QED BY <2>1 DEF PrioritiesOK, PriorityFields, HoldersOK, SamePriorities, SameHolders
<1>2. ASSUME NEW t \in Tasks
      PROVE  PriorityOK(t)'
  <2>1. PriorityOK(t) /\ HeldBy(t)' = HeldBy(t)
    BY SameHeld DEF PrioritiesOK
  <2>2. QED BY <2>1 DEF PriorityOK, SamePriorities
<1>3. QED BY <1>1, <1>2 DEF PrioritiesOK

\* Only the priority of a task that holds a mutex changes: it inherits, or loses a
\* part of what it inherited.
LEMMA ReprioritisedKeeps ==
  ASSUME PrioritiesOK, NEW q \in Queues, SameHolders(queue, queue'),
         Reprioritises(os, os', queue[q].holder),
         queue[q].holder = NoTask => SamePriorities(os, os')
  PROVE  PrioritiesOK'
<1>1. CASE queue[q].holder = NoTask
  BY <1>1, SamePrioritiesKeep
<1>2. CASE queue[q].holder # NoTask
  <2>1. PICK h : h = queue[q].holder /\ h \in Tasks /\ os.mutexesHeld[h] # 0
    BY <1>2, HeldIsCounted
  <2>2. /\ os'.running = os.running /\ os'.basePrio = os.basePrio
        /\ os'.mutexesHeld = os.mutexesHeld
        /\ DOMAIN os'.prio = DOMAIN os.prio
        /\ \A t \in DOMAIN os.prio : t # h => os'.prio[t] = os.prio[t]
    BY <2>1 DEF Reprioritises, SameProcessor, Becomes
  <2>3. /\ HoldersOK(queue)' /\ PriorityFields(os)'
        /\ \A p \in Queues : queue'[p].holder # NoTask => os'.running
    <3>1. HoldersOK(queue')
      BY SameHeld DEF PrioritiesOK
    <3>2. QED BY <2>2, <3>1 DEF PrioritiesOK, PriorityFields, HoldersOK, SameHolders
  <2>4. ASSUME NEW t \in Tasks
        PROVE  PriorityOK(t)'
    <3>1. PriorityOK(t) /\ HeldBy(t)' = HeldBy(t) /\ t \in DOMAIN os.prio
      BY SameHeld DEF PrioritiesOK, PriorityFields
    <3>2. QED BY <2>1, <2>2, <3>1 DEF PriorityOK
  <2>5. QED BY <2>3, <2>4 DEF PrioritiesOK
<1>3. QED BY <1>1, <1>2

\* The holder h gives mutex q; if it is its last, it gets its own priority back.
LEMMA GivenBack ==
  ASSUME PrioritiesOK, NEW q \in Queues, NEW h \in Tasks, queue[q].holder = h,
         \A p \in Queues : p # q => /\ queue'[p].holder = queue[p].holder
                                    /\ Kind[p] = "mutex" => queue'[p].count = queue[p].count,
         queue'[q].holder = NoTask, queue'[q].count = queue[q].count + 1,
         os'.running = os.running, os'.basePrio = os.basePrio,
         Becomes(os.mutexesHeld, os'.mutexesHeld, h, os.mutexesHeld[h] - 1),
         \/ os.prio[h] # os.basePrio[h] /\ os.mutexesHeld[h] = 1
            /\ Becomes(os.prio, os'.prio, h, os.basePrio[h])
         \/ ~(os.prio[h] # os.basePrio[h] /\ os.mutexesHeld[h] = 1)
            /\ os'.prio = os.prio
  PROVE  PrioritiesOK'
<1>1. h # NoTask /\ Kind[q] = "mutex" /\ q \in HeldBy(h) /\ NoTask \notin Tasks
  BY HeldIsCounted, TasksAssumption
<1>2. queue[q].count = 0
  BY <1>1 DEF PrioritiesOK, HoldersOK
<1>3. HoldersOK(queue') /\ \A p \in Queues : queue'[p].holder # NoTask => os'.running
  BY <1>1, <1>2 DEF PrioritiesOK, HoldersOK
<1>4. PriorityFields(os') /\ PriorityFields(os)
  BY DEF PrioritiesOK, PriorityFields, Becomes
<1>5. HeldBy(h)' = HeldBy(h) \ {q}
  BY <1>1 DEF HeldBy, Mutexes
<1>6. \A t \in Tasks : t # h => HeldBy(t)' = HeldBy(t)
  BY <1>1 DEF HeldBy, Mutexes
<1>7. PriorityOK(h)'
  <2>1. PriorityOK(h)
    BY DEF PrioritiesOK
  <2>2. /\ IsFiniteSet(HeldBy(h) \ {q})
        /\ Cardinality(HeldBy(h) \ {q}) = Cardinality(HeldBy(h)) - 1
    BY <1>1, <2>1, FS_RemoveElement DEF PriorityOK
  <2>3. Cardinality(HeldBy(h)) \in Nat
    BY <2>1, FS_CardinalityType DEF PriorityOK
  <2>4. os'.mutexesHeld[h] = os.mutexesHeld[h] - 1
    BY <1>4 DEF Becomes, PriorityFields
  <2>5. os'.mutexesHeld[h] = 0 => os'.prio[h] = os'.basePrio[h]
    BY <1>4, <2>1, <2>3, <2>4 DEF PriorityOK, Becomes, PriorityFields
  <2>6. QED BY <1>5, <2>1, <2>2, <2>4, <2>5 DEF PriorityOK
<1>8. ASSUME NEW t \in Tasks, t # h
      PROVE  PriorityOK(t)'
  <2>1. PriorityOK(t) /\ HeldBy(t)' = HeldBy(t)
    BY <1>6, <1>8 DEF PrioritiesOK
  <2>2. os'.mutexesHeld[t] = os.mutexesHeld[t] /\ os'.prio[t] = os.prio[t]
    BY <1>4, <1>8 DEF Becomes, PriorityFields
  <2>3. QED BY <2>1, <2>2 DEF PriorityOK
<1>9. HoldersOK(queue)' /\ PriorityFields(os)'
  BY <1>3, <1>4 DEF HoldersOK, PriorityFields
<1>10. QED BY <1>3, <1>7, <1>8, <1>9 DEF PrioritiesOK

\* Task t takes mutex q, which is available.
LEMMA TakenCounts ==
  ASSUME PrioritiesOK, NEW q \in Queues, NEW t \in Tasks, Kind[q] = "mutex",
         queue[q].count # 0, os.running,
         \A p \in Queues : p # q => queue'[p] = queue[p],
         queue'[q].holder = t, queue'[q].count = queue[q].count - 1,
         os'.running = os.running, os'.basePrio = os.basePrio, os'.prio = os.prio,
         Becomes(os.mutexesHeld, os'.mutexesHeld, t, os.mutexesHeld[t] + 1)
  PROVE  PrioritiesOK'
<1>1. queue[q].holder = NoTask /\ queue[q].count = 1 /\ NoTask \notin Tasks /\ t # NoTask
  BY TasksAssumption DEF PrioritiesOK, HoldersOK
<1>2. HoldersOK(queue') /\ \A p \in Queues : queue'[p].holder # NoTask => os'.running
  BY <1>1 DEF PrioritiesOK, HoldersOK
<1>3. PriorityFields(os') /\ PriorityFields(os)
  BY DEF PrioritiesOK, PriorityFields, Becomes
<1>4. HeldBy(t)' = HeldBy(t) \cup {q} /\ q \notin HeldBy(t)
  BY <1>1 DEF HeldBy, Mutexes
<1>5. \A u \in Tasks : u # t => HeldBy(u)' = HeldBy(u)
  BY <1>1 DEF HeldBy, Mutexes
<1>6. PriorityOK(t)'
  <2>1. PriorityOK(t)
    BY DEF PrioritiesOK
  <2>2. /\ IsFiniteSet(HeldBy(t) \cup {q})
        /\ Cardinality(HeldBy(t) \cup {q}) = Cardinality(HeldBy(t)) + 1
    BY <1>4, <2>1, FS_AddElement DEF PriorityOK
  <2>3. Cardinality(HeldBy(t)) \in Nat
    BY <2>1, FS_CardinalityType DEF PriorityOK
  <2>4. os'.mutexesHeld[t] = os.mutexesHeld[t] + 1
    BY <1>3 DEF Becomes, PriorityFields
  <2>5. os'.mutexesHeld[t] # 0
    BY <2>1, <2>3, <2>4 DEF PriorityOK
  <2>6. QED BY <1>4, <2>1, <2>2, <2>4, <2>5 DEF PriorityOK
<1>7. ASSUME NEW u \in Tasks, u # t
      PROVE  PriorityOK(u)'
  <2>1. PriorityOK(u) /\ HeldBy(u)' = HeldBy(u)
    BY <1>5, <1>7 DEF PrioritiesOK
  <2>2. os'.mutexesHeld[u] = os.mutexesHeld[u]
    BY <1>3, <1>7 DEF Becomes, PriorityFields
  <2>3. QED BY <2>1, <2>2 DEF PriorityOK
<1>8. HoldersOK(queue)' /\ PriorityFields(os)'
  BY <1>2, <1>3 DEF HoldersOK, PriorityFields
<1>9. QED BY <1>2, <1>6, <1>7, <1>8 DEF PrioritiesOK

LEMMA PrioritySetKeeps ==
  ASSUME PrioritiesOK, HasFields(os), NEW t, NEW x \in Tasks, NEW p,
         vTaskPrioritySet(t, x, p), UNCHANGED queue
  PROVE  PrioritiesOK'
<1>1. /\ SameProcessor(os, os') /\ os'.mutexesHeld = os.mutexesHeld
      /\ Becomes(os.basePrio, os'.basePrio, x, p)
  BY PrioritySetGives
<1>2. PICK e : Becomes(os.prio, os'.prio, x, e) /\ (os.basePrio[x] = os.prio[x] => e = p)
  BY PrioritySetGives
<1>3. PriorityFields(os) /\ PriorityFields(os')
  BY <1>1, <1>2 DEF PrioritiesOK, PriorityFields, Becomes
<1>4. HoldersOK(queue)' /\ \A q \in Queues : queue'[q].holder # NoTask => os'.running
  BY <1>1 DEF PrioritiesOK, HoldersOK, SameProcessor
<1>5. ASSUME NEW u \in Tasks
      PROVE  PriorityOK(u)'
  <2>1. PriorityOK(u) /\ HeldBy(u)' = HeldBy(u)
    BY DEF PrioritiesOK, HeldBy
  <2>2. os'.mutexesHeld[u] = 0 => os'.prio[u] = os'.basePrio[u]
    BY <1>1, <1>2, <1>3, <2>1 DEF PriorityOK, PriorityFields, Becomes
  <2>3. QED BY <1>1, <2>1, <2>2 DEF PriorityOK
<1>6. PriorityFields(os)'
  BY <1>3 DEF PriorityFields
<1>7. QED BY <1>4, <1>5, <1>6 DEF PrioritiesOK

\* Before the scheduler starts nobody holds a mutex.
LEMMA StartKeepsPriorities ==
  ASSUME TasksAssumption, PrioritiesOK, HasFields(os), Start, UNCHANGED queue
  PROVE  PrioritiesOK'
<1>1. ~os.running
  BY DEF Start, CreateBeforeStart, vTaskStartScheduler
<1>2. PICK x, p :
        /\ x \in Tasks
        /\ Becomes(os.prio, os'.prio, x, p) /\ Becomes(os.basePrio, os'.basePrio, x, p)
        /\ Becomes(os.mutexesHeld, os'.mutexesHeld, x, 0)
  <2>1. CASE \E t \in Tasks, p \in InitialPriorities : CreateBeforeStart(t, p)
    <3>1. PICK t, p : t \in Tasks /\
            os' = prvAddNewTaskToReadyList(prvInitialiseNewTask(os, t, p), t)
      BY <2>1 DEF CreateBeforeStart
    <3>2. QED BY <3>1, NewTaskGives
  <2>2. CASE vTaskStartScheduler
    <3>1. PICK r : /\ r = prvAddNewTaskToReadyList(prvInitialiseNewTask(os, Idle, 0), Idle)
                   /\ os' = [r EXCEPT !.nextUnblock = portMAX_DELAY, !.running = TRUE,
                                      !.tick = configINITIAL_TICK_COUNT]
      BY <2>2 DEF vTaskStartScheduler, prvCreateIdleTasks
    <3>2. /\ DOMAIN r = DOMAIN os
          /\ Becomes(os.prio, r.prio, Idle, 0) /\ Becomes(os.basePrio, r.basePrio, Idle, 0)
          /\ Becomes(os.mutexesHeld, r.mutexesHeld, Idle, 0)
      BY <3>1, NewTaskGives
    <3>3. /\ os'.prio = r.prio /\ os'.basePrio = r.basePrio
          /\ os'.mutexesHeld = r.mutexesHeld
      BY <3>1, <3>2 DEF HasFields
    <3>4. Idle \in Tasks
      BY DEF TasksAssumption
    <3>5. QED BY <3>2, <3>3, <3>4
  <2>3. QED BY <2>1, <2>2 DEF Start
<1>3. PriorityFields(os) /\ PriorityFields(os)'
  BY <1>2 DEF PrioritiesOK, PriorityFields, Becomes
<1>4. \A q \in Queues : queue[q].holder = NoTask
  BY <1>1 DEF PrioritiesOK
<1>5. \A t \in Tasks : HeldBy(t) = {} /\ HeldBy(t)' = {}
  BY <1>4, TasksAssumption DEF HeldBy, Mutexes, TasksAssumption
<1>6. ASSUME NEW u \in Tasks
      PROVE  PriorityOK(u)'
  <2>1. PriorityOK(u) /\ HeldBy(u) = {} /\ HeldBy(u)' = {}
    BY <1>5 DEF PrioritiesOK
  <2>2. IsFiniteSet({}) /\ Cardinality({}) = 0
    BY FS_EmptySet
  <2>3. os.mutexesHeld[u] = 0 /\ os.prio[u] = os.basePrio[u]
    BY <2>1, <2>2 DEF PriorityOK
  <2>4. os'.mutexesHeld[u] = 0 /\ os'.prio[u] = os'.basePrio[u]
    BY <1>2, <1>3, <2>3 DEF Becomes, PriorityFields
  <2>5. QED BY <2>1, <2>2, <2>4 DEF PriorityOK
<1>7. HoldersOK(queue)' /\ \A q \in Queues : queue'[q].holder # NoTask => os'.running
  BY <1>4 DEF PrioritiesOK, HoldersOK
<1>8. QED BY <1>3, <1>6, <1>7 DEF PrioritiesOK

LEMMA SchedulerKeepsPriorities ==
  ASSUME TasksAssumption, "xTaskCreate" \notin Calls, PrioritiesOK, HoldsOK,
         IsPcFunction, SchedulerNext, UNCHANGED queue
  PROVE  PrioritiesOK'
<1>1. SameHolders(queue, queue') /\ HasFields(os)
  BY DEF SameHolders, HoldsOK
<1>2. SamePriorities(os, os') => PrioritiesOK'
  BY <1>1, SamePrioritiesKeep
<1>3. CASE Start
  BY <1>1, <1>3, StartKeepsPriorities
<1>4. CASE Interrupt \/ MaskedStep
  BY <1>2, <1>4, MaskedHolds DEF Interrupt
<1>5. CASE ContextSwitch
  BY <1>2, <1>5, SwitchHolds
<1>6. CASE IdleStep
  BY <1>2, <1>6, IdleHolds
<1>7. ASSUME NEW t \in Tasks, Continue(t)
      PROVE  PrioritiesOK'
  BY <1>2, <1>7, ContinueHolds
<1>8. ASSUME NEW t \in Tasks, Call(t)
      PROVE  PrioritiesOK'
  <2>1. \/ SamePriorities(os, os')
        \/ \E x \in Tasks, p \in NewPriorities : vTaskPrioritySet(t, x, p)
    BY <1>8, CallHolds
  <2>2. QED BY <1>1, <1>2, <2>1, PrioritySetKeeps
<1>9. QED BY <1>3, <1>4, <1>5, <1>6, <1>7, <1>8 DEF SchedulerNext

-----------------------------------------------------------------------------
(* The calls about mutexes that wait are there to take them.               *)

MutexCall(c) ==
  Kind[c.queue] = "mutex" => ~Sends(c.op) /\ c.op \notin {"receive", "peek"}

MutexCallsOK == \A t \in Tasks : pc[t] \in QueueLocations => MutexCall(call[t])

LEMMA StepKeepsMutexCalls ==
  ASSUME CallsOK, MutexCallsOK, NEW t \in Tasks, NEW p, NEW c, Step(t, p, c),
         p \in QueueLocations => MutexCall(c)
  PROVE  MutexCallsOK'
<1>1. \A u \in Tasks : /\ u # t => pc'[u] = pc[u] /\ call'[u] = call[u]
                       /\ pc'[t] = p /\ call'[t] = c
  BY DEF CallsOK, Step, Goto
<1>2. QED BY <1>1 DEF MutexCallsOK, MutexCall

LEMMA ReturnKeepsMutexCalls ==
  ASSUME CallsOK, MutexCallsOK, NEW t \in Tasks, Return(t)
  PROVE  MutexCallsOK'
<1>1. Step(t, "app", NoCall) /\ "app" \notin QueueLocations
  BY DEF Return, QueueLocations
<1>2. QED BY <1>1, StepKeepsMutexCalls

\* A call goes on.
LEMMA GoesOnKeepsMutexCalls ==
  ASSUME CallsOK, MutexCallsOK, NEW t \in Tasks, pc[t] \in QueueLocations,
         \/ UNCHANGED call /\ (UNCHANGED pc \/ \E p : Goto(t, p))
         \/ \E p, c : Step(t, p, c) /\ c.op = call[t].op /\ c.queue = call[t].queue
         \/ Return(t)
  PROVE  MutexCallsOK'
<1>1. CASE UNCHANGED call /\ (UNCHANGED pc \/ \E p : Goto(t, p))
  <2>1. \A u \in Tasks : pc'[u] \in QueueLocations => pc[u] \in QueueLocations
    BY <1>1 DEF CallsOK, Goto
  <2>2. QED BY <1>1, <2>1 DEF MutexCallsOK, MutexCall
<1>2. ASSUME NEW p, NEW c, Step(t, p, c), c.op = call[t].op, c.queue = call[t].queue
      PROVE  MutexCallsOK'
  <2>1. MutexCall(c)
    BY <1>2 DEF MutexCallsOK, MutexCall
  <2>2. QED BY <1>2, <2>1, StepKeepsMutexCalls
<1>3. QED BY <1>1, <1>2, ReturnKeepsMutexCalls

LEMMA AttemptKeepsMutexCalls ==
  ASSUME CallsOK, MutexCallsOK, NEW t \in Tasks, NEW c, CallOK(c), Attempt(t, c),
         c.ticks # 0 => MutexCall(c)
  PROVE  MutexCallsOK'
<1>1. CASE GiveUpOrWait(t, c)
  <2>1. CASE c.ticks = 0
    BY <1>1, <2>1, ReturnKeepsMutexCalls DEF GiveUpOrWait
  <2>2. CASE c.ticks # 0
    <3>1. PICK x : x = EntryTime(c.ticks)
      OBVIOUS
    <3>2. Step(t, "queueSuspend",
               IF c.timed THEN c ELSE [c EXCEPT !.timed = TRUE, !.timeOut = x])
      BY <1>1, <2>2, <3>1 DEF GiveUpOrWait
    <3>3. PICK c2 : /\ c2 = [c EXCEPT !.timed = TRUE, !.timeOut = x]
                    /\ SameCall(c, c2)
      BY FieldsOfCall DEF CallOK
    <3>4. MutexCall(c) /\ MutexCall(c2)
      BY <2>2, <3>3 DEF SameCall, MutexCall
    <3>5. Step(t, "queueSuspend", c) \/ Step(t, "queueSuspend", c2)
      BY <3>2, <3>3
    <3>6. QED BY <3>4, <3>5, StepKeepsMutexCalls
  <2>3. QED BY <2>1, <2>2
<1>2. CASE ~GiveUpOrWait(t, c)
  <2>1. Return(t)
    BY <1>2 DEF Attempt, SendAttempt, ReceiveAttempt, SendNow, ReceiveNow, PeekNow, TakeNow
  <2>2. QED BY <2>1, ReturnKeepsMutexCalls
<1>3. QED BY <1>1, <1>2

LEMMA ContinueKeepsMutexCalls ==
  ASSUME QueueIInv, MutexCallsOK, NEW t \in Tasks, QueueContinue(t)
  PROVE  MutexCallsOK'
<1>1. CallsOK
  BY DEF QueueIInv
<1>2. pc[t] \in QueueLocations
  BY DEF QueueContinue, QueueRetries, QueueSuspends, QueueLocks, QueueBlocks, UnlockTx,
         UnlockRx, Unlocking, QueueResumes, QueueResumed, QueueDisinherits,
         QueueRemovedFromSet, At, QueueLocations
<1>3. CASE QueueRetries(t)
  <2>1. Attempt(t, call[t]) /\ CallOK(call[t]) /\ MutexCall(call[t])
    BY <1>1, <1>2, <1>3 DEF QueueRetries, CallsOK, MutexCallsOK
  <2>2. QED BY <1>1, <2>1, AttemptKeepsMutexCalls
<1>4. CASE QueueLocks(t)
  BY <1>1, <1>2, <1>4, QueueLocksGoesOn, GoesOnKeepsMutexCalls DEF SameCall
<1>5. CASE QueueBlocks(t)
  BY <1>1, <1>2, <1>5, QueueBlocksGoesOn, GoesOnKeepsMutexCalls DEF SameCall
<1>6. CASE QueueSuspends(t) \/ QueueResumes(t)
  BY <1>1, <1>2, <1>6, GoesOnKeepsMutexCalls DEF QueueSuspends, QueueResumes
<1>7. CASE UnlockTx(t)
  <2>1. UNCHANGED call /\ (UNCHANGED pc \/ \E p : Goto(t, p))
    BY <1>7 DEF UnlockTx
  <2>2. QED BY <1>1, <1>2, <2>1, GoesOnKeepsMutexCalls
<1>8. CASE UnlockRx(t)
  <2>1. UNCHANGED call /\ (UNCHANGED pc \/ \E p : Goto(t, p))
    BY <1>8 DEF UnlockRx
  <2>2. QED BY <1>1, <1>2, <2>1, GoesOnKeepsMutexCalls
<1>9. CASE QueueResumed(t)
  <2>1. PICK c : c = [call[t] EXCEPT !.then = "none"]
    OBVIOUS
  <2>2. IsCall(call[t])
    BY <1>1 DEF CallsOK, CallOK
  <2>3. SameCall(call[t], c)
    BY <2>1, <2>2, FieldOfCall
  <2>4. Step(t, "queueTry", c) \/ Step(t, "queueDisinherit", call[t]) \/ Return(t)
    BY <1>9, <2>1 DEF QueueResumed
  <2>5. c.op = call[t].op /\ c.queue = call[t].queue
    BY <2>3 DEF SameCall
  <2>6. QED BY <1>1, <1>2, <2>4, <2>5, GoesOnKeepsMutexCalls
<1>10. CASE QueueDisinherits(t) \/ QueueRemovedFromSet(t)
  BY <1>1, <1>10, ReturnKeepsMutexCalls DEF QueueDisinherits, QueueRemovedFromSet
<1>11. QED BY <1>3, <1>4, <1>5, <1>6, <1>7, <1>8, <1>9, <1>10 DEF QueueContinue

\* What a task of the application asks for.
LEMMA CallAttempts ==
  ASSUME QueueAssumption, TasksAssumption, QueueIInv, NEW t \in Tasks, NEW op,
         NEW q \in Queues, NEW n, QueueCall(t, op, q, n)
  PROVE  \/ \E c : /\ Active(c) /\ c.queue = q /\ Attempt(t, c)
                   /\ c.ticks # 0 => MutexCall(c)
                   /\ Kind[q] = "mutex" =>
                        /\ c.op \notin {"receive", "peek"}
                        /\ Sends(c.op) => queue[q].holder = t
         \/ xQueueGenericReset(t, q)
         \/ /\ UNCHANGED <<os, pc, call>>
            /\ \/ \E d : queue' = [queue EXCEPT ![q].recursion = @ + d]
               \/ \E d : queue' = [queue EXCEPT ![q].recursion = @ - d]
               \/ \E s : queue' = [queue EXCEPT ![q].container = s]
         \/ /\ UNCHANGED <<os, queue>>
            /\ \E c : Step(t, "removeFromSet", c) /\ MutexCall(c)
<1> DEFINE Asks(c) == /\ Active(c) /\ c.queue = q /\ Attempt(t, c)
                      /\ c.ticks # 0 => MutexCall(c)
                      /\ Kind[q] = "mutex" => /\ c.op \notin {"receive", "peek"}
                                              /\ Sends(c.op) => queue[q].holder = t
<1>1. ASSUME NEW o, NEW x, NEW m, o # "none", Attempt(t, NewCall(o, q, x, m)),
             Sends(o) /\ HasStorage(q) => x \in ValuesOf(q),
             o = "overwrite" /\ HasStorage(q) => Length[q] = 1,
             Kind[q] = "mutex" => /\ o \notin {"receive", "peek"}
                                  /\ Sends(o) => m = 0 /\ queue[q].holder = t
      PROVE  \E c : Asks(c)
  <2>1. PICK c : c = NewCall(o, q, x, m)
    OBVIOUS
  <2>2. Active(c)
    BY <1>1, <2>1, NewCallOK DEF Active
  <2>3. c.op = o /\ c.queue = q /\ c.ticks = m
    BY <2>1 DEF NewCall, NoCall
  <2>4. Asks(c)
    BY <1>1, <2>1, <2>2, <2>3 DEF MutexCall
  <2>5. QED BY <2>4
<1> HIDE DEF Asks
<1>2. ASSUME NEW x \in Items, op \in Positions, xQueueGenericSend(t, q, x, op, n)
      PROVE  \E c : Asks(c)
  <2>1. /\ op # "none" /\ x \in ValuesOf(q) /\ (op = "overwrite" => Length[q] = 1)
        /\ Attempt(t, NewCall(op, q, x, n)) /\ Kind[q] # "mutex"
    BY <1>2 DEF xQueueGenericSend, Positions, ValuesOf
  <2>2. QED BY <1>1, <2>1
<1>3. CASE xQueueReceive(t, q, n) \/ xQueuePeek(t, q, n)
  <2>1. PICK o \in {"receive", "peek"} :
          Attempt(t, NewCall(o, q, NoItem, n)) /\ Kind[q] # "mutex"
    BY <1>3 DEF xQueueReceive, xQueuePeek
  <2>2. o # "none" /\ ~Sends(o) /\ o # "overwrite"
    BY DEF Sends, Positions
  <2>3. \E c : Asks(c)
    BY <1>1, <2>1, <2>2
  <2>4. QED BY <2>3 DEF Asks
<1>4. ~Sends("take") /\ ~Sends("takeRecursive")
  BY DEF Sends, Positions
<1>5. CASE xQueueSemaphoreTake(t, q, n)
  <2>1. Attempt(t, NewCall("take", q, NoItem, n))
    BY <1>5 DEF xQueueSemaphoreTake
  <2>2. \E c : Asks(c)
    BY <1>1, <1>4, <2>1
  <2>3. QED BY <2>2 DEF Asks
<1>6. CASE xQueueTakeMutexRecursive(t, q, n)
  <2>1. CASE queue[q].holder = t
    BY <1>6, <2>1 DEF xQueueTakeMutexRecursive
  <2>2. CASE queue[q].holder # t
    <3>1. Attempt(t, NewCall("takeRecursive", q, NoItem, n))
      BY <1>6, <2>2 DEF xQueueTakeMutexRecursive
    <3>2. QED BY <1>1, <1>4, <3>1 DEF Asks
  <2>3. QED BY <2>1, <2>2
<1>7. CASE xSemaphoreGive(t, q)
  <2>1. /\ ~HasStorage(q) /\ Attempt(t, NewCall("back", q, NoItem, 0))
        /\ Kind[q] = "mutex" => queue[q].holder = t
    BY <1>7 DEF xSemaphoreGive, HasStorage
  <2>2. QED BY <1>1, <2>1 DEF Asks
<1>8. CASE xQueueGiveMutexRecursive(t, q)
  <2>1. queue[q].holder = t
    BY <1>8 DEF xQueueGiveMutexRecursive
  <2>2. CASE queue[q].recursion > 1
    BY <1>8, <2>2 DEF xQueueGiveMutexRecursive
  <2>3. CASE ~(queue[q].recursion > 1)
    <3>1. Attempt(t, NewCall("back", q, NoItem, 0))
      BY <1>8, <2>3 DEF xQueueGiveMutexRecursive
    <3>2. ~HasStorage(q)
      BY <2>1 DEF QueueIInv, RingsOK, RingOK, QueueType, TasksAssumption
    <3>3. QED BY <1>1, <2>1, <3>1, <3>2 DEF Asks
  <2>4. QED BY <2>2, <2>3
<1>9. ASSUME NEW s, xQueueAddToSet(t, q, s)
      PROVE  /\ UNCHANGED <<os, pc, call>>
             /\ queue' = [queue EXCEPT ![q].container = s]
  BY <1>9 DEF xQueueAddToSet
<1>10. CASE xQueueRemoveFromSet(t, q)
  <2>1. PICK c : c = NewCall("removeFromSet", q, NoItem, 0)
    OBVIOUS
  <2>2. MutexCall(c)
    BY <2>1 DEF NewCall, NoCall, MutexCall, Sends, Positions
  <2>3. UNCHANGED <<os, queue>> /\ Step(t, "removeFromSet", c)
    BY <1>10, <2>1 DEF xQueueRemoveFromSet
  <2>4. QED BY <2>2, <2>3
<1>11. QED BY <1>2, <1>3, <1>5, <1>6, <1>7, <1>8, <1>9, <1>10 DEF QueueCall, Asks

\* A mutex that is given is counted again.
LEMMA CopyCounts ==
  ASSUME NEW Q, HasQueueFields(Q), NEW q \in Queues, NEW x, NEW position,
         Kind[q] = "mutex", Q[q].count = 0
  PROVE  prvCopyDataToQueue(Q, q, x, position)[q].count = Q[q].count + 1
<1>1. ~HasStorage(q) /\ ~(Q[q].count > 0)
  BY DEF HasStorage
<1>2. prvCopyDataToQueue(Q, q, x, position) = [Q EXCEPT ![q].count = Q[q].count + 1]
  BY <1>1 DEF prvCopyDataToQueue
<1>3. QED BY <1>2 DEF HasQueueFields

\* A send: what is given is a mutex that the task holds, or nothing of the kind.
LEMMA SendKeepsPriorities ==
  ASSUME QueueAssumption, TasksAssumption, QueueIInv, PrioritiesOK, HoldsOK,
         NEW t \in Tasks, NEW c, Active(c), Sends(c.op),
         ~IsFull(c.queue) \/ c.op = "overwrite", SendNow(t, c),
         Kind[c.queue] = "mutex" => queue[c.queue].holder = t
  PROVE  PrioritiesOK'
<1>1. PICK q, h : q = c.queue /\ h = queue[q].holder /\ q \in Queues
  BY DEF Active, CallOK
<1>2. PICK k, R : /\ k = xTaskPriorityDisinherit(os, h)
                  /\ R = Sent(queue, q, c.item, c.op)
  OBVIOUS
<1>3. HasFields(os) /\ HasQueueFields(queue)
  BY RingsHaveFields DEF HoldsOK, QueueIInv
<1>4. /\ SameProcessor(os, k) /\ HasFields(k) /\ Keeps(k, os')
      /\ HasQueueFields(R) /\ Leaves(R, queue', NoQueue)
  BY <1>1, <1>2, <1>3, SendNowGives
<1>5. NoQueue \notin Queues
  BY DEF QueueAssumption
<1>6. SameHolders(R, queue')
  BY <1>4, <1>5 DEF Leaves, SameHolders
<1>7. /\ R[q].holder = NoTask
      /\ \A p \in Queues : p # q => R[p].holder = queue[p].holder
      /\ \A p \in Queues : p # q /\ Kind[p] = "mutex" => R[p].count = queue[p].count
      /\ R[q].count = prvCopyDataToQueue(queue, q, c.item, c.op)[q].count
  BY <1>1, <1>2, <1>3, SentFields
<1>8. CASE Kind[q] # "mutex"
  <2>1. h = NoTask
    BY <1>1, <1>8 DEF PrioritiesOK, HoldersOK
  <2>2. k = os
    BY <1>2, <2>1 DEF xTaskPriorityDisinherit
  <2>3. SamePriorities(os, os')
    BY <1>4, <2>2 DEF Keeps, SamePriorities
  <2>4. SameHolders(queue, queue')
    BY <1>1, <1>6, <1>7, <1>8, <2>1 DEF SameHolders
  <2>5. QED BY <2>3, <2>4, SamePrioritiesKeep
<1>9. CASE Kind[q] = "mutex"
  <2>1. h = t /\ h \in Tasks /\ h # NoTask
    BY <1>1, <1>9, TasksAssumption DEF TasksAssumption
  <2>2. queue[q].count = 0
    BY <1>1, <1>9, <2>1 DEF PrioritiesOK, HoldersOK
  <2>3. queue'[q].holder = NoTask /\ queue'[q].count = queue[q].count + 1
    BY <1>1, <1>3, <1>6, <1>7, <1>9, <2>2, CopyCounts DEF SameHolders
  <2>4. \A p \in Queues : p # q => /\ queue'[p].holder = queue[p].holder
                                   /\ Kind[p] = "mutex" => queue'[p].count = queue[p].count
    BY <1>6, <1>7 DEF SameHolders
  <2>5. /\ SameProcessor(os, k) /\ k.basePrio = os.basePrio
        /\ Becomes(os.mutexesHeld, k.mutexesHeld, h, os.mutexesHeld[h] - 1)
        /\ Disinherits(os, h) => Becomes(os.prio, k.prio, h, os.basePrio[h])
        /\ ~Disinherits(os, h) => k.prio = os.prio
    BY <1>2, <1>3, <2>1, DisinheritGives
  <2>6. /\ os'.running = os.running /\ os'.basePrio = os.basePrio
        /\ Becomes(os.mutexesHeld, os'.mutexesHeld, h, os.mutexesHeld[h] - 1)
        /\ Disinherits(os, h) => Becomes(os.prio, os'.prio, h, os.basePrio[h])
        /\ ~Disinherits(os, h) => os'.prio = os.prio
    BY <1>4, <2>5 DEF Keeps, SameProcessor
  <2>7. Disinherits(os, h) <=> (os.prio[h] # os.basePrio[h] /\ os.mutexesHeld[h] = 1)
    BY <2>1 DEF Disinherits
  <2>8. \/ os.prio[h] # os.basePrio[h] /\ os.mutexesHeld[h] = 1
           /\ Becomes(os.prio, os'.prio, h, os.basePrio[h])
        \/ ~(os.prio[h] # os.basePrio[h] /\ os.mutexesHeld[h] = 1)
           /\ os'.prio = os.prio
    BY <2>6, <2>7
  <2>9. queue[q].holder = h
    BY <1>1
  <2>10. QED BY <1>1, <2>1, <2>3, <2>4, <2>6, <2>8, <2>9, GivenBack
<1>10. QED BY <1>8, <1>9

\* A take of what is available.
LEMMA TakeKeepsPriorities ==
  ASSUME QueueAssumption, TasksAssumption, QueueIInv, PrioritiesOK, HoldsOK,
         NEW t \in Tasks, NEW c, Active(c), Running(t), ~IsVacant(c.queue), TakeNow(t, c)
  PROVE  PrioritiesOK'
<1>1. PICK q : q = c.queue /\ q \in Queues
  BY DEF Active, CallOK
<1>2. HasFields(os) /\ HasQueueFields(queue)
  BY RingsHaveFields DEF HoldsOK, QueueIInv
<1>3. PICK k : /\ k = IF Kind[q] = "mutex" THEN pvTaskIncrementMutexHeldCount(os) ELSE os
               /\ Keeps(k, os') /\ queue' = TakenFrom(queue, q, t, c.op)
  BY <1>1, <1>2, TakeNowGives
<1>4. /\ queue'[q].holder = IF Kind[q] = "mutex" THEN t ELSE queue[q].holder
      /\ \A p \in Queues : p # q => queue'[p] = queue[p]
      /\ Kind[q] = "mutex" => queue'[q].count = queue[q].count - 1
  BY <1>1, <1>2, <1>3, TakenFields
<1>5. CASE Kind[q] # "mutex"
  <2>1. SamePriorities(os, os')
    BY <1>3, <1>5 DEF Keeps, SamePriorities
  <2>2. SameHolders(queue, queue')
    BY <1>4, <1>5 DEF SameHolders
  <2>3. QED BY <2>1, <2>2, SamePrioritiesKeep
<1>6. CASE Kind[q] = "mutex"
  <2>1. os.current = t /\ os.running /\ queue[q].count # 0
    BY <1>1 DEF Running, IsVacant
  <2>2. /\ SameProcessor(os, k) /\ k.basePrio = os.basePrio /\ k.prio = os.prio
        /\ Becomes(os.mutexesHeld, k.mutexesHeld, t, os.mutexesHeld[t] + 1)
    BY <1>2, <1>3, <1>6, <2>1, IncrementGives
  <2>3. /\ os'.running = os.running /\ os'.basePrio = os.basePrio /\ os'.prio = os.prio
        /\ Becomes(os.mutexesHeld, os'.mutexesHeld, t, os.mutexesHeld[t] + 1)
    BY <1>3, <2>2 DEF Keeps, SameProcessor
  <2>4. queue'[q].holder = t /\ queue'[q].count = queue[q].count - 1
    BY <1>4, <1>6
  <2>5. QED BY <1>1, <1>4, <1>6, <2>1, <2>3, <2>4, TakenCounts
<1>7. QED BY <1>5, <1>6

LEMMA AttemptKeepsPriorities ==
  ASSUME QueueAssumption, TasksAssumption, QueueIInv, PrioritiesOK, HoldsOK,
         NEW t \in Tasks, NEW c, Active(c), Running(t), Attempt(t, c),
         Kind[c.queue] = "mutex" => /\ c.op \notin {"receive", "peek"}
                                    /\ Sends(c.op) => queue[c.queue].holder = t
  PROVE  PrioritiesOK'
<1>1. /\ HasFields(os) /\ c.queue \in Queues /\ HasQueueFields(queue)
  BY RingsHaveFields DEF QueueIInv, HoldsOK, Active, CallOK
<1>2. CASE GiveUpOrWait(t, c)
  BY <1>2, GiveUpGives, SamePrioritiesKeep DEF SamePriorities, SameHolders
<1>3. CASE Sends(c.op) /\ ~GiveUpOrWait(t, c)
  <2>1. (~IsFull(c.queue) \/ c.op = "overwrite") /\ SendNow(t, c)
    BY <1>3 DEF Attempt, SendAttempt
  <2>2. Kind[c.queue] = "mutex" => queue[c.queue].holder = t
    BY <1>3
  <2>3. QED BY <1>3, <2>1, <2>2, SendKeepsPriorities
<1>4. CASE ~Sends(c.op) /\ ~GiveUpOrWait(t, c)
  <2>1. /\ ~IsVacant(c.queue)
        /\ \/ c.op \in {"receive", "peek"} /\ (ReceiveNow(t, c) \/ PeekNow(t, c))
           \/ TakeNow(t, c)
    BY <1>4 DEF Attempt, ReceiveAttempt
  <2>2. CASE c.op \in {"receive", "peek"} /\ (ReceiveNow(t, c) \/ PeekNow(t, c))
    <3>1. Kind[c.queue] # "mutex"
      BY <2>2
    <3>2. Keeps(os, os') /\ Leaves(queue, queue', c.queue)
      BY <1>1, <2>2, ReceiveNowGives
    <3>3. SameHolders(queue, queue')
      BY <1>1, <3>1, <3>2, LeavesHolders
    <3>4. QED BY <3>2, <3>3, SamePrioritiesKeep DEF Keeps, SamePriorities
  <2>3. CASE TakeNow(t, c)
    BY <2>1, <2>3, TakeKeepsPriorities
  <2>4. QED BY <2>1, <2>2, <2>3
<1>5. QED BY <1>2, <1>3, <1>4

\* The steps that change neither a priority nor a holder.
LEMMA KeptKeepsPriorities ==
  ASSUME PrioritiesOK, Keeps(os, os'), SameHolders(queue, queue')
  PROVE  PrioritiesOK'
  BY SamePrioritiesKeep DEF Keeps, SamePriorities

LEMMA SelfHolders == UNCHANGED queue => SameHolders(queue, queue')
  BY DEF SameHolders

\* A task that starts to wait for a mutex passes its priority to the holder.
LEMMA BlocksKeepsPriorities ==
  ASSUME QueueIInv, PrioritiesOK, HoldsOK, NEW t \in Tasks, QueueBlocks(t)
  PROVE  PrioritiesOK'
<1>1. HasFields(os) /\ call[t].queue \in Queues /\ SameHolders(queue, queue')
  <2>1. pc[t] \in QueueLocations /\ UNCHANGED queue
    BY DEF QueueBlocks, At, QueueLocations
  <2>2. QED BY <2>1, SelfHolders DEF QueueIInv, CallsOK, CallOK, HoldsOK
<1>2. PICK q, h : q = call[t].queue /\ h = queue[q].holder
  OBVIOUS
<1>3. PICK k, l, n : /\ k = os \/ k = xTaskPriorityInherit(os, h)
                     /\ os' = vTaskPlaceOnEventList(k, l, n) \/ os' = os
  BY <1>2 DEF QueueBlocks
<1>4. CASE os' = os
  BY <1>1, <1>4, SelfKept, KeptKeepsPriorities
<1>5. CASE k = os /\ os' # os
  <2>1. Keeps(os, os')
    BY <1>1, <1>3, <1>5, WaitKept
  <2>2. QED BY <1>1, <2>1, KeptKeepsPriorities
<1>6. CASE k = xTaskPriorityInherit(os, h) /\ os' # os
  <2>1. Reprioritises(os, k, h) /\ (h = NoTask => k = os) /\ Keeps(os, os)
    BY <1>1, <1>6, InheritGives, SelfKept
  <2>2. HasFields(k) => Keeps(k, os')
    BY <1>3, <1>6, WaitKept
  <2>3. Reprioritises(os, os', h)
    BY <1>1, <2>1, <2>2, ReprioritisesAfter
  <2>4. h = NoTask => SamePriorities(os, os')
    BY <1>1, <2>1, <2>2 DEF Keeps, SamePriorities
  <2>5. Reprioritises(os, os', queue[q].holder)
        /\ (queue[q].holder = NoTask => SamePriorities(os, os'))
    BY <1>2, <2>3, <2>4
  <2>6. QED BY <1>1, <1>2, <2>5, ReprioritisedKeeps
<1>7. QED BY <1>3, <1>4, <1>5, <1>6

\* A task that gave up waiting for it takes back what it passed.
LEMMA DisinheritsKeepsPriorities ==
  ASSUME QueueIInv, PrioritiesOK, HoldsOK, NEW t \in Tasks, QueueDisinherits(t)
  PROVE  PrioritiesOK'
<1>1. HasFields(os) /\ call[t].queue \in Queues /\ SameHolders(queue, queue')
  <2>1. pc[t] \in QueueLocations /\ UNCHANGED queue
    BY DEF QueueDisinherits, At, QueueLocations
  <2>2. QED BY <2>1, SelfHolders DEF QueueIInv, CallsOK, CallOK, HoldsOK
<1>2. PICK q, h, w : /\ q = call[t].queue /\ h = queue[q].holder
                     /\ os' = vTaskPriorityDisinheritAfterTimeout(os, h, w)
  BY DEF QueueDisinherits
<1>3. Reprioritises(os, os', h) /\ (h = NoTask => os' = os)
  BY <1>1, <1>2, AfterTimeoutGives
<1>4. Reprioritises(os, os', queue[q].holder)
      /\ (queue[q].holder = NoTask => SamePriorities(os, os'))
  BY <1>2, <1>3 DEF SamePriorities
<1>5. QED BY <1>1, <1>2, <1>4, ReprioritisedKeeps

LEMMA UnlockKeepsPriorities ==
  ASSUME QueueAssumption, QueueIInv, PrioritiesOK, HoldsOK, NEW t \in Tasks,
         UnlockTx(t) \/ UnlockRx(t)
  PROVE  PrioritiesOK'
<1>1. /\ RingsOK(queue) /\ HasFields(os) /\ HasQueueFields(queue)
      /\ NoQueue \notin Queues
  BY RingsHaveFields DEF QueueIInv, HoldsOK, QueueAssumption
<1>2. PICK q : q = call[t].queue /\ q \in Queues
  <2>1. pc[t] \in QueueLocations
    BY DEF UnlockTx, UnlockRx, Unlocking, QueueLocations
  <2>2. QED BY <2>1 DEF QueueIInv, CallsOK, CallOK
<1>3. PICK n : n = Announce(os, queue, q)
  OBVIOUS
<1>4. Leaves(queue, n.queues, NoQueue) /\ Keeps(os, n.kernel)
  BY <1>1, <1>2, <1>3, AnnounceLeaves, ContainerIsSet
<1>5. PICK w : w = WakeOne(os, SendList[q]) /\ Keeps(os, w)
  BY <1>1, WakeKept
<1>6. /\ SameHolders(queue, n.queues) /\ HasQueueFields(n.queues)
      /\ SameHolders(queue, queue)
  BY <1>1, <1>4 DEF Leaves, SameHolders
<1>7. ASSUME NEW Q, HasQueueFields(Q), SameHolders(queue, Q),
             NEW v, \/ queue' = [Q EXCEPT ![q].txLock = v]
                    \/ queue' = [Q EXCEPT ![q].rxLock = v]
      PROVE  SameHolders(queue, queue')
  BY <1>2, <1>7 DEF SameHolders, HasQueueFields
<1>8. Keeps(os, [os EXCEPT !.stage = "run"])
  BY <1>1, FieldsKept
<1>9. CASE UnlockTx(t)
  <2>1. \/ /\ os' = [PendYieldIf(n.kernel, n.higher) EXCEPT !.stage = "masked"]
           /\ \E v : queue' = [n.queues EXCEPT ![q].txLock = v]
        \/ /\ os' = [os EXCEPT !.stage = "run"]
           /\ queue' = [queue EXCEPT ![q].txLock = queueUNLOCKED]
    <3>1. /\ os' = [PendYieldIf(n.kernel, n.higher) EXCEPT !.stage = "masked"]
          /\ queue' = [n.queues EXCEPT ![q].txLock = @ - 1]
          => \E v : queue' = [n.queues EXCEPT ![q].txLock = v]
      OBVIOUS
    <3>2. QED BY <1>2, <1>3, <1>9, <3>1 DEF UnlockTx
  <2>2. Keeps(os, os')
    <3>1. PICK c : c = n.higher
      OBVIOUS
    <3>2. PICK k : k = n.kernel /\ Keeps(os, k)
      BY <1>4
    <3>3. Keeps(os, [PendYieldIf(k, c) EXCEPT !.stage = "masked"])
      BY <1>1, <3>2, MaskedKept
    <3>4. QED BY <1>8, <2>1, <3>1, <3>2, <3>3
  <2>3. SameHolders(queue, queue')
    BY <1>1, <1>6, <1>7, <2>1
  <2>4. QED BY <2>2, <2>3, KeptKeepsPriorities
<1>10. CASE UnlockRx(t)
  <2>1. \/ /\ \E c : os' = [PendYieldIf(w, c) EXCEPT !.stage = "masked"]
           /\ \E v : queue' = [queue EXCEPT ![q].rxLock = v]
        \/ /\ os' = [os EXCEPT !.stage = "run"]
           /\ queue' = [queue EXCEPT ![q].rxLock = queueUNLOCKED]
    BY <1>2, <1>5, <1>10 DEF UnlockRx
  <2>2. Keeps(os, os')
    <3>1. ASSUME NEW c
          PROVE  Keeps(os, [PendYieldIf(w, c) EXCEPT !.stage = "masked"])
      BY <1>1, <1>5, MaskedKept
    <3>2. QED BY <1>8, <2>1, <3>1
  <2>3. SameHolders(queue, queue')
    BY <1>1, <1>6, <1>7, <2>1
  <2>4. QED BY <2>2, <2>3, KeptKeepsPriorities
<1>11. QED BY <1>9, <1>10

LEMMA ContinueKeepsPriorities ==
  ASSUME QueueAssumption, TasksAssumption, QueueIInv, PrioritiesOK, HoldsOK, MutexCallsOK,
         NEW t \in Tasks, QueueContinue(t)
  PROVE  PrioritiesOK'
<1>1. HasFields(os) /\ HasQueueFields(queue)
  BY RingsHaveFields DEF QueueIInv, HoldsOK
<1>2. CASE QueueRetries(t)
  <2>1. /\ Running(t) /\ pc[t] \in QueueLocations /\ Attempt(t, call[t])
    BY <1>2 DEF QueueRetries, At, QueueLocations
  <2>2. Active(call[t]) /\ MutexCall(call[t])
    BY <2>1 DEF QueueIInv, CallsOK, Active, MutexCallsOK
  <2>3. Kind[call[t].queue] = "mutex" =>
          /\ call[t].op \notin {"receive", "peek"}
          /\ Sends(call[t].op) => queue[call[t].queue].holder = t
    BY <2>2 DEF MutexCall
  <2>4. QED BY <2>1, <2>2, <2>3, AttemptKeepsPriorities
<1>3. CASE QueueSuspends(t) \/ QueueResumes(t)
  <2>1. /\ os' = vTaskSuspendAll(os) \/ os' = xTaskResumeAll(os)
        /\ SameHolders(queue, queue')
    BY <1>3, SelfHolders DEF QueueSuspends, QueueResumes
  <2>2. SamePriorities(os, os')
    BY <1>1, <2>1, SuspendAllGives, ResumeAllGives DEF SamePriorities
  <2>3. QED BY <2>1, <2>2, SamePrioritiesKeep
<1>4. CASE QueueLocks(t)
  <2>1. os' = ClearDelayAborted(os) /\ \E q : queue' = prvLockQueue(queue, q)
    BY <1>4 DEF QueueLocks
  <2>2. Keeps(os, os')
    BY <1>1, <2>1, UnlinkKept
  <2>3. SameHolders(queue, queue')
    BY <1>1, <2>1 DEF prvLockQueue, SameHolders, HasQueueFields
  <2>4. QED BY <2>2, <2>3, KeptKeepsPriorities
<1>5. CASE QueueResumed(t)
  <2>1. PICK r, y : /\ r = [os EXCEPT !.yielded[t] = FALSE] /\ os' = YieldIf(r, y)
                    /\ UNCHANGED queue
    BY <1>5 DEF QueueResumed
  <2>2. Keeps(os, r) /\ HasFields(r)
    BY <1>1, <2>1 DEF Keeps, HasFields
  <2>3. Keeps(os, os')
    BY <1>1, <2>1, <2>2, UnlinkKept, KeptAfterKept
  <2>4. QED BY <2>1, <2>3, SelfHolders, KeptKeepsPriorities
<1>6. CASE QueueRemovedFromSet(t)
  <2>1. UNCHANGED os /\ \E q : queue' = [queue EXCEPT ![q].container = NoQueue]
    BY <1>6 DEF QueueRemovedFromSet
  <2>2. Keeps(os, os')
    BY <2>1, SelfKept
  <2>3. SameHolders(queue, queue')
    BY <1>1, <2>1 DEF SameHolders, HasQueueFields
  <2>4. QED BY <2>2, <2>3, KeptKeepsPriorities
<1>7. QED BY <1>2, <1>3, <1>4, <1>5, <1>6, BlocksKeepsPriorities, DisinheritsKeepsPriorities,
             UnlockKeepsPriorities DEF QueueContinue

LEMMA CallKeepsPriorities ==
  ASSUME QueueAssumption, TasksAssumption, QueueIInv, PrioritiesOK, HoldsOK, MutexCallsOK,
         NEW t \in Tasks, NEW op, NEW q \in Queues, NEW n, QueueCall(t, op, q, n)
  PROVE  PrioritiesOK' /\ MutexCallsOK'
<1>1. /\ HasFields(os) /\ HasQueueFields(queue) /\ CallsOK
  BY RingsHaveFields DEF QueueIInv, HoldsOK
<1>2. Running(t)
  BY DEF QueueCall, xQueueGenericSend, xQueueReceive, xQueuePeek, xQueueSemaphoreTake,
         xQueueTakeMutexRecursive, xSemaphoreGive, xQueueGiveMutexRecursive,
         xQueueGenericReset, xQueueAddToSet, xQueueRemoveFromSet, MayRead, MayUse, At
<1>3. ASSUME NEW c, Active(c), c.queue = q, Attempt(t, c), c.ticks # 0 => MutexCall(c),
             Kind[q] = "mutex" => /\ c.op \notin {"receive", "peek"}
                                  /\ Sends(c.op) => queue[q].holder = t
      PROVE  PrioritiesOK' /\ MutexCallsOK'
  <2>1. CallOK(c)
    BY <1>3 DEF Active
  <2>2. MutexCallsOK'
    BY <1>1, <1>3, <2>1, AttemptKeepsMutexCalls
  <2>3. Kind[c.queue] = "mutex" => /\ c.op \notin {"receive", "peek"}
                                   /\ Sends(c.op) => queue[c.queue].holder = t
    BY <1>3
  <2>4. PrioritiesOK'
    BY <1>2, <1>3, <2>3, AttemptKeepsPriorities
  <2>5. QED BY <2>2, <2>4
<1>4. UNCHANGED <<pc, call>> => MutexCallsOK'
  BY DEF MutexCallsOK, MutexCall
<1>5. CASE xQueueGenericReset(t, q)
  <2>1. Keeps(os, os')
    <3>1. PICK r, y : r = WakeOne(os, SendList[q]) /\ os' = YieldIf(r, y)
      BY <1>5 DEF xQueueGenericReset
    <3>2. Keeps(os, r)
      BY <1>1, <3>1, WakeKept
    <3>3. QED BY <1>1, <3>1, <3>2, UnlinkKept, KeptAfterKept
  <2>2. Kind[q] # "mutex" /\ queue[q].holder = NoTask
    BY <1>5 DEF xQueueGenericReset, PrioritiesOK, HoldersOK
  <2>3. PICK r : r = [prvInitialiseNewQueue(q) EXCEPT !.container = queue[q].container]
    OBVIOUS
  <2>4. r.holder = NoTask /\ queue' = [queue EXCEPT ![q] = r]
    BY <1>5, <2>3 DEF prvInitialiseNewQueue, xQueueGenericReset
  <2>5. SameHolders(queue, queue')
    BY <1>1, <2>2, <2>4 DEF SameHolders, HasQueueFields
  <2>6. UNCHANGED <<pc, call>>
    BY <1>5 DEF xQueueGenericReset
  <2>7. QED BY <1>4, <2>1, <2>5, <2>6, KeptKeepsPriorities
<1>6. CASE /\ UNCHANGED <<os, pc, call>>
           /\ \/ \E d : queue' = [queue EXCEPT ![q].recursion = @ + d]
              \/ \E d : queue' = [queue EXCEPT ![q].recursion = @ - d]
              \/ \E s : queue' = [queue EXCEPT ![q].container = s]
  <2>1. \/ \E v : queue' = [queue EXCEPT ![q].recursion = v]
        \/ \E v : queue' = [queue EXCEPT ![q].container = v]
    BY <1>6
  <2>2. SameHolders(queue, queue')
    BY <1>1, <2>1 DEF SameHolders, HasQueueFields
  <2>3. Keeps(os, os')
    BY <1>6, SelfKept
  <2>4. QED BY <1>4, <1>6, <2>2, <2>3, KeptKeepsPriorities
<1>7. CASE /\ UNCHANGED <<os, queue>>
           /\ \E c : Step(t, "removeFromSet", c) /\ MutexCall(c)
  <2>1. MutexCallsOK'
    BY <1>1, <1>7, StepKeepsMutexCalls
  <2>2. PrioritiesOK'
    BY <1>7, SelfKept, SelfHolders, KeptKeepsPriorities
  <2>3. QED BY <2>1, <2>2
<1>8. QED BY <1>3, <1>5, <1>6, <1>7, CallAttempts

\* Mutexes are for tasks: no handler receives from one, nor selects one from a set.
MutexesAreForTasks ==
  \A use \in HandlerUses :
    use[1] # "select" /\ (use[1] = "receive" => Kind[use[2]] # "mutex")

LEMMA QueueNextKeepsPriorities ==
  ASSUME QueueAssumption, TasksAssumption, "xTaskCreate" \notin Calls, MutexesAreForTasks,
         QueueIInv, HoldsOK, PrioritiesOK, MutexCallsOK, [QueueNext]_qvars
  PROVE  PrioritiesOK' /\ MutexCallsOK'
<1>1. IsPcFunction /\ HasFields(os) /\ CallsOK
  BY DEF QueueIInv, CallsOK, IsPcFunction, HoldsOK
<1>2. UNCHANGED <<pc, call>> => MutexCallsOK'
  BY DEF MutexCallsOK, MutexCall
<1>3. CASE UNCHANGED qvars
  <2>1. UNCHANGED <<os, queue, pc, call>>
    BY <1>3 DEF qvars
  <2>2. QED BY <1>2, <2>1, SelfKept, SelfHolders, KeptKeepsPriorities
<1>4. CASE SchedulerNext /\ UNCHANGED <<queue, call, selected>>
  <2>1. PrioritiesOK'
    BY <1>1, <1>4, SchedulerKeepsPriorities
  <2>2. OwnLocations
    BY <1>1, <1>4, SchedulerLocations DEF CallsOK
  <2>3. MutexCallsOK'
    BY <1>4, <2>2 DEF OwnLocations, MutexCallsOK, MutexCall
  <2>4. QED BY <2>1, <2>3
<1>5. ASSUME NEW t \in Tasks, QueueContinue(t)
      PROVE  PrioritiesOK' /\ MutexCallsOK'
  BY <1>5, ContinueKeepsPriorities, ContinueKeepsMutexCalls
<1>6. ASSUME NEW use \in TaskUses, QueueCall(use[1], use[2], use[3], use[4])
      PROVE  PrioritiesOK' /\ MutexCallsOK'
  <2>1. use[1] \in Tasks /\ use[3] \in Queues
    BY DEF QueueAssumption
  <2>2. QED BY <1>6, <2>1, CallKeepsPriorities
<1>7. ASSUME NEW use \in HandlerUses, QueueHandler(use[1], use[2])
      PROVE  PrioritiesOK' /\ MutexCallsOK'
  <2>1. use[2] \in Queues
    BY DEF QueueAssumption
  <2>2. use[1] # "select" /\ (use[1] = "receive" => Kind[use[2]] # "mutex")
    BY DEF MutexesAreForTasks
  <2>3. /\ Keeps(os, os') /\ UNCHANGED <<pc, call>> /\ Leaves(queue, queue', use[2])
        /\ use[1] # "receive" => Kind[use[2]] # "mutex"
    BY <1>1, <1>7, <2>1, <2>2, HandlerGives
  <2>4. SameHolders(queue, queue')
    BY <2>1, <2>2, <2>3, LeavesHolders
  <2>5. QED BY <1>2, <2>3, <2>4, KeptKeepsPriorities
<1>8. QED BY <1>3, <1>4, <1>5, <1>6, <1>7 DEF QueueNext

LEMMA InitPriorities ==
  ASSUME QueueAssumption, TasksAssumption, QueueInit
  PROVE  PrioritiesOK /\ MutexCallsOK
<1>1. ASSUME NEW q \in Queues
      PROVE  /\ queue[q].holder = NoTask
             /\ Kind[q] = "mutex" => queue[q].count = 1
  <2>1. PICK r : r = prvInitialiseNewQueue(q)
    OBVIOUS
  <2>2. /\ r.holder = NoTask
        /\ {"txLock", "rxLock", "holder", "recursion", "count"} \subseteq DOMAIN r
    BY <2>1 DEF prvInitialiseNewQueue
  <2>3. queue[q] = CASE Kind[q] = "mutex"     -> prvInitialiseMutex(r)
                     [] Kind[q] = "semaphore" -> xQueueCreateCountingSemaphore(r, Initially[q])
                     [] OTHER                 -> r
    BY <2>1 DEF QueueInit, NewQueue
  <2>4. CASE Kind[q] = "mutex"
    <3>1. queue[q] = [r EXCEPT !.holder = NoTask, !.recursion = 0, !.count = 1]
      BY <2>3, <2>4 DEF prvInitialiseMutex
    <3>2. QED BY <2>2, <3>1
  <2>5. CASE Kind[q] # "mutex"
    <3>1. queue[q] = r \/ queue[q] = [r EXCEPT !.count = Initially[q]]
      BY <2>3, <2>5 DEF xQueueCreateCountingSemaphore
    <3>2. QED BY <2>2, <2>5, <3>1
  <2>6. QED BY <2>4, <2>5
<1>2. /\ os.prio = [t \in Tasks |-> 0] /\ os.basePrio = [t \in Tasks |-> 0]
      /\ os.mutexesHeld = [t \in Tasks |-> 0]
  BY DEF QueueInit, SchedulerInit, KernelInit
<1>3. HoldersOK(queue) /\ PriorityFields(os)
  BY <1>1, <1>2 DEF HoldersOK, PriorityFields
<1>4. ASSUME NEW t \in Tasks
      PROVE  PriorityOK(t)
  <2>1. HeldBy(t) = {}
    BY <1>1 DEF HeldBy, Mutexes, TasksAssumption
  <2>2. QED BY <1>2, <2>1, FS_EmptySet DEF PriorityOK
<1>5. \A t \in Tasks : pc[t] = "none" /\ "none" \notin QueueLocations
  BY DEF QueueInit, SchedulerInit, QueueLocations
<1>6. QED BY <1>1, <1>3, <1>4, <1>5 DEF PrioritiesOK, MutexCallsOK

\* The inductive invariant.
PrioritiesIInv == LocksIInv /\ PrioritiesOK /\ MutexCallsOK

\* Whatever inherits, gives and times out, each task counts the mutexes it holds,
\* and one that holds none has the priority the application gave it, even if that
\* was set while it had inherited another: xTaskPriorityInherit, vTaskPrioritySet,
\* xTaskPriorityDisinherit and vTaskPriorityDisinheritAfterTimeout.  Tasks are
\* created before the scheduler starts, because a task that is deleted while it
\* holds a mutex takes it along and its control block may be made a new task; and
\* "mutexes cannot be used in interrupt service routines" (queue.rs:2512).
THEOREM PrioritiesGivenBack ==
  ASSUME "xTaskCreate" \notin Calls, MutexesAreForTasks
  PROVE  QueueSpec => []PriorityGivenBack
<1> USE QueueAssumption, TasksAssumption
<1>1. QueueInit => PrioritiesIInv
  BY QueueInitInv, InitLocks, InitPriorities DEF PrioritiesIInv, LocksIInv
<1>2. PrioritiesIInv /\ [QueueNext]_qvars => PrioritiesIInv'
  <2>1. SUFFICES ASSUME PrioritiesIInv, [QueueNext]_qvars PROVE PrioritiesIInv'
    OBVIOUS
  <2>2. LocksIInv'
    BY <2>1, LocksInductive DEF PrioritiesIInv
  <2>3. PrioritiesOK' /\ MutexCallsOK'
    BY <2>1, QueueNextKeepsPriorities DEF PrioritiesIInv, LocksIInv
  <2>4. QED BY <2>2, <2>3 DEF PrioritiesIInv
<1>3. PrioritiesIInv => PriorityGivenBack
  BY DEF PrioritiesIInv, PrioritiesOK, HoldersOK, PriorityOK, PriorityGivenBack,
         HoldersCounted, Mutexes, IsVacant
<1>4. QED BY <1>1, <1>2, <1>3, PTL DEF QueueSpec
=============================================================================

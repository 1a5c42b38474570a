---------------------------- MODULE TasksProofs ----------------------------
(***************************************************************************)
(* What the kernel functions of module Tasks do to the kernel record: they *)
(* keep its type and the agreement of lists and container pointers, and    *)
(* change nothing but what the code changes.                               *)
(***************************************************************************)
EXTENDS Tasks, WellFoundedInduction, SequenceTheorems, TLAPS
-----------------------------------------------------------------------------
(* What the operators of Lists do to a list: they keep it a list, add or   *)
(* remove one item, and keep the items distinct.                           *)

\* Element by element, what an insertion in the middle of a sequence yields.
LEMMA InsertAtProperties ==
  ASSUME NEW S, NEW s \in Seq(S), NEW i \in 1..(Len(s) + 1), NEW x \in S
  PROVE  /\ InsertAt(s, i, x) \in Seq(S)
         /\ Len(InsertAt(s, i, x)) = Len(s) + 1
         /\ \A j \in 1..(Len(s) + 1) :
              InsertAt(s, i, x)[j] = IF j < i THEN s[j]
                                     ELSE IF j = i THEN x ELSE s[j - 1]
<1> DEFINE p == SubSeq(s, 1, i - 1)
           r == p \o <<x>>
           q == SubSeq(s, i, Len(s))
           w == r \o q
<1>1. /\ p \in Seq(S) /\ Len(p) = i - 1
      /\ \A j \in 1..(i - 1) : p[j] = s[j]
  BY SubSeqProperties, ElementOfSeq
<1>2. /\ q \in Seq(S) /\ Len(q) = Len(s) - i + 1
      /\ \A j \in 1..(Len(s) - i + 1) : q[j] = s[i + j - 1]
  BY SubSeqProperties, ElementOfSeq
<1>3. <<x>> \in Seq(S) /\ Len(<<x>>) = 1 /\ <<x>>[1] = x
  OBVIOUS
<1> HIDE DEF p, q
<1>4. /\ r \in Seq(S) /\ Len(r) = i
      /\ \A j \in 1..i : r[j] = IF j < i THEN s[j] ELSE x
  <2>1. /\ r \in Seq(S) /\ Len(r) = Len(p) + 1
        /\ \A j \in 1..(Len(p) + 1) :
             r[j] = IF j <= Len(p) THEN p[j] ELSE <<x>>[j - Len(p)]
    BY <1>1, <1>3, ConcatProperties
  <2>2. QED BY <2>1, <1>1, <1>3
<1> HIDE DEF r
<1>5. /\ w \in Seq(S)
      /\ Len(w) = Len(r) + Len(q)
      /\ \A j \in 1..(Len(r) + Len(q)) :
           w[j] = IF j <= Len(r) THEN r[j] ELSE q[j - Len(r)]
  BY <1>4, <1>2, ConcatProperties
<1> HIDE DEF w
<1>6. ASSUME NEW j \in 1..(Len(s) + 1)
      PROVE  w[j] = IF j < i THEN s[j] ELSE IF j = i THEN x ELSE s[j - 1]
  <2>1. w[j] = IF j <= i THEN r[j] ELSE q[j - i]
    BY <1>2, <1>4, <1>5
  <2>2. CASE j <= i
    BY <2>1, <2>2, <1>4
  <2>3. CASE j > i
    <3>1. j - i \in 1..(Len(s) - i + 1) /\ i + (j - i) - 1 = j - 1
      BY <2>3
    <3>2. q[j - i] = s[j - 1]
      BY <3>1, <1>2
    <3>3. QED BY <2>1, <2>3, <3>2
  <2>4. QED BY <2>2, <2>3
<1>7. InsertAt(s, i, x) = w
  BY DEF InsertAt, p, q, r, w
<1>8. Len(w) = Len(s) + 1
  BY <1>2, <1>4, <1>5
<1>9. QED BY <1>5, <1>6, <1>7, <1>8

\* And a removal.
LEMMA RemoveAtProperties ==
  ASSUME NEW S, NEW s \in Seq(S), NEW i \in 1..Len(s)
  PROVE  /\ RemoveAt(s, i) \in Seq(S)
         /\ Len(RemoveAt(s, i)) = Len(s) - 1
         /\ \A j \in 1..(Len(s) - 1) :
              RemoveAt(s, i)[j] = IF j < i THEN s[j] ELSE s[j + 1]
<1> DEFINE p == SubSeq(s, 1, i - 1)
           q == SubSeq(s, i + 1, Len(s))
           w == p \o q
<1>1. /\ p \in Seq(S) /\ Len(p) = i - 1
      /\ \A j \in 1..(i - 1) : p[j] = s[j]
  BY SubSeqProperties, ElementOfSeq
<1>2. /\ q \in Seq(S) /\ Len(q) = Len(s) - i
      /\ \A j \in 1..(Len(s) - i) : q[j] = s[i + j]
  BY SubSeqProperties, ElementOfSeq
<1> HIDE DEF p, q
<1>3. /\ w \in Seq(S) /\ Len(w) = Len(p) + Len(q)
      /\ \A j \in 1..(Len(p) + Len(q)) :
           w[j] = IF j <= Len(p) THEN p[j] ELSE q[j - Len(p)]
  BY <1>1, <1>2, ConcatProperties
<1> HIDE DEF w
<1>4. ASSUME NEW j \in 1..(Len(s) - 1)
      PROVE  w[j] = IF j < i THEN s[j] ELSE s[j + 1]
  <2>1. w[j] = IF j < i THEN p[j] ELSE q[j - (i - 1)]
    <3>1. j \in 1..(Len(p) + Len(q))
      BY <1>1, <1>2
    <3>2. w[j] = IF j <= Len(p) THEN p[j] ELSE q[j - Len(p)]
      BY <3>1, <1>3
    <3>3. Len(p) = i - 1 /\ (j <= i - 1 <=> j < i)
      BY <1>1
    <3>4. QED BY <3>2, <3>3
  <2>2. CASE j < i
    BY <2>1, <2>2, <1>1
  <2>3. CASE j >= i
    <3>1. j - (i - 1) \in 1..(Len(s) - i) /\ i + (j - (i - 1)) = j + 1
      BY <2>3
    <3>2. q[j - (i - 1)] = s[j + 1]
      BY <3>1, <1>2
    <3>3. QED BY <2>1, <2>3, <3>2
  <2>4. QED BY <2>2, <2>3
<1>5. RemoveAt(s, i) = w
  BY DEF RemoveAt, p, q, w
<1>6. Len(w) = Len(s) - 1
  BY <1>1, <1>2, <1>3
<1>7. QED BY <1>3, <1>4, <1>5, <1>6
-----------------------------------------------------------------------------
(* The items of the sequences that result, as sets, and without repetition. *)

LEMMA InsertAtItems ==
  ASSUME NEW S, NEW s \in Seq(S), NEW i \in 1..(Len(s) + 1), NEW x \in S
  PROVE  /\ ToSet(InsertAt(s, i, x)) = ToSet(s) \cup {x}
         /\ IsInjective(s) /\ x \notin ToSet(s) => IsInjective(InsertAt(s, i, x))
<1> DEFINE u == InsertAt(s, i, x)
<1>1. /\ u \in Seq(S) /\ Len(u) = Len(s) + 1
      /\ \A j \in 1..(Len(s) + 1) :
           u[j] = IF j < i THEN s[j] ELSE IF j = i THEN x ELSE s[j - 1]
  BY InsertAtProperties
<1> HIDE DEF u
<1>2. DOMAIN u = 1..(Len(s) + 1) /\ DOMAIN s = 1..Len(s)
  BY <1>1
<1>3. ASSUME NEW y \in ToSet(s) PROVE y \in ToSet(u)
  <2>1. PICK j \in 1..Len(s) : s[j] = y
    BY <1>2 DEF ToSet
  <2>2. CASE j < i
    <3>1. j \in 1..(Len(s) + 1) /\ u[j] = y
      BY <2>1, <2>2, <1>1
    <3>2. QED BY <3>1, <1>2 DEF ToSet
  <2>3. CASE j >= i
    <3>1. j + 1 \in 1..(Len(s) + 1) /\ u[j + 1] = y
      BY <2>1, <2>3, <1>1
    <3>2. QED BY <3>1, <1>2 DEF ToSet
  <2>4. QED BY <2>2, <2>3
<1>4. x \in ToSet(u)
  BY <1>1, <1>2 DEF ToSet
<1>5. ASSUME NEW y \in ToSet(u) PROVE y \in ToSet(s) \cup {x}
  <2>1. PICK j \in 1..(Len(s) + 1) : u[j] = y
    BY <1>2 DEF ToSet
  <2>2. CASE j < i
    <3>1. j \in 1..Len(s) /\ s[j] = y
      BY <2>1, <2>2, <1>1
    <3>2. QED BY <3>1, <1>2 DEF ToSet
  <2>3. CASE j > i
    <3>1. j - 1 \in 1..Len(s) /\ s[j - 1] = y
      BY <2>1, <2>3, <1>1
    <3>2. QED BY <3>1, <1>2 DEF ToSet
  <2>4. CASE j = i
    BY <2>1, <2>4, <1>1
  <2>5. QED BY <2>2, <2>3, <2>4
<1>6. ASSUME IsInjective(s), x \notin ToSet(s) PROVE IsInjective(u)
  <2>1. \A j \in 1..Len(s) : s[j] # x
    BY <1>6, <1>2 DEF ToSet
  <2>2. \A j, k \in 1..Len(s) : s[j] = s[k] => j = k
    BY <1>6, <1>2 DEF IsInjective
  <2>3. \A j, k \in 1..(Len(s) + 1) : u[j] = u[k] => j = k
    BY <2>1, <2>2, <1>1, SMTT(60)
  <2>4. QED BY <2>3, <1>2 DEF IsInjective
<1>7. QED BY <1>3, <1>4, <1>5, <1>6 DEF u

LEMMA RemoveAtItems ==
  ASSUME NEW S, NEW s \in Seq(S), NEW i \in 1..Len(s), IsInjective(s)
  PROVE  /\ ToSet(RemoveAt(s, i)) = ToSet(s) \ {s[i]}
         /\ IsInjective(RemoveAt(s, i))
<1> DEFINE u == RemoveAt(s, i)
<1>1. /\ u \in Seq(S) /\ Len(u) = Len(s) - 1
      /\ \A j \in 1..(Len(s) - 1) : u[j] = IF j < i THEN s[j] ELSE s[j + 1]
  BY RemoveAtProperties
<1> HIDE DEF u
<1>2. DOMAIN u = 1..(Len(s) - 1) /\ DOMAIN s = 1..Len(s)
  BY <1>1
<1>3. \A j, k \in 1..Len(s) : s[j] = s[k] => j = k
  BY <1>2 DEF IsInjective
<1>4. ASSUME NEW y \in ToSet(s) \ {s[i]} PROVE y \in ToSet(u)
  <2>1. PICK j \in 1..Len(s) : s[j] = y
    BY <1>2 DEF ToSet
  <2>2. CASE j < i
    <3>1. j \in 1..(Len(s) - 1) /\ u[j] = y
      BY <2>1, <2>2, <1>1
    <3>2. QED BY <3>1, <1>2 DEF ToSet
  <2>3. CASE j > i
    <3>1. j - 1 \in 1..(Len(s) - 1) /\ u[j - 1] = y
      BY <2>1, <2>3, <1>1
    <3>2. QED BY <3>1, <1>2 DEF ToSet
  <2>4. QED BY <2>1, <2>2, <2>3
<1>5. ASSUME NEW y \in ToSet(u) PROVE y \in ToSet(s) \ {s[i]}
  <2>1. PICK j \in 1..(Len(s) - 1) : u[j] = y
    BY <1>2 DEF ToSet
  <2>2. PICK k \in 1..Len(s) : k # i /\ s[k] = y
    BY <2>1, <1>1
  <2>3. y # s[i]
    BY <2>2, <1>3
  <2>4. QED BY <2>2, <2>3, <1>2 DEF ToSet
<1>6. IsInjective(u)
  <2>1. \A j, k \in 1..(Len(s) - 1) : u[j] = u[k] => j = k
    BY <1>1, <1>3
  <2>2. QED BY <2>1, <1>2 DEF IsInjective
<1>7. QED BY <1>4, <1>5, <1>6 DEF u
LEMMA AppendItems ==
  ASSUME NEW S, NEW s \in Seq(S), NEW x \in S
  PROVE  /\ ToSet(Append(s, x)) = ToSet(s) \cup {x}
         /\ IsInjective(s) /\ x \notin ToSet(s) => IsInjective(Append(s, x))
<1> DEFINE u == Append(s, x)
<1>1. /\ u \in Seq(S) /\ Len(u) = Len(s) + 1
      /\ \A j \in 1..(Len(s) + 1) : u[j] = IF j <= Len(s) THEN s[j] ELSE x
  OBVIOUS
<1> HIDE DEF u
<1>2. DOMAIN u = 1..(Len(s) + 1) /\ DOMAIN s = 1..Len(s)
  BY <1>1
<1>3. ToSet(u) = ToSet(s) \cup {x}
  BY <1>1, <1>2 DEF ToSet
<1>4. ASSUME IsInjective(s), x \notin ToSet(s) PROVE IsInjective(u)
  <2>1. \A j \in 1..Len(s) : s[j] # x
    BY <1>4, <1>2 DEF ToSet
  <2>2. \A j, k \in 1..Len(s) : s[j] = s[k] => j = k
    BY <1>4, <1>2 DEF IsInjective
  <2>3. \A j, k \in 1..(Len(s) + 1) : u[j] = u[k] => j = k
    BY <2>1, <2>2, <1>1
  <2>4. QED BY <2>3, <1>2 DEF IsInjective
<1>5. QED BY <1>3, <1>4 DEF u

LEMMA HeadIsItem ==
  ASSUME NEW S, NEW s \in Seq(S), s # << >>
  PROVE  Head(s) \in ToSet(s) /\ Head(s) \in S
<1>1. 1 \in DOMAIN s /\ Head(s) = s[1]
  OBVIOUS
<1>2. QED BY <1>1 DEF ToSet
-----------------------------------------------------------------------------
(* The operations of list.rs.                                              *)

\* What an insertion of x into list L makes of it.
Inserted(S, L, x, M) ==
  /\ M \in ListOf(S)
  /\ Len(M.items) = Len(L.items) + 1
  /\ ToSet(M.items) = ToSet(L.items) \cup {x}
  /\ IsInjective(L.items) /\ x \notin ToSet(L.items) => IsInjective(M.items)

\* vListInsertEnd adds one item, wherever the cursor is.
LEMMA InsertEndInserts ==
  ASSUME NEW S, NEW L \in ListOf(S), NEW x \in S
  PROVE  Inserted(S, L, x, vListInsertEnd(L, x))
<1>1. L.items \in Seq(S) /\ L.idx \in Nat /\ L.idx <= Len(L.items)
  BY DEF ListOf
<1>2. CASE L.idx = 0
  <2> DEFINE M == [items |-> Append(L.items, x), idx |-> 0]
  <2>1. vListInsertEnd(L, x) = M
    BY <1>2 DEF vListInsertEnd
  <2>2. M \in ListOf(S) /\ Len(M.items) = Len(L.items) + 1
    BY <1>1 DEF ListOf
  <2>3. QED BY <2>1, <2>2, <1>1, AppendItems DEF Inserted
<1>3. CASE L.idx # 0
  <2> DEFINE M == [items |-> InsertAt(L.items, L.idx, x), idx |-> L.idx + 1]
  <2>1. vListInsertEnd(L, x) = M
    BY <1>3 DEF vListInsertEnd
  <2>2. L.idx \in 1..(Len(L.items) + 1)
    BY <1>1, <1>3
  <2>3. /\ M.items \in Seq(S) /\ Len(M.items) = Len(L.items) + 1
    BY <2>2, <1>1, InsertAtProperties
  <2>4. M \in ListOf(S)
    BY <2>3, <1>1 DEF ListOf
  <2>5. /\ ToSet(M.items) = ToSet(L.items) \cup {x}
        /\ IsInjective(L.items) /\ x \notin ToSet(L.items) => IsInjective(M.items)
    BY <2>2, <1>1, InsertAtItems
  <2>6. QED BY <2>1, <2>3, <2>4, <2>5 DEF Inserted
<1>4. QED BY <1>2, <1>3

\* The search of vListInsert always finds a position.
LEMMA InsertionPointExists ==
  ASSUME NEW S, NEW L \in ListOf(S), NEW value, NEW v \in Int, NEW end,
         \A y \in S : value[y] \in Int
  PROVE  /\ InsertionPoint(L, value, v, end) \in 1..(Len(L.items) + 1)
         /\ IsInsertionPoint(L, value, v, end, InsertionPoint(L, value, v, end))
<1> DEFINE n == Len(L.items)
           P(i) == IsInsertionPoint(L, value, v, end, i)
<1>1. L.items \in Seq(S) /\ n \in Nat
  BY DEF ListOf
<1>2. \A i \in 1..n : value[L.items[i]] \in Int
  BY <1>1
<1> HIDE DEF P
<1>3. SUFFICES \E i \in 1..(n + 1) : P(i)
  <2>1. InsertionPoint(L, value, v, end) = CHOOSE i \in 1..(n + 1) : P(i)
    BY DEF InsertionPoint, P
  <2>2. InsertionPoint(L, value, v, end) \in 1..(n + 1) /\ P(InsertionPoint(L, value, v, end))
    BY <1>3, <2>1, Zenon
  <2>3. QED BY <2>2 DEF P
<1>4. CASE v = end
  BY <1>1, <1>4 DEF P, IsInsertionPoint
<1>5. CASE v # end /\ \A i \in 1..n : value[L.items[i]] <= v
  <2>1. P(n + 1)
    BY <1>1, <1>5 DEF P, IsInsertionPoint
  <2>2. QED BY <2>1, <1>1
<1>6. CASE v # end /\ \E i \in 1..n : ~(value[L.items[i]] <= v)
  <2> DEFINE T == {i \in 1..n : ~(value[L.items[i]] <= v)}
  <2>1. T # {} /\ T \subseteq Nat
    BY <1>1, <1>6
  <2>2. PICK i \in T : \A j \in T : ~(<<j, i>> \in OpToRel(<, Nat))
    BY <2>1, NatLessThanWellFounded, WFMin, ZenonT(60)
  <2>3. \A j \in T : ~(j < i)
    BY <2>1, <2>2 DEF OpToRel
  <2>4. \A j \in 1..(i - 1) : value[L.items[j]] <= v
    BY <2>3, <1>1
  <2>5. value[L.items[i]] > v
    <3>1. i \in 1..n /\ ~(value[L.items[i]] <= v)
      OBVIOUS
    <3>2. value[L.items[i]] \in Int
      BY <3>1, <1>2
    <3>3. QED BY <3>1, <3>2
  <2>6. P(i)
    BY <1>6, <2>4, <2>5 DEF P, IsInsertionPoint
  <2>7. QED BY <2>6, <1>1
<1>7. QED BY <1>4, <1>5, <1>6

LEMMA SortedInsertInserts ==
  ASSUME NEW S, NEW L \in ListOf(S), NEW x \in S, NEW value, NEW end,
         \A y \in S : value[y] \in Int
  PROVE  Inserted(S, L, x, vListInsert(L, x, value, end))
<1> DEFINE i == InsertionPoint(L, value, value[x], end)
           M == [items |-> InsertAt(L.items, i, x),
                 idx   |-> IF i <= L.idx THEN L.idx + 1 ELSE L.idx]
<1>1. L.items \in Seq(S) /\ L.idx \in Nat /\ L.idx <= Len(L.items)
  BY DEF ListOf
<1>2. i \in 1..(Len(L.items) + 1)
  BY InsertionPointExists
<1>3. vListInsert(L, x, value, end) = M
  BY DEF vListInsert
<1> HIDE DEF i
<1>4. /\ M.items \in Seq(S) /\ Len(M.items) = Len(L.items) + 1
  BY <1>1, <1>2, InsertAtProperties
<1>5. M \in ListOf(S)
  BY <1>1, <1>2, <1>4 DEF ListOf
<1>6. /\ ToSet(M.items) = ToSet(L.items) \cup {x}
      /\ IsInjective(L.items) /\ x \notin ToSet(L.items) => IsInjective(M.items)
  BY <1>1, <1>2, InsertAtItems
<1>7. QED BY <1>3, <1>4, <1>5, <1>6 DEF Inserted

\* uxListRemove removes its item and keeps the cursor inside the list.
LEMMA RemoveRemoves ==
  ASSUME NEW S, NEW L \in ListOf(S), NEW x \in ToSet(L.items),
         IsInjective(L.items)
  PROVE  /\ uxListRemove(L, x) \in ListOf(S)
         /\ Len(uxListRemove(L, x).items) = Len(L.items) - 1
         /\ ToSet(uxListRemove(L, x).items) = ToSet(L.items) \ {x}
         /\ IsInjective(uxListRemove(L, x).items)
<1> DEFINE i == PositionOf(L, x)
           M == [items |-> RemoveAt(L.items, i),
                 idx   |-> IF i <= L.idx THEN L.idx - 1 ELSE L.idx]
<1>1. L.items \in Seq(S) /\ L.idx \in Nat /\ L.idx <= Len(L.items)
  BY DEF ListOf
<1>2. i \in 1..Len(L.items) /\ L.items[i] = x
  <2>1. \E j \in 1..Len(L.items) : L.items[j] = x
    BY <1>1 DEF ToSet
  <2>2. QED BY <2>1 DEF PositionOf
<1>3. uxListRemove(L, x) = M
  BY DEF uxListRemove
<1> HIDE DEF i
<1>4. /\ M.items \in Seq(S) /\ Len(M.items) = Len(L.items) - 1
  BY <1>1, <1>2, RemoveAtProperties
<1>5. M \in ListOf(S)
  BY <1>1, <1>2, <1>4 DEF ListOf
<1>6. /\ ToSet(M.items) = ToSet(L.items) \ {x}
      /\ IsInjective(M.items)
  BY <1>1, <1>2, RemoveAtItems
<1>7. QED BY <1>3, <1>4, <1>5, <1>6

\* listGET_OWNER_OF_NEXT_ENTRY returns an item of the list and moves nothing.
LEMMA NextEntryIsItem ==
  ASSUME NEW S, NEW L \in ListOf(S), L.items # << >>
  PROVE  /\ listNEXT_ENTRY(L) \in ListOf(S)
         /\ listNEXT_ENTRY(L).items = L.items
         /\ L.items[listNEXT_ENTRY(L).idx] \in ToSet(L.items)
         /\ L.items[listNEXT_ENTRY(L).idx] \in S
<1>1. L \in [items : Seq(S), idx : Nat] /\ L.idx <= Len(L.items)
  BY DEF ListOf
<1>2. Len(L.items) \in Nat \ {0}
  BY <1>1, EmptySeq
<1> DEFINE j == IF L.idx = Len(L.items) THEN 1 ELSE L.idx + 1
<1>3. listNEXT_ENTRY(L) = [items |-> L.items, idx |-> j]
  BY <1>1 DEF listNEXT_ENTRY
<1>4. j \in 1..Len(L.items)
  BY <1>1, <1>2
<1>5. L.items[j] \in ToSet(L.items) /\ L.items[j] \in S
  BY <1>1, <1>4 DEF ToSet
<1>6. QED BY <1>1, <1>3, <1>4, <1>5 DEF ListOf
-----------------------------------------------------------------------------
(* The kernel record.                                                      *)

Good(k) == k \in Kernel /\ Consistent(k)

\* The number of tasks that wait for the idle task to free them.
Ending(k) == LengthOf(k, xTasksWaitingTermination)

\* The fields that linking and unlinking tasks leaves alone.
SameControl(k, r) ==
  /\ r.current = k.current
  /\ r.running = k.running
  /\ r.stage = k.stage
  /\ r.suspended = k.suspended
  /\ r.pendedTicks = k.pendedTicks
  /\ r.numDeleted = k.numDeleted
  /\ r.prio = k.prio

\* The fields that say where the items of the tasks are linked.
SameLinks(k, r) ==
  /\ r.lists = k.lists
  /\ r.stateList = k.stateList
  /\ r.eventList = k.eventList
  /\ r.topReady = k.topReady

LEMMA ListNames ==
  /\ Lists \subseteq Int
  /\ StateLists \cap ItemLists = {}
  /\ NoList \notin Lists
  /\ xTasksWaitingTermination \in StateLists
  /\ xTasksWaitingTermination \notin Priorities
  /\ xSuspendedTaskList \in StateLists
  /\ xPendingReadyList \in ItemLists
  /\ xDelayedTaskList1 \in StateLists /\ xDelayedTaskList2 \in StateLists
  /\ Priorities \subseteq StateLists
BY TasksAssumption
DEF Lists, StateLists, ItemLists, Priorities, NoList, xDelayedTaskList1,
    xDelayedTaskList2, xPendingReadyList, xSuspendedTaskList,
    xTasksWaitingTermination

\* A change of other fields keeps a record good.
LEMMA SameLinksConsistent ==
  ASSUME NEW k, Consistent(k), NEW r, SameLinks(k, r)
  PROVE  Consistent(r) /\ Ending(r) = Ending(k)
BY DEF SameLinks, Consistent, ItemsOf, Ending, LengthOf
-----------------------------------------------------------------------------
(* Linking and unlinking the state item and the event item of a task.      *)

LinkState(k, l, t, M) == [k EXCEPT !.lists[l] = M, !.stateList[t] = l]

LEMMA LinkStateGood ==
  ASSUME NEW k, Good(k), NEW l \in StateLists, NEW t \in Tasks,
         k.stateList[t] = NoList, NEW M, Inserted(Tasks, k.lists[l], t, M)
  PROVE  LET r == LinkState(k, l, t, M)
         IN  /\ Good(r)
             /\ SameControl(k, r)
             /\ r.stateList = [k.stateList EXCEPT ![t] = l]
             /\ r.eventList = k.eventList
             /\ r.topReady = k.topReady
             /\ Ending(r) = IF l = xTasksWaitingTermination THEN Ending(k) + 1
                                                            ELSE Ending(k)
<1> DEFINE r == LinkState(k, l, t, M)
<1>1. k \in Kernel /\ Consistent(k)
  BY DEF Good
<1>2. l \in Lists
  BY DEF Lists
<1>3. M \in ListOf(Tasks)
  BY DEF Inserted
<1>4. r \in Kernel
  BY <1>1, <1>2, <1>3, ZenonT(60) DEF LinkState, Kernel
<1>5. /\ r.lists = [k.lists EXCEPT ![l] = M]
      /\ r.stateList = [k.stateList EXCEPT ![t] = l]
      /\ r.eventList = k.eventList
      /\ r.topReady = k.topReady
      /\ SameControl(k, r)
  BY <1>1 DEF LinkState, Kernel, SameControl
<1>6. /\ k.lists \in [Lists -> ListOf(Tasks)]
      /\ k.stateList \in [Tasks -> StateLists \cup {NoList}]
      /\ k.eventList \in [Tasks -> ItemLists \cup {NoList}]
  BY <1>1 DEF Kernel
<1> HIDE DEF r
<1>7. Consistent(r)
  <2>1. ASSUME NEW m \in StateLists
        PROVE  ItemsOf(r, m) = {u \in Tasks : r.stateList[u] = m}
    <3>1. ItemsOf(k, m) = {u \in Tasks : k.stateList[u] = m}
      BY <1>1 DEF Consistent
    <3>2. m \in Lists /\ m # NoList
      BY ListNames DEF Lists
    <3>3. CASE m = l
      BY <3>1, <3>2, <3>3, <1>2, <1>5, <1>6 DEF ItemsOf, Inserted
    <3>4. CASE m # l
      <4>1. ItemsOf(r, m) = ItemsOf(k, m)
        BY <3>2, <3>4, <1>5, <1>6 DEF ItemsOf
      <4>2. \A u \in Tasks : r.stateList[u] = m <=> k.stateList[u] = m
        BY <3>2, <3>4, <1>5, <1>6
      <4>3. QED BY <3>1, <4>1, <4>2
    <3>5. QED BY <3>3, <3>4
  <2>2. ASSUME NEW m \in ItemLists
        PROVE  ItemsOf(r, m) = {u \in Tasks : r.eventList[u] = m}
    <3>1. ItemsOf(k, m) = {u \in Tasks : k.eventList[u] = m}
      BY <1>1 DEF Consistent
    <3>2. m \in Lists /\ m # l
      BY ListNames DEF Lists
    <3>3. QED BY <3>1, <3>2, <1>5, <1>6 DEF ItemsOf
  <2>3. ASSUME NEW m \in Lists PROVE IsInjective(r.lists[m].items)
    <3>1. IsInjective(k.lists[m].items)
      BY <1>1 DEF Consistent
    <3>2. t \notin ToSet(k.lists[l].items)
      BY <1>1, ListNames DEF Consistent, ItemsOf, Lists
    <3>3. CASE m = l
      BY <3>1, <3>2, <3>3, <1>5, <1>6 DEF Inserted
    <3>4. CASE m # l
      BY <3>1, <3>4, <1>5, <1>6
    <3>5. QED BY <3>3, <3>4
  <2>4. QED BY <2>1, <2>2, <2>3 DEF Consistent
<1>8. Ending(r) = IF l = xTasksWaitingTermination THEN Ending(k) + 1 ELSE Ending(k)
  BY <1>2, <1>5, <1>6, ListNames DEF Ending, LengthOf, Inserted, Lists
<1>9. QED BY <1>4, <1>5, <1>7, <1>8 DEF Good, r

LinkEvent(k, l, t, M) == [k EXCEPT !.lists[l] = M, !.eventList[t] = l]

LEMMA LinkEventGood ==
  ASSUME NEW k, Good(k), NEW l \in ItemLists, NEW t \in Tasks,
         k.eventList[t] = NoList, NEW M, Inserted(Tasks, k.lists[l], t, M)
  PROVE  LET r == LinkEvent(k, l, t, M)
         IN  /\ Good(r)
             /\ SameControl(k, r)
             /\ r.stateList = k.stateList
             /\ r.eventList = [k.eventList EXCEPT ![t] = l]
             /\ r.topReady = k.topReady
             /\ Ending(r) = Ending(k)
<1> DEFINE r == LinkEvent(k, l, t, M)
<1>1. k \in Kernel /\ Consistent(k)
  BY DEF Good
<1>2. l \in Lists
  BY DEF Lists
<1>3. M \in ListOf(Tasks)
  BY DEF Inserted
<1>4. r \in Kernel
  BY <1>1, <1>2, <1>3, ZenonT(60) DEF LinkEvent, Kernel
<1>5. /\ r.lists = [k.lists EXCEPT ![l] = M]
      /\ r.stateList = k.stateList
      /\ r.eventList = [k.eventList EXCEPT ![t] = l]
      /\ r.topReady = k.topReady
      /\ SameControl(k, r)
  BY <1>1 DEF LinkEvent, Kernel, SameControl
<1>6. /\ k.lists \in [Lists -> ListOf(Tasks)]
      /\ k.stateList \in [Tasks -> StateLists \cup {NoList}]
      /\ k.eventList \in [Tasks -> ItemLists \cup {NoList}]
  BY <1>1 DEF Kernel
<1> HIDE DEF r
<1>7. Consistent(r)
  <2>1. ASSUME NEW m \in ItemLists
        PROVE  ItemsOf(r, m) = {u \in Tasks : r.eventList[u] = m}
    <3>1. ItemsOf(k, m) = {u \in Tasks : k.eventList[u] = m}
      BY <1>1 DEF Consistent
    <3>2. m \in Lists /\ m # NoList
      BY ListNames DEF Lists
    <3>3. CASE m = l
      BY <3>1, <3>2, <3>3, <1>2, <1>5, <1>6 DEF ItemsOf, Inserted
    <3>4. CASE m # l
      <4>1. ItemsOf(r, m) = ItemsOf(k, m)
        BY <3>2, <3>4, <1>5, <1>6 DEF ItemsOf
      <4>2. \A u \in Tasks : r.eventList[u] = m <=> k.eventList[u] = m
        BY <3>2, <3>4, <1>5, <1>6
      <4>3. QED BY <3>1, <4>1, <4>2
    <3>5. QED BY <3>3, <3>4
  <2>2. ASSUME NEW m \in StateLists
        PROVE  ItemsOf(r, m) = {u \in Tasks : r.stateList[u] = m}
    <3>1. ItemsOf(k, m) = {u \in Tasks : k.stateList[u] = m}
      BY <1>1 DEF Consistent
    <3>2. m \in Lists /\ m # l
      BY ListNames DEF Lists
    <3>3. QED BY <3>1, <3>2, <1>5, <1>6 DEF ItemsOf
  <2>3. ASSUME NEW m \in Lists PROVE IsInjective(r.lists[m].items)
    <3>1. IsInjective(k.lists[m].items)
      BY <1>1 DEF Consistent
    <3>2. t \notin ToSet(k.lists[l].items)
      BY <1>1, ListNames DEF Consistent, ItemsOf, Lists
    <3>3. CASE m = l
      BY <3>1, <3>2, <3>3, <1>5, <1>6 DEF Inserted
    <3>4. CASE m # l
      BY <3>1, <3>4, <1>5, <1>6
    <3>5. QED BY <3>3, <3>4
  <2>4. QED BY <2>1, <2>2, <2>3 DEF Consistent
<1>8. Ending(r) = Ending(k)
  <2>1. xTasksWaitingTermination \in Lists /\ xTasksWaitingTermination # l
    BY ListNames DEF Lists
  <2>2. QED BY <2>1, <1>5, <1>6 DEF Ending, LengthOf
<1>9. QED BY <1>4, <1>5, <1>7, <1>8 DEF Good, r

\* A failed assertion is recorded and changes nothing else.
LEMMA AssertGood ==
  ASSUME NEW k, Good(k), NEW cond \in BOOLEAN
  PROVE  LET r == configASSERT(k, cond)
         IN  Good(r) /\ SameControl(k, r) /\ SameLinks(k, r)
<1> DEFINE r == configASSERT(k, cond)
<1>1. r \in Kernel
  BY ZenonT(60) DEF Good, configASSERT, Kernel
<1>2. SameControl(k, r) /\ SameLinks(k, r)
  BY DEF Good, configASSERT, Kernel, SameControl, SameLinks
<1>3. QED BY <1>1, <1>2, SameLinksConsistent DEF Good

\* uxListRemove of the state item, linked or not.
LEMMA RemoveStateGood ==
  ASSUME NEW k, Good(k), NEW t \in Tasks
  PROVE  LET r == RemoveState(k, t)
         IN  /\ Good(r)
             /\ SameControl(k, r)
             /\ r.stateList = [k.stateList EXCEPT ![t] = NoList]
             /\ r.eventList = k.eventList
             /\ r.topReady = k.topReady
             /\ Ending(r) = IF k.stateList[t] = xTasksWaitingTermination
                              THEN Ending(k) - 1 ELSE Ending(k)
<1> DEFINE l == k.stateList[t]
           M == uxListRemove(k.lists[l], t)
           r == [k EXCEPT !.lists[l] = M, !.stateList[t] = NoList, !.wake[t] = 0]
<1>1. k \in Kernel /\ Consistent(k)
  BY DEF Good
<1>2. /\ k.lists \in [Lists -> ListOf(Tasks)]
      /\ k.stateList \in [Tasks -> StateLists \cup {NoList}]
      /\ k.eventList \in [Tasks -> ItemLists \cup {NoList}]
  BY <1>1 DEF Kernel
<1>3. CASE l = NoList
  <2>1. RemoveState(k, t) = configASSERT(k, FALSE)
    BY <1>3 DEF RemoveState
  <2>2. k.stateList = [k.stateList EXCEPT ![t] = NoList]
    BY <1>2, <1>3
  <2>3. k.stateList[t] # xTasksWaitingTermination
    BY <1>3, ListNames DEF Lists
  <2>4. QED BY <2>1, <2>2, <2>3, AssertGood, SameLinksConsistent, ZenonT(60)
            DEF SameLinks, Good
<1>4. CASE l # NoList
  <2>1. l \in StateLists /\ l \in Lists
    BY <1>2, <1>4 DEF Lists
  <2>2. k.lists[l] \in ListOf(Tasks) /\ t \in ItemsOf(k, l)
        /\ IsInjective(k.lists[l].items)
    BY <1>1, <1>2, <2>1 DEF Consistent
  <2>3. /\ M \in ListOf(Tasks) /\ Len(M.items) = Len(k.lists[l].items) - 1
        /\ ToSet(M.items) = ItemsOf(k, l) \ {t} /\ IsInjective(M.items)
    BY <2>2, RemoveRemoves DEF ItemsOf
  <2>4. RemoveState(k, t) = r
    BY <1>4 DEF RemoveState
  <2> HIDE DEF M
  <2>5. r \in Kernel
    <3>1. 0 \in Ticks
      BY TasksAssumption DEF Ticks
    <3>2. QED BY <1>1, <2>1, <2>3, <3>1, ZenonT(60) DEF Kernel
  <2>6. /\ r.lists = [k.lists EXCEPT ![l] = M]
        /\ r.stateList = [k.stateList EXCEPT ![t] = NoList]
        /\ r.eventList = k.eventList
        /\ r.topReady = k.topReady
        /\ SameControl(k, r)
    BY <1>1 DEF Kernel, SameControl
  <2> HIDE DEF r
  <2>7. ASSUME NEW m \in StateLists
        PROVE  ItemsOf(r, m) = {u \in Tasks : r.stateList[u] = m}
    <3>1. ItemsOf(k, m) = {u \in Tasks : k.stateList[u] = m}
      BY <1>1 DEF Consistent
    <3>2. m \in Lists /\ m # NoList
      BY ListNames DEF Lists
    <3>3. CASE m = l
      <4>1. ItemsOf(r, m) = ItemsOf(k, m) \ {t}
        BY <3>2, <3>3, <2>3, <2>6, <1>2 DEF ItemsOf
      <4>2. \A u \in Tasks : r.stateList[u] = m <=> k.stateList[u] = m /\ u # t
        BY <3>2, <3>3, <2>6, <1>2
      <4>3. QED BY <3>1, <4>1, <4>2
    <3>4. CASE m # l
      <4>1. ItemsOf(r, m) = ItemsOf(k, m)
        BY <3>2, <3>4, <2>6, <1>2 DEF ItemsOf
      <4>2. \A u \in Tasks : r.stateList[u] = m <=> k.stateList[u] = m
        BY <3>2, <3>4, <2>6, <1>2
      <4>3. QED BY <3>1, <4>1, <4>2
    <3>5. QED BY <3>3, <3>4
  <2>8. ASSUME NEW m \in ItemLists
        PROVE  ItemsOf(r, m) = {u \in Tasks : r.eventList[u] = m}
    <3>1. ItemsOf(k, m) = {u \in Tasks : k.eventList[u] = m}
      BY <1>1 DEF Consistent
    <3>2. m \in Lists /\ m # l
      BY <2>1, ListNames DEF Lists
    <3>3. QED BY <3>1, <3>2, <2>6, <1>2 DEF ItemsOf
  <2>9. ASSUME NEW m \in Lists PROVE IsInjective(r.lists[m].items)
    <3>1. IsInjective(k.lists[m].items)
      BY <1>1 DEF Consistent
    <3>2. QED BY <3>1, <2>3, <2>6, <1>2
  <2>10. Ending(r) = IF l = xTasksWaitingTermination THEN Ending(k) - 1
                                                     ELSE Ending(k)
    BY <2>1, <2>3, <2>6, <1>2, ListNames DEF Ending, LengthOf, Lists
  <2>11. QED BY <2>4, <2>5, <2>6, <2>7, <2>8, <2>9, <2>10 DEF Good, Consistent
<1>5. QED BY <1>3, <1>4

LEMMA RemoveEventGood ==
  ASSUME NEW k, Good(k), NEW t \in Tasks
  PROVE  LET r == RemoveEvent(k, t)
         IN  /\ Good(r)
             /\ SameControl(k, r)
             /\ r.stateList = k.stateList
             /\ r.eventList = [k.eventList EXCEPT ![t] = NoList]
             /\ r.topReady = k.topReady
             /\ Ending(r) = Ending(k)
<1> DEFINE l == k.eventList[t]
           M == uxListRemove(k.lists[l], t)
           r == [k EXCEPT !.lists[l] = M, !.eventList[t] = NoList]
<1>1. k \in Kernel /\ Consistent(k)
  BY DEF Good
<1>2. /\ k.lists \in [Lists -> ListOf(Tasks)]
      /\ k.stateList \in [Tasks -> StateLists \cup {NoList}]
      /\ k.eventList \in [Tasks -> ItemLists \cup {NoList}]
  BY <1>1 DEF Kernel
<1>3. CASE l = NoList
  <2>1. RemoveEvent(k, t) = configASSERT(k, FALSE)
    BY <1>3 DEF RemoveEvent
  <2>2. k.eventList = [k.eventList EXCEPT ![t] = NoList]
    BY <1>2, <1>3
  <2>3. QED BY <2>1, <2>2, AssertGood, SameLinksConsistent DEF SameLinks, Good
<1>4. CASE l # NoList
  <2>1. l \in ItemLists /\ l \in Lists
    BY <1>2, <1>4 DEF Lists
  <2>2. k.lists[l] \in ListOf(Tasks) /\ t \in ItemsOf(k, l)
        /\ IsInjective(k.lists[l].items)
    BY <1>1, <1>2, <2>1 DEF Consistent
  <2>3. /\ M \in ListOf(Tasks) /\ Len(M.items) = Len(k.lists[l].items) - 1
        /\ ToSet(M.items) = ItemsOf(k, l) \ {t} /\ IsInjective(M.items)
    BY <2>2, RemoveRemoves DEF ItemsOf
  <2>4. RemoveEvent(k, t) = r
    BY <1>4 DEF RemoveEvent
  <2> HIDE DEF M
  <2>5. r \in Kernel
    BY <1>1, <2>1, <2>3, ZenonT(60) DEF Kernel
  <2>6. /\ r.lists = [k.lists EXCEPT ![l] = M]
        /\ r.stateList = k.stateList
        /\ r.eventList = [k.eventList EXCEPT ![t] = NoList]
        /\ r.topReady = k.topReady
        /\ SameControl(k, r)
    BY <1>1 DEF Kernel, SameControl
  <2> HIDE DEF r
  <2>7. ASSUME NEW m \in ItemLists
        PROVE  ItemsOf(r, m) = {u \in Tasks : r.eventList[u] = m}
    <3>1. ItemsOf(k, m) = {u \in Tasks : k.eventList[u] = m}
      BY <1>1 DEF Consistent
    <3>2. m \in Lists /\ m # NoList
      BY ListNames DEF Lists
    <3>3. CASE m = l
      <4>1. ItemsOf(r, m) = ItemsOf(k, m) \ {t}
        BY <3>2, <3>3, <2>3, <2>6, <1>2 DEF ItemsOf
      <4>2. \A u \in Tasks : r.eventList[u] = m <=> k.eventList[u] = m /\ u # t
        BY <3>2, <3>3, <2>6, <1>2
      <4>3. QED BY <3>1, <4>1, <4>2
    <3>4. CASE m # l
      <4>1. ItemsOf(r, m) = ItemsOf(k, m)
        BY <3>2, <3>4, <2>6, <1>2 DEF ItemsOf
      <4>2. \A u \in Tasks : r.eventList[u] = m <=> k.eventList[u] = m
        BY <3>2, <3>4, <2>6, <1>2
      <4>3. QED BY <3>1, <4>1, <4>2
    <3>5. QED BY <3>3, <3>4
  <2>8. ASSUME NEW m \in StateLists
        PROVE  ItemsOf(r, m) = {u \in Tasks : r.stateList[u] = m}
    <3>1. ItemsOf(k, m) = {u \in Tasks : k.stateList[u] = m}
      BY <1>1 DEF Consistent
    <3>2. m \in Lists /\ m # l
      BY <2>1, ListNames DEF Lists
    <3>3. QED BY <3>1, <3>2, <2>6, <1>2 DEF ItemsOf
  <2>9. ASSUME NEW m \in Lists PROVE IsInjective(r.lists[m].items)
    <3>1. IsInjective(k.lists[m].items)
      BY <1>1 DEF Consistent
    <3>2. QED BY <3>1, <2>3, <2>6, <1>2
  <2>10. Ending(r) = Ending(k)
    <3>1. xTasksWaitingTermination \in Lists /\ xTasksWaitingTermination # l
      BY <2>1, ListNames DEF Lists
    <3>2. QED BY <3>1, <2>6, <1>2 DEF Ending, LengthOf
  <2>11. QED BY <2>4, <2>5, <2>6, <2>7, <2>8, <2>9, <2>10 DEF Good, Consistent
<1>5. QED BY <1>3, <1>4
-----------------------------------------------------------------------------
(* The functions of tasks.rs built on them.                                *)

\* A linked ready task is in the list of its priority, and the search of a
\* context switch starts at or above it.
Orderly(k) ==
  \A t \in Tasks :
    k.stateList[t] \in Priorities =>
      k.stateList[t] = k.prio[t] /\ k.stateList[t] <= k.topReady

Sound(k) == Good(k) /\ Orderly(k)

LEMMA SameLinksSound ==
  ASSUME NEW k, Sound(k), NEW r \in Kernel, SameLinks(k, r), r.prio = k.prio
  PROVE  Sound(r) /\ Ending(r) = Ending(k)
BY SameLinksConsistent DEF Sound, Good, Orderly, SameLinks

\* What AppendState and InsertState do.
StateLinked(k, l, t, r) ==
  /\ Good(r)
  /\ SameControl(k, r)
  /\ r.stateList = [k.stateList EXCEPT ![t] = l]
  /\ r.eventList = k.eventList
  /\ r.topReady = k.topReady
  /\ Ending(r) = IF l = xTasksWaitingTermination THEN Ending(k) + 1
                                                 ELSE Ending(k)

LEMMA AppendStateGood ==
  ASSUME NEW k, Good(k), NEW l \in StateLists, NEW t \in Tasks,
         k.stateList[t] = NoList
  PROVE  StateLinked(k, l, t, AppendState(k, l, t))
<1> DEFINE M == vListInsertEnd(k.lists[l], t)
<1>1. k.lists[l] \in ListOf(Tasks)
  BY DEF Good, Kernel, Lists
<1>2. Inserted(Tasks, k.lists[l], t, M)
  BY <1>1, InsertEndInserts
<1>3. AppendState(k, l, t) = LinkState(k, l, t, M)
  BY DEF AppendState, LinkState
<1> HIDE DEF M
<1>4. QED BY <1>2, <1>3, LinkStateGood DEF StateLinked

LEMMA InsertStateGood ==
  ASSUME NEW k, Good(k), NEW l \in StateLists, NEW t \in Tasks,
         k.stateList[t] = NoList
  PROVE  StateLinked(k, l, t, InsertState(k, l, t))
<1> DEFINE M == vListInsert(k.lists[l], t, k.wake, portMAX_DELAY)
<1>1. k.lists[l] \in ListOf(Tasks) /\ k.wake \in [Tasks -> Ticks]
  BY DEF Good, Kernel, Lists
<1>2. \A y \in Tasks : k.wake[y] \in Int
  BY <1>1, TasksAssumption DEF Ticks
<1>3. Inserted(Tasks, k.lists[l], t, M)
  BY <1>1, <1>2, SortedInsertInserts
<1>4. InsertState(k, l, t) = LinkState(k, l, t, M)
  BY DEF InsertState, LinkState
<1> HIDE DEF M
<1>5. QED BY <1>3, <1>4, LinkStateGood DEF StateLinked

LEMMA AppendEventGood ==
  ASSUME NEW k, Good(k), NEW l \in ItemLists, NEW t \in Tasks,
         k.eventList[t] = NoList
  PROVE  LET r == AppendEvent(k, l, t)
         IN  /\ Good(r)
             /\ SameControl(k, r)
             /\ r.stateList = k.stateList
             /\ r.eventList = [k.eventList EXCEPT ![t] = l]
             /\ r.topReady = k.topReady
             /\ Ending(r) = Ending(k)
<1> DEFINE M == vListInsertEnd(k.lists[l], t)
<1>1. k.lists[l] \in ListOf(Tasks)
  BY DEF Good, Kernel, Lists
<1>2. Inserted(Tasks, k.lists[l], t, M)
  BY <1>1, InsertEndInserts
<1>3. AppendEvent(k, l, t) = LinkEvent(k, l, t, M)
  BY DEF AppendEvent, LinkEvent
<1> HIDE DEF M
<1>4. QED BY <1>2, <1>3, LinkEventGood

LEMMA RemoveEventIfLinkedGood ==
  ASSUME NEW k, Good(k), NEW t \in Tasks
  PROVE  LET r == RemoveEventIfLinked(k, t)
         IN  /\ Good(r)
             /\ SameControl(k, r)
             /\ r.stateList = k.stateList
             /\ r.eventList = [k.eventList EXCEPT ![t] = NoList]
             /\ r.topReady = k.topReady
             /\ Ending(r) = Ending(k)
<1>1. CASE k.eventList[t] = NoList
  <2>1. RemoveEventIfLinked(k, t) = k
    BY <1>1 DEF RemoveEventIfLinked
  <2>2. k.eventList = [k.eventList EXCEPT ![t] = NoList]
    BY <1>1 DEF Good, Kernel
  <2>3. QED BY <2>1, <2>2 DEF SameControl
<1>2. CASE k.eventList[t] # NoList
  BY <1>2, RemoveEventGood DEF RemoveEventIfLinked
<1>3. QED BY <1>1, <1>2

\* prvAddTaskToReadyList puts an unlinked task in the list of its priority,
\* and uxTopReadyPriority is at least that.
LEMMA ReadyGood ==
  ASSUME NEW k, Good(k), NEW t \in Tasks, k.stateList[t] = NoList
  PROVE  LET r == prvAddTaskToReadyList(k, t)
         IN  /\ Good(r)
             /\ SameControl(k, r)
             /\ r.stateList = [k.stateList EXCEPT ![t] = k.prio[t]]
             /\ r.eventList = k.eventList
             /\ r.topReady >= k.topReady /\ r.topReady >= k.prio[t]
             /\ Ending(r) = Ending(k)
<1> DEFINE q == AppendState(k, k.prio[t], t)
           r == prvAddTaskToReadyList(k, t)
<1>1. /\ k.prio[t] \in Priorities /\ k.prio[t] \in StateLists
      /\ k.prio[t] # xTasksWaitingTermination
      /\ k.topReady \in Priorities
  BY ListNames DEF Good, Kernel
<1>2. StateLinked(k, k.prio[t], t, q)
  BY <1>1, AppendStateGood
<1>3. r = [q EXCEPT !.topReady = IF k.prio[t] > @ THEN k.prio[t] ELSE @]
  BY DEF prvAddTaskToReadyList
<1> HIDE DEF q, r
<1>4. q \in Kernel
  BY <1>2 DEF StateLinked, Good
<1>5. r \in Kernel
  BY <1>1, <1>3, <1>4, SMTT(60) DEF Kernel
<1>6. /\ SameControl(q, r) /\ r.lists = q.lists
      /\ r.stateList = q.stateList /\ r.eventList = q.eventList
      /\ r.topReady = IF k.prio[t] > q.topReady THEN k.prio[t] ELSE q.topReady
  BY <1>3, <1>4 DEF Kernel, SameControl
<1>7. Consistent(r) /\ Ending(r) = Ending(q)
  BY <1>2, <1>6 DEF Consistent, ItemsOf, Ending, LengthOf, StateLinked, Good
<1>8. r.topReady >= k.topReady /\ r.topReady >= k.prio[t]
  <2>1. q.topReady = k.topReady
    BY <1>2 DEF StateLinked
  <2>2. k.prio[t] \in Int /\ k.topReady \in Int
    BY <1>1, TasksAssumption DEF Priorities
  <2>3. QED BY <2>1, <2>2, <1>6
<1>9. QED BY <1>1, <1>2, <1>5, <1>6, <1>7, <1>8
          DEF StateLinked, SameControl, Good, r

LEMMA HeadIsLinked ==
  ASSUME NEW k, Good(k), NEW l \in Lists, ~IsEmpty(k, l)
  PROVE  /\ HeadOf(k, l) \in Tasks
         /\ l \in StateLists => k.stateList[HeadOf(k, l)] = l
         /\ l \in ItemLists => k.eventList[HeadOf(k, l)] = l
<1>1. k.lists[l].items \in Seq(Tasks) /\ k.lists[l].items # << >>
  BY DEF Good, Kernel, ListOf, IsEmpty, listLIST_IS_EMPTY
<1>2. HeadOf(k, l) \in Tasks /\ HeadOf(k, l) \in ItemsOf(k, l)
  BY <1>1, HeadIsItem DEF HeadOf, ItemsOf, listGET_OWNER_OF_HEAD_ENTRY
<1>3. QED BY <1>2 DEF Good, Consistent

LEMMA WrappingAddTicks ==
  ASSUME NEW x \in Ticks, NEW y \in Ticks
  PROVE  WrappingAdd(x, y) \in Ticks /\ WrappingSub(x, y) \in Ticks
BY TasksAssumption DEF WrappingAdd, WrappingSub, Ticks

\* Pending a yield, or a yield that waits for the scheduler to be resumed.
LEMMA YieldSound ==
  ASSUME NEW k, Sound(k), NEW cond \in BOOLEAN
  PROVE  LET r == YieldIf(k, cond)
             s == PendYieldIf(k, cond)
         IN  /\ Sound(r) /\ SameControl(k, r) /\ SameLinks(k, r)
             /\ Ending(r) = Ending(k)
             /\ Sound(s) /\ SameControl(k, s) /\ SameLinks(k, s)
             /\ Ending(s) = Ending(k)
<1>1. k \in Kernel
  BY DEF Sound, Good
<1>2. \/ YieldIf(k, cond) = k
      \/ YieldIf(k, cond) = [k EXCEPT !.pendSV = TRUE]
  BY DEF YieldIf, portYIELD
<1> DEFINE b == k.yieldPending \/ cond
<1>3. b \in BOOLEAN /\ PendYieldIf(k, cond) = [k EXCEPT !.yieldPending = b]
  BY DEF PendYieldIf
<1> HIDE DEF b
<1>4. ASSUME NEW r, \/ r = k \/ r = [k EXCEPT !.pendSV = TRUE]
                    \/ r = [k EXCEPT !.yieldPending = b]
      PROVE  r \in Kernel /\ SameControl(k, r) /\ SameLinks(k, r)
  <2>1. CASE r = k
    BY <2>1, <1>1 DEF SameControl, SameLinks
  <2>2. CASE r = [k EXCEPT !.pendSV = TRUE]
    BY <2>2, <1>1, ZenonT(60) DEF Kernel, SameControl, SameLinks
  <2>3. CASE r = [k EXCEPT !.yieldPending = b]
    BY <2>3, <1>1, <1>3, ZenonT(60) DEF Kernel, SameControl, SameLinks
  <2>4. QED BY <1>4, <2>1, <2>2, <2>3
<1>5. QED BY <1>2, <1>3, <1>4, SameLinksSound DEF SameControl

LEMMA ResetUnblockTimeSound ==
  ASSUME NEW k, Sound(k)
  PROVE  LET r == prvResetNextTaskUnblockTime(k)
         IN  /\ Sound(r) /\ SameControl(k, r) /\ SameLinks(k, r)
             /\ Ending(r) = Ending(k)
<1> DEFINE r == prvResetNextTaskUnblockTime(k)
           n == IF IsEmpty(k, k.delayed) THEN portMAX_DELAY
                                         ELSE k.wake[HeadOf(k, k.delayed)]
<1>1. k \in Kernel /\ Good(k)
  BY DEF Sound, Good
<1>2. k.delayed \in Lists
  BY <1>1, ListNames DEF Kernel, Lists
<1>3. n \in Ticks
  <2>1. portMAX_DELAY \in Ticks
    BY TasksAssumption DEF Ticks
  <2>2. ~IsEmpty(k, k.delayed) => k.wake[HeadOf(k, k.delayed)] \in Ticks
    BY <1>1, <1>2, HeadIsLinked DEF Kernel
  <2>3. QED BY <2>1, <2>2
<1>4. r = [k EXCEPT !.nextUnblock = n]
  BY DEF prvResetNextTaskUnblockTime
<1> HIDE DEF n, r
<1>5. r \in Kernel /\ SameControl(k, r) /\ SameLinks(k, r)
  BY <1>1, <1>3, <1>4, ZenonT(60) DEF Kernel, SameControl, SameLinks
<1>6. QED BY <1>5, SameLinksSound DEF SameControl, r

LEMMA SwitchDelayedListsSound ==
  ASSUME NEW k, Sound(k)
  PROVE  LET r == taskSWITCH_DELAYED_LISTS(k)
         IN  /\ Sound(r) /\ SameControl(k, r) /\ SameLinks(k, r)
             /\ Ending(r) = Ending(k)
<1> DEFINE a == configASSERT(k, IsEmpty(k, k.delayed))
           o == pxOverflowDelayedTaskList(k)
           q == [a EXCEPT !.delayed = o,
                          !.overflows = IF @ = MaxOverflows THEN 0 ELSE @ + 1]
<1>1. IsEmpty(k, k.delayed) \in BOOLEAN
  BY DEF IsEmpty, listLIST_IS_EMPTY
<1>2. Good(a) /\ SameControl(k, a) /\ SameLinks(k, a)
  BY <1>1, AssertGood DEF Sound
<1>3. o \in {xDelayedTaskList1, xDelayedTaskList2}
  BY DEF pxOverflowDelayedTaskList
<1> HIDE DEF a, o
<1>4. \A n \in 0..MaxOverflows :
        (IF n = MaxOverflows THEN 0 ELSE n + 1) \in 0..MaxOverflows
  BY TasksAssumption
<1>5. q \in Kernel /\ SameControl(a, q) /\ SameLinks(a, q)
  BY <1>2, <1>3, <1>4, ZenonT(60) DEF Good, Kernel, SameControl, SameLinks
<1>6. q \in Kernel /\ SameControl(k, q) /\ SameLinks(k, q)
  BY <1>2, <1>5 DEF SameControl, SameLinks
<1> HIDE DEF q
<1>7. Sound(q) /\ Ending(q) = Ending(k)
  BY <1>6, SameLinksSound DEF SameControl
<1>8. taskSWITCH_DELAYED_LISTS(k) = prvResetNextTaskUnblockTime(q)
  BY DEF taskSWITCH_DELAYED_LISTS, q, a, o
<1>9. QED BY <1>6, <1>7, <1>8, ResetUnblockTimeSound DEF SameControl, SameLinks

\* The current task goes to a delayed list or to the suspended list.
LEMMA DelayCurrentSound ==
  ASSUME NEW k, Sound(k), k.current \in Tasks, NEW n \in Ticks,
         NEW indefinitely \in BOOLEAN
  PROVE  LET r == prvAddCurrentTaskToDelayedList(k, n, indefinitely)
         IN  /\ Sound(r) /\ SameControl(k, r)
             /\ r.stateList[k.current] \in {xSuspendedTaskList,
                                            xDelayedTaskList1, xDelayedTaskList2}
             /\ \A u \in Tasks \ {k.current} : r.stateList[u] = k.stateList[u]
             /\ r.eventList = k.eventList
             /\ k.stateList[k.current] # xTasksWaitingTermination =>
                  Ending(r) = Ending(k)
<1> DEFINE t    == k.current
           wake == WrappingAdd(k.tick, n)
           k0   == [k EXCEPT !.delayAborted[t] = FALSE]
           k1   == RemoveState(k0, t)
           k2   == [k1 EXCEPT !.wake[t] = wake]
           r    == prvAddCurrentTaskToDelayedList(k, n, indefinitely)
           Unready == {xSuspendedTaskList, xDelayedTaskList1, xDelayedTaskList2}
<1>1. k \in Kernel /\ Good(k) /\ Orderly(k) /\ t \in Tasks
  BY DEF Sound, Good
<1>2. wake \in Ticks
  BY <1>1, WrappingAddTicks DEF Kernel
<1>3. k0 \in Kernel /\ SameControl(k, k0) /\ SameLinks(k, k0)
  BY <1>1 DEF Kernel, SameControl, SameLinks
<1> HIDE DEF k0
<1>4. Good(k0) /\ Ending(k0) = Ending(k)
  BY <1>1, <1>3, SameLinksConsistent DEF Good
<1>5. /\ Good(k1) /\ SameControl(k, k1)
      /\ k1.stateList = [k.stateList EXCEPT ![t] = NoList]
      /\ k1.eventList = k.eventList /\ k1.topReady = k.topReady
      /\ k.stateList[t] # xTasksWaitingTermination => Ending(k1) = Ending(k)
  BY <1>1, <1>3, <1>4, RemoveStateGood DEF SameControl, SameLinks
<1> HIDE DEF k1, wake
<1>6. k2 \in Kernel /\ SameControl(k1, k2) /\ SameLinks(k1, k2)
  BY <1>1, <1>2, <1>5, ZenonT(60) DEF Good, Kernel, SameControl, SameLinks
<1> HIDE DEF k2
<1>7. Good(k2) /\ Ending(k2) = Ending(k1)
  BY <1>5, <1>6, SameLinksConsistent DEF Good
<1>8. k1.stateList[t] = NoList /\ k2.stateList[t] = NoList
  BY <1>1, <1>5, <1>6 DEF Kernel, SameLinks
<1>9. /\ Unready \subseteq StateLists /\ xTasksWaitingTermination \notin Unready
      /\ Unready \cap Priorities = {}
  BY ListNames, TasksAssumption
     DEF xSuspendedTaskList, xDelayedTaskList1, xDelayedTaskList2,
         xTasksWaitingTermination, Priorities
<1>10. /\ k.delayed \in Unready /\ pxOverflowDelayedTaskList(k) \in Unready
       /\ xSuspendedTaskList \in Unready
  BY <1>1 DEF Kernel, pxOverflowDelayedTaskList
<1> HIDE DEF Unready
<1>11. ASSUME NEW l \in Unready, NEW q,
              \/ q = AppendState(k1, l, t)
              \/ q = InsertState(k2, l, t)
       PROVE  /\ q \in Kernel /\ Sound(q) /\ SameControl(k, q)
              /\ q.stateList = [k.stateList EXCEPT ![t] = l]
              /\ q.eventList = k.eventList
              /\ k.stateList[t] # xTasksWaitingTermination => Ending(q) = Ending(k)
  <2>1. StateLinked(k1, l, t, q) \/ StateLinked(k2, l, t, q)
    <3>1. l \in StateLists
      BY <1>9
    <3>2. CASE q = AppendState(k1, l, t)
      BY <3>1, <3>2, <1>1, <1>5, <1>8, AppendStateGood
    <3>3. CASE q = InsertState(k2, l, t)
      BY <3>1, <3>3, <1>1, <1>7, <1>8, InsertStateGood
    <3>4. QED BY <1>11, <3>2, <3>3
  <2>2. /\ Good(q) /\ SameControl(k, q)
        /\ q.stateList = [k1.stateList EXCEPT ![t] = l]
        /\ q.eventList = k.eventList /\ q.topReady = k.topReady
        /\ Ending(q) = Ending(k1)
    BY <2>1, <1>5, <1>6, <1>7, <1>9 DEF StateLinked, SameControl, SameLinks
  <2>3. q.stateList = [k.stateList EXCEPT ![t] = l]
    BY <2>2, <1>1, <1>5 DEF Kernel
  <2>4. Orderly(q)
    <3>1. q.prio = k.prio /\ l \notin Priorities
      BY <2>2, <1>9 DEF SameControl
    <3>2. QED BY <3>1, <2>2, <2>3, <1>1 DEF Orderly, Kernel
  <2>5. QED BY <2>2, <2>3, <2>4, <1>5 DEF Sound, Good
<1>12. \/ r = AppendState(k1, xSuspendedTaskList, t)
       \/ r = InsertState(k2, pxOverflowDelayedTaskList(k), t)
       \/ r = [InsertState(k2, k.delayed, t) EXCEPT
                 !.nextUnblock = IF wake < @ THEN wake ELSE @]
  BY DEF prvAddCurrentTaskToDelayedList, k0, k1, k2, wake
<1> DEFINE Goal(q) ==
             /\ Sound(q) /\ SameControl(k, q)
             /\ q.stateList[t] \in Unready
             /\ \A u \in Tasks \ {t} : q.stateList[u] = k.stateList[u]
             /\ q.eventList = k.eventList
             /\ k.stateList[t] # xTasksWaitingTermination => Ending(q) = Ending(k)
<1> HIDE DEF r
<1>13. ASSUME r = AppendState(k1, xSuspendedTaskList, t) PROVE Goal(r)
  <2>1. /\ Sound(r) /\ SameControl(k, r)
        /\ r.stateList = [k.stateList EXCEPT ![t] = xSuspendedTaskList]
        /\ r.eventList = k.eventList
        /\ k.stateList[t] # xTasksWaitingTermination => Ending(r) = Ending(k)
    BY <1>10, <1>11, <1>13
  <2>2. Goal(r)
    BY <2>1, <1>1, <1>10 DEF Kernel
  <2>3. QED BY <2>2
<1>14. ASSUME r = InsertState(k2, pxOverflowDelayedTaskList(k), t) PROVE Goal(r)
  <2>1. /\ Sound(r) /\ SameControl(k, r)
        /\ r.stateList = [k.stateList EXCEPT ![t] = pxOverflowDelayedTaskList(k)]
        /\ r.eventList = k.eventList
        /\ k.stateList[t] # xTasksWaitingTermination => Ending(r) = Ending(k)
    BY <1>10, <1>11, <1>14
  <2>2. Goal(r)
    BY <2>1, <1>1, <1>10 DEF Kernel
  <2>3. QED BY <2>2
<1>15. ASSUME r = [InsertState(k2, k.delayed, t) EXCEPT
                     !.nextUnblock = IF wake < @ THEN wake ELSE @]
       PROVE  Goal(r)
  <2> DEFINE q == InsertState(k2, k.delayed, t)
  <2>1. /\ q \in Kernel /\ Sound(q) /\ SameControl(k, q)
        /\ q.stateList = [k.stateList EXCEPT ![t] = k.delayed]
        /\ q.eventList = k.eventList
        /\ k.stateList[t] # xTasksWaitingTermination => Ending(q) = Ending(k)
    BY <1>10, <1>11
  <2> HIDE DEF q, r
  <2>2. r = [q EXCEPT !.nextUnblock = IF wake < @ THEN wake ELSE @]
    BY <1>15 DEF q
  <2>3. r \in Kernel /\ SameControl(q, r) /\ SameLinks(q, r)
    BY <2>1, <2>2, <1>2, ZenonT(60) DEF Kernel, SameControl, SameLinks
  <2>4. Sound(r) /\ Ending(r) = Ending(q)
    BY <2>1, <2>3, SameLinksSound DEF SameControl
  <2>5. /\ SameControl(k, r)
        /\ r.stateList = [k.stateList EXCEPT ![t] = k.delayed]
        /\ r.eventList = k.eventList
    BY <2>1, <2>3 DEF SameControl, SameLinks
  <2>6. Goal(r)
    BY <2>1, <2>4, <2>5, <1>1, <1>10 DEF Kernel
  <2>7. QED BY <2>6
<1>16. Goal(r)
  BY <1>12, <1>13, <1>14, <1>15
<1>17. QED BY <1>16 DEF Unready, r
-----------------------------------------------------------------------------
(* The context switch, and suspending and resuming the scheduler.          *)

\* A context switch selects a task, moves no item and lowers uxTopReadyPriority
\* no further than the ready tasks allow.
LEMMA SwitchContextSound ==
  ASSUME NEW k, Sound(k), k.current \in Tasks
  PROVE  LET r == vTaskSwitchContext(k)
         IN  /\ Sound(r) /\ r.current \in Tasks
             /\ k.suspended # 0 => r.current = k.current
             /\ SameControl([k EXCEPT !.current = r.current], r)
             /\ r.stateList = k.stateList /\ r.eventList = k.eventList
             /\ Ending(r) = Ending(k)
<1> DEFINE r == vTaskSwitchContext(k)
<1>1. k \in Kernel /\ Good(k) /\ Orderly(k)
  BY DEF Sound, Good
<1>2. CASE k.suspended # 0
  <2>1. r = [k EXCEPT !.yieldPending = TRUE]
    BY <1>2 DEF vTaskSwitchContext
  <2> HIDE DEF r
  <2>2. r \in Kernel /\ SameControl(k, r) /\ SameLinks(k, r)
    BY <2>1, <1>1, ZenonT(60) DEF Kernel, SameControl, SameLinks
  <2>3. Sound(r) /\ Ending(r) = Ending(k)
    BY <2>2, SameLinksSound DEF SameControl
  <2>4. SameControl([k EXCEPT !.current = r.current], r)
    BY <2>2, <1>1 DEF SameControl, Kernel
  <2>5. QED BY <2>2, <2>3, <2>4 DEF SameControl, SameLinks, r
<1>3. CASE k.suspended = 0
  <2> DEFINE y == [k EXCEPT !.yieldPending = FALSE]
  <2>1. y \in Kernel /\ SameControl(k, y) /\ SameLinks(k, y)
    BY <1>1, ZenonT(60) DEF Kernel, SameControl, SameLinks
  <2>2. r = taskSELECT_HIGHEST_PRIORITY_TASK(y)
    BY <1>3 DEF vTaskSwitchContext
  <2> HIDE DEF y, r
  <2>3. Sound(y) /\ Ending(y) = Ending(k) /\ Good(y) /\ Orderly(y)
    BY <2>1, SameLinksSound DEF SameControl, Sound
  <2>4. CASE ~ \E p \in Priorities : IsTopPriority(y, p)
    <3>1. r = configASSERT(y, FALSE)
      BY <2>2, <2>4 DEF taskSELECT_HIGHEST_PRIORITY_TASK
    <3>2. Good(r) /\ SameControl(y, r) /\ SameLinks(y, r)
      BY <3>1, <2>3, AssertGood
    <3>3. Sound(r) /\ Ending(r) = Ending(k)
      BY <3>2, <2>3, SameLinksSound DEF SameControl, Good
    <3>4. SameControl([k EXCEPT !.current = r.current], r)
      BY <3>2, <2>1, <1>1 DEF SameControl, Kernel
    <3>5. QED BY <3>2, <3>3, <3>4, <2>1, <1>3 DEF SameControl, SameLinks, r
  <2>5. CASE \E p \in Priorities : IsTopPriority(y, p)
    <3> DEFINE p == CHOOSE q \in Priorities : IsTopPriority(y, q)
               L == listNEXT_ENTRY(y.lists[p])
    <3>1. p \in Priorities /\ IsTopPriority(y, p)
      BY <2>5
    <3>2. r = [y EXCEPT !.lists[p] = L, !.current = L.items[L.idx],
                        !.topReady = p]
      BY <2>2, <2>5 DEF taskSELECT_HIGHEST_PRIORITY_TASK
    <3> HIDE DEF p
    <3>3. p \in Lists /\ y.lists[p] \in ListOf(Tasks)
      BY <3>1, <2>1, ListNames DEF Kernel, Lists
    <3>4. y.lists[p].items # << >>
      BY <3>1 DEF IsTopPriority, IsEmpty, listLIST_IS_EMPTY
    <3>5. /\ L \in ListOf(Tasks) /\ L.items = y.lists[p].items
          /\ L.items[L.idx] \in Tasks
      BY <3>3, <3>4, NextEntryIsItem
    <3> HIDE DEF L
    <3>6. r \in Kernel
      BY <3>1, <3>2, <3>5, <2>1, ZenonT(60) DEF Kernel
    <3>7. /\ SameControl([k EXCEPT !.current = r.current], r)
          /\ r.current = L.items[L.idx] /\ r.topReady = p
          /\ r.stateList = k.stateList /\ r.eventList = k.eventList
          /\ r.lists = [y.lists EXCEPT ![p] = L]
      BY <3>2, <2>1, <1>1 DEF Kernel, SameControl, SameLinks
    <3>8. \A l \in Lists : r.lists[l].items = y.lists[l].items
      BY <3>5, <3>7, <2>1 DEF Kernel
    <3>9. /\ \A l \in Lists : ItemsOf(r, l) = ItemsOf(y, l)
          /\ Ending(r) = Ending(k)
      BY <3>8, <2>3, ListNames DEF ItemsOf, Ending, LengthOf, Lists
    <3>10. r.stateList = y.stateList /\ r.eventList = y.eventList
           /\ r.prio = y.prio
      BY <3>7, <2>1, <1>1 DEF SameControl, SameLinks, Kernel
    <3>11. Consistent(r)
      BY <3>8, <3>9, <3>10, <2>3 DEF Good, Consistent, Lists
    <3>12. Orderly(r)
      <4>1. SUFFICES ASSUME NEW t \in Tasks, r.stateList[t] \in Priorities
                     PROVE  /\ r.stateList[t] = r.prio[t]
                            /\ r.stateList[t] <= r.topReady
        BY DEF Orderly
      <4>2. /\ y.stateList[t] = y.prio[t] /\ y.stateList[t] <= y.topReady
            /\ y.stateList[t] \in Priorities
        BY <4>1, <3>10, <2>3 DEF Orderly
      <4>3. ~IsEmpty(y, y.stateList[t])
        <5>1. t \in ItemsOf(y, y.stateList[t])
          BY <4>2, <2>3, ListNames DEF Good, Consistent
        <5>2. QED BY <5>1 DEF ItemsOf, ToSet, IsEmpty, listLIST_IS_EMPTY
      <4>4. ~(p < y.stateList[t])
        BY <4>2, <4>3, <3>1 DEF IsTopPriority
      <4>5. p \in Int /\ y.stateList[t] \in Int
        BY <4>2, <3>1, TasksAssumption DEF Priorities
      <4>6. QED BY <4>2, <4>4, <4>5, <3>7, <3>10
    <3>13. QED BY <3>5, <3>6, <3>7, <3>9, <3>11, <3>12, <1>3
               DEF Sound, Good, r
  <2>6. QED BY <2>4, <2>5
<1>4. QED BY <1>2, <1>3

LEMMA SuspendAllSound ==
  ASSUME NEW k, Sound(k)
  PROVE  LET r == vTaskSuspendAll(k)
         IN  /\ Sound(r)
             /\ SameControl([k EXCEPT !.suspended = @ + 1], r)
             /\ SameLinks(k, r)
             /\ Ending(r) = Ending(k)
<1> DEFINE r == vTaskSuspendAll(k)
<1>1. k \in Kernel
  BY DEF Sound, Good
<1>2. r = [k EXCEPT !.suspended = @ + 1]
  BY DEF vTaskSuspendAll
<1> HIDE DEF r
<1>3. /\ r \in Kernel /\ SameLinks(k, r) /\ r.prio = k.prio
      /\ SameControl([k EXCEPT !.suspended = @ + 1], r)
  BY <1>1, <1>2, SMTT(60) DEF Kernel, SameControl, SameLinks
<1>4. QED BY <1>3, SameLinksSound DEF r

LEMMA ResumeAllSound ==
  ASSUME NEW k, Sound(k), k.current \in Tasks, k.suspended > 0
  PROVE  LET r == xTaskResumeAll(k)
         IN  /\ Sound(r)
             /\ SameControl([k EXCEPT !.suspended = @ - 1, !.stage = r.stage], r)
             /\ \/ r.stage = k.stage
                \/ r.stage = "drain" /\ r.suspended = 0
             /\ SameLinks(k, r)
             /\ Ending(r) = Ending(k)
<1> DEFINE a == configASSERT(k, k.suspended > 0)
           k1 == [a EXCEPT !.suspended = @ - 1, !.yielded[k.current] = FALSE]
           r == xTaskResumeAll(k)
<1>1. k \in Kernel /\ k.suspended \in Nat
  BY DEF Sound, Good, Kernel
<1>2. Good(a) /\ SameControl(k, a) /\ SameLinks(k, a)
  BY AssertGood DEF Sound
<1> HIDE DEF a
<1>3. /\ k1 \in Kernel /\ SameLinks(k, k1) /\ k1.stage = k.stage
      /\ SameControl([k EXCEPT !.suspended = @ - 1], k1)
  <2>1. a \in Kernel /\ a.suspended - 1 \in Nat
    BY <1>1, <1>2 DEF Good, SameControl
  <2>2. QED BY <2>1, <1>1, <1>2, ZenonT(60) DEF Kernel, SameControl, SameLinks
<1>4. \/ r = k1
      \/ k1.suspended = 0 /\ r = [k1 EXCEPT !.stage = "drain", !.moved = FALSE]
  BY DEF xTaskResumeAll, a
<1> HIDE DEF k1, r
<1>5. /\ r \in Kernel /\ SameLinks(k, r)
      /\ \/ r.stage = k.stage
         \/ r.stage = "drain" /\ r.suspended = 0
      /\ r.current = k1.current /\ r.running = k1.running
      /\ r.suspended = k1.suspended /\ r.pendedTicks = k1.pendedTicks
      /\ r.numDeleted = k1.numDeleted /\ r.prio = k1.prio
  <2>1. CASE r = k1
    BY <2>1, <1>3
  <2>2. CASE /\ k1.suspended = 0
             /\ r = [k1 EXCEPT !.stage = "drain", !.moved = FALSE]
    <3>1. k1 \in Kernel /\ SameLinks(k, k1)
      BY <1>3
    <3>2. r = [k1 EXCEPT !.stage = "drain", !.moved = FALSE]
      BY <2>2
    <3>3. /\ r \in Kernel /\ SameLinks(k1, r) /\ r.stage = "drain"
          /\ r.current = k1.current /\ r.running = k1.running
          /\ r.suspended = k1.suspended /\ r.pendedTicks = k1.pendedTicks
          /\ r.numDeleted = k1.numDeleted /\ r.prio = k1.prio
      BY <3>1, <3>2, ZenonT(60) DEF Kernel, Stages, SameLinks
    <3>4. QED BY <2>2, <3>1, <3>3 DEF SameLinks
  <2>3. QED BY <1>4, <2>1, <2>2
<1>6. SameControl([k EXCEPT !.suspended = @ - 1, !.stage = r.stage], r)
  BY <1>1, <1>3, <1>5 DEF SameControl, Kernel
<1>7. r.prio = k.prio
  BY <1>1, <1>6 DEF SameControl, Kernel
<1>8. QED BY <1>5, <1>6, <1>7, SameLinksSound DEF r

\* A task that has been unlinked from its list becomes ready.
LEMMA MakeReadySound ==
  ASSUME NEW k, Sound(k), NEW t \in Tasks, NEW u, Good(u), SameControl(k, u),
         u.stateList = [k.stateList EXCEPT ![t] = NoList],
         u.topReady = k.topReady
  PROVE  LET r == prvAddTaskToReadyList(u, t)
         IN  /\ Sound(r) /\ SameControl(k, r)
             /\ r.stateList = [k.stateList EXCEPT ![t] = k.prio[t]]
             /\ r.eventList = u.eventList
             /\ Ending(r) = Ending(u)
<1> DEFINE r == prvAddTaskToReadyList(u, t)
<1>1. /\ k.stateList \in [Tasks -> StateLists \cup {NoList}]
      /\ k.prio \in [Tasks -> Priorities] /\ k.topReady \in Priorities
      /\ Orderly(k)
  BY DEF Sound, Good, Kernel
<1>2. u.stateList[t] = NoList
  BY <1>1
<1>3. /\ Good(r) /\ SameControl(u, r)
      /\ r.stateList = [u.stateList EXCEPT ![t] = u.prio[t]]
      /\ r.eventList = u.eventList
      /\ r.topReady >= u.topReady /\ r.topReady >= u.prio[t]
      /\ Ending(r) = Ending(u)
  BY <1>2, ReadyGood, ZenonT(60)
<1> HIDE DEF r
<1>4. SameControl(k, r) /\ r.prio = k.prio /\ u.prio = k.prio
  BY <1>3 DEF SameControl
<1>5. r.stateList = [k.stateList EXCEPT ![t] = k.prio[t]]
  BY <1>1, <1>3, <1>4
<1>6. Orderly(r)
  <2>1. SUFFICES ASSUME NEW x \in Tasks, r.stateList[x] \in Priorities
                 PROVE  /\ r.stateList[x] = r.prio[x]
                        /\ r.stateList[x] <= r.topReady
    BY DEF Orderly
  <2>2. \A p \in Priorities : p \in Int
    BY TasksAssumption DEF Priorities
  <2>3. r.topReady \in Int /\ k.topReady \in Int
    BY <1>1, <1>3, <2>2 DEF Good, Kernel
  <2>4. CASE x = t
    BY <2>2, <2>3, <2>4, <1>1, <1>3, <1>4, <1>5
  <2>5. CASE x # t
    <3>1. r.stateList[x] = k.stateList[x]
      BY <2>5, <1>1, <1>5
    <3>2. k.stateList[x] = k.prio[x] /\ k.stateList[x] <= k.topReady
      BY <3>1, <2>1, <1>1 DEF Orderly
    <3>3. QED BY <3>1, <3>2, <2>1, <2>2, <2>3, <1>3, <1>4
  <2>6. QED BY <2>4, <2>5
<1>7. QED BY <1>3, <1>4, <1>5, <1>6 DEF Sound, r

\* Comparing the priorities of two tasks.
\* A task is moved from whatever list it is in to its ready list.
LEMMA MoveToReadySound ==
  ASSUME NEW k, Sound(k), NEW t \in Tasks, k.stateList[t] # xTasksWaitingTermination
  PROVE  LET r == prvAddTaskToReadyList(RemoveState(k, t), t)
         IN  /\ Sound(r) /\ SameControl(k, r)
             /\ r.stateList = [k.stateList EXCEPT ![t] = k.prio[t]]
             /\ r.eventList = k.eventList
             /\ Ending(r) = Ending(k)
<1> DEFINE u == RemoveState(k, t)
<1>1. Good(k)
  BY DEF Sound
<1>2. /\ Good(u) /\ SameControl(k, u)
      /\ u.stateList = [k.stateList EXCEPT ![t] = NoList]
      /\ u.eventList = k.eventList /\ u.topReady = k.topReady
      /\ Ending(u) = Ending(k)
  BY <1>1, RemoveStateGood
<1> HIDE DEF u
<1> DEFINE r == prvAddTaskToReadyList(u, t)
<1>3. /\ Sound(r) /\ SameControl(k, r)
      /\ r.stateList = [k.stateList EXCEPT ![t] = k.prio[t]]
      /\ r.eventList = u.eventList /\ Ending(r) = Ending(u)
  BY <1>2, MakeReadySound
<1> HIDE DEF r
<1>4. QED BY <1>2, <1>3 DEF r, u

LEMMA PriorityComparison ==
  ASSUME NEW k \in Kernel, NEW t \in Tasks, NEW u \in Tasks
  PROVE  /\ (k.prio[t] > k.prio[u]) \in BOOLEAN
         /\ (k.prio[t] < k.prio[u]) \in BOOLEAN
         /\ (k.prio[t] <= k.prio[u]) \in BOOLEAN
OBVIOUS

\* xTaskResumeAll moves a task from xPendingReadyList to its ready list.
LEMMA MovePendingReadySound ==
  ASSUME NEW k, Sound(k), k.current \in Tasks, ~IsEmpty(k, xPendingReadyList)
  PROVE  LET r == MovePendingReady(k)
             t == HeadOf(k, xPendingReadyList)
         IN  /\ Sound(r) /\ SameControl(k, r)
             /\ t \in Tasks /\ k.eventList[t] = xPendingReadyList
             /\ r.stateList = [k.stateList EXCEPT ![t] = k.prio[t]]
             /\ r.eventList = [k.eventList EXCEPT ![t] = NoList]
             /\ k.stateList[t] # xTasksWaitingTermination =>
                  Ending(r) = Ending(k)
<1> DEFINE t  == HeadOf(k, xPendingReadyList)
           e  == RemoveEvent(k, t)
           u  == RemoveState(e, t)
           k1 == prvAddTaskToReadyList(u, t)
           m  == [k1 EXCEPT !.moved = TRUE]
           b  == k.prio[t] > k.prio[k.current]
<1>1. Good(k) /\ k \in Kernel
  BY DEF Sound, Good
<1>2. t \in Tasks /\ k.eventList[t] = xPendingReadyList
  BY <1>1, ListNames, HeadIsLinked DEF Lists
<1> HIDE DEF t
<1>3. /\ Good(e) /\ SameControl(k, e) /\ e.stateList = k.stateList
      /\ e.eventList = [k.eventList EXCEPT ![t] = NoList]
      /\ e.topReady = k.topReady /\ Ending(e) = Ending(k)
  BY <1>1, <1>2, RemoveEventGood
<1> HIDE DEF e
<1>4. /\ Good(u) /\ SameControl(k, u)
      /\ u.stateList = [k.stateList EXCEPT ![t] = NoList]
      /\ u.eventList = [k.eventList EXCEPT ![t] = NoList]
      /\ u.topReady = k.topReady
      /\ k.stateList[t] # xTasksWaitingTermination => Ending(u) = Ending(k)
  BY <1>2, <1>3, RemoveStateGood, SMTT(60) DEF SameControl
<1> HIDE DEF u
<1>5. /\ Sound(k1) /\ SameControl(k, k1)
      /\ k1.stateList = [k.stateList EXCEPT ![t] = k.prio[t]]
      /\ k1.eventList = u.eventList /\ Ending(k1) = Ending(u)
  BY <1>2, <1>4, MakeReadySound
<1> HIDE DEF k1
<1>6. m \in Kernel /\ SameControl(k1, m) /\ SameLinks(k1, m)
  BY <1>5, ZenonT(60) DEF Sound, Good, Kernel, SameControl, SameLinks
<1> HIDE DEF m
<1>7. Sound(m) /\ Ending(m) = Ending(k1)
  BY <1>5, <1>6, SameLinksSound DEF SameControl
<1>8. b \in BOOLEAN
  BY <1>1, <1>2, PriorityComparison
<1>9. MovePendingReady(k) = PendYieldIf(m, b)
  BY DEF MovePendingReady, m, k1, u, e, t
<1> HIDE DEF b
<1>10. LET r == PendYieldIf(m, b)
       IN  Sound(r) /\ SameControl(m, r) /\ SameLinks(m, r) /\ Ending(r) = Ending(m)
  BY <1>7, <1>8, YieldSound
<1>11. QED BY <1>2, <1>4, <1>5, <1>6, <1>7, <1>9, <1>10
           DEF SameControl, SameLinks, t

\* The changes of stage of xTaskResumeAll move no item.
LEMMA EndPendingReadySound ==
  ASSUME NEW k, Sound(k)
  PROVE  LET r == EndPendingReady(k)
         IN  /\ Sound(r) /\ SameControl([k EXCEPT !.stage = "ticks"], r)
             /\ SameLinks(k, r) /\ Ending(r) = Ending(k)
<1> DEFINE q == IF k.moved THEN prvResetNextTaskUnblockTime(k) ELSE k
           r == EndPendingReady(k)
<1>1. k \in Kernel
  BY DEF Sound, Good
<1>2. Sound(q) /\ SameControl(k, q) /\ SameLinks(k, q) /\ Ending(q) = Ending(k)
  <2>1. CASE k.moved
    BY <2>1, ResetUnblockTimeSound
  <2>2. CASE ~k.moved
    BY <2>2 DEF SameControl, SameLinks
  <2>3. QED BY <2>1, <2>2
<1>3. r = [q EXCEPT !.stage = "ticks", !.moved = FALSE]
  BY DEF EndPendingReady
<1> HIDE DEF q, r
<1>4. q \in Kernel
  BY <1>2 DEF Sound, Good
<1>5. /\ r \in Kernel /\ SameLinks(q, r) /\ r.prio = q.prio
      /\ SameControl([q EXCEPT !.stage = "ticks"], r)
  BY <1>3, <1>4, ZenonT(60) DEF Kernel, Stages, SameControl, SameLinks
<1>6. Sound(r) /\ Ending(r) = Ending(q)
  BY <1>2, <1>5, SameLinksSound
<1>7. SameControl([k EXCEPT !.stage = "ticks"], r) /\ SameLinks(k, r)
  BY <1>1, <1>2, <1>4, <1>5, ZenonT(60) DEF Kernel, SameControl, SameLinks
<1>8. QED BY <1>2, <1>6, <1>7 DEF r

LEMMA EndResumeAllSound ==
  ASSUME NEW k, Sound(k), k.current \in Tasks
  PROVE  LET r == EndResumeAll(k)
         IN  /\ Sound(r) /\ SameControl([k EXCEPT !.stage = "run"], r)
             /\ SameLinks(k, r) /\ Ending(r) = Ending(k)
<1> DEFINE q == YieldIf(k, k.yieldPending)
           b == k.yieldPending
           r == EndResumeAll(k)
<1>1. k \in Kernel /\ b \in BOOLEAN
  BY DEF Sound, Good, Kernel
<1>2. Sound(q) /\ SameControl(k, q) /\ SameLinks(k, q) /\ Ending(q) = Ending(k)
  BY <1>1, YieldSound
<1>3. r = [q EXCEPT !.stage = "run", !.yielded[k.current] = b]
  BY DEF EndResumeAll
<1> HIDE DEF b, q, r
<1>4. q \in Kernel
  BY <1>2 DEF Sound, Good
<1>5. /\ r \in Kernel /\ SameLinks(q, r) /\ r.prio = q.prio
      /\ SameControl([q EXCEPT !.stage = "run"], r)
  BY <1>1, <1>3, <1>4, ZenonT(60) DEF Kernel, Stages, SameControl, SameLinks
<1>6. Sound(r) /\ Ending(r) = Ending(q)
  BY <1>2, <1>5, SameLinksSound
<1>7. SameControl([k EXCEPT !.stage = "run"], r) /\ SameLinks(k, r)
  BY <1>1, <1>2, <1>4, <1>5, ZenonT(60) DEF Kernel, SameControl, SameLinks
<1>8. QED BY <1>2, <1>6, <1>7 DEF r
-----------------------------------------------------------------------------
(* The tick.                                                               *)

\* What a step of xTaskIncrementTick leaves alone.
SameTasks(k, r) ==
  /\ r.current = k.current
  /\ r.running = k.running
  /\ r.suspended = k.suspended
  /\ r.numDeleted = k.numDeleted
  /\ r.prio = k.prio

\* While a pended tick is processed it is still counted.
TickCounted(k) == k.stage = "unblock" => k.pendedTicks > 0

Unblocking == {"unblock", "unblockISR"}

LEMMA EndIncrementTickSound ==
  ASSUME NEW k, Sound(k), k.current \in Tasks, TickCounted(k),
         k.stage \in Unblocking
  PROVE  LET r == EndIncrementTick(k)
         IN  /\ Sound(r) /\ SameTasks(k, r) /\ r.stage \in {"run", "ticks"}
             /\ SameLinks(k, r) /\ Ending(r) = Ending(k)
<1> DEFINE b  == \/ k.switchReq
                 \/ LengthOf(k, k.prio[k.current]) > 1
                 \/ k.yieldPending
           k1 == [k EXCEPT !.switchReq = FALSE]
           r  == EndIncrementTick(k)
<1>1. k \in Kernel
  BY DEF Sound, Good
<1>2. b \in BOOLEAN
  OBVIOUS
<1>3. k1 \in Kernel /\ SameControl(k, k1) /\ SameLinks(k, k1)
  BY <1>1, ZenonT(60) DEF Kernel, SameControl, SameLinks
<1>4. r = IF k.stage = "unblockISR"
            THEN [YieldIf(k1, b) EXCEPT !.stage = "run"]
            ELSE [PendYieldIf(k1, b) EXCEPT !.stage = "ticks",
                                            !.pendedTicks = @ - 1]
  BY DEF EndIncrementTick
<1> HIDE DEF b, k1, r
<1>5. Sound(k1) /\ Ending(k1) = Ending(k)
  BY <1>3, SameLinksSound DEF SameControl
<1>6. CASE k.stage = "unblockISR"
  <2> DEFINE q == YieldIf(k1, b)
  <2>1. Sound(q) /\ SameControl(k1, q) /\ SameLinks(k1, q) /\ Ending(q) = Ending(k1)
    BY <1>2, <1>5, YieldSound
  <2>2. r = [q EXCEPT !.stage = "run"]
    BY <1>4, <1>6
  <2> HIDE DEF q
  <2>3. q \in Kernel
    BY <2>1 DEF Sound, Good
  <2>4. /\ r \in Kernel /\ SameLinks(q, r) /\ r.stage = "run"
        /\ SameTasks(q, r) /\ r.prio = q.prio
    BY <2>2, <2>3, SMTT(60) DEF Kernel, Stages, SameTasks, SameLinks
  <2>5. Sound(r) /\ Ending(r) = Ending(q)
    BY <2>1, <2>4, SameLinksSound
  <2>6. SameTasks(k, r) /\ SameLinks(k, r)
    BY <1>3, <2>1, <2>4 DEF SameControl, SameLinks, SameTasks
  <2>7. QED BY <1>5, <2>1, <2>4, <2>5, <2>6 DEF r
<1>7. CASE k.stage = "unblock"
  <2> DEFINE q == PendYieldIf(k1, b)
  <2>1. Sound(q) /\ SameControl(k1, q) /\ SameLinks(k1, q) /\ Ending(q) = Ending(k1)
    BY <1>2, <1>5, YieldSound
  <2>2. r = [q EXCEPT !.stage = "ticks", !.pendedTicks = @ - 1]
    BY <1>4, <1>7
  <2> HIDE DEF q
  <2>3. q \in Kernel /\ q.pendedTicks = k.pendedTicks
    BY <2>1, <1>3 DEF Sound, Good, SameControl
  <2>4. q.pendedTicks - 1 \in Nat
    BY <2>3, <1>1, <1>7 DEF Kernel, TickCounted
  <2>5. /\ r \in Kernel /\ SameLinks(q, r) /\ r.stage = "ticks"
        /\ SameTasks(q, r) /\ r.prio = q.prio
    BY <2>2, <2>3, <2>4, ZenonT(60) DEF Kernel, Stages, SameTasks, SameLinks
  <2>6. Sound(r) /\ Ending(r) = Ending(q)
    BY <2>1, <2>5, SameLinksSound
  <2>7. SameTasks(k, r) /\ SameLinks(k, r)
    BY <1>3, <2>1, <2>5 DEF SameControl, SameLinks, SameTasks
  <2>8. QED BY <1>5, <2>1, <2>5, <2>6, <2>7 DEF r
<1>8. QED BY <1>6, <1>7 DEF Unblocking

\* xTaskIncrementTick up to its unblocking loop.
LEMMA IncrementTickSound ==
  ASSUME NEW k, Sound(k), k.current \in Tasks, NEW st \in Unblocking,
         st = "unblock" => k.pendedTicks > 0
  PROVE  LET r == IncrementTick(k, st)
         IN  /\ Sound(r) /\ SameTasks(k, r) /\ TickCounted(r)
             /\ SameLinks(k, r) /\ Ending(r) = Ending(k)
<1> DEFINE now == WrappingAdd(k.tick, 1)
           k1  == [k EXCEPT !.tick = now, !.stage = st]
           k2  == IF now = 0 THEN taskSWITCH_DELAYED_LISTS(k1) ELSE k1
           r   == IncrementTick(k, st)
<1>1. k \in Kernel
  BY DEF Sound, Good
<1>2. now \in Ticks
  <2>1. 1 \in Ticks
    BY TasksAssumption DEF Ticks
  <2>2. QED BY <1>1, <2>1, WrappingAddTicks DEF Kernel
<1> HIDE DEF now
<1>3. /\ k1 \in Kernel /\ SameLinks(k, k1) /\ k1.stage = st
      /\ SameTasks(k, k1) /\ k1.pendedTicks = k.pendedTicks
  BY <1>1, <1>2, ZenonT(60) DEF Kernel, Stages, Unblocking, SameTasks, SameLinks
<1> HIDE DEF k1
<1>4. Sound(k1) /\ Ending(k1) = Ending(k)
  BY <1>3, SameLinksSound DEF SameTasks
<1>5. Sound(k2) /\ SameControl(k1, k2) /\ SameLinks(k1, k2) /\ Ending(k2) = Ending(k1)
  <2>1. CASE now = 0
    BY <2>1, <1>4, SwitchDelayedListsSound
  <2>2. CASE now # 0
    BY <2>2, <1>4 DEF SameControl, SameLinks
  <2>3. QED BY <2>1, <2>2
<1>6. r = k2 \/ r = EndIncrementTick(k2)
  BY DEF IncrementTick, k1, now
<1> HIDE DEF k2, r
<1>7. /\ k2.stage = st /\ SameLinks(k, k2) /\ Ending(k2) = Ending(k)
      /\ SameTasks(k, k2) /\ k2.pendedTicks = k.pendedTicks
  BY <1>3, <1>4, <1>5 DEF SameControl, SameTasks, SameLinks
<1>8. CASE r = k2
  BY <1>5, <1>7, <1>8 DEF TickCounted, r
<1>9. CASE r = EndIncrementTick(k2)
  <2>1. TickCounted(k2) /\ k2.stage \in Unblocking /\ k2.current \in Tasks
    BY <1>7 DEF TickCounted, SameTasks
  <2>2. /\ Sound(r) /\ SameTasks(k2, r) /\ r.stage \in {"run", "ticks"}
        /\ SameLinks(k2, r) /\ Ending(r) = Ending(k2)
    BY <2>1, <1>5, <1>9, EndIncrementTickSound
  <2>3. SameTasks(k, r) /\ SameLinks(k, r)
    BY <1>7, <2>2 DEF SameTasks, SameLinks
  <2>4. QED BY <1>7, <2>2, <2>3 DEF TickCounted, r
<1>10. QED BY <1>6, <1>8, <1>9

\* A turn of the unblocking loop ends the tick or readies one delayed task.
\* A task moves only out of a delayed list into a ready list.
OnlyUnblocks(k, r) ==
  \A u \in Tasks :
    \/ r.stateList[u] = k.stateList[u] /\ r.eventList[u] = k.eventList[u]
    \/ /\ k.stateList[u] \in {xDelayedTaskList1, xDelayedTaskList2}
       /\ r.stateList[u] \in Priorities

LEMMA UnblockExpiredSound ==
  ASSUME NEW k, Sound(k), k.current \in Tasks, TickCounted(k),
         k.stage \in Unblocking
  PROVE  LET r == UnblockExpired(k)
         IN  /\ Sound(r) /\ SameTasks(k, r) /\ TickCounted(r)
             /\ Ending(r) = Ending(k)
             /\ OnlyUnblocks(k, r)
<1> DEFINE t == HeadOf(k, k.delayed)
           r == UnblockExpired(k)
<1>1. k \in Kernel /\ Good(k)
  BY DEF Sound, Good
<1>2. /\ k.delayed \in {xDelayedTaskList1, xDelayedTaskList2}
      /\ k.delayed \in StateLists /\ k.delayed \in Lists
  BY <1>1, ListNames DEF Kernel, Lists
<1>3. portMAX_DELAY \in Ticks
  BY TasksAssumption DEF Ticks
<1>4. ~IsEmpty(k, k.delayed) => t \in Tasks /\ k.stateList[t] = k.delayed
  BY <1>1, <1>2, HeadIsLinked
<1>5. \/ r = EndIncrementTick([k EXCEPT !.nextUnblock = portMAX_DELAY])
      \/ /\ ~IsEmpty(k, k.delayed)
         /\ r = EndIncrementTick([k EXCEPT !.nextUnblock = k.wake[t]])
      \/ /\ ~IsEmpty(k, k.delayed)
         /\ r = [prvAddTaskToReadyList(
                   RemoveEventIfLinked(RemoveState(k, t), t), t)
                 EXCEPT !.switchReq = @ \/ k.prio[t] > k.prio[k.current]]
  BY DEF UnblockExpired
<1> HIDE DEF t, r
<1>6. ASSUME NEW n \in Ticks, r = EndIncrementTick([k EXCEPT !.nextUnblock = n])
      PROVE  /\ Sound(r) /\ SameTasks(k, r) /\ TickCounted(r)
             /\ Ending(r) = Ending(k)
             /\ r.stateList = k.stateList /\ r.eventList = k.eventList
  <2> DEFINE q == [k EXCEPT !.nextUnblock = n]
  <2>1. q \in Kernel /\ SameControl(k, q) /\ SameLinks(k, q)
    BY <1>1 DEF Kernel, SameControl, SameLinks
  <2> HIDE DEF q
  <2>2. Sound(q) /\ Ending(q) = Ending(k)
    BY <2>1, SameLinksSound DEF SameControl
  <2>3. q.current \in Tasks /\ TickCounted(q) /\ q.stage \in Unblocking
    BY <2>1 DEF SameControl, TickCounted
  <2>4. /\ Sound(r) /\ SameTasks(q, r) /\ r.stage \in {"run", "ticks"}
        /\ SameLinks(q, r) /\ Ending(r) = Ending(q)
    BY <1>6, <2>2, <2>3, EndIncrementTickSound DEF q
  <2>5. SameTasks(k, r)
    BY <2>1, <2>4 DEF SameTasks, SameControl
  <2>6. QED BY <2>1, <2>2, <2>4, <2>5 DEF SameLinks, TickCounted
<1>7. CASE r = EndIncrementTick([k EXCEPT !.nextUnblock = portMAX_DELAY])
  BY <1>3, <1>6, <1>7 DEF r, OnlyUnblocks
<1>8. CASE /\ ~IsEmpty(k, k.delayed)
           /\ r = EndIncrementTick([k EXCEPT !.nextUnblock = k.wake[t]])
  <2>1. k.wake[t] \in Ticks
    BY <1>1, <1>4, <1>8 DEF Kernel
  <2>2. QED BY <1>6, <1>8, <2>1 DEF r, OnlyUnblocks
<1>9. CASE /\ ~IsEmpty(k, k.delayed)
           /\ r = [prvAddTaskToReadyList(
                     RemoveEventIfLinked(RemoveState(k, t), t), t)
                   EXCEPT !.switchReq = @ \/ k.prio[t] > k.prio[k.current]]
  <2> DEFINE u == RemoveState(k, t)
             e == RemoveEventIfLinked(u, t)
             q == prvAddTaskToReadyList(e, t)
             b == q.switchReq \/ k.prio[t] > k.prio[k.current]
  <2>1. /\ t \in Tasks /\ k.stateList[t] = k.delayed
        /\ k.stateList[t] # xTasksWaitingTermination
    BY <1>2, <1>4, <1>9
       DEF xDelayedTaskList1, xDelayedTaskList2, xTasksWaitingTermination
  <2>2. /\ Good(u) /\ SameControl(k, u)
        /\ u.stateList = [k.stateList EXCEPT ![t] = NoList]
        /\ u.eventList = k.eventList /\ u.topReady = k.topReady
        /\ Ending(u) = Ending(k)
    BY <1>1, <2>1, RemoveStateGood
  <2> HIDE DEF u
  <2>3. /\ Good(e) /\ SameControl(k, e)
        /\ e.stateList = [k.stateList EXCEPT ![t] = NoList]
        /\ e.eventList = [k.eventList EXCEPT ![t] = NoList]
        /\ e.topReady = k.topReady /\ Ending(e) = Ending(k)
    <3>1. /\ Good(e) /\ SameControl(u, e) /\ e.stateList = u.stateList
          /\ e.eventList = [u.eventList EXCEPT ![t] = NoList]
          /\ e.topReady = u.topReady /\ Ending(e) = Ending(u)
      BY <2>1, <2>2, RemoveEventIfLinkedGood
    <3>2. QED BY <2>2, <3>1 DEF SameControl
  <2> HIDE DEF e
  <2>4. /\ Sound(q) /\ SameControl(k, q)
        /\ q.stateList = [k.stateList EXCEPT ![t] = k.prio[t]]
        /\ q.eventList = [k.eventList EXCEPT ![t] = NoList]
        /\ Ending(q) = Ending(k)
    BY <2>1, <2>3, MakeReadySound
  <2>5. r = [q EXCEPT !.switchReq = b]
    BY <1>9 DEF q, e, u
  <2> HIDE DEF q
  <2>6. q \in Kernel /\ b \in BOOLEAN
    BY <2>4 DEF Sound, Good
  <2> HIDE DEF b
  <2>7. r \in Kernel /\ SameControl(q, r) /\ SameLinks(q, r)
    BY <2>5, <2>6, SMTT(60) DEF Kernel, SameControl, SameLinks
  <2>8. Sound(r) /\ Ending(r) = Ending(q)
    BY <2>4, <2>7, SameLinksSound DEF SameControl
  <2>9. SameTasks(k, r) /\ TickCounted(r)
    BY <2>4, <2>7 DEF SameTasks, SameControl, TickCounted
  <2>10. OnlyUnblocks(k, r)
    <3>1. /\ k.stateList \in [Tasks -> StateLists \cup {NoList}]
          /\ k.eventList \in [Tasks -> ItemLists \cup {NoList}]
          /\ k.prio[t] \in Priorities
      BY <1>1, <2>1 DEF Kernel
    <3>2. QED BY <3>1, <1>2, <2>1, <2>4, <2>7 DEF SameLinks, OnlyUnblocks
  <2>11. QED BY <2>4, <2>8, <2>9, <2>10 DEF r
<1>10. QED BY <1>5, <1>7, <1>8, <1>9 DEF r
-----------------------------------------------------------------------------
(* Creating tasks.                                                         *)

LEMMA InitialiseNewTaskSound ==
  ASSUME NEW k, Sound(k), NEW t \in Tasks, NEW p \in Priorities,
         k.stateList[t] = NoList, k.eventList[t] = NoList
  PROVE  LET r == prvInitialiseNewTask(k, t, p)
         IN  /\ Sound(r)
             /\ r.current = k.current /\ r.running = k.running
             /\ r.stage = k.stage /\ r.suspended = k.suspended
             /\ r.pendedTicks = k.pendedTicks /\ r.numDeleted = k.numDeleted
             /\ r.stateList = k.stateList /\ r.eventList = k.eventList
             /\ Ending(r) = Ending(k)
<1> DEFINE v == configMAX_PRIORITIES - p
           r == prvInitialiseNewTask(k, t, p)
<1>1. k \in Kernel /\ Consistent(k) /\ Orderly(k)
  BY DEF Sound, Good
<1>2. v \in 1..configMAX_PRIORITIES
  BY TasksAssumption DEF Priorities
<1>3. 0 \in 0..MaxNotifyValue /\ "notWaiting" \in NotifyStates
  BY TasksAssumption DEF NotifyStates
<1>4. r = [k EXCEPT !.prio[t] = p, !.basePrio[t] = p, !.mutexesHeld[t] = 0,
                    !.eventValue[t] = v, !.stateList[t] = NoList,
                    !.eventList[t] = NoList, !.notifyState[t] = "notWaiting",
                    !.notifyValue[t] = 0, !.delayAborted[t] = FALSE]
  BY DEF prvInitialiseNewTask
<1> HIDE DEF v, r
<1> DEFINE a == [k EXCEPT !.prio[t] = p, !.basePrio[t] = p,
                          !.mutexesHeld[t] = 0, !.eventValue[t] = v]
           b == [a EXCEPT !.stateList[t] = NoList, !.eventList[t] = NoList]
           c == [b EXCEPT !.notifyState[t] = "notWaiting",
                          !.notifyValue[t] = 0, !.delayAborted[t] = FALSE]
<1>5. r \in Kernel
  <2>1. a \in Kernel
    BY <1>1, <1>2, ZenonT(60) DEF Kernel
  <2>2. b \in Kernel
    <3> HIDE DEF a
    <3>1. QED BY <2>1, ZenonT(60) DEF Kernel
  <2>3. c \in Kernel
    <3> HIDE DEF b
    <3>1. QED BY <1>3, <2>2, ZenonT(60) DEF Kernel
  <2>4. r = c
    BY <1>1, <1>4 DEF Kernel
  <2>5. QED BY <2>3, <2>4
<1>6. /\ r.current = k.current /\ r.running = k.running
      /\ r.stage = k.stage /\ r.suspended = k.suspended
      /\ r.pendedTicks = k.pendedTicks /\ r.numDeleted = k.numDeleted
      /\ r.lists = k.lists /\ r.topReady = k.topReady
      /\ r.stateList = [k.stateList EXCEPT ![t] = NoList]
      /\ r.eventList = [k.eventList EXCEPT ![t] = NoList]
      /\ r.prio = [k.prio EXCEPT ![t] = p]
  BY <1>1, <1>4 DEF Kernel
<1>7. r.stateList = k.stateList /\ r.eventList = k.eventList
  BY <1>1, <1>6 DEF Kernel
<1>8. Consistent(r) /\ Ending(r) = Ending(k)
  BY <1>1, <1>6, <1>7, SameLinksConsistent DEF SameLinks
<1>9. Orderly(r)
  <2>1. NoList \notin Priorities
    BY ListNames DEF Lists
  <2>2. QED BY <2>1, <1>1, <1>6, <1>7 DEF Orderly, Kernel
<1>10. QED BY <1>5, <1>6, <1>7, <1>8, <1>9 DEF Sound, Good, r

LEMMA AddNewTaskSound ==
  ASSUME NEW k, Sound(k), NEW t \in Tasks, k.stateList[t] = NoList
  PROVE  LET r == prvAddNewTaskToReadyList(k, t)
         IN  /\ Sound(r)
             /\ r.current \in {k.current, t}
             /\ r.current \in Tasks
             /\ k.running /\ k.current \in Tasks => r.current = k.current
             /\ r.running = k.running
             /\ r.stage = k.stage /\ r.suspended = k.suspended
             /\ r.pendedTicks = k.pendedTicks /\ r.numDeleted = k.numDeleted
             /\ r.stateList = [k.stateList EXCEPT ![t] = k.prio[t]]
             /\ r.eventList = k.eventList
             /\ Ending(r) = Ending(k)
<1> DEFINE takes == \/ k.current = NoTask
                    \/ ~k.running /\ k.prio[k.current] <= k.prio[t]
           c == IF takes THEN t ELSE k.current
           n == k.numTasks + 1
           q == [k EXCEPT !.numTasks = n, !.current = c]
           r == prvAddNewTaskToReadyList(k, t)
<1>1. k \in Kernel /\ Good(k)
  BY DEF Sound, Good
<1>2. /\ c \in Tasks /\ c \in {k.current, t}
      /\ k.running /\ k.current \in Tasks => c = k.current
  BY <1>1, TasksAssumption DEF Kernel
<1>3. r = prvAddTaskToReadyList(q, t)
  BY DEF prvAddNewTaskToReadyList
<1> HIDE DEF c
<1>4. q \in Kernel
  <2>1. c \in Tasks /\ n \in Int
    BY <1>1, <1>2 DEF Kernel
  <2> HIDE DEF n
  <2>2. QED BY <1>1, <2>1, ZenonT(60) DEF Kernel
<1>5. /\ q \in Kernel /\ SameLinks(k, q)
      /\ q.current = c /\ q.running = k.running
      /\ q.stage = k.stage /\ q.suspended = k.suspended
      /\ q.pendedTicks = k.pendedTicks /\ q.numDeleted = k.numDeleted
      /\ q.prio = k.prio
  BY <1>1, <1>4 DEF Kernel, SameLinks
<1> HIDE DEF q, r
<1>6. Sound(q) /\ Ending(q) = Ending(k)
  BY <1>5, SameLinksSound
<1>7. q.stateList[t] = NoList /\ SameControl(q, q)
  BY <1>5 DEF SameLinks, SameControl
<1>8. q.stateList = [q.stateList EXCEPT ![t] = NoList]
  BY <1>5, <1>7 DEF Kernel
<1>9. /\ Sound(r) /\ SameControl(q, r)
      /\ r.stateList = [q.stateList EXCEPT ![t] = q.prio[t]]
      /\ r.eventList = q.eventList
      /\ Ending(r) = Ending(q)
  BY <1>3, <1>6, <1>7, <1>8, MakeReadySound DEF Sound
<1>10. QED BY <1>2, <1>5, <1>6, <1>9 DEF SameControl, SameLinks, r
=============================================================================

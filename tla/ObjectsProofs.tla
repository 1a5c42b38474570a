--------------------------- MODULE ObjectsProofs ---------------------------
(***************************************************************************)
(* Invariants of ObjectsSpec, for every set of tasks, values, kinds and    *)
(* addresses: no block of memory is lost or given out twice, and what a    *)
(* value owns is alive.                                                    *)
(***************************************************************************)
EXTENDS Objects, WellFoundedInduction, SequenceTheorems, TLAPS

-----------------------------------------------------------------------------
(* Families of lists of blocks: P[h] is what h has.                        *)

\* The lists of P have the blocks of B, each block once.
Partitioned(I, P, B) ==
  /\ \A h \in I : IsInjective(P[h])
  /\ \A h, g \in I : h # g => ToSet(P[h]) \cap ToSet(P[g]) = {}
  /\ \A b : b \in B <=> \E h \in I : b \in ToSet(P[h])

LEMMA MinIsElement ==
  ASSUME NEW S \in SUBSET Nat, S # {}
  PROVE  Min(S) \in S
<1>1. PICK n \in S : \A m \in S : ~(<<m, n>> \in OpToRel(<, Nat))
  BY NatLessThanWellFounded, WFMin, ZenonT(60)
<1>2. \A m \in S : ~(m < n)
  BY <1>1 DEF OpToRel
<1>3. \A m \in S : n <= m
  BY <1>2
<1>4. QED BY <1>3 DEF Min

LEMMA ItemsAppended ==
  ASSUME NEW M, NEW s \in Seq(M), NEW x \in M
  PROVE  /\ Append(s, x) \in Seq(M)
         /\ ToSet(Append(s, x)) = ToSet(s) \cup {x}
         /\ IsInjective(s) /\ x \notin ToSet(s) => IsInjective(Append(s, x))
  BY AppendProperties DEF ToSet, IsInjective

LEMMA ItemsOfTail ==
  ASSUME NEW M, NEW s \in Seq(M), s # <<>>, IsInjective(s)
  PROVE  /\ Tail(s) \in Seq(M) /\ Head(s) \in M
         /\ ToSet(Tail(s)) = ToSet(s) \ {Head(s)}
         /\ Head(s) \in ToSet(s)
         /\ IsInjective(Tail(s))
<1>1. /\ Head(s) = s[1] /\ Tail(s) \in Seq(M) /\ Len(Tail(s)) = Len(s) - 1
      /\ \A i \in 1..Len(Tail(s)) : Tail(s)[i] = s[i + 1]
      /\ Len(s) \in Nat /\ Len(s) > 0
  BY HeadTailProperties
<1>2. DOMAIN s = 1..Len(s) /\ DOMAIN Tail(s) = 1..Len(Tail(s))
  BY <1>1
<1>3. Head(s) \in M /\ Head(s) \in ToSet(s)
  BY <1>1, <1>2, ElementOfSeq DEF ToSet
<1>4. \A i \in 1..Len(s) : i # 1 => i - 1 \in 1..Len(Tail(s)) /\ s[i] = Tail(s)[i - 1]
  BY <1>1
<1>5. ToSet(Tail(s)) = ToSet(s) \ {Head(s)}
  <2>1. ASSUME NEW x \in ToSet(Tail(s)) PROVE x \in ToSet(s) \ {Head(s)}
    <3>1. PICK i \in 1..Len(Tail(s)) : x = s[i + 1]
      BY <1>1, <1>2 DEF ToSet
    <3>2. i + 1 \in 1..Len(s) /\ i + 1 # 1
      BY <1>1
    <3>3. QED BY <1>1, <1>2, <3>1, <3>2 DEF ToSet, IsInjective
  <2>2. ASSUME NEW x \in ToSet(s), x # Head(s) PROVE x \in ToSet(Tail(s))
    <3>1. PICK i \in 1..Len(s) : x = s[i]
      BY <1>2 DEF ToSet
    <3>2. QED BY <1>1, <1>2, <1>4, <2>2, <3>1 DEF ToSet
  <2>3. QED BY <2>1, <2>2
<1>6. IsInjective(Tail(s))
  <2>1. ASSUME NEW i \in 1..Len(Tail(s)), NEW j \in 1..Len(Tail(s)),
               Tail(s)[i] = Tail(s)[j]
        PROVE  i = j
    <3>1. i + 1 \in 1..Len(s) /\ j + 1 \in 1..Len(s) /\ s[i + 1] = s[j + 1]
      BY <1>1, <2>1
    <3>2. i + 1 = j + 1
      BY <1>2, <3>1 DEF IsInjective
    <3>3. QED BY <3>2
  <2>2. QED BY <1>2, <2>1 DEF IsInjective
<1>7. QED BY <1>1, <1>3, <1>5, <1>6

LEMMA EmptyHasNoItems == ToSet(<<>>) = {} /\ IsInjective(<<>>)
  BY DEF ToSet, IsInjective

\* A block that is given out is added to one list.
LEMMA BlockAdded ==
  ASSUME NEW I, NEW M, NEW P \in [I -> Seq(M)], NEW B, Partitioned(I, P, B),
         NEW x \in I, NEW o \in M, o \notin B,
         NEW Q \in [I -> Seq(M)], Q[x] = Append(P[x], o),
         \A h \in I : h # x => Q[h] = P[h]
  PROVE  Partitioned(I, Q, B \cup {o})
<1>1. /\ Q[x] = Append(P[x], o) /\ Q[x] \in Seq(M)
      /\ \A h \in I : h # x => Q[h] = P[h]
  BY ItemsAppended
<1>2. \A h \in I : o \notin ToSet(P[h])
  BY DEF Partitioned
<1>3. ToSet(Q[x]) = ToSet(P[x]) \cup {o} /\ IsInjective(Q[x])
  BY <1>1, <1>2, ItemsAppended DEF Partitioned
<1>4. \A h \in I : IsInjective(Q[h])
  BY <1>1, <1>3 DEF Partitioned
<1>5. \A h, g \in I : h # g => ToSet(Q[h]) \cap ToSet(Q[g]) = {}
  <2>1. \A h \in I : h # x => ToSet(Q[h]) \cap ToSet(Q[x]) = {}
    BY <1>1, <1>2, <1>3 DEF Partitioned
  <2>2. \A h, g \in I : h # g /\ h # x /\ g # x => ToSet(Q[h]) \cap ToSet(Q[g]) = {}
    BY <1>1 DEF Partitioned
  <2>3. QED BY <2>1, <2>2
<1>6. \A b : b \in B \cup {o} <=> \E h \in I : b \in ToSet(Q[h])
  BY <1>1, <1>3 DEF Partitioned
<1>7. QED BY <1>4, <1>5, <1>6 DEF Partitioned

\* All blocks of y go to x, which has none.
LEMMA BlocksMoved ==
  ASSUME NEW I, NEW M, NEW P \in [I -> Seq(M)], NEW B, Partitioned(I, P, B),
         NEW x \in I, NEW y \in I, x # y, P[x] = <<>>,
         NEW Q \in [I -> Seq(M)], Q[x] = P[y], Q[y] = <<>>,
         \A h \in I : h # x /\ h # y => Q[h] = P[h]
  PROVE  Partitioned(I, Q, B)
<1>1. /\ Q[x] = P[y] /\ Q[y] = <<>>
      /\ \A h \in I : h # x /\ h # y => Q[h] = P[h]
  OBVIOUS
<1>2. \A h \in I : IsInjective(Q[h])
  BY <1>1, EmptyHasNoItems DEF Partitioned
<1>3. ToSet(Q[x]) = ToSet(P[y]) /\ ToSet(Q[y]) = {} /\ ToSet(P[x]) = {}
  BY <1>1, EmptyHasNoItems
<1>4. \A h, g \in I : h # g => ToSet(Q[h]) \cap ToSet(Q[g]) = {}
  BY <1>1, <1>3 DEF Partitioned
<1>5. \A b : b \in B <=> \E h \in I : b \in ToSet(Q[h])
  BY <1>1, <1>3 DEF Partitioned
<1>6. QED BY <1>2, <1>4, <1>5 DEF Partitioned

\* The first block of a list is freed.
LEMMA BlockFreed ==
  ASSUME NEW I, NEW M, NEW P \in [I -> Seq(M)], NEW B, Partitioned(I, P, B),
         NEW x \in I, P[x] # <<>>,
         NEW Q \in [I -> Seq(M)], Q[x] = Tail(P[x]),
         \A h \in I : h # x => Q[h] = P[h]
  PROVE  Partitioned(I, Q, B \ {Head(P[x])})
<1>1. /\ Q[x] = Tail(P[x]) /\ P[x] \in Seq(M) /\ IsInjective(P[x])
      /\ \A h \in I : h # x => Q[h] = P[h]
  BY DEF Partitioned
<1>2. /\ Q[x] \in Seq(M) /\ ToSet(Q[x]) = ToSet(P[x]) \ {Head(P[x])}
      /\ Head(P[x]) \in ToSet(P[x]) /\ IsInjective(Q[x])
  BY <1>1, ItemsOfTail
<1>3. \A h \in I : IsInjective(Q[h])
  BY <1>1, <1>2 DEF Partitioned
<1>4. \A h, g \in I : h # g => ToSet(Q[h]) \cap ToSet(Q[g]) = {}
  BY <1>1, <1>2 DEF Partitioned
<1>5. \A b : b \in B \ {Head(P[x])} <=> \E h \in I : b \in ToSet(Q[h])
  <2>1. ASSUME NEW b \in B, b # Head(P[x])
        PROVE  \E h \in I : b \in ToSet(Q[h])
    <3>1. PICK h \in I : b \in ToSet(P[h])
      BY DEF Partitioned
    <3>2. b \in ToSet(Q[h])
      BY <1>1, <1>2, <2>1, <3>1
    <3>3. QED BY <3>2
  <2>2. ASSUME NEW b, NEW h \in I, b \in ToSet(Q[h])
        PROVE  b \in B \ {Head(P[x])}
    <3>1. b \in ToSet(P[h]) /\ b # Head(P[x])
      BY <1>1, <1>2, <2>2 DEF Partitioned
    <3>2. QED BY <3>1 DEF Partitioned
  <2>3. QED BY <2>1, <2>2
<1>6. QED BY <1>3, <1>4, <1>5 DEF Partitioned

-----------------------------------------------------------------------------
(* The invariant.                                                          *)

Addresses == Memory \cup Statics

ObjectType == [kind : Kinds, blocks : Seq(Memory), active : BOOLEAN]

ValueType ==
  [kind : Kinds \cup {"none"}, handle : Addresses \cup {Nowhere}, owns : BOOLEAN,
   users : SUBSET (Threads \cup {Isr})]

CallType ==
  [step : {"none", "spawn", "drop"}, value : Values \cup {Nowhere},
   blocks : Seq(Memory), frees : Seq(Memory), timer : Addresses \cup {Nowhere}]

CommandType ==
  [name : {"start", "stop", "delete"}, timer : Addresses \cup {Nowhere}]

ObjectsTypeOK ==
  /\ held \subseteq Memory
  /\ DOMAIN objects \subseteq Addresses
  /\ \A a \in DOMAIN objects : objects[a] \in ObjectType
  /\ values \in [Values -> ValueType]
  /\ call \in [Threads -> CallType]
  /\ commands \in Seq(CommandType)
  /\ ended \subseteq Seq(Memory)
  /\ statics \subseteq Statics

\* Who owns an object is its only owner; nobody else is about to delete it.
OwnersOK ==
  \A v \in Values : values[v].owns =>
    /\ values[v].handle \in DOMAIN objects
    /\ objects[values[v].handle].kind = values[v].kind
    /\ values[v].handle \notin raw
    /\ ~Commanded(values[v].handle, "delete")
    /\ \A w \in Values : values[w].owns /\ values[w].handle = values[v].handle => w = v

RawOK ==
  \A a \in raw : a \in DOMAIN objects /\ ~Commanded(a, "delete")

\* The daemon deletes a timer once.
CommandsOK ==
  \A i \in 1..Len(commands) : commands[i].name = "delete" =>
    /\ commands[i].timer \in DOMAIN objects
    /\ objects[commands[i].timer].kind = "timer"
    /\ \A j \in 1..Len(commands) : commands[j] = commands[i] => j = i

CallbackOK ==
  call[Daemon].timer # Nowhere =>
    /\ call[Daemon].timer \in DOMAIN objects
    /\ objects[call[Daemon].timer].kind = "timer"

\* The value a call is about to fill or to drop is not used by others.
BusyAt(t) ==
  /\ call[t].step # "none" =>
       call[t].value \in Values /\ values[call[t].value].users = {t}
  /\ call[t].step = "spawn" =>
       ~values[call[t].value].owns /\ "task" \in Kinds /\ call[t].frees = <<>>
  /\ call[t].step # "spawn" => call[t].blocks = <<>>

BusyOK == \A t \in Threads : BusyAt(t)

\* An object is at the address of one of its blocks, or in storage that has been
\* given out: a new one is somewhere else.
PlacedOK ==
  \A a \in DOMAIN objects :
    /\ a \in Memory => a \in ToSet(objects[a].blocks)
    /\ a \in Statics => a \notin statics

\* All lists of blocks, those of the objects by their address.
Index ==
  ({"object"} \X Addresses) \cup ({"ended"} \X Seq(Memory))
    \cup ({"creating", "freeing"} \X Threads)

ObjectBlocks(a) == IF a \in DOMAIN objects THEN objects[a].blocks ELSE <<>>

EndedBlocks(s) == IF s \in ended THEN s ELSE <<>>

Parts ==
  [h \in Index |-> CASE h[1] = "object"   -> ObjectBlocks(h[2])
                     [] h[1] = "ended"    -> EndedBlocks(h[2])
                     [] h[1] = "creating" -> call[h[2]].blocks
                     [] h[1] = "freeing"  -> call[h[2]].frees]

BlocksOK == Partitioned(Index, Parts, held)

OwnershipOK ==
  OwnersOK /\ RawOK /\ CommandsOK /\ CallbackOK /\ BusyOK /\ PlacedOK

ObjectsIInv == ObjectsTypeOK /\ OwnershipOK /\ BlocksOK

-----------------------------------------------------------------------------
(* What the actions do to the lists of blocks.                             *)

LEMMA IndexCases ==
  ASSUME NEW h \in Index
  PROVE  \/ \E a \in Addresses : h = <<"object", a>>
         \/ \E s \in Seq(Memory) : h = <<"ended", s>>
         \/ \E t \in Threads : h = <<"creating", t>>
         \/ \E t \in Threads : h = <<"freeing", t>>
  BY DEF Index

LEMMA InIndex ==
  /\ \A a \in Addresses : <<"object", a>> \in Index
  /\ \A s \in Seq(Memory) : <<"ended", s>> \in Index
  /\ \A t \in Threads : <<"creating", t>> \in Index /\ <<"freeing", t>> \in Index
  BY DEF Index

LEMMA PartsAt ==
  /\ \A a \in Addresses : Parts[<<"object", a>>] = ObjectBlocks(a)
  /\ \A s \in Seq(Memory) : Parts[<<"ended", s>>] = EndedBlocks(s)
  /\ \A t \in Threads : /\ Parts[<<"creating", t>>] = call[t].blocks
                        /\ Parts[<<"freeing", t>>] = call[t].frees
  BY InIndex DEF Parts

LEMMA PartsType ==
  ASSUME ObjectsTypeOK
  PROVE  Parts \in [Index -> Seq(Memory)]
<1>1. /\ \A a \in Addresses : ObjectBlocks(a) \in Seq(Memory)
      /\ \A s \in Seq(Memory) : EndedBlocks(s) \in Seq(Memory)
      /\ \A t \in Threads : call[t].blocks \in Seq(Memory) /\ call[t].frees \in Seq(Memory)
  BY EmptySeq DEF ObjectsTypeOK, ObjectBlocks, EndedBlocks, ObjectType, CallType
<1>2. \A h \in Index : Parts[h] \in Seq(Memory)
  BY <1>1, IndexCases, PartsAt
<1>3. QED BY <1>2 DEF Parts
LEMMA PartsElsewhere ==
  ASSUME NEW D,
         \A a \in Addresses : <<"object", a>> \notin D =>
           ObjectBlocks(a)' = ObjectBlocks(a),
         \A s \in Seq(Memory) : <<"ended", s>> \notin D => EndedBlocks(s)' = EndedBlocks(s),
         \A t \in Threads : <<"creating", t>> \notin D => call'[t].blocks = call[t].blocks,
         \A t \in Threads : <<"freeing", t>> \notin D => call'[t].frees = call[t].frees
  PROVE  \A h \in Index : h \notin D => Parts'[h] = Parts[h]
<1>1. /\ \A a \in Addresses : Parts'[<<"object", a>>] = ObjectBlocks(a)'
      /\ \A s \in Seq(Memory) : Parts'[<<"ended", s>>] = EndedBlocks(s)'
      /\ \A t \in Threads : /\ Parts'[<<"creating", t>>] = call'[t].blocks
                            /\ Parts'[<<"freeing", t>>] = call'[t].frees
  BY InIndex DEF Parts
<1>2. SUFFICES ASSUME NEW h \in Index, h \notin D PROVE Parts'[h] = Parts[h]
  OBVIOUS
<1>3. CASE \E a \in Addresses : h = <<"object", a>>
  BY <1>1, <1>2, <1>3, PartsAt
<1>4. CASE \E s \in Seq(Memory) : h = <<"ended", s>>
  BY <1>1, <1>2, <1>4, PartsAt
<1>5. CASE \E t \in Threads : h = <<"creating", t>>
  BY <1>1, <1>2, <1>5, PartsAt
<1>6. CASE \E t \in Threads : h = <<"freeing", t>>
  BY <1>1, <1>2, <1>6, PartsAt
<1>7. QED BY <1>3, <1>4, <1>5, <1>6, IndexCases

\* Most actions leave all blocks where they are.
LEMMA BlocksKept ==
  ASSUME BlocksOK, ObjectsTypeOK, ObjectsTypeOK',
         \A a \in Addresses : ObjectBlocks(a)' = ObjectBlocks(a),
         ended' = ended, held' = held,
         \A t \in Threads : call'[t].blocks = call[t].blocks
                            /\ call'[t].frees = call[t].frees
  PROVE  BlocksOK'
<1>1. \A h \in Index : Parts'[h] = Parts[h]
  <2>1. \A s \in Seq(Memory) : EndedBlocks(s)' = EndedBlocks(s)
    BY DEF EndedBlocks
  <2>2. \A h \in Index : h \notin {} => Parts'[h] = Parts[h]
    <3>1. /\ \A a \in Addresses : <<"object", a>> \notin {} =>
               ObjectBlocks(a)' = ObjectBlocks(a)
          /\ \A s \in Seq(Memory) : <<"ended", s>> \notin {} =>
               EndedBlocks(s)' = EndedBlocks(s)
          /\ \A t \in Threads : <<"creating", t>> \notin {} =>
               call'[t].blocks = call[t].blocks
          /\ \A t \in Threads : <<"freeing", t>> \notin {} =>
               call'[t].frees = call[t].frees
      BY <2>1
    <3>2. QED BY <3>1, PartsElsewhere
  <2>3. QED BY <2>2
<1>2. Parts' = Parts
  BY <1>1 DEF Parts
<1>3. QED BY <1>2 DEF BlocksOK, Partitioned

LEMMA PartsTypeNext ==
  ASSUME ObjectsTypeOK'
  PROVE  Parts' \in [Index -> Seq(Memory)]
<1>1. /\ \A a \in Addresses : ObjectBlocks(a)' \in Seq(Memory)
      /\ \A s \in Seq(Memory) : EndedBlocks(s)' \in Seq(Memory)
      /\ \A t \in Threads : call'[t].blocks \in Seq(Memory) /\ call'[t].frees \in Seq(Memory)
  BY EmptySeq DEF ObjectsTypeOK, ObjectBlocks, EndedBlocks, ObjectType, CallType
<1>2. \A h \in Index : Parts'[h] \in Seq(Memory)
  <2>1. /\ \A a \in Addresses : Parts'[<<"object", a>>] = ObjectBlocks(a)'
        /\ \A s \in Seq(Memory) : Parts'[<<"ended", s>>] = EndedBlocks(s)'
        /\ \A t \in Threads : /\ Parts'[<<"creating", t>>] = call'[t].blocks
                              /\ Parts'[<<"freeing", t>>] = call'[t].frees
    BY InIndex DEF Parts
  <2>2. QED BY <1>1, <2>1, IndexCases
<1>3. QED BY <1>2 DEF Parts

\* An object that is deleted leaves its blocks to who deletes it.
LEMMA BlocksOfDeleted ==
  ASSUME BlocksOK, ObjectsTypeOK, ObjectsTypeOK',
         NEW a \in DOMAIN objects, NEW t \in Threads, call[t].frees = <<>>,
         objects' = Without(a), ended' = ended, held' = held,
         \A u \in Threads : call'[u].blocks = call[u].blocks,
         \A u \in Threads : u # t => call'[u].frees = call[u].frees,
         call'[t].frees = objects[a].blocks
  PROVE  BlocksOK'
<1> DEFINE x == <<"freeing", t>>
           y == <<"object", a>>
<1>1. a \in Addresses /\ x \in Index /\ y \in Index /\ x # y
  BY InIndex DEF ObjectsTypeOK
<1>2. /\ Parts[x] = <<>> /\ Parts'[x] = Parts[y] /\ Parts'[y] = <<>>
  <2>1. Parts[x] = call[t].frees /\ Parts'[x] = call'[t].frees
    BY <1>1 DEF Parts
  <2>2. Parts[y] = ObjectBlocks(a) /\ Parts'[y] = ObjectBlocks(a)'
    BY <1>1 DEF Parts
  <2>3. ObjectBlocks(a) = objects[a].blocks /\ ObjectBlocks(a)' = <<>>
    BY DEF ObjectBlocks, Without
  <2>4. QED BY <2>1, <2>2, <2>3
<1>3. \A h \in Index : h # x /\ h # y => Parts'[h] = Parts[h]
  <2>1. \A b \in Addresses : <<"object", b>> \notin {x, y} =>
          ObjectBlocks(b)' = ObjectBlocks(b)
    BY DEF ObjectBlocks, Without
  <2>2. \A s \in Seq(Memory) : EndedBlocks(s)' = EndedBlocks(s)
    BY DEF EndedBlocks
  <2>3. \A u \in Threads : <<"freeing", u>> \notin {x, y} =>
          call'[u].frees = call[u].frees
    OBVIOUS
  <2>4. \A h \in Index : h \notin {x, y} => Parts'[h] = Parts[h]
    BY <2>1, <2>2, <2>3, PartsElsewhere
  <2>5. QED BY <2>4
<1>4. Parts \in [Index -> Seq(Memory)] /\ Parts' \in [Index -> Seq(Memory)]
  BY PartsType, PartsTypeNext
<1>5. Partitioned(Index, Parts', held)
  <2> HIDE DEF x, y
  <2> QED BY <1>1, <1>2, <1>3, <1>4, BlocksMoved DEF BlocksOK
<1>6. QED BY <1>5 DEF BlocksOK, Partitioned

LEMMA Unchanged ==
  ASSUME ObjectsIInv, UNCHANGED objVars
  PROVE  ObjectsIInv'
<1>1. ObjectsTypeOK'
  BY DEF ObjectsIInv, objVars, ObjectsTypeOK
<1>2. BlocksOK'
  <2>1. \A a \in Addresses : ObjectBlocks(a)' = ObjectBlocks(a)
    BY DEF objVars, ObjectBlocks
  <2>2. QED BY <1>1, <2>1, BlocksKept DEF ObjectsIInv, objVars
<1>3. OwnersOK' /\ RawOK' /\ CommandsOK'
  BY DEF ObjectsIInv, OwnershipOK, objVars, OwnersOK, RawOK, CommandsOK, Commanded
<1>4. CallbackOK' /\ BusyOK' /\ PlacedOK'
  BY DEF ObjectsIInv, OwnershipOK, objVars, CallbackOK, BusyOK, BusyAt, PlacedOK
<1>5. QED BY <1>1, <1>2, <1>3, <1>4 DEF ObjectsIInv, OwnershipOK

\* A timer to be deleted by the daemon is alive.
LEMMA NotCommanded ==
  ASSUME ObjectsIInv, NEW a, a \notin DOMAIN objects
  PROVE  ~Commanded(a, "delete")
  BY DEF ObjectsIInv, OwnershipOK, CommandsOK, Commanded, Command
-----------------------------------------------------------------------------
(* What the actions do to the owners of objects.                           *)

\* Nothing is created and nobody becomes an owner.  Only who gives up an object sends
\* the command to delete it.
LEMMA OwnersKept ==
  ASSUME OwnersOK, RawOK, PlacedOK,
         DOMAIN objects' \subseteq DOMAIN objects,
         \A a \in DOMAIN objects' : /\ objects'[a].kind = objects[a].kind
                                    /\ objects'[a].blocks = objects[a].blocks,
         \A v \in Values : values'[v].owns =>
           /\ values[v].owns /\ values'[v].handle = values[v].handle
           /\ values'[v].kind = values[v].kind
           /\ values[v].handle \in DOMAIN objects'
           /\ values[v].handle \notin raw'
           /\ ~Commanded(values[v].handle, "delete")',
         \A a \in raw' : a \in DOMAIN objects' /\ ~Commanded(a, "delete")',
         statics' \subseteq statics
  PROVE  OwnersOK' /\ RawOK' /\ PlacedOK'
<1>1. OwnersOK'
  BY DEF OwnersOK
<1>2. RawOK'
  BY DEF RawOK
<1>3. PlacedOK'
  BY DEF PlacedOK
<1>4. QED BY <1>1, <1>2, <1>3

\* v becomes the owner of a, which had none.
LEMMA OwnerAdded ==
  ASSUME OwnersOK,
         NEW v \in Values, NEW a, values'[v].owns, values'[v].handle = a,
         DOMAIN objects' = DOMAIN objects \cup {a},
         objects'[a].kind = values'[v].kind,
         \A b \in DOMAIN objects : b # a => objects'[b] = objects[b],
         \A w \in Values : w # v => values'[w] = values[w],
         \A w \in Values : ~(values[w].owns /\ values[w].handle = a),
         raw' = raw \ {a}, commands' = commands, ~Commanded(a, "delete")
  PROVE  OwnersOK'
<1>1. \A b : Commanded(b, "delete")' <=> Commanded(b, "delete")
  BY DEF Commanded
<1>2. QED BY <1>1 DEF OwnersOK

LEMMA CommandsKept ==
  ASSUME CommandsOK, commands' = commands,
         \A a \in DOMAIN objects : objects[a].kind = "timer" =>
           a \in DOMAIN objects' /\ objects'[a].kind = "timer"
  PROVE  CommandsOK' /\ \A a : Commanded(a, "delete")' <=> Commanded(a, "delete")
<1>1. CommandsOK'
  BY DEF CommandsOK
<1>2. QED BY <1>1 DEF Commanded

LEMMA CommandSent ==
  ASSUME ObjectsTypeOK, CommandsOK, objects' = objects,
         NEW name, NEW a, Command(name, a) \in CommandType,
         commands' = Append(commands, Command(name, a)),
         name = "delete" => /\ a \in DOMAIN objects /\ objects[a].kind = "timer"
                            /\ ~Commanded(a, "delete")
  PROVE  /\ CommandsOK' /\ commands' \in Seq(CommandType)
         /\ \A b : Commanded(b, "delete")' <=>
                     Commanded(b, "delete") \/ (name = "delete" /\ a = b)
<1> DEFINE n == Len(commands)
           c == Command(name, a)
<1>1. commands \in Seq(CommandType) /\ n \in Nat
  BY DEF ObjectsTypeOK
<1>2. /\ commands' \in Seq(CommandType) /\ Len(commands') = n + 1
      /\ commands'[n + 1] = c
      /\ \A i \in 1..n : commands'[i] = commands[i]
  BY <1>1, AppendProperties
<1>3. 1..Len(commands') = 1..n \cup {n + 1}
  BY <1>1, <1>2
<1>4. c.name = name /\ c.timer = a
  BY DEF Command
<1>5. \A i \in 1..n : commands[i] \in CommandType
  BY <1>1, ElementOfSeq
<1>6. \A i \in 1..n : commands[i] = c => name # "delete"
  BY <1>4 DEF Commanded
<1> HIDE DEF n, c
<1>7. \A b : Commanded(b, "delete")' <=>
               Commanded(b, "delete") \/ (name = "delete" /\ a = b)
  <2>1. ASSUME NEW b, Commanded(b, "delete")'
        PROVE  Commanded(b, "delete") \/ (name = "delete" /\ a = b)
    <3>1. PICK i \in 1..n \cup {n + 1} : commands'[i] = Command("delete", b)
      BY <1>3, <2>1 DEF Commanded
    <3>2. CASE i \in 1..n
      BY <1>2, <3>1, <3>2 DEF Commanded, n
    <3>3. CASE i = n + 1
      BY <1>2, <1>4, <3>1, <3>3 DEF Command
    <3>4. QED BY <3>1, <3>2, <3>3
  <2>2. ASSUME NEW b, Commanded(b, "delete") PROVE Commanded(b, "delete")'
    <3>1. PICK i \in 1..n : commands[i] = Command("delete", b)
      BY <2>2 DEF Commanded, n
    <3>2. i \in 1..Len(commands') /\ commands'[i] = Command("delete", b)
      BY <1>2, <1>3, <3>1
    <3>3. QED BY <3>2 DEF Commanded
  <2>3. ASSUME name = "delete" PROVE Commanded(a, "delete")'
    <3>1. n + 1 \in 1..Len(commands') /\ commands'[n + 1] = Command("delete", a)
      BY <1>2, <1>3, <2>3 DEF c
    <3>2. QED BY <3>1 DEF Commanded
  <2>4. QED BY <2>1, <2>2, <2>3
<1>8. CommandsOK'
  <2> SUFFICES ASSUME NEW i \in 1..n \cup {n + 1}, commands'[i].name = "delete"
               PROVE  /\ commands'[i].timer \in DOMAIN objects
                      /\ objects[commands'[i].timer].kind = "timer"
                      /\ \A j \in 1..n \cup {n + 1} : commands'[j] = commands'[i] => j = i
    BY <1>3 DEF CommandsOK
  <2>1. CASE i \in 1..n
    <3>1. /\ commands[i].timer \in DOMAIN objects
          /\ objects[commands[i].timer].kind = "timer"
          /\ \A j \in 1..n : commands[j] = commands[i] => j = i
      BY <1>2, <2>1 DEF CommandsOK, n
    <3>2. commands'[n + 1] # commands'[i]
      BY <1>2, <1>4, <1>6, <2>1
    <3>3. QED BY <1>2, <2>1, <3>1, <3>2
  <2>2. CASE i = n + 1
    BY <1>2, <1>4, <1>6, <2>2
  <2>3. QED BY <2>1, <2>2
<1>9. QED BY <1>2, <1>7, <1>8

\* Only t's calls and the values it uses change.
LEMMA BusyKept ==
  ASSUME BusyOK, ObjectsAssumption, NEW t \in Threads, BusyAt(t)',
         \A u \in Threads : u # t => call'[u] = call[u],
         \A v \in Values : values'[v] # values[v] =>
           values[v].users = {} \/ t \in values[v].users \/ Isr \in values[v].users
  PROVE  BusyOK'
<1> SUFFICES ASSUME NEW u \in Threads, u # t PROVE BusyAt(u)'
  BY DEF BusyOK
<1>1. call'[u] = call[u] /\ BusyAt(u)
  BY DEF BusyOK
<1>2. call[u].step # "none" =>
        call[u].value \in Values /\ values'[call[u].value] = values[call[u].value]
  BY <1>1 DEF BusyAt, ObjectsAssumption
<1>3. QED BY <1>1, <1>2 DEF BusyAt
-----------------------------------------------------------------------------
(* Creating.                                                               *)

\* A free address is nobody's.
LEMMA FreeIsNew ==
  ASSUME ObjectsAssumption, ObjectsIInv, Free # {}
  PROVE  /\ Min(Free) \in Memory /\ Min(Free) \notin held /\ Min(Free) \in Addresses
         /\ Min(Free) \notin DOMAIN objects
<1>1. Min(Free) \in Free
  BY MinIsElement DEF Free, ObjectsAssumption
<1>2. Min(Free) \in Memory /\ Min(Free) \notin held /\ Min(Free) \in Addresses
  BY <1>1 DEF Free, Addresses
<1>3. ASSUME Min(Free) \in DOMAIN objects PROVE FALSE
  <2> DEFINE h == <<"object", Min(Free)>>
  <2>1. Min(Free) \in ToSet(objects[Min(Free)].blocks)
    BY <1>2, <1>3 DEF ObjectsIInv, OwnershipOK, PlacedOK
  <2>2. h \in Index /\ Parts[h] = objects[Min(Free)].blocks
    BY <1>2, <1>3, InIndex, PartsAt DEF ObjectBlocks
  <2>3. \E g \in Index : Min(Free) \in ToSet(Parts[g])
    BY <2>1, <2>2
  <2>4. Min(Free) \in held
    BY <2>3 DEF ObjectsIInv, BlocksOK, Partitioned
  <2>5. QED BY <1>2, <2>4
<1>4. QED BY <1>2, <1>3

LEMMA NewKeeps ==
  ASSUME ObjectsAssumption, ObjectsIInv,
         NEW t \in Threads, NEW v \in Values, NEW kind \in Kinds, New(t, v, kind)
  PROVE  ObjectsIInv'
<1>1. CASE Free = {}
  <2>1. UNCHANGED objVars
    BY <1>1 DEF New, Allocates, objVars
  <2>2. QED BY <2>1, Unchanged
<1>2. CASE Free # {}
  <2>1. PICK o \in Memory : /\ o = Min(Free)
                            /\ o \notin held /\ o \in Addresses
                            /\ o \notin DOMAIN objects /\ o # Nowhere
    <3>1. Min(Free) \in Memory /\ Min(Free) # Nowhere
      BY <1>2, FreeIsNew DEF Nowhere, ObjectsAssumption
    <3>2. QED BY <1>2, <3>1, FreeIsNew
  <2>2. /\ values[v] = NoValue /\ held' = held \cup {o} /\ call' = call /\ raw' = raw
        /\ commands' = commands /\ ended' = ended /\ statics' = statics
        /\ objects' = Including(o, Object(kind, <<o>>))
        /\ values' = [values EXCEPT ![v] = Made(kind, o, t)]
        /\ Runs(t)
    BY <1>2, <2>1 DEF New, Allocates
  <2>3. /\ DOMAIN objects' = DOMAIN objects \cup {o}
        /\ objects'[o] = [kind |-> kind, blocks |-> <<o>>, active |-> FALSE]
        /\ \A a \in DOMAIN objects : objects'[a] = objects[a]
    BY <2>1, <2>2 DEF Including, Object
  <2>4. <<o>> \in Seq(Memory)
    BY <2>1
  <2>5. ObjectsTypeOK'
    <3>1. objects'[o] \in ObjectType
      BY <2>3, <2>4 DEF ObjectType
    <3>2. /\ DOMAIN objects' \subseteq Addresses
          /\ \A a \in DOMAIN objects' : objects'[a] \in ObjectType
      BY <2>1, <2>3, <3>1 DEF ObjectsIInv, ObjectsTypeOK
    <3>3. Made(kind, o, t) \in ValueType
      BY <2>1 DEF Made, ValueType
    <3>4. values' \in [Values -> ValueType]
      BY <2>2, <3>3 DEF ObjectsIInv, ObjectsTypeOK
    <3>5. QED BY <2>1, <2>2, <3>2, <3>4 DEF ObjectsIInv, ObjectsTypeOK
  <2>6. OwnersOK'
    <3>1. values'[v].owns /\ values'[v].handle = o /\ values'[v].kind = kind
      BY <2>2 DEF Made, ObjectsIInv, ObjectsTypeOK
    <3>2. o \notin raw /\ ~Commanded(o, "delete")
      BY <2>1, NotCommanded DEF ObjectsIInv, OwnershipOK, RawOK
    <3>3. \A w \in Values : ~(values[w].owns /\ values[w].handle = o)
      BY <2>1 DEF ObjectsIInv, OwnershipOK, OwnersOK
    <3>4. \A w \in Values : w # v => values'[w] = values[w]
      BY <2>2 DEF ObjectsIInv, ObjectsTypeOK
    <3>5. QED BY <2>2, <2>3, <3>1, <3>2, <3>3, <3>4, OwnerAdded
                 DEF ObjectsIInv, OwnershipOK
  <2>7. RawOK' /\ CommandsOK'
    <3>1. CommandsOK' /\ \A a : Commanded(a, "delete")' <=> Commanded(a, "delete")
      BY <2>2, <2>3, CommandsKept DEF ObjectsIInv, OwnershipOK
    <3>2. QED BY <2>2, <2>3, <3>1 DEF RawOK, ObjectsIInv, OwnershipOK
  <2>8. CallbackOK'
    BY <2>2, <2>3 DEF ObjectsIInv, OwnershipOK, CallbackOK
  <2>9. BusyOK'
    <3>1. BusyAt(t)'
      BY <2>2 DEF Runs, ObjectsIInv, OwnershipOK, BusyOK, BusyAt
    <3>2. \A w \in Values : values'[w] # values[w] => values[w].users = {}
      BY <2>2 DEF ObjectsIInv, ObjectsTypeOK, NoValue
    <3>3. QED BY <2>2, <3>1, <3>2, BusyKept DEF ObjectsIInv, OwnershipOK
  <2>10. PlacedOK'
    <3>1. o \in ToSet(<<o>>)
      BY DEF ToSet
    <3>2. o \notin Statics
      BY <2>1 DEF ObjectsAssumption
    <3>3. QED BY <2>2, <2>3, <3>1, <3>2 DEF PlacedOK, ObjectsIInv, OwnershipOK
  <2>11. BlocksOK'
    <3> DEFINE x == <<"object", o>>
    <3>1. x \in Index /\ Parts[x] = <<>> /\ Parts'[x] = <<o>>
      <4>1. x \in Index
        BY <2>1, InIndex
      <4>2. Parts[x] = ObjectBlocks(o) /\ Parts'[x] = ObjectBlocks(o)'
        BY <4>1 DEF Parts
      <4>3. ObjectBlocks(o) = <<>> /\ ObjectBlocks(o)' = <<o>>
        BY <2>1, <2>3 DEF ObjectBlocks
      <4>4. QED BY <4>1, <4>2, <4>3
    <3>2. Parts'[x] = Append(Parts[x], o)
      BY <3>1
    <3>3. \A h \in Index : h # x => Parts'[h] = Parts[h]
      <4>1. \A b \in Addresses : <<"object", b>> \notin {x} =>
              ObjectBlocks(b)' = ObjectBlocks(b)
        BY <2>3 DEF ObjectBlocks
      <4>2. \A s \in Seq(Memory) : EndedBlocks(s)' = EndedBlocks(s)
        BY <2>2 DEF EndedBlocks
      <4>3. \A h \in Index : h \notin {x} => Parts'[h] = Parts[h]
        BY <2>2, <4>1, <4>2, PartsElsewhere
      <4>4. QED BY <4>3
    <3>4. Parts \in [Index -> Seq(Memory)] /\ Parts' \in [Index -> Seq(Memory)]
      BY <2>5, PartsType, PartsTypeNext DEF ObjectsIInv
    <3> HIDE DEF x
    <3>5. Partitioned(Index, Parts', held \cup {o})
      BY <2>1, <3>1, <3>2, <3>3, <3>4, BlockAdded DEF ObjectsIInv, BlocksOK
    <3>6. QED BY <2>2, <3>5 DEF BlocksOK, Partitioned
  <2>12. QED BY <2>5, <2>6, <2>7, <2>8, <2>9, <2>10, <2>11 DEF ObjectsIInv, OwnershipOK
<1>3. QED BY <1>1, <1>2

LEMMA NewStaticKeeps ==
  ASSUME ObjectsAssumption, ObjectsIInv,
         NEW t \in Threads, NEW v \in Values, NEW kind \in Kinds, NEW s \in statics,
         NewStatic(t, v, kind, s)
  PROVE  ObjectsIInv'
<1>1. s \in Statics /\ s \in Addresses /\ s \notin DOMAIN objects /\ s # Nowhere
      /\ s \notin Memory
  BY DEF ObjectsIInv, ObjectsTypeOK, OwnershipOK, PlacedOK, Addresses, Nowhere,
         ObjectsAssumption
<1>2. /\ values[v] = NoValue /\ held' = held /\ call' = call /\ raw' = raw
      /\ commands' = commands /\ ended' = ended /\ statics' = statics \ {s}
      /\ objects' = Including(s, Object(kind, <<>>))
      /\ values' = [values EXCEPT ![v] = Made(kind, s, t)]
      /\ Runs(t)
  BY DEF NewStatic
<1>3. /\ DOMAIN objects' = DOMAIN objects \cup {s}
      /\ objects'[s] = [kind |-> kind, blocks |-> <<>>, active |-> FALSE]
      /\ \A a \in DOMAIN objects : objects'[a] = objects[a]
  BY <1>1, <1>2 DEF Including, Object
<1>4. ObjectsTypeOK'
  <2>1. objects'[s] \in ObjectType
    BY <1>3, EmptySeq DEF ObjectType
  <2>2. /\ DOMAIN objects' \subseteq Addresses
        /\ \A a \in DOMAIN objects' : objects'[a] \in ObjectType
    BY <1>1, <1>3, <2>1 DEF ObjectsIInv, ObjectsTypeOK
  <2>3. Made(kind, s, t) \in ValueType
    BY <1>1 DEF Made, ValueType
  <2>4. values' \in [Values -> ValueType]
    BY <1>2, <2>3 DEF ObjectsIInv, ObjectsTypeOK
  <2>5. QED BY <1>1, <1>2, <2>2, <2>4 DEF ObjectsIInv, ObjectsTypeOK
<1>5. OwnersOK'
  <2>1. values'[v].owns /\ values'[v].handle = s /\ values'[v].kind = kind
    BY <1>2 DEF Made, ObjectsIInv, ObjectsTypeOK
  <2>2. s \notin raw /\ ~Commanded(s, "delete")
    BY <1>1, NotCommanded DEF ObjectsIInv, OwnershipOK, RawOK
  <2>3. \A w \in Values : ~(values[w].owns /\ values[w].handle = s)
    BY <1>1 DEF ObjectsIInv, OwnershipOK, OwnersOK
  <2>4. \A w \in Values : w # v => values'[w] = values[w]
    BY <1>2 DEF ObjectsIInv, ObjectsTypeOK
  <2>5. QED BY <1>2, <1>3, <2>1, <2>2, <2>3, <2>4, OwnerAdded
               DEF ObjectsIInv, OwnershipOK
<1>6. RawOK' /\ CommandsOK'
  <2>1. CommandsOK' /\ \A a : Commanded(a, "delete")' <=> Commanded(a, "delete")
    BY <1>2, <1>3, CommandsKept DEF ObjectsIInv, OwnershipOK
  <2>2. QED BY <1>2, <1>3, <2>1 DEF RawOK, ObjectsIInv, OwnershipOK
<1>7. CallbackOK'
  BY <1>2, <1>3 DEF ObjectsIInv, OwnershipOK, CallbackOK
<1>8. BusyOK'
  <2>1. BusyAt(t)'
    BY <1>2 DEF Runs, ObjectsIInv, OwnershipOK, BusyOK, BusyAt
  <2>2. \A w \in Values : values'[w] # values[w] => values[w].users = {}
    BY <1>2 DEF ObjectsIInv, ObjectsTypeOK, NoValue
  <2>3. QED BY <1>2, <2>1, <2>2, BusyKept DEF ObjectsIInv, OwnershipOK
<1>9. PlacedOK'
  BY <1>1, <1>2, <1>3 DEF PlacedOK, ObjectsIInv, OwnershipOK
<1>10. BlocksOK'
  <2>1. \A a \in Addresses : ObjectBlocks(a)' = ObjectBlocks(a)
    BY <1>1, <1>3 DEF ObjectBlocks
  <2>2. QED BY <1>2, <1>4, <2>1, BlocksKept DEF ObjectsIInv
<1>11. QED BY <1>4, <1>5, <1>6, <1>7, <1>8, <1>9, <1>10 DEF ObjectsIInv, OwnershipOK

LEMMA SpawnKeeps ==
  ASSUME ObjectsAssumption, ObjectsIInv,
         NEW t \in Threads, NEW v \in Values, Spawn(t, v)
  PROVE  ObjectsIInv'
<1>1. CASE Free = {}
  <2>1. UNCHANGED objVars
    BY <1>1 DEF Spawn, Allocates, objVars
  <2>2. QED BY <2>1, Unchanged
<1>2. CASE Free # {}
  <2>1. PICK o \in Memory : o = Min(Free) /\ o \notin held
    BY <1>2, FreeIsNew
  <2>2. /\ values[v] = NoValue /\ held' = held \cup {o} /\ raw' = raw
        /\ commands' = commands /\ ended' = ended /\ statics' = statics
        /\ objects' = objects /\ "task" \in Kinds
        /\ call' = [call EXCEPT ![t].step = "spawn", ![t].value = v,
                                ![t].blocks = <<o>>]
        /\ values' = [values EXCEPT ![v].users = {t}]
        /\ call[t].step = "none" /\ call[t].frees = <<>>
    BY <1>2, <2>1 DEF Spawn, Allocates, Runs
  <2>3. /\ call \in [Threads -> CallType] /\ values \in [Values -> ValueType]
        /\ <<o>> \in Seq(Memory)
    BY <2>1 DEF ObjectsIInv, ObjectsTypeOK
  <2>4. /\ call'[t] = [call[t] EXCEPT !.step = "spawn", !.value = v, !.blocks = <<o>>]
        /\ \A u \in Threads : u # t => call'[u] = call[u]
        /\ values'[v] = [values[v] EXCEPT !.users = {t}]
        /\ \A w \in Values : w # v => values'[w] = values[w]
    BY <2>2, <2>3
  <2>5. /\ call'[t].step = "spawn" /\ call'[t].value = v /\ call'[t].blocks = <<o>>
        /\ call'[t].frees = <<>> /\ call'[t].timer = call[t].timer
        /\ values'[v].users = {t} /\ ~values'[v].owns
    BY <2>2, <2>3, <2>4 DEF NoValue, CallType
  <2>6. ObjectsTypeOK'
    <3>1. call'[t] \in CallType
      <4>1. call[t] \in CallType
        BY <2>3
      <4>2. QED BY <2>3, <2>4, <4>1 DEF CallType
    <3>2. call' \in [Threads -> CallType]
      BY <2>2, <2>3, <2>4, <3>1
    <3>3. values' \in [Values -> ValueType]
      BY <2>2, <2>3 DEF ValueType
    <3>4. QED BY <2>1, <2>2, <3>2, <3>3 DEF ObjectsIInv, ObjectsTypeOK
  <2>7. OwnersOK' /\ RawOK' /\ PlacedOK'
    <3>1. \A a : Commanded(a, "delete")' <=> Commanded(a, "delete")
      BY <2>2 DEF Commanded
    <3>2. \A w \in Values : values'[w].owns =>
            /\ values[w].owns /\ values'[w] = values[w]
            /\ values[w].handle \in DOMAIN objects /\ values[w].handle \notin raw
            /\ ~Commanded(values[w].handle, "delete")
      BY <2>4, <2>5 DEF ObjectsIInv, OwnershipOK, OwnersOK
    <3>3. \A a \in raw : a \in DOMAIN objects /\ ~Commanded(a, "delete")
      BY DEF ObjectsIInv, OwnershipOK, RawOK
    <3>4. QED BY <2>2, <3>1, <3>2, <3>3, OwnersKept DEF ObjectsIInv, OwnershipOK
  <2>8. CommandsOK' /\ CallbackOK'
    <3>1. call'[Daemon].timer = call[Daemon].timer
      BY <2>4, <2>5 DEF ObjectsAssumption
    <3>2. QED BY <2>2, <3>1 DEF ObjectsIInv, OwnershipOK, CommandsOK, CallbackOK
  <2>9. BusyOK'
    <3>1. BusyAt(t)'
      BY <2>2, <2>5 DEF BusyAt
    <3>2. \A w \in Values : values'[w] # values[w] => values[w].users = {}
      BY <2>2, <2>4 DEF NoValue
    <3>3. QED BY <2>4, <3>1, <3>2, BusyKept DEF ObjectsIInv, OwnershipOK
  <2>10. BlocksOK'
    <3> DEFINE x == <<"creating", t>>
    <3>1. x \in Index /\ Parts[x] = <<>> /\ Parts'[x] = <<o>>
      <4>1. Parts[x] = call[t].blocks /\ Parts'[x] = call'[t].blocks /\ x \in Index
        BY InIndex DEF Parts
      <4>2. call[t].blocks = <<>>
        BY <2>2 DEF ObjectsIInv, OwnershipOK, BusyOK, BusyAt
      <4>3. QED BY <2>5, <4>1, <4>2
    <3>2. Parts'[x] = Append(Parts[x], o)
      BY <3>1
    <3>3. \A h \in Index : h # x => Parts'[h] = Parts[h]
      <4>1. /\ \A b \in Addresses : ObjectBlocks(b)' = ObjectBlocks(b)
            /\ \A s \in Seq(Memory) : EndedBlocks(s)' = EndedBlocks(s)
        BY <2>2 DEF ObjectBlocks, EndedBlocks
      <4>2. /\ \A u \in Threads : <<"creating", u>> \notin {x} =>
                 call'[u].blocks = call[u].blocks
            /\ \A u \in Threads : call'[u].frees = call[u].frees
        BY <2>2, <2>4, <2>5
      <4>3. \A h \in Index : h \notin {x} => Parts'[h] = Parts[h]
        BY <4>1, <4>2, PartsElsewhere
      <4>4. QED BY <4>3
    <3>4. Parts \in [Index -> Seq(Memory)] /\ Parts' \in [Index -> Seq(Memory)]
      BY <2>6, PartsType, PartsTypeNext DEF ObjectsIInv
    <3> HIDE DEF x
    <3>5. Partitioned(Index, Parts', held \cup {o})
      BY <2>1, <3>1, <3>2, <3>3, <3>4, BlockAdded DEF ObjectsIInv, BlocksOK
    <3>6. QED BY <2>2, <3>5 DEF BlocksOK, Partitioned
  <2>11. QED BY <2>6, <2>7, <2>8, <2>9, <2>10 DEF ObjectsIInv, OwnershipOK
<1>3. QED BY <1>1, <1>2

LEMMA OnlyTimersCommanded ==
  ASSUME ObjectsAssumption, NEW kind \in Kinds, DropOf[kind] = "commanded"
  PROVE  kind = "timer"
<1>1. kind \in {"queue", "mutex", "binary", "counting", "events", "stream",
               "message", "timer", "task"}
  BY DEF ObjectsAssumption
<1>2. CASE kind = "timer"
  BY <1>2
<1>3. CASE kind \in {"stream", "message", "task"}
  BY <1>3 DEF DropOf, StreamBufferDrop, MessageBufferDrop, TaskDrop
<1>4. CASE kind \in {"queue", "mutex", "binary", "counting", "events"}
  BY <1>4 DEF DropOf, QueueDrop, MutexDrop, BinarySemaphoreDrop, CountingSemaphoreDrop,
              EventGroupDrop
<1>5. QED BY <1>1, <1>2, <1>3, <1>4

\* The objects are the same and nobody becomes an owner.
LEMMA ObjectsStay ==
  ASSUME ObjectsAssumption, ObjectsIInv,
         held' = held, objects' = objects, ended' = ended, statics' = statics,
         values' \in [Values -> ValueType], call' \in [Threads -> CallType],
         commands' \in Seq(CommandType), CommandsOK', BusyOK',
         \A v \in Values : values'[v].owns =>
           /\ values[v].owns /\ values'[v].handle = values[v].handle
           /\ values'[v].kind = values[v].kind
           /\ values[v].handle \notin raw' /\ ~Commanded(values[v].handle, "delete")',
         \A a \in raw' : a \in DOMAIN objects /\ ~Commanded(a, "delete")',
         \A u \in Threads : call'[u].blocks = call[u].blocks
                            /\ call'[u].frees = call[u].frees,
         call'[Daemon].timer \in {Nowhere, call[Daemon].timer}
  PROVE  ObjectsIInv'
<1>1. ObjectsTypeOK'
  BY DEF ObjectsIInv, ObjectsTypeOK
<1>2. OwnersOK' /\ RawOK' /\ PlacedOK'
  <2>1. \A v \in Values : values[v].owns => values[v].handle \in DOMAIN objects
    BY DEF ObjectsIInv, OwnershipOK, OwnersOK
  <2>2. QED BY <2>1, OwnersKept DEF ObjectsIInv, OwnershipOK
<1>3. CallbackOK'
  BY DEF ObjectsIInv, OwnershipOK, CallbackOK
<1>4. BlocksOK'
  <2>1. \A a \in Addresses : ObjectBlocks(a)' = ObjectBlocks(a)
    BY DEF ObjectBlocks
  <2>2. QED BY <1>1, <2>1, BlocksKept DEF ObjectsIInv
<1>5. QED BY <1>1, <1>2, <1>3, <1>4 DEF ObjectsIInv, OwnershipOK

\* The object at a is deleted by t.
LEMMA ObjectGoes ==
  ASSUME ObjectsAssumption, ObjectsIInv,
         NEW a \in DOMAIN objects, NEW t \in Threads, call[t].frees = <<>>,
         held' = held, objects' = Without(a), ended' = ended, statics' = statics,
         values' \in [Values -> ValueType], call' \in [Threads -> CallType],
         commands' \in Seq(CommandType), CommandsOK', CallbackOK', BusyOK',
         \A v \in Values : values'[v].owns =>
           /\ values[v].owns /\ values'[v].handle = values[v].handle
           /\ values'[v].kind = values[v].kind
           /\ values[v].handle # a /\ ~Commanded(values[v].handle, "delete")',
         \A b \in raw' : b \in raw /\ b # a /\ ~Commanded(b, "delete")',
         \A u \in Threads : call'[u].blocks = call[u].blocks,
         \A u \in Threads : u # t => call'[u].frees = call[u].frees,
         call'[t].frees = objects[a].blocks
  PROVE  ObjectsIInv'
<1>1. /\ DOMAIN objects' = DOMAIN objects \ {a}
      /\ \A b \in DOMAIN objects' : objects'[b] = objects[b]
  BY DEF Without
<1>2. ObjectsTypeOK'
  BY <1>1 DEF ObjectsIInv, ObjectsTypeOK
<1>3. OwnersOK' /\ RawOK' /\ PlacedOK'
  <2>1. \A v \in Values : values'[v].owns =>
          values[v].handle \in DOMAIN objects' /\ values[v].handle \notin raw'
    BY <1>1 DEF ObjectsIInv, OwnershipOK, OwnersOK
  <2>2. \A b \in raw' : b \in DOMAIN objects' /\ ~Commanded(b, "delete")'
    BY <1>1 DEF ObjectsIInv, OwnershipOK, RawOK
  <2>3. QED BY <1>1, <2>1, <2>2, OwnersKept DEF ObjectsIInv, OwnershipOK
<1>4. BlocksOK'
  BY <1>2, BlocksOfDeleted DEF ObjectsIInv
<1>5. QED BY <1>2, <1>3, <1>4 DEF ObjectsIInv, OwnershipOK

\* An object that is not a timer is not what the daemon is concerned with.
LEMMA OtherObjectGoes ==
  ASSUME ObjectsIInv, NEW a \in DOMAIN objects, objects[a].kind # "timer",
         objects' = Without(a), commands' = commands,
         call'[Daemon].timer = call[Daemon].timer
  PROVE  /\ CommandsOK' /\ CallbackOK' /\ commands' \in Seq(CommandType)
         /\ \A b : Commanded(b, "delete")' <=> Commanded(b, "delete")
<1>1. \A b \in DOMAIN objects : objects[b].kind = "timer" =>
        b \in DOMAIN objects' /\ objects'[b] = objects[b]
  BY DEF Without
<1>2. CommandsOK' /\ \A b : Commanded(b, "delete")' <=> Commanded(b, "delete")
  BY <1>1, CommandsKept DEF ObjectsIInv, OwnershipOK
<1>3. CallbackOK'
  BY <1>1 DEF ObjectsIInv, OwnershipOK, CallbackOK
<1>4. QED BY <1>2, <1>3 DEF ObjectsIInv, ObjectsTypeOK

LEMMA CommandsUnchanged ==
  ASSUME ObjectsIInv, objects' = objects, commands' = commands
  PROVE  /\ CommandsOK' /\ commands' \in Seq(CommandType)
         /\ \A b : Commanded(b, "delete")' <=> Commanded(b, "delete")
  BY CommandsKept DEF ObjectsIInv, OwnershipOK, ObjectsTypeOK

\* The owner of an object, and what it says.
LEMMA OwnerFacts ==
  ASSUME ObjectsIInv, NEW v \in Values, values[v].owns
  PROVE  /\ values[v].handle \in DOMAIN objects /\ values[v].handle \in Addresses
         /\ objects[values[v].handle] \in ObjectType
         /\ objects[values[v].handle].kind = values[v].kind
         /\ values[v].handle \notin raw /\ ~Commanded(values[v].handle, "delete")
         /\ \A w \in Values : values[w].owns /\ values[w].handle = values[v].handle => w = v
  BY DEF ObjectsIInv, ObjectsTypeOK, OwnershipOK, OwnersOK

LEMMA DropKeeps ==
  ASSUME ObjectsAssumption, ObjectsIInv, NEW t \in Threads, NEW v \in Values,
         values[v].users = {t}, call[t].step # "spawn", call[t].frees = <<>>, Drop(t, v)
  PROVE  ObjectsIInv'
<1>1. PICK a : a = values[v].handle
  OBVIOUS
<1> DEFINE c == [call[t] EXCEPT !.step = "none", !.value = Nowhere]
<1>2. /\ values \in [Values -> ValueType] /\ call \in [Threads -> CallType]
      /\ call[t].blocks = <<>>
  BY DEF ObjectsIInv, ObjectsTypeOK, OwnershipOK, BusyOK, BusyAt
<1>3. /\ values' = [values EXCEPT ![v] = NoValue]
      /\ held' = held /\ raw' = raw /\ ended' = ended /\ statics' = statics
  BY DEF Drop
<1>4. values' \in [Values -> ValueType]
  BY <1>2, <1>3 DEF NoValue, ValueType
<1>5. /\ ~values'[v].owns
      /\ \A w \in Values : w # v => values'[w] = values[w]
  BY <1>2, <1>3 DEF NoValue
<1>6. /\ c \in CallType /\ c.step = "none" /\ c.blocks = <<>> /\ c.frees = <<>>
      /\ c.timer = call[t].timer
  <2>1. call[t] \in CallType
    BY <1>2
  <2>2. QED BY <1>2, <2>1 DEF CallType
<1>7. \A w \in Values : values'[w].owns =>
        /\ values[w].owns /\ values'[w] = values[w]
        /\ values[w].handle \notin raw /\ ~Commanded(values[w].handle, "delete")
        /\ values[v].owns => values[w].handle # a
  BY <1>1, <1>5, OwnerFacts
<1>8. \A b \in raw : b \in DOMAIN objects /\ ~Commanded(b, "delete")
  BY DEF ObjectsIInv, OwnershipOK, RawOK
<1>9. \A w \in Values : values'[w] # values[w] => t \in values[w].users
  BY <1>5
<1> HIDE DEF c
<1>10. ASSUME call' = [call EXCEPT ![t] = c]
      PROVE  /\ call' \in [Threads -> CallType] /\ BusyOK'
             /\ call'[Daemon].timer = call[Daemon].timer
             /\ \A u \in Threads : call'[u].blocks = call[u].blocks
                                   /\ call'[u].frees = call[u].frees
  <2>1. call'[t] = c /\ \A u \in Threads : u # t => call'[u] = call[u]
    BY <1>2, <1>10
  <2>2. BusyAt(t)'
    BY <1>6, <2>1 DEF BusyAt
  <2>3. BusyOK'
    BY <1>9, <2>1, <2>2, BusyKept DEF ObjectsIInv, OwnershipOK
  <2>4. QED BY <1>2, <1>6, <1>10, <2>1, <2>3 DEF ObjectsAssumption
<1>11. CASE ~values[v].owns \/ DropOf[values[v].kind] = "kept"
  <2>1. call' = [call EXCEPT ![t] = c] /\ objects' = objects /\ commands' = commands
    BY <1>11 DEF Drop, c
  <2>2. QED BY <1>3, <1>4, <1>7, <1>8, <1>10, <2>1, CommandsUnchanged, ObjectsStay
<1>12. CASE values[v].owns /\ DropOf[values[v].kind] = "commanded"
  <2>1. /\ call' = [call EXCEPT ![t] = c] /\ objects' = objects
        /\ commands' = IF HasRoom THEN Append(commands, Command("delete", a))
                                  ELSE commands
    BY <1>1, <1>12 DEF Drop, c
  <2>2. CASE ~HasRoom
    BY <1>3, <1>4, <1>7, <1>8, <1>10, <2>1, <2>2, CommandsUnchanged, ObjectsStay
  <2>3. CASE HasRoom
    <3>1. commands' = Append(commands, Command("delete", a))
      BY <2>1, <2>3
    <3>2. /\ a \in DOMAIN objects /\ a \in Addresses /\ objects[a].kind = "timer"
          /\ a \notin raw /\ ~Commanded(a, "delete")
      <4>1. objects[a].kind \in Kinds /\ objects[a].kind = values[v].kind
        BY <1>1, <1>12, OwnerFacts DEF ObjectType
      <4>2. objects[a].kind = "timer"
        BY <1>12, <4>1, OnlyTimersCommanded
      <4>3. QED BY <1>1, <1>12, <4>2, OwnerFacts
    <3>3. Command("delete", a) \in CommandType
      BY <3>2 DEF Command, CommandType
    <3>4. /\ CommandsOK' /\ commands' \in Seq(CommandType)
          /\ \A b : Commanded(b, "delete")' <=> Commanded(b, "delete") \/ a = b
      BY <2>1, <3>1, <3>2, <3>3, CommandSent DEF ObjectsIInv, OwnershipOK
    <3>5. \A w \in Values : values'[w].owns => ~Commanded(values[w].handle, "delete")'
      BY <1>7, <1>12, <3>4
    <3>6. \A b \in raw : ~Commanded(b, "delete")'
      BY <1>8, <3>2, <3>4
    <3>7. QED BY <1>3, <1>4, <1>7, <1>8, <1>10, <2>1, <3>4, <3>5, <3>6, ObjectsStay
  <2>4. QED BY <2>2, <2>3
<1>13. CASE /\ values[v].owns /\ DropOf[values[v].kind] # "kept"
            /\ DropOf[values[v].kind] # "commanded"
  <2>1. Deletes(t, a, c) /\ commands' = commands
    BY <1>1, <1>13 DEF Drop, c
  <2>2. /\ a \in DOMAIN objects /\ a \in Addresses /\ objects[a].kind # "timer"
        /\ objects[a].blocks \in Seq(Memory) /\ a \notin raw
    BY <1>1, <1>13, OwnerFacts DEF ObjectType, DropOf, TimerDrop
  <2>3. /\ objects' = Without(a)
        /\ call' = [call EXCEPT ![t] = [c EXCEPT !.frees = objects[a].blocks]]
    BY <2>1, <2>2 DEF Deletes
  <2>4. /\ call'[t] = [c EXCEPT !.frees = objects[a].blocks]
        /\ \A u \in Threads : u # t => call'[u] = call[u]
        /\ call' \in [Threads -> CallType]
    BY <1>2, <1>6, <2>2, <2>3 DEF CallType
  <2>5. /\ call'[t].step = "none" /\ call'[t].blocks = <<>>
        /\ call'[t].frees = objects[a].blocks /\ call'[t].timer = call[t].timer
    BY <1>6, <2>4 DEF CallType
  <2>6. BusyOK'
    <3>1. BusyAt(t)'
      BY <2>5 DEF BusyAt
    <3>2. QED BY <1>9, <2>4, <3>1, BusyKept DEF ObjectsIInv, OwnershipOK
  <2>7. call'[Daemon].timer = call[Daemon].timer
    BY <2>4, <2>5 DEF ObjectsAssumption
  <2>8. /\ CommandsOK' /\ CallbackOK' /\ commands' \in Seq(CommandType)
        /\ \A b : Commanded(b, "delete")' <=> Commanded(b, "delete")
    BY <2>1, <2>2, <2>3, <2>7, OtherObjectGoes
  <2>9. \A u \in Threads : call'[u].blocks = call[u].blocks
    BY <1>2, <2>4, <2>5
  <2>10. \A w \in Values : values'[w].owns =>
           /\ values[w].owns /\ values'[w].handle = values[w].handle
           /\ values'[w].kind = values[w].kind
           /\ values[w].handle # a /\ ~Commanded(values[w].handle, "delete")'
    BY <1>7, <1>13, <2>8
  <2>11. \A b \in raw' : b \in raw /\ b # a /\ ~Commanded(b, "delete")'
    BY <1>3, <1>8, <2>2, <2>8
  <2>12. /\ held' = held /\ ended' = ended /\ statics' = statics
         /\ objects' = Without(a) /\ call' \in [Threads -> CallType]
         /\ call'[t].frees = objects[a].blocks
         /\ \A u \in Threads : u # t => call'[u].frees = call[u].frees
    BY <1>3, <2>3, <2>4, <2>5
  <2>13. QED BY <1>4, <2>2, <2>6, <2>8, <2>9, <2>10, <2>11, <2>12, ObjectGoes
<1>14. QED BY <1>11, <1>12, <1>13

LEMMA ConsumedFacts ==
  ASSUME ObjectsIInv, NEW t \in Threads, NEW v \in Values
  PROVE  /\ Consumed(t, v) \in CallType /\ Consumed(t, v).step = "drop"
         /\ Consumed(t, v).value = v /\ Consumed(t, v).blocks = call[t].blocks
         /\ Consumed(t, v).frees = call[t].frees /\ Consumed(t, v).timer = call[t].timer
<1>1. call[t] \in CallType
  BY DEF ObjectsIInv, ObjectsTypeOK
<1>2. QED BY <1>1 DEF Consumed, CallType

LEMMA OnlySomeKept ==
  ASSUME ObjectsAssumption, NEW kind \in Kinds, DropOf[kind] = "kept"
  PROVE  kind \in {"stream", "message", "task"}
<1>1. kind \in {"queue", "mutex", "binary", "counting", "events", "stream",
               "message", "timer", "task"}
  BY DEF ObjectsAssumption
<1>2. CASE kind \in {"stream", "message", "task"}
  BY <1>2
<1>3. CASE kind = "timer"
  BY <1>3 DEF DropOf, TimerDrop
<1>4. CASE kind \in {"queue", "mutex", "binary", "counting", "events"}
  BY <1>4 DEF DropOf, QueueDrop, MutexDrop, BinarySemaphoreDrop, CountingSemaphoreDrop,
              EventGroupDrop
<1>5. QED BY <1>1, <1>2, <1>3, <1>4

LEMMA SentIsCommanded ==
  ASSUME commands \in Seq(CommandType), NEW name, NEW a,
         commands' = Append(commands, Command(name, a))
  PROVE  Commanded(a, name)'
<1>1. /\ Len(commands') = Len(commands) + 1 /\ Len(commands) \in Nat
      /\ commands'[Len(commands) + 1] = Command(name, a)
  OBVIOUS
<1>2. Len(commands) + 1 \in 1..Len(commands')
  BY <1>1
<1>3. QED BY <1>1, <1>2 DEF Commanded

LEMMA SpawnedKeeps ==
  ASSUME ObjectsAssumption, ObjectsIInv, NEW t \in Threads, Spawned(t)
  PROVE  ObjectsIInv'
<1>1. /\ call \in [Threads -> CallType] /\ values \in [Values -> ValueType]
      /\ call[t].step = "spawn" /\ BusyAt(t)
  BY DEF Spawned, ObjectsIInv, ObjectsTypeOK, OwnershipOK, BusyOK
<1>2. PICK v \in Values :
        /\ v = call[t].value /\ values[v].users = {t} /\ ~values[v].owns
        /\ "task" \in Kinds /\ call[t].frees = <<>>
  BY <1>1 DEF BusyAt
<1>3. /\ raw' = raw /\ commands' = commands /\ ended' = ended /\ statics' = statics
  BY DEF Spawned
<1>4. /\ call[t] \in CallType /\ call[t].blocks \in Seq(Memory)
  BY <1>1 DEF CallType
<1>5. \A w \in Values : w # v => values'[w] = values[w]
  BY <1>1, <1>2 DEF Spawned
<1>6. \A w \in Values : values'[w] # values[w] => t \in values[w].users
  BY <1>2, <1>5
<1>7. CASE Free = {}
  <2>1. /\ held' = held /\ objects' = objects
        /\ call' = [call EXCEPT ![t] = SpawnFails(@)]
        /\ values' = [values EXCEPT ![v] = NoValue]
    BY <1>2, <1>7 DEF Spawned, Allocates
  <2>2. /\ call'[t] = SpawnFails(call[t])
        /\ \A u \in Threads : u # t => call'[u] = call[u]
    BY <1>1, <2>1
  <2>3. /\ call'[t].step = "none" /\ call'[t].blocks = <<>>
        /\ call'[t].frees = call[t].blocks /\ call'[t].timer = call[t].timer
        /\ call'[t] \in CallType
    <3>1. call'[t] = [call[t] EXCEPT !.step = "none", !.value = Nowhere,
                                     !.blocks = <<>>, !.frees = call[t].blocks]
      BY <2>2 DEF SpawnFails
    <3>2. <<>> \in Seq(Memory)
      OBVIOUS
    <3>3. QED BY <1>4, <3>1, <3>2 DEF CallType
  <2>4. ~values'[v].owns /\ values' \in [Values -> ValueType]
    BY <1>1, <2>1 DEF NoValue, ValueType
  <2>5. ObjectsTypeOK'
    <3>1. call' \in [Threads -> CallType]
      BY <1>1, <2>1, <2>2, <2>3
    <3>2. QED BY <1>3, <2>1, <2>4, <3>1 DEF ObjectsIInv, ObjectsTypeOK
  <2>6. BusyOK'
    <3>1. BusyAt(t)'
      BY <2>3 DEF BusyAt
    <3>2. QED BY <1>6, <2>2, <3>1, BusyKept DEF ObjectsIInv, OwnershipOK
  <2>7. /\ CommandsOK' /\ \A b : Commanded(b, "delete")' <=> Commanded(b, "delete")
    BY <1>3, <2>1, CommandsUnchanged
  <2>8. CallbackOK'
    <3>1. call'[Daemon].timer = call[Daemon].timer
      BY <2>2, <2>3 DEF ObjectsAssumption
    <3>2. QED BY <2>1, <3>1 DEF ObjectsIInv, OwnershipOK, CallbackOK
  <2>9. OwnersOK' /\ RawOK' /\ PlacedOK'
    <3>1. \A w \in Values : values'[w].owns =>
            /\ values[w].owns /\ values'[w] = values[w]
            /\ values[w].handle \in DOMAIN objects /\ values[w].handle \notin raw
            /\ ~Commanded(values[w].handle, "delete")
      BY <1>5, <2>4, OwnerFacts
    <3>2. \A a \in raw : a \in DOMAIN objects /\ ~Commanded(a, "delete")
      BY DEF ObjectsIInv, OwnershipOK, RawOK
    <3>3. QED BY <1>3, <2>1, <2>7, <3>1, <3>2, OwnersKept DEF ObjectsIInv, OwnershipOK
  <2>10. BlocksOK'
    <3> DEFINE x == <<"freeing", t>>
               y == <<"creating", t>>
    <3>1. x \in Index /\ y \in Index /\ x # y
      BY InIndex
    <3>2. /\ Parts[x] = call[t].frees /\ Parts[y] = call[t].blocks
          /\ Parts'[x] = call'[t].frees /\ Parts'[y] = call'[t].blocks
      BY <3>1 DEF Parts
    <3>3. Parts[x] = <<>> /\ Parts'[x] = Parts[y] /\ Parts'[y] = <<>>
      BY <1>2, <2>3, <3>2
    <3>4. \A h \in Index : h # x /\ h # y => Parts'[h] = Parts[h]
      <4>1. /\ \A b \in Addresses : ObjectBlocks(b)' = ObjectBlocks(b)
            /\ \A s \in Seq(Memory) : EndedBlocks(s)' = EndedBlocks(s)
        BY <1>3, <2>1 DEF ObjectBlocks, EndedBlocks
      <4>2. /\ \A u \in Threads : <<"creating", u>> \notin {x, y} =>
                 call'[u].blocks = call[u].blocks
            /\ \A u \in Threads : <<"freeing", u>> \notin {x, y} =>
                 call'[u].frees = call[u].frees
        BY <2>2
      <4>3. \A h \in Index : h \notin {x, y} => Parts'[h] = Parts[h]
        BY <4>1, <4>2, PartsElsewhere
      <4>4. QED BY <4>3
    <3>5. Parts \in [Index -> Seq(Memory)] /\ Parts' \in [Index -> Seq(Memory)]
      BY <2>5, PartsType, PartsTypeNext DEF ObjectsIInv
    <3>6. Partitioned(Index, Parts', held)
      <4> HIDE DEF x, y
      <4> QED BY <3>1, <3>3, <3>4, <3>5, BlocksMoved DEF ObjectsIInv, BlocksOK
    <3>7. QED BY <2>1, <3>6 DEF BlocksOK, Partitioned
  <2>11. QED BY <2>5, <2>6, <2>7, <2>8, <2>9, <2>10 DEF ObjectsIInv, OwnershipOK
<1>8. CASE Free # {}
  <2>1. PICK o \in Memory : /\ o = Min(Free)
                            /\ o \notin held /\ o \in Addresses
                            /\ o \notin DOMAIN objects /\ o # Nowhere
    <3>1. Min(Free) \in Memory /\ Min(Free) # Nowhere
      BY <1>8, FreeIsNew DEF Nowhere, ObjectsAssumption
    <3>2. QED BY <1>8, <3>1, FreeIsNew
  <2>2. PICK s \in Seq(Memory) : s = Append(call[t].blocks, o)
    BY <1>4, AppendProperties
  <2>3. /\ held' = held \cup {o}
        /\ call' = [call EXCEPT ![t].step = "none", ![t].value = Nowhere,
                                ![t].blocks = <<>>]
        /\ objects' = Including(o, Object("task", s))
        /\ values' = [values EXCEPT ![v] = Made("task", o, t)]
    BY <1>2, <1>8, <2>1, <2>2 DEF Spawned, Allocates
  <2>4. /\ DOMAIN objects' = DOMAIN objects \cup {o}
        /\ objects'[o] = [kind |-> "task", blocks |-> s, active |-> FALSE]
        /\ \A a \in DOMAIN objects : objects'[a] = objects[a]
    BY <2>1, <2>3 DEF Including, Object
  <2>5. /\ call'[t] = [call[t] EXCEPT !.step = "none", !.value = Nowhere, !.blocks = <<>>]
        /\ \A u \in Threads : u # t => call'[u] = call[u]
    BY <1>1, <2>3
  <2>6. /\ call'[t].step = "none" /\ call'[t].blocks = <<>>
        /\ call'[t].frees = <<>> /\ call'[t].timer = call[t].timer
        /\ call'[t] \in CallType
    BY <1>2, <1>4, <2>5 DEF CallType
  <2>7. values'[v].owns /\ values'[v].handle = o /\ values'[v].kind = "task"
    BY <1>1, <2>3 DEF Made
  <2>8. ObjectsTypeOK'
    <3>1. objects'[o] \in ObjectType
      BY <1>2, <2>4 DEF ObjectType
    <3>2. /\ DOMAIN objects' \subseteq Addresses
          /\ \A a \in DOMAIN objects' : objects'[a] \in ObjectType
      BY <2>1, <2>4, <3>1 DEF ObjectsIInv, ObjectsTypeOK
    <3>3. Made("task", o, t) \in ValueType
      BY <1>2, <2>1 DEF Made, ValueType
    <3>4. values' \in [Values -> ValueType]
      BY <1>1, <2>3, <3>3
    <3>5. call' \in [Threads -> CallType]
      BY <1>1, <2>3, <2>5, <2>6
    <3>6. QED BY <1>3, <2>1, <2>3, <3>2, <3>4, <3>5 DEF ObjectsIInv, ObjectsTypeOK
  <2>9. CommandsOK' /\ \A a : Commanded(a, "delete")' <=> Commanded(a, "delete")
    BY <1>3, <2>4, CommandsKept DEF ObjectsIInv, OwnershipOK
  <2>10. OwnersOK'
    <3>1. o \notin raw /\ ~Commanded(o, "delete")
      BY <2>1, NotCommanded DEF ObjectsIInv, OwnershipOK, RawOK
    <3>2. \A w \in Values : ~(values[w].owns /\ values[w].handle = o)
      BY <2>1, OwnerFacts
    <3>3. QED BY <1>3, <1>5, <2>4, <2>7, <3>1, <3>2, OwnerAdded
                 DEF ObjectsIInv, OwnershipOK
  <2>11. RawOK'
    BY <1>3, <2>4, <2>9 DEF RawOK, ObjectsIInv, OwnershipOK
  <2>12. CallbackOK'
    <3>1. call'[Daemon].timer = call[Daemon].timer
      BY <2>5, <2>6 DEF ObjectsAssumption
    <3>2. QED BY <2>1, <2>4, <3>1 DEF ObjectsIInv, OwnershipOK, CallbackOK
  <2>13. BusyOK'
    <3>1. BusyAt(t)'
      BY <2>6 DEF BusyAt
    <3>2. QED BY <1>6, <2>5, <3>1, BusyKept DEF ObjectsIInv, OwnershipOK
  <2>14. PlacedOK'
    <3>1. o \in ToSet(s) /\ o \notin Statics
      BY <1>4, <2>1, <2>2, ItemsAppended DEF ObjectsAssumption
    <3>2. QED BY <1>3, <2>4, <3>1 DEF PlacedOK, ObjectsIInv, OwnershipOK
  <2>15. BlocksOK'
    <3> DEFINE x == <<"object", o>>
               y == <<"creating", t>>
               Q == [Parts EXCEPT ![y] = s]
    <3>1. x \in Index /\ y \in Index /\ x # y
      BY <2>1, InIndex
    <3>2. /\ Parts[x] = ObjectBlocks(o) /\ Parts[y] = call[t].blocks
          /\ Parts'[x] = ObjectBlocks(o)' /\ Parts'[y] = call'[t].blocks
      BY <3>1 DEF Parts
    <3>3. ObjectBlocks(o) = <<>> /\ ObjectBlocks(o)' = s
      BY <2>1, <2>4 DEF ObjectBlocks
    <3>4. Parts \in [Index -> Seq(Memory)] /\ Parts' \in [Index -> Seq(Memory)]
      BY <2>8, PartsType, PartsTypeNext DEF ObjectsIInv
    <3>5. /\ Q \in [Index -> Seq(Memory)] /\ Q[y] = s
          /\ \A h \in Index : h # y => Q[h] = Parts[h]
      BY <3>1, <3>4
    <3>6. \A h \in Index : h # x /\ h # y => Parts'[h] = Parts[h]
      <4>1. /\ \A b \in Addresses : <<"object", b>> \notin {x, y} =>
                 ObjectBlocks(b)' = ObjectBlocks(b)
            /\ \A w \in Seq(Memory) : EndedBlocks(w)' = EndedBlocks(w)
        BY <1>3, <2>4 DEF ObjectBlocks, EndedBlocks
      <4>2. /\ \A u \in Threads : <<"creating", u>> \notin {x, y} =>
                 call'[u].blocks = call[u].blocks
            /\ \A u \in Threads : call'[u].frees = call[u].frees
        BY <1>2, <2>5, <2>6
      <4>3. \A h \in Index : h \notin {x, y} => Parts'[h] = Parts[h]
        BY <4>1, <4>2, PartsElsewhere
      <4>4. QED BY <4>3
    <3> HIDE DEF x, y, Q
    <3>7. Partitioned(Index, Q, held \cup {o})
      BY <2>1, <2>2, <3>1, <3>2, <3>4, <3>5, BlockAdded DEF ObjectsIInv, BlocksOK
    <3>8. Q[x] = <<>> /\ Parts'[x] = Q[y] /\ Parts'[y] = <<>>
      BY <2>6, <3>1, <3>2, <3>3, <3>5
    <3>9. \A h \in Index : h # x /\ h # y => Parts'[h] = Q[h]
      BY <3>5, <3>6
    <3>10. Partitioned(Index, Parts', held \cup {o})
      <4>1. Q \in [Index -> Seq(Memory)] /\ Parts' \in [Index -> Seq(Memory)]
        BY <3>4, <3>5
      <4>2. QED BY <3>1, <3>7, <3>8, <3>9, <4>1, BlocksMoved
    <3>11. QED BY <2>3, <3>10 DEF BlocksOK, Partitioned
  <2>16. QED BY <2>8, <2>9, <2>10, <2>11, <2>12, <2>13, <2>14, <2>15
             DEF ObjectsIInv, OwnershipOK
<1>9. QED BY <1>7, <1>8
-----------------------------------------------------------------------------
(* Lending, moving, dropping and deleting.                                 *)

LEMMA RunsFacts ==
  ASSUME ObjectsIInv, NEW t \in Threads, Runs(t)
  PROVE  /\ call[t] \in CallType /\ call[t].step = "none"
         /\ call[t].frees = <<>> /\ call[t].blocks = <<>>
  BY DEF ObjectsIInv, ObjectsTypeOK, OwnershipOK, BusyOK, BusyAt, Runs

LEMMA UsersChanged ==
  ASSUME ObjectsAssumption, ObjectsIInv, NEW v \in Values,
         NEW U \in SUBSET (Threads \cup {Isr}),
         values' = [values EXCEPT ![v].users = U],
         UNCHANGED <<held, objects, call, raw, commands, ended, statics>>,
         Isr \in values[v].users \/ \E t \in Threads : Runs(t) /\ t \in values[v].users
  PROVE  ObjectsIInv'
<1>1. values \in [Values -> ValueType] /\ call \in [Threads -> CallType]
  BY DEF ObjectsIInv, ObjectsTypeOK
<1>2. /\ values'[v] = [values[v] EXCEPT !.users = U]
      /\ \A w \in Values : w # v => values'[w] = values[w]
  BY <1>1
<1>3. /\ values'[v] \in ValueType /\ values'[v].owns = values[v].owns
      /\ values'[v].handle = values[v].handle /\ values'[v].kind = values[v].kind
  <2>1. values[v] \in ValueType
    BY <1>1
  <2>2. QED BY <1>2, <2>1 DEF ValueType
<1>4. values' \in [Values -> ValueType]
  BY <1>1, <1>2, <1>3
<1>5. BusyOK'
  <2> SUFFICES ASSUME NEW u \in Threads PROVE BusyAt(u)'
    BY DEF BusyOK
  <2>1. BusyAt(u) /\ call' = call
    BY DEF ObjectsIInv, OwnershipOK, BusyOK
  <2>2. call[u].step # "none" => call[u].value # v
    BY <2>1, RunsFacts DEF BusyAt, ObjectsAssumption
  <2>3. call[u].step # "none" => values'[call[u].value] = values[call[u].value]
    BY <1>2, <2>1, <2>2 DEF BusyAt
  <2>4. QED BY <2>1, <2>3 DEF BusyAt
<1>6. /\ CommandsOK' /\ commands' \in Seq(CommandType)
      /\ \A b : Commanded(b, "delete")' <=> Commanded(b, "delete")
  BY CommandsUnchanged
<1>7. \A w \in Values : values'[w].owns =>
        /\ values[w].owns /\ values'[w].handle = values[w].handle
        /\ values'[w].kind = values[w].kind
        /\ values[w].handle \notin raw' /\ ~Commanded(values[w].handle, "delete")'
  BY <1>2, <1>3, <1>6, OwnerFacts
<1>8. \A a \in raw' : a \in DOMAIN objects /\ ~Commanded(a, "delete")'
  BY <1>6 DEF ObjectsIInv, OwnershipOK, RawOK
<1>9. QED BY <1>1, <1>4, <1>5, <1>6, <1>7, <1>8, ObjectsStay

LEMMA SharesKeeps ==
  ASSUME ObjectsAssumption, ObjectsIInv, NEW t \in Threads, NEW v \in Values,
         NEW u \in Threads \cup {Isr}, Shares(t, v, u) \/ Moves(t, v, u)
  PROVE  ObjectsIInv'
<1>1. PICK U \in SUBSET (Threads \cup {Isr}) : values' = [values EXCEPT ![v].users = U]
  <2>1. values[v].users \in SUBSET (Threads \cup {Isr})
    BY DEF ObjectsIInv, ObjectsTypeOK, ValueType
  <2>2. CASE Shares(t, v, u)
    <3>1. values' = [values EXCEPT ![v].users = values[v].users \cup {u}]
      BY <2>2 DEF Shares
    <3>2. QED BY <2>1, <3>1
  <2>3. CASE Moves(t, v, u)
    <3>1. values' = [values EXCEPT ![v].users = {u}]
      BY <2>3 DEF Moves
    <3>2. QED BY <3>1
  <2>4. QED BY <2>2, <2>3
<1>2. /\ Runs(t) /\ t \in values[v].users
      /\ UNCHANGED <<held, objects, call, raw, commands, ended, statics>>
  BY DEF Shares, Moves, SoleUser
<1>3. QED BY <1>1, <1>2, UsersChanged

LEMMA EndsKeeps ==
  ASSUME ObjectsAssumption, ObjectsIInv, NEW t \in Threads, NEW v \in Values, Ends(t, v)
  PROVE  ObjectsIInv'
<1>1. Runs(t) /\ t \in values[v].users
  BY DEF Ends
<1>2. CASE SoleUser(v, t)
  <2>1. /\ Drop(t, v) /\ values[v].users = {t}
        /\ call[t].step # "spawn" /\ call[t].frees = <<>>
    BY <1>1, <1>2, RunsFacts DEF Ends, SoleUser
  <2>2. QED BY <2>1, DropKeeps
<1>3. CASE ~SoleUser(v, t)
  <2>1. values' = [values EXCEPT ![v].users = values[v].users \ {t}]
        /\ UNCHANGED <<held, objects, call, raw, commands, ended, statics>>
    BY <1>3 DEF Ends
  <2>2. values[v].users \ {t} \in SUBSET (Threads \cup {Isr})
    BY DEF ObjectsIInv, ObjectsTypeOK, ValueType
  <2>3. PICK U \in SUBSET (Threads \cup {Isr}) : U = values[v].users \ {t}
    BY <2>2
  <2>4. QED BY <1>1, <2>1, <2>3, UsersChanged
<1>4. QED BY <1>2, <1>3

LEMMA DroppedKeeps ==
  ASSUME ObjectsAssumption, ObjectsIInv, NEW t \in Threads, Dropped(t)
  PROVE  ObjectsIInv'
<1>1. call[t].step = "drop" /\ call[t].frees = <<>> /\ Drop(t, call[t].value)
  BY DEF Dropped
<1>2. PICK v \in Values : v = call[t].value /\ values[v].users = {t}
  BY <1>1 DEF ObjectsIInv, OwnershipOK, BusyOK, BusyAt
<1>3. QED BY <1>1, <1>2, DropKeeps

\* v gives up the object it owns, and t goes on with v or not.
LEMMA OwnerLeaves ==
  ASSUME ObjectsAssumption, ObjectsIInv, NEW v \in Values, NEW x \in ValueType,
         values' = [values EXCEPT ![v] = x], ~x.owns
  PROVE  /\ values' \in [Values -> ValueType] /\ ~values'[v].owns
         /\ values'[v] = x
         /\ \A w \in Values : w # v => values'[w] = values[w]
         /\ \A w \in Values : values'[w].owns =>
              /\ values[w].owns /\ values'[w].handle = values[w].handle
              /\ values'[w].kind = values[w].kind
              /\ values[w].handle \notin raw /\ ~Commanded(values[w].handle, "delete")
              /\ values[v].owns => values[w].handle # values[v].handle
<1>1. values \in [Values -> ValueType]
  BY DEF ObjectsIInv, ObjectsTypeOK
<1>2. /\ values' \in [Values -> ValueType] /\ ~values'[v].owns /\ values'[v] = x
      /\ \A w \in Values : w # v => values'[w] = values[w]
  BY <1>1
<1>3. QED BY <1>2, OwnerFacts

LEMMA EndsInIsrKeeps ==
  ASSUME ObjectsAssumption, ObjectsIInv, NEW v \in Values, EndsInIsr(v)
  PROVE  ObjectsIInv'
<1>1. /\ Isr \in values[v].users
      /\ UNCHANGED <<held, objects, call, raw, commands, ended, statics>>
  BY DEF EndsInIsr
<1>2. CASE SoleUser(v, Isr)
  <2>1. values' = [values EXCEPT ![v] = NoValue]
    BY <1>2 DEF EndsInIsr
  <2>2. NoValue \in ValueType /\ ~NoValue.owns
    BY DEF NoValue, ValueType
  <2>3. /\ values' \in [Values -> ValueType]
        /\ \A w \in Values : w # v => values'[w] = values[w]
        /\ \A w \in Values : values'[w].owns =>
              /\ values[w].owns /\ values'[w].handle = values[w].handle
              /\ values'[w].kind = values[w].kind
              /\ values[w].handle \notin raw /\ ~Commanded(values[w].handle, "delete")
    BY <2>1, <2>2, OwnerLeaves
  <2>4. /\ CommandsOK' /\ commands' \in Seq(CommandType)
        /\ \A b : Commanded(b, "delete")' <=> Commanded(b, "delete")
    BY <1>1, CommandsUnchanged
  <2>5. BusyOK'
    <3>1. BusyAt(Daemon)'
      <4>1. BusyAt(Daemon) /\ Daemon \in Threads /\ Isr \notin Threads
        BY DEF ObjectsIInv, OwnershipOK, BusyOK, ObjectsAssumption
      <4>2. call[Daemon].step # "none" => values'[call[Daemon].value] = values[call[Daemon].value]
        BY <1>1, <2>3, <4>1 DEF BusyAt
      <4>3. QED BY <1>1, <4>1, <4>2 DEF BusyAt
    <3>2. \A w \in Values : values'[w] # values[w] => Isr \in values[w].users
      BY <1>1, <2>3
    <3>3. Daemon \in Threads /\ \A u \in Threads : u # Daemon => call'[u] = call[u]
      BY <1>1 DEF ObjectsAssumption
    <3>4. QED BY <3>1, <3>2, <3>3, BusyKept DEF ObjectsIInv, OwnershipOK
  <2>6. \A a \in raw' : a \in DOMAIN objects /\ ~Commanded(a, "delete")'
    BY <1>1, <2>4 DEF ObjectsIInv, OwnershipOK, RawOK
  <2>7. call' \in [Threads -> CallType] /\ call' = call
    BY <1>1 DEF ObjectsIInv, ObjectsTypeOK
  <2>8. QED BY <1>1, <2>3, <2>4, <2>5, <2>6, <2>7, ObjectsStay
<1>3. CASE ~SoleUser(v, Isr)
  <2>1. values' = [values EXCEPT ![v].users = values[v].users \ {Isr}]
    <3>1. values \in [Values -> ValueType]
      BY DEF ObjectsIInv, ObjectsTypeOK
    <3>2. values' = [values EXCEPT ![v] =
                       [values[v] EXCEPT !.users = values[v].users \ {Isr}]]
      BY <1>3 DEF EndsInIsr
    <3>3. QED BY <3>1, <3>2
  <2>2. values[v].users \ {Isr} \in SUBSET (Threads \cup {Isr})
    BY DEF ObjectsIInv, ObjectsTypeOK, ValueType
  <2>3. PICK U \in SUBSET (Threads \cup {Isr}) : U = values[v].users \ {Isr}
    BY <2>2
  <2>4. QED BY <1>1, <2>1, <2>3, UsersChanged
<1>4. QED BY <1>2, <1>3

\* The owner v leaves its object to a handle.
LEMMA IntoRawKeeps ==
  ASSUME ObjectsAssumption, ObjectsIInv, NEW t \in Threads, NEW v \in Values, into_raw(t, v)
  PROVE  ObjectsIInv'
<1>1. PICK a : a = values[v].handle
  OBVIOUS
<1>2. /\ Runs(t) /\ values[v].users = {t} /\ values[v].owns /\ raw' = raw \cup {a}
      /\ held' = held /\ objects' = objects /\ commands' = commands
      /\ ended' = ended /\ statics' = statics
  BY <1>1 DEF into_raw, SoleUser
<1>3. /\ values \in [Values -> ValueType] /\ call \in [Threads -> CallType]
      /\ values[v] \in ValueType /\ call[t] \in CallType
      /\ call[t].step = "none" /\ call[t].frees = <<>> /\ call[t].blocks = <<>>
  BY <1>2, RunsFacts DEF ObjectsIInv, ObjectsTypeOK
<1>4. /\ a \in DOMAIN objects /\ ~Commanded(a, "delete")
  BY <1>1, <1>2, OwnerFacts
<1>5. PICK x \in ValueType : /\ values' = [values EXCEPT ![v] = x] /\ ~x.owns
                             /\ values[v].kind = "task" \/ x.users = {t}
                             /\ \/ call' = call
                                \/ /\ call' = [call EXCEPT ![t] = Consumed(t, v)]
                                   /\ x.users = {t}
  <2>1. CASE values[v].kind = "task"
    <3>1. values' = [values EXCEPT ![v] = NoValue] /\ call' = call
      BY <2>1 DEF into_raw
    <3>2. NoValue \in ValueType /\ ~NoValue.owns
      BY DEF NoValue, ValueType
    <3>3. QED BY <2>1, <3>1, <3>2
  <2>2. CASE values[v].kind # "task"
    <3>1. /\ values' = [values EXCEPT ![v] = Disowned(values[v])]
          /\ call' = [call EXCEPT ![t] = Consumed(t, v)]
      BY <1>3, <2>2 DEF into_raw
    <3>2. /\ Disowned(values[v]) \in ValueType /\ ~Disowned(values[v]).owns
          /\ Disowned(values[v]).users = {t}
      BY <1>2, <1>3 DEF Disowned, ValueType
    <3>3. QED BY <3>1, <3>2
  <2>3. QED BY <2>1, <2>2
<1>6. /\ values' \in [Values -> ValueType] /\ ~values'[v].owns /\ values'[v] = x
      /\ \A w \in Values : w # v => values'[w] = values[w]
      /\ \A w \in Values : values'[w].owns =>
           /\ values[w].owns /\ values'[w].handle = values[w].handle
           /\ values'[w].kind = values[w].kind
           /\ values[w].handle \notin raw /\ ~Commanded(values[w].handle, "delete")
           /\ values[v].owns => values[w].handle # values[v].handle
  BY <1>5, OwnerLeaves
<1>7. /\ call' \in [Threads -> CallType] /\ BusyAt(t)' /\ call'[t].timer = call[t].timer
      /\ \A u \in Threads : u # t => call'[u] = call[u]
      /\ call'[t].blocks = <<>> /\ call'[t].frees = <<>>
  BY <1>3, <1>5, <1>6, ConsumedFacts DEF BusyAt
<1>8. BusyOK'
  <2>1. \A w \in Values : values'[w] # values[w] => t \in values[w].users
    BY <1>2, <1>6
  <2>2. QED BY <1>7, <2>1, BusyKept DEF ObjectsIInv, OwnershipOK
<1>9. /\ CommandsOK' /\ commands' \in Seq(CommandType)
      /\ \A b : Commanded(b, "delete")' <=> Commanded(b, "delete")
  BY <1>2, CommandsUnchanged
<1>10. \A b \in raw' : b \in DOMAIN objects /\ ~Commanded(b, "delete")'
  BY <1>2, <1>4, <1>9 DEF ObjectsIInv, OwnershipOK, RawOK
<1>11. \A w \in Values : values'[w].owns =>
         /\ values[w].owns /\ values'[w].handle = values[w].handle
         /\ values'[w].kind = values[w].kind
         /\ values[w].handle \notin raw' /\ ~Commanded(values[w].handle, "delete")'
  BY <1>1, <1>2, <1>6, <1>9
<1>12. /\ \A u \in Threads : call'[u].blocks = call[u].blocks
                             /\ call'[u].frees = call[u].frees
       /\ call'[Daemon].timer \in {Nowhere, call[Daemon].timer}
  BY <1>3, <1>7 DEF ObjectsAssumption
<1>13. QED BY <1>2, <1>6, <1>7, <1>8, <1>9, <1>10, <1>11, <1>12, ObjectsStay

LEMMA RawDeleteKeeps ==
  ASSUME ObjectsAssumption, ObjectsIInv, NEW t \in Threads, NEW a \in raw, RawDelete(t, a)
  PROVE  ObjectsIInv'
<1>1. /\ Runs(t) /\ raw' = raw \ {a} /\ Deletes(t, a, call[t])
      /\ held' = held /\ values' = values /\ commands' = commands
      /\ ended' = ended /\ statics' = statics /\ objects[a].kind # "timer"
  BY DEF RawDelete
<1>2. a \in DOMAIN objects /\ objects[a] \in ObjectType
  BY DEF ObjectsIInv, ObjectsTypeOK, OwnershipOK, RawOK
<1>3. /\ objects' = Without(a)
      /\ call' = [call EXCEPT ![t] = [call[t] EXCEPT !.frees = objects[a].blocks]]
  BY <1>1, <1>2 DEF Deletes
<1>4. /\ call \in [Threads -> CallType] /\ values \in [Values -> ValueType]
      /\ call[t] \in CallType
      /\ call[t].step = "none" /\ call[t].frees = <<>> /\ call[t].blocks = <<>>
  BY <1>1, RunsFacts DEF ObjectsIInv, ObjectsTypeOK
<1>5. /\ call' \in [Threads -> CallType]
      /\ call'[t].step = "none" /\ call'[t].blocks = <<>>
      /\ call'[t].frees = objects[a].blocks /\ call'[t].timer = call[t].timer
      /\ \A u \in Threads : u # t => call'[u] = call[u]
  <2>1. PICK s \in Seq(Memory) : s = objects[a].blocks
    BY <1>2 DEF ObjectType
  <2>2. /\ call'[t] = [call[t] EXCEPT !.frees = s]
        /\ \A u \in Threads : u # t => call'[u] = call[u]
    BY <1>3, <1>4, <2>1
  <2>3. call'[t] \in CallType
    BY <1>4, <2>2 DEF CallType
  <2>4. call' \in [Threads -> CallType]
    BY <1>3, <1>4, <2>2, <2>3
  <2>5. QED BY <1>4, <2>1, <2>2, <2>4 DEF CallType
<1>6. BusyOK'
  <2>1. BusyAt(t)'
    BY <1>5 DEF BusyAt
  <2>2. QED BY <1>1, <1>5, <2>1, BusyKept DEF ObjectsIInv, OwnershipOK
<1>7. call'[Daemon].timer = call[Daemon].timer
  BY <1>5 DEF ObjectsAssumption
<1>8. /\ CommandsOK' /\ CallbackOK' /\ commands' \in Seq(CommandType)
      /\ \A b : Commanded(b, "delete")' <=> Commanded(b, "delete")
  BY <1>1, <1>2, <1>3, <1>7, OtherObjectGoes
<1>9. \A w \in Values : values'[w].owns =>
        /\ values[w].owns /\ values'[w].handle = values[w].handle
        /\ values'[w].kind = values[w].kind
        /\ values[w].handle # a /\ ~Commanded(values[w].handle, "delete")'
  BY <1>1, <1>8, OwnerFacts
<1>10. \A b \in raw' : b \in raw /\ b # a /\ ~Commanded(b, "delete")'
  BY <1>1, <1>8 DEF ObjectsIInv, OwnershipOK, RawOK
<1>11. /\ \A u \in Threads : call'[u].blocks = call[u].blocks
       /\ \A u \in Threads : u # t => call'[u].frees = call[u].frees
       /\ values' \in [Values -> ValueType]
  BY <1>1, <1>4, <1>5
<1>12. QED BY <1>1, <1>2, <1>3, <1>4, <1>5, <1>6, <1>8, <1>9, <1>10, <1>11, ObjectGoes

LEMMA DeleteKeeps ==
  ASSUME ObjectsAssumption, ObjectsIInv, NEW t \in Threads, NEW v \in Values, delete(t, v)
  PROVE  ObjectsIInv'
<1>1. PICK a : a = values[v].handle
  OBVIOUS
<1>2. /\ Runs(t) /\ values[v].users = {t} /\ values[v].owns
      /\ DropOf[values[v].kind] # "commanded"
      /\ held' = held /\ raw' = raw /\ commands' = commands
      /\ ended' = ended /\ statics' = statics
  BY DEF delete, SoleUser
<1>3. /\ values \in [Values -> ValueType] /\ call \in [Threads -> CallType]
      /\ values[v] \in ValueType /\ call[t] \in CallType
      /\ call[t].step = "none" /\ call[t].frees = <<>> /\ call[t].blocks = <<>>
  BY <1>2, RunsFacts DEF ObjectsIInv, ObjectsTypeOK
<1>4. /\ a \in DOMAIN objects /\ objects[a] \in ObjectType /\ objects[a].kind # "timer"
      /\ a \notin raw
  BY <1>1, <1>2, OwnerFacts DEF DropOf, TimerDrop
<1>5. PICK x \in ValueType, c \in CallType :
        /\ values' = [values EXCEPT ![v] = x] /\ ~x.owns
        /\ Deletes(t, a, c)
        /\ c.blocks = <<>> /\ c.frees = <<>> /\ c.timer = call[t].timer
        /\ c.step = "none" \/ (c.step = "drop" /\ c.value = v /\ x.users = {t})
  <2>1. CASE DropOf[values[v].kind] = "kept"
    <3>1. values' = [values EXCEPT ![v] = NoValue] /\ Deletes(t, a, call[t])
      BY <1>1, <2>1 DEF delete
    <3>2. NoValue \in ValueType /\ ~NoValue.owns
      BY DEF NoValue, ValueType
    <3>3. QED BY <1>3, <3>1, <3>2
  <2>2. CASE DropOf[values[v].kind] # "kept"
    <3>1. /\ values' = [values EXCEPT ![v] = Disowned(values[v])]
          /\ Deletes(t, a, Consumed(t, v))
      BY <1>1, <1>3, <2>2 DEF delete
    <3>2. /\ Disowned(values[v]) \in ValueType /\ ~Disowned(values[v]).owns
          /\ Disowned(values[v]).users = {t}
      BY <1>2, <1>3 DEF Disowned, ValueType
    <3>3. /\ Consumed(t, v) \in CallType
          /\ Consumed(t, v).blocks = <<>> /\ Consumed(t, v).frees = <<>>
          /\ Consumed(t, v).timer = call[t].timer
          /\ Consumed(t, v).step = "drop" /\ Consumed(t, v).value = v
      BY <1>3, ConsumedFacts
    <3>4. QED BY <3>1, <3>2, <3>3
  <2>3. QED BY <2>1, <2>2
<1>6. /\ values' \in [Values -> ValueType] /\ ~values'[v].owns /\ values'[v] = x
      /\ \A w \in Values : w # v => values'[w] = values[w]
      /\ \A w \in Values : values'[w].owns =>
           /\ values[w].owns /\ values'[w].handle = values[w].handle
           /\ values'[w].kind = values[w].kind
           /\ values[w].handle \notin raw /\ ~Commanded(values[w].handle, "delete")
           /\ values[v].owns => values[w].handle # values[v].handle
  BY <1>5, OwnerLeaves
<1>7. /\ objects' = Without(a)
      /\ call' = [call EXCEPT ![t] = [c EXCEPT !.frees = objects[a].blocks]]
  BY <1>4, <1>5 DEF Deletes
<1>8. /\ call' \in [Threads -> CallType]
      /\ call'[t].step = c.step /\ call'[t].value = c.value /\ call'[t].blocks = <<>>
      /\ call'[t].frees = objects[a].blocks /\ call'[t].timer = call[t].timer
      /\ \A u \in Threads : u # t => call'[u] = call[u]
  <2>1. PICK s \in Seq(Memory) : s = objects[a].blocks
    BY <1>4 DEF ObjectType
  <2>2. /\ call'[t] = [c EXCEPT !.frees = s]
        /\ \A u \in Threads : u # t => call'[u] = call[u]
    BY <1>3, <1>7, <2>1
  <2>3. call'[t] \in CallType
    BY <2>2 DEF CallType
  <2>4. call' \in [Threads -> CallType]
    BY <1>3, <1>7, <2>2, <2>3
  <2>5. QED BY <1>5, <2>1, <2>2, <2>4 DEF CallType
<1>9. BusyOK'
  <2>1. BusyAt(t)'
    BY <1>5, <1>6, <1>8 DEF BusyAt
  <2>2. \A w \in Values : values'[w] # values[w] => t \in values[w].users
    BY <1>2, <1>6
  <2>3. QED BY <1>8, <2>1, <2>2, BusyKept DEF ObjectsIInv, OwnershipOK
<1>10. call'[Daemon].timer = call[Daemon].timer
  BY <1>8 DEF ObjectsAssumption
<1>11. /\ CommandsOK' /\ CallbackOK' /\ commands' \in Seq(CommandType)
       /\ \A b : Commanded(b, "delete")' <=> Commanded(b, "delete")
  BY <1>2, <1>4, <1>7, <1>10, OtherObjectGoes
<1>12. \A w \in Values : values'[w].owns =>
         /\ values[w].owns /\ values'[w].handle = values[w].handle
         /\ values'[w].kind = values[w].kind
         /\ values[w].handle # a /\ ~Commanded(values[w].handle, "delete")'
  BY <1>1, <1>2, <1>6, <1>11
<1>13. \A b \in raw' : b \in raw /\ b # a /\ ~Commanded(b, "delete")'
  BY <1>2, <1>4, <1>11 DEF ObjectsIInv, OwnershipOK, RawOK
<1>14. /\ \A u \in Threads : call'[u].blocks = call[u].blocks
       /\ \A u \in Threads : u # t => call'[u].frees = call[u].frees
  BY <1>3, <1>8
<1>15. QED BY <1>2, <1>3, <1>4, <1>6, <1>7, <1>8, <1>9, <1>11, <1>12, <1>13, <1>14,
              ObjectGoes

LEMMA FromRawOwnedKeeps ==
  ASSUME ObjectsAssumption, ObjectsIInv, NEW t \in Threads, NEW v \in Values, NEW a \in raw,
         from_raw_owned(t, v, a)
  PROVE  ObjectsIInv'
<1>1. /\ Runs(t) /\ objects[a].kind = "task" /\ values[v] = NoValue /\ raw' = raw \ {a}
      /\ values' = [values EXCEPT ![v] = Made("task", a, t)]
      /\ UNCHANGED <<held, objects, call, commands, ended, statics>>
  BY DEF from_raw_owned
<1>2. /\ a \in DOMAIN objects /\ a \in Addresses /\ objects[a] \in ObjectType
      /\ ~Commanded(a, "delete") /\ values \in [Values -> ValueType]
  BY DEF ObjectsIInv, ObjectsTypeOK, OwnershipOK, RawOK
<1>3. /\ values'[v].owns /\ values'[v].handle = a /\ values'[v].kind = "task"
      /\ \A w \in Values : w # v => values'[w] = values[w]
  BY <1>1, <1>2 DEF Made
<1>4. ObjectsTypeOK'
  <2>1. "task" \in Kinds
    BY <1>1, <1>2 DEF ObjectType
  <2>2. Made("task", a, t) \in ValueType
    BY <1>2, <2>1 DEF Made, ValueType
  <2>3. values' \in [Values -> ValueType]
    BY <1>1, <1>2, <2>2
  <2>4. QED BY <1>1, <2>3 DEF ObjectsIInv, ObjectsTypeOK
<1>5. OwnersOK'
  <2>1. \A w \in Values : ~(values[w].owns /\ values[w].handle = a)
    BY OwnerFacts
  <2>2. QED BY <1>1, <1>2, <1>3, <2>1, OwnerAdded DEF ObjectsIInv, OwnershipOK
<1>6. CommandsOK' /\ RawOK' /\ CallbackOK' /\ PlacedOK'
  <2>1. /\ CommandsOK' /\ \A b : Commanded(b, "delete")' <=> Commanded(b, "delete")
    BY <1>1, CommandsUnchanged
  <2>2. RawOK'
    BY <1>1, <2>1 DEF ObjectsIInv, OwnershipOK, RawOK
  <2>3. CallbackOK' /\ PlacedOK'
    BY <1>1 DEF ObjectsIInv, OwnershipOK, CallbackOK, PlacedOK
  <2>4. QED BY <2>1, <2>2, <2>3
<1>7. BusyOK'
  <2>1. BusyAt(t)'
    BY <1>1, RunsFacts DEF BusyAt
  <2>2. \A w \in Values : values'[w] # values[w] => values[w].users = {}
    BY <1>1, <1>3 DEF NoValue
  <2>3. QED BY <1>1, <2>1, <2>2, BusyKept DEF ObjectsIInv, OwnershipOK
<1>8. BlocksOK'
  <2>1. \A b \in Addresses : ObjectBlocks(b)' = ObjectBlocks(b)
    BY <1>1 DEF ObjectBlocks
  <2>2. QED BY <1>1, <1>4, <2>1, BlocksKept DEF ObjectsIInv
<1>9. QED BY <1>4, <1>5, <1>6, <1>7, <1>8 DEF ObjectsIInv, OwnershipOK

LEMMA FreesKeeps ==
  ASSUME ObjectsAssumption, ObjectsIInv, NEW t \in Threads, Frees(t)
  PROVE  ObjectsIInv'
<1>1. /\ call[t].frees # <<>> /\ held' = held \ {Head(call[t].frees)}
      /\ call' = [call EXCEPT ![t].frees = Tail(call[t].frees)]
      /\ UNCHANGED <<objects, values, raw, commands, ended, statics>>
  <2>1. call \in [Threads -> CallType]
    BY DEF ObjectsIInv, ObjectsTypeOK
  <2>2. QED BY <2>1 DEF Frees
<1>2. /\ call \in [Threads -> CallType] /\ call[t] \in CallType
      /\ call[t].frees \in Seq(Memory)
  BY DEF ObjectsIInv, ObjectsTypeOK, CallType
<1>3. Tail(call[t].frees) \in Seq(Memory)
  BY <1>1, <1>2, HeadTailProperties
<1>4. /\ call'[t] = [call[t] EXCEPT !.frees = Tail(call[t].frees)]
      /\ \A u \in Threads : u # t => call'[u] = call[u]
  BY <1>1, <1>2
<1>5. /\ call'[t] \in CallType /\ call'[t].step = call[t].step
      /\ call'[t].value = call[t].value /\ call'[t].blocks = call[t].blocks
      /\ call'[t].timer = call[t].timer /\ call'[t].frees = Tail(call[t].frees)
  BY <1>2, <1>3, <1>4 DEF CallType
<1>6. ObjectsTypeOK'
  <2>1. call' \in [Threads -> CallType]
    BY <1>1, <1>2, <1>4, <1>5
  <2>2. QED BY <1>1, <2>1 DEF ObjectsIInv, ObjectsTypeOK
<1>7. OwnersOK' /\ RawOK' /\ CommandsOK' /\ PlacedOK'
  BY <1>1 DEF ObjectsIInv, OwnershipOK, OwnersOK, RawOK, CommandsOK, PlacedOK, Commanded
<1>8. CallbackOK'
  <2>1. call'[Daemon].timer = call[Daemon].timer
    BY <1>4, <1>5 DEF ObjectsAssumption
  <2>2. QED BY <1>1, <2>1 DEF ObjectsIInv, OwnershipOK, CallbackOK
<1>9. BusyOK'
  <2>1. BusyAt(t)
    BY DEF ObjectsIInv, OwnershipOK, BusyOK
  <2>2. BusyAt(t)'
    BY <1>1, <1>5, <2>1 DEF BusyAt
  <2>3. QED BY <1>1, <1>4, <2>2, BusyKept DEF ObjectsIInv, OwnershipOK
<1>10. BlocksOK'
  <2> DEFINE x == <<"freeing", t>>
  <2>1. x \in Index
    BY InIndex
  <2>2. Parts[x] = call[t].frees /\ Parts'[x] = call'[t].frees
    BY <2>1 DEF Parts
  <2>3. Parts[x] # <<>> /\ Parts'[x] = Tail(Parts[x])
    BY <1>1, <1>5, <2>2
  <2>4. \A h \in Index : h # x => Parts'[h] = Parts[h]
    <3>1. /\ \A b \in Addresses : ObjectBlocks(b)' = ObjectBlocks(b)
          /\ \A s \in Seq(Memory) : EndedBlocks(s)' = EndedBlocks(s)
      BY <1>1 DEF ObjectBlocks, EndedBlocks
    <3>2. /\ \A u \in Threads : call'[u].blocks = call[u].blocks
          /\ \A u \in Threads : <<"freeing", u>> \notin {x} =>
               call'[u].frees = call[u].frees
      BY <1>4, <1>5
    <3>3. \A h \in Index : h \notin {x} => Parts'[h] = Parts[h]
      BY <3>1, <3>2, PartsElsewhere
    <3>4. QED BY <3>3
  <2>5. Parts \in [Index -> Seq(Memory)] /\ Parts' \in [Index -> Seq(Memory)]
    BY <1>6, PartsType, PartsTypeNext DEF ObjectsIInv
  <2> HIDE DEF x
  <2>6. Partitioned(Index, Parts', held \ {Head(Parts[x])})
    BY <2>1, <2>3, <2>4, <2>5, BlockFreed DEF ObjectsIInv, BlocksOK
  <2>7. held' = held \ {Head(Parts[x])}
    BY <1>1, <2>2
  <2>8. QED BY <2>6, <2>7 DEF BlocksOK, Partitioned
<1>11. QED BY <1>6, <1>7, <1>8, <1>9, <1>10 DEF ObjectsIInv, OwnershipOK
-----------------------------------------------------------------------------
(* Timers and tasks that delete themselves.                                *)

\* A task that is between two calls begins to use v up.
LEMMA ConsumedKeeps ==
  ASSUME ObjectsAssumption, ObjectsIInv, NEW t \in Threads, NEW v \in Values,
         Runs(t), values[v].users = {t}, values[v].owns,
         UNCHANGED <<held, objects, raw, ended, statics>>,
         values' = [values EXCEPT ![v] = Disowned(values[v])],
         call' = [call EXCEPT ![t] = Consumed(t, v)],
         commands' \in Seq(CommandType), CommandsOK',
         \A b : Commanded(b, "delete")' <=>
                  Commanded(b, "delete") \/ b = values[v].handle
  PROVE  ObjectsIInv'
<1>1. /\ values \in [Values -> ValueType] /\ call \in [Threads -> CallType]
      /\ values[v] \in ValueType
      /\ call[t].step = "none" /\ call[t].frees = <<>> /\ call[t].blocks = <<>>
  BY RunsFacts DEF ObjectsIInv, ObjectsTypeOK
<1>2. PICK x \in ValueType : x = Disowned(values[v]) /\ ~x.owns /\ x.users = {t}
  <2>1. /\ Disowned(values[v]) \in ValueType /\ ~Disowned(values[v]).owns
        /\ Disowned(values[v]).users = {t}
    BY <1>1 DEF Disowned, ValueType
  <2>2. QED BY <2>1
<1>3. values' = [values EXCEPT ![v] = x]
  BY <1>2
<1>4. /\ values' \in [Values -> ValueType] /\ ~values'[v].owns /\ values'[v] = x
      /\ \A w \in Values : w # v => values'[w] = values[w]
      /\ \A w \in Values : values'[w].owns =>
           /\ values[w].owns /\ values'[w].handle = values[w].handle
           /\ values'[w].kind = values[w].kind
           /\ values[w].handle \notin raw /\ ~Commanded(values[w].handle, "delete")
           /\ values[v].owns => values[w].handle # values[v].handle
  BY <1>2, <1>3, OwnerLeaves
<1>5. /\ call' \in [Threads -> CallType] /\ call'[t] = Consumed(t, v)
      /\ \A u \in Threads : u # t => call'[u] = call[u]
  BY <1>1, ConsumedFacts
<1>6. /\ BusyAt(t)' /\ call'[t].timer = call[t].timer
      /\ call'[t].blocks = <<>> /\ call'[t].frees = <<>>
  BY <1>1, <1>2, <1>4, <1>5, ConsumedFacts DEF BusyAt
<1>7. BusyOK'
  <2>1. \A w \in Values : values'[w] # values[w] => t \in values[w].users
    BY <1>4
  <2>2. QED BY <1>5, <1>6, <2>1, BusyKept DEF ObjectsIInv, OwnershipOK
<1>8. \A b \in raw' : b \in DOMAIN objects /\ ~Commanded(b, "delete")'
  BY OwnerFacts DEF ObjectsIInv, OwnershipOK, RawOK
<1>9. \A w \in Values : values'[w].owns =>
        /\ values[w].owns /\ values'[w].handle = values[w].handle
        /\ values'[w].kind = values[w].kind
        /\ values[w].handle \notin raw' /\ ~Commanded(values[w].handle, "delete")'
  BY <1>4
<1>10. /\ \A u \in Threads : call'[u].blocks = call[u].blocks
                             /\ call'[u].frees = call[u].frees
       /\ call'[Daemon].timer \in {Nowhere, call[Daemon].timer}
  BY <1>1, <1>5, <1>6 DEF ObjectsAssumption
<1>11. QED BY <1>4, <1>5, <1>7, <1>8, <1>9, <1>10, ObjectsStay

LEMMA DeleteTimerKeeps ==
  ASSUME ObjectsAssumption, ObjectsIInv, NEW t \in Threads, NEW v \in Values,
         DeleteTimer(t, v)
  PROVE  ObjectsIInv'
<1>1. PICK a : a = values[v].handle
  OBVIOUS
<1>2. /\ Runs(t) /\ values[v].users = {t} /\ values[v].owns /\ values[v].kind = "timer"
      /\ commands' = Append(commands, Command("delete", a))
      /\ values' = [values EXCEPT ![v] = Disowned(values[v])]
      /\ call' = [call EXCEPT ![t] = Consumed(t, v)]
      /\ UNCHANGED <<held, objects, raw, ended, statics>>
  <2>1. values \in [Values -> ValueType]
    BY DEF ObjectsIInv, ObjectsTypeOK
  <2>2. QED BY <1>1, <2>1 DEF DeleteTimer, SoleUser
<1>3. /\ a \in DOMAIN objects /\ a \in Addresses /\ objects[a].kind = "timer"
      /\ ~Commanded(a, "delete")
  BY <1>1, <1>2, OwnerFacts
<1>4. Command("delete", a) \in CommandType
  BY <1>3 DEF Command, CommandType
<1>5. /\ CommandsOK' /\ commands' \in Seq(CommandType)
      /\ \A b : Commanded(b, "delete")' <=> Commanded(b, "delete") \/ a = b
  BY <1>2, <1>3, <1>4, CommandSent DEF ObjectsIInv, OwnershipOK
<1>6. QED BY <1>1, <1>2, <1>5, ConsumedKeeps

\* Commands are sent and everything else stays, except that a handle may be used up.
LEMMA SentKeeps ==
  ASSUME ObjectsAssumption, ObjectsIInv, NEW name, NEW a,
         Command(name, a) \in CommandType,
         name = "delete" => a \in raw /\ objects[a].kind = "timer",
         raw' = IF name = "delete" THEN raw \ {a} ELSE raw,
         commands' = Append(commands, Command(name, a)),
         UNCHANGED <<held, objects, values, call, ended, statics>>
  PROVE  ObjectsIInv'
<1>1. name = "delete" => a \in DOMAIN objects /\ ~Commanded(a, "delete")
  BY DEF ObjectsIInv, OwnershipOK, RawOK
<1>2. /\ CommandsOK' /\ commands' \in Seq(CommandType)
      /\ \A b : Commanded(b, "delete")' <=>
                  Commanded(b, "delete") \/ (name = "delete" /\ a = b)
  BY <1>1, CommandSent DEF ObjectsIInv, OwnershipOK
<1>3. BusyOK'
  BY DEF ObjectsIInv, OwnershipOK, BusyOK, BusyAt
<1>4. \A b \in raw' : b \in DOMAIN objects /\ ~Commanded(b, "delete")'
  BY <1>2 DEF ObjectsIInv, OwnershipOK, RawOK
<1>5. \A w \in Values : values'[w].owns =>
        /\ values[w].owns /\ values'[w].handle = values[w].handle
        /\ values'[w].kind = values[w].kind
        /\ values[w].handle \notin raw' /\ ~Commanded(values[w].handle, "delete")'
  BY <1>2, OwnerFacts
<1>6. values' \in [Values -> ValueType] /\ call' \in [Threads -> CallType]
  BY DEF ObjectsIInv, ObjectsTypeOK
<1>7. QED BY <1>2, <1>3, <1>4, <1>5, <1>6, ObjectsStay

LEMMA RawDeleteTimerKeeps ==
  ASSUME ObjectsAssumption, ObjectsIInv, NEW t \in Threads, NEW a \in raw,
         RawDeleteTimer(t, a)
  PROVE  ObjectsIInv'
<1>1. /\ objects[a].kind = "timer" /\ raw' = raw \ {a}
      /\ commands' = Append(commands, Command("delete", a))
      /\ UNCHANGED <<held, objects, values, call, ended, statics>>
  BY DEF RawDeleteTimer
<1>2. Command("delete", a) \in CommandType
  BY DEF Command, CommandType, ObjectsIInv, ObjectsTypeOK, OwnershipOK, RawOK
<1>3. QED BY <1>1, <1>2, SentKeeps

LEMMA SendsCommandKeeps ==
  ASSUME ObjectsAssumption, ObjectsIInv, NEW v \in Values, NEW name \in {"start", "stop"},
         SendsCommand(v, name) \/ (name = "start" /\ Rearms(v))
  PROVE  ObjectsIInv'
<1>1. PICK a \in Addresses \cup {Nowhere} : a = values[v].handle
  BY DEF ObjectsIInv, ObjectsTypeOK, ValueType
<1>2. /\ commands' = Append(commands, Command(name, a))
      /\ UNCHANGED <<held, objects, values, call, raw, ended, statics>>
  BY <1>1 DEF SendsCommand, Rearms
<1>3. Command(name, a) \in CommandType
  BY <1>1 DEF Command, CommandType
<1>4. QED BY <1>2, <1>3, SentKeeps

LEMMA ExpiredKeeps ==
  ASSUME ObjectsAssumption, ObjectsIInv, NEW a \in DOMAIN objects,
         prvProcessExpiredTimer(a)
  PROVE  ObjectsIInv'
<1>1. PICK reload \in BOOLEAN : objects' = [objects EXCEPT ![a].active = reload]
  BY DEF prvProcessExpiredTimer
<1>2. /\ call[Daemon] = NoCall /\ objects[a].kind = "timer"
      /\ call' = [call EXCEPT ![Daemon].timer = a]
      /\ UNCHANGED <<held, values, raw, commands, ended, statics>>
  BY DEF prvProcessExpiredTimer, DaemonIsFree
<1>3. /\ call \in [Threads -> CallType] /\ Daemon \in Threads /\ a \in Addresses
      /\ objects[a] \in ObjectType
  BY DEF ObjectsIInv, ObjectsTypeOK, ObjectsAssumption
<1>4. /\ DOMAIN objects' = DOMAIN objects
      /\ objects'[a] = [objects[a] EXCEPT !.active = reload]
      /\ \A b \in DOMAIN objects : b # a => objects'[b] = objects[b]
  BY <1>1
<1>5. /\ objects'[a] \in ObjectType /\ objects'[a].kind = objects[a].kind
      /\ objects'[a].blocks = objects[a].blocks
  BY <1>3, <1>4 DEF ObjectType
<1>6. /\ call'[Daemon] = [call[Daemon] EXCEPT !.timer = a]
      /\ \A u \in Threads : u # Daemon => call'[u] = call[u]
  BY <1>2, <1>3
<1>7. /\ call'[Daemon] \in CallType /\ call'[Daemon].step = "none"
      /\ call'[Daemon].blocks = <<>> /\ call'[Daemon].frees = <<>>
      /\ call'[Daemon].timer = a
      /\ call[Daemon].blocks = <<>> /\ call[Daemon].frees = <<>>
  <2>1. call[Daemon] \in CallType
    BY <1>3
  <2>2. /\ call[Daemon].step = "none" /\ call[Daemon].blocks = <<>>
        /\ call[Daemon].frees = <<>>
    BY <1>2 DEF NoCall
  <2>3. call'[Daemon] \in CallType
    BY <1>3, <1>6, <2>1 DEF CallType
  <2>4. QED BY <1>6, <2>1, <2>2, <2>3 DEF CallType
<1>8. ObjectsTypeOK'
  <2>1. call' \in [Threads -> CallType]
    BY <1>2, <1>3, <1>6, <1>7
  <2>2. \A b \in DOMAIN objects' : objects'[b] \in ObjectType
    BY <1>4, <1>5 DEF ObjectsIInv, ObjectsTypeOK
  <2>3. QED BY <1>2, <1>4, <2>1, <2>2 DEF ObjectsIInv, ObjectsTypeOK
<1>9. OwnersOK' /\ RawOK' /\ CommandsOK' /\ PlacedOK'
  <2>1. \A b \in DOMAIN objects : /\ objects'[b].kind = objects[b].kind
                                  /\ objects'[b].blocks = objects[b].blocks
    BY <1>4, <1>5
  <2>2. OwnersOK' /\ RawOK'
    BY <1>2, <1>4, <2>1 DEF ObjectsIInv, OwnershipOK, OwnersOK, RawOK, Commanded
  <2>3. CommandsOK'
    BY <1>2, <1>4, <2>1 DEF ObjectsIInv, OwnershipOK, CommandsOK
  <2>4. PlacedOK'
    BY <1>2, <1>4, <2>1 DEF ObjectsIInv, OwnershipOK, PlacedOK
  <2>5. QED BY <2>2, <2>3, <2>4
<1>10. CallbackOK'
  BY <1>2, <1>4, <1>5, <1>7 DEF CallbackOK
<1>11. BusyOK'
  <2>1. BusyAt(Daemon)'
    BY <1>7 DEF BusyAt
  <2>2. QED BY <1>2, <1>3, <1>6, <2>1, BusyKept DEF ObjectsIInv, OwnershipOK
<1>12. BlocksOK'
  <2>1. \A b \in Addresses : ObjectBlocks(b)' = ObjectBlocks(b)
    BY <1>4, <1>5 DEF ObjectBlocks
  <2>2. \A u \in Threads : call'[u].blocks = call[u].blocks
                           /\ call'[u].frees = call[u].frees
    BY <1>6, <1>7
  <2>3. QED BY <1>2, <1>8, <2>1, <2>2, BlocksKept DEF ObjectsIInv
<1>13. QED BY <1>8, <1>9, <1>10, <1>11, <1>12 DEF ObjectsIInv, OwnershipOK

\* The command the daemon receives.
LEMMA FirstCommand ==
  ASSUME ObjectsIInv, commands # <<>>, commands' = Tail(commands)
  PROVE  /\ Head(commands) \in CommandType /\ Tail(commands) \in Seq(CommandType)
         /\ 1 \in 1..Len(commands) /\ Head(commands) = commands[1]
         /\ \A i \in 1..Len(commands') :
              i + 1 \in 1..Len(commands) /\ commands'[i] = commands[i + 1]
         /\ \A b : Commanded(b, "delete")' => Commanded(b, "delete")
<1>1. commands \in Seq(CommandType)
  BY DEF ObjectsIInv, ObjectsTypeOK
<1>2. /\ Head(commands) \in CommandType /\ Tail(commands) \in Seq(CommandType)
      /\ Head(commands) = commands[1] /\ Len(commands) \in Nat /\ Len(commands) > 0
      /\ Len(Tail(commands)) = Len(commands) - 1
      /\ \A i \in 1..Len(Tail(commands)) : Tail(commands)[i] = commands[i + 1]
  BY <1>1, HeadTailProperties, ElementOfSeq
<1>3. \A i \in 1..Len(commands') :
        i + 1 \in 1..Len(commands) /\ commands'[i] = commands[i + 1]
  BY <1>2
<1>4. \A b : Commanded(b, "delete")' => Commanded(b, "delete")
  BY <1>3 DEF Commanded
<1>5. QED BY <1>2, <1>3, <1>4

LEMMA ReceivedKeeps ==
  ASSUME ObjectsAssumption, ObjectsIInv, prvProcessReceivedCommands
  PROVE  ObjectsIInv'
<1>1. /\ call[Daemon] = NoCall /\ commands # <<>> /\ commands' = Tail(commands)
      /\ UNCHANGED <<held, values, raw, ended, statics>>
  BY DEF prvProcessReceivedCommands, DaemonIsFree
<1>2. /\ Head(commands) \in CommandType /\ Tail(commands) \in Seq(CommandType)
      /\ 1 \in 1..Len(commands) /\ Head(commands) = commands[1]
      /\ \A i \in 1..Len(commands') :
           i + 1 \in 1..Len(commands) /\ commands'[i] = commands[i + 1]
      /\ \A b : Commanded(b, "delete")' => Commanded(b, "delete")
  BY <1>1, FirstCommand
<1>3. PICK a : a = Head(commands).timer
  OBVIOUS
<1>4. /\ call \in [Threads -> CallType] /\ Daemon \in Threads
      /\ values \in [Values -> ValueType]
      /\ NoCall \in CallType /\ NoCall.frees = <<>> /\ NoCall.blocks = <<>>
      /\ NoCall.step = "none" /\ NoCall.timer = Nowhere
  BY DEF ObjectsIInv, ObjectsTypeOK, ObjectsAssumption, NoCall, CallType
<1>5. /\ 1..Len(commands) \subseteq Int /\ 1..Len(commands') \subseteq Int
  OBVIOUS
<1>6. CASE Head(commands).name = "delete"
  <2>1. /\ a \in DOMAIN objects /\ objects[a].kind = "timer"
        /\ \A j \in 1..Len(commands) : commands[j] = commands[1] => j = 1
    BY <1>2, <1>3, <1>6 DEF ObjectsIInv, OwnershipOK, CommandsOK
  <2>2. \A i \in 1..Len(commands') : commands'[i].name = "delete" => commands'[i].timer # a
    <3>1. SUFFICES ASSUME NEW i \in 1..Len(commands'), commands'[i].name = "delete",
                          commands'[i].timer = a
                   PROVE  FALSE
      OBVIOUS
    <3>2. commands[i + 1] \in CommandType /\ commands[1] \in CommandType
      BY <1>2, ElementOfSeq DEF ObjectsIInv, ObjectsTypeOK
    <3>3. commands[i + 1] = commands[1]
      BY <1>2, <1>3, <1>6, <3>1, <3>2 DEF CommandType
    <3>4. i + 1 = 1
      BY <1>2, <2>1, <3>3
    <3>5. QED BY <3>4
  <2>3. /\ objects' = Without(a)
        /\ call' = [call EXCEPT ![Daemon] = [NoCall EXCEPT !.frees = objects[a].blocks]]
    BY <1>3, <1>6, <2>1 DEF prvProcessReceivedCommands, Deletes
  <2>4. PICK s \in Seq(Memory) : s = objects[a].blocks
    BY <2>1 DEF ObjectsIInv, ObjectsTypeOK, ObjectType
  <2>5. /\ call'[Daemon] = [NoCall EXCEPT !.frees = s]
        /\ \A u \in Threads : u # Daemon => call'[u] = call[u]
    BY <1>4, <2>3, <2>4
  <2>6. /\ call'[Daemon] \in CallType /\ call'[Daemon].step = "none"
        /\ call'[Daemon].blocks = <<>> /\ call'[Daemon].frees = s
        /\ call'[Daemon].timer = Nowhere
    BY <1>4, <2>5 DEF CallType
  <2>7. call' \in [Threads -> CallType]
    BY <1>4, <2>3, <2>5, <2>6
  <2>8. /\ DOMAIN objects' = DOMAIN objects \ {a}
        /\ \A b \in DOMAIN objects' : objects'[b] = objects[b]
    BY <2>3 DEF Without
  <2>9. CommandsOK'
    <3>1. ASSUME NEW i \in 1..Len(commands'), commands'[i].name = "delete"
          PROVE  /\ commands'[i].timer \in DOMAIN objects'
                 /\ objects'[commands'[i].timer].kind = "timer"
                 /\ \A j \in 1..Len(commands') : commands'[j] = commands'[i] => j = i
      <4>1. /\ commands'[i].timer \in DOMAIN objects
            /\ objects[commands'[i].timer].kind = "timer"
            /\ \A j \in 1..Len(commands) : commands[j] = commands'[i] => j = i + 1
        BY <1>2, <3>1 DEF ObjectsIInv, OwnershipOK, CommandsOK
      <4>2. \A j \in 1..Len(commands') : commands'[j] = commands'[i] => j + 1 = i + 1
        BY <1>2, <4>1
      <4>3. \A j \in 1..Len(commands') : j + 1 = i + 1 => j = i
        BY <1>5
      <4>4. QED BY <2>2, <2>8, <3>1, <4>1, <4>2, <4>3
    <3>2. QED BY <3>1 DEF CommandsOK
  <2>10. CallbackOK'
    BY <2>6 DEF CallbackOK
  <2>11. BusyOK'
    <3>1. BusyAt(Daemon)'
      BY <2>6 DEF BusyAt
    <3>2. QED BY <1>1, <1>4, <2>5, <3>1, BusyKept DEF ObjectsIInv, OwnershipOK
  <2>12. Commanded(a, "delete")
    <3>1. commands[1] \in CommandType
      BY <1>2
    <3>2. commands[1] = Command("delete", a)
      BY <1>2, <1>3, <1>6, <3>1 DEF Command, CommandType
    <3>3. QED BY <1>2, <3>2 DEF Commanded
  <2>13. \A v \in Values : values'[v].owns =>
           /\ values[v].owns /\ values'[v].handle = values[v].handle
           /\ values'[v].kind = values[v].kind
           /\ values[v].handle # a /\ ~Commanded(values[v].handle, "delete")'
    BY <1>1, <1>2, <2>12, OwnerFacts
  <2>14. \A b \in raw' : b \in raw /\ b # a /\ ~Commanded(b, "delete")'
    BY <1>1, <1>2, <2>12 DEF ObjectsIInv, OwnershipOK, RawOK
  <2>15. /\ \A u \in Threads : call'[u].blocks = call[u].blocks
         /\ \A u \in Threads : u # Daemon => call'[u].frees = call[u].frees
         /\ call'[Daemon].frees = objects[a].blocks /\ call[Daemon].frees = <<>>
    BY <1>1, <1>4, <2>4, <2>5, <2>6
  <2>16. /\ values' \in [Values -> ValueType] /\ commands' \in Seq(CommandType)
         /\ held' = held /\ ended' = ended /\ statics' = statics /\ Daemon \in Threads
    BY <1>1, <1>2, <1>4
  <2>17. QED BY <2>1, <2>3, <2>7, <2>9, <2>10, <2>11, <2>13, <2>14, <2>15,
                <2>16, ObjectGoes
<1>7. CASE Head(commands).name # "delete"
  <2>1. call' = call /\ DOMAIN objects' = DOMAIN objects
    BY <1>7 DEF prvProcessReceivedCommands
  <2>2. PICK active \in BOOLEAN :
          \/ objects' = objects
          \/ a \in DOMAIN objects /\ objects' = [objects EXCEPT ![a].active = active]
    BY <1>3, <1>7 DEF prvProcessReceivedCommands
  <2>3. \A b \in DOMAIN objects : /\ objects'[b] \in ObjectType
                                  /\ objects'[b].kind = objects[b].kind
                                  /\ objects'[b].blocks = objects[b].blocks
    <3>1. \A b \in DOMAIN objects : objects[b] \in ObjectType
      BY DEF ObjectsIInv, ObjectsTypeOK
    <3>2. CASE objects' = objects
      BY <3>1, <3>2
    <3>3. CASE a \in DOMAIN objects /\ objects' = [objects EXCEPT ![a].active = active]
      <4>1. /\ objects'[a] = [objects[a] EXCEPT !.active = active]
            /\ \A b \in DOMAIN objects : b # a => objects'[b] = objects[b]
        BY <3>3
      <4>2. /\ objects'[a] \in ObjectType /\ objects'[a].kind = objects[a].kind
            /\ objects'[a].blocks = objects[a].blocks
        <5>1. objects[a] \in ObjectType
          BY <3>1, <3>3
        <5>2. QED BY <4>1, <5>1 DEF ObjectType
      <4>3. QED BY <3>1, <4>1, <4>2
    <3>4. QED BY <2>2, <3>2, <3>3
  <2>4. ObjectsTypeOK'
    BY <1>1, <1>2, <2>1, <2>3 DEF ObjectsIInv, ObjectsTypeOK
  <2>5. OwnersOK' /\ RawOK'
    BY <1>1, <1>2, <2>1, <2>3 DEF ObjectsIInv, OwnershipOK, OwnersOK, RawOK
  <2>6. CommandsOK'
    <3>1. ASSUME NEW i \in 1..Len(commands'), commands'[i].name = "delete"
          PROVE  /\ commands'[i].timer \in DOMAIN objects'
                 /\ objects'[commands'[i].timer].kind = "timer"
                 /\ \A j \in 1..Len(commands') : commands'[j] = commands'[i] => j = i
      <4>1. /\ commands'[i].timer \in DOMAIN objects
            /\ objects[commands'[i].timer].kind = "timer"
            /\ \A j \in 1..Len(commands) : commands[j] = commands'[i] => j = i + 1
        BY <1>2, <3>1 DEF ObjectsIInv, OwnershipOK, CommandsOK
      <4>2. \A j \in 1..Len(commands') : commands'[j] = commands'[i] => j + 1 = i + 1
        BY <1>2, <4>1
      <4>3. \A j \in 1..Len(commands') : j + 1 = i + 1 => j = i
        BY <1>5
      <4>4. QED BY <2>1, <2>3, <3>1, <4>1, <4>2, <4>3
    <3>2. QED BY <3>1 DEF CommandsOK
  <2>7. CallbackOK' /\ BusyOK' /\ PlacedOK'
    BY <1>1, <2>1, <2>3
       DEF ObjectsIInv, OwnershipOK, CallbackOK, BusyOK, BusyAt, PlacedOK
  <2>8. BlocksOK'
    <3>1. \A b \in Addresses : ObjectBlocks(b)' = ObjectBlocks(b)
      BY <2>1, <2>3 DEF ObjectBlocks
    <3>2. QED BY <1>1, <2>1, <2>4, <3>1, BlocksKept DEF ObjectsIInv
  <2>9. QED BY <2>4, <2>5, <2>6, <2>7, <2>8 DEF ObjectsIInv, OwnershipOK
<1>8. QED BY <1>6, <1>7

LEMMA FromRawKeeps ==
  ASSUME ObjectsAssumption, ObjectsIInv, NEW v \in Values, from_raw(v)
  PROVE  ObjectsIInv'
<1>1. /\ Runs(Daemon) /\ values[v] = NoValue /\ Daemon \in Threads
      /\ values' = [values EXCEPT ![v] = Disowned(Made("timer", call[Daemon].timer, Daemon))]
      /\ UNCHANGED <<held, objects, call, raw, commands, ended, statics>>
  BY DEF from_raw, ObjectsAssumption
<1>2. /\ call[Daemon].timer \in DOMAIN objects /\ call[Daemon].timer \in Addresses
      /\ objects[call[Daemon].timer].kind = "timer"
      /\ objects[call[Daemon].timer] \in ObjectType
  BY <1>1 DEF Runs, ObjectsIInv, ObjectsTypeOK, OwnershipOK, CallbackOK
<1>3. PICK x \in ValueType : x = Disowned(Made("timer", call[Daemon].timer, Daemon)) /\ ~x.owns
  <2>1. "timer" \in Kinds
    BY <1>2 DEF ObjectType
  <2>2. Made("timer", call[Daemon].timer, Daemon) \in ValueType
    BY <1>1, <1>2, <2>1 DEF Made, ValueType
  <2>3. /\ Disowned(Made("timer", call[Daemon].timer, Daemon)) \in ValueType
        /\ ~Disowned(Made("timer", call[Daemon].timer, Daemon)).owns
    BY <2>2 DEF Disowned, ValueType
  <2>4. QED BY <2>3
<1>4. values' = [values EXCEPT ![v] = x]
  BY <1>1, <1>3
<1>5. /\ values' \in [Values -> ValueType]
      /\ \A w \in Values : w # v => values'[w] = values[w]
      /\ \A w \in Values : values'[w].owns =>
           /\ values[w].owns /\ values'[w].handle = values[w].handle
           /\ values'[w].kind = values[w].kind
           /\ values[w].handle \notin raw /\ ~Commanded(values[w].handle, "delete")
  BY <1>3, <1>4, OwnerLeaves
<1>6. /\ CommandsOK' /\ commands' \in Seq(CommandType)
      /\ \A b : Commanded(b, "delete")' <=> Commanded(b, "delete")
  BY <1>1, CommandsUnchanged
<1>7. BusyOK'
  <2>1. BusyAt(Daemon)'
    BY <1>1, RunsFacts DEF BusyAt
  <2>2. \A w \in Values : values'[w] # values[w] => values[w].users = {}
    BY <1>1, <1>5 DEF NoValue
  <2>3. QED BY <1>1, <2>1, <2>2, BusyKept DEF ObjectsIInv, OwnershipOK
<1>8. \A a \in raw' : a \in DOMAIN objects /\ ~Commanded(a, "delete")'
  BY <1>1, <1>6 DEF ObjectsIInv, OwnershipOK, RawOK
<1>9. call' = call /\ call' \in [Threads -> CallType]
  BY <1>1 DEF ObjectsIInv, ObjectsTypeOK
<1>10. QED BY <1>1, <1>5, <1>6, <1>7, <1>8, <1>9, ObjectsStay

LEMMA CallbackReturnsKeeps ==
  ASSUME ObjectsAssumption, ObjectsIInv, CallbackReturns
  PROVE  ObjectsIInv'
<1>1. /\ Runs(Daemon) /\ Daemon \in Threads
      /\ call' = [call EXCEPT ![Daemon].timer = Nowhere]
      /\ UNCHANGED <<held, objects, values, raw, commands, ended, statics>>
  BY DEF CallbackReturns, ObjectsAssumption
<1>2. /\ call \in [Threads -> CallType] /\ call[Daemon] \in CallType
      /\ values \in [Values -> ValueType]
      /\ call[Daemon].step = "none" /\ call[Daemon].blocks = <<>>
  BY <1>1, RunsFacts DEF ObjectsIInv, ObjectsTypeOK
<1>3. /\ call'[Daemon] = [call[Daemon] EXCEPT !.timer = Nowhere]
      /\ \A u \in Threads : u # Daemon => call'[u] = call[u]
  BY <1>1, <1>2
<1>4. /\ call'[Daemon] \in CallType /\ call'[Daemon].timer = Nowhere
      /\ call'[Daemon].step = "none" /\ call'[Daemon].blocks = call[Daemon].blocks
      /\ call'[Daemon].frees = call[Daemon].frees
  BY <1>2, <1>3 DEF CallType
<1>5. call' \in [Threads -> CallType]
  BY <1>1, <1>2, <1>3, <1>4
<1>6. BusyOK'
  <2>1. BusyAt(Daemon)'
    BY <1>2, <1>4 DEF BusyAt
  <2>2. QED BY <1>1, <1>3, <2>1, BusyKept DEF ObjectsIInv, OwnershipOK
<1>7. /\ CommandsOK' /\ commands' \in Seq(CommandType)
      /\ \A b : Commanded(b, "delete")' <=> Commanded(b, "delete")
  BY <1>1, CommandsUnchanged
<1>8. \A w \in Values : values'[w].owns =>
        /\ values[w].owns /\ values'[w].handle = values[w].handle
        /\ values'[w].kind = values[w].kind
        /\ values[w].handle \notin raw' /\ ~Commanded(values[w].handle, "delete")'
  BY <1>1, <1>7, OwnerFacts
<1>9. \A a \in raw' : a \in DOMAIN objects /\ ~Commanded(a, "delete")'
  BY <1>1, <1>7 DEF ObjectsIInv, OwnershipOK, RawOK
<1>10. \A u \in Threads : call'[u].blocks = call[u].blocks /\ call'[u].frees = call[u].frees
  BY <1>3, <1>4
<1>11. values' \in [Values -> ValueType]
  BY <1>1, <1>2
<1>12. QED BY <1>1, <1>4, <1>5, <1>6, <1>7, <1>8, <1>9, <1>10, <1>11, ObjectsStay

LEMMA DeleteSelfKeeps ==
  ASSUME ObjectsAssumption, ObjectsIInv, NEW a \in DOMAIN objects, delete_self(a)
  PROVE  ObjectsIInv'
<1>1. PICK s \in Seq(Memory) : s = objects[a].blocks
  BY DEF ObjectsIInv, ObjectsTypeOK, ObjectType
<1>2. /\ objects[a].kind = "task" /\ a \notin raw
      /\ \A v \in Values : values[v].handle # a
      /\ objects' = Without(a) /\ ended' = ended \cup {s}
      /\ UNCHANGED <<held, values, call, raw, commands, statics>>
  BY <1>1 DEF delete_self
<1>3. /\ DOMAIN objects' = DOMAIN objects \ {a}
      /\ \A b \in DOMAIN objects' : objects'[b] = objects[b]
      /\ a \in Addresses
  BY <1>2 DEF Without, ObjectsIInv, ObjectsTypeOK
<1>4. ObjectsTypeOK'
  BY <1>2, <1>3 DEF ObjectsIInv, ObjectsTypeOK
<1>5. /\ CommandsOK' /\ CallbackOK' /\ commands' \in Seq(CommandType)
      /\ \A b : Commanded(b, "delete")' <=> Commanded(b, "delete")
  BY <1>2, OtherObjectGoes
<1>6. OwnersOK' /\ RawOK' /\ PlacedOK'
  <2>1. \A w \in Values : values'[w].owns =>
          /\ values[w].owns /\ values'[w].handle = values[w].handle
          /\ values'[w].kind = values[w].kind
          /\ values[w].handle \in DOMAIN objects' /\ values[w].handle \notin raw'
          /\ ~Commanded(values[w].handle, "delete")'
    BY <1>2, <1>3, <1>5, OwnerFacts
  <2>2. \A b \in raw' : b \in DOMAIN objects' /\ ~Commanded(b, "delete")'
    BY <1>2, <1>3, <1>5 DEF ObjectsIInv, OwnershipOK, RawOK
  <2>3. QED BY <1>2, <1>3, <2>1, <2>2, OwnersKept DEF ObjectsIInv, OwnershipOK
<1>7. BusyOK'
  BY <1>2 DEF ObjectsIInv, OwnershipOK, BusyOK, BusyAt
<1>8. BlocksOK'
  <2> DEFINE x == <<"ended", s>>
             y == <<"object", a>>
  <2>1. x \in Index /\ y \in Index /\ x # y
    BY <1>3, InIndex
  <2>2. /\ Parts[x] = EndedBlocks(s) /\ Parts[y] = ObjectBlocks(a)
        /\ Parts'[x] = EndedBlocks(s)' /\ Parts'[y] = ObjectBlocks(a)'
    BY <2>1 DEF Parts
  <2>3. ObjectBlocks(a) = s /\ ObjectBlocks(a)' = <<>> /\ EndedBlocks(s)' = s
    BY <1>1, <1>2, <1>3 DEF ObjectBlocks, EndedBlocks
  <2>4. EndedBlocks(s) = <<>>
    <3>1. CASE s \in ended /\ s # <<>>
      <4>1. Parts[x] = s /\ Parts[y] = s
        BY <2>2, <2>3, <3>1 DEF EndedBlocks
      <4>2. IsInjective(s) /\ ToSet(s) \cap ToSet(s) = {}
        BY <2>1, <4>1 DEF ObjectsIInv, BlocksOK, Partitioned
      <4>3. Head(s) \in ToSet(s)
        BY <3>1, <4>2, ItemsOfTail
      <4>4. QED BY <4>2, <4>3
    <3>2. QED BY <3>1 DEF EndedBlocks
  <2>5. Parts[x] = <<>> /\ Parts'[x] = Parts[y] /\ Parts'[y] = <<>>
    BY <2>2, <2>3, <2>4
  <2>6. \A h \in Index : h # x /\ h # y => Parts'[h] = Parts[h]
    <3>1. /\ \A b \in Addresses : <<"object", b>> \notin {x, y} =>
               ObjectBlocks(b)' = ObjectBlocks(b)
          /\ \A w \in Seq(Memory) : <<"ended", w>> \notin {x, y} =>
               EndedBlocks(w)' = EndedBlocks(w)
      BY <1>2, <1>3 DEF ObjectBlocks, EndedBlocks
    <3>2. \A u \in Threads : call'[u].blocks = call[u].blocks
                             /\ call'[u].frees = call[u].frees
      BY <1>2
    <3>3. \A h \in Index : h \notin {x, y} => Parts'[h] = Parts[h]
      BY <3>1, <3>2, PartsElsewhere
    <3>4. QED BY <3>3
  <2>7. Parts \in [Index -> Seq(Memory)] /\ Parts' \in [Index -> Seq(Memory)]
    BY <1>4, PartsType, PartsTypeNext DEF ObjectsIInv
  <2>8. Partitioned(Index, Parts', held)
    <3> HIDE DEF x, y
    <3> QED BY <2>1, <2>5, <2>6, <2>7, BlocksMoved DEF ObjectsIInv, BlocksOK
  <2>9. QED BY <1>2, <2>8 DEF BlocksOK, Partitioned
<1>9. QED BY <1>4, <1>5, <1>6, <1>7, <1>8 DEF ObjectsIInv, OwnershipOK

LEMMA TerminationKeeps ==
  ASSUME ObjectsAssumption, ObjectsIInv, prvCheckTasksWaitingTermination
  PROVE  ObjectsIInv'
<1>1. PICK s \in Seq(Memory) : /\ s \in ended /\ ended' = ended \ {s}
                               /\ call' = [call EXCEPT ![Idle].frees = s]
  BY DEF prvCheckTasksWaitingTermination, ObjectsIInv, ObjectsTypeOK
<1>2. /\ call[Idle] = NoCall /\ Idle \in Threads
      /\ UNCHANGED <<held, objects, values, raw, commands, statics>>
  BY DEF prvCheckTasksWaitingTermination, ObjectsAssumption
<1>3. /\ call \in [Threads -> CallType] /\ call[Idle] \in CallType
      /\ call[Idle].step = "none" /\ call[Idle].frees = <<>> /\ call[Idle].blocks = <<>>
  BY <1>2 DEF ObjectsIInv, ObjectsTypeOK, NoCall
<1>4. /\ call'[Idle] = [call[Idle] EXCEPT !.frees = s]
      /\ \A u \in Threads : u # Idle => call'[u] = call[u]
  BY <1>1, <1>2, <1>3
<1>5. /\ call'[Idle] \in CallType /\ call'[Idle].step = "none"
      /\ call'[Idle].blocks = <<>> /\ call'[Idle].frees = s
      /\ call'[Idle].timer = call[Idle].timer
  BY <1>3, <1>4 DEF CallType
<1>6. ObjectsTypeOK'
  <2>1. call' \in [Threads -> CallType]
    BY <1>1, <1>2, <1>3, <1>4, <1>5
  <2>2. QED BY <1>1, <1>2, <2>1 DEF ObjectsIInv, ObjectsTypeOK
<1>7. OwnersOK' /\ RawOK' /\ CommandsOK' /\ PlacedOK'
  BY <1>2 DEF ObjectsIInv, OwnershipOK, OwnersOK, RawOK, CommandsOK, PlacedOK, Commanded
<1>8. CallbackOK'
  <2>1. call'[Daemon].timer = call[Daemon].timer
    BY <1>4, <1>5 DEF ObjectsAssumption
  <2>2. QED BY <1>2, <2>1 DEF ObjectsIInv, OwnershipOK, CallbackOK
<1>9. BusyOK'
  <2>1. BusyAt(Idle)'
    BY <1>5 DEF BusyAt
  <2>2. QED BY <1>2, <1>4, <2>1, BusyKept DEF ObjectsIInv, OwnershipOK
<1>10. BlocksOK'
  <2> DEFINE x == <<"freeing", Idle>>
             y == <<"ended", s>>
  <2>1. x \in Index /\ y \in Index /\ x # y
    BY <1>2, InIndex
  <2>2. /\ Parts[x] = call[Idle].frees /\ Parts[y] = EndedBlocks(s)
        /\ Parts'[x] = call'[Idle].frees /\ Parts'[y] = EndedBlocks(s)'
    BY <2>1 DEF Parts
  <2>3. Parts[x] = <<>> /\ Parts'[x] = Parts[y] /\ Parts'[y] = <<>>
    BY <1>1, <1>3, <1>5, <2>2 DEF EndedBlocks
  <2>4. \A h \in Index : h # x /\ h # y => Parts'[h] = Parts[h]
    <3>1. /\ \A b \in Addresses : ObjectBlocks(b)' = ObjectBlocks(b)
          /\ \A w \in Seq(Memory) : <<"ended", w>> \notin {x, y} =>
               EndedBlocks(w)' = EndedBlocks(w)
      BY <1>1, <1>2 DEF ObjectBlocks, EndedBlocks
    <3>2. /\ \A u \in Threads : call'[u].blocks = call[u].blocks
          /\ \A u \in Threads : <<"freeing", u>> \notin {x, y} =>
               call'[u].frees = call[u].frees
      BY <1>3, <1>4, <1>5
    <3>3. \A h \in Index : h \notin {x, y} => Parts'[h] = Parts[h]
      BY <3>1, <3>2, PartsElsewhere
    <3>4. QED BY <3>3
  <2>5. Parts \in [Index -> Seq(Memory)] /\ Parts' \in [Index -> Seq(Memory)]
    BY <1>6, PartsType, PartsTypeNext DEF ObjectsIInv
  <2>6. Partitioned(Index, Parts', held)
    <3> HIDE DEF x, y
    <3> QED BY <2>1, <2>3, <2>4, <2>5, BlocksMoved DEF ObjectsIInv, BlocksOK
  <2>7. QED BY <1>2, <2>6 DEF BlocksOK, Partitioned
<1>11. QED BY <1>6, <1>7, <1>8, <1>9, <1>10 DEF ObjectsIInv, OwnershipOK
-----------------------------------------------------------------------------
(* The theorems.                                                           *)

LEMMA InvariantAtFirst ==
  ASSUME ObjectsAssumption, ObjectsInit
  PROVE  ObjectsIInv
<1>1. /\ held = {} /\ objects = <<>> /\ values = [v \in Values |-> NoValue]
      /\ call = [t \in Threads |-> NoCall] /\ raw = {} /\ commands = <<>>
      /\ ended = {} /\ statics = Statics
  BY DEF ObjectsInit
<1>2. DOMAIN objects = {} /\ Len(commands) = 0 /\ commands \in Seq(CommandType)
  BY <1>1
<1>3. NoValue \in ValueType /\ ~NoValue.owns
  BY DEF NoValue, ValueType
<1>4. /\ NoCall \in CallType /\ NoCall.step = "none" /\ NoCall.blocks = <<>>
      /\ NoCall.frees = <<>> /\ NoCall.timer = Nowhere
  BY EmptySeq DEF NoCall, CallType
<1>5. ObjectsTypeOK
  BY <1>1, <1>2, <1>3, <1>4 DEF ObjectsTypeOK
<1>6. OwnershipOK
  <2>1. OwnersOK /\ RawOK /\ CommandsOK /\ PlacedOK
    BY <1>1, <1>2, <1>3 DEF OwnersOK, RawOK, CommandsOK, PlacedOK
  <2>2. CallbackOK /\ BusyOK
    BY <1>1, <1>4 DEF CallbackOK, BusyOK, BusyAt, ObjectsAssumption
  <2>3. QED BY <2>1, <2>2 DEF OwnershipOK
<1>7. BlocksOK
  <2>1. \A h \in Index : Parts[h] = <<>>
    <3>1. /\ \A a \in Addresses : ObjectBlocks(a) = <<>>
          /\ \A s \in Seq(Memory) : EndedBlocks(s) = <<>>
          /\ \A t \in Threads : call[t].blocks = <<>> /\ call[t].frees = <<>>
      BY <1>1, <1>2, <1>4 DEF ObjectBlocks, EndedBlocks
    <3>2. SUFFICES ASSUME NEW h \in Index PROVE Parts[h] = <<>>
      OBVIOUS
    <3>3. CASE \E a \in Addresses : h = <<"object", a>>
      BY <3>1, <3>3, PartsAt
    <3>4. CASE \E s \in Seq(Memory) : h = <<"ended", s>>
      BY <3>1, <3>4, PartsAt
    <3>5. CASE \E t \in Threads : h = <<"creating", t>>
      BY <3>1, <3>5, PartsAt
    <3>6. CASE \E t \in Threads : h = <<"freeing", t>>
      BY <3>1, <3>6, PartsAt
    <3>7. QED BY <3>3, <3>4, <3>5, <3>6, IndexCases
  <2>2. QED BY <1>1, <2>1, EmptyHasNoItems DEF BlocksOK, Partitioned
<1>8. QED BY <1>5, <1>6, <1>7 DEF ObjectsIInv

LEMMA InvariantKept ==
  ASSUME ObjectsAssumption, ObjectsIInv, [ObjectsNext]_objVars
  PROVE  ObjectsIInv'
<1>1. CASE UNCHANGED objVars
  BY <1>1, Unchanged
<1>2. ASSUME NEW t \in Threads, NEW v \in Values, NEW kind \in Kinds,
             New(t, v, kind) \/ \E s \in statics : NewStatic(t, v, kind, s)
      PROVE  ObjectsIInv'
  BY <1>2, NewKeeps, NewStaticKeeps
<1>3. ASSUME NEW t \in Threads, NEW v \in Values, Spawn(t, v)
      PROVE  ObjectsIInv'
  BY <1>3, SpawnKeeps
<1>4. ASSUME NEW t \in Threads, NEW v \in Values, NEW u \in Threads \cup {Isr},
             Shares(t, v, u) \/ Moves(t, v, u)
      PROVE  ObjectsIInv'
  BY <1>4, SharesKeeps
<1>5. ASSUME NEW t \in Threads, NEW v \in Values,
             Ends(t, v) \/ into_raw(t, v) \/ delete(t, v) \/ DeleteTimer(t, v)
      PROVE  ObjectsIInv'
  BY <1>5, EndsKeeps, IntoRawKeeps, DeleteKeeps, DeleteTimerKeeps
<1>6. ASSUME NEW t \in Threads, NEW v \in Values, NEW a \in raw, from_raw_owned(t, v, a)
      PROVE  ObjectsIInv'
  BY <1>6, FromRawOwnedKeeps
<1>7. ASSUME NEW t \in Threads, NEW a \in raw, RawDelete(t, a) \/ RawDeleteTimer(t, a)
      PROVE  ObjectsIInv'
  BY <1>7, RawDeleteKeeps, RawDeleteTimerKeeps
<1>8. ASSUME NEW t \in Threads, Spawned(t) \/ Dropped(t) \/ Frees(t)
      PROVE  ObjectsIInv'
  BY <1>8, SpawnedKeeps, DroppedKeeps, FreesKeeps
<1>9. ASSUME NEW v \in Values, EndsInIsr(v) \/ from_raw(v)
      PROVE  ObjectsIInv'
  BY <1>9, EndsInIsrKeeps, FromRawKeeps
<1>10. ASSUME NEW v \in Values,
              Rearms(v) \/ \E name \in {"start", "stop"} : SendsCommand(v, name)
       PROVE  ObjectsIInv'
  BY <1>10, SendsCommandKeeps
<1>11. ASSUME NEW a \in DOMAIN objects, prvProcessExpiredTimer(a) \/ delete_self(a)
       PROVE  ObjectsIInv'
  BY <1>11, ExpiredKeeps, DeleteSelfKeeps
<1>12. ASSUME \/ prvProcessReceivedCommands \/ CallbackReturns
              \/ prvCheckTasksWaitingTermination
       PROVE  ObjectsIInv'
  BY <1>12, ReceivedKeeps, CallbackReturnsKeeps, TerminationKeeps
<1>13. QED BY <1>1, <1>2, <1>3, <1>4, <1>5, <1>6, <1>7, <1>8, <1>9, <1>10, <1>11, <1>12
           DEF ObjectsNext

\* The inductive invariant: types, owners and blocks.
THEOREM ObjectsInvariant == ObjectsSpec => []ObjectsIInv
<1>1. ObjectsInit => ObjectsIInv
  BY ObjectsAssumption, InvariantAtFirst
<1>2. ObjectsIInv /\ [ObjectsNext]_objVars => ObjectsIInv'
  BY ObjectsAssumption, InvariantKept
<1>3. QED BY <1>1, <1>2, PTL DEF ObjectsSpec

\* What a wrapper owns is alive and has no other owner, and the timer whose callback
\* runs is alive.
THEOREM OwnedObjectsAreAlive == ObjectsSpec => []OwnersAreAlive
<1>1. ObjectsIInv => OwnersAreAlive
  <2> SUFFICES ASSUME ObjectsIInv PROVE OwnersAreAlive
    OBVIOUS
  <2>1. ASSUME NEW v \in Values, values[v].owns
        PROVE  LET a == values[v].handle
               IN  /\ a \in DOMAIN objects /\ objects[a].kind = values[v].kind
                   /\ Owners(a) = {v}
                   /\ a \notin raw /\ ~Commanded(a, "delete")
    BY <2>1, OwnerFacts DEF Owners
  <2>2. call[Daemon].timer # Nowhere => call[Daemon].timer \in DOMAIN objects
    BY DEF ObjectsIInv, OwnershipOK, CallbackOK
  <2>3. QED BY <2>1, <2>2 DEF OwnersAreAlive
<1>2. QED BY <1>1, ObjectsInvariant, PTL

\* The blocks that are held are those of the objects, of the tasks that have deleted
\* themselves, and of the calls that create and free, each once.
THEOREM NoBlockIsLostOrShared == ObjectsSpec => []MemoryIsAccountedFor
<1>1. ObjectsIInv => MemoryIsAccountedFor
  <2> SUFFICES ASSUME ObjectsIInv PROVE MemoryIsAccountedFor
    OBVIOUS
  <2>1. \A h \in Holders : h \in Index /\ BlocksOf(h) = Parts[h]
    <3> SUFFICES ASSUME NEW h \in Holders PROVE h \in Index /\ BlocksOf(h) = Parts[h]
      OBVIOUS
    <3>1. \/ \E a \in DOMAIN objects : h = <<"object", a>>
          \/ \E s \in ended : h = <<"ended", s>>
          \/ \E t \in Threads : h = <<"creating", t>> \/ h = <<"freeing", t>>
      BY DEF Holders
    <3>2. CASE \E a \in DOMAIN objects : h = <<"object", a>>
      <4>1. PICK a \in DOMAIN objects : h = <<"object", a>>
        BY <3>2
      <4>2. a \in Addresses
        BY DEF ObjectsIInv, ObjectsTypeOK
      <4>3. QED BY <4>1, <4>2, InIndex, PartsAt DEF BlocksOf, ObjectBlocks
    <3>3. CASE \E s \in ended : h = <<"ended", s>>
      <4>1. PICK s \in ended : h = <<"ended", s>>
        BY <3>3
      <4>2. s \in Seq(Memory)
        BY DEF ObjectsIInv, ObjectsTypeOK
      <4>3. QED BY <4>1, <4>2, InIndex, PartsAt DEF BlocksOf, EndedBlocks
    <3>4. CASE \E t \in Threads : h = <<"creating", t>> \/ h = <<"freeing", t>>
      <4>1. PICK t \in Threads : h = <<"creating", t>> \/ h = <<"freeing", t>>
        BY <3>4
      <4>2. CASE h = <<"creating", t>>
        BY <4>2, InIndex, PartsAt DEF BlocksOf
      <4>3. CASE h = <<"freeing", t>>
        BY <4>3, InIndex, PartsAt DEF BlocksOf
      <4>4. QED BY <4>1, <4>2, <4>3
    <3>5. QED BY <3>1, <3>2, <3>3, <3>4
  <2>2. \A h \in Index : Parts[h] # <<>> => h \in Holders
    <3> SUFFICES ASSUME NEW h \in Index, Parts[h] # <<>> PROVE h \in Holders
      OBVIOUS
    <3>1. CASE \E a \in Addresses : h = <<"object", a>>
      <4>1. PICK a \in Addresses : h = <<"object", a>>
        BY <3>1
      <4>2. a \in DOMAIN objects /\ objects[a].blocks # <<>>
        BY <4>1, PartsAt DEF ObjectBlocks
      <4>3. QED BY <4>1, <4>2 DEF Holders, BlocksOf
    <3>2. CASE \E s \in Seq(Memory) : h = <<"ended", s>>
      <4>1. PICK s \in Seq(Memory) : h = <<"ended", s>>
        BY <3>2
      <4>2. s \in ended /\ s # <<>>
        BY <4>1, PartsAt DEF EndedBlocks
      <4>3. QED BY <4>1, <4>2 DEF Holders, BlocksOf
    <3>3. CASE \E t \in Threads : h = <<"creating", t>>
      <4>1. PICK t \in Threads : h = <<"creating", t>>
        BY <3>3
      <4>2. call[t].blocks # <<>>
        BY <4>1, PartsAt
      <4>3. QED BY <4>1, <4>2 DEF Holders, BlocksOf
    <3>4. CASE \E t \in Threads : h = <<"freeing", t>>
      <4>1. PICK t \in Threads : h = <<"freeing", t>>
        BY <3>4
      <4>2. call[t].frees # <<>>
        BY <4>1, PartsAt
      <4>3. QED BY <4>1, <4>2 DEF Holders, BlocksOf
    <3>5. QED BY <3>1, <3>2, <3>3, <3>4, IndexCases
  <2>3. Partitioned(Index, Parts, held)
    BY DEF ObjectsIInv, BlocksOK
  <2>4. UNION {ToSet(BlocksOf(h)) : h \in Holders} = held
    <3>1. ASSUME NEW b \in held PROVE \E h \in Holders : b \in ToSet(BlocksOf(h))
      <4>1. PICK h \in Index : b \in ToSet(Parts[h])
        BY <2>3 DEF Partitioned
      <4>2. Parts[h] # <<>>
        BY <4>1, EmptyHasNoItems
      <4>3. QED BY <2>1, <2>2, <4>1, <4>2
    <3>2. ASSUME NEW h \in Holders, NEW b \in ToSet(BlocksOf(h)) PROVE b \in held
      BY <2>1, <2>3 DEF Partitioned
    <3>3. QED BY <3>1, <3>2
  <2>5. \A h \in Holders : IsInjective(BlocksOf(h))
    BY <2>1, <2>3 DEF Partitioned
  <2>6. \A h, g \in Holders : h # g => ToSet(BlocksOf(h)) \cap ToSet(BlocksOf(g)) = {}
    BY <2>1, <2>3 DEF Partitioned
  <2>7. QED BY <2>4, <2>5, <2>6 DEF MemoryIsAccountedFor
<1>2. QED BY <1>1, ObjectsInvariant, PTL

\* An owner that lets go of an object that lives on does so as the program says.
LEMMA LeavesDeliberately ==
  ASSUME ObjectsAssumption, ObjectsIInv, ObjectsNext,
         NEW a \in DOMAIN objects \cap DOMAIN objects', NEW v \in Values,
         values[v].owns, values[v].handle = a, ~(values'[v].owns /\ values'[v].handle = a)
  PROVE  \/ a \in raw'
         \/ Commanded(a, "delete")'
         \/ SoleUser(v, Isr)
         \/ objects[a].kind \in {"stream", "message", "task"}
         \/ objects[a].kind = "timer" /\ ~HasRoom
<1> DEFINE Conclusion ==
             \/ a \in raw'
             \/ Commanded(a, "delete")'
             \/ SoleUser(v, Isr)
             \/ objects[a].kind \in {"stream", "message", "task"}
             \/ objects[a].kind = "timer" /\ ~HasRoom
<1>1. /\ values \in [Values -> ValueType] /\ values[v] # NoValue
      /\ objects[a].kind = values[v].kind /\ objects[a] \in ObjectType
      /\ values[v].kind \in Kinds /\ a \in Addresses
  BY OwnerFacts DEF NoValue, ObjectsIInv, ObjectsTypeOK, ObjectType
<1>2. \A w \in Values : w # v /\ (\E x : values' = [values EXCEPT ![w] = x]) => FALSE
  BY <1>1
<1>3. ASSUME NEW t \in Threads, NEW w \in Values, Drop(t, w)
      PROVE  Conclusion
  <2>1. w = v /\ values' = [values EXCEPT ![w] = NoValue]
    BY <1>2, <1>3 DEF Drop
  <2>2. CASE DropOf[values[v].kind] = "kept"
    BY <1>1, <2>2, OnlySomeKept
  <2>3. CASE DropOf[values[v].kind] = "commanded"
    <3>1. objects[a].kind = "timer"
      BY <1>1, <2>3, OnlyTimersCommanded
    <3>2. commands' = IF HasRoom THEN Append(commands, Command("delete", a))
                                 ELSE commands
      BY <1>3, <2>1, <2>3 DEF Drop
    <3>3. CASE HasRoom
      BY <3>2, <3>3, SentIsCommanded DEF ObjectsIInv, ObjectsTypeOK
    <3>4. QED BY <3>1, <3>3
  <2>4. CASE DropOf[values[v].kind] \notin {"kept", "commanded"}
    <3>1. objects' = Without(a)
      BY <1>3, <2>1, <2>4 DEF Drop, Deletes
    <3>2. QED BY <3>1 DEF Without
  <2>5. QED BY <2>2, <2>3, <2>4
<1>4. ASSUME values' = values PROVE FALSE
  BY <1>4
<1>5. ASSUME NEW w \in Values, values[w] = NoValue, NEW x,
             values' = [values EXCEPT ![w] = x]
      PROVE  FALSE
  BY <1>1, <1>2, <1>5
<1>6. ASSUME NEW w \in Values, NEW U, values' = [values EXCEPT ![w].users = U]
      PROVE  FALSE
  <2>1. values[v] \in ValueType
    BY <1>1
  <2>2. values'[v].owns = values[v].owns /\ values'[v].handle = values[v].handle
    BY <1>1, <1>6, <2>1 DEF ValueType
  <2>3. QED BY <2>2
<1> HIDE DEF Conclusion
<1>7. ASSUME NEW t \in Threads, NEW w \in Values, NEW kind \in Kinds,
             New(t, w, kind) \/ \E s \in statics : NewStatic(t, w, kind, s)
      PROVE  FALSE
  BY <1>4, <1>5, <1>7 DEF New, NewStatic
<1>8. ASSUME NEW t \in Threads, NEW w \in Values, Spawn(t, w)
      PROVE  FALSE
  BY <1>4, <1>6, <1>8 DEF Spawn
<1>9. ASSUME NEW t \in Threads, NEW w \in Values, NEW u \in Threads \cup {Isr},
             Shares(t, w, u) \/ Moves(t, w, u)
      PROVE  FALSE
  BY <1>6, <1>9 DEF Shares, Moves
<1>10. ASSUME NEW t \in Threads, NEW w \in Values, Ends(t, w)
       PROVE  Conclusion
  BY <1>3, <1>6, <1>10 DEF Ends
<1>11. ASSUME NEW t \in Threads, NEW w \in Values, into_raw(t, w)
       PROVE  Conclusion
  <2>1. w = v
    BY <1>2, <1>11 DEF into_raw
  <2>2. a \in raw'
    BY <1>11, <2>1 DEF into_raw
  <2>3. QED BY <2>2 DEF Conclusion
<1>12. ASSUME NEW t \in Threads, NEW w \in Values, delete(t, w)
       PROVE  FALSE
  <2>1. w = v
    BY <1>2, <1>12 DEF delete
  <2>2. objects' = Without(a)
    BY <1>12, <2>1 DEF delete, Deletes
  <2>3. QED BY <2>2 DEF Without
<1>13. ASSUME NEW t \in Threads, NEW w \in Values, DeleteTimer(t, w)
       PROVE  Conclusion
  <2>1. w = v
    BY <1>2, <1>13 DEF DeleteTimer
  <2>2. commands' = Append(commands, Command("delete", a))
    BY <1>13, <2>1 DEF DeleteTimer
  <2>3. Commanded(a, "delete")'
    BY <2>2, SentIsCommanded DEF ObjectsIInv, ObjectsTypeOK
  <2>4. QED BY <2>3 DEF Conclusion
<1>14. ASSUME NEW t \in Threads, NEW w \in Values, NEW b \in raw, from_raw_owned(t, w, b)
       PROVE  FALSE
  BY <1>5, <1>14 DEF from_raw_owned
<1>15. ASSUME NEW t \in Threads, NEW b \in raw, RawDelete(t, b) \/ RawDeleteTimer(t, b)
       PROVE  FALSE
  BY <1>4, <1>15 DEF RawDelete, RawDeleteTimer
<1>16. ASSUME NEW t \in Threads, Spawned(t)
       PROVE  FALSE
  <2>1. PICK w \in Values : w = call[t].value /\ ~values[w].owns
    BY <1>16 DEF Spawned, ObjectsIInv, OwnershipOK, BusyOK, BusyAt
  <2>2. \E x : values' = [values EXCEPT ![w] = x]
    BY <1>16, <2>1 DEF Spawned
  <2>3. w = v
    BY <1>2, <2>2
  <2>4. QED BY <2>1, <2>3
<1>17. ASSUME NEW t \in Threads, Dropped(t)
       PROVE  Conclusion
  <2>1. Drop(t, call[t].value) /\ call[t].value \in Values
    BY <1>17 DEF Dropped, ObjectsIInv, OwnershipOK, BusyOK, BusyAt
  <2>2. QED BY <1>3, <2>1
<1>18. ASSUME NEW t \in Threads, Frees(t)
       PROVE  FALSE
  BY <1>4, <1>18 DEF Frees
<1>19. ASSUME NEW w \in Values, EndsInIsr(w)
       PROVE  Conclusion
  <2>1. CASE SoleUser(w, Isr)
    <3>1. w = v
      BY <1>2, <1>19, <2>1 DEF EndsInIsr
    <3>2. QED BY <2>1, <3>1 DEF Conclusion
  <2>2. CASE ~SoleUser(w, Isr)
    <3>1. values' = [values EXCEPT ![w] =
                       [values[w] EXCEPT !.users = values[w].users \ {Isr}]]
      BY <1>19, <2>2 DEF EndsInIsr
    <3>2. values' = [values EXCEPT ![w].users = values[w].users \ {Isr}]
      BY <1>1, <3>1
    <3>3. QED BY <1>6, <3>2
  <2>3. QED BY <2>1, <2>2
<1>20. ASSUME NEW w \in Values,
              from_raw(w) \/ Rearms(w) \/ \E name \in {"start", "stop"} : SendsCommand(w, name)
       PROVE  FALSE
  BY <1>4, <1>5, <1>20 DEF from_raw, Rearms, SendsCommand
<1>21. ASSUME \/ \E b \in DOMAIN objects : prvProcessExpiredTimer(b) \/ delete_self(b)
              \/ prvProcessReceivedCommands \/ CallbackReturns
              \/ prvCheckTasksWaitingTermination
       PROVE  FALSE
  BY <1>4, <1>21 DEF prvProcessExpiredTimer, delete_self, prvProcessReceivedCommands,
                     CallbackReturns, prvCheckTasksWaitingTermination
<1>22. Conclusion
  BY <1>7, <1>8, <1>9, <1>10, <1>11, <1>12, <1>13, <1>14, <1>15, <1>16, <1>17, <1>18,
     <1>19, <1>20, <1>21 DEF ObjectsNext
<1>23. QED BY <1>22 DEF Conclusion

\* An object nobody owns any more, and that is not deleted, was given up on purpose.
THEOREM NothingIsLeaked == ObjectsSpec => LeaksAreDeliberate
<1> DEFINE Leaks ==
      \A a \in DOMAIN objects \cap DOMAIN objects' :
        \A v \in Owners(a) :
          Owners(a)' = {} =>
            \/ a \in raw'
            \/ Commanded(a, "delete")'
            \/ SoleUser(v, Isr)
            \/ objects[a].kind \in {"stream", "message", "task"}
            \/ objects[a].kind = "timer" /\ ~HasRoom
<1>1. ObjectsIInv /\ [ObjectsNext]_objVars => [Leaks]_objVars
  <2> SUFFICES ASSUME ObjectsIInv, ObjectsNext PROVE Leaks
    OBVIOUS
  <2>1. ASSUME NEW a \in DOMAIN objects \cap DOMAIN objects', NEW v \in Owners(a),
               Owners(a)' = {}
        PROVE  \/ a \in raw'
               \/ Commanded(a, "delete")'
               \/ SoleUser(v, Isr)
               \/ objects[a].kind \in {"stream", "message", "task"}
               \/ objects[a].kind = "timer" /\ ~HasRoom
    <3>1. v \in Values /\ values[v].owns /\ values[v].handle = a
      BY DEF Owners
    <3>2. ~(values'[v].owns /\ values'[v].handle = a)
      BY <2>1, <3>1 DEF Owners
    <3>3. QED BY <3>1, <3>2, LeavesDeliberately, ObjectsAssumption
  <2>2. QED BY <2>1
<1>2. QED BY <1>1, ObjectsInvariant, PTL DEF ObjectsSpec, LeaksAreDeliberate
-----------------------------------------------------------------------------
(* Commands and the timers they are for.                                   *)

\* No timer is deleted.
TimersStay ==
  \A a \in DOMAIN objects : objects[a].kind = "timer" =>
    a \in DOMAIN objects' /\ objects'[a].kind = "timer"

LEMMA ReachKept ==
  ASSUME CommandsReachTimers, commands' = commands, TimersStay
  PROVE  CommandsReachTimers'
  BY DEF CommandsReachTimers, TimersStay

LEMMA ReachSent ==
  ASSUME ObjectsIInv, CommandsReachTimers, objects' = objects,
         NEW name \in {"start", "stop", "delete"}, NEW a \in DOMAIN objects,
         objects[a].kind = "timer", ~Commanded(a, "delete"),
         commands' = Append(commands, Command(name, a))
  PROVE  CommandsReachTimers'
<1> DEFINE n == Len(commands)
<1>1. commands \in Seq(CommandType) /\ n \in Nat
  BY DEF ObjectsIInv, ObjectsTypeOK
<1>2. /\ Len(commands') = n + 1 /\ commands'[n + 1] = Command(name, a)
      /\ \A i \in 1..n : commands'[i] = commands[i]
  BY <1>1
<1>3. Command(name, a).name = name /\ Command(name, a).timer = a
  BY DEF Command
<1>4. \A i \in 1..n : commands[i].name = "delete" => commands[i].timer # a
  <2> SUFFICES ASSUME NEW i \in 1..n, commands[i].name = "delete", commands[i].timer = a
               PROVE  FALSE
    OBVIOUS
  <2>1. commands[i] \in CommandType
    BY <1>1, ElementOfSeq
  <2>2. commands[i] = Command("delete", a)
    BY <2>1 DEF Command, CommandType
  <2>3. QED BY <2>2 DEF Commanded
<1> HIDE DEF n
<1>5. ASSUME NEW i \in 1..(n + 1)
      PROVE  /\ commands'[i].timer \in DOMAIN objects
             /\ objects[commands'[i].timer].kind = "timer"
  BY <1>1, <1>2, <1>3 DEF CommandsReachTimers, n
<1>6. ASSUME NEW i \in 1..(n + 1), NEW j \in (i + 1)..(n + 1),
             commands'[i].name = "delete"
      PROVE  commands'[j].timer # commands'[i].timer
  <2>1. i \in 1..n /\ commands'[i] = commands[i]
    BY <1>1, <1>2
  <2>2. CASE j = n + 1
    BY <1>2, <1>3, <1>4, <1>6, <2>1, <2>2
  <2>3. CASE j # n + 1
    <3>1. j \in (i + 1)..n /\ j \in 1..n
      BY <1>1, <2>1, <2>3
    <3>2. QED BY <1>2, <1>6, <2>1, <3>1 DEF CommandsReachTimers, n
  <2>4. QED BY <2>2, <2>3
<1>7. QED BY <1>2, <1>5, <1>6 DEF CommandsReachTimers, n

\* The daemon deletes the timer of a command when no other command is for it.
LEMMA ReachReceived ==
  ASSUME ObjectsIInv, CommandsReachTimers, prvProcessReceivedCommands
  PROVE  CommandsReachTimers'
<1>1. commands # <<>> /\ commands' = Tail(commands)
  BY DEF prvProcessReceivedCommands
<1>2. /\ 1 \in 1..Len(commands) /\ Head(commands) = commands[1]
      /\ \A i \in 1..Len(commands') :
           i + 1 \in 1..Len(commands) /\ commands'[i] = commands[i + 1]
  BY <1>1, FirstCommand
<1>3. /\ commands \in Seq(CommandType) /\ Len(commands) \in Nat
      /\ commands' \in Seq(CommandType) /\ Len(commands') \in Nat
      /\ Len(commands) = Len(commands') + 1
  BY <1>1, FirstCommand, HeadTailProperties DEF ObjectsIInv, ObjectsTypeOK
<1>4. \A i \in 1..Len(commands') : i + 1 \in 2..Len(commands)
  BY <1>3
<1>5. ASSUME NEW i \in 1..Len(commands')
      PROVE  /\ commands'[i].timer \in DOMAIN objects'
             /\ objects'[commands'[i].timer].kind = "timer"
  <2>1. PICK b : b = commands'[i].timer
    OBVIOUS
  <2>2. b \in DOMAIN objects /\ objects[b].kind = "timer"
    BY <1>2, <2>1 DEF CommandsReachTimers
  <2>3. PICK a : a = Head(commands).timer
    OBVIOUS
  <2>4. CASE Head(commands).name = "delete"
    <3>1. b # a
      BY <1>2, <1>4, <2>1, <2>3, <2>4 DEF CommandsReachTimers
    <3>2. objects' = Without(a)
      BY <1>2, <2>3, <2>4 DEF prvProcessReceivedCommands, Deletes, CommandsReachTimers
    <3>3. QED BY <2>1, <2>2, <3>1, <3>2 DEF Without
  <2>5. CASE Head(commands).name # "delete"
    <3>1. \/ objects' = objects
          \/ \E x : objects' = [objects EXCEPT ![a].active = x]
      BY <2>3, <2>5 DEF prvProcessReceivedCommands
    <3>2. objects[a] \in ObjectType /\ objects[b] \in ObjectType
      BY <1>2, <2>2, <2>3 DEF CommandsReachTimers, ObjectsIInv, ObjectsTypeOK
    <3>3. b \in DOMAIN objects' /\ objects'[b].kind = "timer"
      BY <2>2, <3>1, <3>2 DEF ObjectType
    <3>4. QED BY <2>1, <3>3
  <2>6. QED BY <2>4, <2>5
<1>6. ASSUME NEW i \in 1..Len(commands'), NEW j \in (i + 1)..Len(commands'),
             commands'[i].name = "delete"
      PROVE  commands'[j].timer # commands'[i].timer
  <2>1. /\ j \in 1..Len(commands') /\ j + 1 \in ((i + 1) + 1)..Len(commands)
    BY <1>3
  <2>2. commands'[i] = commands[i + 1] /\ commands'[j] = commands[j + 1]
    BY <1>2, <2>1
  <2>3. i + 1 \in 1..Len(commands)
    BY <1>2
  <2>4. QED BY <1>6, <2>1, <2>2, <2>3 DEF CommandsReachTimers
<1>7. QED BY <1>5, <1>6 DEF CommandsReachTimers

LEMMA TimersStayWithout ==
  ASSUME NEW a, a \in DOMAIN objects => objects[a].kind # "timer",
         objects' = Without(a) \/ objects' = objects
  PROVE  TimersStay
  BY DEF TimersStay, Without

LEMMA ReachDropped ==
  ASSUME ObjectsAssumption, ObjectsIInv, CommandsReachTimers,
         NEW t \in Threads, NEW v \in Values, Drop(t, v)
  PROVE  CommandsReachTimers'
<1>1. PICK a, kind : a = values[v].handle /\ kind = values[v].kind
  OBVIOUS
<1>2. CASE ~values[v].owns \/ DropOf[kind] = "kept"
  BY <1>1, <1>2, ReachKept DEF Drop, TimersStay
<1>3. CASE values[v].owns /\ DropOf[kind] # "kept"
  <2>1. /\ a \in DOMAIN objects /\ objects[a].kind = kind /\ kind \in Kinds
        /\ ~Commanded(a, "delete")
    BY <1>1, <1>3, OwnerFacts DEF ObjectType
  <2>2. CASE DropOf[kind] = "commanded"
    <3>1. kind = "timer"
      BY <2>1, <2>2, OnlyTimersCommanded
    <3>2. /\ objects' = objects
          /\ \/ commands' = commands
             \/ commands' = Append(commands, Command("delete", a))
      BY <1>1, <1>3, <2>2 DEF Drop
    <3>3. CASE commands' = commands
      BY <3>2, <3>3, ReachKept DEF TimersStay
    <3>4. QED BY <2>1, <3>1, <3>2, <3>3, ReachSent
  <2>3. CASE DropOf[kind] # "commanded"
    <3>1. objects' = Without(a) /\ commands' = commands
      BY <1>1, <1>3, <2>1, <2>3 DEF Drop, Deletes
    <3>2. kind # "timer"
      BY <2>3 DEF DropOf, TimerDrop
    <3>3. QED BY <2>1, <3>1, <3>2, TimersStayWithout, ReachKept
  <2>4. QED BY <2>2, <2>3
<1>4. QED BY <1>2, <1>3

LEMMA ReachNext ==
  ASSUME ObjectsAssumption, ~CallbacksRearm, ObjectsIInv, CommandsReachTimers,
         [ObjectsNext]_objVars
  PROVE  CommandsReachTimers'
<1>1. ASSUME commands' = commands, objects' = objects
      PROVE  CommandsReachTimers'
  BY <1>1, ReachKept DEF TimersStay
<1>2. ASSUME NEW t \in Threads, NEW v \in Values, NEW kind \in Kinds,
             New(t, v, kind) \/ \E s \in statics : NewStatic(t, v, kind, s)
      PROVE  CommandsReachTimers'
  <2>1. CASE New(t, v, kind)
    <3>1. CASE Free = {}
      BY <1>1, <2>1, <3>1 DEF New
    <3>2. CASE Free # {}
      <4>1. PICK o : o = Min(Free) /\ o \notin DOMAIN objects
        BY <3>2, FreeIsNew
      <4>2. commands' = commands /\ objects' = Including(o, Object(kind, <<o>>))
        BY <2>1, <3>2, <4>1 DEF New
      <4>3. TimersStay
        BY <4>1, <4>2 DEF TimersStay, Including
      <4>4. QED BY <4>2, <4>3, ReachKept
    <3>3. QED BY <3>1, <3>2
  <2>2. CASE \E s \in statics : NewStatic(t, v, kind, s)
    <3>1. PICK s \in statics : NewStatic(t, v, kind, s)
      BY <2>2
    <3>2. s \notin DOMAIN objects
      BY DEF ObjectsIInv, ObjectsTypeOK, OwnershipOK, PlacedOK
    <3>3. commands' = commands /\ objects' = Including(s, Object(kind, <<>>))
      BY <3>1 DEF NewStatic
    <3>4. TimersStay
      BY <3>2, <3>3 DEF TimersStay, Including
    <3>5. QED BY <3>3, <3>4, ReachKept
  <2>3. QED BY <1>2, <2>1, <2>2
<1>3. ASSUME NEW t \in Threads, NEW v \in Values,
             Spawn(t, v) \/ into_raw(t, v)
      PROVE  CommandsReachTimers'
  BY <1>1, <1>3 DEF Spawn, into_raw
<1>4. ASSUME NEW t \in Threads, NEW v \in Values, NEW u \in Threads \cup {Isr},
             Shares(t, v, u) \/ Moves(t, v, u)
      PROVE  CommandsReachTimers'
  BY <1>1, <1>4 DEF Shares, Moves
<1>5. ASSUME NEW t \in Threads, NEW v \in Values, Ends(t, v)
      PROVE  CommandsReachTimers'
  BY <1>1, <1>5, ReachDropped DEF Ends
<1>6. ASSUME NEW t \in Threads, NEW v \in Values, delete(t, v)
      PROVE  CommandsReachTimers'
  <2>1. PICK a, kind : a = values[v].handle /\ kind = values[v].kind
    OBVIOUS
  <2>2. a \in DOMAIN objects /\ objects[a].kind = kind /\ kind # "timer"
    BY <1>6, <2>1, OwnerFacts DEF delete, DropOf, TimerDrop
  <2>3. objects' = Without(a) /\ commands' = commands
    BY <1>6, <2>1, <2>2 DEF delete, Deletes
  <2>4. QED BY <2>2, <2>3, TimersStayWithout, ReachKept
<1>7. ASSUME NEW t \in Threads, NEW v \in Values, DeleteTimer(t, v)
      PROVE  CommandsReachTimers'
  <2>1. PICK a \in DOMAIN objects : /\ a = values[v].handle
                                    /\ objects[a].kind = "timer"
                                    /\ ~Commanded(a, "delete")
    BY <1>7, OwnerFacts DEF DeleteTimer
  <2>2. objects' = objects /\ commands' = Append(commands, Command("delete", a))
    BY <1>7, <2>1 DEF DeleteTimer
  <2>3. QED BY <2>1, <2>2, ReachSent
<1>8. ASSUME NEW t \in Threads, NEW v \in Values, NEW a \in raw, from_raw_owned(t, v, a)
      PROVE  CommandsReachTimers'
  BY <1>1, <1>8 DEF from_raw_owned
<1>9. ASSUME NEW t \in Threads, NEW a \in raw, RawDelete(t, a)
      PROVE  CommandsReachTimers'
  <2>1. a \in DOMAIN objects /\ objects[a].kind # "timer"
    BY <1>9 DEF RawDelete, ObjectsIInv, OwnershipOK, RawOK
  <2>2. objects' = Without(a) /\ commands' = commands
    BY <1>9, <2>1 DEF RawDelete, Deletes
  <2>3. QED BY <2>1, <2>2, TimersStayWithout, ReachKept
<1>10. ASSUME NEW t \in Threads, NEW a \in raw, RawDeleteTimer(t, a)
       PROVE  CommandsReachTimers'
  <2>1. /\ a \in DOMAIN objects /\ objects[a].kind = "timer" /\ ~Commanded(a, "delete")
        /\ objects' = objects /\ commands' = Append(commands, Command("delete", a))
    BY <1>10 DEF RawDeleteTimer, ObjectsIInv, OwnershipOK, RawOK
  <2>2. QED BY <2>1, ReachSent
<1>11. ASSUME NEW t \in Threads, Spawned(t)
       PROVE  CommandsReachTimers'
  <2>1. CASE Free = {}
    BY <1>1, <1>11, <2>1 DEF Spawned
  <2>2. CASE Free # {}
    <3>1. PICK o : o = Min(Free) /\ o \notin DOMAIN objects
      BY <2>2, FreeIsNew
    <3>2. commands' = commands
          /\ objects' = Including(o, Object("task", Append(call[t].blocks, o)))
      BY <1>11, <2>2, <3>1 DEF Spawned
    <3>3. TimersStay
      BY <3>1, <3>2 DEF TimersStay, Including
    <3>4. QED BY <3>2, <3>3, ReachKept
  <2>3. QED BY <2>1, <2>2
<1>12. ASSUME NEW t \in Threads, Dropped(t)
       PROVE  CommandsReachTimers'
  <2>1. Drop(t, call[t].value) /\ call[t].value \in Values
    BY <1>12 DEF Dropped, ObjectsIInv, OwnershipOK, BusyOK, BusyAt
  <2>2. QED BY <2>1, ReachDropped
<1>13. ASSUME NEW t \in Threads, Frees(t)
       PROVE  CommandsReachTimers'
  BY <1>1, <1>13 DEF Frees
<1>14. ASSUME NEW v \in Values, EndsInIsr(v) \/ from_raw(v)
       PROVE  CommandsReachTimers'
  BY <1>1, <1>14 DEF EndsInIsr, from_raw
<1>15. ASSUME NEW v \in Values, NEW name \in {"start", "stop"}, SendsCommand(v, name)
       PROVE  CommandsReachTimers'
  <2>1. PICK a \in DOMAIN objects : /\ a = values[v].handle
                                    /\ objects[a].kind = "timer"
                                    /\ ~Commanded(a, "delete")
    BY <1>15, OwnerFacts DEF SendsCommand
  <2>2. objects' = objects /\ commands' = Append(commands, Command(name, a))
    BY <1>15, <2>1 DEF SendsCommand
  <2>3. QED BY <2>1, <2>2, ReachSent
<1>16. ASSUME NEW v \in Values, Rearms(v)
       PROVE  CommandsReachTimers'
  BY <1>16 DEF Rearms
<1>17. ASSUME NEW a \in DOMAIN objects, prvProcessExpiredTimer(a)
       PROVE  CommandsReachTimers'
  <2>1. PICK x : objects' = [objects EXCEPT ![a].active = x] /\ commands' = commands
    BY <1>17 DEF prvProcessExpiredTimer
  <2>2. objects[a] \in ObjectType
    BY DEF ObjectsIInv, ObjectsTypeOK
  <2>3. TimersStay
    BY <2>1, <2>2 DEF TimersStay, ObjectType
  <2>4. QED BY <2>1, <2>3, ReachKept
<1>18. ASSUME NEW a \in DOMAIN objects, delete_self(a)
       PROVE  CommandsReachTimers'
  <2>1. objects[a].kind # "timer" /\ objects' = Without(a) /\ commands' = commands
    BY <1>18 DEF delete_self
  <2>2. QED BY <2>1, TimersStayWithout, ReachKept
<1>19. ASSUME CallbackReturns \/ prvCheckTasksWaitingTermination \/ UNCHANGED objVars
       PROVE  CommandsReachTimers'
  BY <1>1, <1>19 DEF CallbackReturns, prvCheckTasksWaitingTermination, objVars
<1>20. QED BY <1>2, <1>3, <1>4, <1>5, <1>6, <1>7, <1>8, <1>9, <1>10, <1>11, <1>12, <1>13,
              <1>14, <1>15, <1>16, <1>17, <1>18, <1>19, ReachReceived DEF ObjectsNext

\* A command is for a timer that is alive when the daemon receives it, and its deletion
\* is the last one, unless callbacks send commands by the handle they are given.
THEOREM CommandsFindTimers ==
  ~CallbacksRearm => (ObjectsSpec => []CommandsReachTimers)
<1> SUFFICES ASSUME ~CallbacksRearm PROVE ObjectsSpec => []CommandsReachTimers
  OBVIOUS
<1>1. ObjectsInit => CommandsReachTimers
  BY DEF ObjectsInit, CommandsReachTimers
<1>2. ObjectsIInv /\ CommandsReachTimers /\ [ObjectsNext]_objVars => CommandsReachTimers'
  BY ObjectsAssumption, ReachNext
<1>3. QED BY <1>1, <1>2, ObjectsInvariant, PTL DEF ObjectsSpec
=============================================================================

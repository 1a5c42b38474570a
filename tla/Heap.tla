-------------------------------- MODULE Heap --------------------------------
(***************************************************************************)
(* The allocators of src/src/memory/heap_4.rs and heap_5.rs: a list of     *)
(* free blocks, sorted by address, with headers in the memory itself.      *)
(* heap_4 has one region and sets it up at the first request, heap_5 is    *)
(* told of its regions.  The scheduler is suspended while a block is taken *)
(* or put back, and an interrupt does not touch the heap.                  *)
(***************************************************************************)
EXTENDS Integers, FiniteSets, Sequences, FiniteSetsExt, TLC

CONSTANTS
  Tasks,
  MaxSize,             \* usize::MAX
  portBYTE_ALIGNMENT,
  HEAP_STRUCT_SIZE,
  GLOBAL_ALLOC_HEADER_SIZE,
  UC_HEAP,             \* <<start, size>> of the storage of heap_4
  Regions,             \* the sequences of regions heap_5 may be told of
  MallocUses,          \* the sizes tasks ask for
  CallocUses,          \* the <<number, size>> tasks ask for
  LayoutUses           \* the <<size, alignment>> tasks ask for

ASSUME HeapAssumption ==
  /\ portBYTE_ALIGNMENT \in Nat \ {0}
  /\ HEAP_STRUCT_SIZE \in Nat \ {0}
  /\ HEAP_STRUCT_SIZE % portBYTE_ALIGNMENT = 0
  /\ MaxSize \in Nat

VARIABLES
  version,  \* the allocator the program is built with
  heap,     \* the blocks and the counters
  owned,    \* what the application has been given and not freed
  pc,       \* where each task is
  block,    \* the block each task frees, or the counter it has read
  refused   \* bytes of the request the last step refused, or 0

hvars == <<version, heap, owned, pc, block, refused>>

Null == -1

\* X_START is not in a region.
X_START == 0

HEAP_MINIMUM_BLOCK_SIZE == 2 * HEAP_STRUCT_SIZE

HEAP_BLOCK_ALLOCATED_BITMASK == (MaxSize + 1) \div 2

(***************************************************************************)
(* blocks maps the address of a header to the header; the flag of its size *)
(* is a field.  A header that nothing refers to any more is dropped.       *)
(* space, which no code reads, is the ranges of usable addresses.          *)
(***************************************************************************)
NoHeap ==
  [blocks |-> [p \in {X_START} |->
                 [next |-> Null, size |-> 0, allocated |-> FALSE]],
   end |-> Null, free |-> 0, space |-> {}]

HeapInit ==
  /\ version \in {"heap_4", "heap_5"}
  /\ heap = NoHeap
  /\ owned = {}
  /\ pc = [t \in Tasks |-> "app"] /\ block = [t \in Tasks |-> Null]
  /\ refused = 0

With(h, p, header) == [h EXCEPT !.blocks = (p :> header) @@ @]

Linked(h, p, next) == [h EXCEPT !.blocks[p].next = next]

Header(next, size) == [next |-> next, size |-> size, allocated |-> FALSE]
-----------------------------------------------------------------------------
(* Regions.                                                                *)

AlignedUp(x, alignment) == alignment * ((x + alignment - 1) \div alignment)

AlignedDown(x, alignment) == alignment * (x \div alignment)

\* The usable range of a region; the end marker comes after it.
prv_region_bounds(region) ==
  <<AlignedUp(region[1], portBYTE_ALIGNMENT),
    AlignedDown(region[1] + region[2] - HEAP_STRUCT_SIZE, portBYTE_ALIGNMENT)>>

Usable(region) ==
  LET r == prv_region_bounds(region) IN r[2] - r[1] > HEAP_MINIMUM_BLOCK_SIZE

\* The next region of h is r: the last end marker leads to its free block.
Adds(h, r) ==
  LET last == IF h.end = Null THEN X_START ELSE h.end
      h1   == With(h, r[2], Header(Null, 0))
      h2   == With(h1, r[1], Header(r[2], r[2] - r[1]))
  IN  [Linked(h2, last, r[1]) EXCEPT
         !.end     = r[2],
         !.free    = @ + r[2] - r[1],
         !.space   = @ \cup {r}]

prv_heap_init == Adds(NoHeap, prv_region_bounds(UC_HEAP))

\* Undersized regions are left out.
vPortDefineHeapRegions(regions) ==
  LET usable == SelectSeq(regions, Usable)
      defined[i \in 0..Len(usable)] ==
        IF i = 0 THEN NoHeap
                 ELSE Adds(defined[i - 1], prv_region_bounds(usable[i]))
  IN  /\ version = "heap_5" /\ heap.end = Null /\ usable # <<>>
      /\ heap' = defined[Len(usable)]
      /\ refused' = 0
      /\ UNCHANGED <<version, owned, pc, block>>

\* For a scheduler restart.
vPortHeapResetState ==
  /\ owned = {} /\ ~\E p \in DOMAIN heap.blocks : heap.blocks[p].allocated
  /\ \A t \in Tasks : pc[t] = "app"
  /\ heap' = NoHeap
  /\ refused' = 0
  /\ UNCHANGED <<version, owned, pc, block>>
-----------------------------------------------------------------------------
(* Taking a block.                                                         *)

\* A sum or product that does not fit a usize, None in the code.
Fits(x) == x <= MaxSize

\* The size of the block for n bytes; 0 if there is none.
x_wanted_size(n) ==
  LET size == AlignedUp(n + HEAP_STRUCT_SIZE, portBYTE_ALIGNMENT)
  IN  IF n = 0 \/ ~Fits(size) THEN 0 ELSE size

heap_block_size_is_valid(size) == size < HEAP_BLOCK_ALLOCATED_BITMASK

\* The block before the first that is large enough, or before the end marker.
FirstFit(h, wanted) ==
  LET before[p \in DOMAIN h.blocks] ==
        LET next == h.blocks[p].next
        IN  IF h.blocks[next].size < wanted /\ h.blocks[next].next # Null
              THEN before[next] ELSE p
  IN  before[X_START]

\* The block b after p is removed from the list, less what is left of it when
\* wanted bytes are split off.
Taken(h, p, b, wanted) ==
  LET rest  == h.blocks[b].size - wanted
      split == rest > HEAP_MINIMUM_BLOCK_SIZE
      next  == h.blocks[b].next
      size  == IF split THEN wanted ELSE h.blocks[b].size
      h1    == IF split THEN With(Linked(h, p, b + wanted), b + wanted,
                                  Header(next, rest))
                        ELSE Linked(h, p, next)
  IN  [With(h1, b, [next |-> Null, size |-> size, allocated |-> TRUE]) EXCEPT
         !.free = @ - size]

\* The heap and the pointer that pvPortMalloc returns.
Malloc(n) ==
  LET h      == IF heap.end = Null THEN prv_heap_init ELSE heap
      wanted == x_wanted_size(n)
      before == FirstFit(h, wanted)
      found  == h.blocks[before].next
  IN  IF /\ heap_block_size_is_valid(wanted) /\ wanted > 0 /\ wanted <= h.free
         /\ found # h.end
        THEN [heap |-> Taken(h, before, found, wanted),
              at   |-> found + HEAP_STRUCT_SIZE]
        ELSE [heap |-> h, at |-> Null]

\* heap_5 asserts that its regions are defined.
MayAllocate(t) == pc[t] = "app" /\ (version = "heap_4" \/ heap.end # Null)

\* Of what the application owns: the address, the address of the block's
\* payload, the size and the alignment.
Owned(at, raw, size, alignment) ==
  [at |-> at, raw |-> raw, size |-> size, alignment |-> alignment]

pvPortMalloc(t, n) ==
  LET m == Malloc(n)
  IN  /\ MayAllocate(t)
      /\ heap' = m.heap
      /\ IF m.at = Null
           THEN refused' = n /\ UNCHANGED owned
           ELSE /\ owned' = owned \cup {Owned(m.at, m.at, n, portBYTE_ALIGNMENT)}
                /\ refused' = 0
      /\ UNCHANGED <<version, pc, block>>

pvPortCalloc(t, number, size) ==
  IF Fits(number * size)
    THEN pvPortMalloc(t, number * size)
    ELSE /\ MayAllocate(t)
         /\ refused' = number * size
         /\ UNCHANGED <<version, heap, owned, pc, block>>

\* Mutant: nothing is added for the alignment.
AllocLayoutUnpadded(size, align) ==
  LET alignment == IF align > portBYTE_ALIGNMENT THEN align
                                                 ELSE portBYTE_ALIGNMENT
      total == size + GLOBAL_ALLOC_HEADER_SIZE
      m     == Malloc(total)
      at    == AlignedUp(m.at + GLOBAL_ALLOC_HEADER_SIZE, alignment)
  IN  IF ~Fits(total) \/ m.at = Null
        THEN [heap    |-> IF Fits(total) THEN m.heap ELSE heap,
              owned   |-> {}, refused |-> total]
        ELSE [heap    |-> m.heap,
              owned   |-> {Owned(at, m.at, size, align)}, refused |-> 0]

\* The block is larger by what the alignment may skip, and the pointer to it is
\* kept before the aligned address.
prv_alloc_layout(size, align) ==
  LET alignment == IF align > portBYTE_ALIGNMENT THEN align
                                                 ELSE portBYTE_ALIGNMENT
      total == size + GLOBAL_ALLOC_HEADER_SIZE + alignment - 1
      m     == Malloc(total)
      at    == AlignedUp(m.at + GLOBAL_ALLOC_HEADER_SIZE, alignment)
  IN  IF ~Fits(total) \/ m.at = Null
        THEN [heap    |-> IF Fits(total) THEN m.heap ELSE heap,
              owned   |-> {}, refused |-> total]
        ELSE [heap    |-> m.heap,
              owned   |-> {Owned(at, m.at, size, align)}, refused |-> 0]

alloc(t, size, align) ==
  LET a == prv_alloc_layout(size, align)
  IN  /\ MayAllocate(t)
      /\ heap' = a.heap /\ owned' = owned \cup a.owned /\ refused' = a.refused
      /\ UNCHANGED <<version, pc, block>>
-----------------------------------------------------------------------------
(* Putting a block back.                                                   *)

\* vPortFree up to the suspension of the scheduler: the flag of the block is
\* cleared.
StartsFree(t, h, raw) ==
  LET b == raw - HEAP_STRUCT_SIZE
  IN  /\ heap' = [h EXCEPT !.blocks[b].allocated = FALSE]
      /\ pc' = [pc EXCEPT ![t] = "free"] /\ block' = [block EXCEPT ![t] = b]

vPortFree(t, o) ==
  /\ pc[t] = "app" /\ o \in owned
  /\ StartsFree(t, heap, o.raw)
  /\ owned' = owned \ {o}
  /\ refused' = 0
  /\ UNCHANGED version

\* A larger or a smaller block takes the place of one that alloc gave.
realloc(t, o, n) ==
  LET a == prv_alloc_layout(n, o.alignment)
  IN  /\ MayAllocate(t) /\ o \in owned /\ o.at # o.raw
      /\ IF a.owned = {}
           THEN heap' = a.heap /\ UNCHANGED <<owned, pc, block>>
           ELSE /\ StartsFree(t, a.heap, o.raw)
                /\ owned' = (owned \ {o}) \cup a.owned
      /\ refused' = a.refused
      /\ UNCHANGED version

\* In an interrupt, what alloc gave is not freed but lost.
dealloc(o) ==
  /\ o \in owned /\ o.at # o.raw
  /\ owned' = owned \ {o}
  /\ refused' = 0
  /\ UNCHANGED <<version, heap, pc, block>>

\* Mutant: a block does not grow by the one that follows it.
JoinedBefore(h, b) ==
  LET before[p \in DOMAIN h.blocks] ==
        IF h.blocks[p].next < b THEN before[h.blocks[p].next] ELSE p
      p     == before[X_START]
      joins == p + h.blocks[p].size = b
      next  == h.blocks[p].next
  IN  IF joins
        THEN [h EXCEPT !.blocks = [i \in DOMAIN @ \ {b} |->
                 IF i = p THEN Header(next, @[p].size + @[b].size) ELSE @[i]]]
        ELSE Linked(With(h, b, Header(next, h.blocks[b].size)), p, b)

\* The block b is put between its neighbours in the list, or joined with those it
\* touches.  The end marker of a region that is not the last is joined as well.
prv_insert_block_into_free_list(h, b) ==
  LET before[p \in DOMAIN h.blocks] ==
        IF h.blocks[p].next < b THEN before[h.blocks[p].next] ELSE p
      p     == before[X_START]
      next  == h.blocks[p].next
      first == IF p + h.blocks[p].size = b THEN p ELSE b
      size  == IF first = p THEN h.blocks[p].size + h.blocks[b].size
                            ELSE h.blocks[b].size
      joins == first + size = next /\ next # h.end
      h1    == IF joins
                 THEN With(h, first, Header(h.blocks[next].next,
                                            size + h.blocks[next].size))
                 ELSE With(h, first, Header(next, size))
      h2    == IF first = p THEN h1 ELSE Linked(h1, p, b)
      gone  == {b, next} \ ({first} \cup IF joins THEN {} ELSE {next})
  IN  [h2 EXCEPT !.blocks = [i \in DOMAIN @ \ gone |-> @[i]]]

\* The rest of vPortFree.
Freed(t) ==
  /\ pc[t] = "free"
  /\ heap' = [prv_insert_block_into_free_list(heap, block[t]) EXCEPT
                !.free = @ + heap.blocks[block[t]].size]
  /\ pc' = [pc EXCEPT ![t] = "app"] /\ block' = [block EXCEPT ![t] = Null]
  /\ refused' = 0
  /\ UNCHANGED <<version, owned>>
-----------------------------------------------------------------------------
(* The specification.                                                      *)

HeapNext ==
  \/ \E regions \in Regions : vPortDefineHeapRegions(regions)
  \/ vPortHeapResetState
  \/ \E t \in Tasks :
       \/ \E n \in MallocUses : pvPortMalloc(t, n)
       \/ \E use \in CallocUses : pvPortCalloc(t, use[1], use[2])
       \/ \E use \in LayoutUses : alloc(t, use[1], use[2])
       \/ \E o \in owned : vPortFree(t, o)
       \/ \E o \in owned, use \in LayoutUses : realloc(t, o, use[1])
       \/ Freed(t)
  \/ \E o \in owned : dealloc(o)

HeapSpec == HeapInit /\ [][HeapNext]_hvars
-----------------------------------------------------------------------------
(* Properties.                                                             *)

\* The blocks in use: allocated, or about to be put back.
Used ==
  {b \in DOMAIN heap.blocks :
     heap.blocks[b].allocated \/ \E t \in Tasks : pc[t] = "free" /\ block[t] = b}

Extent(b) == <<b, b + heap.blocks[b].size>>

\* The free list goes through every block that is not in use, in the order of the
\* addresses; the blocks fill the regions without a gap, an overlap or two free
\* blocks that touch, and the count of free bytes is theirs.
BlocksPartition ==
  heap.end # Null =>
    LET Free == DOMAIN heap.blocks \ Used
        next(p) == heap.blocks[p].next
    IN  /\ \A p \in Free \ {heap.end} :
             /\ next(p) \in Free /\ p < next(p)
             /\ ~\E q \in Free : p < q /\ q < next(p)
        /\ \A p, q \in Free : p + heap.blocks[p].size = q /\ p # q =>
             q = heap.end \/ heap.blocks[q].size = 0
        /\ \A s \in heap.space : \A x \in s[1]..(s[2] - 1) :
             Cardinality({b \in DOMAIN heap.blocks :
                            b <= x /\ x < Extent(b)[2]}) = 1
        /\ heap.free = MapThenSumSet(LAMBDA p : heap.blocks[p].size, Free)

\* What is given to the application is aligned, as large as it asked for and in
\* the payload of a block of its own, with the pointer that dealloc reads.
PayloadsFit ==
  \A o \in owned :
    LET b == o.raw - HEAP_STRUCT_SIZE
    IN  /\ b \in DOMAIN heap.blocks /\ heap.blocks[b].allocated
        /\ o.at % o.alignment = 0
        /\ o.at + o.size <= Extent(b)[2]
        /\ o.at # o.raw => o.at >= o.raw + GLOBAL_ALLOC_HEADER_SIZE
        /\ \A u \in owned : u.raw = o.raw => u = o

\* Whatever the order of calls, the blocks fill the regions without overlap, the
\* free ones are linked in order and merged, and no two owners share a byte.
HeapIsSound == BlocksPartition /\ PayloadsFit

\* The heap gives out blocks that do not overlap, and refuses a request only when
\* no gap between the blocks in use is large enough for it.
Promise == INSTANCE Allocator WITH
  Alignment <- portBYTE_ALIGNMENT, Overhead <- HEAP_STRUCT_SIZE,
  space <- heap.space, used <- {Extent(b) : b \in Used}

ImplementsAllocator == Promise!Spec
=============================================================================

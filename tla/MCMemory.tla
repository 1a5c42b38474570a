------------------------------ MODULE MCMemory ------------------------------
(***************************************************************************)
(* Instances of Heap and Objects for TLC.  Addresses and sizes of the heap *)
(* are in units of half a header.                                          *)
(***************************************************************************)
EXTENDS Heap, Objects

CONSTANTS ta, tb, daemon, idle, isr, value1, value2

\* Not aligned at its start or its end.
UcHeap == <<3, 17>>

\* Two regions with a gap, and two that leave only the end marker between them;
\* the region in the middle is too small.
RegionsOfHeap5 ==
  {<< <<2, 9>>, <<13, 5>>, <<20, 11>> >>, << <<2, 8>>, <<10, 10>> >>}

\* The last two do not fit a usize.
Mallocs == {0, 1, 3, 11, 63, 126}

Callocs == {<<2, 1>>, <<12, 12>>}

Layouts == {<<1, 4>>, <<3, 1>>}

\* The program either calls the allocators, or uses wrappers of timers or of other
\* objects, in tasks, in callbacks and in a handler.
VARIABLE program

MCMemoryInit ==
  /\ HeapInit /\ ObjectsInit
  /\ program \in {"blocks", "handles", "timers"}
  /\ program # "blocks" => version = "heap_4"

UsersOfValues == IF program = "timers" THEN {ta, daemon, isr} ELSE {ta, tb, isr}

OfProgram ==
  /\ \A a \in DOMAIN objects' : objects'[a].kind = "timer" <=> program = "timers"
  /\ \A v \in Values : values'[v].users \subseteq UsersOfValues
  /\ program = "timers" =>
       /\ call'[tb] = NoCall /\ call'[ta].step # "spawn"
       /\ held' \subseteq {1, 2} /\ statics' = statics

MCMemoryNext ==
  /\ \/ program = "blocks" /\ HeapNext /\ UNCHANGED objVars
     \/ program # "blocks" /\ ObjectsNext /\ OfProgram /\ UNCHANGED hvars
  /\ UNCHANGED program

MCMemorySpec == MCMemoryInit /\ [][MCMemoryNext]_<<hvars, objVars, program>>

Interchangeable == Permutations(Values)
=============================================================================

------------------------------- MODULE Lists -------------------------------
(***************************************************************************)
(* The doubly linked list of src/src/kernel/list.rs, seen through its      *)
(* exported operations.  The ring of items that starts after xListEnd is   *)
(* the sequence "items"; the cursor pxIndex is the position "idx" in it,   *)
(* 0 standing for the end marker.  An item occurs at most once.            *)
(***************************************************************************)
EXTENDS SequencesExt

ListOf(S) == {L \in [items : Seq(S), idx : Nat] : L.idx <= Len(L.items)}

\* The position of item x of list L.
PositionOf(L, x) == CHOOSE i \in 1..Len(L.items) : L.items[i] = x

vListInitialise == [items |-> << >>, idx |-> 0]

listLIST_IS_EMPTY(L) == L.items = << >>

listGET_OWNER_OF_HEAD_ENTRY(L) == Head(L.items)

\* The list whose cursor has moved on to the next item, over the end marker.
listNEXT_ENTRY(L) == [L EXCEPT !.idx = IF @ = Len(L.items) THEN 1 ELSE @ + 1]

\* The item becomes the last one the cursor reaches: it goes just before it.
vListInsertEnd(L, x) ==
  IF L.idx = 0
    THEN [items |-> Append(L.items, x), idx |-> 0]
    ELSE [items |-> InsertAt(L.items, L.idx, x), idx |-> L.idx + 1]

(***************************************************************************)
(* The position at which a sorted insertion puts an item of value v, when  *)
(* value[y] is the value of item y and xListEnd has the value end: the     *)
(* loop stops before the first greater value, and an item with the value   *)
(* of the end marker goes to the tail without a search.                    *)
(***************************************************************************)
IsInsertionPoint(L, value, v, end, i) ==
  IF v = end
    THEN i = Len(L.items) + 1
    ELSE /\ \A j \in 1..(i - 1) : value[L.items[j]] <= v
         /\ i <= Len(L.items) => value[L.items[i]] > v

InsertionPoint(L, value, v, end) ==
  CHOOSE i \in 1..(Len(L.items) + 1) : IsInsertionPoint(L, value, v, end, i)

vListInsert(L, x, value, end) ==
  LET i == InsertionPoint(L, value, value[x], end)
  IN  [items |-> InsertAt(L.items, i, x),
       idx   |-> IF i <= L.idx THEN L.idx + 1 ELSE L.idx]

\* Removing the item under the cursor leaves the cursor on its predecessor.
uxListRemove(L, x) ==
  LET i == PositionOf(L, x)
  IN  [items |-> RemoveAt(L.items, i),
       idx   |-> IF i <= L.idx THEN L.idx - 1 ELSE L.idx]
=============================================================================

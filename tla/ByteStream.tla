----------------------------- MODULE ByteStream -----------------------------
(***************************************************************************)
(* What a family of streams promises: up to Units[s] elements are appended *)
(* to stream s in a step, and up to as many leave it from the front; a     *)
(* stream may be emptied.  A message is a stream's element by itself.      *)
(***************************************************************************)
EXTENDS Naturals, Sequences

CONSTANTS Streams, Units

VARIABLE contents

Init == contents = [s \in Streams |-> <<>>]

Write(old, new, n) ==
  /\ Len(new) \in Len(old)..(Len(old) + n)
  /\ SubSeq(new, 1, Len(old)) = old

Read(old, new, n) ==
  /\ Len(old) - Len(new) \in 1..n
  /\ new = SubSeq(old, Len(old) - Len(new) + 1, Len(old))

Empty(old, new) == new = <<>>

Next ==
  \A s \in Streams :
    LET old == contents[s]
        new == contents'[s]
    IN  Write(old, new, Units[s]) \/ Read(old, new, Units[s]) \/ Empty(old, new)

Spec == Init /\ [][Next]_contents
=============================================================================

---------------------------- MODULE BoundedFifo ----------------------------
(***************************************************************************)
(* What a family of queues promises: each holds at most Capacity[q] items, *)
(* which leave in order from the front.  Items enter at the back or, out   *)
(* of turn, at the front; the only item of a queue of capacity 1 may be    *)
(* overwritten; a queue may be reset.                                      *)
(***************************************************************************)
EXTENDS Naturals, Sequences

CONSTANTS Fifos, Values, Capacity

VARIABLE items

TypeOK == items \in [Fifos -> Seq(Values)]

Init == items = [q \in Fifos |-> <<>>]

Put(q, s) ==
  /\ Len(items[q]) < Capacity[q]
  /\ \E x \in Values : s = Append(items[q], x) \/ s = <<x>> \o items[q]

Overwrite(q, s) == Capacity[q] = 1 /\ \E x \in Values : s = <<x>>

Take(q, s) == items[q] # <<>> /\ s = Tail(items[q])

Reset(q, s) == s = <<>>

\* One step of a system may use several queues.
Next ==
  \A q \in Fifos :
    LET s == items'[q]
    IN  s = items[q] \/ Put(q, s) \/ Overwrite(q, s) \/ Take(q, s) \/ Reset(q, s)

Spec == Init /\ [][Next]_items
=============================================================================

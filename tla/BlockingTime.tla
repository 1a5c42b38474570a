---------------------------- MODULE BlockingTime ----------------------------
(***************************************************************************)
(* What the delayed task lists promise, without tick counts, wake times,   *)
(* wrapping or lists: a blocked task has a number of ticks left, every     *)
(* tick takes one from each blocked task, and a task may be released       *)
(* before its time is up.                                                  *)
(***************************************************************************)
EXTENDS Naturals

CONSTANTS Tasks, MaxTicks  \* the tasks, and the longest time to block
VARIABLE left              \* the ticks each task has left, 0 if none

Init == left = [t \in Tasks |-> 0]

Block == \E t \in Tasks, n \in 1..MaxTicks :
           left[t] = 0 /\ left' = [left EXCEPT ![t] = n]

Release == \E t \in Tasks : left' = [left EXCEPT ![t] = 0]

Tick == left' = [t \in Tasks |-> IF left[t] = 0 THEN 0 ELSE left[t] - 1]

Spec == Init /\ [][Block \/ Release \/ Tick]_left
=============================================================================

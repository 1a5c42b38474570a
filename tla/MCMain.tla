------------------------------- MODULE MCMain -------------------------------
(* The main() of an instance: the tasks it creates before it starts the    *)
(* scheduler, in order, with their priorities.                             *)
EXTENDS Scheduler

CONSTANT Main  \* sequences of <<task, priority>>

Created(t) == pc[t] # "none"

\* What is created next is what one of the sequences of Main has next, and the
\* scheduler starts when everything is created.
FollowsMain ==
  ~os.running =>
    \E main \in Main :
      LET n == Cardinality({t \in Tasks : Created(t)})
      IN  /\ n <= Len(main)
          /\ \A i \in 1..n : Created(main[i][1])
                             /\ os.prio[main[i][1]] = main[i][2]
          /\ IF n = Len(main)
               THEN os'.running
               ELSE /\ pc'[main[n + 1][1]] # "none"
                    /\ os'.prio[main[n + 1][1]] = main[n + 1][2]
=============================================================================

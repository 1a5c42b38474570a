------------------------------ MODULE MCTimers ------------------------------
(* An instance of Timers for TLC.                                          *)
EXTENDS Timers, MCMain

CONSTANTS ta, tmrTask, idle, null, queue1, timer1, timer2, timer3, timer4,
          timer5, none, noItem, noTimer

TwoTasks == {ta, tmrTask, idle}

\* The daemon shares its priority with the task, so that either is preempted, or
\* preempts it.
MainOfTwo == {<< <<ta, 1>>, <<tmrTask, 1>> >>, << <<ta, 0>>, <<tmrTask, 1>> >>}

Both == {-7, -8}

QueueOnly  == {queue1}
KindOf     == [i \in QueueOnly |-> "queue"]
LengthOf1  == [i \in QueueOnly |-> 1]
ZeroAtFirst == [i \in QueueOnly |-> 0]
SendLists    == [i \in QueueOnly |-> -7]
ReceiveLists == [i \in QueueOnly |-> -8]
NoContainers == [i \in QueueOnly |-> none]

\* Timers 1, 2 and 4 expire once; 3 and 5 reload.
FiveTimers == {timer1, timer2, timer3, timer4, timer5}
Periods5 == [i \in FiveTimers |-> IF i \in {timer3, timer5} THEN 1 ELSE 2]
Reloads  == [i \in FiveTimers |-> i \in {timer3, timer5}]

CommandsOfA ==
  {<<ta, "start", timer1, 0, 0>>, <<ta, "delete", timer1, 0, 0>>,
   <<ta, "start", timer2, 0, 1>>, <<ta, "changePeriod", timer3, 2, 0>>,
   <<ta, "start", timer4, 0, 0>>, <<ta, "start", timer5, 0, 0>>}

CommandsOfHandlers ==
  {<<"changePeriod", timer2, 1>>, <<"callback", noTimer, 0>>,
   <<"start", timer3, 0>>, <<"stop", timer3, 0>>}

ManagesOfA == {<<ta, "create", timer1>>, <<ta, "setReloadMode", timer3>>}

\* The timers of a behaviour.
VARIABLE chosen

OneOrTwo == {{timer1}, {timer2}, {timer3, noTimer}, {timer4, timer5}}

OnlyChosen ==
  /\ \A i \in Timers \ chosen : timer'[i] = timer[i]
  /\ call'[ta].item # NoItem => call'[ta].item.timer \in chosen
  /\ \A i \in 1..queue'[queue1].count : Contents(queue1)'[i].timer \in chosen
  /\ pc'[ta] # "none" => (os'.prio[ta] = 0 <=> chosen \cap {timer2, timer3} # {})

\* The daemon keeps up with the tick count: a behaviour ends where it would not,
\* so that the configuration does not check for deadlock.
MCTimersInit == TimersInit /\ chosen \in OneOrTwo

MCTimersNext ==
  /\ TimersNext /\ FollowsMain /\ OnlyChosen /\ UNCHANGED chosen
  /\ DaemonKeepsUp'

MCTimersSpec == MCTimersInit /\ [][MCTimersNext]_<<tvars, chosen>>
=============================================================================

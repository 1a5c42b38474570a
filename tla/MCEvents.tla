------------------------------ MODULE MCEvents ------------------------------
(* An instance of Events for TLC.                                          *)
EXTENDS Events, MCMain

CONSTANTS a, b, c, idle, null, g, none, bit1, bit2

ThreeTasks == {a, b, c, idle}

MainOfThree == {<< <<a, 0>>, <<b, 1>>, <<c, 1>> >>}

OneList == {-7}

GroupList == [i \in EventGroups |-> -7]

NotifiesOfA == {<<a, b, "eIncrement", 0>>, <<a, b, "eSetValueWithoutOverwrite", 1>>}
NotifiesOfHandlers == {<<b, "eSetBits", 2>>}
Waits == {<<b, "take", 2, 0, 0>>, <<b, "wait", 3, 1, 2>>}
StateClears == {<<a, b>>}
ValueClears == {<<a, b, 1>>}

GroupCalls ==
  {<<a, "sync", g, {bit1}, {bit1, bit2}, TRUE, TRUE, 2>>,
   <<a, "set", g, {bit1, bit2}, {}, FALSE, FALSE, 0>>,
   <<a, "clear", g, {bit1}, {}, FALSE, FALSE, 0>>,
   <<a, "delete", g, {}, {}, FALSE, FALSE, 0>>,
   <<b, "sync", g, {bit2}, {bit1, bit2}, TRUE, TRUE, 1>>,
   <<c, "wait", g, {}, {bit1}, FALSE, FALSE, 3>>}

MCEventsSpec == EventsInit /\ [][EventsNext /\ FollowsMain]_evars
=============================================================================

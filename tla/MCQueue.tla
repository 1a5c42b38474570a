------------------------------ MODULE MCQueue ------------------------------
(* Instances of Queue for TLC.                                             *)
EXTENDS Queue, MCMain

CONSTANTS ta, tb, tc, idle, null, queue1, queue2, mutex1, set1, item1, item2,
          none, noItem

TwoTasks   == {ta, tb, idle}
ThreeTasks == {ta, tb, tc, idle}

QueuesAndSet == {queue1, queue2, set1}
OneMutex     == {mutex1}

KindOf  == [i \in Queues |-> CASE i \in {queue1, queue2} -> "queue"
                               [] i = mutex1 -> "mutex"
                               [] OTHER -> "set"]
LengthsOf == [i \in Queues |-> IF i \in {queue2, set1} THEN 2 ELSE 1]
ZeroAtFirst == [i \in Queues |-> 0]
SendLists    == [i \in Queues |-> CASE i \in {queue1, mutex1} -> -7
                                    [] i = queue2 -> -8 [] OTHER -> -9]
ReceiveLists == [i \in Queues |-> CASE i \in {queue1, mutex1} -> -10
                                    [] i = queue2 -> -11 [] OTHER -> -12]
EventListsUsed == {SendLists[i] : i \in Queues} \cup {ReceiveLists[i] : i \in Queues}

NoContainers == [i \in Queues |-> none]

MainOfTwo == {<< <<ta, 0>>, <<tb, 1>> >>}

MainOfThree == {<< <<ta, 0>>, <<tb, 1>>, <<tc, 2>> >>}

DelayOnly == {"vTaskDelay"}

(***************************************************************************)
(* Three applications: in two, ta and tb wait at queue1 until a time       *)
(* passes, tb to receive or to peek; in the third, they use queue2 and a   *)
(* set and their waits have no end, so that the time and, in the others, a *)
(* second item are left out.                                               *)
(***************************************************************************)
Uses == {<<ta, "back", queue1, 3>>, <<ta, "overwrite", queue1, 0>>, <<ta, "reset", queue1, 0>>,
         <<tb, "receive", queue1, 2>>, <<tb, "peek", queue1, 2>>,
         <<ta, "back", queue2, 3>>, <<ta, "front", queue2, 0>>, <<ta, "addToSet", queue2, 0>>,
         <<tb, "receive", set1, 3>>, <<tb, "receive", queue2, 0>>}

UsesOfHandlers == {<<"back", queue1>>, <<"receive", queue1>>, <<"back", queue2>>, <<"select", set1>>}

VARIABLE application

MCQueueInit == QueueInit /\ application \in {"receives", "peeks", "selects"}

OfApplication ==
  LET used == IF application = "selects" THEN {queue2, set1} ELSE {queue1}
  IN  /\ \A i \in Queues \ used : queue'[i] = queue[i]
      /\ \A t \in Tasks : call'[t].queue \in used \cup {none}
      /\ application # "selects" =>
           queue'[queue1].slots[0] # item2 /\ \A t \in Tasks : call'[t].item # item2
      /\ application = "receives" => \A t \in Tasks : call'[t].op # "peek"
      /\ application = "peeks" => \A t \in Tasks : call'[t].op \notin {"receive", "back"}
      /\ application = "selects" => os'.tick = 0 /\ os'.pendedTicks = 0

\* All that happens when both tasks wait and no handler has anything to do.
TimePasses == application = "selects" /\ os.running /\ UNCHANGED <<qvars, application>>

MCQueueNext ==
  \/ QueueNext /\ FollowsMain /\ OfApplication /\ UNCHANGED application
  \/ TimePasses

MCQueueSpec == MCQueueInit /\ [][MCQueueNext]_<<qvars, application>>

(***************************************************************************)
(* Three tasks of different priorities and a mutex.                        *)
(***************************************************************************)
MutexUses == {<<ta, "takeRecursive", mutex1, 3>>, <<ta, "giveRecursive", mutex1, 0>>,
              <<tb, "take", mutex1, 3>>, <<tb, "give", mutex1, 0>>,
              <<tc, "take", mutex1, 1>>, <<tc, "give", mutex1, 0>>}

MutexInit == QueueInit /\ application = "mutexes"

MutexNext == QueueNext /\ FollowsMain /\ UNCHANGED application

MutexSpec == MutexInit /\ [][MutexNext]_<<qvars, application>>
=============================================================================

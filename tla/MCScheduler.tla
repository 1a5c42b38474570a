---------------------------- MODULE MCScheduler ----------------------------
(* Instances of Scheduler for TLC.                                         *)
EXTENDS MCMain

CONSTANTS a, b, idle, null

TwoTasks == {a, b, idle}

TimeCalls == {"vTaskDelay", "xTaskDelayUntil", "taskYIELD"}

MainOfTwo == {<< <<a, 0>>, <<b, 1>> >>, << <<a, 0>>, <<b, 0>> >>}

MCSchedulerSpec == SchedulerInit /\ [][SchedulerNext /\ FollowsMain]_vars
MCFairSpec == MCSchedulerSpec /\ Fairness
=============================================================================

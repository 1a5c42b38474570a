------------------------------- MODULE Events -------------------------------
(***************************************************************************)
(* Tasks that use notifications and event groups, with interrupt handlers  *)
(* that notify them.                                                       *)
(***************************************************************************)
EXTENDS Notify, EventGroup

evars == <<vars, wait, egvars>>

EventsInit == SchedulerInit /\ NotifyInit /\ EventGroupInit

EventsNext ==
  \/ EventGroupsNext /\ UNCHANGED wait
  \/ NotifyNext /\ UNCHANGED egvars

EventsSpec == EventsInit /\ [][EventsNext]_evars
=============================================================================

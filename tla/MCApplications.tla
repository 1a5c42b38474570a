--------------------------- MODULE MCApplications ---------------------------
(* Instances of Scheduler with two applications: one suspends, resumes and *)
(* aborts the delays of two tasks, the other creates, deletes and changes  *)
(* the priority of a second one.                                           *)
EXTENDS MCScheduler

TaskCalls == {"vTaskDelay", "vTaskSuspendAll", "xTaskAbortDelay",
              "vTaskSuspend", "vTaskResume", "xTaskResumeFromISR",
              "xTaskCreate", "vTaskDelete", "vTaskPrioritySet"}

MainOfAny == MainOfTwo \cup {<< <<a, 0>> >>}

VARIABLE application

InitOfApplications ==
  /\ SchedulerInit
  /\ application \in {"suspends", "creates"}

CallOfApplication(t) ==
  \/ SuspendScheduler(t) \/ ResumeScheduler(t) \/ vTaskDelay(t, 1)
  \/ /\ application = "suspends"
     /\ \/ vTaskDelay(t, portMAX_DELAY)
        \/ \E x \in Handles :
             vTaskSuspend(t, x) \/ vTaskResume(t, x) \/ xTaskAbortDelay(t, x)
  \/ /\ application = "creates"
     /\ \/ \E x \in Handles :
             \/ vTaskDelete(t, x)
             \/ \E p \in NewPriorities : vTaskPrioritySet(t, x, p)
        \/ t = a /\ \E p \in InitialPriorities : xTaskCreate(t, b, p)

NextOfApplications ==
  /\ \/ /\ Start /\ FollowsMain
        /\ application = "creates" => pc'[b] = "none"
        /\ application = "suspends" /\ os'.running => pc[b] # "none"
     \/ TickISR \/ ContextSwitch \/ MaskedStep \/ IdleStep
     \/ application = "suspends" /\ \E x \in Handles : xTaskResumeFromISR(x)
     \/ \E t \in Tasks : CallOfApplication(t) \/ Continue(t)
  /\ UNCHANGED application

SpecOfApplications ==
  InitOfApplications /\ [][NextOfApplications]_<<vars, application>>
=============================================================================

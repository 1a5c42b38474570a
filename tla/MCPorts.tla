------------------------------ MODULE MCPorts -------------------------------
(***************************************************************************)
(* Instances of Tickless and of Ports for TLC: the tick timers and the     *)
(* processors under the ports.                                             *)
(***************************************************************************)
EXTENDS Tickless, Ports

CONSTANTS a, b, c, idle, null, Main

TwoTasks == {a, b, idle}
M == INSTANCE MCMain
MainOfTwo == {<< <<a, 0>>, <<b, 1>> >>}

SleepCalls == {"vTaskDelay", "vTaskSuspend", "xTaskResumeFromISR"}

\* Task a only delays itself, and task b suspends itself.
Behaves ==
  /\ \A t \in Tasks, x \in Tasks : vTaskSuspend(t, x) => t = b /\ x = b
  /\ \A n \in DelayTicks : ~vTaskDelay(b, n)

MCTicklessNext == TicklessNext /\ M!FollowsMain /\ Behaves

\* The moments at which two ports lose the time: the SP804 expires after the
\* Cortex-A9 port has masked the interrupts and before it stops the timer; or a
\* Cortex-M port stops SysTick in the very count in which it has reached zero
\* after a sleep of less than a tick.
ExpiresUnseen == hw.port = "cortex_a9" /\ IdleAt("masked") /\ hw'.tick

StoppedAtZero ==
  /\ hw.port = "cortex_m" /\ IdleAt("stopped") /\ ~IdleAt("stopped")'
  /\ hw.fired /\ hw.left = hw.reload + 1 /\ hw.reload < K

\* A behaviour is about a timer or about a processor: what it is not about stays in
\* one of its first states.
VARIABLE about

mcVars == <<tvars, portVars, about>>

MCPortsInit ==
  /\ TicklessInit /\ PortsInit
  /\ about \in {"timer", "processor"}
  /\ about = "timer" => port = "cortex_m0"
  /\ about = "processor" => hw.port = "riscv32"

Timed == about = "timer" /\ MCTicklessNext /\ UNCHANGED <<portVars, about>>

Switched == about = "processor" /\ PortsNext /\ UNCHANGED <<tvars, about>>

\* Every moment of the timers.
MCTimersSpec == MCPortsInit /\ [][Timed]_mcVars

\* Every moment but those, which README.md describes under Findings.
MCPortsNext ==
  \/ Timed /\ ~ExpiresUnseen /\ ~StoppedAtZero
  \/ Switched

MCPortsSpec == MCPortsInit /\ [][MCPortsNext]_mcVars
=============================================================================

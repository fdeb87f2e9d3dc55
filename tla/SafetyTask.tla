----------------------------- MODULE SafetyTask -----------------------------
(***************************************************************************)
(* robot-edge's SafetyTask under every order of calls: one action for each *)
(* public method, and the passage of time between them.                    *)
(*                                                                         *)
(* calm, quiet and quiet_at_tick are history variables: they record what   *)
(* really happened on the link, independently of what the task remembers,  *)
(* so that the properties can compare the two.                             *)
(***************************************************************************)
EXTENDS SafetyCore

CONSTANTS
  WatchdogThresholds,  \* the blackout thresholds a task may be built with, in time units
  RttSamples           \* the RTT samples the link can produce, in milliseconds

ASSUME WatchdogThresholdsAssumption == WatchdogThresholds \subseteq Nat \ {0}
ASSUME RttSamplesAssumption == RttSamples \subseteq Nat

VARIABLES
  task,           \* the SafetyTask
  source,         \* the control source the latest tick arbitrated
  calm,           \* time since the last RTT sample at or above the resume ceiling
  quiet,          \* time since the last Channel B activity or explicit clear
  quiet_at_tick   \* quiet, as it was at the latest tick

vars == <<task, source, calm, quiet, quiet_at_tick>>

-----------------------------------------------------------------------------
Init ==
  /\ \E class \in TaskClass, threshold \in WatchdogThresholds :
       task = NewSafetyTask(class, threshold)
  /\ source = "ActiveImpedanceHold"
  /\ calm = 0
  /\ quiet = 0
  /\ quiet_at_tick = 0

\* Any Channel B datagram without an RTT sample.
Activity ==
  /\ task' = OnChannelBActivity(task)
  /\ quiet' = 0
  /\ UNCHANGED <<source, calm, quiet_at_tick>>

\* Channel B activity that carries an RTT sample.
ActivityRtt(rtt) ==
  /\ task' = OnChannelBActivityRtt(task, rtt)
  /\ quiet' = 0
  /\ calm' = IF rtt >= ResumeCeiling(task.state_machine.task_class) THEN 0 ELSE calm
  /\ UNCHANGED <<source, quiet_at_tick>>

\* A Command frame: activity, and the operator is taken to hold the deadman.
Command ==
  /\ task' = [OnChannelBActivity(task) EXCEPT !.deadman_held = TRUE, !.command_fresh = TRUE]
  /\ quiet' = 0
  /\ UNCHANGED <<source, calm, quiet_at_tick>>

RequestReset ==
  /\ task' = [task EXCEPT !.state_machine = RequestDeadmanReset(task.state_machine)]
  /\ UNCHANGED <<source, calm, quiet, quiet_at_tick>>

Trigger ==
  /\ task' = TriggerExplicitEstop(task)
  /\ UNCHANGED <<source, calm, quiet, quiet_at_tick>>

Clear ==
  /\ task' = ClearExplicitEstop(task)
  /\ quiet' = 0
  /\ UNCHANGED <<source, calm, quiet_at_tick>>

SafetyTick(goal) ==
  /\ task' = Tick(task)
  /\ source' = TickSource(task, goal)
  /\ quiet_at_tick' = quiet
  /\ UNCHANGED <<calm, quiet>>

Advance ==
  /\ task' = Elapse(task)
  /\ calm' = Older(calm, ResumeWindow)
  /\ quiet' = Older(quiet, task.watchdog.threshold)
  /\ UNCHANGED <<source, quiet_at_tick>>

Next ==
  \/ Activity
  \/ \E rtt \in RttSamples : ActivityRtt(rtt)
  \/ Command
  \/ RequestReset
  \/ Trigger
  \/ Clear
  \/ \E goal \in BOOLEAN : SafetyTick(goal)
  \/ Advance

Spec == Init /\ [][Next]_vars

-----------------------------------------------------------------------------
(* Properties.                                                             *)

\* Every field keeps its type, and no age passes the threshold it is compared with.
TypeOK ==
  /\ task \in SafetyTaskType
  /\ task.watchdog.silence <= task.watchdog.threshold
  /\ source \in ControlSource
  /\ calm \in 0..ResumeWindow
  /\ quiet \in 0..task.watchdog.threshold
  /\ quiet_at_tick \in 0..task.watchdog.threshold

\* The tier machine is suspended exactly while it reports Tier 4
\* (on_rtt_sample, evaluate_resume): no path leaves one without the other.
SuspendedIsTier4 == task.state_machine.suspended <=> task.state_machine.tier = 4

\* SR-3.3: the machine leaves SUSPENDED only once no RTT sample has reached the
\* resume ceiling for the whole stability window, and only with a deadman reset
\* requested, in whatever order samples, requests and time came.
ResumeInterlock ==
  [][task.state_machine.suspended /\ ~task'.state_machine.suspended
       => /\ calm >= ResumeWindow
          /\ task.state_machine.deadman_reset_requested
          /\ task'.state_machine.tier = 0]_vars

\* What the task remembers agrees with what happened: the watchdog's silence is
\* the link's, and a stability window never started before the last bad sample.
MemoryIsHonest ==
  /\ task.watchdog.silence = quiet
  /\ task.state_machine.stable_for <= calm
  /\ ~task.state_machine.suspended => task.state_machine.stable_for = NotStable

\* SR-4.1: no tick hands the actuators to the operator or to autonomy when the
\* link has been silent for the watchdog's threshold at that tick.
NoDrivingInSilence ==
  source \in {"FullTeleoperation", "SemiAutonomous"} => quiet_at_tick < task.watchdog.threshold

\* SR-4: an E-Stop, explicit or from the watchdog, is left only by
\* clear_explicit_estop, whatever activity, samples or ticks follow it.
OnlyClearUnlatches == [][IsEstopped(task) /\ ~IsEstopped(task') => Clear]_vars
=============================================================================

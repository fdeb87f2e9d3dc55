----------------------------- MODULE SafetyCore -----------------------------
(***************************************************************************)
(* The data types of robot-edge's safety task and the methods that change  *)
(* them: the RTT-driven tier machine with its resume interlock             *)
(* (roboprotocol-core safety/state_machine.rs, tiers.rs), the blackout     *)
(* watchdog (watchdog.rs), the arbitration ladder (arbitration.rs) and the *)
(* struct that glues them (robot-edge safety_task.rs).                     *)
(*                                                                         *)
(* A Rust struct is a record, a `&mut self` method an operator from the    *)
(* record to its new value.  An Instant is kept as its age in time units:  *)
(* the code only ever compares `now - instant` with a threshold, so an age *)
(* stops growing once it has reached the threshold it is compared with.    *)
(***************************************************************************)
EXTENDS Integers

CONSTANT ResumeWindow   \* RESUME_STABILITY_WINDOW_S, in time units

ASSUME ResumeWindowAssumption == ResumeWindow \in Nat \ {0}

-----------------------------------------------------------------------------
(* Task classes and their latency thresholds, in milliseconds.             *)

TaskClass == {"B", "C", "D", "E"}

Thresholds(class) ==
  CASE class = "B" -> [tier0_max |->  40, tier1_max |->  80, tier2_max |-> 120, tier3_max |->  150]
    [] class = "C" -> [tier0_max |->  80, tier1_max |-> 150, tier2_max |-> 220, tier3_max |->  300]
    [] class = "D" -> [tier0_max |-> 100, tier1_max |-> 250, tier2_max |-> 400, tier3_max |->  500]
    [] class = "E" -> [tier0_max |-> 200, tier1_max |-> 400, tier2_max |-> 700, tier3_max |-> 1000]

RESUME_HYSTERESIS_MS == 20

\* Mutant: tiers counted from one.
TierForLatencyFromOne(class, rtt) ==
  1 + (IF rtt < Thresholds(class).tier0_max THEN 0
       ELSE IF rtt < Thresholds(class).tier3_max THEN 1 ELSE 4)

TierForLatency(class, rtt) ==
  LET th == Thresholds(class) IN
  IF rtt < th.tier0_max THEN 0
  ELSE IF rtt < th.tier1_max THEN 1
  ELSE IF rtt < th.tier2_max THEN 2
  ELSE IF rtt < th.tier3_max THEN 3
  ELSE 4

-----------------------------------------------------------------------------
(* SafetyStateMachine.  stable_for is the age of stable_since, NotStable   *)
(* when that is None.                                                      *)

NotStable == -1

StateMachineType ==
  [task_class: TaskClass, tier: 0..4, suspended: BOOLEAN,
   deadman_reset_requested: BOOLEAN, stable_for: {NotStable} \cup 0..ResumeWindow]

NewStateMachine(class) ==
  [task_class |-> class, tier |-> 0, suspended |-> FALSE,
   deadman_reset_requested |-> FALSE, stable_for |-> NotStable]

RequestDeadmanReset(sm) == [sm EXCEPT !.deadman_reset_requested = TRUE]

ResumeCeiling(class) == Thresholds(class).tier0_max - RESUME_HYSTERESIS_MS

\* Mutant: resuming leaves the tier as it was.
EvaluateResumeKeepsTier(sm, rtt) ==
  LET stable == IF sm.stable_for = NotStable THEN 0 ELSE sm.stable_for IN
  IF rtt >= ResumeCeiling(sm.task_class)
  THEN [sm EXCEPT !.stable_for = NotStable]
  ELSE IF stable >= ResumeWindow /\ sm.deadman_reset_requested
  THEN [sm EXCEPT !.suspended = FALSE, !.deadman_reset_requested = FALSE, !.stable_for = NotStable]
  ELSE [sm EXCEPT !.stable_for = stable]

\* Mutant: resuming leaves the stability window open.
EvaluateResumeKeepsWindow(sm, rtt) ==
  LET stable == IF sm.stable_for = NotStable THEN 0 ELSE sm.stable_for IN
  IF rtt >= ResumeCeiling(sm.task_class)
  THEN [sm EXCEPT !.stable_for = NotStable]
  ELSE IF stable >= ResumeWindow /\ sm.deadman_reset_requested
  THEN [sm EXCEPT !.suspended = FALSE, !.deadman_reset_requested = FALSE, !.tier = 0]
  ELSE [sm EXCEPT !.stable_for = stable]

\* Mutant: a bad sample does not restart the stability window.
EvaluateResumeForgivesSamples(sm, rtt) ==
  LET stable == IF sm.stable_for = NotStable THEN 0 ELSE sm.stable_for IN
  IF rtt >= ResumeCeiling(sm.task_class)
  THEN sm
  ELSE IF stable >= ResumeWindow /\ sm.deadman_reset_requested
  THEN [sm EXCEPT !.suspended = FALSE, !.deadman_reset_requested = FALSE,
                  !.stable_for = NotStable, !.tier = 0]
  ELSE [sm EXCEPT !.stable_for = stable]

EvaluateResume(sm, rtt) ==
  LET stable == IF sm.stable_for = NotStable THEN 0 ELSE sm.stable_for IN
  IF rtt >= ResumeCeiling(sm.task_class)
  THEN [sm EXCEPT !.stable_for = NotStable]
  ELSE IF stable >= ResumeWindow /\ sm.deadman_reset_requested
  THEN [sm EXCEPT !.suspended = FALSE, !.deadman_reset_requested = FALSE,
                  !.stable_for = NotStable, !.tier = 0]
  ELSE [sm EXCEPT !.stable_for = stable]

OnRttSample(sm, rtt) ==
  LET new_tier == TierForLatency(sm.task_class, rtt) IN
  IF sm.suspended THEN EvaluateResume(sm, rtt)
  ELSE IF new_tier = 4
  THEN [sm EXCEPT !.tier = new_tier, !.suspended = TRUE, !.stable_for = NotStable]
  ELSE [sm EXCEPT !.tier = new_tier]

-----------------------------------------------------------------------------
(* Watchdog.  silence is the age of last_heartbeat.                        *)

WatchdogType == [threshold: Nat \ {0}, silence: Nat, triggered: BOOLEAN]

\* Mutant: a threshold one too small.
NewWatchdogShort(threshold) == [threshold |-> threshold - 1, silence |-> 0, triggered |-> FALSE]

NewWatchdog(threshold) == [threshold |-> threshold, silence |-> 0, triggered |-> FALSE]

\* Mutant: a heartbeat recovers from a blackout by itself.
HeartbeatRecovers(w) == [w EXCEPT !.silence = 0, !.triggered = FALSE]

Heartbeat(w) == [w EXCEPT !.silence = 0]

\* Mutant: the threshold itself does not trip.
CheckLate(w) == [w EXCEPT !.triggered = w.triggered \/ w.silence > w.threshold]

Check(w) == [w EXCEPT !.triggered = w.triggered \/ w.silence >= w.threshold]

WatchdogClear(w) == [w EXCEPT !.triggered = FALSE, !.silence = 0]

-----------------------------------------------------------------------------
(* arbitrate(): the fixed-priority control source ladder.                  *)

ControlSource == {"EStop", "EmergencySafeParking", "ActiveImpedanceHold",
                  "FullTeleoperation", "SemiAutonomous"}

Arbitrate(i) ==
  IF i.estop_latched THEN "EStop"
  ELSE IF i.safe_parking_requested \/ (i.suspended /\ i.resume_dwell_exceeded)
  THEN "EmergencySafeParking"
  ELSE IF i.suspended THEN "ActiveImpedanceHold"
  ELSE IF i.teleop_ready THEN "FullTeleoperation"
  ELSE IF i.autonomy_goal_asserted THEN "SemiAutonomous"
  ELSE "ActiveImpedanceHold"

-----------------------------------------------------------------------------
(* SafetyTask.                                                             *)

SafetyTaskType ==
  [state_machine: StateMachineType, watchdog: WatchdogType,
   explicit_estop: BOOLEAN, deadman_held: BOOLEAN, command_fresh: BOOLEAN]

NewSafetyTask(class, threshold) ==
  [state_machine |-> NewStateMachine(class), watchdog |-> NewWatchdog(threshold),
   explicit_estop |-> FALSE, deadman_held |-> FALSE, command_fresh |-> FALSE]

\* on_channel_b_activity(None, now): the only form robot-edge's session uses.
OnChannelBActivity(t) == [t EXCEPT !.watchdog = Heartbeat(t.watchdog)]

\* on_channel_b_activity(Some(rtt), now).
OnChannelBActivityRtt(t, rtt) ==
  [t EXCEPT !.watchdog = Heartbeat(t.watchdog),
            !.state_machine = OnRttSample(t.state_machine, rtt)]

\* Mutant: every stop message toggles, so the two copies of one press cancel out.
ToggleExplicitEstop(t) == [t EXCEPT !.explicit_estop = ~t.explicit_estop]

TriggerExplicitEstop(t) == [t EXCEPT !.explicit_estop = TRUE]

ClearExplicitEstop(t) ==
  [t EXCEPT !.explicit_estop = FALSE, !.watchdog = WatchdogClear(t.watchdog)]

IsEstopped(t) == t.explicit_estop \/ t.watchdog.triggered

\* tick(): the new task, and the source arbitrated from it.
Tick(t) == [t EXCEPT !.watchdog = Check(t.watchdog)]

TickSource(t, goal) ==
  LET u == Tick(t) IN
  Arbitrate([estop_latched |-> IsEstopped(u),
             safe_parking_requested |-> FALSE,
             suspended |-> u.state_machine.suspended,
             resume_dwell_exceeded |-> FALSE,
             teleop_ready |-> u.deadman_held /\ u.command_fresh
                              /\ ~u.state_machine.suspended /\ u.state_machine.tier <= 3,
             autonomy_goal_asserted |-> goal])

\* One time unit passes: every Instant the task holds grows older.
Older(age, limit) == IF age < limit THEN age + 1 ELSE age

ElapseStateMachine(sm) ==
  IF sm.stable_for = NotStable THEN sm
  ELSE [sm EXCEPT !.stable_for = Older(sm.stable_for, ResumeWindow)]

ElapseWatchdog(w) == [w EXCEPT !.silence = Older(w.silence, w.threshold)]

Elapse(t) ==
  [t EXCEPT !.watchdog = ElapseWatchdog(t.watchdog),
            !.state_machine = ElapseStateMachine(t.state_machine)]
=============================================================================

-------------------------- MODULE SafetyCoreProofs --------------------------
(***************************************************************************)
(* Lemmas about the methods of robot-edge's safety task: what each returns,*)
(* for every resume window.  The proofs about SafetyTask, RobotEdge and    *)
(* TeleopLink rest on them.                                                *)
(***************************************************************************)
EXTENDS SafetyCore, TLAPS

-----------------------------------------------------------------------------
(* What the methods of the tier machine return.                            *)

\* tier_for_latency yields one of the five tiers for every class.
LEMMA TierForLatencyType ==
  ASSUME NEW class \in TaskClass, NEW rtt \in Nat
  PROVE  TierForLatency(class, rtt) \in 0..4
  BY DEF TierForLatency

\* on_rtt_sample keeps the machine's type, its suspended/tier-4 coupling and its
\* class, keeps the stability window within the calm period, and leaves
\* SUSPENDED only through the interlock.
LEMMA OnRttSampleFacts ==
  ASSUME NEW sm \in StateMachineType, NEW rtt \in Nat, NEW c \in 0..ResumeWindow,
         sm.suspended <=> sm.tier = 4,
         sm.stable_for <= c,
         ~sm.suspended => sm.stable_for = NotStable,
         NEW d, d = IF rtt >= ResumeCeiling(sm.task_class) THEN 0 ELSE c,
         NEW new, new = OnRttSample(sm, rtt)
  PROVE  /\ new \in StateMachineType
         /\ new.suspended <=> new.tier = 4
         /\ new.stable_for <= d
         /\ ~new.suspended => new.stable_for = NotStable
         /\ sm.suspended /\ ~new.suspended
              => c >= ResumeWindow /\ sm.deadman_reset_requested /\ new.tier = 0
<1> DEFINE stable == IF sm.stable_for = NotStable THEN 0 ELSE sm.stable_for
           bad == rtt >= ResumeCeiling(sm.task_class)
<1> USE ResumeWindowAssumption DEF NotStable
<1>0. d \in 0..ResumeWindow
  OBVIOUS
<1>1. CASE sm.suspended /\ bad
  <2>1. new = [sm EXCEPT !.stable_for = NotStable]
    BY <1>1 DEF OnRttSample, EvaluateResume
  <2> QED  BY <1>1, <2>1 DEF StateMachineType
<1>2. CASE sm.suspended /\ ~bad /\ stable >= ResumeWindow /\ sm.deadman_reset_requested
  <2>1. new = [task_class |-> sm.task_class, tier |-> 0, suspended |-> FALSE,
               deadman_reset_requested |-> FALSE, stable_for |-> NotStable]
    BY <1>2 DEF OnRttSample, EvaluateResume, StateMachineType
  <2>2. c >= ResumeWindow
    BY <1>2 DEF StateMachineType
  <2>3. /\ new \in StateMachineType
        /\ ~new.suspended /\ new.tier = 0 /\ new.stable_for = NotStable
    BY <2>1 DEF StateMachineType
  <2> QED  BY <1>0, <1>2, <2>2, <2>3
<1>3. CASE sm.suspended /\ ~bad /\ ~(stable >= ResumeWindow /\ sm.deadman_reset_requested)
  <2>1. new = [sm EXCEPT !.stable_for = stable]
    BY <1>3 DEF OnRttSample, EvaluateResume
  <2>2. stable \in 0..ResumeWindow /\ stable <= d
    BY <1>3 DEF StateMachineType
  <2> HIDE DEF stable
  <2> QED  BY <1>3, <2>1, <2>2 DEF StateMachineType
<1>4. CASE ~sm.suspended
  <2> DEFINE tier == TierForLatency(sm.task_class, rtt)
  <2>1. tier \in 0..4
    BY TierForLatencyType DEF StateMachineType
  <2>2. CASE tier = 4
    <3>1. new = [task_class |-> sm.task_class, tier |-> 4, suspended |-> TRUE,
                 deadman_reset_requested |-> sm.deadman_reset_requested, stable_for |-> NotStable]
      BY <1>4, <2>2 DEF OnRttSample, StateMachineType
    <3> QED  BY <1>0, <3>1 DEF StateMachineType
  <2>3. CASE tier # 4
    <3>1. new = [sm EXCEPT !.tier = tier]
      BY <1>4, <2>3 DEF OnRttSample
    <3> HIDE DEF tier
    <3>2. /\ new \in StateMachineType
          /\ ~new.suspended /\ new.tier = tier /\ new.stable_for = NotStable
      BY <1>4, <2>1, <3>1 DEF StateMachineType
    <3> QED  BY <1>0, <1>4, <2>3, <3>2
  <2> QED  BY <2>2, <2>3
<1> QED  BY <1>1, <1>2, <1>3, <1>4 DEF StateMachineType

-----------------------------------------------------------------------------
(* The watchdog and the safety task.                                       *)

\* A method leaves the watchdog a watchdog with the same threshold.
LEMMA WatchdogFacts ==
  ASSUME NEW w \in WatchdogType, w.silence <= w.threshold
  PROVE  /\ Heartbeat(w) \in WatchdogType /\ Heartbeat(w).threshold = w.threshold
         /\ Heartbeat(w).silence = 0 /\ Heartbeat(w).triggered = w.triggered
         /\ WatchdogClear(w) \in WatchdogType /\ WatchdogClear(w).threshold = w.threshold
         /\ WatchdogClear(w).silence = 0
         /\ Check(w) \in WatchdogType /\ Check(w).threshold = w.threshold
         /\ Check(w).silence = w.silence
         /\ (w.triggered \/ w.silence >= w.threshold) => Check(w).triggered
         /\ ElapseWatchdog(w) \in WatchdogType /\ ElapseWatchdog(w).threshold = w.threshold
         /\ ElapseWatchdog(w).silence = Older(w.silence, w.threshold)
         /\ ElapseWatchdog(w).triggered = w.triggered
<1>1. /\ Heartbeat(w) \in WatchdogType /\ Heartbeat(w).threshold = w.threshold
      /\ Heartbeat(w).silence = 0 /\ Heartbeat(w).triggered = w.triggered
  BY DEF Heartbeat, WatchdogType
<1>2. WatchdogClear(w) \in WatchdogType
  BY DEF WatchdogClear, WatchdogType
<1>3. WatchdogClear(w).threshold = w.threshold /\ WatchdogClear(w).silence = 0
  BY DEF WatchdogClear, WatchdogType
<1> DEFINE trip == w.triggered \/ w.silence >= w.threshold
<1>c. Check(w) = [threshold |-> w.threshold, silence |-> w.silence, triggered |-> trip]
  BY DEF Check, WatchdogType
<1>t. trip \in BOOLEAN
  BY DEF WatchdogType
<1> HIDE DEF trip
<1>4. /\ Check(w) \in WatchdogType /\ Check(w).threshold = w.threshold
      /\ Check(w).silence = w.silence /\ Check(w).triggered = trip
  BY <1>c, <1>t DEF WatchdogType
<1>5. (w.triggered \/ w.silence >= w.threshold) => Check(w).triggered
  BY <1>4 DEF trip
<1>6. /\ ElapseWatchdog(w) \in WatchdogType /\ ElapseWatchdog(w).threshold = w.threshold
      /\ ElapseWatchdog(w).silence = Older(w.silence, w.threshold)
      /\ ElapseWatchdog(w).triggered = w.triggered
  BY DEF ElapseWatchdog, WatchdogType, Older
<1> QED  BY <1>1, <1>2, <1>3, <1>4, <1>5, <1>6

\* arbitrate() yields a control source, and one that drives only without a latched E-Stop.
LEMMA TickSourceFacts ==
  ASSUME NEW t \in SafetyTaskType, NEW goal \in BOOLEAN
  PROVE  /\ TickSource(t, goal) \in ControlSource
         /\ IsEstopped(Tick(t)) => TickSource(t, goal) = "EStop"
  BY DEF TickSource, Arbitrate, ControlSource

\* A new safety task is one, not E-Stopped.
LEMMA NewSafetyTaskFacts ==
  ASSUME NEW class \in TaskClass, NEW threshold \in Nat \ {0}
  PROVE  /\ NewSafetyTask(class, threshold) \in SafetyTaskType
         /\ ~IsEstopped(NewSafetyTask(class, threshold))
         /\ ~NewSafetyTask(class, threshold).state_machine.suspended
         /\ NewSafetyTask(class, threshold).state_machine.tier = 0
<1>1. NewStateMachine(class) \in StateMachineType /\ NewWatchdog(threshold) \in WatchdogType
  BY ResumeWindowAssumption DEF NewStateMachine, NewWatchdog, StateMachineType, WatchdogType
<1> QED  BY <1>1 DEF NewSafetyTask, SafetyTaskType, IsEstopped, NewWatchdog, NewStateMachine

\* Only the watchdog's silence matters to a method beyond the types: none of them
\* leaves the type, and only ClearExplicitEstop leaves an E-Stop.
LEMMA MethodFacts ==
  ASSUME NEW t \in SafetyTaskType
  PROVE  /\ OnChannelBActivity(t) \in SafetyTaskType
         /\ IsEstopped(OnChannelBActivity(t)) = IsEstopped(t)
         /\ TriggerExplicitEstop(t) \in SafetyTaskType
         /\ IsEstopped(TriggerExplicitEstop(t))
         /\ ClearExplicitEstop(t) \in SafetyTaskType
         /\ Tick(t) \in SafetyTaskType
         /\ IsEstopped(t) => IsEstopped(Tick(t))
         /\ Elapse(t) \in SafetyTaskType
         /\ IsEstopped(Elapse(t)) = IsEstopped(t)
<1> DEFINE w == t.watchdog
           sm == t.state_machine
<1>t. w \in WatchdogType /\ sm \in StateMachineType /\ t.explicit_estop \in BOOLEAN
  BY DEF SafetyTaskType
<1>1. /\ Heartbeat(w) \in WatchdogType /\ Heartbeat(w).triggered = w.triggered
      /\ WatchdogClear(w) \in WatchdogType
  BY <1>t DEF Heartbeat, WatchdogClear, WatchdogType
<1>2. Check(w) \in WatchdogType /\ (w.triggered => Check(w).triggered)
  <2> DEFINE trip == w.triggered \/ w.silence >= w.threshold
  <2>1. Check(w) = [threshold |-> w.threshold, silence |-> w.silence, triggered |-> trip]
    BY <1>t DEF Check, WatchdogType
  <2>2. trip \in BOOLEAN /\ (w.triggered => trip)
    BY <1>t DEF WatchdogType
  <2> HIDE DEF trip
  <2> QED  BY <1>t, <2>1, <2>2 DEF WatchdogType
<1>3. ElapseWatchdog(w) \in WatchdogType /\ ElapseWatchdog(w).triggered = w.triggered
  BY <1>t DEF ElapseWatchdog, WatchdogType, Older
<1>4. ElapseStateMachine(sm) \in StateMachineType
  BY <1>t, ResumeWindowAssumption DEF ElapseStateMachine, StateMachineType, Older, NotStable
<1>5. /\ OnChannelBActivity(t) \in SafetyTaskType
      /\ IsEstopped(OnChannelBActivity(t)) = IsEstopped(t)
  BY <1>1 DEF OnChannelBActivity, SafetyTaskType, IsEstopped
<1>6. TriggerExplicitEstop(t) \in SafetyTaskType /\ IsEstopped(TriggerExplicitEstop(t))
  BY DEF TriggerExplicitEstop, SafetyTaskType, IsEstopped
<1>7. ClearExplicitEstop(t) \in SafetyTaskType
  <2>1. ClearExplicitEstop(t) = [[t EXCEPT !.explicit_estop = FALSE] EXCEPT !.watchdog = WatchdogClear(w)]
    BY DEF ClearExplicitEstop
  <2>2. [t EXCEPT !.explicit_estop = FALSE] \in SafetyTaskType
    BY DEF SafetyTaskType
  <2> QED  BY <1>1, <2>1, <2>2 DEF SafetyTaskType
<1>8. Tick(t) \in SafetyTaskType /\ (IsEstopped(t) => IsEstopped(Tick(t)))
  BY <1>2 DEF Tick, SafetyTaskType, IsEstopped
<1>9. Elapse(t) \in SafetyTaskType /\ IsEstopped(Elapse(t)) = IsEstopped(t)
  <2> DEFINE u == [t EXCEPT !.watchdog = ElapseWatchdog(w)]
  <2>1. Elapse(t) = [u EXCEPT !.state_machine = ElapseStateMachine(sm)]
    BY DEF Elapse
  <2>2. u \in SafetyTaskType /\ IsEstopped(u) = IsEstopped(t)
    BY <1>3 DEF SafetyTaskType, IsEstopped
  <2> HIDE DEF u
  <2> QED  BY <1>4, <2>1, <2>2 DEF SafetyTaskType, IsEstopped
<1> QED  BY <1>5, <1>6, <1>7, <1>8, <1>9

\* Operator readiness: which fields of the task a method leaves alone.
Ready(t) == t.deadman_held /\ t.command_fresh
Drivable(t) == ~t.state_machine.suspended /\ t.state_machine.tier <= 3

\* No method but OnRttSample touches suspension and tier, none but a Command the
\* deadman and the freshness.
LEMMA ReadinessFacts ==
  ASSUME NEW t \in SafetyTaskType,
         NEW u \in {OnChannelBActivity(t), TriggerExplicitEstop(t), ClearExplicitEstop(t), Tick(t), Elapse(t)}
  PROVE  Ready(u) = Ready(t) /\ Drivable(u) = Drivable(t)
<1> USE DEF SafetyTaskType
<1>1. CASE u \in {OnChannelBActivity(t), TriggerExplicitEstop(t), ClearExplicitEstop(t), Tick(t)}
  <2>1. /\ u.state_machine = t.state_machine
        /\ u.deadman_held = t.deadman_held /\ u.command_fresh = t.command_fresh
    BY <1>1 DEF OnChannelBActivity, TriggerExplicitEstop, ClearExplicitEstop, Tick
  <2> QED  BY <2>1 DEF Ready, Drivable
<1>2. CASE u = Elapse(t)
  <2>1. /\ u.state_machine = ElapseStateMachine(t.state_machine)
        /\ u.deadman_held = t.deadman_held /\ u.command_fresh = t.command_fresh
    BY <1>2 DEF Elapse
  <2>2. /\ ElapseStateMachine(t.state_machine).suspended = t.state_machine.suspended
        /\ ElapseStateMachine(t.state_machine).tier = t.state_machine.tier
    BY DEF ElapseStateMachine, StateMachineType
  <2> QED  BY <2>1, <2>2 DEF Ready, Drivable
<1> QED  BY <1>1, <1>2

\* arbitrate(): a ready operator of a drivable robot has control whatever the goal,
\* and the operator has it only when ready.
LEMMA ReadyHasControl ==
  ASSUME NEW t \in SafetyTaskType, NEW goal \in BOOLEAN
  PROVE  /\ TickSource(t, goal) = "FullTeleoperation" => Ready(t) /\ ~IsEstopped(Tick(t))
         /\ Ready(t) /\ Drivable(t) => TickSource(t, goal) # "SemiAutonomous"
         /\ TickSource(t, goal) # "EStop" => ~IsEstopped(Tick(t))
<1> DEFINE u == Tick(t)
<1>1. Ready(u) = Ready(t) /\ Drivable(u) = Drivable(t)
  BY ReadinessFacts
<1> DEFINE ready == u.deadman_held /\ u.command_fresh
                    /\ ~u.state_machine.suspended /\ u.state_machine.tier <= 3
<1>2. TickSource(t, goal)
        = IF IsEstopped(u) THEN "EStop"
          ELSE IF u.state_machine.suspended THEN "ActiveImpedanceHold"
          ELSE IF ready THEN "FullTeleoperation"
          ELSE IF goal THEN "SemiAutonomous" ELSE "ActiveImpedanceHold"
  BY DEF TickSource, Arbitrate
<1>3. ready <=> Ready(u) /\ Drivable(u)
  BY DEF Ready, Drivable
<1> HIDE DEF u, ready
<1> QED  BY <1>1, <1>2, <1>3 DEF Drivable, u

\* A Command marks the deadman held and the command fresh, and nothing else.
LEMMA CommandFacts ==
  ASSUME NEW t \in SafetyTaskType,
         NEW s, s = [t EXCEPT !.deadman_held = TRUE, !.command_fresh = TRUE]
  PROVE  s \in SafetyTaskType /\ IsEstopped(s) = IsEstopped(t) /\ Ready(s) /\ Drivable(s) = Drivable(t)
<1>1. s = [state_machine |-> t.state_machine, watchdog |-> t.watchdog,
           explicit_estop |-> t.explicit_estop, deadman_held |-> TRUE, command_fresh |-> TRUE]
  BY DEF SafetyTaskType
<1> QED  BY <1>1 DEF SafetyTaskType, IsEstopped, Ready, Drivable
=============================================================================

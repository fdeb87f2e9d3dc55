-------------------------- MODULE SafetyTaskProofs --------------------------
(***************************************************************************)
(* The safety task's properties for every set of watchdog thresholds, every*)
(* set of RTT samples and every resume window.                             *)
(***************************************************************************)
EXTENDS SafetyTask, SafetyCoreProofs

\* The inductive invariant: the types, the tier/suspension coupling, the
\* agreement of the task's memory with the link's history, and the watchdog bound.
IInv == TypeOK /\ SuspendedIsTier4 /\ MemoryIsHonest /\ NoDrivingInSilence

-----------------------------------------------------------------------------
(* The safety task.                                                        *)

\* A new safety task satisfies the invariant.
LEMMA InitIInv == Init => IInv
<1> SUFFICES ASSUME Init PROVE IInv
  OBVIOUS
<1>1. PICK class \in TaskClass, threshold \in WatchdogThresholds :
        task = NewSafetyTask(class, threshold)
  BY DEF Init
<1>2. threshold \in Nat \ {0}
  BY WatchdogThresholdsAssumption
<1>3. NewStateMachine(class) \in StateMachineType /\ NewWatchdog(threshold) \in WatchdogType
  BY <1>2, ResumeWindowAssumption DEF NewStateMachine, NewWatchdog, StateMachineType, WatchdogType
<1>4. task \in SafetyTaskType
  BY <1>1, <1>3 DEF NewSafetyTask, SafetyTaskType
<1>5. /\ task.watchdog = NewWatchdog(threshold)
      /\ task.state_machine = NewStateMachine(class)
  BY <1>1 DEF NewSafetyTask
<1>6. TypeOK
  BY <1>2, <1>4, <1>5, ResumeWindowAssumption DEF Init, TypeOK, NewWatchdog, ControlSource
<1>7. SuspendedIsTier4 /\ MemoryIsHonest
  BY <1>5 DEF Init, SuspendedIsTier4, MemoryIsHonest, NewStateMachine, NewWatchdog, NotStable
<1>8. NoDrivingInSilence
  BY DEF Init, NoDrivingInSilence
<1> QED  BY <1>6, <1>7, <1>8 DEF IInv

\* Every method, tick and passage of time preserves the invariant.
LEMMA NextIInv == IInv /\ [Next]_vars => IInv'
<1> SUFFICES ASSUME IInv, [Next]_vars PROVE IInv'
  OBVIOUS
<1> USE ResumeWindowAssumption
<1> DEFINE sm == task.state_machine
           w == task.watchdog
<1>t. /\ task \in SafetyTaskType /\ sm \in StateMachineType /\ w \in WatchdogType
      /\ w.silence <= w.threshold /\ w.threshold \in Nat \ {0}
      /\ source \in ControlSource
      /\ calm \in 0..ResumeWindow /\ quiet \in 0..w.threshold /\ quiet_at_tick \in 0..w.threshold
  BY DEF IInv, TypeOK, SafetyTaskType, WatchdogType
\* A step that leaves the machine and the threshold alone, and the tick's record too.
<1>keep. ASSUME task' \in SafetyTaskType, task'.state_machine = sm,
                task'.watchdog.threshold = w.threshold,
                task'.watchdog.silence = quiet', quiet' \in 0..w.threshold,
                UNCHANGED <<source, calm, quiet_at_tick>>
         PROVE  IInv'
  BY <1>t, <1>keep DEF IInv, TypeOK, SuspendedIsTier4, MemoryIsHonest, NoDrivingInSilence
<1>1. CASE Activity
  <2>1. task' = [task EXCEPT !.state_machine = sm, !.watchdog = Heartbeat(w)]
    BY <1>1, <1>t DEF Activity, OnChannelBActivity, SafetyTaskType
  <2>2. task' \in SafetyTaskType /\ task'.state_machine = sm /\ task'.watchdog = Heartbeat(w)
    BY <2>1, <1>t, WatchdogFacts DEF SafetyTaskType
  <2> QED  BY <1>1, <2>2, <1>t, <1>keep, WatchdogFacts DEF Activity
<1>2. ASSUME NEW rtt \in RttSamples, ActivityRtt(rtt) PROVE IInv'
  <2> DEFINE new == OnRttSample(sm, rtt)
             bad == rtt >= ResumeCeiling(sm.task_class)
  <2>0. rtt \in Nat
    BY RttSamplesAssumption
  <2>1. /\ new \in StateMachineType
        /\ new.suspended <=> new.tier = 4
        /\ new.stable_for <= IF bad THEN 0 ELSE calm
        /\ ~new.suspended => new.stable_for = NotStable
    BY <1>t, <2>0, OnRttSampleFacts DEF IInv, SuspendedIsTier4, MemoryIsHonest
  <2> HIDE DEF new
  <2>2. task' = [task EXCEPT !.state_machine = new, !.watchdog = Heartbeat(w)]
    BY <1>2, <1>t DEF ActivityRtt, OnChannelBActivityRtt, SafetyTaskType, new
  <2>3. task' \in SafetyTaskType /\ task'.state_machine = new /\ task'.watchdog = Heartbeat(w)
    BY <2>1, <2>2, <1>t, WatchdogFacts DEF SafetyTaskType
  <2>4. /\ quiet' = 0 /\ calm' = IF bad THEN 0 ELSE calm
        /\ source' = source /\ quiet_at_tick' = quiet_at_tick
    BY <1>2 DEF ActivityRtt
  <2>5. TypeOK'
    BY <1>t, <2>3, <2>4, WatchdogFacts DEF TypeOK
  <2>6. SuspendedIsTier4' /\ MemoryIsHonest'
    BY <1>t, <2>1, <2>3, <2>4, WatchdogFacts DEF SuspendedIsTier4, MemoryIsHonest
  <2>7. NoDrivingInSilence'
    BY <1>t, <2>3, <2>4, WatchdogFacts DEF IInv, NoDrivingInSilence
  <2> QED  BY <2>5, <2>6, <2>7 DEF IInv
<1>3. CASE Command
  <2>1. /\ task' \in SafetyTaskType
        /\ task'.state_machine = sm /\ task'.watchdog = Heartbeat(w)
    <3>1. task' = [state_machine |-> sm, watchdog |-> Heartbeat(w),
                   explicit_estop |-> task.explicit_estop,
                   deadman_held |-> TRUE, command_fresh |-> TRUE]
      BY <1>3, <1>t DEF Command, OnChannelBActivity, SafetyTaskType
    <3> QED  BY <3>1, <1>t, WatchdogFacts DEF SafetyTaskType
  <2> QED  BY <1>3, <2>1, <1>t, <1>keep, WatchdogFacts DEF Command
<1>4. CASE RequestReset
  <2> DEFINE new == RequestDeadmanReset(sm)
  <2>1. /\ new \in StateMachineType /\ new.suspended = sm.suspended
        /\ new.tier = sm.tier /\ new.stable_for = sm.stable_for
    BY <1>t DEF RequestDeadmanReset, StateMachineType
  <2> HIDE DEF new
  <2>2. task' = [task EXCEPT !.state_machine = new, !.watchdog = w]
    BY <1>4, <1>t DEF RequestReset, SafetyTaskType, new
  <2>3. task' \in SafetyTaskType /\ task'.state_machine = new /\ task'.watchdog = w
    BY <2>1, <2>2, <1>t DEF SafetyTaskType
  <2>4. UNCHANGED <<source, calm, quiet, quiet_at_tick>>
    BY <1>4 DEF RequestReset
  <2>5. TypeOK'
    BY <1>t, <2>3, <2>4 DEF TypeOK
  <2>6. SuspendedIsTier4' /\ MemoryIsHonest' /\ NoDrivingInSilence'
    BY <1>t, <2>1, <2>3, <2>4 DEF IInv, SuspendedIsTier4, MemoryIsHonest, NoDrivingInSilence
  <2> QED  BY <2>5, <2>6 DEF IInv
<1>5. CASE Trigger
  <2>1. task' \in SafetyTaskType /\ task'.state_machine = sm /\ task'.watchdog = w
    BY <1>5, <1>t DEF Trigger, TriggerExplicitEstop, SafetyTaskType
  <2> QED  BY <1>5, <2>1, <1>t, <1>keep DEF Trigger, IInv, MemoryIsHonest
<1>6. CASE Clear
  <2>1. /\ task' \in SafetyTaskType
        /\ task'.state_machine = sm /\ task'.watchdog = WatchdogClear(w)
    <3>1. task' = [state_machine |-> sm, watchdog |-> WatchdogClear(w), explicit_estop |-> FALSE,
                   deadman_held |-> task.deadman_held, command_fresh |-> task.command_fresh]
      BY <1>6, <1>t DEF Clear, ClearExplicitEstop, SafetyTaskType
    <3> QED  BY <3>1, <1>t, WatchdogFacts DEF SafetyTaskType
  <2> QED  BY <1>6, <2>1, <1>t, <1>keep, WatchdogFacts DEF Clear
<1>7. ASSUME NEW goal \in BOOLEAN, SafetyTick(goal) PROVE IInv'
  <2>1. task' = [task EXCEPT !.state_machine = sm, !.watchdog = Check(w)]
    BY <1>7, <1>t DEF SafetyTick, Tick, SafetyTaskType
  <2>2. task' \in SafetyTaskType /\ task'.state_machine = sm /\ task'.watchdog = Check(w)
    BY <2>1, <1>t, WatchdogFacts DEF SafetyTaskType
  <2>3. source' \in ControlSource /\ (w.silence >= w.threshold => source' = "EStop")
    <3>1. w.silence >= w.threshold => IsEstopped(Tick(task))
      BY <1>7, <2>2, <1>t, WatchdogFacts DEF IsEstopped, SafetyTick
    <3> QED  BY <1>7, <3>1, <1>t, TickSourceFacts DEF SafetyTick
  <2>4. quiet' = quiet /\ calm' = calm /\ quiet_at_tick' = quiet
    BY <1>7 DEF SafetyTick
  <2>5. TypeOK'
    BY <1>t, <2>2, <2>3, <2>4, WatchdogFacts DEF TypeOK
  <2>6. SuspendedIsTier4' /\ MemoryIsHonest'
    BY <1>t, <2>2, <2>4, WatchdogFacts DEF IInv, SuspendedIsTier4, MemoryIsHonest
  <2>7. NoDrivingInSilence'
    BY <1>t, <2>2, <2>3, <2>4, WatchdogFacts DEF IInv, NoDrivingInSilence, MemoryIsHonest
  <2> QED  BY <2>5, <2>6, <2>7 DEF IInv
<1>8. CASE Advance
  <2> DEFINE new == ElapseStateMachine(sm)
  <2>1. /\ new \in StateMachineType /\ new.suspended = sm.suspended /\ new.tier = sm.tier
        /\ new.stable_for <= Older(calm, ResumeWindow)
        /\ sm.stable_for = NotStable => new.stable_for = NotStable
    BY <1>t DEF ElapseStateMachine, StateMachineType, Older, NotStable, IInv, MemoryIsHonest
  <2> HIDE DEF new
  <2>2. task' = [task EXCEPT !.state_machine = new, !.watchdog = ElapseWatchdog(w)]
    BY <1>8, <1>t DEF Advance, Elapse, SafetyTaskType, new
  <2>3. task' \in SafetyTaskType /\ task'.state_machine = new /\ task'.watchdog = ElapseWatchdog(w)
    BY <2>1, <2>2, <1>t, WatchdogFacts DEF SafetyTaskType
  <2>4. /\ quiet' = Older(quiet, w.threshold) /\ calm' = Older(calm, ResumeWindow)
        /\ source' = source /\ quiet_at_tick' = quiet_at_tick
    BY <1>8 DEF Advance
  <2>a. /\ Older(quiet, w.threshold) \in 0..w.threshold
        /\ Older(calm, ResumeWindow) \in 0..ResumeWindow
    BY <1>t DEF Older
  <2>b. Older(w.silence, w.threshold) = Older(quiet, w.threshold)
    BY DEF IInv, MemoryIsHonest
  <2>5. TypeOK'
    BY <1>t, <2>3, <2>4, <2>a, <2>b, WatchdogFacts DEF TypeOK
  <2>6. SuspendedIsTier4' /\ MemoryIsHonest'
    BY <1>t, <2>1, <2>3, <2>4, WatchdogFacts DEF IInv, SuspendedIsTier4, MemoryIsHonest
  <2>7. NoDrivingInSilence'
    BY <1>t, <2>3, <2>4, WatchdogFacts DEF IInv, NoDrivingInSilence
  <2> QED  BY <2>5, <2>6, <2>7 DEF IInv
<1>9. CASE UNCHANGED vars
  BY <1>9 DEF vars, IInv, TypeOK, SuspendedIsTier4, MemoryIsHonest, NoDrivingInSilence
<1> QED  BY <1>1, <1>2, <1>3, <1>4, <1>5, <1>6, <1>7, <1>8, <1>9 DEF Next

-----------------------------------------------------------------------------
(* The theorems.                                                           *)

\* The inductive invariant holds in every reachable state.
THEOREM SafetyTaskInvariant == Spec => []IInv
  BY InitIInv, NextIInv, PTL DEF Spec

\* Type correctness of the safety task, its watchdog and its tier machine.
THEOREM SafetyTaskTypeOK == Spec => []TypeOK
<1>1. IInv => TypeOK
  BY DEF IInv
<1> QED  BY <1>1, SafetyTaskInvariant, PTL

\* SUSPENDED and Tier 4 are the same state, for every sample and order of calls.
THEOREM SuspensionIsTier4 == Spec => []SuspendedIsTier4
<1>1. IInv => SuspendedIsTier4
  BY DEF IInv
<1> QED  BY <1>1, SafetyTaskInvariant, PTL

\* The watchdog and the stability window never remember more than the link's
\* history bears out, in whatever order samples, commands and time come.
THEOREM MemoryMatchesHistory == Spec => []MemoryIsHonest
<1>1. IInv => MemoryIsHonest
  BY DEF IInv
<1> QED  BY <1>1, SafetyTaskInvariant, PTL

\* SR-4.1: after a blackout no tick lets the operator or autonomy drive, for
\* every threshold the watchdog may be given.
THEOREM WatchdogStopsDriving == Spec => []NoDrivingInSilence
<1>1. IInv => NoDrivingInSilence
  BY DEF IInv
<1> QED  BY <1>1, SafetyTaskInvariant, PTL

\* SR-3.3: SUSPENDED is left only through the whole resume handshake.
THEOREM ResumeHandshake == Spec => ResumeInterlock
<1> DEFINE sm == task.state_machine
           Handshake == /\ calm >= ResumeWindow
                        /\ sm.deadman_reset_requested
                        /\ task'.state_machine.tier = 0
<1>1. ASSUME IInv, [Next]_vars, sm.suspended, ~task'.state_machine.suspended
      PROVE  Handshake
  <2>t. task \in SafetyTaskType /\ sm \in StateMachineType /\ calm \in 0..ResumeWindow
    BY <1>1 DEF IInv, TypeOK, SafetyTaskType
  <2>1. ASSUME task'.state_machine = sm PROVE FALSE
    BY <1>1, <2>1
  <2>2. ASSUME NEW rtt \in RttSamples, ActivityRtt(rtt) PROVE Handshake
    <3>1. task'.state_machine = OnRttSample(sm, rtt)
      BY <2>2, <2>t DEF ActivityRtt, OnChannelBActivityRtt, SafetyTaskType
    <3>2. rtt \in Nat
      BY RttSamplesAssumption
    <3> QED
      BY <1>1, <2>t, <3>1, <3>2, OnRttSampleFacts DEF IInv, SuspendedIsTier4, MemoryIsHonest
  <2>3. CASE Activity
    BY <2>1, <2>3, <2>t DEF Activity, OnChannelBActivity, SafetyTaskType
  <2>4. CASE Command
    BY <2>1, <2>4, <2>t DEF Command, OnChannelBActivity, SafetyTaskType
  <2>5. CASE RequestReset
    <3>1. task'.state_machine = RequestDeadmanReset(sm)
      BY <2>5, <2>t DEF RequestReset, SafetyTaskType
    <3> QED  BY <1>1, <2>t, <3>1 DEF RequestDeadmanReset, StateMachineType
  <2>6. CASE Trigger
    BY <2>1, <2>6, <2>t DEF Trigger, TriggerExplicitEstop, SafetyTaskType
  <2>7. CASE Clear
    BY <2>1, <2>7, <2>t DEF Clear, ClearExplicitEstop, SafetyTaskType
  <2>8. ASSUME NEW goal \in BOOLEAN, SafetyTick(goal) PROVE FALSE
    BY <2>1, <2>8, <2>t DEF SafetyTick, Tick, SafetyTaskType
  <2>9. CASE Advance
    <3>1. task'.state_machine = ElapseStateMachine(sm)
      BY <2>9, <2>t DEF Advance, Elapse, SafetyTaskType
    <3> QED  BY <1>1, <2>t, <3>1 DEF ElapseStateMachine, StateMachineType
  <2>10. CASE UNCHANGED vars
    BY <2>1, <2>10 DEF vars
  <2> QED  BY <1>1, <2>2, <2>3, <2>4, <2>5, <2>6, <2>7, <2>8, <2>9, <2>10 DEF Next
<1>2. IInv /\ [Next]_vars
        => [sm.suspended /\ ~task'.state_machine.suspended => Handshake]_vars
  BY <1>1
<1> QED  BY <1>2, SafetyTaskInvariant, PTL DEF Spec, ResumeInterlock

\* SR-4: nothing but clear_explicit_estop ends an E-Stop, whatever its cause.
THEOREM EstopIsLatched == Spec => OnlyClearUnlatches
<1>1. ASSUME IInv, [Next]_vars, IsEstopped(task), ~IsEstopped(task') PROVE Clear
  <2>t. /\ task \in SafetyTaskType /\ task.watchdog \in WatchdogType
        /\ task.watchdog.silence <= task.watchdog.threshold
    BY <1>1 DEF IInv, TypeOK, SafetyTaskType
  <2> USE <1>1, <2>t, WatchdogFacts DEF IsEstopped, SafetyTaskType
  <2>1. ~Activity
    BY DEF Activity, OnChannelBActivity
  <2>2. ASSUME NEW rtt \in RttSamples, ActivityRtt(rtt) PROVE FALSE
    BY <2>2 DEF ActivityRtt, OnChannelBActivityRtt
  <2>3. ~Command
    BY DEF Command, OnChannelBActivity
  <2>4. ~RequestReset
    BY DEF RequestReset
  <2>5. ~Trigger
    BY DEF Trigger, TriggerExplicitEstop
  <2>6. ASSUME NEW goal \in BOOLEAN, SafetyTick(goal) PROVE FALSE
    BY <2>6 DEF SafetyTick, Tick
  <2>7. ~Advance
    BY DEF Advance, Elapse
  <2>8. ~UNCHANGED vars
    BY DEF vars
  <2> QED  BY <2>1, <2>2, <2>3, <2>4, <2>5, <2>6, <2>7, <2>8 DEF Next
<1>2. IInv /\ [Next]_vars => [IsEstopped(task) /\ ~IsEstopped(task') => Clear]_vars
  BY <1>1
<1> QED  BY <1>2, SafetyTaskInvariant, PTL DEF Spec, OnlyClearUnlatches
=============================================================================

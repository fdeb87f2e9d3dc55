-------------------------- MODULE RobotEdgeProofs --------------------------
(***************************************************************************)
(* What robot-edge guarantees for every bound, timeout and set of actions: *)
(* nothing moves under an E-Stop and the latched bridge holds the legs,    *)
(* the repeated Estop prevails over what was queued before it, a settling  *)
(* gait is not disturbed, and an acknowledged shutdown leaves the robot    *)
(* still.                                                                  *)
(***************************************************************************)
EXTENDS RobotEdge, SafetyCoreProofs, InductionFacts

\* The inductive invariant: the bridge is a bridge, and holds the legs still while latched.
LatchInv == bridge \in BridgeType /\ LatchedBridgeIsStill

\* Types, which hold because a supervisor at its limit of restarts is gone.
TypeInv == TypeOK /\ (supervisor # "Gone" => attempts <= MaxRestarts)

\* A robot that sits, or whose gait settles, was given an action by an operator in
\* control, and a session keeps an operator who has once commanded ready.
ReadyInv ==
  /\ Drivable(safety)
  /\ sitting \/ settle > 0 => Ready(safety)

-----------------------------------------------------------------------------
\* No command moves the legs of a latched bridge, and one that latches it stops them.
LEMMA LatchAndVelocity ==
  ASSUME NEW estopped, NEW v, NEW cmd, estopped => v = "Still"
  PROVE  LatchAfter(estopped, cmd) => VelocityAfter(estopped, v, cmd) = "Still"
  BY DEF LatchAfter, VelocityAfter

\* handle_line keeps the bridge's type and process.
LEMMA HandleLineFacts ==
  ASSUME NEW b \in BridgeType, NEW cmd
  PROVE  /\ HandleLine(b, cmd) \in BridgeType
         /\ HandleLine(b, cmd).estopped = LatchAfter(b.estopped, cmd)
<1>1. LatchAfter(b.estopped, cmd) \in BOOLEAN
  BY DEF LatchAfter, BridgeType
<1>2. 0 \in 0..BridgeWatchdog
  BY BridgeWatchdogAssumption
<1> QED  BY <1>1, <1>2 DEF HandleLine, BridgeType

\* Every step of session, supervisor, bridge and time preserves the invariant.
LEMMA NextLatchInv == LatchInv /\ [Next]_vars => LatchInv'
<1> SUFFICES ASSUME LatchInv, [Next]_vars PROVE LatchInv'
  OBVIOUS
<1> USE DEF LatchInv, LatchedBridgeIsStill
<1>1. CASE UNCHANGED <<bridge, velocity>>
  BY <1>1
<1>2. CASE Spawn
  BY <1>2, BridgeWatchdogAssumption DEF Spawn, NewBridge, BridgeType
<1>3. CASE KillBridge
  BY <1>3, BridgeWatchdogAssumption DEF KillBridge, NoProcess, BridgeType
<1>4. CASE BridgeHandles
  <2>1. /\ bridge' = HandleLine(bridge, Head(pipe))
        /\ velocity' = VelocityAfter(bridge.estopped, velocity, Head(pipe))
        /\ bridge.alive
    BY <1>4 DEF BridgeHandles
  <2>2. LatchAfter(bridge.estopped, Head(pipe)) => velocity' = "Still"
    BY <2>1, LatchAndVelocity
  <2> QED  BY <2>1, <2>2, HandleLineFacts
<1>5. CASE BridgeWatchdogTrips
  BY <1>5 DEF BridgeWatchdogTrips, BridgeType
<1>6. ASSUME NEW clean \in BOOLEAN, BridgeDies(clean) PROVE LatchInv'
  BY <1>6, BridgeWatchdogAssumption DEF BridgeDies, NoProcess, BridgeType
<1>7. CASE Advance
  <2>1. /\ bridge' = [bridge EXCEPT !.silence = IF bridge.alive THEN Older(@, BridgeWatchdog) ELSE @]
        /\ velocity' = velocity
    BY <1>7 DEF Advance
  <2>2. Older(bridge.silence, BridgeWatchdog) \in 0..BridgeWatchdog
    BY BridgeWatchdogAssumption DEF Older, BridgeType
  <2> QED  BY <2>1, <2>2 DEF BridgeType
<1>8. SessionNext \/ GoalChanges => UNCHANGED <<bridge, velocity>>
  <2> USE DEF process
  <2>1. OnHello \/ OnSessionAccept \/ OnHeartbeat \/ OnBridgeEvent => UNCHANGED <<bridge, velocity>>
    BY DEF OnHello, OnSessionAccept, OnHeartbeat, OnBridgeEvent
  <2>2. ASSUME NEW latched \in BOOLEAN, OnEstopDatagram(latched) \/ OnEstopStream(latched)
        PROVE  UNCHANGED <<bridge, velocity>>
    BY <2>2 DEF OnEstopDatagram, OnEstopStream
  <2>3. ASSUME NEW v, OnCommand(v) \/ OnTick(v) PROVE UNCHANGED <<bridge, velocity>>
    BY <2>3 DEF OnCommand, OnTick
  <2>4. ASSUME NEW action, OnActionTrigger(action) PROVE UNCHANGED <<bridge, velocity>>
    BY <2>4 DEF OnActionTrigger
  <2>5. ConnectionClosed \/ ShutDown \/ ShutDownEvent \/ ShutDownTimeout \/ NewSession \/ GoalChanges
          => UNCHANGED <<bridge, velocity>>
    BY DEF ConnectionClosed, ShutDown, ShutDownEvent, ShutDownTimeout, NewSession, GoalChanges
  <2> QED  BY <2>1, <2>2, <2>3, <2>4, <2>5 DEF SessionNext
<1>9. WriteLine \/ (\E window_over \in BOOLEAN : SpawnFails(window_over))
        \/ (\E window_over, write_failed \in BOOLEAN : NoticeDeath(window_over, write_failed))
          => UNCHANGED <<bridge, velocity>>
  BY DEF WriteLine, SpawnFails, NoticeDeath
<1>10. vars' = vars => UNCHANGED <<bridge, velocity>>
  BY DEF vars
<1> QED
  BY <1>1, <1>2, <1>3, <1>4, <1>5, <1>6, <1>7, <1>8, <1>9, <1>10
     DEF Next, SupervisorNext, BridgeNext

-----------------------------------------------------------------------------
\* xgo_bridge.py's latch: through every interleaving of session, supervisor, the
\* bridge's threads, deaths and restarts, the legs are still while it is latched.
THEOREM LatchHoldsTheLegs == Spec => []LatchedBridgeIsStill
<1>1. Init => LatchInv
  BY BridgeWatchdogAssumption DEF Init, LatchInv, LatchedBridgeIsStill, NoProcess, BridgeType
<1>2. LatchInv => LatchedBridgeIsStill
  BY DEF LatchInv
<1> QED  BY <1>1, <1>2, NextLatchInv, PTL DEF Spec

-----------------------------------------------------------------------------
(* Type correctness.                                                       *)

\* Queues: one element is a sequence, and what is left after the head is taken is one.
LEMMA SeqFacts ==
  ASSUME NEW S
  PROVE  /\ \A x \in S : <<x>> \in Seq(S)
         /\ \A s \in Seq(S) : s # <<>> => Head(s) \in S /\ Tail(s) \in Seq(S)
  OBVIOUS

\* Every batch a handler of the session sends is a sequence of bridge commands.
LEMMA BatchTypes ==
  ASSUME TypeOK
  PROVE  /\ \A op \in {"Action", "Stop", "FinalStop", "Estop", "EstopClear", "Heartbeat"} :
              Plain(op) \in BridgeCommand
         /\ \A v \in {"Still", "Operator"} : TeleopBatch(v) \in Seq(BridgeCommand)
         /\ \A source : \A v \in {"Still", "Autonomy"} : TickBatch(source, v) \in Seq(BridgeCommand)
<1>1. \A op \in {"Action", "Stop", "FinalStop", "Estop", "EstopClear", "Heartbeat"} :
        Plain(op) \in BridgeCommand
  BY DEF BridgeCommand
<1>2. \A legs \in Velocity \cup {Withheld}, arm \in BOOLEAN : Motion(legs, arm) \in BridgeCommand
  BY DEF BridgeCommand, Motion
<1>3. ASSUME NEW v \in {"Still", "Operator"} PROVE TeleopBatch(v) \in Seq(BridgeCommand)
  <2> DEFINE legs == IF settle > 0 \/ (sitting /\ v = "Still") THEN Withheld ELSE v
  <2>1. legs \in Velocity \cup {Withheld} /\ (settle = 0) \in BOOLEAN
    BY DEF Velocity
  <2>2. TeleopBatch(v) = <<Motion(legs, settle = 0)>>
    BY DEF TeleopBatch
  <2> HIDE DEF legs
  <2>3. Motion(legs, settle = 0) \in BridgeCommand
    BY <2>1, <1>2
  <2> QED  BY <2>2, <2>3
<1>4. ASSUME NEW source, NEW v \in {"Still", "Autonomy"} PROVE TickBatch(source, v) \in Seq(BridgeCommand)
  <2> DEFINE move == IF source = "SemiAutonomous" THEN <<Motion(v, FALSE)>> ELSE <<>>
             lines == EstopLines(source) \o move
  <2>1. EstopLines(source) \in Seq(BridgeCommand)
    BY <1>1 DEF EstopLines
  <2>2. Motion(v, FALSE) \in BridgeCommand
    BY <1>2 DEF Velocity
  <2>3. lines \in Seq(BridgeCommand)
    <3>1. move \in Seq(BridgeCommand)
      <4>1. <<Motion(v, FALSE)>> \in Seq(BridgeCommand)
        BY <2>2, SeqFacts
      <4>2. <<>> \in Seq(BridgeCommand)
        OBVIOUS
      <4> QED  BY <4>1, <4>2, Zenon
    <3> HIDE DEF move
    <3> QED  BY <2>1, <3>1
  <2>4. TickBatch(source, v) = IF lines = <<>> THEN <<Plain("Heartbeat")>> ELSE lines
    BY DEF TickBatch
  <2> HIDE DEF lines
  <2>5. Plain("Heartbeat") \in BridgeCommand
    BY <1>1
  <2> QED  BY <2>3, <2>4, <2>5
<1> QED  BY <1>1, <1>3, <1>4

\* Sending keeps the command queue a sequence of commands, emitting the event queue one of events.
LEMMA QueueTypes ==
  ASSUME TypeOK
  PROVE  /\ \A batch \in Seq(BridgeCommand) : Send(batch) => cmds' \in Seq(BridgeCommand)
         /\ \A event \in {"ProcessDied", "GaveUp", "FinalStopAck"} :
              Emit(event) => events' \in Seq({"ProcessDied", "GaveUp", "FinalStopAck"})
<1>1. ASSUME NEW batch \in Seq(BridgeCommand), Send(batch) PROVE cmds' \in Seq(BridgeCommand)
  BY <1>1 DEF TypeOK, Send
<1>2. ASSUME NEW event \in {"ProcessDied", "GaveUp", "FinalStopAck"}, Emit(event)
      PROVE  events' \in Seq({"ProcessDied", "GaveUp", "FinalStopAck"})
  BY <1>2 DEF TypeOK, Emit
<1> QED  BY <1>1, <1>2

\* Every step of session, supervisor, bridge and time keeps the types.
LEMMA NextTypeInv == TypeInv /\ [Next]_vars => TypeInv'
<1> SUFFICES ASSUME TypeInv, [Next]_vars PROVE TypeInv'
  OBVIOUS
<1> USE RobotEdgeAssumption, BridgeWatchdogAssumption DEF session, process, Ended, TypeInv
<1>t. TypeOK
  OBVIOUS
<1>s. safety \in SafetyTaskType /\ events \in Seq({"ProcessDied", "GaveUp", "FinalStopAck"})
  BY DEF TypeOK
\* The handlers that change the safety task alone.
<1>safety. ASSUME safety' \in SafetyTaskType,
                  UNCHANGED <<sitting, settle, bridge_estop_active, mode, goal, cmds, process, told>>,
                  UNCHANGED phase,
                  events' = events \/ (events # <<>> /\ events' = Tail(events))
           PROVE  TypeInv'
  <2>1. events' \in Seq({"ProcessDied", "GaveUp", "FinalStopAck"})
    BY <1>s, <1>safety
  <2> QED  BY <1>safety, <2>1 DEF TypeOK
<1>1. CASE OnHello \/ OnSessionAccept \/ GoalChanges
  BY <1>1 DEF OnHello, OnSessionAccept, GoalChanges, TypeOK
<1>2. ASSUME NEW latched \in BOOLEAN, OnEstopDatagram(latched) \/ OnEstopStream(latched) PROVE TypeInv'
  <2>1. ApplyEstop(safety, latched) \in SafetyTaskType
    BY <1>s, MethodFacts DEF ApplyEstop
  <2>2. safety' \in SafetyTaskType
    BY <1>2, <2>1, MethodFacts DEF OnEstopDatagram, OnEstopStream
  <2> QED  BY <1>2, <1>safety, <2>2 DEF OnEstopDatagram, OnEstopStream
<1>3. CASE OnHeartbeat
  BY <1>3, <1>s, <1>safety, MethodFacts DEF OnHeartbeat
<1>4. ASSUME NEW v \in {"Still", "Operator"}, OnCommand(v) PROVE TypeInv'
  <2> DEFINE s == [OnChannelBActivity(safety) EXCEPT !.deadman_held = TRUE, !.command_fresh = TRUE]
  <2>1. s \in SafetyTaskType
    BY <1>s, MethodFacts, CommandFacts
  <2> HIDE DEF s
  <2>2. safety' \in SafetyTaskType
    BY <1>4, <2>1, MethodFacts DEF OnCommand, s
  <2>3. <<Plain("Stop")>> \in Seq(BridgeCommand) /\ TeleopBatch(v) \in Seq(BridgeCommand)
    BY BatchTypes, <1>t
  <2>4. /\ Send(TeleopBatch(v)) \/ Send(<<Plain("Stop")>>) \/ cmds' = cmds
        /\ sitting' = (sitting /\ v = "Still") \/ sitting' = sitting
    BY <1>4 DEF OnCommand
  <2>5. cmds' \in Seq(BridgeCommand)
    BY <2>3, <2>4, QueueTypes, <1>t DEF TypeOK
  <2>6. sitting' \in BOOLEAN
    BY <2>4 DEF TypeOK
  <2> QED  BY <1>4, <2>2, <2>5, <2>6 DEF OnCommand, TypeOK
<1>5. ASSUME NEW action \in Actions, OnActionTrigger(action) PROVE TypeInv'
  <2>1. safety' \in SafetyTaskType
    BY <1>5, <1>s, MethodFacts DEF OnActionTrigger
  <2>2. <<Plain("Action")>> \in Seq(BridgeCommand)
    BY BatchTypes, <1>t
  <2>3. /\ Send(<<Plain("Action")>>) \/ cmds' = cmds
        /\ settle' = SettleTime \/ settle' = settle
        /\ sitting' \in {TRUE, FALSE, sitting}
    BY <1>5 DEF OnActionTrigger
  <2>4. cmds' \in Seq(BridgeCommand)
    BY <2>2, <2>3, QueueTypes, <1>t DEF TypeOK
  <2>5. settle' \in 0..SettleTime
    BY <2>3 DEF TypeOK
  <2>6. sitting' \in BOOLEAN
    BY <2>3, Zenon DEF TypeOK
  <2> QED  BY <1>5, <2>1, <2>4, <2>5, <2>6 DEF OnActionTrigger, TypeOK
<1>6. ASSUME NEW v \in {"Still", "Autonomy"}, OnTick(v) PROVE TypeInv'
  <2>1. safety' \in SafetyTaskType
    BY <1>6, <1>s, MethodFacts DEF OnTick
  <2> DEFINE batch == TickBatch(TickSource(safety, goal), v)
  <2>a. batch \in Seq(BridgeCommand)
    BY BatchTypes, <1>t, Zenon
  <2>b. Send(batch)
    BY <1>6 DEF OnTick
  <2> HIDE DEF batch
  <2>2. cmds' \in Seq(BridgeCommand)
    BY <2>a, <2>b, QueueTypes, <1>t
  <2>3. bridge_estop_active' \in BOOLEAN /\ told' \in BOOLEAN
    BY <1>6 DEF OnTick
  <2> QED  BY <1>6, <2>1, <2>2, <2>3 DEF OnTick, TypeOK
<1>7. CASE OnBridgeEvent
  BY <1>7, <1>s, <1>safety, MethodFacts DEF OnBridgeEvent
\* The steps that end a session or start the next.
<1>fresh. ASSUME FreshSession PROVE /\ safety' \in SafetyTaskType
                                    /\ phase' \in {"AwaitingHello", "AwaitingSessionAccept", "Operating"}
                                    /\ sitting' \in BOOLEAN /\ bridge_estop_active' \in BOOLEAN
                                    /\ settle' \in 0..SettleTime
                                    /\ events' \in Seq({"ProcessDied", "GaveUp", "FinalStopAck"})
  <2>1. NewSafetyTask("D", Blackout) \in SafetyTaskType
    BY NewSafetyTaskFacts DEF TaskClass
  <2>2. 0 \in 0..SettleTime /\ <<>> \in Seq({"ProcessDied", "GaveUp", "FinalStopAck"})
    OBVIOUS
  <2> QED  BY <1>fresh, <2>1, <2>2, Zenon DEF FreshSession
<1>8. CASE ConnectionClosed \/ ShutDownTimeout \/ NewSession
  BY <1>8, <1>fresh DEF ConnectionClosed, ShutDownTimeout, NewSession, TypeOK
<1>9. CASE ShutDown
  <2>1. <<Plain("FinalStop"), Plain("Estop")>> \in Seq(BridgeCommand)
    BY BatchTypes, <1>t
  <2>2. cmds' \in Seq(BridgeCommand)
    BY <1>9, <2>1, QueueTypes, <1>t DEF ShutDown
  <2> QED  BY <1>9, <2>2 DEF ShutDown, TypeOK
<1>10. CASE ShutDownEvent
  <2>1. CASE Head(events) = "FinalStopAck"
    BY <1>10, <2>1, <1>fresh DEF ShutDownEvent, TypeOK
  <2>2. CASE Head(events) # "FinalStopAck"
    <3>1. events' \in Seq({"ProcessDied", "GaveUp", "FinalStopAck"})
      BY <1>s, <1>10, <2>2 DEF ShutDownEvent
    <3> QED  BY <1>10, <2>2, <3>1 DEF ShutDownEvent, TypeOK
  <2> QED  BY <2>1, <2>2
<1>11. CASE Spawn
  <2>1. NewBridge \in BridgeType
    BY DEF NewBridge, BridgeType
  <2>2. told' \in BOOLEAN
    BY <1>11, Zenon DEF Spawn
  <2> QED  BY <1>11, <2>1, <2>2 DEF Spawn, TypeOK
<1>12. CASE WriteLine
  <2>1. Head(cmds) \in BridgeCommand /\ Tail(cmds) \in Seq(BridgeCommand)
    BY <1>12 DEF WriteLine, TypeOK
  <2> QED  BY <1>12, <2>1 DEF WriteLine, TypeOK
\* A failure is only recorded by a supervisor that has not given up.
<1>fail. ASSUME NEW window_over \in BOOLEAN, RecordFailure(window_over), supervisor # "Gone"
         PROVE  /\ attempts' \in 0..(MaxRestarts + 1)
                /\ supervisor' # "Gone" => attempts' <= MaxRestarts
                /\ supervisor' \in {"Spawning", "Running", "Gone"}
                /\ events' \in Seq({"ProcessDied", "GaveUp", "FinalStopAck"})
  <2>1. Emit("GaveUp") \/ Emit("ProcessDied")
    BY <1>fail DEF RecordFailure
  <2>2. events' \in Seq({"ProcessDied", "GaveUp", "FinalStopAck"})
    BY <2>1, QueueTypes, <1>t
  <2>3. /\ attempts' \in 0..(MaxRestarts + 1) /\ supervisor' \in {"Spawning", "Running", "Gone"}
        /\ supervisor' # "Gone" => attempts' <= MaxRestarts
    BY <1>fail DEF RecordFailure, TypeOK
  <2> QED  BY <2>2, <2>3
<1>13. ASSUME NEW window_over \in BOOLEAN, SpawnFails(window_over) PROVE TypeInv'
  BY <1>13, <1>fail DEF SpawnFails, TypeOK
<1>14. ASSUME NEW window_over \in BOOLEAN, NEW write_failed \in BOOLEAN,
              NoticeDeath(window_over, write_failed)
       PROVE  TypeInv'
  <2>1. cmds' \in Seq(BridgeCommand)
    BY <1>14 DEF NoticeDeath, TypeOK
  <2> QED  BY <1>14, <2>1, <1>fail DEF NoticeDeath, TypeOK
<1>15. CASE KillBridge
  BY <1>15 DEF KillBridge, NoProcess, BridgeType, TypeOK
<1>16. CASE BridgeHandles
  <2> DEFINE cmd == Head(pipe)
  <2>1. cmd \in BridgeCommand /\ Tail(pipe) \in Seq(BridgeCommand)
    BY <1>16 DEF BridgeHandles, TypeOK
  <2>2. bridge' \in BridgeType
    BY <1>16, HandleLineFacts DEF BridgeHandles, TypeOK
  <2>3. VelocityAfter(bridge.estopped, velocity, cmd) \in Velocity
    BY <2>1 DEF VelocityAfter, BridgeCommand, Velocity, Plain, TypeOK
  <2>4. events' \in Seq({"ProcessDied", "GaveUp", "FinalStopAck"})
    BY <1>16, QueueTypes, <1>t DEF BridgeHandles, TypeOK
  <2> QED  BY <1>16, <2>1, <2>2, <2>3, <2>4 DEF BridgeHandles, TypeOK
<1>17. CASE BridgeWatchdogTrips
  BY <1>17 DEF BridgeWatchdogTrips, BridgeType, Velocity, TypeOK
<1>18. ASSUME NEW clean \in BOOLEAN, BridgeDies(clean) PROVE TypeInv'
  BY <1>18 DEF BridgeDies, NoProcess, BridgeType, Velocity, TypeOK
<1>19. CASE Advance
  <2>1. safety' \in SafetyTaskType
    BY <1>19, <1>s, MethodFacts DEF Advance
  <2>2. settle' \in 0..SettleTime
    BY <1>19 DEF Advance, TypeOK
  <2>3. Older(bridge.silence, BridgeWatchdog) \in 0..BridgeWatchdog
    BY DEF Older, BridgeType, TypeOK
  <2>4. bridge' \in BridgeType
    BY <1>19, <2>3 DEF Advance, BridgeType, TypeOK
  <2> QED  BY <1>19, <2>1, <2>2, <2>4 DEF Advance, TypeOK
<1>20. CASE UNCHANGED vars
  BY <1>20 DEF vars, TypeOK
<1> QED
  BY <1>1, <1>2, <1>3, <1>4, <1>5, <1>6, <1>7, <1>8, <1>9, <1>10, <1>11, <1>12, <1>13,
     <1>14, <1>15, <1>16, <1>17, <1>18, <1>19, <1>20
     DEF Next, SessionNext, SupervisorNext, BridgeNext

-----------------------------------------------------------------------------
(* Who is in control while a gait settles.                                 *)

\* Every step keeps a sitting or settling robot's operator ready.
LEMMA NextReadyInv == TypeOK /\ ReadyInv /\ [Next]_vars => ReadyInv'
<1> SUFFICES ASSUME TypeOK, ReadyInv, [Next]_vars PROVE ReadyInv'
  OBVIOUS
<1> USE DEF session, process, ReadyInv
<1>t. safety \in SafetyTaskType /\ goal \in BOOLEAN /\ settle \in Nat
  BY RobotEdgeAssumption DEF TypeOK
<1>same. ASSUME UNCHANGED <<safety, sitting, settle>> PROVE ReadyInv'
  BY <1>same
<1>method. ASSUME safety' \in {OnChannelBActivity(safety), TriggerExplicitEstop(safety),
                               ClearExplicitEstop(safety), Tick(safety), safety},
                  UNCHANGED <<sitting, settle>>
           PROVE  ReadyInv'
  BY <1>t, <1>method, ReadinessFacts
<1>fresh. ASSUME FreshSession PROVE ReadyInv'
  BY <1>fresh, NewSafetyTaskFacts, RobotEdgeAssumption DEF FreshSession, Drivable, TaskClass
<1>1. CASE OnHello \/ OnSessionAccept \/ GoalChanges \/ ShutDown \/ SupervisorNext \/ BridgeNext
  <2>1. UNCHANGED <<safety, sitting, settle>>
    BY <1>1 DEF OnHello, OnSessionAccept, GoalChanges, ShutDown, SupervisorNext, BridgeNext, Spawn,
       WriteLine, SpawnFails, NoticeDeath, KillBridge, BridgeHandles, BridgeWatchdogTrips, BridgeDies
  <2> QED  BY <2>1, <1>same
<1>2. ASSUME NEW latched \in BOOLEAN, OnEstopStream(latched) PROVE ReadyInv'
  BY <1>2, <1>method DEF OnEstopStream, ApplyEstop
<1>3. ASSUME NEW latched \in BOOLEAN, OnEstopDatagram(latched) PROVE ReadyInv'
  <2>1. /\ ApplyEstop(safety, latched) \in SafetyTaskType
        /\ Ready(ApplyEstop(safety, latched)) = Ready(safety)
        /\ Drivable(ApplyEstop(safety, latched)) = Drivable(safety)
    BY <1>t, MethodFacts, ReadinessFacts DEF ApplyEstop
  <2> QED  BY <1>3, <2>1, ReadinessFacts DEF OnEstopDatagram
<1>4. CASE OnHeartbeat \/ OnBridgeEvent
  BY <1>4, <1>method DEF OnHeartbeat, OnBridgeEvent
<1>5. ASSUME NEW v \in {"Still", "Operator"}, OnCommand(v) PROVE ReadyInv'
  <2> DEFINE a == OnChannelBActivity(safety)
             s == [a EXCEPT !.deadman_held = TRUE, !.command_fresh = TRUE]
  <2>1. a \in SafetyTaskType /\ Drivable(a)
    BY <1>t, MethodFacts, ReadinessFacts
  <2> HIDE DEF a
  <2>2. s \in SafetyTaskType /\ Drivable(s) /\ Ready(s)
    BY <2>1, CommandFacts
  <2>3. safety' = Tick(s)
    BY <1>5 DEF OnCommand, a
  <2> HIDE DEF s
  <2> QED  BY <2>2, <2>3, ReadinessFacts
<1>6. ASSUME NEW action \in Actions, OnActionTrigger(action) PROVE ReadyInv'
  <2>1. Ready(Tick(safety)) = Ready(safety) /\ Drivable(Tick(safety)) = Drivable(safety)
    BY <1>t, ReadinessFacts
  <2>2. safety' = Tick(safety)
    BY <1>6 DEF OnActionTrigger
  <2>3. CASE TickSource(safety, goal) = "FullTeleoperation"
    BY <2>1, <2>2, <2>3, <1>t, ReadyHasControl
  <2>4. CASE TickSource(safety, goal) # "FullTeleoperation"
    BY <1>6, <2>1, <2>2, <2>4 DEF OnActionTrigger
  <2> QED  BY <2>3, <2>4
<1>7. ASSUME NEW v \in {"Still", "Autonomy"}, OnTick(v) PROVE ReadyInv'
  BY <1>7, <1>method DEF OnTick
<1>8. CASE ConnectionClosed \/ ShutDownTimeout \/ NewSession
  BY <1>8, <1>fresh DEF ConnectionClosed, ShutDownTimeout, NewSession
<1>9. CASE ShutDownEvent
  BY <1>9, <1>fresh, <1>same DEF ShutDownEvent
<1>10. CASE Advance
  <2>1. safety' = safety \/ safety' = Elapse(safety)
    BY <1>10 DEF Advance
  <2>2. Ready(safety') = Ready(safety) /\ Drivable(safety') = Drivable(safety)
    BY <2>1, <1>t, ReadinessFacts
  <2>3. sitting' = sitting /\ (settle' > 0 => settle > 0)
    BY <1>10, <1>t DEF Advance
  <2> QED  BY <2>2, <2>3
<1>11. CASE UNCHANGED vars
  BY <1>11, <1>same DEF vars
<1> QED
  BY <1>1, <1>2, <1>3, <1>4, <1>5, <1>6, <1>7, <1>8, <1>9, <1>10, <1>11 DEF Next, SessionNext

-----------------------------------------------------------------------------
(* What the session's handlers send.                                       *)

\* The last command of a batch of one or two is what the step has sent.
LEMMA SentIsLast ==
  ASSUME cmds \in Seq(BridgeCommand), NEW cmd, Sends(cmd)
  PROVE  /\ \A x : Send(<<x>>) => cmd = x
         /\ \A x, y : Send(<<x, y>>) => cmd = y
  BY DEF Sends, Send, Last

\* The batch of a tick, spelled out.
LEMMA TickBatchIs ==
  ASSUME NEW source, NEW v
  PROVE  TickBatch(source, v)
           = IF source = "EStop" THEN <<Plain("Estop")>>
             ELSE IF source = "SemiAutonomous"
             THEN (IF bridge_estop_active THEN <<Plain("EstopClear"), Motion(v, FALSE)>>
                   ELSE <<Motion(v, FALSE)>>)
             ELSE IF bridge_estop_active THEN <<Plain("EstopClear")>> ELSE <<Plain("Heartbeat")>>
<1> DEFINE clear == Plain("EstopClear")
           estop == Plain("Estop")
           move == Motion(v, FALSE)
           beat == Plain("Heartbeat")
<1>1. TickBatch(source, v)
        = LET lines == (IF source = "EStop" THEN <<estop>>
                        ELSE IF bridge_estop_active THEN <<clear>> ELSE <<>>)
                       \o IF source = "SemiAutonomous" THEN <<move>> ELSE <<>>
          IN  IF lines = <<>> THEN <<beat>> ELSE lines
  BY DEF TickBatch, EstopLines
<1> HIDE DEF clear, estop, move, beat
<1>2. TickBatch(source, v)
        = IF source = "EStop" THEN <<estop>>
          ELSE IF source = "SemiAutonomous"
          THEN (IF bridge_estop_active THEN <<clear, move>> ELSE <<move>>)
          ELSE IF bridge_estop_active THEN <<clear>> ELSE <<beat>>
  <2>1. ASSUME NEW x, NEW y
        PROVE  <<x>> \o <<>> = <<x>> /\ <<>> \o <<x>> = <<x>> /\ <<x>> \o <<y>> = <<x, y>>
    <3>1. <<x>> \o <<>> = <<x>> /\ <<>> \o <<x>> = <<x>>
      OBVIOUS
    <3>2. <<x>> \o <<y>> = <<x, y>>
      <4> DEFINE S == {x, y}
                 a == <<x>> \o <<y>>
                 b == <<x, y>>
      <4>1. /\ a \in Seq(S) /\ b \in Seq(S) /\ Len(a) = 2 /\ Len(b) = 2
            /\ a[1] = b[1] /\ a[2] = b[2]
        OBVIOUS
      <4> HIDE DEF S, a, b
      <4>2. a = b
        BY <4>1
      <4> QED  BY <4>2 DEF a, b
    <3> QED  BY <3>1, <3>2
  <2>2. \A x, y : <<x>> # <<>> /\ <<x, y>> # <<>> /\ <<>> \o <<>> = <<>>
    OBVIOUS
  <2>3. CASE source = "EStop"
    BY <1>1, <2>1, <2>2, <2>3
  <2>4. CASE source = "SemiAutonomous"
    BY <1>1, <2>1, <2>2, <2>4
  <2>5. CASE source # "EStop" /\ source # "SemiAutonomous"
    BY <1>1, <2>1, <2>2, <2>5
  <2> QED  BY <2>3, <2>4, <2>5
<1> QED  BY <1>2 DEF clear, estop, move, beat

\* Teleop's leg command: withheld while a gait settles or a sitting robot is told to stand still.
TeleopLegs(v) == IF settle > 0 \/ (sitting /\ v = "Still") THEN Withheld ELSE v

\* Whatever step it is, the command it sends moves nothing, or it is an operator's
\* or the goal's, arbitrated without an E-Stop.
LEMMA WhatIsSent ==
  ASSUME TypeOK, [Next]_vars, NEW cmd, Sends(cmd)
  PROVE  \/ cmd \in {Plain("Stop"), Plain("Estop"), Plain("EstopClear"), Plain("Heartbeat")}
         \/ /\ ~IsEstopped(safety')
            /\ \/ cmd = Plain("Action")
               \/ \E v \in {"Still", "Operator"} : cmd = Motion(TeleopLegs(v), settle = 0)
               \/ /\ TickSource(safety, goal) = "SemiAutonomous"
                  /\ \E v \in {"Still", "Autonomy"} : cmd = Motion(v, FALSE)
<1> DEFINE Sent == \/ cmd \in {Plain("Stop"), Plain("Estop"), Plain("EstopClear"), Plain("Heartbeat")}
                   \/ /\ ~IsEstopped(safety')
                      /\ \/ cmd = Plain("Action")
                         \/ \E v \in {"Still", "Operator"} : cmd = Motion(TeleopLegs(v), settle = 0)
                         \/ /\ TickSource(safety, goal) = "SemiAutonomous"
                            /\ \E v \in {"Still", "Autonomy"} : cmd = Motion(v, FALSE)
<1> SUFFICES Sent
  OBVIOUS
<1> USE DEF process, session
<1>t. safety \in SafetyTaskType /\ goal \in BOOLEAN /\ cmds \in Seq(BridgeCommand)
  BY DEF TypeOK
<1>last. /\ \A x : Send(<<x>>) => cmd = x
         /\ \A x, y : Send(<<x, y>>) => cmd = y
  BY <1>t, SentIsLast
<1>no. ASSUME cmds' \in {cmds, <<>>} \/ (cmds # <<>> /\ cmds' = Tail(cmds)) PROVE FALSE
  BY <1>t, <1>no DEF Sends
<1>1. ASSUME NEW v \in {"Still", "Operator"}, OnCommand(v) PROVE Sent
  <2> DEFINE s == [OnChannelBActivity(safety) EXCEPT !.deadman_held = TRUE, !.command_fresh = TRUE]
             source == TickSource(s, goal)
  <2>1. s \in SafetyTaskType
    BY <1>t, MethodFacts, CommandFacts
  <2>2. safety' = Tick(s)
    BY <1>1 DEF OnCommand
  <2>3. CASE source = "FullTeleoperation"
    <3>1. Send(<<Motion(TeleopLegs(v), settle = 0)>>)
      BY <1>1, <2>3 DEF OnCommand, TeleopBatch, TeleopLegs
    <3>2. ~IsEstopped(Tick(s))
      <4> HIDE DEF s
      <4> QED  BY <2>1, <2>3, <1>t, ReadyHasControl
    <3>3. cmd = Motion(TeleopLegs(v), settle = 0)
      BY <3>1, <1>last, Zenon
    <3> QED  BY <2>2, <3>2, <3>3, Zenon
  <2>4. CASE source = "SemiAutonomous"
    BY <1>1, <2>4, <1>no DEF OnCommand
  <2>5. CASE source # "FullTeleoperation" /\ source # "SemiAutonomous"
    <3>1. Send(<<Plain("Stop")>>)
      BY <1>1, <2>5 DEF OnCommand
    <3> QED  BY <3>1, <1>last
  <2> QED  BY <2>3, <2>4, <2>5
<1>2. ASSUME NEW action \in Actions, OnActionTrigger(action) PROVE Sent
  <2>1. CASE TickSource(safety, goal) = "FullTeleoperation"
    <3>1. Send(<<Plain("Action")>>) /\ safety' = Tick(safety)
      BY <1>2, <2>1 DEF OnActionTrigger
    <3> QED  BY <3>1, <2>1, <1>last, <1>t, ReadyHasControl
  <2>2. CASE TickSource(safety, goal) # "FullTeleoperation"
    BY <1>2, <2>2, <1>no DEF OnActionTrigger
  <2> QED  BY <2>1, <2>2
<1>3. ASSUME NEW v \in {"Still", "Autonomy"}, OnTick(v) PROVE Sent
  <2> DEFINE source == TickSource(safety, goal)
  <2>1. Send(TickBatch(source, v)) /\ safety' = Tick(safety)
    BY <1>3 DEF OnTick
  <2>2. source # "EStop" => ~IsEstopped(safety')
    BY <1>t, <2>1, ReadyHasControl
  <2>3. CASE source = "SemiAutonomous"
    <3>1. Send(<<Plain("EstopClear"), Motion(v, FALSE)>>) \/ Send(<<Motion(v, FALSE)>>)
      BY <2>1, <2>3, TickBatchIs
    <3>2. cmd = Motion(v, FALSE)
      BY <3>1, <1>last, Zenon
    <3> QED  BY <2>2, <2>3, <3>2, Zenon
  <2>4. CASE source # "SemiAutonomous"
    <3>1. Send(<<Plain("Estop")>>) \/ Send(<<Plain("EstopClear")>>) \/ Send(<<Plain("Heartbeat")>>)
      BY <2>1, <2>4, TickBatchIs
    <3> QED  BY <3>1, <1>last, Zenon
  <2> QED  BY <2>3, <2>4
<1>4. CASE ShutDown
  BY <1>4, <1>last DEF ShutDown
<1>5. CASE \/ OnHello \/ OnSessionAccept \/ OnHeartbeat \/ OnBridgeEvent \/ ConnectionClosed
           \/ ShutDownEvent \/ ShutDownTimeout \/ NewSession \/ GoalChanges \/ Advance \/ UNCHANGED vars
  <2>1. cmds' = cmds
    BY <1>5 DEF OnHello, OnSessionAccept, OnHeartbeat, OnBridgeEvent, ConnectionClosed, ShutDownEvent,
       ShutDownTimeout, NewSession, GoalChanges, Advance, vars
  <2> QED  BY <2>1, <1>no
<1>6. ASSUME NEW latched \in BOOLEAN, OnEstopDatagram(latched) \/ OnEstopStream(latched) PROVE Sent
  BY <1>6, <1>no DEF OnEstopDatagram, OnEstopStream
<1>7. CASE SupervisorNext \/ BridgeNext
  <2>1. cmds' \in {cmds, <<>>} \/ (cmds # <<>> /\ cmds' = Tail(cmds))
    BY <1>7 DEF SupervisorNext, BridgeNext, Spawn, WriteLine, SpawnFails, NoticeDeath, KillBridge,
       BridgeHandles, BridgeWatchdogTrips, BridgeDies
  <2> QED  BY <2>1, <1>no
<1> QED  BY <1>1, <1>2, <1>3, <1>4, <1>5, <1>6, <1>7 DEF Next, SessionNext

-----------------------------------------------------------------------------
(* Typing, and the theorems about what is sent.                            *)

\* Type correctness of session, supervisor, queues and bridge, and the bound on restarts.
THEOREM RobotEdgeTypeOK == Spec => []TypeOK
<1>1. Init => TypeInv
  <2> SUFFICES ASSUME Init PROVE TypeInv
    OBVIOUS
  <2> USE RobotEdgeAssumption, BridgeWatchdogAssumption DEF Init
  <2>1. safety \in SafetyTaskType
    BY NewSafetyTaskFacts DEF TaskClass
  <2>2. bridge \in BridgeType
    BY DEF NoProcess, BridgeType
  <2>3. sitting \in BOOLEAN /\ bridge_estop_active \in BOOLEAN /\ goal \in BOOLEAN /\ told \in BOOLEAN
    BY Zenon
  <2>4. cmds \in Seq(BridgeCommand) /\ pipe \in Seq(BridgeCommand)
    OBVIOUS
  <2>5. events \in Seq({"ProcessDied", "GaveUp", "FinalStopAck"})
    OBVIOUS
  <2> QED  BY <2>1, <2>2, <2>3, <2>4, <2>5 DEF TypeInv, TypeOK, Ended, Velocity
<1>2. TypeInv => TypeOK
  BY DEF TypeInv
<1> QED  BY <1>1, <1>2, NextTypeInv, PTL DEF Spec

\* A sitting or settling robot's operator stays ready.
LEMMA ReadyAlways == Spec => []ReadyInv
<1>1. Init => ReadyInv
  BY NewSafetyTaskFacts, RobotEdgeAssumption DEF Init, ReadyInv, Drivable, TaskClass
<1> QED  BY <1>1, RobotEdgeTypeOK, NextReadyInv, PTL DEF Spec

\* Session's handlers: no motion and no action is sent under an E-Stop, for every
\* interleaving, every blackout threshold and every length of the queues.
THEOREM EstopBarsMotion == Spec => NothingMovesUnderEstop
<1> DEFINE A == \A cmd \in BridgeCommand :
                  /\ Sends(cmd)
                  /\ cmd.op = "Action" \/ cmd.legs \in {"Operator", "Autonomy"}
                  => ~IsEstopped(safety')
<1>1. ASSUME TypeOK, [Next]_vars PROVE A
  <2> SUFFICES ASSUME NEW cmd \in BridgeCommand, Sends(cmd),
                      cmd.op = "Action" \/ cmd.legs \in {"Operator", "Autonomy"}
               PROVE  ~IsEstopped(safety')
    OBVIOUS
  <2>1. cmd \notin {Plain("Stop"), Plain("Estop"), Plain("EstopClear"), Plain("Heartbeat")}
    BY DEF Plain, Withheld
  <2> QED  BY <1>1, <2>1, WhatIsSent
<1>2. TypeOK /\ [Next]_vars => [A]_vars
  BY <1>1
<1> QED  BY <1>2, RobotEdgeTypeOK, PTL DEF Spec, NothingMovesUnderEstop

\* Session::sitting and ACTION_SETTLE_DURATION: nothing disturbs a settling gait or
\* stands a sitting robot up.  Autonomy cannot either: the operator whose action it
\* was stays in control for the rest of the session.
THEOREM GaitIsUndisturbed == Spec => GaitUndisturbed
<1> DEFINE A == \A cmd \in BridgeCommand :
                  Sends(cmd) /\ cmd.op = "Motion"
                  => /\ settle > 0 => cmd.legs = Withheld /\ ~cmd.arm
                     /\ sitting => cmd.legs # "Still"
<1>1. ASSUME TypeOK, ReadyInv, [Next]_vars PROVE A
  <2> SUFFICES ASSUME NEW cmd \in BridgeCommand, Sends(cmd), cmd.op = "Motion"
               PROVE  /\ settle > 0 => cmd.legs = Withheld /\ ~cmd.arm
                      /\ sitting => cmd.legs # "Still"
    OBVIOUS
  <2>t. safety \in SafetyTaskType /\ goal \in BOOLEAN /\ settle \in Nat
    BY <1>1, RobotEdgeAssumption DEF TypeOK
  <2>1. cmd \notin {Plain("Stop"), Plain("Estop"), Plain("EstopClear"), Plain("Heartbeat"), Plain("Action")}
    BY DEF Plain
  <2>2. ASSUME NEW v \in {"Still", "Operator"}, cmd = Motion(TeleopLegs(v), settle = 0)
        PROVE  /\ settle > 0 => cmd.legs = Withheld /\ ~cmd.arm
               /\ sitting => cmd.legs # "Still"
    <3>1. cmd.legs = TeleopLegs(v) /\ cmd.arm = (settle = 0)
      BY <2>2 DEF Motion
    <3>2. settle > 0 => cmd.legs = Withheld
      BY <3>1 DEF TeleopLegs
    <3>3. sitting => cmd.legs # "Still"
      BY <3>1 DEF TeleopLegs, Withheld
    <3>4. settle > 0 => ~(settle = 0)
      BY <2>t
    <3>5. settle > 0 => ~cmd.arm
      BY <3>1, <3>4, Zenon
    <3> QED  BY <3>2, <3>3, <3>5
  <2>3. ASSUME TickSource(safety, goal) = "SemiAutonomous"
        PROVE  ~sitting /\ ~(settle > 0)
    BY <1>1, <2>3, <2>t, ReadyHasControl DEF ReadyInv
  <2> QED  BY <1>1, <2>1, <2>2, <2>3, WhatIsSent
<1>2. TypeOK /\ ReadyInv /\ [Next]_vars => [A]_vars
  BY <1>1
<1> QED  BY <1>2, RobotEdgeTypeOK, ReadyAlways, PTL DEF Spec, GaitUndisturbed

-----------------------------------------------------------------------------
(* A shutdown that was acknowledged.                                       *)

\* What a supervisor that is not running, or a dead bridge, leaves behind: nothing.
QueueInv ==
  /\ supervisor = "Gone" => cmds = <<>>
  /\ supervisor # "Running" => ~bridge.alive
  /\ ~bridge.alive => pipe = <<>>

None(s, op) == \A i \in 1..Len(s) : s[i].op # op
OnlyEstop(s) == \A i \in 1..Len(s) : s[i].op = "Estop"

\* Behind the final Stop of a shutdown there is nothing but its Estop.
FinalStopLast(s) == \A i, j \in 1..Len(s) : i < j /\ s[i].op = "FinalStop" => s[j].op = "Estop"

Acked ==
  \/ mode = "StopAcked"
  \/ mode = "Stopping" /\ \E i \in 1..Len(events) : events[i] = "FinalStopAck"

\* The final Stop is only under way once a shutdown has begun, only an Estop follows
\* it in the queue and the pipe, and once it is acknowledged nothing else is left.
ShutdownInv ==
  /\ mode \in {"Serving", "Closed"} =>
       /\ None(pipe, "FinalStop") /\ None(cmds, "FinalStop")
       /\ \A i \in 1..Len(events) : events[i] # "FinalStopAck"
  /\ FinalStopLast(pipe) /\ FinalStopLast(cmds)
  /\ None(pipe, "FinalStop") \/ OnlyEstop(cmds)
  /\ Acked => velocity = "Still" /\ OnlyEstop(pipe) /\ OnlyEstop(cmds)

\* Every step keeps the queues of a supervisor that is gone and of a dead bridge empty.
LEMMA NextQueueInv == TypeOK /\ QueueInv /\ [Next]_vars => QueueInv'
<1> SUFFICES ASSUME TypeOK, QueueInv, [Next]_vars PROVE QueueInv'
  OBVIOUS
<1> USE DEF session, process, QueueInv
<1>b. bridge \in BridgeType
  BY DEF TypeOK
<1>1. ASSUME UNCHANGED <<supervisor, bridge, pipe>>, supervisor = "Gone" => cmds' = cmds
      PROVE  QueueInv'
  BY <1>1
<1>2. CASE SessionNext /\ ~NewSession
  <2>1. UNCHANGED <<supervisor, bridge, pipe>>
    BY <1>2 DEF SessionNext, OnHello, OnSessionAccept, OnEstopDatagram, OnEstopStream, OnHeartbeat,
       OnCommand, OnActionTrigger, OnTick, OnBridgeEvent, ConnectionClosed, ShutDown, ShutDownEvent,
       ShutDownTimeout
  <2>2. supervisor = "Gone" => cmds' = cmds
    BY <1>2 DEF SessionNext, OnHello, OnSessionAccept, OnEstopDatagram, OnEstopStream, OnHeartbeat,
       OnCommand, OnActionTrigger, OnTick, OnBridgeEvent, ConnectionClosed, ShutDown, ShutDownEvent,
       ShutDownTimeout, Send
  <2> QED  BY <1>1, <2>1, <2>2
<1>3. CASE NewSession
  BY <1>3 DEF NewSession
<1>4. CASE Spawn
  BY <1>4 DEF Spawn, NewBridge
<1>5. CASE WriteLine
  BY <1>5 DEF WriteLine
<1>6. ASSUME NEW window_over \in BOOLEAN, SpawnFails(window_over) PROVE QueueInv'
  BY <1>6 DEF SpawnFails, RecordFailure
<1>7. ASSUME NEW window_over \in BOOLEAN, NEW write_failed \in BOOLEAN,
             NoticeDeath(window_over, write_failed)
      PROVE  QueueInv'
  BY <1>7 DEF NoticeDeath, RecordFailure
<1>8. CASE KillBridge
  BY <1>8 DEF KillBridge, NoProcess
<1>9. CASE BridgeHandles
  <2>1. bridge'.alive = bridge.alive
    BY <1>9, <1>b DEF BridgeHandles, HandleLine, BridgeType
  <2> QED  BY <1>9, <2>1 DEF BridgeHandles
<1>10. CASE BridgeWatchdogTrips
  BY <1>10, <1>b DEF BridgeWatchdogTrips, BridgeType
<1>11. ASSUME NEW clean \in BOOLEAN, BridgeDies(clean) PROVE QueueInv'
  BY <1>11 DEF BridgeDies, NoProcess
<1>12. CASE Advance
  <2>1. bridge'.alive = bridge.alive
    BY <1>12, <1>b DEF Advance, BridgeType
  <2> QED  BY <1>12, <2>1 DEF Advance
<1>13. CASE GoalChanges \/ UNCHANGED vars
  BY <1>13 DEF GoalChanges, vars
<1> QED
  BY <1>2, <1>3, <1>4, <1>5, <1>6, <1>7, <1>8, <1>9, <1>10, <1>11, <1>12, <1>13
     DEF Next, SupervisorNext, BridgeNext

\* What holds of the members of a queue holds of what is left of it.
LEMMA TailKeeps ==
  ASSUME NEW s \in Seq(BridgeCommand), s # <<>>
  PROVE  /\ \A op : None(s, op) => None(Tail(s), op)
         /\ OnlyEstop(s) => OnlyEstop(Tail(s)) /\ Head(s).op = "Estop"
         /\ FinalStopLast(s) => /\ FinalStopLast(Tail(s))
                                /\ Head(s).op = "FinalStop" => OnlyEstop(Tail(s))
<1>1. /\ Len(s) \in Nat \ {0} /\ Len(Tail(s)) = Len(s) - 1 /\ Head(s) = s[1]
      /\ \A i \in 1..Len(Tail(s)) : Tail(s)[i] = s[i + 1] /\ i + 1 \in 1..Len(s)
  OBVIOUS
<1>2. \A op : None(s, op) => None(Tail(s), op)
  BY <1>1 DEF None
<1>3. OnlyEstop(s) => OnlyEstop(Tail(s)) /\ Head(s).op = "Estop"
  BY <1>1 DEF OnlyEstop
<1>4. FinalStopLast(s) => FinalStopLast(Tail(s))
  BY <1>1 DEF FinalStopLast
<1>5. FinalStopLast(s) /\ Head(s).op = "FinalStop" => OnlyEstop(Tail(s))
  BY <1>1 DEF FinalStopLast, OnlyEstop
<1> QED  BY <1>2, <1>3, <1>4, <1>5

\* An empty queue, and one with no final Stop, hold nothing that the invariant bars.
LEMMA EmptyQueue ==
  /\ \A op : None(<<>>, op)
  /\ OnlyEstop(<<>>) /\ FinalStopLast(<<>>)
  /\ \A s : None(s, "FinalStop") => FinalStopLast(s)
  BY DEF None, OnlyEstop, FinalStopLast

\* Reading an event, or emitting another, brings no acknowledgement.
LEMMA AckOnlyFromBridge ==
  ASSUME NEW S, NEW s \in Seq(S), NEW t,
         \/ t \in {s, <<>>}
         \/ s # <<>> /\ t = Tail(s)
         \/ \E event \in {"GaveUp", "ProcessDied"} \cap S : t = Append(s, event)
  PROVE  (\E i \in 1..Len(t) : t[i] = "FinalStopAck") => \E i \in 1..Len(s) : s[i] = "FinalStopAck"
<1>1. CASE s # <<>> /\ t = Tail(s)
  <2>1. \A i \in 1..Len(t) : i + 1 \in 1..Len(s) /\ t[i] = s[i + 1]
    BY <1>1
  <2> QED  BY <2>1
<1>2. ASSUME NEW event \in {"GaveUp", "ProcessDied"} \cap S, t = Append(s, event)
      PROVE  (\E i \in 1..Len(t) : t[i] = "FinalStopAck") => \E i \in 1..Len(s) : s[i] = "FinalStopAck"
  BY <1>2
<1> QED  BY <1>1, <1>2

\* A session that is being served sends no final Stop.
LEMMA ServingSendsNoFinalStop ==
  ASSUME TypeOK, None(cmds, "FinalStop"),
         \/ \E v \in {"Still", "Operator"} : OnCommand(v)
         \/ \E action \in Actions : OnActionTrigger(action)
         \/ \E v \in {"Still", "Autonomy"} : OnTick(v)
  PROVE  None(cmds', "FinalStop")
<1>t. cmds \in Seq(BridgeCommand)
  BY DEF TypeOK
<1>1. ASSUME NEW x, Send(<<x>>), x.op # "FinalStop" PROVE None(cmds', "FinalStop")
  BY <1>t, <1>1 DEF Send, None
<1>2. ASSUME NEW x, NEW y, Send(<<x, y>>), x.op # "FinalStop", y.op # "FinalStop"
      PROVE  None(cmds', "FinalStop")
  BY <1>t, <1>2 DEF Send, None
<1>m. \A legs, arm : Motion(legs, arm).op # "FinalStop"
  BY DEF Motion
<1>p. \A op : Plain(op).op = op
  BY DEF Plain
<1>3. ASSUME NEW v \in {"Still", "Operator"}, OnCommand(v) PROVE None(cmds', "FinalStop")
  <2>1. \/ Send(<<Motion(TeleopLegs(v), settle = 0)>>) \/ Send(<<Plain("Stop")>>) \/ cmds' = cmds
    BY <1>3 DEF OnCommand, TeleopBatch, TeleopLegs
  <2> QED  BY <2>1, <1>1, <1>m, <1>p
<1>4. ASSUME NEW action \in Actions, OnActionTrigger(action) PROVE None(cmds', "FinalStop")
  <2>1. Send(<<Plain("Action")>>) \/ cmds' = cmds
    BY <1>4 DEF OnActionTrigger
  <2> QED  BY <2>1, <1>1, <1>p
<1>5. ASSUME NEW v \in {"Still", "Autonomy"}, OnTick(v) PROVE None(cmds', "FinalStop")
  <2> DEFINE source == TickSource(safety, goal)
  <2>1. Send(TickBatch(source, v))
    BY <1>5 DEF OnTick
  <2>2. \/ Send(<<Plain("EstopClear"), Motion(v, FALSE)>>) \/ Send(<<Motion(v, FALSE)>>)
        \/ Send(<<Plain("Estop")>>) \/ Send(<<Plain("EstopClear")>>) \/ Send(<<Plain("Heartbeat")>>)
    BY <2>1, TickBatchIs
  <2> QED  BY <2>2, <1>1, <1>2, <1>m, <1>p
<1> QED  BY <1>3, <1>4, <1>5

\* Every step keeps the final Stop last, and an acknowledged shutdown quiet.
LEMMA NextShutdownInv == TypeOK /\ QueueInv /\ ShutdownInv /\ [Next]_vars => ShutdownInv'
<1> SUFFICES ASSUME TypeOK, QueueInv, ShutdownInv, [Next]_vars PROVE ShutdownInv'
  OBVIOUS
<1> USE DEF session, process, Ended
<1>t. /\ cmds \in Seq(BridgeCommand) /\ pipe \in Seq(BridgeCommand) /\ bridge \in BridgeType
      /\ events \in Seq({"ProcessDied", "GaveUp", "FinalStopAck"})
      /\ mode \in {"Serving", "Stopping", "Closed", "StopAcked", "StopTimedOut"}
  BY DEF TypeOK
\* While the session is served.
<1>serve. ASSUME mode = "Serving", mode' \in {"Serving", "Closed"}, pipe' = pipe, velocity' = velocity,
                 None(cmds', "FinalStop"),
                 events' \in {events, <<>>} \/ (events # <<>> /\ events' = Tail(events))
          PROVE  ShutdownInv'
  <2>1. \A i \in 1..Len(events') : events'[i] # "FinalStopAck"
    <3>1. (\E i \in 1..Len(events') : events'[i] = "FinalStopAck")
            => \E i \in 1..Len(events) : events[i] = "FinalStopAck"
      BY <1>t, <1>serve, AckOnlyFromBridge
    <3> QED  BY <1>serve, <3>1 DEF ShutdownInv
  <2>2. ~Acked'
    BY <1>serve DEF Acked
  <2> QED  BY <1>serve, <2>1, <2>2, EmptyQueue DEF ShutdownInv
\* Steps that add no acknowledgement and take from queue or pipe at most.
<1>take. ASSUME mode' = mode, velocity' = velocity \/ velocity' = "Still",
                pipe' \in {pipe, <<>>},
                cmds' \in {cmds, <<>>} \/ (cmds # <<>> /\ cmds' = Tail(cmds)),
                Acked' => Acked,
                mode \in {"Serving", "Closed"} => \A i \in 1..Len(events') : events'[i] # "FinalStopAck"
         PROVE  ShutdownInv'
  <2>1. /\ None(pipe, "FinalStop") => None(pipe', "FinalStop")
        /\ None(cmds, "FinalStop") => None(cmds', "FinalStop")
        /\ FinalStopLast(pipe') /\ FinalStopLast(cmds')
        /\ OnlyEstop(pipe) => OnlyEstop(pipe')
        /\ OnlyEstop(cmds) => OnlyEstop(cmds')
    BY <1>t, <1>take, EmptyQueue, TailKeeps DEF ShutdownInv
  <2> QED  BY <1>take, <2>1 DEF ShutdownInv
<1>1. CASE OnHello \/ OnSessionAccept \/ OnHeartbeat \/ OnBridgeEvent \/ ConnectionClosed
  <2>1. /\ mode = "Serving" /\ mode' \in {"Serving", "Closed"}
        /\ pipe' = pipe /\ velocity' = velocity /\ cmds' = cmds
        /\ events' \in {events, <<>>} \/ (events # <<>> /\ events' = Tail(events))
    BY <1>1 DEF OnHello, OnSessionAccept, OnHeartbeat, OnBridgeEvent, ConnectionClosed, FreshSession
  <2> QED  BY <2>1, <1>serve DEF ShutdownInv
<1>2. ASSUME NEW latched \in BOOLEAN, OnEstopDatagram(latched) \/ OnEstopStream(latched)
      PROVE  ShutdownInv'
  BY <1>2, <1>serve DEF OnEstopDatagram, OnEstopStream, ShutdownInv
<1>3. CASE \/ \E v \in {"Still", "Operator"} : OnCommand(v)
           \/ \E action \in Actions : OnActionTrigger(action)
           \/ \E v \in {"Still", "Autonomy"} : OnTick(v)
  <2>1. mode = "Serving" /\ mode' = mode /\ pipe' = pipe /\ velocity' = velocity /\ events' = events
    BY <1>3 DEF OnCommand, OnActionTrigger, OnTick
  <2>2. None(cmds', "FinalStop")
    BY <1>3, <2>1, ServingSendsNoFinalStop DEF ShutdownInv
  <2> QED  BY <2>1, <2>2, <1>serve
<1>4. CASE ShutDown
  <2>1. /\ mode = "Serving" /\ mode' = "Stopping" /\ pipe' = pipe /\ events' = events
        /\ Send(<<Plain("FinalStop"), Plain("Estop")>>)
    BY <1>4 DEF ShutDown
  <2>2. None(cmds, "FinalStop") /\ None(pipe, "FinalStop") /\ ~Acked'
    BY <2>1 DEF ShutdownInv, Acked
  <2>3. Plain("FinalStop").op = "FinalStop" /\ Plain("Estop").op = "Estop"
    BY DEF Plain
  <2>4. FinalStopLast(cmds')
    <3>1. CASE supervisor = "Gone"
      BY <2>1, <2>2, <3>1, EmptyQueue DEF Send
    <3>2. CASE supervisor # "Gone"
      <4>1. cmds' = cmds \o <<Plain("FinalStop"), Plain("Estop")>>
        BY <2>1, <3>2 DEF Send
      <4>2. /\ Len(cmds') = Len(cmds) + 2
            /\ \A i \in 1..Len(cmds) : cmds'[i].op # "FinalStop"
            /\ cmds'[Len(cmds) + 2].op = "Estop"
        BY <1>t, <2>2, <2>3, <4>1 DEF None
      <4> QED  BY <1>t, <4>2 DEF FinalStopLast
    <3> QED  BY <3>1, <3>2
  <2> QED  BY <2>1, <2>2, <2>4 DEF ShutdownInv
<1>5. CASE ShutDownEvent
  <2>1. CASE Head(events) = "FinalStopAck"
    <3>1. Acked
      BY <1>t, <1>5, <2>1 DEF ShutDownEvent, Acked
    <3>2. mode' = "StopAcked" /\ UNCHANGED <<cmds, pipe, velocity>>
      BY <1>5, <2>1 DEF ShutDownEvent
    <3> QED  BY <3>1, <3>2 DEF ShutdownInv
  <2>2. CASE Head(events) # "FinalStopAck"
    <3>1. /\ mode = "Stopping" /\ mode' = mode /\ UNCHANGED <<cmds, pipe, velocity>>
          /\ events # <<>> /\ events' = Tail(events)
      BY <1>5, <2>2 DEF ShutDownEvent
    <3>2. Acked' => Acked
      BY <1>t, <3>1 DEF Acked
    <3> QED  BY <3>1, <3>2, <1>take
  <2> QED  BY <2>1, <2>2
<1>6. CASE ShutDownTimeout
  BY <1>6 DEF ShutDownTimeout, ShutdownInv, Acked
<1>7. CASE NewSession
  <2>1. /\ mode' = "Serving" /\ cmds' = <<>> /\ pipe' = <<>> /\ events' = <<>>
    BY <1>7 DEF NewSession, FreshSession, QueueInv
  <2>2. ~Acked'
    BY <2>1 DEF Acked
  <2> QED  BY <2>1, <2>2, EmptyQueue DEF ShutdownInv
<1>8. CASE Spawn \/ KillBridge \/ BridgeWatchdogTrips \/ GoalChanges \/ Advance \/ UNCHANGED vars
          \/ \E clean \in BOOLEAN : BridgeDies(clean)
  <2>1. /\ mode' = mode /\ events' = events /\ (velocity' = velocity \/ velocity' = "Still")
        /\ pipe' \in {pipe, <<>>} /\ cmds' \in {cmds, <<>>}
    BY <1>8 DEF Spawn, KillBridge, BridgeWatchdogTrips, GoalChanges, Advance, vars, BridgeDies
  <2>2. Acked' => Acked
    BY <2>1 DEF Acked
  <2>3. mode \in {"Serving", "Closed"} => \A i \in 1..Len(events') : events'[i] # "FinalStopAck"
    BY <2>1 DEF ShutdownInv
  <2> QED  BY <2>1, <2>2, <2>3, <1>take
<1>9. ASSUME NEW window_over \in BOOLEAN, NEW write_failed \in BOOLEAN,
             SpawnFails(window_over) \/ NoticeDeath(window_over, write_failed)
      PROVE  ShutdownInv'
  <2>1. /\ mode' = mode /\ velocity' = velocity /\ pipe' = pipe
        /\ cmds' \in {cmds, <<>>} \/ (cmds # <<>> /\ cmds' = Tail(cmds))
        /\ RecordFailure(window_over)
    BY <1>9 DEF SpawnFails, NoticeDeath
  <2>2. events' = events \/ \E event \in {"GaveUp", "ProcessDied"} : events' = Append(events, event)
    BY <2>1 DEF RecordFailure, Emit
  <2>a. (\E i \in 1..Len(events') : events'[i] = "FinalStopAck")
          => \E i \in 1..Len(events) : events[i] = "FinalStopAck"
    <3> DEFINE S == {"ProcessDied", "GaveUp", "FinalStopAck"}
    <3>1. events' = events \/ \E event \in {"GaveUp", "ProcessDied"} \cap S : events' = Append(events, event)
      BY <2>2
    <3>2. events \in Seq(S)
      BY <1>t
    <3> HIDE DEF S
    <3> QED  BY <3>1, <3>2, AckOnlyFromBridge
  <2>3. /\ Acked' => Acked
        /\ mode \in {"Serving", "Closed"} => \A i \in 1..Len(events') : events'[i] # "FinalStopAck"
    BY <2>1, <2>a DEF Acked, ShutdownInv
  <2> QED  BY <2>1, <2>3, <1>take
<1>10. CASE WriteLine
  <2> DEFINE cmd == Head(cmds)
  <2>1. /\ mode' = mode /\ velocity' = velocity /\ events' = events
        /\ cmds # <<>> /\ cmds' = Tail(cmds) /\ pipe' = Append(pipe, cmd)
    BY <1>10 DEF WriteLine
  <2>2. Acked' <=> Acked
    BY <2>1 DEF Acked
  <2>3. cmd \in BridgeCommand /\ cmd = cmds[1] /\ Len(cmds) \in Nat \ {0} /\ Len(pipe) \in Nat
    BY <1>t, <2>1
  <2> HIDE DEF cmd
  <2>4. /\ Len(pipe') = Len(pipe) + 1 /\ pipe'[Len(pipe) + 1] = cmd
        /\ \A i \in 1..Len(pipe) : pipe'[i] = pipe[i]
    BY <1>t, <2>1, <2>3
  <2>5. None(cmds, "FinalStop") => cmd.op # "FinalStop" /\ None(cmds', "FinalStop")
    BY <1>t, <2>1, <2>3, TailKeeps DEF None
  <2>6. None(pipe, "FinalStop") /\ cmd.op # "FinalStop" => None(pipe', "FinalStop")
    BY <2>3, <2>4 DEF None
  <2>7. OnlyEstop(cmds) => cmd.op = "Estop" /\ OnlyEstop(cmds')
    BY <1>t, <2>1, TailKeeps DEF cmd
  <2>8. OnlyEstop(pipe) /\ cmd.op = "Estop" => OnlyEstop(pipe')
    BY <2>3, <2>4 DEF OnlyEstop
  <2>9. /\ FinalStopLast(cmds')
        /\ cmd.op = "FinalStop" => OnlyEstop(cmds')
    BY <1>t, <2>1, TailKeeps DEF cmd, ShutdownInv
  <2>10. FinalStopLast(pipe')
    <3>1. CASE OnlyEstop(cmds)
      BY <2>3, <2>4, <2>7, <3>1 DEF FinalStopLast, ShutdownInv
    <3>2. CASE None(pipe, "FinalStop")
      BY <2>3, <2>4, <3>2 DEF FinalStopLast, None
    <3> QED  BY <3>1, <3>2 DEF ShutdownInv
  <2>11. None(pipe', "FinalStop") \/ OnlyEstop(cmds')
    BY <2>6, <2>7, <2>9 DEF ShutdownInv
  <2> QED  BY <2>1, <2>2, <2>5, <2>6, <2>7, <2>8, <2>9, <2>10, <2>11 DEF ShutdownInv
<1>11. CASE BridgeHandles
  <2> DEFINE cmd == Head(pipe)
  <2>1. /\ mode' = mode /\ cmds' = cmds /\ pipe # <<>> /\ pipe' = Tail(pipe)
        /\ velocity' = VelocityAfter(bridge.estopped, velocity, cmd)
        /\ IF cmd.op = "FinalStop" THEN Emit("FinalStopAck") ELSE events' = events
    BY <1>11 DEF BridgeHandles
  <2>2. cmd = pipe[1] /\ Len(pipe) \in Nat \ {0}
    BY <1>t, <2>1
  <2> HIDE DEF cmd
  <2>3. cmd.op \in {"FinalStop", "Estop"} => velocity' = "Still"
    BY <2>1 DEF VelocityAfter
  <2>4. /\ \A op : None(pipe, op) => None(pipe', op) /\ cmd.op # op
        /\ OnlyEstop(pipe) => OnlyEstop(pipe') /\ cmd.op = "Estop"
        /\ FinalStopLast(pipe') /\ (cmd.op = "FinalStop" => OnlyEstop(pipe'))
    BY <1>t, <2>1, <2>2, TailKeeps DEF cmd, ShutdownInv, None
  <2>5. mode \in {"Serving", "Closed"} => cmd.op # "FinalStop" /\ events' = events
    BY <2>1, <2>4 DEF ShutdownInv
  <2>6. Acked' => Acked \/ cmd.op = "FinalStop"
    BY <2>1 DEF Acked
  <2>7. cmd.op = "FinalStop" => OnlyEstop(cmds)
    BY <2>4 DEF ShutdownInv
  <2> QED  BY <2>1, <2>3, <2>4, <2>5, <2>6, <2>7 DEF ShutdownInv
<1> QED
  BY <1>1, <1>2, <1>3, <1>4, <1>5, <1>6, <1>7, <1>8, <1>9, <1>10, <1>11
     DEF Next, SessionNext, SupervisorNext, BridgeNext

\* shut_down: a shutdown whose final Stop was acknowledged leaves the legs still for
\* good, whatever was queued before it, whichever threads run next, and even if the
\* bridge dies and restarts meanwhile.
THEOREM AckedShutdownStaysStill == Spec => []AckedShutdownIsStill
<1>1. Init => QueueInv /\ ShutdownInv
  BY EmptyQueue DEF Init, QueueInv, ShutdownInv, Acked, NoProcess
<1>2. ShutdownInv => AckedShutdownIsStill
  BY DEF ShutdownInv, AckedShutdownIsStill, Acked
<1> QED  BY <1>1, <1>2, RobotEdgeTypeOK, NextQueueInv, NextShutdownInv, PTL DEF Spec

-----------------------------------------------------------------------------
(* An E-Stop the bridge was told of, among whatever else is under way.     *)

\* The latch and the velocity, and both after one more command.
OutcomeType == [estopped: BOOLEAN, velocity: Velocity]
After(s, cmd) == [estopped |-> LatchAfter(s.estopped, cmd), velocity |-> VelocityAfter(s.estopped, s.velocity, cmd)]

\* One more command keeps the types.
LEMMA AfterType == ASSUME NEW s \in OutcomeType, NEW cmd \in BridgeCommand PROVE After(s, cmd) \in OutcomeType
<1>1. LatchAfter(s.estopped, cmd) \in BOOLEAN
  BY DEF LatchAfter, OutcomeType
<1>2. VelocityAfter(s.estopped, s.velocity, cmd) \in Velocity
  BY DEF VelocityAfter, BridgeCommand, Velocity, Plain, OutcomeType
<1> QED  BY <1>1, <1>2 DEF After, OutcomeType

\* The outcome of a sequence of commands is the last state of the run that handles
\* them one by one: the recursion that defines it has a solution.
LEMMA OutcomeRun ==
  ASSUME NEW e \in BOOLEAN, NEW v \in Velocity, NEW q \in Seq(BridgeCommand)
  PROVE  \E r \in [0..Len(q) -> OutcomeType] :
           /\ r[0] = [estopped |-> e, velocity |-> v]
           /\ \A n \in 1..Len(q) : r[n] = After(r[n - 1], q[n])
           /\ Outcome(e, v, q) = r[Len(q)]
<1> DEFINE s0 == [estopped |-> e, velocity |-> v]
           next == [n \in Nat |-> [s \in OutcomeType |->
                      IF n + 1 \in 1..Len(q) THEN After(s, q[n + 1]) ELSE s]]
           Run(r) == r = [n \in 0..Len(q) |-> IF n = 0 THEN s0 ELSE After(r[n - 1], q[n])]
<1>l. Len(q) \in Nat /\ \A n \in 1..Len(q) : q[n] \in BridgeCommand /\ n - 1 \in Nat /\ n - 1 \in 0..Len(q)
  OBVIOUS
<1>1. s0 \in OutcomeType
  BY DEF OutcomeType
<1>2. ASSUME NEW n \in Nat, NEW s \in OutcomeType 
       PROVE (IF n + 1 \in 1..Len(q) THEN After(s, q[n + 1]) ELSE s) \in OutcomeType
  BY <1>l, AfterType
<1>3. next \in [Nat -> [OutcomeType -> OutcomeType]]
  BY <1>2
<1>4. PICK f \in [Nat -> OutcomeType] : f[0] = s0 /\ \A n \in Nat : f[n + 1] = next[n][f[n]]
  <2> HIDE DEF next, s0
  <2>1. \E f : IsIteration(f, OutcomeType, s0, next)
    BY <1>1, <1>3, IterationExists
  <2> QED  BY <2>1 DEF IsIteration
<1> DEFINE g == [n \in 0..Len(q) |-> f[n]]
<1>5. ASSUME NEW n \in 1..Len(q) PROVE f[n] = After(f[n-1], q[n])
  <2>1. n - 1 \in Nat /\ (n - 1) + 1 = n /\ f[n-1] \in OutcomeType
    BY <1>l, <1>4
  <2> QED  BY <2>1, <1>4
<1>6. Run(g)
  <2> HIDE DEF s0
  <2>1. ASSUME NEW n \in 0..Len(q) PROVE g[n] = IF n = 0 THEN s0 ELSE After(g[n - 1], q[n])
    BY <1>l, <1>4, <1>5
  <2> QED  BY <2>1
<1> HIDE DEF g
<1> DEFINE h == CHOOSE r : Run(r)
<1>7. Run(h)
  <2> HIDE DEF Run
  <2> QED  BY <1>6
<1>8. Outcome(e, v, q) = h[Len(q)]
  BY DEF Outcome, After
<1> HIDE DEF h
<1>9. \A n \in 0..Len(q) : h[n] = IF n = 0 THEN s0 ELSE After(h[n - 1], q[n])
  BY <1>7
<1>10. h[0] = s0 /\ \A n \in 1..Len(q) : h[n] = After(h[n - 1], q[n])
  BY <1>9, <1>l
<1>11. h \in [0..Len(q) -> OutcomeType]
  <2> DEFINE T == {n \in Nat : n \in 0..Len(q) => h[n] \in OutcomeType}
  <2>1. 0 \in T
    BY <1>10, <1>1
  <2>2. ASSUME NEW n \in T PROVE n + 1 \in T
    <3>1. CASE n + 1 \in 0..Len(q)
      <4>1. n + 1 \in 1..Len(q) /\ n \in 0..Len(q) /\ (n + 1) - 1 = n
        BY <1>l, <3>1
      <4>2. h[n] \in OutcomeType /\ h[n + 1] = After(h[n], q[n + 1]) /\ q[n + 1] \in BridgeCommand
        BY <4>1, <1>l, <1>10
      <4> QED  BY <4>2, AfterType
    <3>2. CASE n + 1 \notin 0..Len(q)
      BY <3>2
    <3> QED  BY <3>1, <3>2
  <2>3. T = Nat
    <3>1. T \subseteq Nat
      OBVIOUS
    <3> HIDE DEF T
    <3> QED  BY <2>1, <2>2, <3>1, NatSetInduction
  <2>4. \A n \in 0..Len(q) : h[n] \in OutcomeType
    BY <2>3, <1>l
  <2> QED  BY <2>4, <1>7
<1> QED  BY <1>8, <1>10, <1>11

\* Some Estop of s, or the latch before it, is followed by no EstopClear.
Latches(estopped, s) ==
  \E i \in 0..Len(s) :
    /\ IF i = 0 THEN estopped ELSE s[i].op = "Estop"
    /\ \A j \in (i + 1)..Len(s) : s[j].op # "EstopClear"

\* Then handling all of s ends latched and still, however long s is (by induction on it).
LEMMA LatchesPrevails ==
  ASSUME NEW e \in BOOLEAN, NEW v \in Velocity, NEW q \in Seq(BridgeCommand),
         e => v = "Still", Latches(e, q)
  PROVE  Outcome(e, v, q) = [estopped |-> TRUE, velocity |-> "Still"]
<1>1. PICK r \in [0..Len(q) -> OutcomeType] :
           /\ r[0] = [estopped |-> e, velocity |-> v]
           /\ \A n \in 1..Len(q) : r[n] = After(r[n - 1], q[n])
           /\ Outcome(e, v, q) = r[Len(q)]
  BY OutcomeRun
<1>2. PICK i \in 0..Len(q) :
        /\ IF i = 0 THEN e ELSE q[i].op = "Estop"
        /\ \A j \in (i + 1)..Len(q) : q[j].op # "EstopClear"
  BY DEF Latches
<1> DEFINE T == {n \in Nat : n \in 0..Len(q) => /\ r[n].estopped => r[n].velocity = "Still"
                                                /\ n >= i => r[n].estopped}
<1>l. Len(q) \in Nat /\ i \in Nat /\ i <= Len(q)
  OBVIOUS
<1>3. 0 \in T
  BY <1>l, <1>1, <1>2
<1>4. ASSUME NEW n \in T PROVE n + 1 \in T
  <2> SUFFICES ASSUME n + 1 \in 0..Len(q)
               PROVE  /\ r[n + 1].estopped => r[n + 1].velocity = "Still"
                      /\ n + 1 >= i => r[n + 1].estopped
    OBVIOUS
  <2>1. n + 1 \in 1..Len(q) /\ n \in 0..Len(q) /\ (n + 1) - 1 = n /\ n \in Nat
    BY <1>l
  <2> DEFINE cmd == q[n + 1]
  <2>2. /\ r[n + 1].estopped = LatchAfter(r[n].estopped, cmd)
        /\ r[n + 1].velocity = VelocityAfter(r[n].estopped, r[n].velocity, cmd)
    <3>1. r[n + 1] = After(r[n], cmd)
      BY <1>1, <2>1
    <3> QED  BY <3>1 DEF After
  <2>3. (r[n].estopped => r[n].velocity = "Still") /\ (n >= i => r[n].estopped)
    BY <2>1
  <2>4. r[n + 1].estopped => r[n + 1].velocity = "Still"
    BY <2>2, <2>3 DEF LatchAfter, VelocityAfter
  <2>5. CASE n + 1 = i
    <3>1. cmd.op = "Estop"
      BY <1>2, <2>1, <2>5
    <3>2. r[n + 1].estopped
      BY <2>2, <3>1 DEF LatchAfter
    <3> QED  BY <2>4, <3>2
  <2>6. CASE n >= i
    <3>1. cmd.op # "EstopClear"
      BY <1>l, <1>2, <2>1, <2>6
    <3>2. r[n + 1].estopped
      BY <2>2, <2>3, <2>6, <3>1 DEF LatchAfter
    <3> QED  BY <2>4, <3>2
  <2>7. CASE n + 1 < i
    BY <2>1, <2>4, <2>7, <1>l
  <2> QED  BY <2>1, <2>5, <2>6, <2>7, <1>l
<1>5. T = Nat
  <2>1. T \subseteq Nat
    OBVIOUS
  <2> HIDE DEF T
  <2> QED  BY <1>3, <1>4, <2>1, NatSetInduction
<1>6. r[Len(q)] \in OutcomeType /\ r[Len(q)].estopped /\ r[Len(q)].velocity = "Still"
  BY <1>5, <1>1, <1>l
<1> QED  BY <1>1, <1>6 DEF OutcomeType

\* Once told of an E-Stop, a living bridge will be latched by what is under way.
EstopInv == bridge_estop_active /\ told /\ bridge.alive => Latches(bridge.estopped, pipe \o cmds)

\* How the latch to come survives a command sent, a command handled and the watchdog.
LEMMA LatchesKept ==
  ASSUME NEW e \in BOOLEAN, NEW s \in Seq(BridgeCommand)
  PROVE  /\ \A x \in BridgeCommand : x.op = "Estop" => Latches(e, Append(s, x))
         /\ \A x \in BridgeCommand : Latches(e, s) /\ x.op # "EstopClear" => Latches(e, Append(s, x))
         /\ Latches(e, s) => Latches(TRUE, s)
         /\ s # <<>> /\ Latches(e, s) => Latches(LatchAfter(e, Head(s)), Tail(s))
<1>l. Len(s) \in Nat
  OBVIOUS
<1>1. ASSUME NEW x \in BridgeCommand, x.op = "Estop" PROVE Latches(e, Append(s, x))
  <2>1. Len(Append(s, x)) = Len(s) + 1 /\ Append(s, x)[Len(s) + 1] = x
    OBVIOUS
  <2>2. Len(s) + 1 \in 0..Len(Append(s, x)) /\ Len(s) + 1 # 0
    BY <1>l, <2>1
  <2>3. \A j \in ((Len(s) + 1) + 1)..Len(Append(s, x)) : Append(s, x)[j].op # "EstopClear"
    BY <1>l, <2>1
  <2> QED  BY <1>1, <2>1, <2>2, <2>3 DEF Latches
<1>2. ASSUME NEW x \in BridgeCommand, Latches(e, s), x.op # "EstopClear" PROVE Latches(e, Append(s, x))
  <2>1. PICK i \in 0..Len(s) : /\ IF i = 0 THEN e ELSE s[i].op = "Estop"
                               /\ \A j \in (i + 1)..Len(s) : s[j].op # "EstopClear"
    BY <1>2 DEF Latches
  <2>2. /\ Len(Append(s, x)) = Len(s) + 1 /\ Append(s, x)[Len(s) + 1] = x
        /\ \A j \in 1..Len(s) : Append(s, x)[j] = s[j]
    OBVIOUS
  <2> QED  BY <1>2, <1>l, <2>1, <2>2 DEF Latches
<1>3. Latches(e, s) => Latches(TRUE, s)
  BY DEF Latches
<1>4. ASSUME s # <<>>, Latches(e, s) PROVE Latches(LatchAfter(e, Head(s)), Tail(s))
  <2>1. PICK i \in 0..Len(s) : /\ IF i = 0 THEN e ELSE s[i].op = "Estop"
                               /\ \A j \in (i + 1)..Len(s) : s[j].op # "EstopClear"
    BY <1>4 DEF Latches
  <2>a. \A j \in (i + 1)..Len(s) : s[j].op # "EstopClear"
    BY <2>1
  <2>2. /\ Len(s) > 0 /\ Len(Tail(s)) = Len(s) - 1 /\ Head(s) = s[1]
        /\ \A j \in 1..Len(Tail(s)) : Tail(s)[j] = s[j + 1]
    BY <1>4
  <2>3. CASE i \in {0, 1}
    <3>1. LatchAfter(e, Head(s))
      <4>1. CASE i = 0
        <5>1. e
          BY <2>1, <4>1, Zenon
        <5>2. Head(s).op # "EstopClear"
          BY <1>l, <2>a, <2>2, <4>1
        <5> QED  BY <5>1, <5>2 DEF LatchAfter
      <4>2. CASE i = 1
        <5>1. Head(s).op = "Estop"
          BY <2>1, <2>2, <4>2
        <5> QED  BY <5>1 DEF LatchAfter
      <4> QED  BY <2>3, <4>1, <4>2
    <3>2. ASSUME NEW j \in (0 + 1)..Len(Tail(s)) PROVE Tail(s)[j].op # "EstopClear"
      <4>1. j \in 1..Len(Tail(s)) /\ j + 1 \in (i + 1)..Len(s)
        BY <1>l, <2>2, <2>3
      <4> QED  BY <2>a, <2>2, <4>1
    <3>3. 0 \in 0..Len(Tail(s))
      BY <1>l, <2>2
    <3> QED  BY <3>1, <3>2, <3>3 DEF Latches
  <2>4. CASE i > 1
    <3>1. i - 1 \in 0..Len(Tail(s)) /\ i - 1 # 0 /\ i - 1 \in 1..Len(Tail(s)) /\ (i - 1) + 1 = i
      BY <1>l, <2>2, <2>4
    <3>2. Tail(s)[i - 1].op = "Estop"
      BY <2>1, <2>2, <2>4, <3>1
    <3>3. \A j \in ((i - 1) + 1)..Len(Tail(s)) : Tail(s)[j].op # "EstopClear"
      BY <1>l, <2>1, <2>2, <2>4
    <3> QED  BY <3>1, <3>2, <3>3 DEF Latches
  <2> QED  BY <2>3, <2>4
<1> QED  BY <1>1, <1>2, <1>3, <1>4

\* Every step keeps an E-Stop the bridge was told of prevailing.
LEMMA NextEstopInv == TypeOK /\ QueueInv /\ EstopInv /\ [Next]_vars => EstopInv'
<1> SUFFICES ASSUME TypeOK, QueueInv, EstopInv, [Next]_vars PROVE EstopInv'
  OBVIOUS
<1> SUFFICES ASSUME bridge_estop_active', told', bridge'.alive
             PROVE  Latches(bridge.estopped, pipe \o cmds)'
  BY DEF EstopInv
<1> DEFINE q == pipe \o cmds
<1> USE DEF session, process
<1>t. /\ cmds \in Seq(BridgeCommand) /\ pipe \in Seq(BridgeCommand) /\ bridge \in BridgeType
      /\ q \in Seq(BridgeCommand) /\ bridge.estopped \in BOOLEAN
  BY DEF TypeOK, BridgeType
<1>p. \A op \in {"Action", "Stop", "FinalStop", "Estop", "EstopClear", "Heartbeat"} :
        Plain(op) \in BridgeCommand /\ Plain(op).op = op
  BY DEF BridgeCommand, Plain
\* Steps that leave the bridge, the pipe and what it was told alone, and send nothing.
<1>same. ASSUME UNCHANGED <<bridge_estop_active, told, bridge, pipe, cmds>>
         PROVE  Latches(bridge.estopped, pipe \o cmds)'
  BY <1>same DEF EstopInv
\* One more command, which is not an EstopClear.
<1>send. ASSUME NEW x \in BridgeCommand, x.op # "EstopClear", Send(<<x>>),
                UNCHANGED <<bridge_estop_active, told, bridge, pipe>>
         PROVE  Latches(bridge.estopped, pipe \o cmds)'
  <2>1. supervisor # "Gone"
    BY <1>send DEF QueueInv
  <2>2. pipe' \o cmds' = Append(q, x)
    <3>1. cmds' = cmds \o <<x>>
      BY <1>send, <2>1 DEF Send
    <3> QED  BY <1>t, <1>send, <3>1
  <2>3. Latches(bridge.estopped, q)
    BY <1>send DEF EstopInv
  <2> HIDE DEF q
  <2> QED  BY <1>t, <1>send, <2>2, <2>3, LatchesKept
<1>1. CASE OnHello \/ OnSessionAccept \/ OnHeartbeat \/ OnBridgeEvent \/ GoalChanges \/ UNCHANGED vars
  BY <1>1, <1>same DEF OnHello, OnSessionAccept, OnHeartbeat, OnBridgeEvent, GoalChanges, vars
<1>2. ASSUME NEW latched \in BOOLEAN, OnEstopDatagram(latched) \/ OnEstopStream(latched)
      PROVE  Latches(bridge.estopped, pipe \o cmds)'
  BY <1>2, <1>same DEF OnEstopDatagram, OnEstopStream
<1>3. ASSUME NEW v \in {"Still", "Operator"}, OnCommand(v)
      PROVE  Latches(bridge.estopped, pipe \o cmds)'
  <2> DEFINE m == Motion(TeleopLegs(v), settle = 0)
  <2>1. \/ Send(<<m>>) \/ Send(<<Plain("Stop")>>) \/ cmds' = cmds
    BY <1>3 DEF OnCommand, TeleopBatch, TeleopLegs
  <2>2. UNCHANGED <<bridge_estop_active, told, bridge, pipe>>
    BY <1>3 DEF OnCommand
  <2>3. m \in BridgeCommand /\ m.op # "EstopClear"
    BY DEF Motion, BridgeCommand, TeleopLegs, Velocity
  <2> HIDE DEF m
  <2> QED  BY <2>1, <2>2, <2>3, <1>p, <1>send, <1>same
<1>4. ASSUME NEW action \in Actions, OnActionTrigger(action)
      PROVE  Latches(bridge.estopped, pipe \o cmds)'
  <2>1. Send(<<Plain("Action")>>) \/ cmds' = cmds
    BY <1>4 DEF OnActionTrigger
  <2>2. UNCHANGED <<bridge_estop_active, told, bridge, pipe>>
    BY <1>4 DEF OnActionTrigger
  <2> QED  BY <2>1, <2>2, <1>p, <1>send, <1>same
<1>5. ASSUME NEW v \in {"Still", "Autonomy"}, OnTick(v)
      PROVE  Latches(bridge.estopped, pipe \o cmds)'
  <2>1. /\ TickSource(safety, goal) = "EStop" /\ supervisor = "Running"
        /\ Send(TickBatch("EStop", v)) /\ UNCHANGED <<bridge, pipe>>
    BY <1>5 DEF OnTick
  <2>2. cmds' = cmds \o <<Plain("Estop")>>
    BY <2>1, TickBatchIs DEF Send
  <2>3. pipe' \o cmds' = Append(q, Plain("Estop"))
    BY <1>t, <1>p, <2>1, <2>2
  <2> DEFINE x == Plain("Estop")
  <2>4. x \in BridgeCommand /\ x.op = "Estop"
    BY <1>p
  <2> HIDE DEF q, x
  <2>5. Latches(bridge.estopped, Append(q, x))
    BY <1>t, <2>4, LatchesKept
  <2> QED  BY <2>1, <2>3, <2>5 DEF x
<1>6. CASE ConnectionClosed \/ ShutDownTimeout \/ NewSession \/ Spawn \/ KillBridge
          \/ \E clean \in BOOLEAN : BridgeDies(clean)
  <2>1. bridge_estop_active' = FALSE \/ told' = FALSE \/ bridge' = NoProcess
    BY <1>6, Zenon DEF ConnectionClosed, ShutDownTimeout, NewSession, FreshSession, Spawn, KillBridge,
       BridgeDies
  <2>2. NoProcess.alive = FALSE
    BY DEF NoProcess
  <2> QED  BY <2>1, <2>2, Zenon
<1>7. CASE ShutDown
  <2>1. supervisor # "Gone"
    BY <1>7 DEF ShutDown, QueueInv
  <2>2. /\ cmds' = cmds \o <<Plain("FinalStop"), Plain("Estop")>>
        /\ UNCHANGED <<bridge_estop_active, told, bridge, pipe>>
    BY <1>7, <2>1 DEF ShutDown, Send
  <2> DEFINE q1 == Append(q, Plain("FinalStop"))
  <2>3. q1 \in Seq(BridgeCommand)
    BY <1>t, <1>p
  <2>4. pipe' \o cmds' = Append(q1, Plain("Estop"))
    <3> DEFINE x == Plain("FinalStop")
               y == Plain("Estop")
    <3>1. x \in BridgeCommand /\ y \in BridgeCommand
      BY <1>p
    <3> HIDE DEF x, y
    <3>2. pipe \o (cmds \o <<x, y>>) = Append(Append(pipe \o cmds, x), y)
      <4> DEFINE a == pipe \o (cmds \o <<x, y>>)
                 b == Append(Append(pipe \o cmds, x), y)
      <4>1. <<x, y>> \in Seq(BridgeCommand) /\ Len(<<x, y>>) = 2
        BY <3>1
      <4>2. a \in Seq(BridgeCommand) /\ b \in Seq(BridgeCommand) /\ Len(a) = Len(b)
        BY <1>t, <3>1, <4>1
      <4>3. \A i \in 1..Len(a) : a[i] = b[i]
        BY <1>t, <3>1, <4>1
      <4> HIDE DEF a, b
      <4>4. a = b
        BY <4>2, <4>3
      <4> QED  BY <4>4 DEF a, b
    <3> QED  BY <2>2, <3>2 DEF x, y
  <2> DEFINE x == Plain("Estop")
  <2>5. x \in BridgeCommand /\ x.op = "Estop"
    BY <1>p
  <2> HIDE DEF q1, x
  <2>6. Latches(bridge.estopped, Append(q1, x))
    BY <1>t, <2>3, <2>5, LatchesKept
  <2> QED  BY <2>2, <2>4, <2>6 DEF x
<1>8. CASE ShutDownEvent
  BY <1>8, <1>same DEF ShutDownEvent, FreshSession
<1>9. CASE WriteLine
  <2>1. /\ cmds # <<>> /\ cmds' = Tail(cmds) /\ pipe' = Append(pipe, Head(cmds))
        /\ UNCHANGED <<bridge_estop_active, told, bridge>>
    BY <1>9 DEF WriteLine
  <2>2. pipe' \o cmds' = q
    BY <1>t, <2>1
  <2>3. Latches(bridge.estopped, q)
    BY <2>1 DEF EstopInv
  <2> HIDE DEF q
  <2> QED  BY <2>1, <2>2, <2>3
<1>10. ASSUME NEW window_over \in BOOLEAN, NEW write_failed \in BOOLEAN,
              SpawnFails(window_over) \/ NoticeDeath(window_over, write_failed)
       PROVE  FALSE
  BY <1>10 DEF SpawnFails, NoticeDeath, QueueInv
<1>11. CASE BridgeHandles
  <2>1. /\ bridge' = HandleLine(bridge, Head(pipe)) /\ pipe # <<>> /\ pipe' = Tail(pipe)
        /\ UNCHANGED <<bridge_estop_active, told, cmds>> /\ bridge.alive
    BY <1>11 DEF BridgeHandles
  <2>2. bridge'.estopped = LatchAfter(bridge.estopped, Head(pipe))
    BY <1>t, <2>1, HandleLineFacts
  <2>3. q # <<>> /\ Head(q) = Head(pipe) /\ pipe' \o cmds' = Tail(q)
    BY <1>t, <2>1
  <2>4. Latches(bridge.estopped, q)
    BY <2>1 DEF EstopInv
  <2> HIDE DEF q
  <2> QED  BY <1>t, <2>2, <2>3, <2>4, LatchesKept
<1>12. CASE BridgeWatchdogTrips
  <2>1. /\ UNCHANGED <<bridge_estop_active, told, cmds, pipe>> /\ bridge.alive
        /\ bridge'.estopped = TRUE
    BY <1>12, <1>t DEF BridgeWatchdogTrips, WatchdogTrips, BridgeType
  <2>2. Latches(bridge.estopped, q)
    BY <2>1 DEF EstopInv
  <2> QED  BY <1>t, <2>1, <2>2, LatchesKept
<1>13. CASE Advance
  <2>1. /\ UNCHANGED <<bridge_estop_active, told, cmds, pipe>>
        /\ bridge'.estopped = bridge.estopped /\ bridge'.alive = bridge.alive
    BY <1>13, <1>t DEF Advance, BridgeType
  <2> QED  BY <2>1 DEF EstopInv
<1> QED
  BY <1>1, <1>2, <1>3, <1>4, <1>5, <1>6, <1>7, <1>8, <1>9, <1>10, <1>11, <1>12, <1>13
     DEF Next, SessionNext, SupervisorNext, BridgeNext

\* on_tick's repeated Estop: once a tick has told a living bridge, no command under
\* way and none sent before the next tick undoes it, for queues of every length.
THEOREM EstopAlwaysPrevails == Spec => []EstopPrevails
<1>1. Init => QueueInv /\ EstopInv /\ LatchInv
  BY BridgeWatchdogAssumption
     DEF Init, QueueInv, EstopInv, LatchInv, LatchedBridgeIsStill, NoProcess, BridgeType
<1>2. TypeOK /\ LatchInv /\ EstopInv => EstopPrevails
  <2> SUFFICES ASSUME TypeOK, LatchInv, EstopInv, bridge_estop_active, told, bridge.alive
               PROVE  Outcome(bridge.estopped, velocity, pipe \o cmds)
                        = [estopped |-> TRUE, velocity |-> "Still"]
    BY DEF EstopPrevails
  <2>1. /\ bridge.estopped \in BOOLEAN /\ velocity \in Velocity /\ pipe \o cmds \in Seq(BridgeCommand)
        /\ bridge.estopped => velocity = "Still"
    BY DEF TypeOK, BridgeType, LatchInv, LatchedBridgeIsStill
  <2> QED  BY <2>1, LatchesPrevails DEF EstopInv
<1> QED  BY <1>1, <1>2, RobotEdgeTypeOK, NextQueueInv, NextEstopInv, NextLatchInv, PTL DEF Spec

=============================================================================

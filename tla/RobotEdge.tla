------------------------------ MODULE RobotEdge ------------------------------
(***************************************************************************)
(* robot-edge's control path: the session (quic_server.rs) with its safety *)
(* task, the supervisor of the bridge process (bridge/process.rs), the     *)
(* bridge process (xgo_bridge.py) and the robot's legs.                    *)
(*                                                                         *)
(* The operator and the network are the environment: any well-formed       *)
(* message may arrive at any time.  The actors run concurrently: the       *)
(* session task, the supervisor task, the bridge's main and watchdog       *)
(* threads.  They share the command queue, the stdin pipe and the event    *)
(* queue.  The bridge may die at any moment and loses what its pipe held.  *)
(***************************************************************************)
EXTENDS SafetyCore, XgoBridge

CONSTANTS
  Blackout,      \* --watchdog-ms of robot-edge, in time units
  SettleTime,    \* ACTION_SETTLE_DURATION, in time units
  MaxRestarts,   \* max_restart_attempts
  Actions,       \* the kinds of action the operator can trigger
  Sidecar,       \* whether the Zenoh sidecar runs, so that goals can be asserted
  MaxQueue,      \* bound on the command queue (an unbounded mpsc channel)
  MaxPipe,       \* bound on the lines in the stdin pipe
  MaxEvents      \* bound on the event queue (an unbounded mpsc channel)

ASSUME RobotEdgeAssumption ==
  /\ Blackout \in Nat \ {0} /\ SettleTime \in Nat \ {0}
  /\ Actions \subseteq {"Sit", "Stand", "Other"} /\ Sidecar \in BOOLEAN
  /\ MaxRestarts \in Nat /\ MaxQueue \in Nat /\ MaxPipe \in Nat /\ MaxEvents \in Nat

VARIABLES
  safety,              \* Session.safety
  phase,               \* Session.phase
  sitting,             \* Session.sitting
  settle,              \* time left until action_settle_until, 0 when it is None or past
  bridge_estop_active, \* Session.bridge_estop_active
  mode,                \* "Serving", "Stopping" (in shut_down) or how the session ended
  goal,                \* AutonomyGoal::asserted()
  cmds,                \* cmd_tx/cmd_rx: commands the supervisor has not written yet
  events,              \* event_tx/event_rx: what the session has not read yet
  supervisor,          \* what supervisor_task is doing
  attempts,            \* its restart attempts in the current window
  pipe,                \* lines written to the bridge's stdin, not yet handled
  bridge,              \* the bridge process
  velocity,            \* the velocity the legs were last given
  told                 \* history: a tick sent Estop since this bridge process was spawned

session == <<safety, phase, sitting, settle, bridge_estop_active, mode>>
process == <<supervisor, attempts, pipe, bridge, velocity>>
vars == <<safety, phase, sitting, settle, bridge_estop_active, mode, goal,
          cmds, events, supervisor, attempts, pipe, bridge, velocity, told>>

Ended == {"Closed", "StopAcked", "StopTimedOut"}

\* cmd_tx.send fails, and the result is ignored, once the supervisor has returned.
Send(batch) == cmds' = IF supervisor = "Gone" THEN cmds ELSE cmds \o batch

Room(n) == Len(cmds) + n <= MaxQueue

\* event_tx.send likewise, once the session is over.
Emit(event) ==
  /\ Len(events) < MaxEvents
  /\ events' = IF mode \in Ended THEN events ELSE Append(events, event)

-----------------------------------------------------------------------------
Init ==
  /\ safety = NewSafetyTask("D", Blackout)
  /\ phase = "AwaitingHello"
  /\ sitting = FALSE
  /\ settle = 0
  /\ bridge_estop_active = FALSE
  /\ mode = "Serving"
  /\ goal = FALSE
  /\ cmds = <<>>
  /\ events = <<>>
  /\ supervisor = "Spawning"
  /\ attempts = 0
  /\ pipe = <<>>
  /\ bridge = NoProcess
  /\ velocity = "Still"
  /\ told = FALSE

-----------------------------------------------------------------------------
(* Session: what the operator sends.                                       *)

\* HELLO on stream 0, then SESSION_ACCEPT on stream 1.
OnHello ==
  /\ mode = "Serving" /\ phase = "AwaitingHello"
  /\ phase' = "AwaitingSessionAccept"
  /\ UNCHANGED <<safety, sitting, settle, bridge_estop_active, mode, goal, cmds, events, process, told>>

OnSessionAccept ==
  /\ mode = "Serving" /\ phase = "AwaitingSessionAccept"
  /\ phase' = "Operating"
  /\ UNCHANGED <<safety, sitting, settle, bridge_estop_active, mode, goal, cmds, events, process, told>>

ApplyEstop(s, latched) == IF latched THEN TriggerExplicitEstop(s) ELSE ClearExplicitEstop(s)

\* An E-Stop datagram, in any phase.
OnEstopDatagram(latched) ==
  /\ mode = "Serving"
  /\ safety' = OnChannelBActivity(ApplyEstop(safety, latched))
  /\ UNCHANGED <<phase, sitting, settle, bridge_estop_active, mode, goal, cmds, events, process, told>>

\* The same message on the E-Stop stream.
OnEstopStream(latched) ==
  /\ mode = "Serving"
  /\ safety' = ApplyEstop(safety, latched)
  /\ UNCHANGED <<phase, sitting, settle, bridge_estop_active, mode, goal, cmds, events, process, told>>

\* A heartbeat datagram (an operator that observes).
OnHeartbeat ==
  /\ mode = "Serving" /\ phase = "Operating"
  /\ safety' = OnChannelBActivity(safety)
  /\ UNCHANGED <<phase, sitting, settle, bridge_estop_active, mode, goal, cmds, events, process, told>>

\* Mutant: a zero velocity is sent to a sitting robot.
TeleopBatchStandsUp(v) == <<Motion(IF settle > 0 THEN Withheld ELSE v, settle = 0)>>

\* dispatch_teleop_command under FullTeleoperation: the batch it sends.
TeleopBatch(v) ==
  LET hold_sit == sitting /\ v = "Still" IN
  <<Motion(IF settle > 0 \/ hold_sit THEN Withheld ELSE v, settle = 0)>>

\* A Channel B Command frame asking for velocity v.
OnCommand(v) ==
  LET s == [OnChannelBActivity(safety) EXCEPT !.deadman_held = TRUE, !.command_fresh = TRUE]
      source == TickSource(s, goal) IN
  /\ mode = "Serving" /\ phase = "Operating" /\ Room(1)
  /\ safety' = Tick(s)
  /\ CASE source = "FullTeleoperation" ->
            /\ Send(TeleopBatch(v))
            /\ sitting' = (sitting /\ v = "Still")
       [] source = "SemiAutonomous" ->
            UNCHANGED <<cmds, sitting>>
       [] OTHER ->
            /\ Send(<<Plain("Stop")>>)
            /\ UNCHANGED sitting
  /\ UNCHANGED <<phase, settle, bridge_estop_active, mode, goal, events, process, told>>

\* Mutant: an action is dispatched whatever the arbitrated source.
OnActionTriggerUnarbitrated(action) ==
  /\ mode = "Serving" /\ phase = "Operating" /\ Room(1)
  /\ safety' = Tick(safety)
  /\ Send(<<Plain("Action")>>)
  /\ settle' = IF action \in {"Sit", "Stand"} THEN SettleTime ELSE settle
  /\ sitting' = CASE action = "Sit" -> TRUE [] action = "Stand" -> FALSE [] OTHER -> sitting
  /\ UNCHANGED <<phase, bridge_estop_active, mode, goal, events, process, told>>

\* A new action trigger; trigger_dedup has let it through.
OnActionTrigger(action) ==
  /\ mode = "Serving" /\ phase = "Operating" /\ Room(1)
  /\ safety' = Tick(safety)
  /\ IF TickSource(safety, goal) = "FullTeleoperation"
     THEN /\ Send(<<Plain("Action")>>)
          /\ settle' = IF action \in {"Sit", "Stand"} THEN SettleTime ELSE settle
          /\ sitting' = CASE action = "Sit" -> TRUE
                          [] action = "Stand" -> FALSE
                          [] OTHER -> sitting
     ELSE UNCHANGED <<cmds, settle, sitting>>
  /\ UNCHANGED <<phase, bridge_estop_active, mode, goal, events, process, told>>

-----------------------------------------------------------------------------
(* Session: its own steps.                                                 *)

\* Mutants: Estop sent only on the edge; the clear decided before the source is.
EstopLinesOnEdge(source) ==
  IF source = "EStop" THEN (IF bridge_estop_active THEN <<>> ELSE <<Plain("Estop")>>)
  ELSE IF bridge_estop_active THEN <<Plain("EstopClear")>>
  ELSE <<>>

EstopLinesClearFirst(source) ==
  IF bridge_estop_active THEN <<Plain("EstopClear")>>
  ELSE IF source = "EStop" THEN <<Plain("Estop")>>
  ELSE <<>>

\* What on_tick tells the bridge about the E-Stop.
EstopLines(source) ==
  IF source = "EStop" THEN <<Plain("Estop")>>
  ELSE IF bridge_estop_active THEN <<Plain("EstopClear")>>
  ELSE <<>>

\* The batch on_tick sends.  Any line feeds the bridge's watchdog, so the Heartbeat
\* is only shown when no other line follows it.
TickBatch(source, v) ==
  LET lines == EstopLines(source)
               \o IF source = "SemiAutonomous" THEN <<Motion(v, FALSE)>> ELSE <<>>
  IN  IF lines = <<>> THEN <<Plain("Heartbeat")>> ELSE lines

OnTick(v) ==
  LET source == TickSource(safety, goal) IN
  /\ mode = "Serving" /\ Room(Len(TickBatch(source, v)))
  /\ safety' = Tick(safety)
  /\ Send(TickBatch(source, v))
  /\ bridge_estop_active' = (source = "EStop")
  /\ told' = (source = "EStop" /\ supervisor = "Running")
  /\ UNCHANGED <<phase, sitting, settle, mode, goal, events, process>>

\* Mutant: only a supervisor that has given up is an E-Stop.
OnBridgeEventTolerant ==
  /\ mode = "Serving" /\ events # <<>>
  /\ safety' = IF Head(events) = "GaveUp" THEN TriggerExplicitEstop(safety) ELSE safety
  /\ events' = Tail(events)
  /\ UNCHANGED <<phase, sitting, settle, bridge_estop_active, mode, goal, cmds, process, told>>

\* An event from the supervisor; acknowledgements and telemetry change nothing.
OnBridgeEvent ==
  /\ mode = "Serving" /\ events # <<>>
  /\ safety' = IF Head(events) \in {"ProcessDied", "GaveUp"}
               THEN TriggerExplicitEstop(safety) ELSE safety
  /\ events' = Tail(events)
  /\ UNCHANGED <<phase, sitting, settle, bridge_estop_active, mode, goal, cmds, process, told>>

\* The Session as run() builds it for a new connection; also what is left of a
\* session that has ended and been dropped.
FreshSession ==
  /\ safety' = NewSafetyTask("D", Blackout)
  /\ phase' = "AwaitingHello"
  /\ sitting' = FALSE
  /\ settle' = 0
  /\ bridge_estop_active' = FALSE
  /\ events' = <<>>

\* The QUIC connection is closed: run() returns and the Session is dropped.
ConnectionClosed ==
  /\ mode = "Serving"
  /\ mode' = "Closed"
  /\ FreshSession
  /\ UNCHANGED <<goal, cmds, process, told>>

\* SIGINT or SIGTERM: shut_down sends Stop and Estop, then waits.
ShutDown ==
  /\ mode = "Serving" /\ Room(2)
  /\ Send(<<Plain("FinalStop"), Plain("Estop")>>)
  /\ mode' = "Stopping"
  /\ UNCHANGED <<safety, phase, sitting, settle, bridge_estop_active, goal, events, process, told>>

\* Mutant: any event ends the wait.
ShutDownEventAny ==
  /\ mode = "Stopping" /\ events # <<>>
  /\ mode' = "StopAcked" /\ FreshSession
  /\ UNCHANGED <<goal, cmds, process, told>>

\* One turn of shut_down's wait: the acknowledgement it waits for, or another event.
ShutDownEvent ==
  /\ mode = "Stopping" /\ events # <<>>
  /\ IF Head(events) = "FinalStopAck"
     THEN mode' = "StopAcked" /\ FreshSession
     ELSE mode' = mode /\ events' = Tail(events)
          /\ UNCHANGED <<safety, phase, sitting, settle, bridge_estop_active>>
  /\ UNCHANGED <<goal, cmds, process, told>>

\* SHUTDOWN_STOP_ACK_TIMEOUT passes, or the supervisor is gone.
ShutDownTimeout ==
  /\ mode = "Stopping"
  /\ mode' = "StopTimedOut"
  /\ FreshSession
  /\ UNCHANGED <<goal, cmds, process, told>>

\* The next session, once the previous one's bridge is gone; the legs do not notice.
NewSession ==
  /\ mode \in Ended /\ supervisor = "Gone"
  /\ mode' = "Serving"
  /\ FreshSession
  /\ supervisor' = "Spawning"
  /\ attempts' = 0
  /\ UNCHANGED <<goal, cmds, pipe, bridge, velocity, told>>

\* Autonomy goal samples arrive, or the goal's TTL passes without one.
GoalChanges ==
  /\ Sidecar
  /\ goal' = ~goal
  /\ UNCHANGED <<session, cmds, events, process, told>>

-----------------------------------------------------------------------------
(* Supervisor task.                                                        *)

Spawn ==
  /\ supervisor = "Spawning"
  /\ supervisor' = "Running"
  /\ bridge' = NewBridge
  /\ pipe' = <<>>
  /\ told' = FALSE
  /\ UNCHANGED <<session, goal, cmds, events, attempts, velocity>>

WriteLine ==
  /\ supervisor = "Running" /\ bridge.alive /\ cmds # <<>> /\ Len(pipe) < MaxPipe
  /\ pipe' = Append(pipe, Head(cmds))
  /\ cmds' = Tail(cmds)
  /\ UNCHANGED <<session, goal, events, supervisor, attempts, bridge, velocity, told>>

\* Mutant: one restart too many.
RecordFailureLate(window_over) ==
  LET n == (IF window_over THEN 0 ELSE attempts) + 1 IN
  /\ attempts' = n
  /\ supervisor' = IF n > MaxRestarts + 1 THEN "Gone" ELSE "Spawning"
  /\ Emit(IF n > MaxRestarts + 1 THEN "GaveUp" ELSE "ProcessDied")

\* record_failure_and_maybe_give_up; window_over is window_start.elapsed() > restart_window.
RecordFailure(window_over) ==
  LET n == (IF window_over THEN 0 ELSE attempts) + 1 IN
  /\ attempts' = n
  /\ supervisor' = IF n > MaxRestarts THEN "Gone" ELSE "Spawning"
  /\ Emit(IF n > MaxRestarts THEN "GaveUp" ELSE "ProcessDied")

SpawnFails(window_over) ==
  /\ supervisor = "Spawning"
  /\ RecordFailure(window_over)
  /\ cmds' = IF supervisor' = "Gone" THEN <<>> ELSE cmds
  /\ UNCHANGED <<session, goal, pipe, bridge, velocity, told>>

\* The supervisor learns of the death from stdout's EOF or the exit status, or
\* from a write that fails: then that command is lost as well.
NoticeDeath(window_over, write_failed) ==
  /\ supervisor = "Running" /\ ~bridge.alive
  /\ write_failed => cmds # <<>>
  /\ RecordFailure(window_over)
  /\ cmds' = IF supervisor' = "Gone" THEN <<>>
             ELSE IF write_failed THEN Tail(cmds) ELSE cmds
  /\ UNCHANGED <<session, goal, pipe, bridge, velocity, told>>

\* After the session: cmd_rx yields what is left and then None, and the bridge
\* is killed; when robot-edge exits, kill_on_drop does it without draining.
KillBridge ==
  /\ mode \in Ended /\ supervisor \in {"Running", "Spawning"}
  /\ mode = "Closed" => supervisor = "Running" /\ cmds = <<>>
  /\ supervisor' = "Gone"
  /\ bridge' = NoProcess
  /\ pipe' = <<>>
  /\ cmds' = <<>>
  /\ UNCHANGED <<session, goal, events, attempts, velocity, told>>

-----------------------------------------------------------------------------
(* Bridge process.                                                         *)

\* The main thread handles a line; only the final Stop's answer matters to the session.
BridgeHandles ==
  LET cmd == Head(pipe) IN
  /\ bridge.alive /\ pipe # <<>>
  /\ bridge' = HandleLine(bridge, cmd)
  /\ velocity' = VelocityAfter(bridge.estopped, velocity, cmd)
  /\ pipe' = Tail(pipe)
  /\ IF cmd.op = "FinalStop" THEN Emit("FinalStopAck") ELSE UNCHANGED events
  /\ UNCHANGED <<session, goal, cmds, supervisor, attempts, told>>

BridgeWatchdogTrips ==
  /\ WatchdogTrips(bridge)
  /\ bridge' = [bridge EXCEPT !.estopped = TRUE]
  /\ velocity' = "Still"
  /\ UNCHANGED <<session, goal, cmds, events, supervisor, attempts, pipe, told>>

\* The process dies; on a clean exit main()'s finally clause stops the legs first.
BridgeDies(clean) ==
  /\ bridge.alive
  /\ bridge' = NoProcess
  /\ pipe' = <<>>
  /\ velocity' = IF clean THEN "Still" ELSE velocity
  /\ UNCHANGED <<session, goal, cmds, events, supervisor, attempts, told>>

-----------------------------------------------------------------------------
Advance ==
  /\ safety' = IF mode \in Ended THEN safety ELSE Elapse(safety)
  /\ settle' = IF settle > 0 THEN settle - 1 ELSE 0
  /\ bridge' = [bridge EXCEPT !.silence = IF bridge.alive THEN Older(@, BridgeWatchdog) ELSE @]
  /\ UNCHANGED <<phase, sitting, bridge_estop_active, mode, goal, cmds, events,
                 supervisor, attempts, pipe, velocity, told>>

SessionNext ==
  \/ OnHello
  \/ OnSessionAccept
  \/ \E latched \in BOOLEAN : OnEstopDatagram(latched) \/ OnEstopStream(latched)
  \/ OnHeartbeat
  \/ \E v \in {"Still", "Operator"} : OnCommand(v)
  \/ \E action \in Actions : OnActionTrigger(action)
  \/ \E v \in {"Still", "Autonomy"} : OnTick(v)
  \/ OnBridgeEvent
  \/ ConnectionClosed
  \/ ShutDown
  \/ ShutDownEvent
  \/ ShutDownTimeout
  \/ NewSession

SupervisorNext ==
  \/ Spawn
  \/ WriteLine
  \/ \E window_over \in BOOLEAN : SpawnFails(window_over)
  \/ \E window_over, write_failed \in BOOLEAN : NoticeDeath(window_over, write_failed)
  \/ KillBridge

BridgeNext ==
  \/ BridgeHandles
  \/ BridgeWatchdogTrips
  \/ \E clean \in BOOLEAN : BridgeDies(clean)

Next == SessionNext \/ SupervisorNext \/ BridgeNext \/ GoalChanges \/ Advance

Spec == Init /\ [][Next]_vars

\* The session's ticker, event branch and shutdown timer, the supervisor task and
\* the bridge's threads each run whenever they can; deaths, samples, operator
\* messages and signals owe nothing.  Backoffs end, so a waiting spawn happens.
Fairness ==
  /\ WF_vars(\E v \in {"Still", "Autonomy"} : OnTick(v))
  /\ WF_vars(OnBridgeEvent)
  /\ WF_vars(ShutDownEvent \/ ShutDownTimeout)
  /\ WF_vars(Spawn \/ \E window_over \in BOOLEAN : SpawnFails(window_over))
  /\ WF_vars(\E window_over, write_failed \in BOOLEAN : NoticeDeath(window_over, write_failed))
  /\ WF_vars(WriteLine)
  /\ WF_vars(KillBridge)
  /\ WF_vars(BridgeHandles)
  /\ WF_vars(BridgeWatchdogTrips)
  /\ WF_vars(Advance)

FairSpec == Spec /\ Fairness

-----------------------------------------------------------------------------
(* Properties.                                                             *)

\* Every variable keeps its type, and restart attempts stop one past the limit.
TypeOK ==
  /\ safety \in SafetyTaskType
  /\ phase \in {"AwaitingHello", "AwaitingSessionAccept", "Operating"}
  /\ sitting \in BOOLEAN /\ bridge_estop_active \in BOOLEAN
  /\ settle \in 0..SettleTime
  /\ mode \in {"Serving", "Stopping"} \cup Ended
  /\ goal \in BOOLEAN /\ told \in BOOLEAN
  /\ cmds \in Seq(BridgeCommand) /\ pipe \in Seq(BridgeCommand)
  /\ events \in Seq({"ProcessDied", "GaveUp", "FinalStopAck"})
  /\ supervisor \in {"Spawning", "Running", "Gone"}
  /\ attempts \in 0..(MaxRestarts + 1)
  /\ bridge \in BridgeType
  /\ velocity \in Velocity

\* Once a tick has told a living bridge of an E-Stop, whatever else is queued or
\* in the pipe, handling it all leaves the bridge latched and the legs still: no
\* command already under way, and none sent before the next tick, undoes it.
EstopPrevails ==
  bridge_estop_active /\ told /\ bridge.alive
    => Outcome(bridge.estopped, velocity, pipe \o cmds)
         = [estopped |-> TRUE, velocity |-> "Still"]

\* handle_line and the watchdog thread: a latched bridge never moves the legs.
LatchedBridgeIsStill == bridge.alive /\ bridge.estopped => velocity = "Still"

\* The command a step has just sent, if any.
Sends(cmd) == Len(cmds') > Len(cmds) /\ Last(cmds') = cmd

\* No handler sends a motion or an action while the session is E-Stopped, not
\* even the one whose own watchdog check has just tripped.
NothingMovesUnderEstop ==
  [][\A cmd \in BridgeCommand :
       /\ Sends(cmd)
       /\ cmd.op = "Action" \/ cmd.legs \in {"Operator", "Autonomy"}
       => ~IsEstopped(safety')]_vars

\* While a sit or stand gait settles no leg or arm command is sent, and a sitting
\* robot is never sent the zero velocity that would stand it up, whoever is in
\* control by then (ACTION_SETTLE_DURATION, Session::sitting).
GaitUndisturbed ==
  [][\A cmd \in BridgeCommand :
       Sends(cmd) /\ cmd.op = "Motion"
       => /\ settle > 0 => cmd.legs = Withheld /\ ~cmd.arm
          /\ sitting => cmd.legs # "Still"]_vars

\* A shutdown that saw its Stop acknowledged leaves the legs still, for good.
AckedShutdownIsStill == mode = "StopAcked" => velocity = "Still"

\* Unless bridges keep dying for ever, a session that stays E-Stopped stops legs
\* that a living supervisor can still reach, through crashes and restarts.
EstopStopsTheLegs ==
  \/ []<>(~bridge.alive)
  \/ IsEstopped(safety) ~>
       (velocity = "Still" \/ ~IsEstopped(safety) \/ mode # "Serving")

\* A bridge death during a session always reaches it as an E-Stop.
DeathForcesEstop ==
  (supervisor = "Running" /\ ~bridge.alive) ~> (IsEstopped(safety) \/ mode # "Serving")

\* AutonomyGoal::velocity(), on_tick: a tick that finds the goal expired, the legs
\* still at the goal's velocity and nothing else under way sends what stops them.
StaleGoalStopsDriving ==
  [][(\E v \in {"Still", "Autonomy"} : OnTick(v)) /\ velocity = "Autonomy" /\ ~goal
     /\ bridge.alive /\ pipe \o cmds = <<>>
       => Outcome(bridge.estopped, velocity, cmds').velocity = "Still"]_vars

\* SHUTDOWN_STOP_ACK_TIMEOUT's comment, applied to a session whose connection was
\* closed: the legs are still whenever robot-edge kills the bridge after a session.
StillBeforeKill == [][mode = "Closed" /\ KillBridge => velocity = "Still"]_vars
=============================================================================

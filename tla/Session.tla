------------------------------- MODULE Session -------------------------------
(***************************************************************************)
(* One console and one robot through whole sessions: connecting with and   *)
(* without a resumption ticket, the handshake, reconnecting after outages, *)
(* crashes and restarts, the operator's hands (OperatorInput), commands    *)
(* and telemetry as they travel (ChannelB), action triggers, the camera    *)
(* controls down to the capture process, and the recorder of one end       *)
(* (Recording).                                                            *)
(*                                                                         *)
(* quiche is external: a connection is what each end knows of it, and the  *)
(* robot serves one at a time.  TeleopLink has what is left out here: the  *)
(* E-Stop, the move timeout, reordered datagrams.                          *)
(***************************************************************************)
EXTENDS Handshake, OperatorInput, Recording

CONSTANTS
  Workloads,      \* what a behaviour may meet: builds, inputs, and a budget of each fault
  MaxAttempts     \* max_restart_attempts of the capture

\* What a workload bounds: faults, and what the operator and the robot come up with.
Faults == {"outages", "crashes", "shutdowns", "strays", "cancels", "swaps", "keys", "pad", "ticks", "reports",
           "losses", "exits", "stepbacks", "refreshes", "hellos", "restarts"}

\* A stick's axes go from -1 to 1; a report has the battery in one byte and any number of angles.
ASSUME SessionAssumption ==
  /\ MaxAttempts \in Nat
  /\ \A w \in Workloads :
       /\ w.budget \in [Faults -> Nat]
       /\ w.keys \subseteq DOMAIN KeyInput
       /\ w.sticks \subseteq (-1000..1000) \X (-1000..1000)
       /\ w.telemetry \subseteq [battery : 0..255, angles : Seq(Int)]

\* A version has its major number in one byte; the sensors of one robot have different ids.
ASSUME BuildAssumption ==
  \A w \in Workloads :
    /\ w.build.robot_major \in 0..255
    /\ w.build.sensors \in Seq(SensorDescriptors \ {Absent})
    /\ \A i, j \in 1..Len(w.build.sensors) : w.build.sensors[i].sensor_id = w.build.sensors[j].sensor_id => i = j

VARIABLES
  work,     \* the workload, chosen once
  left,     \* how often each fault and input may still happen
  console,  \* the console's Client and its session cache
  robot,    \* the robot process and its Session
  up,       \* what the console has sent on its streams and the robot has not read
  down,     \* HELLO and SESSION_DESCRIBE on their way to the console
  dgram,    \* a datagram in flight, and history: what its sender meant
  link,     \* the network is up
  camera,   \* the session's capture_task and its watch channel
  pad,      \* the gamepad thread's PadState
  inputs    \* the gamepad's channel

netVars == <<up, down, dgram, link>>
handVars == <<pad, inputs>>
vars == <<work, left, console, robot, netVars, camera, handVars, recVars>>

Spend(fault) == left[fault] > 0 /\ left' = [left EXCEPT ![fault] = @ - 1]

NoneUp == [hello |-> 0, accept |-> Absent, trigger |-> <<>>, camera |-> <<>>]
NoneDown == [hello |-> Absent, describe |-> Absent]

ConsoleHello == LocalHello(1, "D", work.build.console_forwards)
RobotHello == LocalHello(work.build.robot_major, work.build.task_class, work.build.robot_forwards)
Cameras == IF work.build.camera THEN <<XgoCamera>> ELSE <<>>

-----------------------------------------------------------------------------
(* The ends, and starting anew.                                            *)

NewClient ==
  [mode |-> "Connecting", startup |-> TRUE, est |-> FALSE, phase |-> "AwaitingHello", ticket |-> "None",
   info |-> Absent, negotiated |-> Absent, profiles |-> {}, trigger_seq |-> 0, camera_seq |-> 0,
   level |-> 0, sent_level |-> Absent, held |-> NeutralCommand, telemetry |-> Absent]

\* The console has a new connection but goes on with the old one's phase.
ReconnectedInPhase(c) ==
  [c EXCEPT !.mode = "Open", !.startup = FALSE, !.est = FALSE, !.info = Absent, !.negotiated = Absent, !.sent_level = Absent]
\* reconnect_until_success_or_quit once it has a connection, and run at start-up.  The camera
\* controls and the sequence numbers carry over.
Reconnected(c) ==
  [c EXCEPT !.mode = "Open", !.startup = FALSE, !.est = FALSE, !.phase = "AwaitingHello", !.info = Absent,
            !.negotiated = Absent, !.sent_level = Absent]

\* What run builds for a connection it accepts.
NewSession(serving) ==
  [running |-> TRUE, serving |-> serving, phase |-> "AwaitingHello", hello_sent |-> FALSE, negotiated |-> Absent,
   selected |-> {}, trigger_seq |-> Absent, camera_seq |-> Absent, missed |-> FALSE, cmd |-> Absent, telemetry |-> Absent]

NoCapture == [at |-> "None", controls |-> 0, watch |-> 0, seen |-> TRUE, attempts |-> 0]
\* spawn_capture, with CameraControls::default().
NewCapture == IF work.build.camera THEN [NoCapture EXCEPT !.at = "Read"] ELSE NoCapture

\* recorder_config of either main.rs: the console's usual categories wait for its 'r' key.
StartsActive(host, category) == host = "robot" \/ category = "ActionTriggerC"

Init ==
  /\ work \in Workloads
  /\ left = work.budget
  /\ console = NewClient
  /\ robot = NewSession("None")
  /\ up = NoneUp /\ down = NoneDown /\ dgram = Absent /\ link = TRUE
  /\ camera = NoCapture
  /\ pad = NewPad /\ inputs = <<>>
  /\ RecordingInit(work.category, StartsActive(work.host, work.category))

\* The robot serves the console's present connection.
Served == robot.serving = "Current" /\ robot.running
Live == Served /\ link /\ console.mode = "Open" /\ console.est

\* Whatever was on the way belongs to a connection that is gone.
FreshNet == up' = NoneUp /\ down' = NoneDown /\ dgram' = Absent /\ UNCHANGED link
Abandoned == IF robot.serving = "Current" THEN [robot EXCEPT !.serving = "Stale"] ELSE robot

-----------------------------------------------------------------------------
(* Connecting.                                                             *)

\* connect_with_resume_fallback: with no ticket the connection is handed over at once, not
\* established yet; with one it waits in its own loop first.
Connect ==
  /\ console.mode = "Connecting"
  /\ IF console.ticket = "None"
     THEN console' = Reconnected(console) /\ FreshNet /\ robot' = Abandoned
     ELSE console' = [console EXCEPT !.mode = "Resuming", !.est = FALSE] /\ FreshNet /\ robot' = Abandoned
  /\ UNCHANGED <<work, left, camera, handVars, recVars>>

\* The resumed handshake completes; a ticket of an older robot process may still allow a full one.
\* after_recv is called once by hand, and sends HELLO.
ResumeEstablishes ==
  /\ console.mode = "Resuming" /\ Served /\ link
  /\ console' = [Reconnected(console) EXCEPT !.est = TRUE]
  /\ up' = [up EXCEPT !.hello = 1]
  /\ UNCHANGED <<work, left, robot, down, dgram, link, camera, handVars, recVars>>

\* RESUME_ESTABLISH_TIMEOUT, or the attempt closed: evict_ticket, and a fresh connection.
ResumeFails ==
  /\ console.mode = "Resuming"
  /\ console' = [Reconnected(console) EXCEPT !.ticket = "None"]
  /\ robot' = Abandoned /\ FreshNet
  /\ UNCHANGED <<work, left, camera, handVars, recVars>>

\* A key or a gamepad refresh during an attempt drops it, and the loop starts another.
CancelAttempt ==
  /\ console.mode = "Resuming" /\ ~console.startup
  /\ Spend("cancels")
  /\ console' = [console EXCEPT !.mode = "Connecting"]
  /\ robot' = Abandoned /\ FreshNet
  /\ UNCHANGED <<work, camera, handVars, recVars>>

\* The handshake completes in Client::run, whose after_recv sends HELLO ...
Establish ==
  /\ console.mode = "Open" /\ ~console.est /\ Served /\ link
  /\ console' = [console EXCEPT !.est = TRUE]
  /\ up' = IF console.phase = "AwaitingHello" THEN [up EXCEPT !.hello = 1] ELSE up
  /\ UNCHANGED <<work, left, robot, down, dgram, link, camera, handVars, recVars>>

\* ... and again with every packet, until it has the robot's.
HelloAgain ==
  /\ Live /\ console.phase = "AwaitingHello" /\ Spend("hellos")
  /\ up' = [up EXCEPT !.hello = @ + 1]
  /\ UNCHANGED <<work, console, robot, down, dgram, link, camera, handVars, recVars>>

\* after_recv keeps the ticket the robot has sent.
SaveTicket ==
  /\ Live /\ console.ticket # "Good"
  /\ console' = [console EXCEPT !.ticket = "Good"]
  /\ UNCHANGED <<work, left, robot, netVars, camera, handVars, recVars>>

\* The idle timeout, the receive watchdog or the robot's close: the console starts to reconnect.
ConsoleTimesOut ==
  /\ console.mode = "Open" /\ (~Served \/ ~link)
  /\ console' = [console EXCEPT !.mode = "Connecting"]
  /\ UNCHANGED <<work, left, robot, netVars, camera, handVars, recVars>>

StartsSession(serving) ==
  /\ robot' = NewSession(serving) /\ camera' = NewCapture

\* The first packet of the console's connection reaches a robot that waits for one.
RobotAccept ==
  /\ robot.running /\ robot.serving = "None" /\ link
  /\ console.mode \in {"Resuming", "Open"} /\ ~console.est
  /\ StartsSession("Current") /\ FreshNet
  /\ UNCHANGED <<work, left, console, handVars, recVars>>

\* Any packet with a readable header starts a session: those of a connection the robot has already
\* given up, or a late one.  Bogus: no first packet has been understood yet.
RobotAcceptStray ==
  /\ robot.running /\ robot.serving = "None" /\ link
  /\ \/ console.mode = "Open" /\ console.est /\ StartsSession("Bogus") /\ UNCHANGED left
     \/ Spend("strays") /\ StartsSession("Stale")
  /\ UNCHANGED <<work, console, netVars, handVars, recVars>>

\* Such a session takes the next first packet for its own.
RobotAdopts ==
  /\ robot.running /\ robot.serving = "Bogus" /\ link
  /\ console.mode \in {"Resuming", "Open"} /\ ~console.est
  /\ robot' = [robot EXCEPT !.serving = "Current"]
  /\ UNCHANGED <<work, left, console, netVars, camera, handVars, recVars>>

\* The robot's idle timeout, and back to waiting for a first packet.
RobotSessionEnds ==
  /\ robot.serving = "Stale" \/ (robot.serving = "Current" /\ ~link)
  /\ robot' = NewSession("None") /\ camera' = NoCapture
  /\ UNCHANGED <<work, left, console, netVars, handVars, recVars>>

LinkDown ==
  /\ link /\ Spend("outages")
  /\ link' = FALSE
  /\ UNCHANGED <<work, console, robot, up, down, dgram, camera, handVars, recVars>>

LinkUp ==
  /\ ~link /\ link' = TRUE
  /\ UNCHANGED <<work, left, console, robot, up, down, dgram, camera, handVars, recVars>>

\* The process ends; its tickets' key went with it.  A crash, or a signal: then the session closes the
\* connection and the recorder is dropped.
RobotStops ==
  /\ robot.running
  /\ robot' = [NewSession("None") EXCEPT !.running = FALSE] /\ camera' = NoCapture
  /\ console' = [console EXCEPT !.ticket = IF @ = "Good" THEN "Stale" ELSE @]
  /\ \/ Spend("crashes") /\ IF work.host = "robot" THEN CrashRecorder ELSE UNCHANGED recVars
     \/ Spend("shutdowns") /\ IF work.host = "robot" THEN DropRecorder ELSE UNCHANGED recVars
  /\ UNCHANGED <<work, netVars, handVars>>

RobotStarts ==
  /\ ~robot.running /\ Spend("restarts")
  /\ robot' = NewSession("None")
  /\ IF work.host = "robot" THEN RestartRecorder ELSE UNCHANGED recVars
  /\ UNCHANGED <<work, console, netVars, camera, handVars>>

-----------------------------------------------------------------------------
(* The handshake.                                                          *)

\* after_recv: HELLO goes out once; a read of stream 0 returns what has come, and only the first
\* HELLO in it is decoded.  Then SESSION_DESCRIBE, or the connection is closed.
RobotReadsHello ==
  /\ Live /\ up.hello > 0
  /\ \E n \in 1..up.hello : up' = [up EXCEPT !.hello = @ - n]
  /\ LET negotiated == Negotiate(RobotHello, DecodeHello(EncodeHello(ConsoleHello)))
         describe == EncodeDescribe("xgo", XgoProfile, Cameras, work.build.sensors)
     IN  IF robot.phase # "AwaitingHello" THEN UNCHANGED <<robot, down>>
         ELSE IF negotiated = Absent THEN robot' = [robot EXCEPT !.serving = "Stale"] /\ UNCHANGED down
         ELSE /\ robot' = [robot EXCEPT !.phase = "AwaitingSessionAccept", !.hello_sent = TRUE, !.negotiated = negotiated]
              /\ down' = [hello |-> EncodeHello(RobotHello), describe |-> describe]
  /\ UNCHANGED <<work, left, console, dgram, link, camera, handVars, recVars>>

ConsoleReadsHello ==
  /\ Live /\ down.hello # Absent
  /\ down' = [down EXCEPT !.hello = Absent]
  /\ console' = [console EXCEPT !.phase = "AwaitingSessionDescribe",
                                !.negotiated = Negotiate(ConsoleHello, DecodeHello(down.hello))]
  /\ UNCHANGED <<work, left, robot, up, dgram, link, camera, handVars, recVars>>

\* on_stream_data of stream 1: SESSION_ACCEPT goes back and the console operates.  A description that
\* is whole before HELLO has been read falls through to "unhandled" and is gone.
ConsoleReadsDescribe ==
  /\ Live /\ down.describe # Absent
  /\ down' = [down EXCEPT !.describe = Absent]
  /\ \/ /\ console.phase = "AwaitingSessionDescribe"
        /\ LET info == DecodeDescribe(down.describe)
           IN  /\ up' = [up EXCEPT !.accept = EncodeAccept(info, ProfileSeen(console.profiles, info))]
               /\ console' = [console EXCEPT !.phase = "Operating", !.info = info,
                                             !.profiles = RecordProfile(@, info)]
        /\ UNCHANGED left
     \/ /\ console.phase = "AwaitingHello" /\ Spend("swaps")
        /\ UNCHANGED <<console, up>>
  /\ UNCHANGED <<work, robot, dgram, link, camera, handVars, recVars>>

RobotReadsAccept ==
  /\ Live /\ up.accept # Absent
  /\ up' = [up EXCEPT !.accept = Absent]
  /\ robot' = [robot EXCEPT !.phase = "Operating", !.selected = ToSet(DecodeAccept(up.accept).selected_sensors)]
  /\ UNCHANGED <<work, left, console, down, dgram, link, camera, handVars, recVars>>

-----------------------------------------------------------------------------
(* The operator.                                                           *)

Record(end, category, payload, acted) ==
  IF end = work.host THEN Enqueue(category, payload, acted) ELSE UNCHANGED recVars

\* stream_send, over a connection the robot may have given up.
SendUp(stream, message) == up' = IF Served THEN [up EXCEPT ![stream] = Append(@, message)] ELSE up

TriggerMessage(action, seq) == [type |-> "ActionTrigger", action |-> action, seq |-> seq]
CameraMessage(level, seq) == [type |-> "CameraControl", level |-> level, seq |-> seq]

\* send_action_trigger: only in a session; the held velocity goes first.
SendActionTrigger(action) ==
  IF console.phase # "Operating" THEN UNCHANGED <<console, up, recVars>>
  ELSE LET message == TriggerMessage(action, console.trigger_seq + 1)
       IN  /\ console' = [console EXCEPT !.held = Stilled(@), !.trigger_seq = @ + 1]
           /\ Record("console", "ActionTriggerC", <<message>>, <<"action_trigger", action, message.seq>>)
           /\ SendUp("trigger", message)

\* send_camera_control, after the held level has changed; only in a session too.
SendCameraControl(level) ==
  IF console.phase # "Operating" THEN console' = [console EXCEPT !.level = level] /\ UNCHANGED <<up, recVars>>
  ELSE LET message == CameraMessage(level, console.camera_seq + 1)
       IN  /\ console' = [console EXCEPT !.level = level, !.sent_level = level, !.camera_seq = @ + 1]
           /\ Record("console", "ActionTriggerC", <<message>>, <<"camera_control", level, message.seq>>)
           /\ SendUp("camera", message)

\* on_input.  The E-Stop inputs and screenshots are not this module's.
OnInput(input) ==
  CASE input.kind = "Action" -> SendActionTrigger(input.x)
    [] input.kind \in {"Camera", "CameraReset"} -> SendCameraControl(LevelAfter(console.level, input))
    [] input.kind = "ToggleRecording" ->
         /\ IF work.host = "console" /\ rec.category # "ActionTriggerC" THEN SetActive ELSE UNCHANGED recVars
         /\ UNCHANGED <<console, up>>
    [] OTHER -> console' = [console EXCEPT !.held = HeldAfter(@, input)] /\ UNCHANGED <<up, recVars>>

\* A key reaches Client::run.
PressKey ==
  /\ console.mode = "Open" /\ Spend("keys")
  /\ \E key \in work.keys : OnInput(KeyInput[key])
  /\ UNCHANGED <<work, robot, down, dgram, link, camera, handVars>>

\* The gamepad thread: a button or a stick moves, or it is time to refresh.
PadEvent ==
  /\ Spend("pad")
  /\ \/ \E button \in work.buttons \ pad.held :
          pad' = Pressed(pad, button) /\ inputs' = inputs \o PressSends(pad, button)
     \/ \E button \in pad.held : pad' = Released(pad, button) /\ UNCHANGED inputs
     \/ \E left_stick, right_stick \in work.sticks :
          pad' = [pad EXCEPT !.left = left_stick, !.right = right_stick] /\ UNCHANGED inputs
  /\ UNCHANGED <<work, console, robot, netVars, camera, recVars>>

PadRefresh ==
  /\ inputs = <<>> /\ RefreshSends(pad) # <<>> /\ Spend("refreshes")
  /\ inputs' = RefreshSends(pad)
  /\ UNCHANGED <<work, console, robot, netVars, camera, pad, recVars>>

\* The console takes an input of the channel; while it reconnects it only drains it.
TakeInput ==
  /\ inputs # <<>> /\ inputs' = Tail(inputs)
  /\ IF console.mode = "Open" THEN OnInput(Head(inputs)) ELSE UNCHANGED <<console, up, recVars>>
  /\ UNCHANGED <<work, left, robot, down, dgram, link, camera, pad>>

\* A read of an operator's stream: n messages as one piece of data, of which the first is decoded.
\* Outside Operating it is not looked at.
ReadUp(stream, n) == SubSeq(up[stream], 1, n)

Newer(seq, last) == last = Absent \/ seq > last

RobotReadsTrigger ==
  /\ Live
  /\ \E n \in 1..Len(up.trigger) :
       LET data == ReadUp("trigger", n)
           first == Head(data)
       IN  /\ up' = [up EXCEPT !.trigger = SubSeq(@, n + 1, Len(@))]
           /\ IF robot.phase # "Operating" THEN UNCHANGED <<robot, recVars>>
              ELSE /\ Record("robot", "ActionTriggerC", data, <<"action_trigger", first.action, first.seq>>)
                   /\ robot' = [robot EXCEPT !.trigger_seq = IF Newer(first.seq, @) THEN first.seq ELSE @]
  /\ UNCHANGED <<work, left, console, down, dgram, link, camera, handVars>>

\* on_camera_control: dedup, clamp, and the watch channel to the capture.
RobotReadsCamera ==
  /\ Live
  /\ \E n \in 1..Len(up.camera) :
       LET data == ReadUp("camera", n)
           first == Head(data)
           applied == robot.phase = "Operating" /\ Newer(first.seq, robot.camera_seq)
       IN  /\ up' = [up EXCEPT !.camera = SubSeq(@, n + 1, Len(@))]
           /\ robot' = [robot EXCEPT !.camera_seq = IF applied THEN first.seq ELSE @, !.missed = ~applied \/ n > 1]
           /\ camera' = IF applied /\ work.build.camera
                        THEN [camera EXCEPT !.watch = Bounded(first.level, -1000, 1000), !.seen = FALSE] ELSE camera
           /\ IF robot.phase = "Operating"
              THEN Record("robot", "ActionTriggerC", data, <<"camera_control", first.level, first.seq>>)
              ELSE UNCHANGED recVars
  /\ UNCHANGED <<work, left, console, down, dgram, link, handVars>>

-----------------------------------------------------------------------------
(* capture_task.                                                           *)

\* borrow_and_update.
CameraRead ==
  /\ camera.at = "Read"
  /\ camera' = [camera EXCEPT !.at = "Spawn", !.controls = camera.watch, !.seen = TRUE]
  /\ UNCHANGED <<work, left, console, robot, netVars, handVars, recVars>>

\* The new process counts as the latest controls, whatever came since they were read.
SpawnedAsSeen(c) == [c EXCEPT !.at = "Running", !.seen = TRUE]
Spawned(c) == [c EXCEPT !.at = "Running"]

CameraSpawn ==
  /\ camera.at = "Spawn"
  /\ camera' = Spawned(camera)
  /\ UNCHANGED <<work, left, console, robot, netVars, handVars, recVars>>

\* changed(): kill and start again at once.
CameraChanged ==
  /\ camera.at = "Running" /\ ~camera.seen
  /\ camera' = [camera EXCEPT !.at = "Read"]
  /\ UNCHANGED <<work, left, console, robot, netVars, handVars, recVars>>

\* libcamera-vid cannot be started or exits: backoff_or_give_up; aged stands for a restart_window passed.
CameraFails ==
  /\ camera.at \in {"Spawn", "Running"} /\ Spend("exits")
  /\ \E aged \in BOOLEAN :
       LET attempts == (IF aged THEN 0 ELSE camera.attempts) + 1
       IN  camera' = [camera EXCEPT !.attempts = attempts, !.at = IF attempts > MaxAttempts THEN "GaveUp" ELSE "Read"]
  /\ UNCHANGED <<work, console, robot, netVars, handVars, recVars>>

-----------------------------------------------------------------------------
(* Commands and telemetry.                                                 *)

DgramSend(to, datagram, meant) ==
  dgram' = IF Live THEN [to |-> to, datagram |-> datagram, meant |-> meant] ELSE dgram

ArmOf(c) == <<c.arm_x, c.arm_z, c.claw>>

\* on_tick of the console: the auto-zero may be due, and the held command goes out.
SendCommand ==
  /\ console.mode = "Open" /\ console.phase = "Operating" /\ dgram = Absent /\ Spend("ticks")
  /\ \E held \in {console.held, Stilled(console.held)} :
       LET frame == EncodeFrame("Command", PackCommand(held))
       IN  /\ console' = [console EXCEPT !.held = held]
           /\ Record("console", "ChannelBCommand", frame, ArmOf(held))
           /\ DgramSend("robot", Tag(frame), held)
  /\ UNCHANGED <<work, robot, up, down, link, camera, handVars>>

\* on_datagram of the robot: no phase is asked for.
RobotReceivesCommand ==
  /\ Live /\ dgram # Absent /\ dgram.to = "robot"
  /\ dgram' = Absent
  /\ LET got == CommandIn(dgram.datagram)
     IN  IF got = Absent THEN UNCHANGED <<robot, recVars>>
         ELSE /\ robot' = [robot EXCEPT !.cmd = [got |-> got, meant |-> dgram.meant]]
              /\ Record("robot", "ChannelBCommand", dgram.datagram.payload, ArmOf(got))
  /\ UNCHANGED <<work, left, console, up, down, link, camera, handVars>>

\* on_bridge_event: a telemetry report of the body.
BridgeReports ==
  /\ robot.serving # "None" /\ Spend("reports")
  /\ \E t \in work.telemetry : robot' = [robot EXCEPT !.telemetry = t]
  /\ UNCHANGED <<work, console, netVars, camera, handVars, recVars>>

\* send_telemetry: the latest report, or an empty frame.
SendTelemetry ==
  /\ robot.serving # "None" /\ robot.phase = "Operating" /\ dgram = Absent /\ Spend("ticks")
  /\ LET frame == EncodeFrame("Telemetry", PackTelemetry(robot.telemetry))
     IN  /\ Record("robot", "ChannelBTelemetry", frame, UnpackTelemetry(frame.fields))
         /\ DgramSend("console", Tag(frame), robot.telemetry)
  /\ UNCHANGED <<work, console, robot, up, down, link, camera, handVars>>

\* on_datagram of the console, in a session; an empty report changes nothing on the HUD.
ConsoleReceivesTelemetry ==
  /\ Live /\ dgram # Absent /\ dgram.to = "console"
  /\ dgram' = Absent
  /\ LET got == TelemetryIn(dgram.datagram)
     IN  IF console.phase # "Operating" THEN UNCHANGED <<console, recVars>>
         ELSE /\ console' = IF got = Absent THEN console ELSE [console EXCEPT !.telemetry = [got |-> got, meant |-> dgram.meant]]
              /\ Record("console", "ChannelBTelemetry", dgram.datagram.payload, got)
  /\ UNCHANGED <<work, left, robot, up, down, link, camera, handVars>>

LoseDatagram ==
  /\ dgram # Absent /\ Spend("losses")
  /\ dgram' = Absent
  /\ UNCHANGED <<work, console, robot, up, down, link, camera, handVars, recVars>>

\* The writer thread, where something is recorded.
RecorderSteps ==
  /\ work.host # "none"
  /\ \/ WriterStep /\ UNCHANGED left
     \/ StepClockBack /\ Spend("stepbacks")
  /\ UNCHANGED <<work, console, robot, netVars, camera, handVars>>

-----------------------------------------------------------------------------
ConsoleConnects == Connect \/ ResumeEstablishes \/ ResumeFails \/ Establish
RobotTakesFirst == RobotAccept \/ RobotAdopts
Shakes == RobotReadsHello \/ ConsoleReadsHello \/ ConsoleReadsDescribe \/ RobotReadsAccept
Captures == CameraRead \/ CameraSpawn \/ CameraChanged

Next ==
  \/ Connect \/ ResumeEstablishes \/ ResumeFails \/ CancelAttempt \/ Establish \/ HelloAgain \/ SaveTicket
  \/ ConsoleTimesOut \/ RobotAccept \/ RobotAcceptStray \/ RobotAdopts \/ RobotSessionEnds
  \/ LinkDown \/ LinkUp \/ RobotStops \/ RobotStarts
  \/ RobotReadsHello \/ ConsoleReadsHello \/ ConsoleReadsDescribe \/ RobotReadsAccept
  \/ PressKey \/ PadEvent \/ PadRefresh \/ TakeInput \/ RobotReadsTrigger \/ RobotReadsCamera
  \/ CameraRead \/ CameraSpawn \/ CameraChanged \/ CameraFails
  \/ SendCommand \/ RobotReceivesCommand \/ BridgeReports \/ SendTelemetry \/ ConsoleReceivesTelemetry
  \/ LoseDatagram \/ RecorderSteps

\* Timers and packets: each end keeps its timeouts and reads what has arrived.  A first packet is sent
\* again and again, so a robot that keeps coming back to waiting for one gets one (strong fairness).
\* Nothing makes faults happen or end, nor anyone touch a key.
Fairness ==
  /\ WF_vars(ConsoleConnects) /\ WF_vars(ConsoleTimesOut)
  /\ SF_vars(RobotTakesFirst) /\ WF_vars(RobotSessionEnds)
  /\ WF_vars(Shakes) /\ WF_vars(RobotReadsCamera) /\ WF_vars(Captures)

Spec == Init /\ [][Next]_vars /\ Fairness

-----------------------------------------------------------------------------
TypeOK ==
  /\ console.mode \in {"Connecting", "Resuming", "Open"} /\ console.ticket \in {"None", "Good", "Stale"}
  /\ console.phase \in {"AwaitingHello", "AwaitingSessionDescribe", "Operating"}
  /\ robot.serving \in {"None", "Current", "Stale", "Bogus"}
  /\ robot.phase \in {"AwaitingHello", "AwaitingSessionAccept", "Operating"}
  /\ up.hello \in 0..(1 + work.budget.hellos)
  /\ camera.at \in {"None", "Read", "Spawn", "Running", "GaveUp"} /\ camera.watch \in -1000..1000
  /\ camera.attempts \in 0..(MaxAttempts + 1)
  /\ console.held.claw \in 0..255 /\ console.held.arm_x \in -80..155 /\ console.held.arm_z \in -95..155
  /\ pad.held \subseteq Holdable /\ pad.mode \in {"Turn", "Roll", "Yaw"}
  /\ \A fault \in DOMAIN left : left[fault] \in Nat
  /\ RecordingTypeOK

Operating == Live /\ console.phase = "Operating" /\ robot.phase = "Operating"

\* The description was whole before HELLO, and the console waits for one for ever: the robot's reports
\* keep the connection alive.
Wedged == Live /\ console.phase = "AwaitingSessionDescribe" /\ down.describe = Absent
Incompatible == Negotiate(RobotHello, ConsoleHello) = Absent

\* After outages, crashes, restarts, stale tickets, dropped attempts and stray packets the two ends
\* operate again, as long as the robot runs and the network is up.  Two cases stand out: builds that
\* do not negotiate, and a description that overtook HELLO.
\* (connect_with_resume_fallback, reconnect_until_success_or_quit and quic_server's run.)
ConnectsAgain == []<>(Operating \/ Wedged \/ Incompatible \/ ~robot.running \/ ~link)

\* Both ends operating agree on what the session is: the capabilities, the profile - every field through
\* the wire's enumerations -, the layouts the profile implies, and the format of every sensor the robot
\* will send.  And the layout is the one TeleopCommand has built in.
\* (hello.rs, both session_handler.rs, profile.rs and TeleopCommand in both channel_b.rs.)
EndsAgree ==
  console.phase = "Operating" /\ robot.phase = "Operating" /\ Live =>
    LET profile == console.info.profile
        blocks == DeriveCommandLayout(profile, {}, "Standard")
    IN  /\ console.negotiated = robot.negotiated
        /\ ProfileHash(profile) = console.info.profile_hash /\ profile = XgoProfile
        /\ DeriveLayout(profile, {}, "Standard") = DeriveLayout(XgoProfile, {}, "Standard")
        /\ Len(blocks) = 2
        /\ blocks[1].byte_offset = 0 /\ blocks[1].byte_len = VelocityAttitudeLen
        /\ blocks[2].byte_offset = VelocityAttitudeLen /\ blocks[2].byte_len = CartesianLen
        /\ console.info.cameras = Cameras
        /\ \A i \in 1..Len(work.build.sensors) :
             LET s == work.build.sensors[i]
             IN  /\ s.sensor_id \in robot.selected <=> ValidSensor(s)
                 /\ s.sensor_id \in robot.selected => s \in ToSet(console.info.sensors)

\* Within half a count, if it fits a field; the field's end on the same side if it does not.
Near(got, meant, step) ==
  IF meant > 32767 * step THEN got = 32767 * step
  ELSE IF meant < -32768 * step THEN got = -32768 * step
  ELSE 2 * (got - meant) \in -step..step

\* The command the robot acts on is the one the console held when it was sent, to half of a field's
\* resolution, and so is the telemetry on the HUD.  The arm's and the claw's are exact.
\* (TeleopCommand and TelemetryData pack and unpack, pack_scaled.)
ArrivesAsMeant ==
  /\ robot.cmd # Absent =>
       /\ \A i \in 1..6 : Near(robot.cmd.got.va[i], robot.cmd.meant.va[i], 10)
       /\ ArmOf(robot.cmd.got) = ArmOf(robot.cmd.meant)
  /\ console.telemetry # Absent =>
       /\ console.telemetry.got.battery = console.telemetry.meant.battery
       /\ \A i \in DOMAIN console.telemetry.meant.angles :
            Near(console.telemetry.got.angles[i], console.telemetry.meant.angles[i], 10)

\* Whatever keys, held buttons and resets led to it, an arm position the robot gets is the neutral one
\* or clear of the robot's own screen, for the height it has.  (on_input's ArmNudge, min_safe_arm_x.)
ArmClearOfScreen ==
  robot.cmd # Absent =>
    LET got == robot.cmd.got IN <<got.arm_x, got.arm_z>> = <<0, 0>> \/ got.arm_x >= MinSafeArmX(got.arm_z)

\* The camera ends up with the controls the console last sent, however updates, restarts and failures
\* interleave, unless the capture gave up, the session is over, or the last control was in a read with
\* others, or read before SESSION_ACCEPT.  (on_camera_control and capture_task.)
CameraCatchesUp ==
  []<>(\/ console.sent_level = Absent \/ ~Live \/ robot.missed \/ ~work.build.camera
       \/ camera.at = "GaveUp" \/ (camera.at = "Running" /\ camera.controls = console.sent_level))
=============================================================================

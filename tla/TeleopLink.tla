----------------------------- MODULE TeleopLink -----------------------------
(***************************************************************************)
(* One operator console (operator-console quic_client.rs) driving one      *)
(* robot-edge session (quic_server.rs) over QUIC: the held velocity and    *)
(* its auto-zero, the E-Stop keys, the handshake and the console's         *)
(* reconnect loop.  What the robot reports back is left out but for one    *)
(* thing: its first E-Stop report opens stream 5, which the console can    *)
(* then use.                                                               *)
(*                                                                         *)
(* The network: datagrams may be lost, delayed and reordered.  Copies of   *)
(* the same datagram are not told apart, so one in flight may arrive any   *)
(* number of times before it is gone.  Stream 5 is reliable and ordered,   *)
(* but a read returns whatever has arrived, and the robot decodes only the *)
(* first message of what it read.                                          *)
(*                                                                         *)
(* The robot's legs are what the session last told the bridge; RobotEdge   *)
(* models how that gets there.                                             *)
(***************************************************************************)
EXTENDS SafetyCore, Sequences

CONSTANTS
  Blackout,      \* --watchdog-ms of robot-edge, in time units
  MoveStale,     \* --move-stale-ms of operator-console, in time units
  Observers,     \* the values of --observer the console may be started with
  MaxPresses     \* bound on the operator's messages in flight on the E-Stop stream

ASSUME TeleopLinkAssumption ==
  /\ Blackout \in Nat \ {0} /\ MoveStale \in Nat \ {0} /\ Observers \subseteq BOOLEAN
  /\ MaxPresses \in Nat \ {0}

EstopMessage == {"Latched", "Clear"}
Command == {"Still", "Operator"}
Datagram == EstopMessage \cup Command \cup {"Heartbeat"}

VARIABLES
  console,     \* the console's Client
  robot,       \* the robot's Session
  safety,      \* Session.safety
  legs,        \* the velocity the robot was last given
  dgrams,      \* datagrams in flight to the robot
  stream,      \* E-Stop stream: messages to the robot it has not read yet
  fresh_stop   \* history: on this connection the operator pressed stop last, with the
               \* stream open and no clear in flight

net == <<dgrams, stream>>
vars == <<console, robot, safety, legs, dgrams, stream, fresh_stop>>

-----------------------------------------------------------------------------
NewSession == [link |-> "Up", phase |-> "AwaitingHello", stream_primed |-> FALSE]

NewClient(observer) ==
  [link |-> "Up", phase |-> "AwaitingHello", held |-> "Still",
   move_age |-> MoveStale, stream_open |-> FALSE, observer |-> observer]

Init ==
  /\ \E observer \in Observers : console = NewClient(observer)
  /\ robot = NewSession
  /\ safety = NewSafetyTask("D", Blackout)
  /\ legs = "Still"
  /\ dgrams = {} /\ stream = <<>>
  /\ fresh_stop = FALSE

Connected == console.link = "Up" /\ robot.link = "Up"

\* A clear the operator has pressed is still in flight.
ClearUnderWay == "Clear" \in dgrams \/ \E i \in 1..Len(stream) : stream[i] = "Clear"

\* dgram_send reaches the peer only over an open connection.
DgramSend(d) == dgrams' = IF Connected THEN dgrams \cup {d} ELSE dgrams

-----------------------------------------------------------------------------
(* Handshake, over reliable streams.                                       *)

RobotOnHello ==
  /\ Connected /\ robot.phase = "AwaitingHello"
  /\ robot' = [robot EXCEPT !.phase = "AwaitingSessionAccept"]
  /\ UNCHANGED <<console, safety, legs, net, fresh_stop>>

ConsoleOnHello ==
  /\ Connected /\ console.phase = "AwaitingHello"
  /\ console' = [console EXCEPT !.phase = "AwaitingSessionDescribe"]
  /\ UNCHANGED <<robot, safety, legs, net, fresh_stop>>

ConsoleOnDescribe ==
  /\ Connected /\ console.phase = "AwaitingSessionDescribe" /\ robot.phase # "AwaitingHello"
  /\ console' = [console EXCEPT !.phase = "Operating"]
  /\ UNCHANGED <<robot, safety, legs, net, fresh_stop>>

RobotOnAccept ==
  /\ Connected /\ robot.phase = "AwaitingSessionAccept" /\ console.phase = "Operating"
  /\ robot' = [robot EXCEPT !.phase = "Operating"]
  /\ UNCHANGED <<console, safety, legs, net, fresh_stop>>

-----------------------------------------------------------------------------
(* Console: keys.  While it reconnects it discards them.                   *)

MoveKey(v) ==
  /\ console.link = "Up"
  /\ console' = [console EXCEPT !.held = v, !.move_age = 0]
  /\ UNCHANGED <<robot, safety, legs, net, fresh_stop>>

\* An arm, claw, attitude or neutral-pose key refreshes last_move_input_at too.
NudgeKey ==
  /\ console.link = "Up"
  /\ console' = [console EXCEPT !.move_age = 0]
  /\ UNCHANGED <<robot, safety, legs, net, fresh_stop>>

\* send_action_trigger: what it does to the held velocity.
ActionKey ==
  /\ console.link = "Up" /\ console.phase = "Operating"
  /\ console' = [console EXCEPT !.held = "Still"]
  /\ UNCHANGED <<robot, safety, legs, net, fresh_stop>>

\* Mutant: the key sends the datagram alone.
EstopKeyDatagramOnly(m) ==
  /\ console.link = "Up" /\ Len(stream) < MaxPresses
  /\ DgramSend(m)
  /\ fresh_stop' = (m = "Latched" /\ Connected /\ console.stream_open /\ ~ClearUnderWay)
  /\ UNCHANGED <<console, robot, safety, legs, stream>>

\* Estop and EstopClear: a datagram, and a stream message once the robot has
\* opened the stream (quiche refuses it before, and the error is ignored).
EstopKey(m) ==
  /\ console.link = "Up" /\ Len(stream) < MaxPresses
  /\ DgramSend(m)
  /\ stream' = IF Connected /\ console.stream_open THEN Append(stream, m) ELSE stream
  /\ fresh_stop' = (m = "Latched" /\ Connected /\ console.stream_open /\ ~ClearUnderWay)
  /\ UNCHANGED <<console, robot, safety, legs>>

\* Mutant: no auto-zero.
HeldAfterTickKept(c) == c.held

\* on_tick: auto-zero, then a heartbeat when observing and a Command otherwise.
HeldAfterTick(c) == IF c.move_age >= MoveStale THEN "Still" ELSE c.held

Observing(c) == c.observer /\ c.move_age >= MoveStale

ConsoleTick ==
  /\ console.link = "Up" /\ console.phase = "Operating"
  /\ console' = [console EXCEPT !.held = HeldAfterTick(console)]
  /\ DgramSend(IF Observing(console) THEN "Heartbeat" ELSE HeldAfterTick(console))
  /\ UNCHANGED <<robot, safety, legs, stream, fresh_stop>>

\* The robot's first report arrives on stream 5.
StreamOpens ==
  /\ Connected /\ robot.stream_primed /\ ~console.stream_open
  /\ console' = [console EXCEPT !.stream_open = TRUE]
  /\ UNCHANGED <<robot, safety, legs, net, fresh_stop>>

-----------------------------------------------------------------------------
(* Robot.                                                                  *)

ApplyEstop(s, m) == IF m = "Latched" THEN TriggerExplicitEstop(s) ELSE ClearExplicitEstop(s)

\* on_datagram.
RobotReceivesEstop(m) ==
  /\ robot.link = "Up" /\ m \in dgrams
  /\ safety' = OnChannelBActivity(ApplyEstop(safety, m))
  /\ UNCHANGED <<console, robot, legs, net, fresh_stop>>

RobotReceivesHeartbeat ==
  /\ robot.link = "Up" /\ "Heartbeat" \in dgrams /\ robot.phase = "Operating"
  /\ safety' = OnChannelBActivity(safety)
  /\ UNCHANGED <<console, robot, legs, net, fresh_stop>>

RobotReceivesCommand(v) ==
  LET s == [OnChannelBActivity(safety) EXCEPT !.deadman_held = TRUE, !.command_fresh = TRUE] IN
  /\ robot.link = "Up" /\ v \in dgrams /\ robot.phase = "Operating"
  /\ safety' = Tick(s)
  /\ legs' = IF TickSource(s, FALSE) = "FullTeleoperation" THEN v ELSE "Still"
  /\ UNCHANGED <<console, robot, net, fresh_stop>>

\* on_stream_readable, on_stream_data: one read of the E-Stop stream.
RobotReads(n) ==
  /\ robot.link = "Up" /\ n \in 1..Len(stream)
  /\ safety' = ApplyEstop(safety, Head(stream))
  /\ stream' = SubSeq(stream, n + 1, Len(stream))
  /\ UNCHANGED <<console, robot, legs, dgrams, fresh_stop>>

\* on_tick, whose first report primes the E-Stop stream.
RobotTick ==
  /\ robot.link = "Up"
  /\ safety' = Tick(safety)
  /\ legs' = IF TickSource(safety, FALSE) = "EStop" THEN "Still" ELSE legs
  /\ robot' = [robot EXCEPT !.stream_primed = TRUE]
  /\ UNCHANGED <<console, net, fresh_stop>>

-----------------------------------------------------------------------------
(* Network.                                                                *)

Lose(d) ==
  /\ d \in dgrams
  /\ dgrams' = dgrams \ {d}
  /\ UNCHANGED <<console, robot, safety, legs, stream, fresh_stop>>

\* The robot's session is over, and with it what was in flight to it.
SessionOver ==
  /\ robot' = [NewSession EXCEPT !.link = "Down"]
  /\ dgrams' = {} /\ stream' = <<>>
  /\ fresh_stop' = FALSE
  /\ UNCHANGED <<console, safety, legs>>

\* max_idle_timeout passes in silence.  It is 25 times the default blackout, so
\* a tick has tripped the watchdog by then.
RobotIdleTimeout ==
  /\ robot.link = "Up" /\ safety.watchdog.silence >= Blackout /\ safety.watchdog.triggered
  /\ SessionOver

\* The console's close arrives.
RobotOnClose ==
  /\ robot.link = "Up" /\ console.link = "Down"
  /\ SessionOver

\* The console gives the connection up: its idle timeout, the peer's close, or
\* RECV_WATCHDOG_TIMEOUT when it no longer hears a robot that may hear it.  What
\* the reconnect resets is reset here: nothing reads it in between.
ConsoleLosesLink ==
  /\ console.link = "Up"
  /\ console' = [console EXCEPT !.link = "Down", !.phase = "AwaitingHello", !.stream_open = FALSE]
  /\ UNCHANGED <<robot, safety, legs, net, fresh_stop>>

\* The operator quits; the next Client is a new process's.
Quit ==
  /\ console.link = "Up"
  /\ console' = [NewClient(console.observer) EXCEPT !.link = "Down"]
  /\ UNCHANGED <<robot, safety, legs, net, fresh_stop>>

\* reconnect_until_success_or_quit, or a new console, gets a connection, for which
\* the robot builds a new Session; it serves one at a time.
Reconnect ==
  /\ console.link = "Down" /\ robot.link = "Down"
  /\ console' = [console EXCEPT !.link = "Up"]
  /\ robot' = NewSession
  /\ safety' = NewSafetyTask("D", Blackout)
  /\ UNCHANGED <<legs, net, fresh_stop>>

Advance ==
  /\ safety' = IF robot.link = "Up" THEN Elapse(safety) ELSE safety
  /\ console' = [console EXCEPT !.move_age = Older(@, MoveStale)]
  /\ UNCHANGED <<robot, legs, net, fresh_stop>>

-----------------------------------------------------------------------------
Next ==
  \/ RobotOnHello \/ ConsoleOnHello \/ ConsoleOnDescribe \/ RobotOnAccept
  \/ \E v \in Command : MoveKey(v)
  \/ NudgeKey
  \/ ActionKey
  \/ \E m \in EstopMessage : EstopKey(m)
  \/ ConsoleTick
  \/ StreamOpens
  \/ \E m \in EstopMessage : RobotReceivesEstop(m)
  \/ RobotReceivesHeartbeat
  \/ \E v \in Command : RobotReceivesCommand(v)
  \/ \E n \in 1..MaxPresses : RobotReads(n)
  \/ RobotTick
  \/ \E d \in Datagram : Lose(d)
  \/ RobotIdleTimeout
  \/ RobotOnClose
  \/ ConsoleLosesLink
  \/ Quit
  \/ Reconnect
  \/ Advance

Spec == Init /\ [][Next]_vars

\* Both processes run, time passes, streams deliver, and no datagram stays in
\* flight for ever.  No datagram is assumed to arrive.
Fairness ==
  /\ WF_vars(ConsoleTick) /\ WF_vars(RobotTick) /\ WF_vars(Advance)
  /\ WF_vars(RobotOnHello \/ ConsoleOnHello \/ ConsoleOnDescribe \/ RobotOnAccept)
  /\ WF_vars(StreamOpens)
  /\ WF_vars(\E n \in 1..MaxPresses : RobotReads(n))
  /\ \A d \in Datagram : WF_vars(Lose(d))

FairSpec == Spec /\ Fairness

-----------------------------------------------------------------------------
(* Properties.                                                             *)

\* Every variable keeps its type.
TypeOK ==
  /\ console \in [link: {"Up", "Down"}, phase: {"AwaitingHello", "AwaitingSessionDescribe", "Operating"},
                  held: Command, move_age: 0..MoveStale, stream_open: BOOLEAN, observer: Observers]
  /\ robot \in [link: {"Up", "Down"}, phase: {"AwaitingHello", "AwaitingSessionAccept", "Operating"},
                stream_primed: BOOLEAN]
  /\ safety \in SafetyTaskType
  /\ legs \in Command
  /\ dgrams \subseteq Datagram /\ stream \in Seq(EstopMessage)
  /\ fresh_stop \in BOOLEAN

StopsOnRelease(observer) ==
  \/ []<>ClearUnderWay
  \/ (console.move_age = MoveStale /\ console.phase = "Operating" /\ Connected
      /\ console.observer = observer)
       ~> (legs = "Still" \/ console.move_age < MoveStale \/ robot.link = "Down")

\* The console's on_tick comment: once no key has refreshed the held velocity for
\* move_stale, the robot actually stops, whatever the network loses: by a zero
\* Command, or by the blackout watchdog when nothing gets through.  (An operator
\* who clears the E-Stop for ever can hold that watchdog off.)
ReleaseStops == StopsOnRelease(FALSE)

\* The same of a console started with --observer, on a connection that lasts.
ObserverReleaseStops == []Connected => StopsOnRelease(TRUE)

\* A stop pressed with the E-Stop stream open and no earlier clear still in
\* flight latches the robot, even if every datagram is lost.
FreshStopLatches == fresh_stop ~> (IsEstopped(safety) \/ ~fresh_stop)

\* Until the operator presses clear, such a stop is undone by nothing on the
\* connection it was made on: no late datagram, no merged read.
FreshStopHolds ==
  [][fresh_stop /\ IsEstopped(safety) => IsEstopped(safety')]_vars

\* ControlSource::EStop, clear_explicit_estop: the robot leaves an E-Stop, the
\* watchdog's or the operator's, only while a clear from the operator is on its way.
OnlyHumanUnlatches ==
  [][IsEstopped(safety) /\ ~IsEstopped(safety')
       => ClearUnderWay]_vars
=============================================================================

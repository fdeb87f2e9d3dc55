-------------------------- MODULE TeleopLinkProofs --------------------------
(***************************************************************************)
(* What one press of the stop key guarantees across the connection, for    *)
(* every blackout, staleness timeout and number of messages in flight: the *)
(* types, that nothing on the connection undoes a stop pressed last, and   *)
(* what alone can take the robot out of an E-Stop.                         *)
(***************************************************************************)
EXTENDS TeleopLink, SafetyCoreProofs

\* While a fresh stop stands the robot's session lives, and no clear is on its way
\* to it: neither among the datagrams, however late, nor anywhere on the stream.
FreshInv == fresh_stop => robot.link = "Up" /\ ~ClearUnderWay

-----------------------------------------------------------------------------
(* Types.                                                                  *)

\* What is left of the E-Stop stream after a read is a part of what was there.
LEMMA ReadFacts ==
  ASSUME NEW s \in Seq(EstopMessage), NEW n \in 1..Len(s)
  PROVE  /\ SubSeq(s, n + 1, Len(s)) \in Seq(EstopMessage)
         /\ Head(s) = s[1] /\ s[1] \in EstopMessage
         /\ Len(SubSeq(s, n + 1, Len(s))) = Len(s) - n
         /\ \A i \in 1..(Len(s) - n) : SubSeq(s, n + 1, Len(s))[i] = s[n + i]
  OBVIOUS

\* Both stop messages leave the safety task one, and a stop leaves it E-Stopped.
LEMMA ApplyEstopFacts ==
  ASSUME NEW s \in SafetyTaskType, NEW m \in EstopMessage
  PROVE  /\ ApplyEstop(s, m) \in SafetyTaskType
         /\ m # "Clear" => IsEstopped(ApplyEstop(s, m))
  BY MethodFacts DEF ApplyEstop, EstopMessage

\* Every step of console, robot, network and time keeps the types.
LEMMA NextTypeOK == TypeOK /\ [Next]_vars => TypeOK'
<1> SUFFICES ASSUME TypeOK, [Next]_vars PROVE TypeOK'
  OBVIOUS
<1> USE TeleopLinkAssumption
<1>t. /\ safety \in SafetyTaskType /\ legs \in Command
      /\ dgrams \subseteq Datagram /\ stream \in Seq(EstopMessage)
      /\ console.held \in Command /\ console.move_age \in 0..MoveStale
      /\ console.observer \in Observers
  BY DEF TypeOK
<1>d. ASSUME NEW d \in Datagram, DgramSend(d) PROVE dgrams' \subseteq Datagram
  BY <1>t, <1>d DEF DgramSend
<1>h. HeldAfterTick(console) \in Command
  BY <1>t DEF HeldAfterTick, Command
<1>n. NewSession \in [link: {"Up", "Down"}, phase: {"AwaitingHello", "AwaitingSessionAccept", "Operating"},
                      stream_primed: BOOLEAN]
  BY DEF NewSession
<1>s. NewSafetyTask("D", Blackout) \in SafetyTaskType
  BY NewSafetyTaskFacts DEF TaskClass
<1>1. CASE RobotOnHello \/ ConsoleOnHello \/ ConsoleOnDescribe \/ RobotOnAccept
  BY <1>1 DEF TypeOK, net, RobotOnHello, ConsoleOnHello, ConsoleOnDescribe, RobotOnAccept
<1>2. ASSUME NEW v \in Command, MoveKey(v) PROVE TypeOK'
  <2>1. 0 \in 0..MoveStale
    OBVIOUS
  <2>2. console' = [[console EXCEPT !.held = v] EXCEPT !.move_age = 0]
    BY <1>2 DEF MoveKey
  <2> QED  BY <1>2, <2>1, <2>2 DEF TypeOK, net, MoveKey
<1>3. CASE NudgeKey \/ ActionKey
  BY <1>3 DEF TypeOK, net, NudgeKey, ActionKey, Command
<1>4. ASSUME NEW m \in EstopMessage, EstopKey(m) PROVE TypeOK'
  <2>1. dgrams' \subseteq Datagram
    BY <1>4, <1>d DEF EstopKey, Datagram
  <2>2. stream' \in Seq(EstopMessage)
    BY <1>4, <1>t DEF EstopKey
  <2>3. fresh_stop' \in BOOLEAN
    BY <1>4, Zenon DEF EstopKey
  <2>4. UNCHANGED <<console, robot, safety, legs>>
    BY <1>4 DEF EstopKey
  <2> QED  BY <2>1, <2>2, <2>3, <2>4 DEF TypeOK
<1>5. CASE ConsoleTick
  <2>1. dgrams' \subseteq Datagram
    BY <1>5, <1>d, <1>h DEF ConsoleTick, Datagram
  <2> QED  BY <1>5, <1>h, <2>1 DEF TypeOK, ConsoleTick
<1>6. CASE StreamOpens
  BY <1>6 DEF TypeOK, net, StreamOpens
<1>7. ASSUME NEW m \in EstopMessage, RobotReceivesEstop(m) PROVE TypeOK'
  <2>1. safety' \in SafetyTaskType
    BY <1>7, <1>t, ApplyEstopFacts, MethodFacts DEF RobotReceivesEstop
  <2> QED  BY <1>7, <2>1 DEF TypeOK, net, RobotReceivesEstop
<1>8. CASE RobotReceivesHeartbeat
  BY <1>8, <1>t, MethodFacts DEF TypeOK, net, RobotReceivesHeartbeat
<1>9. ASSUME NEW v \in Command, RobotReceivesCommand(v) PROVE TypeOK'
  <2> DEFINE s == [OnChannelBActivity(safety) EXCEPT !.deadman_held = TRUE, !.command_fresh = TRUE]
  <2>1. s \in SafetyTaskType
    BY <1>t, MethodFacts, CommandFacts
  <2>2. /\ safety' = Tick(s) /\ legs' \in {v, "Still"}
        /\ UNCHANGED <<console, robot, net, fresh_stop>>
    BY <1>9 DEF RobotReceivesCommand
  <2> HIDE DEF s
  <2> QED  BY <2>1, <2>2, MethodFacts DEF TypeOK, net, Command
<1>10. ASSUME NEW n \in 1..MaxPresses, RobotReads(n) PROVE TypeOK'
  <2>1. /\ n \in 1..Len(stream) /\ safety' = ApplyEstop(safety, Head(stream))
        /\ stream' = SubSeq(stream, n + 1, Len(stream))
        /\ UNCHANGED <<console, robot, legs, dgrams, fresh_stop>>
    BY <1>10 DEF RobotReads
  <2>2. safety' \in SafetyTaskType /\ stream' \in Seq(EstopMessage)
    BY <1>t, <2>1, ReadFacts, ApplyEstopFacts
  <2> QED  BY <2>1, <2>2 DEF TypeOK
<1>11. CASE RobotTick
  <2>1. safety' \in SafetyTaskType
    BY <1>11, <1>t, MethodFacts DEF RobotTick
  <2> QED  BY <1>11, <2>1 DEF TypeOK, net, RobotTick, Command
<1>12. ASSUME NEW d \in Datagram, Lose(d) PROVE TypeOK'
  BY <1>12 DEF TypeOK, Lose
<1>13. CASE RobotIdleTimeout \/ RobotOnClose
  <2>1. SessionOver
    BY <1>13 DEF RobotIdleTimeout, RobotOnClose
  <2>2. robot' \in [link: {"Up", "Down"}, phase: {"AwaitingHello", "AwaitingSessionAccept", "Operating"},
                    stream_primed: BOOLEAN]
    BY <1>n, <2>1 DEF SessionOver
  <2>3. fresh_stop' \in BOOLEAN
    BY <2>1, Zenon DEF SessionOver
  <2>4. stream' \in Seq(EstopMessage) /\ dgrams' \subseteq Datagram
    BY <2>1 DEF SessionOver
  <2> QED  BY <2>1, <2>2, <2>3, <2>4 DEF TypeOK, SessionOver
<1>14. CASE ConsoleLosesLink
  BY <1>14 DEF TypeOK, net, ConsoleLosesLink
<1>15. CASE Quit
  <2>1. console' \in [link: {"Up", "Down"}, phase: {"AwaitingHello", "AwaitingSessionDescribe", "Operating"},
                      held: Command, move_age: 0..MoveStale, stream_open: BOOLEAN, observer: Observers]
    <3>1. console' = [NewClient(console.observer) EXCEPT !.link = "Down"]
      BY <1>15 DEF Quit
    <3>2. MoveStale \in 0..MoveStale /\ FALSE \in BOOLEAN
      OBVIOUS
    <3>3. console' = [link |-> "Down", phase |-> "AwaitingHello", held |-> "Still",
                      move_age |-> MoveStale, stream_open |-> FALSE, observer |-> console.observer]
      BY <3>1 DEF NewClient
    <3> QED  BY <1>t, <3>2, <3>3 DEF Command
  <2> QED  BY <1>15, <2>1 DEF TypeOK, net, Quit
<1>16. CASE Reconnect
  BY <1>16, <1>n, <1>s DEF TypeOK, net, Reconnect
<1>17. CASE Advance
  <2>1. safety' \in SafetyTaskType
    BY <1>17, <1>t, MethodFacts DEF Advance
  <2>2. Older(console.move_age, MoveStale) \in 0..MoveStale
    BY <1>t DEF Older
  <2> QED  BY <1>17, <2>1, <2>2 DEF TypeOK, net, Advance
<1>18. CASE UNCHANGED vars
  BY <1>18 DEF TypeOK, vars
<1> QED
  BY <1>1, <1>2, <1>3, <1>4, <1>5, <1>6, <1>7, <1>8, <1>9, <1>10, <1>11, <1>12, <1>13, <1>14,
     <1>15, <1>16, <1>17, <1>18
  DEF Next

\* The client, the session and its safety task, the network and the history keep their
\* types, for every timeout and number of presses.
THEOREM TeleopLinkTypeOK == Spec => []TypeOK
<1>1. Init => TypeOK
  <2> SUFFICES ASSUME Init PROVE TypeOK
    OBVIOUS
  <2>1. safety \in SafetyTaskType
    BY NewSafetyTaskFacts, TeleopLinkAssumption DEF Init, TaskClass
  <2>2. fresh_stop \in BOOLEAN
    BY Zenon DEF Init
  <2>3. stream \in Seq(EstopMessage) /\ dgrams \subseteq Datagram
    BY DEF Init
  <2> QED
    BY <2>1, <2>2, <2>3, TeleopLinkAssumption DEF Init, TypeOK, NewClient, NewSession, Command
<1> QED  BY <1>1, NextTypeOK, PTL DEF Spec

-----------------------------------------------------------------------------
(* A fresh stop holds.                                                     *)

\* No step puts a clear in flight under a fresh stop, or ends the session with it.
LEMMA NextFreshInv == TypeOK /\ FreshInv /\ [Next]_vars => FreshInv'
<1> SUFFICES ASSUME TypeOK, FreshInv, [Next]_vars, fresh_stop'
             PROVE  robot'.link = "Up" /\ ~ClearUnderWay'
  BY DEF FreshInv
<1>t. stream \in Seq(EstopMessage)
  BY DEF TypeOK
<1>same. ASSUME fresh_stop' = fresh_stop, stream' = stream, robot'.link = robot.link,
                "Clear" \in dgrams' => "Clear" \in dgrams
         PROVE  robot'.link = "Up" /\ ~ClearUnderWay'
  BY <1>same DEF FreshInv, ClearUnderWay
<1>1. CASE \/ RobotOnHello \/ ConsoleOnHello \/ ConsoleOnDescribe \/ RobotOnAccept
           \/ (\E v \in Command : MoveKey(v)) \/ NudgeKey \/ ActionKey \/ StreamOpens
           \/ (\E m \in EstopMessage : RobotReceivesEstop(m)) \/ RobotReceivesHeartbeat
           \/ (\E v \in Command : RobotReceivesCommand(v)) \/ RobotTick
           \/ ConsoleLosesLink \/ Quit \/ Advance
  <2>1. /\ fresh_stop' = fresh_stop /\ stream' = stream /\ dgrams' = dgrams
        /\ robot'.link = robot.link
    BY <1>1 DEF TypeOK, net, RobotOnHello, ConsoleOnHello, ConsoleOnDescribe, RobotOnAccept, MoveKey, NudgeKey,
       ActionKey, StreamOpens, RobotReceivesEstop, RobotReceivesHeartbeat, RobotReceivesCommand,
       RobotTick, ConsoleLosesLink, Quit, Advance
  <2> QED  BY <1>same, <2>1
<1>2. ASSUME NEW m \in EstopMessage, EstopKey(m) PROVE robot'.link = "Up" /\ ~ClearUnderWay'
  <2>1. /\ m = "Latched" /\ Connected /\ ~ClearUnderWay /\ robot' = robot
        /\ dgrams' = dgrams \cup {m} /\ stream' = Append(stream, m)
    BY <1>2 DEF EstopKey, DgramSend
  <2>2. \A i \in 1..Len(stream') : stream'[i] # "Clear"
    BY <1>t, <2>1 DEF ClearUnderWay, EstopMessage
  <2> QED  BY <2>1, <2>2 DEF ClearUnderWay, Connected
<1>3. CASE ConsoleTick
  <2>1. HeldAfterTick(console) \in Command
    BY DEF TypeOK, HeldAfterTick, Command
  <2> QED  BY <1>3, <1>same, <2>1 DEF ConsoleTick, DgramSend, Command
<1>4. ASSUME NEW n \in 1..MaxPresses, RobotReads(n) PROVE robot'.link = "Up" /\ ~ClearUnderWay'
  <2>1. /\ n \in 1..Len(stream) /\ stream' = SubSeq(stream, n + 1, Len(stream))
        /\ UNCHANGED <<robot, dgrams, fresh_stop>>
    BY <1>4 DEF RobotReads
  <2>2. \A i \in 1..Len(stream') : n + i \in 1..Len(stream) /\ stream'[i] = stream[n + i]
    BY <1>t, <2>1, ReadFacts
  <2> QED  BY <2>1, <2>2 DEF FreshInv, ClearUnderWay
<1>5. ASSUME NEW d \in Datagram, Lose(d) PROVE robot'.link = "Up" /\ ~ClearUnderWay'
  BY <1>5, <1>same DEF Lose
<1>6. CASE RobotIdleTimeout \/ RobotOnClose
  BY <1>6, Zenon DEF RobotIdleTimeout, RobotOnClose, SessionOver
<1>7. CASE Reconnect
  BY <1>7 DEF Reconnect, FreshInv
<1>8. CASE UNCHANGED vars
  BY <1>8, <1>same DEF vars
<1> QED  BY <1>1, <1>2, <1>3, <1>4, <1>5, <1>6, <1>7, <1>8 DEF Next

\* Of the robot's steps only a clear that has arrived and a new session leave an E-Stop:
\* no command, no heartbeat, no tick, no stop message and no merged read does.
LEMMA Unlatching ==
  ASSUME TypeOK, [Next]_vars, IsEstopped(safety), ~IsEstopped(safety')
  PROVE  ClearUnderWay \/ Reconnect
<1>t. safety \in SafetyTaskType /\ stream \in Seq(EstopMessage)
  BY DEF TypeOK
<1>same. safety' # safety
  OBVIOUS
<1>1. CASE \/ RobotOnHello \/ ConsoleOnHello \/ ConsoleOnDescribe \/ RobotOnAccept
           \/ (\E v \in Command : MoveKey(v)) \/ NudgeKey \/ ActionKey
           \/ (\E m \in EstopMessage : EstopKey(m)) \/ ConsoleTick \/ StreamOpens
           \/ (\E d \in Datagram : Lose(d)) \/ RobotIdleTimeout \/ RobotOnClose
           \/ ConsoleLosesLink \/ Quit \/ UNCHANGED vars
  BY <1>1, <1>same DEF RobotOnHello, ConsoleOnHello, ConsoleOnDescribe, RobotOnAccept, MoveKey, NudgeKey,
     ActionKey, EstopKey, ConsoleTick, StreamOpens, Lose, RobotIdleTimeout, RobotOnClose, SessionOver,
     ConsoleLosesLink, Quit, vars
<1>2. ASSUME NEW m \in EstopMessage, RobotReceivesEstop(m) PROVE ClearUnderWay
  <2>1. m \in dgrams /\ safety' = OnChannelBActivity(ApplyEstop(safety, m))
    BY <1>2 DEF RobotReceivesEstop
  <2>2. IsEstopped(safety') = IsEstopped(ApplyEstop(safety, m))
    BY <1>t, <2>1, ApplyEstopFacts, MethodFacts
  <2>3. m = "Clear"
    BY <1>t, <2>2, ApplyEstopFacts
  <2> QED  BY <2>1, <2>3 DEF ClearUnderWay
<1>3. ~RobotReceivesHeartbeat /\ ~RobotTick /\ ~Advance
  BY <1>t, MethodFacts, <1>same DEF RobotReceivesHeartbeat, RobotTick, Advance
<1>4. ASSUME NEW v \in Command, RobotReceivesCommand(v) PROVE FALSE
  <2> DEFINE a == OnChannelBActivity(safety)
             s == [a EXCEPT !.deadman_held = TRUE, !.command_fresh = TRUE]
  <2>1. a \in SafetyTaskType /\ IsEstopped(a)
    BY <1>t, MethodFacts
  <2> HIDE DEF a
  <2>2. s \in SafetyTaskType /\ IsEstopped(s)
    BY <2>1, CommandFacts
  <2>3. safety' = Tick(s)
    BY <1>4 DEF RobotReceivesCommand, a
  <2> HIDE DEF s
  <2> QED  BY <2>2, <2>3, MethodFacts
<1>5. ASSUME NEW n \in 1..MaxPresses, RobotReads(n) PROVE ClearUnderWay
  <2>1. n \in 1..Len(stream) /\ safety' = ApplyEstop(safety, Head(stream))
    BY <1>5 DEF RobotReads
  <2>2. Head(stream) = stream[1] /\ stream[1] \in EstopMessage /\ 1 \in 1..Len(stream)
    BY <1>t, <2>1, ReadFacts
  <2>3. stream[1] = "Clear"
    BY <1>t, <2>1, <2>2, ApplyEstopFacts
  <2> QED  BY <2>2, <2>3 DEF ClearUnderWay
<1> QED  BY <1>1, <1>2, <1>3, <1>4, <1>5 DEF Next

\* on_datagram, on_stream_readable: until the operator presses clear, a stop pressed with
\* nothing older in flight is undone by nothing on its connection.
THEOREM FreshStopStands == Spec => FreshStopHolds
<1>1. Init => FreshInv
  BY Zenon DEF Init, FreshInv
<1>2. TypeOK /\ FreshInv /\ [Next]_vars
        => [fresh_stop /\ IsEstopped(safety) => IsEstopped(safety')]_vars
  <2> SUFFICES ASSUME TypeOK, FreshInv, [Next]_vars, fresh_stop, IsEstopped(safety), ~IsEstopped(safety')
               PROVE  FALSE
    OBVIOUS
  <2>1. robot.link = "Up" /\ ~ClearUnderWay
    BY DEF FreshInv
  <2>2. ~Reconnect
    BY <2>1 DEF Reconnect
  <2> QED  BY <2>1, <2>2, Unlatching
<1> QED  BY <1>1, <1>2, NextFreshInv, TeleopLinkTypeOK, PTL DEF Spec, FreshStopHolds

\* The robot leaves an E-Stop only while a clear from the operator is on its way or when
\* a new connection gives it a new safety task.
THEOREM OnlyClearOrNewSessionUnlatches ==
  Spec => [][IsEstopped(safety) /\ ~IsEstopped(safety') => ClearUnderWay \/ Reconnect]_vars
<1>1. TypeOK /\ [Next]_vars
        => [IsEstopped(safety) /\ ~IsEstopped(safety') => ClearUnderWay \/ Reconnect]_vars
  BY Unlatching
<1> QED  BY <1>1, TeleopLinkTypeOK, PTL DEF Spec
=============================================================================

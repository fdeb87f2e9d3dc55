---------------------------- MODULE SessionProofs ----------------------------
(***************************************************************************)
(* What whole sessions guarantee for every workload and every bound of the *)
(* recorder: the types, that a command and a telemetry report arrive as    *)
(* they were meant, that the arm stays clear of the robot's screen, that   *)
(* two ends that operate agree on what the session is, and that no record  *)
(* disappears without a reason or is replayed as what it was not.          *)
(***************************************************************************)
EXTENDS Session, SequenceTheorems, FiniteSetTheorems, InductionFacts

-----------------------------------------------------------------------------
(* The invariant.                                                          *)

Kinds == {"Move", "Turn", "Roll", "Pitch", "Yaw", "Arm", "Claw", "AttitudeReset", "NeutralPose", "Action", "Camera", "CameraReset",
          "Estop", "EstopClear", "EstopToggle", "ToggleRecording"}
InputType == [kind : Kinds, x : Int, y : Int]
Axes == (-1000..1000) \X (-1000..1000)
PadType == [left : Axes, right : Axes, held : SUBSET Holdable, mode : {"Turn", "Roll", "Yaw"}, fine : BOOLEAN]

\* The operator's hands: what the gamepad thread has and what it has sent.
HandInv == pad \in PadType /\ inputs \in Seq(InputType)

CommandType == [va : [1..6 -> Int], arm_x : -80..155, arm_z : -95..155, claw : 0..255]
ReportType == [battery : 0..255, angles : Seq(Int)]

\* A command that is neutral or keeps the arm away from the screen.
ArmIsClear(c) == <<c.arm_x, c.arm_z>> = <<0, 0>> \/ c.arm_x >= MinSafeArmX(c.arm_z)
GoodCommand(c) == c \in CommandType /\ ArmIsClear(c)

\* A report on the HUD is what unpacking gave for what was meant.
ReportArrived(a) ==
  a # Absent =>
    a = [got |-> UnpackTelemetry(PackTelemetry(a.meant)), meant |-> a.meant] /\ a.got # Absent /\ a.meant \in ReportType

\* And so is a command.
CommandArrived(a) ==
  a # Absent =>
    a = [got |-> UnpackCommand(PackCommand(a.meant)), meant |-> a.meant] /\ a.got # Absent /\ GoodCommand(a.meant)

\* The console's Client.
ConsoleOk(c) ==
  /\ c \in
       [mode : {"Connecting", "Resuming", "Open"}, startup : BOOLEAN, est : BOOLEAN,
        phase : {"AwaitingHello", "AwaitingSessionDescribe", "Operating"}, ticket : {"None", "Good", "Stale"},
        info : {c.info}, negotiated : {c.negotiated}, profiles : {c.profiles},
        trigger_seq : Nat, camera_seq : Nat, level : Int, sent_level : {c.sent_level},
        held : CommandType, telemetry : {c.telemetry}]
  /\ ArmIsClear(c.held) /\ ReportArrived(c.telemetry)

\* The robot's Session.
RobotOk(r) ==
  /\ r \in
       [running : BOOLEAN, serving : {"None", "Current", "Stale", "Bogus"},
        phase : {"AwaitingHello", "AwaitingSessionAccept", "Operating"}, hello_sent : BOOLEAN,
        negotiated : {r.negotiated}, selected : {r.selected}, trigger_seq : {r.trigger_seq},
        camera_seq : {r.camera_seq}, missed : BOOLEAN, cmd : {r.cmd}, telemetry : ReportType \cup {Absent}]
  /\ CommandArrived(r.cmd)

\* A capture that has not given up has attempts left.
CameraOk(k) ==
  /\ k \in [at : {"None", "Read", "Spawn", "Running", "GaveUp"}, controls : Int, watch : -1000..1000,
            seen : BOOLEAN, attempts : 0..(MaxAttempts + 1)]
  /\ k.at # "GaveUp" => k.attempts <= MaxAttempts

CameraMessageType == [type : {"CameraControl"}, level : Int, seq : Nat]
TriggerMessageType == [type : {"ActionTrigger"}, action : Int, seq : Nat]

UpOk(u) == u \in [hello : Nat, accept : {u.accept}, trigger : Seq(TriggerMessageType), camera : Seq(CameraMessageType)]

\* HELLOs not read yet are the first and those that were sent again.
BudgetInv ==
  /\ work \in Workloads /\ left \in [Faults -> Nat]
  /\ left.hellos <= work.budget.hellos
  /\ up.hello + left.hellos <= 1 + work.budget.hellos

\* What is in flight is the packed form of what its sender meant.
DgramOk(d) ==
  d # Absent =>
    \/ /\ d = [to |-> "robot", datagram |-> Tag(EncodeFrame("Command", PackCommand(d.meant))), meant |-> d.meant]
       /\ GoodCommand(d.meant)
    \/ /\ d = [to |-> "console", datagram |-> Tag(EncodeFrame("Telemetry", PackTelemetry(d.meant))), meant |-> d.meant]
       /\ d.meant \in ReportType \cup {Absent}

IsSeq(q) == q \in Seq({q[i] : i \in 1..Len(q)})

\* Records, wherever they wait, are numbered as pushed and carry the time of their capture.
Records(q, pushed) == IsSeq(q) /\ \A i \in 1..Len(q) : q[i].id \in 1..pushed /\ q[i].capture_us \in Nat

SegmentShape(s, pushed) ==
  s \in [records : {s.records}, synced : Nat, torn_at : {s.torn_at}, overrun : BOOLEAN] /\ Records(s.records, pushed) /\ s.synced <= Len(s.records)

RecorderInv ==
  /\ rec \in [category : {rec.category}, active : BOOLEAN, ring : {rec.ring}, shutdown : BOOLEAN, pushed : Nat]
  /\ Records(rec.ring, rec.pushed) /\ Len(rec.ring) <= RingCapacity
  /\ writer \in [at : {"Drain", "Check", "Write", "Exited"}, batch : {writer.batch}, segment : {writer.segment}, size : Nat]
  /\ Records(writer.batch, rec.pushed)
  /\ writer.segment \in DOMAIN disk \cup {Absent}
  /\ DOMAIN disk \subseteq Nat /\ \A n \in DOMAIN disk : SegmentShape(disk[n], rec.pushed)
  /\ clock \in [now : Nat, stepped : BOOLEAN]
  /\ fate \in [dropped : {fate.dropped}, deleted : {fate.deleted}, lost : {fate.lost}, late : {fate.late}]

\* The connection is new: nothing has been said on it.
Waits(c) == c.mode = "Resuming" \/ (c.mode = "Open" /\ ~c.est)
Together(c, r) == r.serving = "Current" /\ c.mode = "Open" /\ c.est

TheDescribe == EncodeDescribe("xgo", XgoProfile, Cameras, work.build.sensors)
TheInfo == DecodeDescribe(TheDescribe)
SensorIds(info) == [i \in 1..Len(info.sensors) |-> info.sensors[i].sensor_id]

\* What each end of a connection knows of the other's messages, and what is on the way.
KnowsHello(c, r) ==
  /\ c.phase # "AwaitingHello" =>
       r.phase # "AwaitingHello" /\ c.negotiated = Negotiate(ConsoleHello, DecodeHello(EncodeHello(RobotHello)))
  /\ r.phase # "AwaitingHello" => r.negotiated = Negotiate(RobotHello, DecodeHello(EncodeHello(ConsoleHello)))
KnowsSession(c, r) ==
  /\ c.phase = "Operating" => c.info = TheInfo
  /\ r.phase = "Operating" => r.selected = ToSet(SensorIds(TheInfo))
OnTheWay(r, u, d) ==
  /\ d.hello # Absent => d.hello = EncodeHello(RobotHello) /\ r.phase # "AwaitingHello"
  /\ d.describe # Absent => d.describe = TheDescribe
  /\ u.accept # Absent => r.phase # "AwaitingHello" /\ DecodeAccept(u.accept).selected_sensors = SensorIds(TheInfo)

\* A new connection carries nothing yet, and a session nobody has talked to waits for HELLO.
Fresh(c, r, u, d) ==
  /\ Waits(c) => u = NoneUp /\ d = NoneDown /\ (r.serving = "Current" => r.phase = "AwaitingHello")
  /\ c.mode = "Open" /\ ~c.est => c.phase = "AwaitingHello"
  /\ r.serving \in {"None", "Bogus"} => r.phase = "AwaitingHello"

HandshakeOk(c, r, u, d) ==
  Fresh(c, r, u, d) /\ (Together(c, r) => KnowsHello(c, r) /\ KnowsSession(c, r) /\ OnTheWay(r, u, d))
HandshakeInv == HandshakeOk(console, robot, up, down)

\* The records of a queue, what order they are in, and their numbers.
Elements(q) == {q[i] : i \in 1..Len(q)}
Ascending(q) == \A i, j \in 1..Len(q) : i < j => q[i].id < q[j].id
InTime(q) == \A i, j \in 1..Len(q) : i < j => q[i].capture_us <= q[j].capture_us
Ids(S) == {a.id : a \in S}

Waiting(r, w) == Elements(r.ring) \cup Elements(w.batch)
OnDisk(d) == UNION {Elements(d[n].records) : n \in DOMAIN d}

\* Whatever was pushed is somewhere or went for a reason.
Accounted(r, w, d, f) ==
  /\ 1..r.pushed = Ids(OnDisk(d)) \cup Ids(Waiting(r, w)) \cup f.dropped \cup f.deleted \cup f.lost

\* What is on disk was pushed before what the writer has in its hand, and that before the ring.
InLine(r, w, d) ==
  /\ Ascending(r.ring) /\ Ascending(w.batch)
  /\ \A a \in Elements(w.batch), b \in Elements(r.ring) : a.id < b.id
  /\ \A n \in DOMAIN d : Ascending(d[n].records)
  /\ \A a \in OnDisk(d), b \in Waiting(r, w) : a.id < b.id

\* Nothing is behind the tear of a segment, and once the program runs again nothing will be: its name is earlier than
\* any name to come.
LeftAlone(r, w, s, n, now) ==
  /\ s.torn_at = Len(s.records) /\ ~s.overrun
  /\ w.at # "Exited" => n # w.segment /\ n < now /\ \A a \in Waiting(r, w) : n < a.capture_us

\* While nobody sets the clock back: records wait in the order they were captured in, the open segment has the
\* latest name, a segment with an earlier name holds earlier records, retention took the earliest, and a torn segment
\* is left alone.
OnTime(r, w, d, now, f) ==
  /\ InTime(r.ring) /\ InTime(w.batch)
  /\ \A a \in Elements(w.batch), b \in Elements(r.ring) : a.capture_us <= b.capture_us
  /\ \A a \in Waiting(r, w) : a.capture_us <= now
  /\ \A n \in DOMAIN d : n <= now
  /\ \A n \in DOMAIN d, a \in Waiting(r, w) : n <= a.capture_us
  /\ w.segment # Absent => \A n \in DOMAIN d : n <= w.segment
  /\ \A m, n \in DOMAIN d : m < n => \A a \in Elements(d[m].records), b \in Elements(d[n].records) : a.id < b.id
  /\ \A x \in f.deleted, a \in OnDisk(d) \cup Waiting(r, w) : x < a.id
  /\ \A n \in DOMAIN d : d[n].torn_at # Absent => LeftAlone(r, w, d[n], n, now)

\* A tear is among what was synced, and only the open segment has anything that is not.
Flushed(w, d) ==
  /\ IsFiniteSet(DOMAIN d)
  /\ \A n \in DOMAIN d : d[n].torn_at = Absent \/ (d[n].torn_at \in Nat /\ d[n].torn_at <= d[n].synced)
  /\ \A n \in DOMAIN d : d[n].torn_at = Absent => ~d[n].overrun
  /\ \A n \in DOMAIN d : n # w.segment \/ w.at = "Exited" => d[n].synced = Len(d[n].records)

\* Once the writer has drained nothing, what is pushed before it looks at shutdown is late.
LateOnly(r, w, f) ==
  /\ w.at \in {"Drain", "Exited"} => w.batch = <<>>
  /\ (w.at = "Check" /\ w.batch = <<>>) \/ w.at = "Exited" => Ids(Elements(r.ring)) \subseteq f.late
  /\ w.at = "Exited" => r.shutdown

\* What replay makes of a record is what this end made of the message.
Truthful(r, w, d) == \A a \in OnDisk(d) \cup Waiting(r, w) : Replayed(a.payload) = a.acted

\* The recorder is only shut down where it ran, by the process that ended.
ShutdownOk == (rec.shutdown => work.host = "robot" /\ ~robot.running) /\ (~robot.running => robot.serving = "None")

KeptOk ==
  /\ Accounted(rec, writer, disk, fate) /\ InLine(rec, writer, disk) /\ Flushed(writer, disk) /\ LateOnly(rec, writer, fate)
  /\ Truthful(rec, writer, disk) /\ (~clock.stepped => OnTime(rec, writer, disk, clock.now, fate))
KeptInv == KeptOk /\ ShutdownOk

SessionInv ==
  /\ ConsoleOk(console) /\ RobotOk(robot) /\ CameraOk(camera) /\ UpOk(up) /\ DgramOk(dgram) /\ HandInv /\ BudgetInv
Inv == SessionInv /\ RecorderInv /\ HandshakeInv /\ KeptInv

-----------------------------------------------------------------------------
(* Sequences.                                                              *)

\* An array is a sequence.
LEMMA ArrayIsSeq == ASSUME NEW S, NEW n \in Nat, NEW f \in [1..n -> S] PROVE f \in Seq(S) /\ Len(f) = n
  OBVIOUS

\* A sequence of sequences, flattened one by one: the recursion has a solution.
LEMMA FlattenRun ==
  ASSUME NEW S, NEW q \in Seq(Seq(S)), q # <<>>
  PROVE  \E r \in [1..Len(q) -> Seq(S)] :
           /\ r[1] = q[1]
           /\ \A n \in 2..Len(q) : r[n] = r[n - 1] \o q[n]
           /\ FlattenSeq(q) = r[Len(q)]
<1> DEFINE next == [n \in Nat |-> [s \in Seq(S) |-> IF n + 2 \in 1..Len(q) THEN s \o q[n + 2] ELSE s]]
           Run(r) == r = [n \in 1..Len(q) |-> IF n = 1 THEN q[n] ELSE r[n - 1] \o q[n]]
<1>l. Len(q) \in Nat /\ Len(q) > 0 /\ 1 \in 1..Len(q) /\ \A n \in 1..Len(q) : q[n] \in Seq(S)
  OBVIOUS
<1>1. next \in [Nat -> [Seq(S) -> Seq(S)]]
  BY <1>l
<1>2. PICK f \in [Nat -> Seq(S)] : f[0] = q[1] /\ \A n \in Nat : f[n + 1] = next[n][f[n]]
  <2> HIDE DEF next
  <2>1. \E f : IsIteration(f, Seq(S), q[1], next)
    BY <1>l, <1>1, IterationExists
  <2> QED  BY <2>1 DEF IsIteration
<1> DEFINE g == [n \in 1..Len(q) |-> f[n - 1]]
<1>3. ASSUME NEW n \in 2..Len(q) PROVE f[n - 1] = f[n - 2] \o q[n]
  <2>1. n - 2 \in Nat /\ (n - 2) + 1 = n - 1 /\ (n - 2) + 2 = n /\ n \in 1..Len(q)
    BY <1>l
  <2>2. f[n - 2] \in Seq(S) /\ f[n - 1] = next[n - 2][f[n - 2]]
    BY <2>1, <1>2
  <2> QED  BY <2>1, <2>2
<1>4. Run(g)
  <2>1. ASSUME NEW n \in 1..Len(q) PROVE g[n] = IF n = 1 THEN q[n] ELSE g[n - 1] \o q[n]
    <3>1. CASE n = 1
      BY <3>1, <1>2
    <3>2. CASE n # 1
      <4>1. n \in 2..Len(q) /\ n - 1 \in 1..Len(q) /\ (n - 1) - 1 = n - 2
        BY <3>2, <1>l
      <4>2. g[n] = f[n - 1] /\ g[n - 1] = f[n - 2]
        BY <4>1
      <4> QED  BY <3>2, <4>1, <4>2, <1>3
    <3> QED  BY <3>1, <3>2
  <2> HIDE DEF g
  <2>2. g = [n \in 1..Len(q) |-> g[n]]
    BY DEF g
  <2> QED  BY <2>1, <2>2
<1> HIDE DEF g
<1> DEFINE h == CHOOSE r : Run(r)
<1>5. Run(h)
  <2> HIDE DEF Run
  <2> QED  BY <1>4
<1>6. FlattenSeq(q) = h[Len(q)]
  BY <1>l DEF FlattenSeq
<1> HIDE DEF h
<1>7. \A n \in 1..Len(q) : h[n] = IF n = 1 THEN q[n] ELSE h[n - 1] \o q[n]
  BY <1>5
<1>8. h[1] = q[1] /\ \A n \in 2..Len(q) : h[n] = h[n - 1] \o q[n]
  <2>1. h[1] = q[1]
    BY <1>7, <1>l
  <2>2. ASSUME NEW n \in 2..Len(q) PROVE h[n] = h[n - 1] \o q[n]
    <3>1. n \in 1..Len(q) /\ n # 1
      BY <1>l
    <3> QED  BY <3>1, <1>7
  <2> QED  BY <2>1, <2>2
<1>9. h \in [1..Len(q) -> Seq(S)]
  <2> DEFINE T == {n \in Nat : n + 1 \in 1..Len(q) => h[n + 1] \in Seq(S)}
  <2>1. 0 \in T
    <3>1. h[1] \in Seq(S) /\ 0 + 1 = 1
      BY <1>8, <1>l
    <3> QED  BY <3>1
  <2>2. ASSUME NEW n \in T PROVE n + 1 \in T
    <3>1. CASE (n + 1) + 1 \in 1..Len(q)
      <4>1. n + 1 \in 1..Len(q) /\ (n + 1) + 1 \in 2..Len(q) /\ ((n + 1) + 1) - 1 = n + 1
        BY <1>l, <3>1
      <4>2. h[n + 1] \in Seq(S) /\ h[(n + 1) + 1] = h[n + 1] \o q[(n + 1) + 1] /\ q[(n + 1) + 1] \in Seq(S)
        BY <4>1, <3>1, <1>l, <1>8
      <4>3. h[(n + 1) + 1] \in Seq(S)
        BY <4>2
      <4>4. n + 1 \in Nat
        OBVIOUS
      <4> HIDE DEF h
      <4> QED  BY <4>3, <4>4
    <3>2. CASE (n + 1) + 1 \notin 1..Len(q)
      BY <3>2
    <3> QED  BY <3>1, <3>2
  <2>3. T = Nat
    <3>1. T \subseteq Nat
      OBVIOUS
    <3> HIDE DEF T
    <3> QED  BY <2>1, <2>2, <3>1, NatSetInduction
  <2>4. ASSUME NEW n \in 1..Len(q) PROVE h[n] \in Seq(S)
    <3>1. n - 1 \in Nat /\ (n - 1) + 1 = n
      BY <1>l
    <3> QED  BY <3>1, <2>3
  <2> QED  BY <2>4, <1>5
<1> QED  BY <1>6, <1>8, <1>9

\* What is flattened is a sequence of the same elements.
LEMMA FlattenType == ASSUME NEW S, NEW q \in Seq(Seq(S)) PROVE FlattenSeq(q) \in Seq(S)
<1>1. CASE q = <<>>
  BY <1>1 DEF FlattenSeq
<1>2. CASE q # <<>>
  <2>1. PICK r \in [1..Len(q) -> Seq(S)] : FlattenSeq(q) = r[Len(q)]
    BY <1>2, FlattenRun
  <2>2. Len(q) \in 1..Len(q)
    BY <1>2
  <2> QED  BY <2>1, <2>2
<1> QED  BY <1>1, <1>2

\* A field of two bytes goes to the end of a sequence.
LEMMA FieldAdded ==
  ASSUME NEW s \in Seq(Int), NEW v \in Int
  PROVE  /\ s \o <<v, 0>> \in Seq(Int) /\ Len(s \o <<v, 0>>) = Len(s) + 2
         /\ (s \o <<v, 0>>)[Len(s) + 1] = v
         /\ \A i \in 1..Len(s) : (s \o <<v, 0>>)[i] = s[i]
<1>1. <<v, 0>> \in Seq(Int) /\ Len(<<v, 0>>) = 2 /\ <<v, 0>>[1] = v
  OBVIOUS
<1>2. Len(s) \in Nat
  OBVIOUS
<1> DEFINE w == <<v, 0>>
<1> HIDE DEF w
<1>3. w \in Seq(Int) /\ Len(w) = 2 /\ w[1] = v
  BY <1>1 DEF w
<1>4. s \o w \in Seq(Int) /\ Len(s \o w) = Len(s) + 2 /\ (s \o w)[Len(s) + 1] = v
      /\ \A i \in 1..Len(s) : (s \o w)[i] = s[i]
  <2>1. /\ s \o w \in Seq(Int) /\ Len(s \o w) = Len(s) + Len(w)
        /\ \A i \in 1..(Len(s) + Len(w)) : (s \o w)[i] = IF i <= Len(s) THEN s[i] ELSE w[i - Len(s)]
    BY <1>3, ConcatProperties
  <2>2. Len(s) + 1 \in 1..(Len(s) + 2) /\ ~(Len(s) + 1 <= Len(s)) /\ (Len(s) + 1) - Len(s) = 1
    BY <1>2
  <2>3. \A i \in 1..Len(s) : i \in 1..(Len(s) + 2) /\ i <= Len(s)
    BY <1>2
  <2> QED  BY <2>1, <2>2, <2>3, <1>3
<1> QED  BY <1>4 DEF w

\* One more value at the end of a sequence.
LEMMA ValueAdded ==
  ASSUME NEW s \in Seq(Int), NEW v \in Int
  PROVE  /\ s \o <<v>> \in Seq(Int) /\ Len(s \o <<v>>) = Len(s) + 1
         /\ (s \o <<v>>)[Len(s) + 1] = v
         /\ \A i \in 1..Len(s) : (s \o <<v>>)[i] = s[i]
<1> DEFINE w == <<v>>
<1>1. w \in Seq(Int) /\ Len(w) = 1 /\ w[1] = v
  OBVIOUS
<1> HIDE DEF w
<1>2. /\ s \o w \in Seq(Int) /\ Len(s \o w) = Len(s) + Len(w)
      /\ \A i \in 1..(Len(s) + Len(w)) : (s \o w)[i] = IF i <= Len(s) THEN s[i] ELSE w[i - Len(s)]
  BY <1>1, ConcatProperties
<1>3. Len(s) \in Nat
  OBVIOUS
<1>4. Len(s) + 1 \in 1..(Len(s) + 1) /\ ~(Len(s) + 1 <= Len(s)) /\ (Len(s) + 1) - Len(s) = 1
  BY <1>3
<1>5. \A i \in 1..Len(s) : i \in 1..(Len(s) + 1) /\ i <= Len(s)
  BY <1>3
<1> QED  BY <1>1, <1>2, <1>4, <1>5 DEF w

\* Fields of two bytes: the value of the j-th is in the first byte of its own.
LEMMA FieldsFacts ==
  ASSUME NEW vs \in Seq(Int)
  PROVE  /\ Fields(vs, 2) \in Seq(Int) /\ Len(Fields(vs, 2)) = 2 * Len(vs)
         /\ \A j \in 1..Len(vs) : Fields(vs, 2)[2 * j - 1] = vs[j]
<1> DEFINE q == [i \in 1..Len(vs) |-> Field(vs[i], 2)]
<1>l. Len(vs) \in Nat /\ \A i \in 1..Len(vs) : vs[i] \in Int
  OBVIOUS
<1>1. \A v \in Int : Field(v, 2) = <<v, 0>>
  BY DEF Field
<1>2. q \in Seq(Seq(Int)) /\ Len(q) = Len(vs) /\ \A i \in 1..Len(vs) : q[i] = <<vs[i], 0>>
  <2>1. \A i \in 1..Len(vs) : Field(vs[i], 2) = <<vs[i], 0>> /\ <<vs[i], 0>> \in Seq(Int)
    BY <1>1, <1>l
  <2>2. \A i \in 1..Len(vs) : q[i] = <<vs[i], 0>> /\ q[i] \in Seq(Int)
    BY <2>1
  <2>3. q \in [1..Len(vs) -> Seq(Int)]
    BY <2>2
  <2> HIDE DEF q
  <2> QED  BY <2>2, <2>3, <1>l
<1>3. Fields(vs, 2) = FlattenSeq(q)
  BY DEF Fields
<1> HIDE DEF q
<1>4. CASE vs = <<>>
  <2>1. q = <<>>
    BY <1>2, <1>4
  <2>2. Fields(vs, 2) = <<>>
    BY <2>1, <1>3 DEF FlattenSeq
  <2>3. Len(vs) = 0 /\ 2 * 0 = 0 /\ 1..0 = {} /\ <<>> \in Seq(Int) /\ Len(<<>>) = 0
    BY <1>4
  <2> QED  BY <2>2, <2>3
<1>5. CASE vs # <<>>
  <2>0. q # <<>> /\ Len(vs) > 0
    BY <1>2, <1>5
  <2>1. PICK r \in [1..Len(q) -> Seq(Int)] :
           /\ r[1] = q[1]
           /\ \A n \in 2..Len(q) : r[n] = r[n - 1] \o q[n]
           /\ FlattenSeq(q) = r[Len(q)]
    BY <1>2, <2>0, FlattenRun
  <2> DEFINE Good(n) == Len(r[n]) = 2 * n /\ \A j \in 1..n : r[n][2 * j - 1] = vs[j]
             T == {n \in Nat : n + 1 \in 1..Len(vs) => Good(n + 1)}
  <2>2. 0 \in T
    <3>1. r[1] = <<vs[1], 0>> /\ 1 \in 1..Len(vs)
      BY <2>1, <2>0, <1>2, <1>l
    <3>2. Len(r[1]) = 2 /\ r[1][1] = vs[1]
      BY <3>1
    <3>3. Good(1)
      <4>1. 2 * 1 = 2 /\ 2 * 1 - 1 = 1 /\ \A j \in 1..1 : j = 1
        OBVIOUS
      <4> QED  BY <3>2, <4>1
    <3> HIDE DEF Good
    <3> QED  BY <3>3
  <2>3. ASSUME NEW n \in T PROVE n + 1 \in T
    <3>1. CASE (n + 1) + 1 \in 1..Len(vs)
      <4> DEFINE m == (n + 1) + 1
                 s == r[n + 1]
      <4>1. n + 1 \in 1..Len(vs) /\ m \in 2..Len(vs) /\ m \in 1..Len(vs) /\ m - 1 = n + 1 /\ m \in Nat /\ n \in Nat
        BY <1>l, <3>1
      <4>2. s \in Seq(Int) /\ r[m] = s \o <<vs[m], 0>>
        BY <4>1, <1>2, <2>1
      <4>3. Len(s) = 2 * (n + 1) /\ \A j \in 1..(n + 1) : s[2 * j - 1] = vs[j]
        BY <4>1
      <4>4. vs[m] \in Int
        BY <4>1, <1>l
      <4> HIDE DEF s
      <4>5. Len(r[m]) = 2 * m
        <5>1. Len(r[m]) = Len(s) + 2
          BY <4>2, <4>4, FieldAdded
        <5> QED  BY <5>1, <4>3, <4>1
      <4>6. ASSUME NEW j \in 1..m PROVE r[m][2 * j - 1] = vs[j]
        <5>1. CASE j = m
          <6>1. 2 * j - 1 = Len(s) + 1
            BY <5>1, <4>3, <4>1
          <6>2. r[m][Len(s) + 1] = vs[m]
            BY <4>2, <4>4, FieldAdded
          <6> QED  BY <6>1, <6>2, <5>1
        <5>2. CASE j # m
          <6>1. j \in 1..(n + 1) /\ 2 * j - 1 \in 1..Len(s)
            BY <5>2, <4>3, <4>1
          <6>2. r[m][2 * j - 1] = s[2 * j - 1]
            BY <6>1, <4>2, <4>4, FieldAdded
          <6> QED  BY <6>1, <6>2, <4>3
        <5> QED  BY <5>1, <5>2
      <4> QED  BY <4>1, <4>5, <4>6
    <3>2. CASE (n + 1) + 1 \notin 1..Len(vs)
      BY <3>2
    <3> QED  BY <3>1, <3>2
  <2>4. T = Nat
    <3>1. T \subseteq Nat
      OBVIOUS
    <3> HIDE DEF T
    <3> QED  BY <2>2, <2>3, <3>1, NatSetInduction
  <2>5. Good(Len(vs))
    <3>1. Len(vs) - 1 \in Nat /\ (Len(vs) - 1) + 1 = Len(vs)
      BY <2>0, <1>l
    <3>2. Len(vs) - 1 \in T /\ Len(vs) \in 1..Len(vs)
      <4>1. Len(vs) \in 1..Len(vs)
        BY <2>0, <1>l
      <4> HIDE DEF T
      <4> QED  BY <3>1, <2>4, <4>1
    <3> HIDE DEF Good
    <3>3. \A n \in T : n + 1 \in 1..Len(vs) => Good(n + 1)
      OBVIOUS
    <3> HIDE DEF T
    <3> QED  BY <3>1, <3>2, <3>3
  <2>6. Fields(vs, 2) = r[Len(vs)]
    BY <2>1, <1>2, <1>3
  <2>7. r[Len(vs)] \in Seq(Int)
    <3>1. Len(vs) \in 1..Len(q)
      BY <1>2, <2>0, <1>l
    <3> QED  BY <3>1, <2>1
  <2> QED  BY <2>5, <2>6, <2>7
<1> QED  BY <1>4, <1>5

-----------------------------------------------------------------------------
(* What is packed at one end and unpacked at the other.                    *)

\* A field of two bytes gives back its value to half a count, or the end of its range; whole
\* millimetres of the arm come back as they were.
LEMMA QuantizedFacts ==
  /\ \A v \in Int : Quantized(v, 10, "Standard") \in Int /\ Near(Quantized(v, 10, "Standard") * 10, v, 10)
  /\ \A x \in -95..155 : Quantized(x * 1000, 1000, "Standard") = x
<1>1. ASSUME NEW v \in Int
      PROVE  Quantized(v, 10, "Standard") \in Int /\ Near(Quantized(v, 10, "Standard") * 10, v, 10)
  <2> DEFINE n == Rounded(v, 10)
  <2>1. n \in Int /\ 2 * (n * 10 - v) \in -10..10
    BY DEF Rounded
  <2>2. Quantized(v, 10, "Standard") = Bounded(n, -32768, 32767)
    BY DEF Quantized
  <2> HIDE DEF n
  <2>3. Bounded(n, -32768, 32767) \in Int /\ Near(Bounded(n, -32768, 32767) * 10, v, 10)
    BY <2>1 DEF Bounded, Near
  <2> QED  BY <2>2, <2>3
<1>2. ASSUME NEW x \in -95..155 PROVE Quantized(x * 1000, 1000, "Standard") = x
  <2>1. Rounded(x * 1000, 1000) = x
    BY DEF Rounded
  <2>2. Quantized(x * 1000, 1000, "Standard") = Bounded(x, -32768, 32767)
    BY <2>1 DEF Quantized
  <2> QED  BY <2>2 DEF Bounded
<1> QED  BY <1>1, <1>2

\* The part of a frame that a block occupies.
LEMMA BlockFacts ==
  ASSUME NEW a \in Seq(Int), NEW b \in Seq(Int)
  PROVE  Bytes(a \o b, 0, Len(a)) = a /\ Bytes(a \o b, Len(a), Len(b)) = b
<1> DEFINE m == Len(a)
           n == Len(b)
<1>0. m \in Nat /\ n \in Nat /\ m = Len(a) /\ n = Len(b)
  OBVIOUS
<1> HIDE DEF m, n
<1>1. /\ a \o b \in Seq(Int) /\ Len(a \o b) = m + n
      /\ \A i \in 1..(m + n) : (a \o b)[i] = IF i <= m THEN a[i] ELSE b[i - m]
  BY <1>0, ConcatProperties
<1> DEFINE s == a \o b
<1>2. s \in Seq(Int) /\ Len(s) = m + n /\ \A i \in 1..(m + n) : s[i] = IF i <= m THEN a[i] ELSE b[i - m]
  BY <1>1
<1> HIDE DEF s
<1>3. Bytes(s, 0, m) = a
  <2>1. Bytes(s, 0, m) = SubSeq(s, 1, m)
    BY <1>0, <1>2 DEF Bytes
  <2>2. \A i \in 1..m : s[i] \in Int
    BY <1>0, <1>2
  <2>3. /\ SubSeq(s, 1, m) \in Seq(Int) /\ Len(SubSeq(s, 1, m)) = m
        /\ \A i \in 1..m : SubSeq(s, 1, m)[i] = s[i]
    BY <1>0, <2>2
  <2>4. \A i \in 1..m : SubSeq(s, 1, m)[i] = a[i]
    BY <1>0, <2>3, <1>2
  <2> DEFINE t == SubSeq(s, 1, m)
  <2> HIDE DEF t
  <2>5. t \in Seq(Int) /\ Len(t) = Len(a) /\ \A i \in 1..Len(t) : t[i] = a[i]
    BY <1>0, <2>3, <2>4 DEF t
  <2>6. t = a
    BY <2>5, SeqEqual
  <2> QED  BY <2>6, <2>1 DEF t
<1>4. Bytes(s, m, n) = b
  <2>0. ~(Len(s) < m + n)
    BY <1>0, <1>2
  <2>1. Bytes(s, m, n) = SubSeq(s, m + 1, m + n)
    BY <2>0 DEF Bytes
  <2> DEFINE t == SubSeq(s, m + 1, m + n)
  <2>2. \A i \in (m + 1)..(m + n) : s[i] \in Int
    BY <1>0, <1>2
  <2>3. /\ t \in Seq(Int) /\ Len(t) = n
        /\ \A i \in 1..n : t[i] = s[m + i]
    BY <1>0, <2>2
  <2> HIDE DEF t
  <2>4. \A i \in 1..n : m + i \in 1..(m + n) /\ ~(m + i <= m) /\ (m + i) - m = i
    BY <1>0
  <2>5. \A i \in 1..n : t[i] = b[i]
    BY <2>3, <2>4, <1>2
  <2>6. t = b
    BY <1>0, <2>3, <2>5, SeqEqual
  <2> QED  BY <2>6, <2>1 DEF t
<1> QED  BY <1>3, <1>4 DEF s, m, n

\* The two blocks of a command.
LEMMA PackedVelocity ==
  ASSUME NEW va \in [1..6 -> Int]
  PROVE  /\ PackVelocityAttitude(va, "Standard") \in Seq(Int) /\ Len(PackVelocityAttitude(va, "Standard")) = 12
         /\ \A i \in 1..6 : Near(UnpackVelocityAttitude(PackVelocityAttitude(va, "Standard"), "Standard")[i], va[i], 10)
<1> DEFINE q == [i \in 1..6 |-> Quantized(va[i], 10, "Standard")]
           b == Fields(q, 2)
<1>1. PackVelocityAttitude(va, "Standard") = b
  BY DEF PackVelocityAttitude, ContinuousStep, BytesPerField
<1>2. \A i \in 1..6 : q[i] \in Int /\ Near(q[i] * 10, va[i], 10)
  BY QuantizedFacts
<1>3. q \in Seq(Int) /\ Len(q) = 6
  <2>1. q \in [1..6 -> Int]
    BY <1>2
  <2> HIDE DEF q
  <2> QED  BY <2>1, ArrayIsSeq
<1> HIDE DEF q
<1>4. b \in Seq(Int) /\ Len(b) = 12 /\ \A j \in 1..6 : b[2 * j - 1] = q[j]
  <2>1. b \in Seq(Int) /\ Len(b) = 2 * Len(q) /\ \A j \in 1..Len(q) : b[2 * j - 1] = q[j]
    BY <1>3, FieldsFacts
  <2> HIDE DEF b
  <2> QED  BY <1>3, <2>1
<1> HIDE DEF b
<1>5. UnpackVelocityAttitude(b, "Standard") = [i \in 1..6 |-> b[(i - 1) * 2 + 1] * 10]
  BY <1>4 DEF UnpackVelocityAttitude, BytesPerField, ContinuousStep, FieldAt
<1>6. \A i \in 1..6 : (i - 1) * 2 + 1 = 2 * i - 1
  OBVIOUS
<1>7. ASSUME NEW i \in 1..6 PROVE UnpackVelocityAttitude(b, "Standard")[i] = q[i] * 10
  <2>1. UnpackVelocityAttitude(b, "Standard")[i] = b[(i - 1) * 2 + 1] * 10
    BY <1>5
  <2>2. b[(i - 1) * 2 + 1] = b[2 * i - 1]
    BY <1>6
  <2>3. b[2 * i - 1] = q[i]
    BY <1>4
  <2> QED  BY <2>1, <2>2, <2>3
<1> QED  BY <1>1, <1>2, <1>4, <1>7

\* The arm and the claw are unpacked as they were packed.
LEMMA PackedArm ==
  ASSUME NEW c \in CommandType
  PROVE  LET arm == [xyz |-> <<c.arm_x * 1000, 0, c.arm_z * 1000>>, gripper |-> c.claw]
             b == PackCartesian(arm, "Standard")
             got == UnpackCartesian(b, "Standard")
         IN  /\ b \in Seq(Int) /\ Len(b) = 8
             /\ got.xyz[1] \div 1000 = c.arm_x /\ got.xyz[3] \div 1000 = c.arm_z /\ got.gripper = c.claw
<1> DEFINE arm == [xyz |-> <<c.arm_x * 1000, 0, c.arm_z * 1000>>, gripper |-> c.claw]
           q == [i \in 1..3 |-> Quantized(arm.xyz[i], 1000, "Standard")] \o <<c.claw>>
           b == Fields(q, 2)
<1>c. c.arm_x \in -95..155 /\ c.arm_z \in -95..155 /\ c.claw \in 0..255 /\ c.arm_x \in Int /\ c.arm_z \in Int /\ c.claw \in Int
  BY DEF CommandType
<1>1. PackCartesian(arm, "Standard") = b
  BY DEF PackCartesian, PositionStep, BytesPerField
<1>2. arm.xyz[1] = c.arm_x * 1000 /\ arm.xyz[2] = 0 * 1000 /\ arm.xyz[3] = c.arm_z * 1000
  OBVIOUS
<1>3. /\ Quantized(arm.xyz[1], 1000, "Standard") = c.arm_x
      /\ Quantized(arm.xyz[2], 1000, "Standard") = 0
      /\ Quantized(arm.xyz[3], 1000, "Standard") = c.arm_z
  <2>1. 0 \in -95..155
    OBVIOUS
  <2> HIDE DEF arm
  <2>2. \A x \in -95..155 : Quantized(x * 1000, 1000, "Standard") = x
    BY QuantizedFacts
  <2>3. /\ Quantized(c.arm_x * 1000, 1000, "Standard") = c.arm_x
        /\ Quantized(0 * 1000, 1000, "Standard") = 0
        /\ Quantized(c.arm_z * 1000, 1000, "Standard") = c.arm_z
    BY <1>c, <2>1, <2>2
  <2> QED  BY <1>2, <2>3
<1> HIDE DEF arm
<1> DEFINE xyz == [i \in 1..3 |-> Quantized(arm.xyz[i], 1000, "Standard")]
<1>4. xyz \in Seq(Int) /\ Len(xyz) = 3 /\ xyz[1] = c.arm_x /\ xyz[2] = 0 /\ xyz[3] = c.arm_z
  <2>1. xyz = <<c.arm_x, 0, c.arm_z>>
    BY <1>3
  <2> QED  BY <2>1, <1>c
<1> HIDE DEF xyz
<1>5. q \in Seq(Int) /\ Len(q) = 4 /\ q[1] = c.arm_x /\ q[3] = c.arm_z /\ q[4] = c.claw
  <2>1. q = xyz \o <<c.claw>>
    BY DEF xyz
  <2>2. /\ q \in Seq(Int) /\ Len(q) = Len(xyz) + 1 /\ q[Len(xyz) + 1] = c.claw
        /\ \A i \in 1..Len(xyz) : q[i] = xyz[i]
    <3> DEFINE n == c.claw
    <3>1. n \in Int
      BY <1>c
    <3> HIDE DEF n, q
    <3>2. /\ xyz \o <<n>> \in Seq(Int) /\ Len(xyz \o <<n>>) = Len(xyz) + 1
          /\ (xyz \o <<n>>)[Len(xyz) + 1] = n
          /\ \A i \in 1..Len(xyz) : (xyz \o <<n>>)[i] = xyz[i]
      BY <3>1, <1>4, ValueAdded
    <3>3. q = xyz \o <<n>>
      BY <2>1 DEF n
    <3>4. n = c.claw
      BY DEF n
    <3> QED  BY <3>2, <3>3, <3>4
  <2> HIDE DEF q
  <2>3. 1 \in 1..Len(xyz) /\ 3 \in 1..Len(xyz)
    BY <1>4
  <2> QED  BY <2>2, <2>3, <1>4
<1> HIDE DEF q
<1>6. b \in Seq(Int) /\ Len(b) = 8 /\ \A j \in 1..4 : b[2 * j - 1] = q[j]
  <2>1. b \in Seq(Int) /\ Len(b) = 2 * Len(q) /\ \A j \in 1..Len(q) : b[2 * j - 1] = q[j]
    BY <1>5, FieldsFacts
  <2> HIDE DEF b
  <2> QED  BY <1>5, <2>1
<1>7. b[1] = c.arm_x /\ b[5] = c.arm_z /\ b[7] = c.claw
  <2>1. 1 \in 1..4 /\ 3 \in 1..4 /\ 4 \in 1..4 /\ 2 * 1 - 1 = 1 /\ 2 * 3 - 1 = 5 /\ 2 * 4 - 1 = 7
    OBVIOUS
  <2> QED  BY <2>1, <1>5, <1>6
<1> HIDE DEF b
<1>8. UnpackCartesian(b, "Standard") =
        [xyz |-> [i \in 1..3 |-> b[(i - 1) * 2 + 1] * 1000], gripper |-> b[3 * 2 + 1] % 256]
  BY <1>6 DEF UnpackCartesian, BytesPerField, PositionStep, FieldAt
<1> DEFINE got == UnpackCartesian(b, "Standard")
<1>9. got.xyz[1] = c.arm_x * 1000 /\ got.xyz[3] = c.arm_z * 1000 /\ got.gripper = c.claw % 256
  <2>1. (1 - 1) * 2 + 1 = 1 /\ (3 - 1) * 2 + 1 = 5 /\ 3 * 2 + 1 = 7
    OBVIOUS
  <2> QED  BY <1>7, <1>8, <2>1
<1>10. (c.arm_x * 1000) \div 1000 = c.arm_x /\ (c.arm_z * 1000) \div 1000 = c.arm_z /\ c.claw % 256 = c.claw
  BY <1>c
<1> HIDE DEF got
<1> QED  BY <1>1, <1>6, <1>9, <1>10 DEF got, arm

\* A command is unpacked to what was meant.
LEMMA CommandArrives ==
  ASSUME NEW c \in CommandType, NEW r, r = UnpackCommand(PackCommand(c)), r # Absent
  PROVE  /\ r.arm_x = c.arm_x /\ r.arm_z = c.arm_z /\ r.claw = c.claw
         /\ \A i \in 1..6 : Near(r.va[i], c.va[i], 10)
<1> DEFINE a == PackVelocityAttitude(c.va, "Standard")
           b == PackCartesian([xyz |-> <<c.arm_x * 1000, 0, c.arm_z * 1000>>, gripper |-> c.claw], "Standard")
<1>1. a \in Seq(Int) /\ Len(a) = 12 /\ \A i \in 1..6 : Near(UnpackVelocityAttitude(a, "Standard")[i], c.va[i], 10)
  BY PackedVelocity DEF CommandType
<1>2. /\ b \in Seq(Int) /\ Len(b) = 8
      /\ LET got == UnpackCartesian(b, "Standard")
         IN  got.xyz[1] \div 1000 = c.arm_x /\ got.xyz[3] \div 1000 = c.arm_z /\ got.gripper = c.claw
  BY PackedArm
<1>3. PackCommand(c) = a \o b
  BY DEF PackCommand
<1> HIDE DEF a, b
<1>4. Bytes(a \o b, 0, 12) = a /\ Bytes(a \o b, 12, 8) = b
  <2>0. a \in Seq(Int) /\ b \in Seq(Int) /\ Len(a) = 12 /\ Len(b) = 8
    BY <1>1, <1>2
  <2>1. Bytes(a \o b, 0, Len(a)) = a /\ Bytes(a \o b, Len(a), Len(b)) = b
    BY <2>0, BlockFacts
  <2> QED  BY <2>0, <2>1
<1>5. a # Absent /\ b # Absent
  BY <1>3, <1>4 DEF UnpackCommand, VelocityAttitudeLen, CartesianLen
<1>6. r = LET got == UnpackCartesian(b, "Standard")
          IN  [va |-> UnpackVelocityAttitude(a, "Standard"),
               arm_x |-> got.xyz[1] \div 1000, arm_z |-> got.xyz[3] \div 1000, claw |-> got.gripper]
  BY <1>3, <1>4, <1>5 DEF UnpackCommand, VelocityAttitudeLen, CartesianLen
<1> QED  BY <1>1, <1>2, <1>6

\* A report is unpacked to what was meant, whatever the number of its angles.
LEMMA ReportArrives ==
  ASSUME NEW t \in ReportType, NEW r, r = UnpackTelemetry(PackTelemetry(t)), r # Absent
  PROVE  r.battery = t.battery /\ \A i \in DOMAIN t.angles : Near(r.angles[i], t.angles[i], 10)
<1> DEFINE q == [i \in 1..Len(t.angles) |-> Quantized(t.angles[i], 10, "Standard")]
           f == Fields(q, 2)
           b == <<t.battery>> \o f
<1>t. t.battery \in Int /\ t.angles \in Seq(Int) /\ Len(t.angles) \in Nat /\ DOMAIN t.angles = 1..Len(t.angles)
      /\ \A i \in 1..Len(t.angles) : t.angles[i] \in Int
  <2>1. t.battery \in 0..255 /\ t.angles \in Seq(Int)
    BY DEF ReportType
  <2>2. t.battery \in Int
    <3> DEFINE n == t.battery
    <3>1. n \in 0..255
      BY <2>1
    <3> HIDE DEF n
    <3>2. n \in Int
      BY <3>1
    <3> QED  BY <3>2 DEF n
  <2> DEFINE s == t.angles
  <2> HIDE DEF s
  <2>3. s \in Seq(Int)
    BY <2>1 DEF s
  <2>4. Len(s) \in Nat /\ DOMAIN s = 1..Len(s) /\ \A i \in 1..Len(s) : s[i] \in Int
    BY <2>3
  <2> QED  BY <2>1, <2>2, <2>4 DEF s
<1>1. \A i \in 1..Len(t.angles) : q[i] \in Int /\ Near(q[i] * 10, t.angles[i], 10)
  BY <1>t, QuantizedFacts
<1>2. q \in Seq(Int) /\ Len(q) = Len(t.angles)
  <2>1. q \in [1..Len(t.angles) -> Int]
    BY <1>1
  <2> HIDE DEF q
  <2> QED  BY <2>1, <1>t, ArrayIsSeq
<1>3. t = Absent \/ PackTelemetry(t) = b
  BY DEF PackTelemetry
<1> HIDE DEF q
<1>4. f \in Seq(Int) /\ Len(f) = 2 * Len(t.angles) /\ \A j \in 1..Len(t.angles) : f[2 * j - 1] = q[j]
  BY <1>2, FieldsFacts
<1> HIDE DEF f
<1>5. <<t.battery>> \in Seq(Int) /\ Len(<<t.battery>>) = 1 /\ <<t.battery>>[1] = t.battery
  BY <1>t
<1>6. /\ b \in Seq(Int) /\ Len(b) = 1 + 2 * Len(t.angles) /\ b[1] = t.battery
      /\ \A j \in 1..Len(t.angles) : b[2 * j] = q[j]
  <2> DEFINE w == <<t.battery>>
  <2>0. w \in Seq(Int) /\ Len(w) = 1 /\ w[1] = t.battery
    BY <1>5
  <2> HIDE DEF w
  <2>1. /\ w \o f \in Seq(Int) /\ Len(w \o f) = 1 + Len(f)
        /\ \A i \in 1..(1 + Len(f)) : (w \o f)[i] = IF i <= 1 THEN w[i] ELSE f[i - 1]
    <3>1. /\ w \o f \in Seq(Int) /\ Len(w \o f) = Len(w) + Len(f)
          /\ \A i \in 1..(Len(w) + Len(f)) : (w \o f)[i] = IF i <= Len(w) THEN w[i] ELSE f[i - Len(w)]
      BY <2>0, <1>4, ConcatProperties
    <3> QED  BY <2>0, <3>1
  <2>2. 1 \in 1..(1 + Len(f)) /\ 1 <= 1
    BY <1>4, <1>t
  <2>3. ASSUME NEW j \in 1..Len(t.angles) PROVE (w \o f)[2 * j] = q[j]
    <3>1. 2 * j \in 1..(1 + Len(f)) /\ ~(2 * j <= 1)
      BY <1>4, <1>t
    <3> QED  BY <3>1, <2>1, <1>4
  <2> QED  BY <2>0, <2>1, <2>2, <2>3, <1>4 DEF w
<1> HIDE DEF b
<1>7. CASE t = Absent
  <2>1. PackTelemetry(t) = <<>>
    BY <1>7 DEF PackTelemetry
  <2>2. UnpackTelemetry(<<>>) = Absent
    BY DEF UnpackTelemetry, TelemetryHeaderLen
  <2> QED  BY <2>1, <2>2
<1>8. CASE t # Absent
  <2>1. r = UnpackTelemetry(b)
    BY <1>3, <1>8
  <2>2. (Len(b) - 1) \div 2 = Len(t.angles)
    <3> DEFINE n == Len(t.angles)
    <3>1. n \in Nat /\ Len(b) = 1 + 2 * n
      BY <1>6, <1>t
    <3> HIDE DEF n
    <3>2. (Len(b) - 1) \div 2 = n
      BY <3>1
    <3> QED  BY <3>2 DEF n
  <2>3. r = [battery |-> b[1], angles |-> [i \in 1..Len(t.angles) |-> b[2 * i] * 10]]
    BY <2>1, <2>2 DEF UnpackTelemetry
  <2>4. r.battery = t.battery /\ \A i \in 1..Len(t.angles) : r.angles[i] = q[i] * 10
    BY <2>3, <1>6
  <2>5. \A i \in 1..Len(t.angles) : Near(q[i] * 10, t.angles[i], 10)
    BY <1>1 DEF q
  <2> QED  BY <2>4, <2>5, <1>t
<1> QED  BY <1>7, <1>8

-----------------------------------------------------------------------------
(* The operator's hands.                                                   *)

\* An input made of integers is one.
LEMMA InputFacts ==
  /\ \A kind \in Kinds : \A x, y \in Int : Input(kind, x, y) \in InputType
  /\ \A kind \in Kinds : Plain(kind) \in InputType
  /\ \A button : ClawNudge(button) \in InputType
<1>1. \A kind \in Kinds : \A x, y \in Int : Input(kind, x, y) \in InputType
  BY DEF Input, InputType
<1>2. \A kind \in Kinds : Plain(kind) \in InputType
  BY DEF Plain, Input, InputType
<1>3. \A button : ClawNudge(button) \in InputType
  BY DEF ClawNudge, Input, InputType, Kinds
<1> QED  BY <1>1, <1>2, <1>3

\* Every key is an input.
LEMMA KeyInputs == ASSUME NEW key \in DOMAIN KeyInput PROVE KeyInput[key] \in InputType
<1>1. KeyInput \in
        [w : InputType, s : InputType, a : InputType, d : InputType, space : InputType, left : InputType,
         right : InputType, up : InputType, down : InputType, open_bracket : InputType, bracket : InputType,
         comma : InputType, period : InputType, zero : InputType, B : InputType, b : InputType, nine : InputType,
         one : InputType, two : InputType, i : InputType, k : InputType, j : InputType, l : InputType,
         u : InputType, o : InputType, e : InputType, c : InputType, r : InputType]
  BY DEF KeyInput, Input, Plain, InputType, Kinds
<1> QED  BY <1>1

\* The two axes of a stick.
LEMMA AxesFacts == ASSUME NEW a \in Axes PROVE a[1] \in Int /\ a[2] \in Int
<1> DEFINE S == -1000..1000
<1>1. a \in S \X S
  BY DEF Axes
<1>2. \A u \in S : u \in Int
  OBVIOUS
<1> HIDE DEF S
<1>3. a[1] \in S /\ a[2] \in S
  BY <1>1
<1> QED  BY <1>2, <1>3

\* Every button keeps the state of the pad and sends inputs.
LEMMA ButtonFacts ==
  ASSUME NEW p \in PadType, NEW button
  PROVE  /\ Pressed(p, button) \in PadType /\ PressSends(p, button) \in Seq(InputType)
         /\ Released(p, button) \in PadType
         /\ button \in DPad => DPadNudge(p, button) \in InputType
<1>1. ASSUME button \in DPad PROVE DPadNudge(p, button) \in InputType
  <2>0. ArmStep(p) = 2 \/ ArmStep(p) = 10
    BY DEF ArmStep
  <2>1. ArmStep(p) \in Int /\ -ArmStep(p) \in Int
    BY <2>0
  <2> DEFINE n == ArmStep(p)
             m == -ArmStep(p)
  <2>2. n \in Int /\ m \in Int
    BY <2>1
  <2> HIDE DEF n, m
  <2>3. Input("Arm", 0, n) \in InputType /\ Input("Arm", 0, m) \in InputType
        /\ Input("Arm", n, 0) \in InputType /\ Input("Arm", m, 0) \in InputType
    BY <2>2 DEF Input, InputType, Kinds
  <2> QED  BY <1>1, <2>3 DEF DPad, DPadNudge, n, m
<1>2. Pressed(p, button) \in PadType
  <2> DEFINE held == IF button \in Holdable THEN [p EXCEPT !.held = @ \cup {button}] ELSE p
  <2>1. held \in PadType
    BY DEF PadType
  <2> HIDE DEF held
  <2>2. [p EXCEPT !.fine = ~@] \in PadType
    BY DEF PadType
  <2>3. Latched(held, button) \in PadType
    BY <2>1 DEF Latched, PadType
  <2> QED  BY <2>1, <2>2, <2>3 DEF Pressed, held
<1>3. PressSends(p, button) \in Seq(InputType)
  <2>1. ClawNudge(button) \in InputType /\ Plain("Estop") \in InputType /\ Plain("EstopClear") \in InputType
    BY InputFacts DEF Kinds
  <2>2. button \in DOMAIN OneShot => Plain(OneShot[button]) \in InputType
    <3>1. OneShot \in [South : Kinds, East : Kinds, West : Kinds, Start : Kinds, Select : Kinds]
      BY DEF OneShot, Kinds
    <3>2. button \in DOMAIN OneShot => OneShot[button] \in Kinds
      BY <3>1
    <3> QED  BY <3>2, InputFacts
  <2>3. /\ \A x \in InputType : <<x>> \in Seq(InputType)
        /\ \A x, y \in InputType : <<x>> \o <<y>> \in Seq(InputType) /\ <<x>> \o <<>> \in Seq(InputType)
        /\ <<>> \in Seq(InputType)
    OBVIOUS
  <2>o. DOMAIN OneShot = {"South", "East", "West", "Start", "Select"}
    BY DEF OneShot
  <2>4. CASE button \in DOMAIN OneShot
    <3>0. button \notin {"LB", "RB"} /\ button \notin {"L3", "R3"} /\ button \notin DPad
      BY <2>4, <2>o DEF DPad
    <3>1. PressSends(p, button) = <<Plain(OneShot[button])>>
      BY <2>4, <3>0 DEF PressSends
    <3> QED  BY <3>1, <2>2, <2>3, <2>4
  <2>5. CASE button \in {"LB", "RB"}
    <3>0. button \notin DOMAIN OneShot /\ button \notin {"L3", "R3"} /\ button \notin DPad
      BY <2>5, <2>o DEF DPad
    <3>1. PressSends(p, button) =
            <<ClawNudge(button)>> \o (IF {"LB", "RB"} \subseteq Pressed(p, button).held THEN <<Plain("Estop")>> ELSE <<>>)
      BY <2>5, <3>0 DEF PressSends
    <3> QED  BY <3>1, <2>1, <2>3
  <2>6. CASE button \in {"L3", "R3"}
    <3>0. button \notin DOMAIN OneShot /\ button \notin {"LB", "RB"} /\ button \notin DPad
      BY <2>6, <2>o DEF DPad
    <3>1. PressSends(p, button) = IF {"L3", "R3"} \subseteq Pressed(p, button).held THEN <<Plain("EstopClear")>> ELSE <<>>
      BY <2>6, <3>0 DEF PressSends
    <3> QED  BY <3>1, <2>1, <2>3
  <2>7. CASE button \in DPad
    <3>1. PressSends(p, button) = <<DPadNudge(p, button)>>
      BY <2>7 DEF PressSends, OneShot, DPad
    <3> QED  BY <3>1, <1>1, <2>3, <2>7
  <2>8. CASE button \notin (DOMAIN OneShot \cup {"LB", "RB"} \cup {"L3", "R3"} \cup DPad)
    BY <2>3, <2>8 DEF PressSends
  <2> QED  BY <2>4, <2>5, <2>6, <2>7, <2>8
<1>4. Released(p, button) \in PadType
  BY DEF Released, PadType
<1> QED  BY <1>1, <1>2, <1>3, <1>4

\* send_refresh sends inputs.
LEMMA RefreshFacts == ASSUME NEW p \in PadType PROVE RefreshSends(p) \in Seq(InputType)
<1> DEFINE When(condition, input) == IF condition THEN <<input>> ELSE <<>>
           x == p.right[1]
           turned == CASE p.mode = "Turn" -> Input("Turn", -Scaled(x, 60000), 0)
                       [] p.mode = "Roll" -> Input("Roll", Scaled(x, 600), 0)
                       [] p.mode = "Yaw" -> Input("Yaw", -Scaled(x, 600), 0)
           moved == Input("Move", Scaled(p.left[2], 15000), -Scaled(p.left[1], 12000))
           pitched == Input("Pitch", -Scaled(p.right[2], 600), 0)
           Button(n) == <<"DPadUp", "DPadDown", "DPadLeft", "DPadRight">>[n]
           nudges == [n \in 1..4 |-> When(Button(n) \in p.held, DPadNudge(p, Button(n)))]
<1> DEFINE lx == p.left[1]
           ly == p.left[2]
           ry == p.right[2]
<1>p. lx \in Int /\ ly \in Int /\ x \in Int /\ ry \in Int /\ p.mode \in {"Turn", "Roll", "Yaw"}
  <2>1. p.left \in Axes /\ p.right \in Axes /\ p.mode \in {"Turn", "Roll", "Yaw"}
    BY DEF PadType
  <2> QED  BY <2>1, AxesFacts
<1>s. \A v \in Int : /\ Scaled(v, 60000) \in Int /\ -Scaled(v, 60000) \in Int /\ Scaled(v, 600) \in Int
                     /\ -Scaled(v, 600) \in Int /\ Scaled(v, 15000) \in Int /\ -Scaled(v, 12000) \in Int
  BY DEF Scaled
<1>1. turned \in InputType
  <2>1. -Scaled(x, 60000) \in Int /\ Scaled(x, 600) \in Int /\ -Scaled(x, 600) \in Int
    <3>1. x \in Int
      BY <1>p
    <3> HIDE DEF x
    <3>2. -Scaled(x, 60000) \in Int
      BY <3>1, <1>s
    <3>3. Scaled(x, 600) \in Int /\ -Scaled(x, 600) \in Int
      BY <3>1, <1>s
    <3> QED  BY <3>2, <3>3
  <2> DEFINE t1 == -Scaled(x, 60000)
             t2 == Scaled(x, 600)
             t3 == -Scaled(x, 600)
  <2>2. t1 \in Int /\ t2 \in Int /\ t3 \in Int
    BY <2>1
  <2> HIDE DEF t1, t2, t3
  <2>3. Input("Turn", t1, 0) \in InputType /\ Input("Roll", t2, 0) \in InputType /\ Input("Yaw", t3, 0) \in InputType
    BY <2>2 DEF Input, InputType, Kinds
  <2> QED  BY <1>p, <2>3 DEF t1, t2, t3
<1>2. moved \in InputType
  <2> HIDE DEF lx, ly
  <2>1. Scaled(ly, 15000) \in Int /\ -Scaled(lx, 12000) \in Int
    BY <1>p, <1>s
  <2>2. Input("Move", Scaled(ly, 15000), -Scaled(lx, 12000)) \in InputType
    BY <2>1 DEF Input, InputType, Kinds
  <2> QED  BY <2>2 DEF lx, ly
<1>3. pitched \in InputType
  <2> HIDE DEF ry
  <2>1. -Scaled(ry, 600) \in Int
    BY <1>p, <1>s
  <2>2. Input("Pitch", -Scaled(ry, 600), 0) \in InputType
    BY <2>1 DEF Input, InputType, Kinds
  <2> QED  BY <2>2 DEF ry
<1>4. ClawNudge("LB") \in InputType /\ ClawNudge("RB") \in InputType
  BY InputFacts
<1>5. FlattenSeq(nudges) \in Seq(InputType)
  <2>1. ASSUME NEW n \in 1..4 PROVE nudges[n] \in Seq(InputType)
    <3>1. Button(n) \in DPad
      <4>1. n = 1 \/ n = 2 \/ n = 3 \/ n = 4
        OBVIOUS
      <4> QED  BY <4>1 DEF DPad
    <3> DEFINE b == Button(n)
    <3>2. b \in DPad
      BY <3>1
    <3> HIDE DEF b, Button
    <3>3. DPadNudge(p, b) \in InputType
      BY <3>2, ButtonFacts
    <3> DEFINE d == DPadNudge(p, b)
    <3>4. d \in InputType
      BY <3>3
    <3> HIDE DEF d
    <3>5. When(b \in p.held, d) \in Seq(InputType)
      BY <3>4
    <3>6. nudges[n] = When(b \in p.held, d)
      BY DEF b, d
    <3> QED  BY <3>5, <3>6
  <2>2. nudges \in [1..4 -> Seq(InputType)]
    <3>1. nudges = [n \in 1..4 |-> nudges[n]]
      OBVIOUS
    <3> HIDE DEF nudges
    <3> QED  BY <3>1, <2>1
  <2> HIDE DEF nudges
  <2>3. nudges \in Seq(Seq(InputType))
    BY <2>2, ArrayIsSeq
  <2> QED  BY <2>3, FlattenType
<1> DEFINE tail == FlattenSeq(nudges)
<1>6. tail \in Seq(InputType)
  BY <1>5
<1>7. RefreshSends(p) =
        When(Deflected(p.left[1]) \/ Deflected(p.left[2]), moved) \o When(Deflected(x), turned)
          \o When(Deflected(p.right[2]), pitched)
          \o When("LB" \in p.held, ClawNudge("LB")) \o When("RB" \in p.held, ClawNudge("RB")) \o tail
  BY DEF RefreshSends
<1> HIDE DEF tail, moved, turned, pitched
<1>8. \A c \in BOOLEAN : \A i \in InputType : When(c, i) \in Seq(InputType)
  OBVIOUS
<1>9. /\ When(Deflected(p.left[1]) \/ Deflected(p.left[2]), moved) \in Seq(InputType)
      /\ When(Deflected(x), turned) \in Seq(InputType)
      /\ When(Deflected(p.right[2]), pitched) \in Seq(InputType)
      /\ When("LB" \in p.held, ClawNudge("LB")) \in Seq(InputType)
      /\ When("RB" \in p.held, ClawNudge("RB")) \in Seq(InputType)
  BY <1>1, <1>2, <1>3, <1>4
<1> HIDE DEF When
<1>10. \A s, t \in Seq(InputType) : s \o t \in Seq(InputType)
  OBVIOUS
<1> QED  BY <1>6, <1>7, <1>9, <1>10

\* The keep-out is nowhere more than the arm can reach.
LEMMA KeepOut == \A z \in -95..155 : MinSafeArmX(z) \in 30..70
  BY DEF MinSafeArmX, Rounded, Bounded

\* A velocity whose body or attitude half is zeroed is still one.
LEMMA HalvesFacts ==
  ASSUME NEW va \in [1..6 -> Int]
  PROVE  SubSeq(va, 1, 3) \o <<0, 0, 0>> \in [1..6 -> Int] /\ <<0, 0, 0>> \o SubSeq(va, 4, 6) \in [1..6 -> Int]
<1> DEFINE front == SubSeq(va, 1, 3)
           back == SubSeq(va, 4, 6)
           zero == <<0, 0, 0>>
<1>1. front \in Seq(Int) /\ Len(front) = 3 /\ back \in Seq(Int) /\ Len(back) = 3
  <2>1. 1 \in Int /\ 3 \in Int /\ 4 \in Int /\ 6 \in Int
    OBVIOUS
  <2>2. (\A i \in 1..3 : va[i] \in Int) /\ (\A i \in 4..6 : va[i] \in Int)
    OBVIOUS
  <2> QED  BY <2>1, <2>2, SubSeqProperties
<1>2. zero \in Seq(Int) /\ Len(zero) = 3
  OBVIOUS
<1> HIDE DEF front, back, zero
<1>3. \A s, t \in Seq(Int) : Len(s) = 3 /\ Len(t) = 3 => s \o t \in [1..6 -> Int]
  <2> SUFFICES ASSUME NEW s \in Seq(Int), NEW t \in Seq(Int), Len(s) = 3, Len(t) = 3 PROVE s \o t \in [1..6 -> Int]
    OBVIOUS
  <2>1. s \o t \in Seq(Int) /\ Len(s \o t) = Len(s) + Len(t)
    BY ConcatProperties
  <2>2. Len(s \o t) = 6
    BY <2>1
  <2> DEFINE u == s \o t
  <2> HIDE DEF u
  <2>3. u \in Seq(Int) /\ Len(u) = 6
    BY <2>1, <2>2 DEF u
  <2>4. u \in [1..6 -> Int]
    BY <2>3, LenProperties
  <2> QED  BY <2>4 DEF u
<1> QED  BY <1>1, <1>2, <1>3 DEF front, back, zero

\* Every input keeps the held command a command, and the arm away from the screen.
LEMMA HeldFacts ==
  ASSUME NEW c, GoodCommand(c)
  PROVE  GoodCommand(Stilled(c)) /\ \A input \in InputType : GoodCommand(HeldAfter(c, input))
<1>c. /\ c \in CommandType /\ c.va \in [1..6 -> Int] /\ c.arm_x \in -80..155 /\ c.arm_z \in -95..155 /\ c.claw \in 0..255
      /\ c.va[4] \in Int /\ c.va[5] \in Int /\ c.va[6] \in Int
  BY DEF GoodCommand, CommandType
<1>n. c = [va |-> c.va, arm_x |-> c.arm_x, arm_z |-> c.arm_z, claw |-> c.claw]
  BY <1>c DEF CommandType
<1>m. PICK ax \in -80..155, az \in -95..155, cl \in 0..255 : c.arm_x = ax /\ c.arm_z = az /\ c.claw = cl
  BY <1>c
<1>1. ASSUME NEW va \in [1..6 -> Int] PROVE GoodCommand([c EXCEPT !.va = va])
  BY <1>c DEF GoodCommand, CommandType, ArmIsClear
<1>2. GoodCommand(Stilled(c)) /\ GoodCommand(Leveled(c))
  BY <1>c, <1>1, HalvesFacts DEF Stilled, Leveled
<1>3. ASSUME NEW input \in InputType PROVE GoodCommand(HeldAfter(c, input))
  <2>i. input.x \in Int /\ input.y \in Int
    BY DEF InputType
  <2>1. CASE input.kind = "Move"
    <3>1. HeldAfter(c, input) = [c EXCEPT !.va[1] = input.x, !.va[2] = input.y]
      BY <2>1 DEF HeldAfter
    <3> DEFINE d == [c EXCEPT !.va[1] = input.x]
    <3>2. d.va = [c.va EXCEPT ![1] = input.x] /\ d.va \in [1..6 -> Int] /\ d = [c EXCEPT !.va = d.va]
      BY <1>c, <2>i DEF CommandType
    <3>3. HeldAfter(c, input) = [d EXCEPT !.va = [d.va EXCEPT ![2] = input.y]]
      BY <3>1
    <3> HIDE DEF d
    <3>4. [d EXCEPT !.va = [d.va EXCEPT ![2] = input.y]] = [c EXCEPT !.va = [d.va EXCEPT ![2] = input.y]]
      BY <3>2, <1>n
    <3>5. [d.va EXCEPT ![2] = input.y] \in [1..6 -> Int]
      BY <3>2, <2>i
    <3> DEFINE w == [d.va EXCEPT ![2] = input.y]
    <3>6. HeldAfter(c, input) = [c EXCEPT !.va = w] /\ w \in [1..6 -> Int]
      BY <3>3, <3>4, <3>5
    <3> HIDE DEF w
    <3> QED  BY <3>6, <1>1
  <2>2. ASSUME NEW k \in 1..6, NEW n \in Int PROVE GoodCommand([c EXCEPT !.va[k] = n])
    <3>1. [c EXCEPT !.va[k] = n] = [c EXCEPT !.va = [c.va EXCEPT ![k] = n]]
      BY <1>c DEF CommandType
    <3>2. [c.va EXCEPT ![k] = n] \in [1..6 -> Int]
      BY <1>c
    <3> QED  BY <3>1, <3>2, <1>1
  <2>3. CASE input.kind = "Turn"
    <3>1. HeldAfter(c, input) = [c EXCEPT !.va[3] = input.x]
      BY <2>3 DEF HeldAfter
    <3> QED  BY <3>1, <2>2, <2>i
  <2>4. CASE input.kind = "Roll"
    <3>1. HeldAfter(c, input) = [c EXCEPT !.va[4] = Bounded(c.va[4] + input.x, -20000, 20000)]
      BY <2>4 DEF HeldAfter
    <3>2. Bounded(c.va[4] + input.x, -20000, 20000) \in Int
      BY <1>c, <2>i DEF Bounded
    <3> QED  BY <3>1, <3>2, <2>2
  <2>5. CASE input.kind = "Pitch"
    <3>1. HeldAfter(c, input) = [c EXCEPT !.va[5] = Bounded(c.va[5] + input.x, -10000, 10000)]
      BY <2>5 DEF HeldAfter
    <3>2. Bounded(c.va[5] + input.x, -10000, 10000) \in Int
      BY <1>c, <2>i DEF Bounded
    <3> QED  BY <3>1, <3>2, <2>2
  <2>6. CASE input.kind = "Yaw"
    <3>1. HeldAfter(c, input) = [c EXCEPT !.va[6] = Bounded(c.va[6] + input.x, -12000, 12000)]
      BY <2>6 DEF HeldAfter
    <3>2. Bounded(c.va[6] + input.x, -12000, 12000) \in Int
      BY <1>c, <2>i DEF Bounded
    <3> QED  BY <3>1, <3>2, <2>2
  <2>7. CASE input.kind = "Arm"
    <3> DEFINE z == Bounded(c.arm_z + input.y, -95, 155)
               x == Lesser(155, Greater(Bounded(c.arm_x + input.x, -80, 155), MinSafeArmX(z)))
    <3>0. PICK dx \in Int, dz \in Int : input.x = dx /\ input.y = dz
      BY <2>i
    <3>1. z \in -95..155
      <4>1. Bounded(az + dz, -95, 155) \in -95..155
        BY DEF Bounded
      <4> QED  BY <4>1, <3>0, <1>m
    <3>2. HeldAfter(c, input) = [c EXCEPT !.arm_z = z, !.arm_x = x]
      BY <2>7, <1>c DEF HeldAfter, ArmNudged, CommandType
    <3> HIDE DEF z
    <3>3. MinSafeArmX(z) \in 30..70
      BY <3>1, KeepOut
    <3>4. x \in -80..155 /\ x >= MinSafeArmX(z)
      <4>1. PICK s \in 30..70 : MinSafeArmX(z) = s
        BY <3>3
      <4>2. Bounded(ax + dx, -80, 155) \in -80..155
        BY DEF Bounded
      <4>3. Lesser(155, Greater(Bounded(ax + dx, -80, 155), s)) \in -80..155
            /\ Lesser(155, Greater(Bounded(ax + dx, -80, 155), s)) >= s
        <5> DEFINE b == Bounded(ax + dx, -80, 155)
        <5>1. b \in -80..155
          BY <4>2
        <5> HIDE DEF b
        <5>2. Lesser(155, Greater(b, s)) \in -80..155 /\ Lesser(155, Greater(b, s)) >= s
          BY <5>1 DEF Lesser, Greater
        <5> QED  BY <5>2 DEF b
      <4> QED  BY <4>1, <4>3, <3>0, <1>m
    <3> HIDE DEF x
    <3>5. HeldAfter(c, input) = [va |-> c.va, arm_x |-> x, arm_z |-> z, claw |-> c.claw]
      BY <3>2, <1>n
    <3>6. HeldAfter(c, input) \in CommandType
      BY <3>1, <3>4, <3>5, <1>c DEF CommandType
    <3>7. ArmIsClear(HeldAfter(c, input))
      BY <3>4, <3>5 DEF ArmIsClear
    <3> QED  BY <3>6, <3>7 DEF GoodCommand
  <2>8. CASE input.kind = "Claw"
    <3> DEFINE n == Bounded(c.claw + input.x, 0, 255)
    <3>0. PICK dx \in Int : input.x = dx
      BY <2>i
    <3>1. n \in 0..255
      <4>1. Bounded(cl + dx, 0, 255) \in 0..255
        BY DEF Bounded
      <4> QED  BY <4>1, <3>0, <1>m
    <3>2. HeldAfter(c, input) = [c EXCEPT !.claw = n]
      BY <2>8 DEF HeldAfter
    <3> HIDE DEF n
    <3> QED  BY <3>1, <3>2, <1>c DEF GoodCommand, CommandType, ArmIsClear
  <2>9. CASE input.kind = "AttitudeReset"
    BY <2>9, <1>2 DEF HeldAfter
  <2>10. CASE input.kind = "NeutralPose"
    <3> DEFINE d == [c EXCEPT !.arm_x = 0, !.arm_z = 0, !.claw = ClawNeutral]
    <3>1. HeldAfter(c, input) = [d EXCEPT !.va = SubSeq(d.va, 1, 3) \o <<0, 0, 0>>]
      BY <2>10 DEF HeldAfter, Leveled
    <3>2. d \in CommandType /\ d.arm_x = 0 /\ d.arm_z = 0 /\ d.va = c.va
      <4> DEFINE e == [c EXCEPT !.arm_x = 0]
      <4>e. e = [va |-> c.va, arm_x |-> 0, arm_z |-> c.arm_z, claw |-> c.claw]
        BY <1>n
      <4> DEFINE f == [e EXCEPT !.arm_z = 0]
      <4>f. f = [va |-> c.va, arm_x |-> 0, arm_z |-> 0, claw |-> c.claw]
        <5> HIDE DEF e
        <5> QED  BY <4>e
      <4>g. d = [f EXCEPT !.claw = 128]
        BY DEF ClawNeutral
      <4>1. d = [va |-> c.va, arm_x |-> 0, arm_z |-> 0, claw |-> 128]
        <5> HIDE DEF f, d
        <5> QED  BY <4>f, <4>g
      <4>2. 0 \in -80..155 /\ 0 \in -95..155 /\ 128 \in 0..255
        OBVIOUS
      <4> HIDE DEF d
      <4> QED  BY <4>1, <4>2, <1>c DEF CommandType
    <3> HIDE DEF d
    <3> DEFINE v == SubSeq(d.va, 1, 3) \o <<0, 0, 0>>
    <3>3. v \in [1..6 -> Int] /\ HeldAfter(c, input) = [d EXCEPT !.va = v]
      BY <3>1, <3>2, <1>c, HalvesFacts
    <3> HIDE DEF v
    <3>4. HeldAfter(c, input) \in CommandType /\ HeldAfter(c, input).arm_x = 0 /\ HeldAfter(c, input).arm_z = 0
      BY <3>2, <3>3 DEF CommandType
    <3> QED  BY <3>4 DEF GoodCommand, ArmIsClear
  <2>11. CASE input.kind \notin {"Move", "Turn", "Roll", "Pitch", "Yaw", "Arm", "Claw", "AttitudeReset", "NeutralPose"}
    <3>1. HeldAfter(c, input) = c
      BY <2>11 DEF HeldAfter
    <3> QED  BY <3>1
  <2> QED  BY <2>1, <2>3, <2>4, <2>5, <2>6, <2>7, <2>8, <2>9, <2>10, <2>11
<1> QED  BY <1>2, <1>3

-----------------------------------------------------------------------------
(* What the handlers do to an end.                                         *)

\* A client that keeps the held command and the report keeps its type.
LEMMA ClientMoves ==
  ASSUME NEW c, ConsoleOk(c)
  PROVE  /\ \A m \in {"Connecting", "Resuming", "Open"} : ConsoleOk([c EXCEPT !.mode = m])
         /\ \A b \in BOOLEAN : ConsoleOk([c EXCEPT !.startup = b]) /\ ConsoleOk([c EXCEPT !.est = b])
         /\ \A p \in {"AwaitingHello", "AwaitingSessionDescribe", "Operating"} : ConsoleOk([c EXCEPT !.phase = p])
         /\ \A t \in {"None", "Good", "Stale"} : ConsoleOk([c EXCEPT !.ticket = t])
         /\ \A v : /\ ConsoleOk([c EXCEPT !.info = v]) /\ ConsoleOk([c EXCEPT !.negotiated = v])
                   /\ ConsoleOk([c EXCEPT !.profiles = v]) /\ ConsoleOk([c EXCEPT !.sent_level = v])
         /\ \A n \in Nat : ConsoleOk([c EXCEPT !.trigger_seq = n]) /\ ConsoleOk([c EXCEPT !.camera_seq = n])
         /\ \A n \in Int : ConsoleOk([c EXCEPT !.level = n])
         /\ \A h : GoodCommand(h) => ConsoleOk([c EXCEPT !.held = h])
         /\ \A a : ReportArrived(a) => ConsoleOk([c EXCEPT !.telemetry = a])
<1>1. \A m \in {"Connecting", "Resuming", "Open"} : ConsoleOk([c EXCEPT !.mode = m])
  BY DEF ConsoleOk
<1>2. \A b \in BOOLEAN : ConsoleOk([c EXCEPT !.startup = b]) /\ ConsoleOk([c EXCEPT !.est = b])
  BY DEF ConsoleOk
<1>3. \A p \in {"AwaitingHello", "AwaitingSessionDescribe", "Operating"} : ConsoleOk([c EXCEPT !.phase = p])
  BY DEF ConsoleOk
<1>4. \A t \in {"None", "Good", "Stale"} : ConsoleOk([c EXCEPT !.ticket = t])
  BY DEF ConsoleOk
<1>5. \A v : ConsoleOk([c EXCEPT !.info = v]) /\ ConsoleOk([c EXCEPT !.negotiated = v])
  BY DEF ConsoleOk
<1>6. \A v : ConsoleOk([c EXCEPT !.profiles = v]) /\ ConsoleOk([c EXCEPT !.sent_level = v])
  BY DEF ConsoleOk
<1>7. \A n \in Nat : ConsoleOk([c EXCEPT !.trigger_seq = n]) /\ ConsoleOk([c EXCEPT !.camera_seq = n])
  BY DEF ConsoleOk
<1>8. \A n \in Int : ConsoleOk([c EXCEPT !.level = n])
  BY DEF ConsoleOk
<1>9. \A h : GoodCommand(h) => ConsoleOk([c EXCEPT !.held = h])
  BY DEF ConsoleOk, GoodCommand
<1>10. \A a : ReportArrived(a) => ConsoleOk([c EXCEPT !.telemetry = a])
  BY DEF ConsoleOk
<1> QED  BY <1>1, <1>2, <1>3, <1>4, <1>5, <1>6, <1>7, <1>8, <1>9, <1>10

\* And so does a session.
LEMMA SessionMoves ==
  ASSUME NEW r, RobotOk(r)
  PROVE  /\ \A b \in BOOLEAN : /\ RobotOk([r EXCEPT !.running = b]) /\ RobotOk([r EXCEPT !.hello_sent = b])
                               /\ RobotOk([r EXCEPT !.missed = b])
         /\ \A s \in {"None", "Current", "Stale", "Bogus"} : RobotOk([r EXCEPT !.serving = s])
         /\ \A p \in {"AwaitingHello", "AwaitingSessionAccept", "Operating"} : RobotOk([r EXCEPT !.phase = p])
         /\ \A v : /\ RobotOk([r EXCEPT !.negotiated = v]) /\ RobotOk([r EXCEPT !.selected = v])
                   /\ RobotOk([r EXCEPT !.trigger_seq = v]) /\ RobotOk([r EXCEPT !.camera_seq = v])
         /\ \A a : CommandArrived(a) => RobotOk([r EXCEPT !.cmd = a])
         /\ \A t \in ReportType : RobotOk([r EXCEPT !.telemetry = t])
<1>1. \A b \in BOOLEAN : RobotOk([r EXCEPT !.running = b]) /\ RobotOk([r EXCEPT !.hello_sent = b]) /\ RobotOk([r EXCEPT !.missed = b])
  BY DEF RobotOk
<1>2. \A s \in {"None", "Current", "Stale", "Bogus"} : RobotOk([r EXCEPT !.serving = s])
  BY DEF RobotOk
<1>3. \A p \in {"AwaitingHello", "AwaitingSessionAccept", "Operating"} : RobotOk([r EXCEPT !.phase = p])
  BY DEF RobotOk
<1>4. \A v : RobotOk([r EXCEPT !.negotiated = v]) /\ RobotOk([r EXCEPT !.selected = v])
  BY DEF RobotOk
<1>5. \A v : RobotOk([r EXCEPT !.trigger_seq = v]) /\ RobotOk([r EXCEPT !.camera_seq = v])
  BY DEF RobotOk
<1>6. \A a : CommandArrived(a) => RobotOk([r EXCEPT !.cmd = a])
  BY DEF RobotOk
<1>7. \A t \in ReportType : RobotOk([r EXCEPT !.telemetry = t])
  BY DEF RobotOk
<1> QED  BY <1>1, <1>2, <1>3, <1>4, <1>5, <1>6, <1>7

\* A capture with attempts left is anywhere.
LEMMA CaptureAt ==
  ASSUME NEW k, CameraOk(k), k.attempts <= MaxAttempts, NEW a \in {"None", "Read", "Spawn", "Running", "GaveUp"}
  PROVE  CameraOk([k EXCEPT !.at = a])
<1> DEFINE d == [k EXCEPT !.at = a]
<1>1. /\ d \in [at : {"None", "Read", "Spawn", "Running", "GaveUp"}, controls : Int, watch : -1000..1000,
                seen : BOOLEAN, attempts : 0..(MaxAttempts + 1)]
      /\ d.attempts = k.attempts
  BY DEF CameraOk
<1> HIDE DEF d
<1>2. CameraOk(d)
  BY <1>1 DEF CameraOk
<1> QED  BY <1>2 DEF d

\* Neither the controls, nor the watch channel, nor what was seen of it bears on the attempts.
LEMMA CaptureControls == ASSUME NEW k, CameraOk(k), NEW n, n \in Int PROVE CameraOk([k EXCEPT !.controls = n])
  BY DEF CameraOk
\* ... nor does the watch on its age,
LEMMA CaptureWatch == ASSUME NEW k, CameraOk(k), NEW n, n \in -1000..1000 PROVE CameraOk([k EXCEPT !.watch = n])
  BY DEF CameraOk
\* ... nor whether its first bytes were seen.
LEMMA CaptureSeen == ASSUME NEW k, CameraOk(k), NEW b \in BOOLEAN PROVE CameraOk([k EXCEPT !.seen = b])
  BY DEF CameraOk

\* What a workload may be, one fact at a time.
LEMMA Attempts == MaxAttempts \in Nat
  BY SessionAssumption

\* Every workload bounds its faults, and the HELLOs among them.
LEMMA Budgets == \A w \in Workloads : w.budget \in [Faults -> Nat] /\ w.budget.hellos \in Nat
<1>1. \A w \in Workloads : w.budget \in [Faults -> Nat]
  BY SessionAssumption
<1>2. "hellos" \in Faults
  BY DEF Faults
<1>3. ASSUME NEW w \in Workloads PROVE w.budget.hellos \in Nat
  <2> DEFINE b == w.budget
  <2>1. b \in [Faults -> Nat]
    BY <1>1
  <2> HIDE DEF b
  <2>2. b.hellos \in Nat
    BY <1>2, <2>1
  <2> QED  BY <2>2 DEF b
<1> QED  BY <1>1, <1>3

\* Keys, sticks and reports are those that the devices can produce.
LEMMA Devices ==
  ASSUME NEW w \in Workloads
  PROVE  w.keys \subseteq DOMAIN KeyInput /\ w.sticks \subseteq Axes /\ w.telemetry \subseteq ReportType
<1>1. w.keys \subseteq DOMAIN KeyInput
  BY SessionAssumption
<1>2. w.sticks \subseteq Axes
  <2> DEFINE D == (-1000..1000) \X (-1000..1000)
  <2>1. w.sticks \subseteq D
    BY SessionAssumption, SMTT(30)
  <2>2. D = Axes
    BY DEF Axes
  <2> HIDE DEF D
  <2> QED  BY <2>1, <2>2
<1>3. w.telemetry \subseteq ReportType
  BY SessionAssumption DEF ReportType
<1> QED  BY <1>1, <1>2, <1>3

\* TeleopCommand::neutral is a good command.
LEMMA NeutralIsGood == GoodCommand(NeutralCommand)
<1>1. 0 \in -80..155 /\ 0 \in -95..155 /\ 128 \in 0..255
  OBVIOUS
<1>2. <<0, 0, 0, 0, 0, 0>> \in [1..6 -> Int]
  OBVIOUS
<1> QED  BY <1>1, <1>2 DEF GoodCommand, CommandType, ArmIsClear, NeutralCommand, ClawNeutral

\* What run builds.
LEMMA NewEnds ==
  /\ ConsoleOk(NewClient)
  /\ \A s \in {"None", "Current", "Stale", "Bogus"} :
       RobotOk(NewSession(s)) /\ RobotOk([NewSession(s) EXCEPT !.running = FALSE])
  /\ CameraOk(NoCapture) /\ CameraOk(NewCapture)
  /\ UpOk(NoneUp) /\ DgramOk(Absent)
<1>1. ConsoleOk(NewClient)
  <2>1. 0 \in Nat /\ 0 \in Int /\ ReportArrived(Absent) /\ NeutralCommand \in CommandType /\ ArmIsClear(NeutralCommand)
    BY NeutralIsGood DEF GoodCommand, ReportArrived
  <2> QED  BY <2>1 DEF ConsoleOk, NewClient
<1>2. ASSUME NEW s \in {"None", "Current", "Stale", "Bogus"} PROVE RobotOk(NewSession(s))
  <2>1. CommandArrived(Absent)
    BY DEF CommandArrived
  <2> QED  BY <2>1 DEF RobotOk, NewSession
<1>3. ASSUME NEW s \in {"None", "Current", "Stale", "Bogus"} PROVE RobotOk([NewSession(s) EXCEPT !.running = FALSE])
  <2> DEFINE r == NewSession(s)
  <2>1. RobotOk(r)
    BY <1>2
  <2> HIDE DEF r
  <2>2. RobotOk([r EXCEPT !.running = FALSE])
    BY <2>1, SessionMoves
  <2> QED  BY <2>2 DEF r
<1>4. CameraOk(NoCapture)
  <2>1. 0 \in Int /\ 0 \in -1000..1000 /\ 0 \in 0..(MaxAttempts + 1) /\ 0 <= MaxAttempts
    BY Attempts
  <2> QED  BY <2>1 DEF CameraOk, NoCapture
<1>5. CameraOk(NewCapture)
  <2> DEFINE k == NoCapture
  <2>0. CameraOk(k) /\ k.attempts <= MaxAttempts
    BY <1>4, Attempts DEF NoCapture
  <2> HIDE DEF k
  <2>1. CameraOk([k EXCEPT !.at = "Read"])
    BY <2>0, CaptureAt
  <2>2. CameraOk([NoCapture EXCEPT !.at = "Read"])
    BY <2>1 DEF k
  <2> QED  BY <1>4, <2>2 DEF NewCapture
<1>6. UpOk(NoneUp)
  BY DEF UpOk, NoneUp
<1>7. DgramOk(Absent)
  BY DEF DgramOk
<1> QED  BY <1>1, <1>2, <1>3, <1>4, <1>5, <1>6, <1>7

\* A connection that replaces another keeps what the operator holds.
LEMMA ReconnectedFacts == ASSUME NEW c, ConsoleOk(c) PROVE ConsoleOk(Reconnected(c)) /\ ConsoleOk(ReconnectedInPhase(c))
<1> DEFINE c1 == [c EXCEPT !.mode = "Open"]
           c2 == [c1 EXCEPT !.startup = FALSE]
           c3 == [c2 EXCEPT !.est = FALSE]
           d4 == [c3 EXCEPT !.phase = "AwaitingHello"]
           d5 == [d4 EXCEPT !.info = Absent]
           d6 == [d5 EXCEPT !.negotiated = Absent]
           d7 == [d6 EXCEPT !.sent_level = Absent]
           e5 == [c3 EXCEPT !.info = Absent]
           e6 == [e5 EXCEPT !.negotiated = Absent]
           e7 == [e6 EXCEPT !.sent_level = Absent]
<1>1. Reconnected(c) = d7 /\ ReconnectedInPhase(c) = e7
  BY DEF Reconnected, ReconnectedInPhase
<1>2. ConsoleOk(c1)
  BY ClientMoves
<1> HIDE DEF c1
<1>3. ConsoleOk(c2)
  BY <1>2, ClientMoves
<1> HIDE DEF c2
<1>4. ConsoleOk(c3)
  BY <1>3, ClientMoves
<1> HIDE DEF c3
<1>5. ConsoleOk(d4) /\ ConsoleOk(e5)
  BY <1>4, ClientMoves
<1> HIDE DEF d4, e5
<1>6. ConsoleOk(d5) /\ ConsoleOk(e6)
  BY <1>5, ClientMoves
<1> HIDE DEF d5, e6
<1>7. ConsoleOk(d6) /\ ConsoleOk(e7)
  BY <1>6, ClientMoves
<1> HIDE DEF d6, e7
<1>8. ConsoleOk(d7)
  BY <1>7, ClientMoves
<1> QED  BY <1>1, <1>7, <1>8

-----------------------------------------------------------------------------
(* The steps of a session.                                                 *)

\* What is spent on anything but another HELLO.
LEMMA Spending ==
  ASSUME BudgetInv, NEW fault \in Faults, fault # "hellos", Spend(fault)
  PROVE  left' \in [Faults -> Nat] /\ left'.hellos = left.hellos
<1>1. left \in [Faults -> Nat] /\ "hellos" \in Faults
  BY DEF BudgetInv, Faults
<1>2. left[fault] \in Nat /\ left[fault] > 0 /\ left' = [left EXCEPT ![fault] = left[fault] - 1]
  BY <1>1 DEF Spend
<1> QED  BY <1>1, <1>2

\* The budget is kept when nothing is spent, or something else, and there are no more HELLOs.
LEMMA BudgetKept ==
  ASSUME BudgetInv, work' = work, UpOk(up), UpOk(up'), up'.hello <= up.hello,
         left' = left \/ \E fault \in Faults \ {"hellos"} : Spend(fault)
  PROVE  BudgetInv'
<1>1. work \in Workloads /\ left \in [Faults -> Nat] /\ left.hellos <= work.budget.hellos
      /\ up.hello + left.hellos <= 1 + work.budget.hellos
  BY DEF BudgetInv
<1>2. left' \in [Faults -> Nat] /\ left'.hellos = left.hellos
  BY <1>1, Spending
<1>3. up.hello \in Nat /\ up'.hello \in Nat
  BY DEF UpOk
<1>4. left.hellos \in Nat /\ work.budget.hellos \in Nat
  <2>1. "hellos" \in Faults /\ work.budget \in [Faults -> Nat]
    BY <1>1, Budgets DEF Faults
  <2> QED  BY <2>1, <1>1
<1>5. up'.hello + left'.hellos <= 1 + work'.budget.hellos
  BY <1>1, <1>2, <1>3, <1>4
<1> QED  BY <1>1, <1>2, <1>5 DEF BudgetInv

\* The ends take new values, nothing more is on the way than before.
LEMMA AllMove ==
  ASSUME SessionInv, work' = work, HandInv',
         left' = left \/ \E fault \in Faults \ {"hellos"} : Spend(fault),
         ConsoleOk(console'), RobotOk(robot'), CameraOk(camera'), UpOk(up'), up'.hello <= up.hello, DgramOk(dgram')
  PROVE  SessionInv'
<1>1. BudgetInv'
  BY BudgetKept DEF SessionInv
<1> QED  BY <1>1 DEF SessionInv

\* And the operator does nothing.
LEMMA EndsMove ==
  ASSUME SessionInv, UNCHANGED <<work, handVars>>,
         left' = left \/ \E fault \in Faults \ {"hellos"} : Spend(fault),
         ConsoleOk(console'), RobotOk(robot'), CameraOk(camera'), UpOk(up'), up'.hello <= up.hello, DgramOk(dgram')
  PROVE  SessionInv'
<1>1. HandInv'
  BY DEF SessionInv, HandInv, handVars
<1> QED  BY <1>1, AllMove

\* The session of a connection the console has left.
LEMMA AbandonedFacts == ASSUME RobotOk(robot) PROVE RobotOk(Abandoned)
<1> DEFINE r == robot
<1>1. RobotOk(r)
  OBVIOUS
<1> HIDE DEF r
<1>2. RobotOk([r EXCEPT !.serving = "Stale"])
  BY <1>1, SessionMoves
<1> QED  BY <1>1, <1>2 DEF Abandoned, r

\* What is on the way when a connection is new: nothing.
LEMMA FreshFacts ==
  ASSUME SessionInv, FreshNet PROVE UpOk(up') /\ up'.hello <= up.hello /\ DgramOk(dgram')
<1>1. up' = NoneUp /\ dgram' = Absent /\ NoneUp.hello = 0
  BY DEF FreshNet, NoneUp
<1>2. up.hello \in Nat
  BY DEF SessionInv, UpOk
<1> QED  BY <1>1, <1>2, NewEnds

\* One HELLO goes out, over streams that had none, or another one.
LEMMA HelloSent ==
  ASSUME SessionInv, UNCHANGED <<work, robot, dgram, camera, handVars>>, ConsoleOk(console'),
         \/ up' = [up EXCEPT !.hello = 1] /\ left' = left
         \/ up' = [up EXCEPT !.hello = @ + 1] /\ Spend("hellos")
  PROVE  SessionInv'
<1>1. work \in Workloads /\ left \in [Faults -> Nat] /\ left.hellos <= work.budget.hellos
      /\ up.hello + left.hellos <= 1 + work.budget.hellos
  BY DEF SessionInv, BudgetInv
<1>2. up.hello \in Nat /\ "hellos" \in Faults /\ left.hellos \in Nat /\ work.budget.hellos \in Nat
  <2>1. "hellos" \in Faults
    BY DEF Faults
  <2>2. work.budget \in [Faults -> Nat]
    BY <1>1, Budgets
  <2> QED  BY <2>1, <2>2, <1>1 DEF SessionInv, UpOk
<1>u. \A u : \A n \in Nat : UpOk(u) => UpOk([u EXCEPT !.hello = n]) /\ [u EXCEPT !.hello = n].hello = n
  BY DEF UpOk
<1>3. CASE up' = [up EXCEPT !.hello = 1] /\ left' = left
  <2>1. UpOk(up') /\ up'.hello = 1
    BY <1>3, <1>u DEF SessionInv
  <2>2. BudgetInv'
    BY <2>1, <1>1, <1>2, <1>3 DEF BudgetInv
  <2> QED  BY <2>1, <2>2 DEF SessionInv, HandInv, handVars
<1>4. CASE up' = [up EXCEPT !.hello = @ + 1] /\ Spend("hellos")
  <2>1. UpOk(up') /\ up'.hello = up.hello + 1
    <3> DEFINE n == up.hello + 1
    <3>1. n \in Nat
      BY <1>2
    <3>2. up' = [up EXCEPT !.hello = n]
      BY <1>4
    <3> HIDE DEF n
    <3>3. UpOk(up') /\ up'.hello = n
      BY <3>1, <3>2, <1>u DEF SessionInv
    <3> QED  BY <3>3 DEF n
  <2>2. left' \in [Faults -> Nat] /\ left'.hellos = left.hellos - 1 /\ left.hellos > 0
    BY <1>1, <1>2, <1>4 DEF Spend
  <2>3. BudgetInv'
    BY <2>1, <2>2, <1>1, <1>2 DEF BudgetInv
  <2> QED  BY <2>1, <2>3 DEF SessionInv, HandInv, handVars
<1> QED  BY <1>3, <1>4

\* The console connects.
LEMMA Connecting ==
  ASSUME SessionInv, Connect \/ ResumeEstablishes \/ ResumeFails \/ CancelAttempt \/ Establish \/ HelloAgain
                       \/ SaveTicket \/ ConsoleTimesOut
  PROVE  SessionInv'
<1>i. ConsoleOk(console) /\ RobotOk(robot) /\ CameraOk(camera) /\ UpOk(up) /\ DgramOk(dgram) /\ up.hello \in Nat
  BY DEF SessionInv, UpOk
<1>a. RobotOk(Abandoned)
  BY <1>i, AbandonedFacts
<1> DEFINE c == console
<1>c. ConsoleOk(c) /\ c = console
  BY <1>i
<1> HIDE DEF c
<1>1. CASE Connect
  <2>1. FreshNet /\ robot' = Abandoned /\ UNCHANGED <<work, left, camera, handVars>>
    BY <1>1 DEF Connect
  <2>2. ConsoleOk(console')
    <3>1. console' = Reconnected(c) \/ console' = [[c EXCEPT !.mode = "Resuming"] EXCEPT !.est = FALSE]
      BY <1>1, <1>c DEF Connect
    <3>2. ConsoleOk([[c EXCEPT !.mode = "Resuming"] EXCEPT !.est = FALSE])
      <4> DEFINE d == [c EXCEPT !.mode = "Resuming"]
      <4>1. ConsoleOk(d)
        BY <1>c, ClientMoves
      <4> HIDE DEF d
      <4>2. ConsoleOk([d EXCEPT !.est = FALSE])
        BY <4>1, ClientMoves
      <4> QED  BY <4>2 DEF d
    <3> QED  BY <3>1, <3>2, <1>c, ReconnectedFacts
  <2> QED  BY <2>1, <2>2, <1>i, <1>a, FreshFacts, EndsMove
<1>2. CASE ResumeEstablishes
  <2>1. up' = [up EXCEPT !.hello = 1] /\ left' = left /\ UNCHANGED <<work, robot, dgram, camera, handVars>>
    BY <1>2 DEF ResumeEstablishes
  <2>2. ConsoleOk(console')
    <3> DEFINE d == Reconnected(c)
    <3>1. ConsoleOk(d) /\ console' = [d EXCEPT !.est = TRUE]
      BY <1>2, <1>c, ReconnectedFacts DEF ResumeEstablishes
    <3> HIDE DEF d
    <3> QED  BY <3>1, ClientMoves
  <2> QED  BY <2>1, <2>2, HelloSent
<1>3. CASE ResumeFails
  <2>1. FreshNet /\ robot' = Abandoned /\ UNCHANGED <<work, left, camera, handVars>>
    BY <1>3 DEF ResumeFails
  <2>2. ConsoleOk(console')
    <3> DEFINE d == Reconnected(c)
    <3>1. ConsoleOk(d) /\ console' = [d EXCEPT !.ticket = "None"]
      BY <1>3, <1>c, ReconnectedFacts DEF ResumeFails
    <3> HIDE DEF d
    <3> QED  BY <3>1, ClientMoves
  <2> QED  BY <2>1, <2>2, <1>i, <1>a, FreshFacts, EndsMove
<1>4. CASE CancelAttempt
  <2>1. FreshNet /\ robot' = Abandoned /\ UNCHANGED <<work, camera, handVars>> /\ Spend("cancels")
        /\ "cancels" \in Faults \ {"hellos"}
    BY <1>4 DEF CancelAttempt, Faults
  <2>2. ConsoleOk(console')
    <3>1. console' = [c EXCEPT !.mode = "Connecting"]
      BY <1>4, <1>c DEF CancelAttempt
    <3> QED  BY <3>1, <1>c, ClientMoves
  <2> QED  BY <2>1, <2>2, <1>i, <1>a, FreshFacts, EndsMove
<1>5. CASE Establish
  <2>1. left' = left /\ UNCHANGED <<work, robot, dgram, camera, handVars>>
        /\ (up' = [up EXCEPT !.hello = 1] \/ up' = up)
    BY <1>5 DEF Establish
  <2>2. ConsoleOk(console')
    <3>1. console' = [c EXCEPT !.est = TRUE]
      BY <1>5, <1>c DEF Establish
    <3> QED  BY <3>1, <1>c, ClientMoves
  <2>3. CASE up' = [up EXCEPT !.hello = 1]
    BY <2>1, <2>2, <2>3, HelloSent
  <2>4. CASE up' = up
    BY <2>1, <2>2, <2>4, <1>i, EndsMove
  <2> QED  BY <2>1, <2>3, <2>4
<1>6. CASE HelloAgain
  <2>1. up' = [up EXCEPT !.hello = @ + 1] /\ Spend("hellos") /\ UNCHANGED <<work, console, robot, dgram, camera, handVars>>
    BY <1>6 DEF HelloAgain
  <2> QED  BY <2>1, <1>i, HelloSent
<1>7. CASE SaveTicket
  <2>1. UNCHANGED <<work, left, robot, up, dgram, camera, handVars>> /\ console' = [c EXCEPT !.ticket = "Good"]
    BY <1>7, <1>c DEF SaveTicket, netVars
  <2>2. ConsoleOk(console')
    BY <2>1, <1>c, ClientMoves
  <2> QED  BY <2>1, <2>2, <1>i, EndsMove
<1>8. CASE ConsoleTimesOut
  <2>1. UNCHANGED <<work, left, robot, up, dgram, camera, handVars>> /\ console' = [c EXCEPT !.mode = "Connecting"]
    BY <1>8, <1>c DEF ConsoleTimesOut, netVars
  <2>2. ConsoleOk(console')
    BY <2>1, <1>c, ClientMoves
  <2> QED  BY <2>1, <2>2, <1>i, EndsMove
<1> QED  BY <1>1, <1>2, <1>3, <1>4, <1>5, <1>6, <1>7, <1>8

\* The robot takes first packets, gives connections up, stops and starts.
LEMMA Serving ==
  ASSUME SessionInv, RobotAccept \/ RobotAcceptStray \/ RobotAdopts \/ RobotSessionEnds \/ LinkDown \/ LinkUp
                       \/ RobotStops \/ RobotStarts
  PROVE  SessionInv'
<1>i. ConsoleOk(console) /\ RobotOk(robot) /\ CameraOk(camera) /\ UpOk(up) /\ DgramOk(dgram) /\ up.hello \in Nat
      /\ up.hello <= up.hello
  BY DEF SessionInv, UpOk
<1>n. \A s \in {"None", "Current", "Stale", "Bogus"} : RobotOk(NewSession(s))
  BY NewEnds
<1>k. CameraOk(NoCapture) /\ CameraOk(NewCapture)
  BY NewEnds
<1>f. {"strays", "outages", "crashes", "shutdowns", "restarts"} \subseteq Faults \ {"hellos"}
  BY DEF Faults
<1>1. CASE RobotAccept
  <2>1. FreshNet /\ UNCHANGED <<work, left, console, handVars>> /\ robot' = NewSession("Current") /\ camera' = NewCapture
    BY <1>1 DEF RobotAccept, StartsSession
  <2> QED  BY <2>1, <1>i, <1>n, <1>k, FreshFacts, EndsMove
<1>2. CASE RobotAcceptStray
  <2>1. /\ UNCHANGED <<work, console, up, dgram, handVars>> /\ camera' = NewCapture
        /\ robot' = NewSession("Bogus") \/ robot' = NewSession("Stale")
        /\ left' = left \/ Spend("strays")
    BY <1>2 DEF RobotAcceptStray, StartsSession, netVars
  <2> QED  BY <2>1, <1>i, <1>n, <1>k, <1>f, EndsMove
<1>3. CASE RobotAdopts
  <2> DEFINE r == robot
  <2>1. UNCHANGED <<work, left, console, up, dgram, camera, handVars>> /\ robot' = [r EXCEPT !.serving = "Current"] /\ RobotOk(r)
    BY <1>3, <1>i DEF RobotAdopts, netVars
  <2> HIDE DEF r
  <2>2. RobotOk(robot')
    BY <2>1, SessionMoves
  <2> QED  BY <2>1, <2>2, <1>i, EndsMove
<1>4. CASE RobotSessionEnds
  <2>1. UNCHANGED <<work, left, console, up, dgram, handVars>> /\ robot' = NewSession("None") /\ camera' = NoCapture
    BY <1>4 DEF RobotSessionEnds, netVars
  <2> QED  BY <2>1, <1>i, <1>n, <1>k, EndsMove
<1>5. CASE LinkDown
  <2>1. UNCHANGED <<work, console, robot, up, dgram, camera, handVars>> /\ Spend("outages")
    BY <1>5 DEF LinkDown
  <2> QED  BY <2>1, <1>i, <1>f, EndsMove
<1>6. CASE LinkUp
  <2>1. UNCHANGED <<work, left, console, robot, up, dgram, camera, handVars>>
    BY <1>6 DEF LinkUp
  <2> QED  BY <2>1, <1>i, EndsMove
<1>7. CASE RobotStops
  <2>1. UNCHANGED <<work, up, dgram, handVars>> /\ camera' = NoCapture
        /\ robot' = [NewSession("None") EXCEPT !.running = FALSE]
        /\ (Spend("crashes") \/ Spend("shutdowns"))
    BY <1>7 DEF RobotStops, netVars
  <2>2. ConsoleOk(console')
    <3> DEFINE c == console
    <3>1. ConsoleOk(c)
      BY <1>i
    <3>2. console' = [c EXCEPT !.ticket = IF c.ticket = "Good" THEN "Stale" ELSE c.ticket]
      BY <1>7 DEF RobotStops
    <3> HIDE DEF c
    <3> DEFINE t == IF c.ticket = "Good" THEN "Stale" ELSE c.ticket
    <3>3. t \in {"None", "Good", "Stale"}
      BY <3>1 DEF ConsoleOk
    <3> HIDE DEF t
    <3> QED  BY <3>1, <3>2, <3>3, ClientMoves DEF t
  <2>3. RobotOk(robot')
    <3> DEFINE r == NewSession("None")
    <3>1. RobotOk(r) /\ robot' = [r EXCEPT !.running = FALSE]
      BY <2>1, <1>n
    <3> HIDE DEF r
    <3> QED  BY <3>1, SessionMoves
  <2>4. \E fault \in Faults \ {"hellos"} : Spend(fault)
    BY <2>1, <1>f
  <2> QED  BY <2>1, <2>2, <2>3, <2>4, <1>i, <1>k, EndsMove
<1>8. CASE RobotStarts
  <2>1. UNCHANGED <<work, console, up, dgram, camera, handVars>> /\ robot' = NewSession("None") /\ Spend("restarts")
    BY <1>8 DEF RobotStarts, netVars
  <2> QED  BY <2>1, <1>i, <1>n, <1>f, EndsMove
<1> QED  BY <1>1, <1>2, <1>3, <1>4, <1>5, <1>6, <1>7, <1>8

\* Streams that are read keep their types.
LEMMA UpMoves ==
  ASSUME NEW u, UpOk(u)
  PROVE  /\ \A n \in Nat : UpOk([u EXCEPT !.hello = n]) /\ [u EXCEPT !.hello = n].hello = n
         /\ \A v : UpOk([u EXCEPT !.accept = v]) /\ [u EXCEPT !.accept = v].hello = u.hello
         /\ \A s \in Seq(TriggerMessageType) : UpOk([u EXCEPT !.trigger = s]) /\ [u EXCEPT !.trigger = s].hello = u.hello
         /\ \A s \in Seq(CameraMessageType) : UpOk([u EXCEPT !.camera = s]) /\ [u EXCEPT !.camera = s].hello = u.hello
<1>1. \A n \in Nat : UpOk([u EXCEPT !.hello = n]) /\ [u EXCEPT !.hello = n].hello = n
  BY DEF UpOk
<1>2. \A v : UpOk([u EXCEPT !.accept = v]) /\ [u EXCEPT !.accept = v].hello = u.hello
  BY DEF UpOk
<1>3. \A s \in Seq(TriggerMessageType) : UpOk([u EXCEPT !.trigger = s]) /\ [u EXCEPT !.trigger = s].hello = u.hello
  BY DEF UpOk
<1>4. \A s \in Seq(CameraMessageType) : UpOk([u EXCEPT !.camera = s]) /\ [u EXCEPT !.camera = s].hello = u.hello
  BY DEF UpOk
<1> QED  BY <1>1, <1>2, <1>3, <1>4

\* The handshake.
LEMMA Shaking ==
  ASSUME SessionInv, RobotReadsHello \/ ConsoleReadsHello \/ ConsoleReadsDescribe \/ RobotReadsAccept
  PROVE  SessionInv'
<1>i. ConsoleOk(console) /\ RobotOk(robot) /\ CameraOk(camera) /\ UpOk(up) /\ DgramOk(dgram) /\ up.hello \in Nat
      /\ up.hello <= up.hello
  BY DEF SessionInv, UpOk
<1>f. "swaps" \in Faults \ {"hellos"}
  BY DEF Faults
<1> DEFINE c == console
           r == robot
           u == up
<1>r. ConsoleOk(c) /\ c = console /\ RobotOk(r) /\ r = robot /\ UpOk(u) /\ u = up
  BY <1>i
<1> HIDE DEF c, r, u
<1>1. CASE RobotReadsHello
  <2>1. UNCHANGED <<work, left, console, dgram, camera, handVars>>
    BY <1>1 DEF RobotReadsHello
  <2>2. UpOk(up') /\ up'.hello <= up.hello
    <3>1. PICK n \in 1..up.hello : up' = [u EXCEPT !.hello = u.hello - n]
      BY <1>1, <1>r DEF RobotReadsHello
    <3> DEFINE m == u.hello - n
    <3>2. m \in Nat /\ m <= up.hello
      BY <1>i, <1>r, <3>1
    <3>3. up' = [u EXCEPT !.hello = m]
      BY <3>1
    <3> HIDE DEF m
    <3> QED  BY <3>2, <3>3, <1>r, UpMoves
  <2>3. RobotOk(robot')
    <3>1. PICK v : \/ robot' = r \/ robot' = [r EXCEPT !.serving = "Stale"]
                   \/ robot' = [r EXCEPT !.phase = "AwaitingSessionAccept", !.hello_sent = TRUE, !.negotiated = v]
      BY <1>1, <1>r DEF RobotReadsHello
    <3>2. RobotOk([r EXCEPT !.phase = "AwaitingSessionAccept", !.hello_sent = TRUE, !.negotiated = v])
      <4> DEFINE d == [r EXCEPT !.phase = "AwaitingSessionAccept"]
                 e == [d EXCEPT !.hello_sent = TRUE]
      <4>1. RobotOk(d)
        BY <1>r, SessionMoves
      <4> HIDE DEF d
      <4>2. RobotOk(e)
        BY <4>1, SessionMoves
      <4> HIDE DEF e
      <4>3. RobotOk([e EXCEPT !.negotiated = v])
        BY <4>2, SessionMoves
      <4> QED  BY <4>3 DEF d, e
    <3>3. RobotOk([r EXCEPT !.serving = "Stale"])
      BY <1>r, SessionMoves
    <3> QED  BY <3>1, <3>2, <3>3, <1>r
  <2> QED  BY <2>1, <2>2, <2>3, <1>i, EndsMove
<1>2. CASE ConsoleReadsHello
  <2> DEFINE v == Negotiate(ConsoleHello, DecodeHello(down.hello))
  <2>1. UNCHANGED <<work, left, robot, up, dgram, camera, handVars>>
        /\ console' = [c EXCEPT !.phase = "AwaitingSessionDescribe", !.negotiated = v]
    BY <1>2, <1>r DEF ConsoleReadsHello
  <2> HIDE DEF v
  <2>2. ConsoleOk(console')
    <3> DEFINE d == [c EXCEPT !.phase = "AwaitingSessionDescribe"]
    <3>1. ConsoleOk(d)
      BY <1>r, ClientMoves
    <3> HIDE DEF d
    <3>2. ConsoleOk([d EXCEPT !.negotiated = v])
      BY <3>1, ClientMoves
    <3> QED  BY <2>1, <3>2 DEF d
  <2> QED  BY <2>1, <2>2, <1>i, EndsMove
<1>3. CASE ConsoleReadsDescribe
  <2>1. UNCHANGED <<work, robot, dgram, camera, handVars>>
    BY <1>3 DEF ConsoleReadsDescribe
  <2>2. CASE console.phase = "AwaitingSessionDescribe" /\ left' = left
             /\ \E v, w, x : /\ up' = [u EXCEPT !.accept = v]
                             /\ console' = [c EXCEPT !.phase = "Operating", !.info = w, !.profiles = x]
    <3>1. PICK v, w, x : /\ up' = [u EXCEPT !.accept = v]
                         /\ console' = [c EXCEPT !.phase = "Operating", !.info = w, !.profiles = x]
      BY <2>2
    <3>2. UpOk(up') /\ up'.hello <= up.hello
      BY <3>1, <1>r, <1>i, UpMoves
    <3>3. ConsoleOk(console')
      <4> DEFINE d == [c EXCEPT !.phase = "Operating"]
                 e == [d EXCEPT !.info = w]
      <4>1. ConsoleOk(d)
        BY <1>r, ClientMoves
      <4> HIDE DEF d
      <4>2. ConsoleOk(e)
        BY <4>1, ClientMoves
      <4> HIDE DEF e
      <4>3. ConsoleOk([e EXCEPT !.profiles = x])
        BY <4>2, ClientMoves
      <4> QED  BY <3>1, <4>3 DEF d, e
    <3> QED  BY <2>1, <2>2, <3>2, <3>3, <1>i, EndsMove
  <2>3. CASE Spend("swaps") /\ UNCHANGED <<console, up>>
    BY <2>1, <2>3, <1>i, <1>f, EndsMove
  <2>4. \/ /\ console.phase = "AwaitingSessionDescribe" /\ left' = left
           /\ \E v, w, x : /\ up' = [u EXCEPT !.accept = v]
                           /\ console' = [c EXCEPT !.phase = "Operating", !.info = w, !.profiles = x]
        \/ Spend("swaps") /\ UNCHANGED <<console, up>>
    <3>1. CASE Spend("swaps") /\ UNCHANGED <<console, up>>
      BY <3>1
    <3>2. CASE ~(Spend("swaps") /\ UNCHANGED <<console, up>>)
      <4> DEFINE info == DecodeDescribe(down.describe)
                 v == EncodeAccept(info, ProfileSeen(c.profiles, info))
                 x == RecordProfile(c.profiles, info)
      <4>1. /\ console.phase = "AwaitingSessionDescribe" /\ left' = left
            /\ up' = [u EXCEPT !.accept = v]
            /\ console' = [c EXCEPT !.phase = "Operating", !.info = info, !.profiles = x]
        BY <1>3, <3>2, <1>r DEF ConsoleReadsDescribe
      <4> HIDE DEF info, v, x
      <4> QED  BY <4>1
    <3> QED  BY <3>1, <3>2
  <2> QED  BY <2>2, <2>3, <2>4
<1>4. CASE RobotReadsAccept
  <2> DEFINE v == ToSet(DecodeAccept(up.accept).selected_sensors)
  <2>1. UNCHANGED <<work, left, console, dgram, camera, handVars>> /\ up' = [u EXCEPT !.accept = Absent]
        /\ robot' = [r EXCEPT !.phase = "Operating", !.selected = v]
    BY <1>4, <1>r DEF RobotReadsAccept
  <2> HIDE DEF v
  <2>2. RobotOk(robot')
    <3> DEFINE d == [r EXCEPT !.phase = "Operating"]
    <3>1. RobotOk(d)
      BY <1>r, SessionMoves
    <3> HIDE DEF d
    <3>2. RobotOk([d EXCEPT !.selected = v])
      BY <3>1, SessionMoves
    <3> QED  BY <2>1, <3>2 DEF d
  <2>3. UpOk(up') /\ up'.hello <= up.hello
    BY <2>1, <1>r, <1>i, UpMoves
  <2> QED  BY <2>1, <2>2, <2>3, <1>i, EndsMove
<1> QED  BY <1>1, <1>2, <1>3, <1>4

\* capture_task.
LEMMA Capturing ==
  ASSUME SessionInv, CameraRead \/ CameraSpawn \/ CameraChanged \/ CameraFails
  PROVE  SessionInv'
<1>i. ConsoleOk(console) /\ RobotOk(robot) /\ UpOk(up) /\ DgramOk(dgram) /\ up.hello \in Nat /\ up.hello <= up.hello
  BY DEF SessionInv, UpOk
<1> DEFINE k == camera
<1>k. CameraOk(k) /\ k = camera
  BY DEF SessionInv
<1> HIDE DEF k
<1>t. /\ k.at # "GaveUp" => k.attempts <= MaxAttempts
      /\ k.watch \in Int /\ k.attempts \in Nat
  <2>1. k.watch \in -1000..1000 /\ k.attempts \in 0..(MaxAttempts + 1) /\ (k.at # "GaveUp" => k.attempts <= MaxAttempts)
    BY <1>k DEF CameraOk
  <2> DEFINE n == k.watch
             m == k.attempts
  <2>2. n \in -1000..1000
    BY <2>1
  <2>3. m \in 0..(MaxAttempts + 1)
    BY <2>1
  <2> HIDE DEF n, m
  <2>4. n \in Int
    BY <2>2
  <2>5. m \in Nat
    BY <2>3
  <2> QED  BY <2>1, <2>4, <2>5 DEF n, m
<1>1. CASE CameraRead
  <2>1. UNCHANGED <<work, left, console, robot, up, dgram, handVars>> /\ k.at = "Read"
        /\ camera' = [k EXCEPT !.at = "Spawn", !.controls = k.watch, !.seen = TRUE]
    BY <1>1, <1>k DEF CameraRead, netVars
  <2>2. CameraOk(camera')
    <3> DEFINE d == [k EXCEPT !.at = "Spawn"]
               e == [d EXCEPT !.controls = k.watch]
    <3>1. CameraOk(d)
      BY <1>k, <1>t, <2>1, CaptureAt
    <3> HIDE DEF d
    <3>2. CameraOk(e)
      BY <3>1, <1>t, CaptureControls
    <3> HIDE DEF e
    <3>3. CameraOk([e EXCEPT !.seen = TRUE])
      BY <3>2, CaptureSeen
    <3> QED  BY <2>1, <3>3 DEF d, e
  <2> QED  BY <2>1, <2>2, <1>i, EndsMove
<1>2. CASE CameraSpawn \/ CameraChanged
  <2>1. UNCHANGED <<work, left, console, robot, up, dgram, handVars>> /\ k.at # "GaveUp"
        /\ (camera' = [k EXCEPT !.at = "Running"] \/ camera' = [k EXCEPT !.at = "Read"])
    BY <1>2, <1>k DEF CameraSpawn, CameraChanged, Spawned, netVars
  <2>2. CameraOk(camera')
    BY <2>1, <1>k, <1>t, CaptureAt
  <2> QED  BY <2>1, <2>2, <1>i, EndsMove
<1>3. CASE CameraFails
  <2>1. UNCHANGED <<work, console, robot, up, dgram, handVars>> /\ k.at \in {"Spawn", "Running"}
        /\ Spend("exits") /\ "exits" \in Faults \ {"hellos"}
    BY <1>3, <1>k DEF CameraFails, netVars, Faults
  <2>2. PICK aged \in BOOLEAN :
           LET attempts == (IF aged THEN 0 ELSE k.attempts) + 1
           IN  camera' = [k EXCEPT !.attempts = attempts, !.at = IF attempts > MaxAttempts THEN "GaveUp" ELSE "Read"]
    BY <1>3, <1>k DEF CameraFails
  <2> DEFINE n == (IF aged THEN 0 ELSE k.attempts) + 1
             a == IF n > MaxAttempts THEN "GaveUp" ELSE "Read"
  <2>3. n \in 0..(MaxAttempts + 1) /\ MaxAttempts \in Nat
    <3>1. PICK m \in Nat : k.attempts = m /\ m <= MaxAttempts
      BY <2>1, <1>t
    <3>2. MaxAttempts \in Nat
      BY Attempts
    <3>3. n = 1 \/ n = m + 1
      BY <3>1
    <3> QED  BY <3>1, <3>2, <3>3
  <2>4. camera' = [k EXCEPT !.attempts = n, !.at = a]
    BY <2>2
  <2> HIDE DEF n
  <2>5. a \in {"Read", "GaveUp"} /\ (a # "GaveUp" => n <= MaxAttempts)
    BY <2>3
  <2> HIDE DEF a
  <2>6. CameraOk(camera')
    <3> DEFINE d == [k EXCEPT !.attempts = n, !.at = a]
    <3>1. /\ d \in [at : {"None", "Read", "Spawn", "Running", "GaveUp"}, controls : Int, watch : -1000..1000,
                    seen : BOOLEAN, attempts : 0..(MaxAttempts + 1)]
          /\ d.attempts = n /\ d.at = a
      <4> DEFINE R == 0..(MaxAttempts + 1)
                 W == -1000..1000
      <4>1. /\ k \in [at : {"None", "Read", "Spawn", "Running", "GaveUp"}, controls : Int, watch : W, seen : BOOLEAN, attempts : R]
            /\ n \in R
        BY <2>3, <1>k DEF CameraOk
      <4> HIDE DEF R, W
      <4> DEFINE e == [k EXCEPT !.attempts = n]
      <4>2. /\ e \in [at : {"None", "Read", "Spawn", "Running", "GaveUp"}, controls : Int, watch : W, seen : BOOLEAN, attempts : R]
            /\ e.attempts = n /\ d = [e EXCEPT !.at = a]
        BY <4>1
      <4> HIDE DEF e, d
      <4>3. /\ d \in [at : {"None", "Read", "Spawn", "Running", "GaveUp"}, controls : Int, watch : W, seen : BOOLEAN, attempts : R]
            /\ d.attempts = n /\ d.at = a
        BY <4>2, <2>5
      <4> QED  BY <4>3 DEF R, W
    <3> HIDE DEF d
    <3>2. CameraOk(d)
      BY <3>1, <2>5 DEF CameraOk
    <3> QED  BY <3>2, <2>4 DEF d
  <2> QED  BY <2>1, <2>6, <1>i, EndsMove
<1> QED  BY <1>1, <1>2, <1>3

-----------------------------------------------------------------------------
(* The operator's inputs.                                                  *)

\* A message at the end of a stream.
LEMMA SentUp ==
  ASSUME UpOk(up), NEW m,
         \/ m \in TriggerMessageType /\ SendUp("trigger", m)
         \/ m \in CameraMessageType /\ SendUp("camera", m)
  PROVE  UpOk(up') /\ up'.hello = up.hello
<1> DEFINE u == up
<1>u. UpOk(u) /\ u = up
  OBVIOUS
<1> HIDE DEF u
<1>t. u.trigger \in Seq(TriggerMessageType) /\ u.camera \in Seq(CameraMessageType)
  BY <1>u DEF UpOk
<1>1. CASE up' = up
  BY <1>1
<1>2. CASE m \in TriggerMessageType /\ up' = [u EXCEPT !["trigger"] = Append(u["trigger"], m)]
  <2>1. Append(u.trigger, m) \in Seq(TriggerMessageType)
    BY <1>t, <1>2
  <2> DEFINE s == Append(u.trigger, m)
  <2>2. s \in Seq(TriggerMessageType) /\ up' = [u EXCEPT !.trigger = s]
    BY <2>1, <1>2
  <2> HIDE DEF s
  <2> QED  BY <2>2, <1>u, UpMoves
<1>3. CASE m \in CameraMessageType /\ up' = [u EXCEPT !["camera"] = Append(u["camera"], m)]
  <2>1. Append(u.camera, m) \in Seq(CameraMessageType)
    BY <1>t, <1>3
  <2> DEFINE s == Append(u.camera, m)
  <2>2. s \in Seq(CameraMessageType) /\ up' = [u EXCEPT !.camera = s]
    BY <2>1, <1>3
  <2> HIDE DEF s
  <2> QED  BY <2>2, <1>u, UpMoves
<1>4. up' = up \/ (m \in TriggerMessageType /\ up' = [u EXCEPT !["trigger"] = Append(u["trigger"], m)])
               \/ (m \in CameraMessageType /\ up' = [u EXCEPT !["camera"] = Append(u["camera"], m)])
  BY <1>u DEF SendUp
<1> QED  BY <1>1, <1>2, <1>3, <1>4

\* on_input.
LEMMA InputTaken ==
  ASSUME SessionInv, NEW input \in InputType, OnInput(input)
  PROVE  ConsoleOk(console') /\ UpOk(up') /\ up'.hello = up.hello
<1> DEFINE c == console
<1>c. ConsoleOk(c) /\ c = console /\ UpOk(up)
  BY DEF SessionInv
<1> HIDE DEF c
<1>h. GoodCommand(c.held) /\ c.trigger_seq \in Nat /\ c.camera_seq \in Nat /\ c.level \in Int
  BY <1>c DEF ConsoleOk, GoodCommand
<1>i. PICK x \in Int : input.x = x
  BY DEF InputType
<1>n. c.trigger_seq + 1 \in Nat /\ c.camera_seq + 1 \in Nat
  BY <1>h
<1>k. input.kind \in Kinds
  BY DEF InputType
<1>1. CASE input.kind = "Action"
  <2>1. SendActionTrigger(x)
    BY <1>1, <1>i DEF OnInput
  <2>2. CASE console.phase # "Operating"
    BY <2>1, <2>2, <1>c DEF SendActionTrigger
  <2>3. CASE console.phase = "Operating"
    <3> DEFINE n == c.trigger_seq + 1
               h == Stilled(c.held)
               m == TriggerMessage(x, n)
    <3>1. console' = [c EXCEPT !.held = h, !.trigger_seq = n] /\ SendUp("trigger", m)
      BY <2>1, <2>3, <1>c DEF SendActionTrigger
    <3>2. GoodCommand(h) /\ n \in Nat
      <4> DEFINE g == c.held
      <4>1. GoodCommand(g)
        BY <1>h
      <4> HIDE DEF g
      <4>2. GoodCommand(Stilled(g))
        BY <4>1, HeldFacts
      <4> QED  BY <4>2, <1>n DEF g
    <3> HIDE DEF n, h
    <3>3. m \in TriggerMessageType
      BY <3>2 DEF TriggerMessage, TriggerMessageType
    <3> HIDE DEF m
    <3>4. ConsoleOk(console')
      <4> DEFINE d == [c EXCEPT !.held = h]
      <4>1. ConsoleOk(d)
        BY <1>c, <3>2, ClientMoves
      <4> HIDE DEF d
      <4>2. ConsoleOk([d EXCEPT !.trigger_seq = n])
        BY <4>1, <3>2, ClientMoves
      <4> QED  BY <3>1, <4>2 DEF d
    <3> QED  BY <3>1, <3>3, <3>4, <1>c, SentUp
  <2> QED  BY <2>2, <2>3
<1>2. CASE input.kind \in {"Camera", "CameraReset"}
  <2> DEFINE l == LevelAfter(c.level, input)
  <2>1. SendCameraControl(l)
    BY <1>2, <1>c DEF OnInput
  <2>2. l \in Int
    <3>1. PICK y \in Int : c.level = y
      BY <1>h
    <3>2. Bounded(y + x, -1000, 1000) \in Int
      BY DEF Bounded
    <3> QED  BY <1>2, <1>i, <3>1, <3>2 DEF LevelAfter
  <2> HIDE DEF l
  <2>d. ConsoleOk([c EXCEPT !.level = l])
    BY <1>c, <2>2, ClientMoves
  <2>3. CASE console.phase # "Operating"
    <3>1. console' = [c EXCEPT !.level = l] /\ up' = up
      BY <2>1, <2>3, <1>c DEF SendCameraControl
    <3> QED  BY <3>1, <2>d, <1>c
  <2>4. CASE console.phase = "Operating"
    <3> DEFINE n == c.camera_seq + 1
               m == CameraMessage(l, n)
    <3>1. console' = [c EXCEPT !.level = l, !.sent_level = l, !.camera_seq = n] /\ SendUp("camera", m)
      BY <2>1, <2>4, <1>c DEF SendCameraControl
    <3>2. n \in Nat
      BY <1>n
    <3> HIDE DEF n
    <3>3. m \in CameraMessageType
      BY <2>2, <3>2 DEF CameraMessage, CameraMessageType
    <3> HIDE DEF m
    <3>4. ConsoleOk(console')
      <4> DEFINE d == [c EXCEPT !.level = l]
                 e == [d EXCEPT !.sent_level = l]
      <4>1. ConsoleOk(d)
        BY <2>d
      <4> HIDE DEF d
      <4>2. ConsoleOk(e)
        BY <4>1, ClientMoves
      <4> HIDE DEF e
      <4>3. ConsoleOk([e EXCEPT !.camera_seq = n])
        BY <4>2, <3>2, ClientMoves
      <4> QED  BY <3>1, <4>3 DEF d, e
    <3> QED  BY <3>1, <3>3, <3>4, <1>c, SentUp
  <2> QED  BY <2>3, <2>4
<1>3. CASE input.kind = "ToggleRecording"
  BY <1>3, <1>c DEF OnInput
<1>4. CASE input.kind \notin {"Action", "Camera", "CameraReset", "ToggleRecording"}
  <2> DEFINE g == c.held
             h == HeldAfter(g, input)
  <2>1. console' = [c EXCEPT !.held = h] /\ up' = up
    BY <1>4, <1>c DEF OnInput
  <2>2. GoodCommand(g)
    BY <1>h
  <2> HIDE DEF g
  <2>3. GoodCommand(h)
    BY <2>2, HeldFacts
  <2> HIDE DEF h
  <2> QED  BY <2>1, <2>3, <1>c, ClientMoves
<1> QED  BY <1>1, <1>2, <1>3, <1>4

\* Keys, buttons, sticks and the channel.
LEMMA Operated ==
  ASSUME SessionInv, PressKey \/ PadEvent \/ PadRefresh \/ TakeInput
  PROVE  SessionInv'
<1>i. ConsoleOk(console) /\ RobotOk(robot) /\ CameraOk(camera) /\ UpOk(up) /\ DgramOk(dgram) /\ up.hello \in Nat
      /\ up.hello <= up.hello /\ HandInv /\ work \in Workloads
  BY DEF SessionInv, UpOk, BudgetInv
<1>f. {"keys", "pad", "refreshes"} \subseteq Faults \ {"hellos"}
  BY DEF Faults
<1>h. pad \in PadType /\ inputs \in Seq(InputType)
  BY <1>i DEF HandInv
<1>1. CASE PressKey
  <2>1. UNCHANGED <<work, robot, dgram, camera, handVars>> /\ Spend("keys")
    BY <1>1 DEF PressKey
  <2>2. PICK key \in work.keys : OnInput(KeyInput[key])
    BY <1>1 DEF PressKey
  <2>3. key \in DOMAIN KeyInput
    BY <1>i, <2>2, Devices
  <2>4. KeyInput[key] \in InputType
    BY <2>3, KeyInputs
  <2>5. ConsoleOk(console') /\ UpOk(up') /\ up'.hello = up.hello
    <3> DEFINE input == KeyInput[key]
    <3>1. input \in InputType /\ OnInput(input)
      BY <2>2, <2>4
    <3> HIDE DEF input
    <3> QED  BY <3>1, InputTaken
  <2> QED  BY <2>1, <2>5, <1>i, <1>f, EndsMove
<1>2. CASE PadEvent
  <2>1. UNCHANGED <<work, console, robot, up, dgram, camera>> /\ Spend("pad")
    BY <1>2 DEF PadEvent, netVars
  <2> DEFINE p == pad
  <2>p. p \in PadType /\ p = pad
    BY <1>h
  <2> HIDE DEF p
  <2>2. HandInv'
    <3>1. CASE \E button \in work.buttons \ pad.held : pad' = Pressed(pad, button) /\ inputs' = inputs \o PressSends(pad, button)
      <4>1. PICK button : pad' = Pressed(p, button) /\ inputs' = inputs \o PressSends(p, button)
        BY <3>1, <2>p
      <4>2. Pressed(p, button) \in PadType /\ PressSends(p, button) \in Seq(InputType)
        BY <2>p, ButtonFacts
      <4> DEFINE s == PressSends(p, button)
      <4>3. s \in Seq(InputType) /\ inputs' = inputs \o s
        BY <4>1, <4>2
      <4> HIDE DEF s
      <4>4. inputs' \in Seq(InputType)
        BY <4>3, <1>h
      <4> QED  BY <4>1, <4>2, <4>4 DEF HandInv
    <3>2. CASE \E button \in pad.held : pad' = Released(pad, button) /\ UNCHANGED inputs
      <4>1. PICK button : pad' = Released(p, button) /\ UNCHANGED inputs
        BY <3>2, <2>p
      <4>2. Released(p, button) \in PadType
        BY <2>p, ButtonFacts
      <4> QED  BY <4>1, <4>2, <1>h DEF HandInv
    <3>3. CASE \E left_stick, right_stick \in work.sticks :
                 pad' = [pad EXCEPT !.left = left_stick, !.right = right_stick] /\ UNCHANGED inputs
      <4>1. PICK left_stick \in work.sticks, right_stick \in work.sticks :
                 pad' = [p EXCEPT !.left = left_stick, !.right = right_stick] /\ UNCHANGED inputs
        BY <3>3, <2>p
      <4>2. left_stick \in Axes /\ right_stick \in Axes
        <5>1. work.sticks \subseteq Axes
          BY <1>i, Devices
        <5> QED  BY <5>1, <4>1
      <4>3. [p EXCEPT !.left = left_stick, !.right = right_stick] \in PadType
        BY <2>p, <4>2 DEF PadType
      <4> QED  BY <4>1, <4>3, <1>h DEF HandInv
    <3> QED  BY <1>2, <3>1, <3>2, <3>3 DEF PadEvent
  <2> QED  BY <2>1, <2>2, <1>i, <1>f, AllMove
<1>3. CASE PadRefresh
  <2>1. UNCHANGED <<work, console, robot, up, dgram, camera, pad>> /\ Spend("refreshes") /\ inputs' = RefreshSends(pad)
    BY <1>3 DEF PadRefresh, netVars
  <2>2. HandInv'
    <3>1. RefreshSends(pad) \in Seq(InputType)
      BY <1>h, RefreshFacts
    <3> QED  BY <2>1, <3>1, <1>h DEF HandInv
  <2> QED  BY <2>1, <2>2, <1>i, <1>f, AllMove
<1>4. CASE TakeInput
  <2>1. UNCHANGED <<work, left, robot, dgram, camera, pad>> /\ inputs # <<>> /\ inputs' = Tail(inputs)
    BY <1>4 DEF TakeInput
  <2>2. HandInv' /\ Head(inputs) \in InputType
    BY <2>1, <1>h DEF HandInv
  <2>3. ConsoleOk(console') /\ UpOk(up') /\ up'.hello = up.hello
    <3> DEFINE input == Head(inputs)
    <3>1. input \in InputType /\ (OnInput(input) \/ UNCHANGED <<console, up>>)
      BY <2>2, <1>4 DEF TakeInput
    <3> HIDE DEF input
    <3>2. CASE OnInput(input)
      BY <3>1, <3>2, InputTaken
    <3>3. CASE UNCHANGED <<console, up>>
      BY <3>3, <1>i
    <3> QED  BY <3>1, <3>2, <3>3
  <2> QED  BY <2>1, <2>2, <2>3, <1>i, AllMove
<1> QED  BY <1>1, <1>2, <1>3, <1>4

-----------------------------------------------------------------------------
(* What the robot reads of the operator's streams, and the datagrams.      *)

\* The rest of a stream, and the first message of a read.
LEMMA ReadFacts ==
  ASSUME NEW S, NEW q \in Seq(S), NEW n \in 1..Len(q)
  PROVE  SubSeq(q, n + 1, Len(q)) \in Seq(S) /\ Head(SubSeq(q, 1, n)) \in S
<1>1. n \in Nat /\ n + 1 \in Nat /\ Len(q) \in Nat /\ 1 <= n /\ n <= Len(q) /\ \A i \in 1..Len(q) : q[i] \in S
  OBVIOUS
<1>2. SubSeq(q, n + 1, Len(q)) \in Seq(S)
  <2>1. \A i \in (n + 1)..Len(q) : q[i] \in S
    BY <1>1
  <2> QED  BY <1>1, <2>1
<1>3. Head(SubSeq(q, 1, n)) \in S
  <2>1. \A i \in 1..n : q[i] \in S
    BY <1>1
  <2>2. SubSeq(q, 1, n) \in Seq(S) /\ Len(SubSeq(q, 1, n)) = n
    BY <1>1, <2>1
  <2> DEFINE t == SubSeq(q, 1, n)
  <2> HIDE DEF t
  <2>3. t \in Seq(S) /\ Len(t) = n
    BY <2>2 DEF t
  <2>4. Head(t) \in S
    BY <2>3, <1>1
  <2> QED  BY <2>4 DEF t
<1> QED  BY <1>2, <1>3

\* The robot's reads of the operator's streams.
LEMMA ReadingUp ==
  ASSUME SessionInv, RobotReadsTrigger \/ RobotReadsCamera
  PROVE  SessionInv'
<1>i. ConsoleOk(console) /\ RobotOk(robot) /\ CameraOk(camera) /\ UpOk(up) /\ DgramOk(dgram) /\ up.hello \in Nat
      /\ up.hello <= up.hello
  BY DEF SessionInv, UpOk
<1> DEFINE r == robot
           u == up
           k == camera
<1>r. RobotOk(r) /\ r = robot /\ UpOk(u) /\ u = up /\ CameraOk(k) /\ k = camera
  BY <1>i
<1> HIDE DEF r, u, k
<1>t. u.trigger \in Seq(TriggerMessageType) /\ u.camera \in Seq(CameraMessageType)
  BY <1>r DEF UpOk
<1>1. CASE RobotReadsTrigger
  <2>1. UNCHANGED <<work, left, console, dgram, camera, handVars>>
    BY <1>1 DEF RobotReadsTrigger
  <2>2. PICK n \in 1..Len(u.trigger) :
          /\ up' = [u EXCEPT !.trigger = SubSeq(u.trigger, n + 1, Len(u.trigger))]
          /\ IF r.phase # "Operating" THEN robot' = r
             ELSE robot' = [r EXCEPT !.trigger_seq = IF Newer(Head(SubSeq(u.trigger, 1, n)).seq, r.trigger_seq)
                                                     THEN Head(SubSeq(u.trigger, 1, n)).seq ELSE r.trigger_seq]
    BY <1>1, <1>r DEF RobotReadsTrigger, ReadUp
  <2>3. RobotOk(robot')
    <3> DEFINE v == IF Newer(Head(SubSeq(u.trigger, 1, n)).seq, r.trigger_seq)
                    THEN Head(SubSeq(u.trigger, 1, n)).seq ELSE r.trigger_seq
    <3>1. robot' = r \/ robot' = [r EXCEPT !.trigger_seq = v]
      BY <2>2
    <3> HIDE DEF v
    <3>2. RobotOk([r EXCEPT !.trigger_seq = v])
      BY <1>r, SessionMoves
    <3> QED  BY <3>1, <3>2, <1>r
  <2>4. UpOk(up') /\ up'.hello <= up.hello
    <3> DEFINE q == u.trigger
    <3>1. q \in Seq(TriggerMessageType) /\ n \in 1..Len(q)
      BY <1>t, <2>2
    <3> HIDE DEF q
    <3>2. SubSeq(q, n + 1, Len(q)) \in Seq(TriggerMessageType)
      BY <3>1, ReadFacts
    <3> DEFINE s == SubSeq(q, n + 1, Len(q))
    <3>3. s \in Seq(TriggerMessageType) /\ up' = [u EXCEPT !.trigger = s]
      BY <2>2, <3>2 DEF q
    <3> HIDE DEF s
    <3> QED  BY <3>3, <1>r, <1>i, UpMoves
  <2> QED  BY <2>1, <2>3, <2>4, <1>i, EndsMove
<1>2. CASE RobotReadsCamera
  <2>1. UNCHANGED <<work, left, console, dgram, handVars>>
    BY <1>2 DEF RobotReadsCamera
  <2>2. PICK n \in 1..Len(up.camera) :
          LET data == ReadUp("camera", n)
              first == Head(data)
              applied == robot.phase = "Operating" /\ Newer(first.seq, robot.camera_seq)
          IN  /\ up' = [up EXCEPT !.camera = SubSeq(@, n + 1, Len(@))]
              /\ robot' = [robot EXCEPT !.camera_seq = IF applied THEN first.seq ELSE @, !.missed = ~applied \/ n > 1]
              /\ camera' = IF applied /\ work.build.camera
                           THEN [camera EXCEPT !.watch = Bounded(first.level, -1000, 1000), !.seen = FALSE] ELSE camera
              /\ IF robot.phase = "Operating"
                 THEN Record("robot", "ActionTriggerC", data, <<"camera_control", first.level, first.seq>>)
                 ELSE UNCHANGED recVars
    BY <1>2 DEF RobotReadsCamera
  <2> DEFINE q == u.camera
             first == Head(SubSeq(q, 1, n))
             applied == r.phase = "Operating" /\ Newer(first.seq, r.camera_seq)
             s == SubSeq(q, n + 1, Len(q))
  <2>3. s \in Seq(CameraMessageType) /\ first \in CameraMessageType
    <3>1. q \in Seq(CameraMessageType) /\ n \in 1..Len(q)
      BY <1>t, <1>r, <2>2
    <3> HIDE DEF q
    <3> QED  BY <3>1, ReadFacts
  <2>4. /\ up' = [u EXCEPT !.camera = s]
        /\ robot' = [r EXCEPT !.camera_seq = IF applied THEN first.seq ELSE r.camera_seq, !.missed = ~applied \/ n > 1]
        /\ camera' = k \/ camera' = [k EXCEPT !.watch = Bounded(first.level, -1000, 1000), !.seen = FALSE]
    <3>1. up' = [u EXCEPT !.camera = s]
      BY <2>2, <1>r
    <3>2. robot' = [r EXCEPT !.camera_seq = IF applied THEN first.seq ELSE r.camera_seq, !.missed = ~applied \/ n > 1]
      BY <2>2, <1>r DEF ReadUp
    <3>3. camera' = k \/ camera' = [k EXCEPT !.watch = Bounded(first.level, -1000, 1000), !.seen = FALSE]
      <4> DEFINE f == Head(ReadUp("camera", n))
                 Watching(m) == [k EXCEPT !.watch = Bounded(m.level, -1000, 1000), !.seen = FALSE]
      <4>1. camera' = camera \/ camera' = [camera EXCEPT !.watch = Bounded(f.level, -1000, 1000), !.seen = FALSE]
        BY <2>2
      <4>2. f = first
        BY <1>r DEF ReadUp
      <4> HIDE DEF f, first
      <4>3. camera' = k \/ camera' = Watching(f)
        BY <4>1, <1>r
      <4>4. Watching(f) = Watching(first)
        BY <4>2
      <4> HIDE DEF Watching
      <4>5. camera' = k \/ camera' = Watching(first)
        BY <4>3, <4>4
      <4> QED  BY <4>5 DEF Watching
    <3> HIDE DEF first, applied, s
    <3> QED  BY <3>1, <3>2, <3>3
  <2> HIDE DEF s, first
  <2>5. UpOk(up') /\ up'.hello <= up.hello
    BY <2>3, <2>4, <1>r, <1>i, UpMoves
  <2>6. RobotOk(robot')
    <3> DEFINE v == IF applied THEN first.seq ELSE r.camera_seq
               b == ~applied \/ n > 1
               d == [r EXCEPT !.camera_seq = v]
    <3>0. b \in BOOLEAN
      OBVIOUS
    <3>1. robot' = [d EXCEPT !.missed = b]
      BY <2>4
    <3> HIDE DEF b, v
    <3>2. RobotOk(d)
      BY <1>r, SessionMoves
    <3> HIDE DEF d
    <3> QED  BY <3>0, <3>1, <3>2, SessionMoves
  <2>7. CameraOk(camera')
    <3> DEFINE l == Bounded(first.level, -1000, 1000)
               d == [k EXCEPT !.watch = l]
    <3>1. l \in -1000..1000
      <4>1. PICK y \in Int : first.level = y
        BY <2>3 DEF CameraMessageType
      <4>2. Bounded(y, -1000, 1000) \in -1000..1000
        BY DEF Bounded
      <4> QED  BY <4>1, <4>2
    <3>2. camera' = k \/ camera' = [d EXCEPT !.seen = FALSE]
      BY <2>4
    <3> HIDE DEF l
    <3>3. CameraOk(d)
      <4> DEFINE W == -1000..1000
                 R == 0..(MaxAttempts + 1)
      <4>1. /\ k \in [at : {"None", "Read", "Spawn", "Running", "GaveUp"}, controls : Int, watch : W, seen : BOOLEAN, attempts : R]
            /\ l \in W /\ (k.at # "GaveUp" => k.attempts <= MaxAttempts)
        BY <1>r, <3>1 DEF CameraOk
      <4> HIDE DEF W, R
      <4>2. /\ d \in [at : {"None", "Read", "Spawn", "Running", "GaveUp"}, controls : Int, watch : W, seen : BOOLEAN, attempts : R]
            /\ d.at = k.at /\ d.attempts = k.attempts
        BY <4>1
      <4> HIDE DEF d
      <4>3. d.at # "GaveUp" => d.attempts <= MaxAttempts
        BY <4>1, <4>2
      <4> QED  BY <4>2, <4>3 DEF CameraOk, W, R
    <3> HIDE DEF d
    <3>4. CameraOk([d EXCEPT !.seen = FALSE])
      BY <3>3, CaptureSeen
    <3> QED  BY <3>2, <3>4, <1>r
  <2> QED  BY <2>1, <2>5, <2>6, <2>7, <1>i, EndsMove
<1> QED  BY <1>1, <1>2

\* A datagram says what its sender meant.
LEMMA SentDatagram ==
  /\ \A h : GoodCommand(h) =>
       DgramOk([to |-> "robot", datagram |-> Tag(EncodeFrame("Command", PackCommand(h))), meant |-> h])
  /\ \A t \in ReportType \cup {Absent} :
       DgramOk([to |-> "console", datagram |-> Tag(EncodeFrame("Telemetry", PackTelemetry(t))), meant |-> t])
  BY DEF DgramOk

\* And its receiver reads it back.
LEMMA ReceivedDatagram ==
  /\ \A p : CommandIn(Tag(EncodeFrame("Command", p))) = UnpackCommand(p)
  /\ \A p : TelemetryIn(Tag(EncodeFrame("Telemetry", p))) = UnpackTelemetry(p)
<1>1. \A p : CommandIn(Tag(EncodeFrame("Command", p))) = UnpackCommand(p)
  BY DEF CommandIn, Tag, EncodeFrame, DecodeFrame, CategoryByte, CategoryOf, TagChannelB
<1>2. \A p : TelemetryIn(Tag(EncodeFrame("Telemetry", p))) = UnpackTelemetry(p)
  BY DEF TelemetryIn, Tag, EncodeFrame, DecodeFrame, CategoryByte, CategoryOf, TagChannelB
<1> QED  BY <1>1, <1>2

\* Commands and telemetry, sent, received and lost.
LEMMA Datagrams ==
  ASSUME SessionInv,
         SendCommand \/ RobotReceivesCommand \/ BridgeReports \/ SendTelemetry \/ ConsoleReceivesTelemetry \/ LoseDatagram
  PROVE  SessionInv'
<1>i. ConsoleOk(console) /\ RobotOk(robot) /\ CameraOk(camera) /\ UpOk(up) /\ DgramOk(dgram) /\ up.hello \in Nat
      /\ up.hello <= up.hello /\ work \in Workloads
  BY DEF SessionInv, UpOk, BudgetInv
<1>f. {"ticks", "reports", "losses"} \subseteq Faults \ {"hellos"}
  BY DEF Faults
<1>n. DgramOk(Absent)
  BY NewEnds
<1> DEFINE c == console
           r == robot
           d == dgram
<1>r. ConsoleOk(c) /\ c = console /\ RobotOk(r) /\ r = robot /\ DgramOk(d) /\ d = dgram
  BY <1>i
<1> HIDE DEF c, r, d
<1>h. GoodCommand(c.held)
  BY <1>r DEF ConsoleOk, GoodCommand
<1>1. CASE SendCommand
  <2>1. UNCHANGED <<work, robot, up, camera, handVars>> /\ Spend("ticks")
    BY <1>1 DEF SendCommand
  <2>2. PICK h \in {c.held, Stilled(c.held)} :
          /\ console' = [c EXCEPT !.held = h]
          /\ DgramSend("robot", Tag(EncodeFrame("Command", PackCommand(h))), h)
    BY <1>1, <1>r DEF SendCommand
  <2>3. GoodCommand(h)
    <3> DEFINE g == c.held
    <3>1. GoodCommand(g)
      BY <1>h
    <3> HIDE DEF g
    <3>2. GoodCommand(Stilled(g))
      BY <3>1, HeldFacts
    <3> QED  BY <1>h, <2>2, <3>2 DEF g
  <2>4. ConsoleOk(console')
    BY <2>2, <2>3, <1>r, ClientMoves
  <2>5. DgramOk(dgram')
    BY <2>2, <2>3, <1>r, SentDatagram DEF DgramSend
  <2> QED  BY <2>1, <2>4, <2>5, <1>i, <1>f, EndsMove
<1>2. CASE RobotReceivesCommand
  <2>1. UNCHANGED <<work, left, console, up, camera, handVars>> /\ d # Absent /\ d.to = "robot" /\ dgram' = Absent
    BY <1>2, <1>r DEF RobotReceivesCommand
  <2> DEFINE got == CommandIn(d.datagram)
  <2>2. robot' = r \/ (got # Absent /\ robot' = [r EXCEPT !.cmd = [got |-> got, meant |-> d.meant]])
    BY <1>2, <1>r DEF RobotReceivesCommand
  <2>3. got = UnpackCommand(PackCommand(d.meant)) /\ GoodCommand(d.meant)
    <3>1. /\ d = [to |-> "robot", datagram |-> Tag(EncodeFrame("Command", PackCommand(d.meant))), meant |-> d.meant]
          /\ GoodCommand(d.meant)
      BY <1>r, <2>1 DEF DgramOk
    <3>2. d.datagram = Tag(EncodeFrame("Command", PackCommand(d.meant)))
      BY <3>1
    <3> QED  BY <3>1, <3>2, ReceivedDatagram
  <2> HIDE DEF got
  <2>4. RobotOk(robot')
    <3> DEFINE a == [got |-> got, meant |-> d.meant]
    <3>1. got # Absent => CommandArrived(a)
      BY <2>3 DEF CommandArrived
    <3> HIDE DEF a
    <3>2. got # Absent => RobotOk([r EXCEPT !.cmd = a])
      BY <3>1, <1>r, SessionMoves
    <3> QED  BY <2>2, <3>2, <1>r DEF a
  <2> QED  BY <2>1, <2>4, <1>i, <1>n, EndsMove
<1>3. CASE BridgeReports
  <2>1. UNCHANGED <<work, console, up, dgram, camera, handVars>> /\ Spend("reports")
    BY <1>3 DEF BridgeReports, netVars
  <2>2. PICK t \in work.telemetry : robot' = [r EXCEPT !.telemetry = t]
    BY <1>3, <1>r DEF BridgeReports
  <2>3. t \in ReportType
    BY <2>2, <1>i, Devices
  <2>4. RobotOk(robot')
    BY <2>2, <2>3, <1>r, SessionMoves
  <2> QED  BY <2>1, <2>4, <1>i, <1>f, EndsMove
<1>4. CASE SendTelemetry
  <2>1. UNCHANGED <<work, console, robot, up, camera, handVars>> /\ Spend("ticks")
        /\ DgramSend("console", Tag(EncodeFrame("Telemetry", PackTelemetry(r.telemetry))), r.telemetry)
    BY <1>4, <1>r DEF SendTelemetry
  <2>2. r.telemetry \in ReportType \cup {Absent}
    BY <1>r DEF RobotOk
  <2>3. DgramOk(dgram')
    <3> DEFINE t == r.telemetry
    <3>1. t \in ReportType \cup {Absent} /\ DgramSend("console", Tag(EncodeFrame("Telemetry", PackTelemetry(t))), t)
      BY <2>1, <2>2
    <3> HIDE DEF t
    <3> QED  BY <3>1, <1>i, SentDatagram DEF DgramSend
  <2> QED  BY <2>1, <2>3, <1>i, <1>f, EndsMove
<1>5. CASE ConsoleReceivesTelemetry
  <2>1. UNCHANGED <<work, left, robot, up, camera, handVars>> /\ d # Absent /\ d.to = "console" /\ dgram' = Absent
    BY <1>5, <1>r DEF ConsoleReceivesTelemetry
  <2> DEFINE got == TelemetryIn(d.datagram)
  <2>2. console' = c \/ (got # Absent /\ console' = [c EXCEPT !.telemetry = [got |-> got, meant |-> d.meant]])
    BY <1>5, <1>r DEF ConsoleReceivesTelemetry
  <2>3. got = UnpackTelemetry(PackTelemetry(d.meant)) /\ d.meant \in ReportType \cup {Absent}
    <3>1. /\ d = [to |-> "console", datagram |-> Tag(EncodeFrame("Telemetry", PackTelemetry(d.meant))), meant |-> d.meant]
          /\ d.meant \in ReportType \cup {Absent}
      BY <1>r, <2>1 DEF DgramOk
    <3>2. d.datagram = Tag(EncodeFrame("Telemetry", PackTelemetry(d.meant)))
      BY <3>1
    <3> QED  BY <3>1, <3>2, ReceivedDatagram
  <2>4. got # Absent => d.meant \in ReportType
    <3>1. PackTelemetry(Absent) = <<>>
      BY DEF PackTelemetry
    <3>2. UnpackTelemetry(<<>>) = Absent
      BY DEF UnpackTelemetry, TelemetryHeaderLen
    <3> HIDE DEF got
    <3> QED  BY <2>3, <3>1, <3>2
  <2> HIDE DEF got
  <2>5. ConsoleOk(console')
    <3> DEFINE a == [got |-> got, meant |-> d.meant]
    <3>1. got # Absent => ReportArrived(a)
      BY <2>3, <2>4 DEF ReportArrived
    <3> HIDE DEF a
    <3>2. got # Absent => ConsoleOk([c EXCEPT !.telemetry = a])
      BY <3>1, <1>r, ClientMoves
    <3> QED  BY <2>2, <3>2, <1>r DEF a
  <2> QED  BY <2>1, <2>5, <1>i, <1>n, EndsMove
<1>6. CASE LoseDatagram
  <2>1. UNCHANGED <<work, console, robot, up, camera, handVars>> /\ Spend("losses") /\ dgram' = Absent
    BY <1>6 DEF LoseDatagram
  <2> QED  BY <2>1, <1>i, <1>f, <1>n, EndsMove
<1> QED  BY <1>1, <1>2, <1>3, <1>4, <1>5, <1>6

\* Every step keeps the session's part.
LEMMA SessionStep == ASSUME SessionInv, [Next]_vars PROVE SessionInv'
<1>1. CASE UNCHANGED vars
  <2>1. UNCHANGED <<work, left, console, robot, up, dgram, camera, handVars>>
    BY <1>1 DEF vars, netVars
  <2>2. ConsoleOk(console) /\ RobotOk(robot) /\ CameraOk(camera) /\ UpOk(up) /\ DgramOk(dgram) /\ up.hello <= up.hello
    BY DEF SessionInv, UpOk
  <2> QED  BY <2>1, <2>2, EndsMove
<1>2. CASE RecorderSteps
  <2>1. UNCHANGED <<work, console, robot, up, dgram, camera, handVars>> /\ (left' = left \/ Spend("stepbacks"))
        /\ "stepbacks" \in Faults \ {"hellos"}
    BY <1>2 DEF RecorderSteps, netVars, Faults
  <2>2. ConsoleOk(console) /\ RobotOk(robot) /\ CameraOk(camera) /\ UpOk(up) /\ DgramOk(dgram) /\ up.hello <= up.hello
    BY DEF SessionInv, UpOk
  <2> QED  BY <2>1, <2>2, EndsMove
<1>3. CASE Next /\ ~RecorderSteps
  BY <1>3, Connecting, Serving, Shaking, Capturing, Operated, ReadingUp, Datagrams DEF Next
<1> QED  BY <1>1, <1>2, <1>3

-----------------------------------------------------------------------------
(* The recorder.                                                           *)

\* A sequence over any set is one over its own elements.
LEMMA IsSeqOf == ASSUME NEW S, NEW q \in Seq(S) PROVE IsSeq(q)
<1> DEFINE R == {q[i] : i \in 1..Len(q)}
<1>1. Len(q) \in Nat /\ q = [i \in 1..Len(q) |-> q[i]] /\ \A i \in 1..Len(q) : q[i] \in R
  OBVIOUS
<1> HIDE DEF R
<1>2. q \in Seq(R)
  BY <1>1
<1> QED  BY <1>2 DEF IsSeq, R

\* Sequences of records as they grow and shrink.
LEMMA RecordsFacts ==
  ASSUME NEW q, NEW p \in Nat, Records(q, p)
  PROVE  /\ Len(q) \in Nat
         /\ \A p2 \in Nat : p <= p2 => Records(q, p2)
         /\ \A r : r.id \in 1..p /\ r.capture_us \in Nat => Records(Append(q, r), p) /\ Len(Append(q, r)) = Len(q) + 1
         /\ q # <<>> => /\ Records(Tail(q), p) /\ Len(Tail(q)) = Len(q) - 1
                        /\ Head(q).id \in 1..p /\ Head(q).capture_us \in Nat
         /\ \A k \in 0..Len(q) : Records(SubSeq(q, 1, k), p) /\ Len(SubSeq(q, 1, k)) = k
<1> DEFINE R == {q[i] : i \in 1..Len(q)}
<1>1. q \in Seq(R) /\ \A i \in 1..Len(q) : q[i].id \in 1..p /\ q[i].capture_us \in Nat
  BY DEF Records, IsSeq
<1>e. \A i \in 1..Len(q) : q[i] \in R
  OBVIOUS
<1> HIDE DEF R
<1>2. Len(q) \in Nat
  BY <1>1
<1>3. ASSUME NEW p2 \in Nat, p <= p2 PROVE Records(q, p2)
  <2>1. IsSeq(q)
    BY DEF Records
  <2>2. \A i \in 1..Len(q) : q[i].id \in 1..p2
    <3>1. \A n \in 1..p : n \in 1..p2
      BY <1>3
    <3> QED  BY <1>1, <3>1
  <2> QED  BY <1>1, <2>1, <2>2 DEF Records
<1>4. ASSUME NEW r, r.id \in 1..p, r.capture_us \in Nat PROVE Records(Append(q, r), p) /\ Len(Append(q, r)) = Len(q) + 1
  <2> DEFINE a == Append(q, r)
  <2>0. q \in Seq(R \cup {r})
    BY <1>1
  <2>1. a \in Seq(R \cup {r}) /\ Len(a) = Len(q) + 1 /\ \A i \in 1..(Len(q) + 1) : a[i] = IF i = Len(q) + 1 THEN r ELSE q[i]
    BY <2>0, AppendProperties
  <2> HIDE DEF a
  <2>2. ASSUME NEW i \in 1..Len(a) PROVE a[i].id \in 1..p /\ a[i].capture_us \in Nat
    <3>1. CASE i = Len(q) + 1
      BY <3>1, <2>1, <1>4
    <3>2. CASE i # Len(q) + 1
      <4>1. i \in 1..Len(q) /\ i \in 1..(Len(q) + 1)
        BY <3>2, <2>1, <1>2
      <4> QED  BY <4>1, <3>2, <2>1, <1>1
    <3> QED  BY <3>1, <3>2
  <2>3. IsSeq(a)
    BY <2>1, IsSeqOf
  <2> QED  BY <2>1, <2>2, <2>3 DEF Records, a
<1>5. ASSUME q # <<>>
      PROVE  /\ Records(Tail(q), p) /\ Len(Tail(q)) = Len(q) - 1
             /\ Head(q).id \in 1..p /\ Head(q).capture_us \in Nat
  <2> DEFINE t == Tail(q)
  <2>1. t \in Seq(R) /\ Len(t) = Len(q) - 1 /\ (\A i \in 1..Len(t) : t[i] = q[i + 1]) /\ Head(q) = q[1] /\ Len(q) > 0
    BY <1>1, <1>5, HeadTailProperties, EmptySeq
  <2> HIDE DEF t
  <2>2. \A i \in 1..Len(t) : i + 1 \in 1..Len(q)
    BY <2>1, <1>2
  <2>3. 1 \in 1..Len(q)
    BY <2>1, <1>2
  <2>4. IsSeq(t)
    BY <2>1, IsSeqOf
  <2> QED  BY <2>1, <2>2, <2>3, <2>4, <1>1 DEF Records, t
<1>6. ASSUME NEW k \in 0..Len(q) PROVE Records(SubSeq(q, 1, k), p) /\ Len(SubSeq(q, 1, k)) = k
  <2> DEFINE t == SubSeq(q, 1, k)
  <2>0. k \in Nat /\ \A i \in 1..k : i \in 1..Len(q)
    BY <1>2
  <2>1. t \in Seq(R) /\ Len(t) = k /\ \A i \in 1..k : t[i] = q[i]
    <3>1. \A i \in 1..k : q[i] \in R
      BY <2>0, <1>e
    <3> QED  BY <2>0, <3>1
  <2> HIDE DEF t
  <2>2. IsSeq(t)
    BY <2>1, IsSeqOf
  <2> QED  BY <2>0, <2>1, <2>2, <1>1 DEF Records, t
<1> QED  BY <1>2, <1>3, <1>4, <1>5, <1>6

\* What an empty ring or batch holds.
LEMMA NoRecords == \A p : Records(<<>>, p) /\ Len(<<>>) = 0
<1>1. IsSeq(<<>>)
  <2>1. <<>> \in Seq({})
    OBVIOUS
  <2> QED  BY <2>1, IsSeqOf
<1> QED  BY <1>1 DEF Records

\* What appending a record changes of a segment.
LEMMA AppendedFacts ==
  ASSUME NEW s, s \in [records : {s.records}, synced : Nat, torn_at : {s.torn_at}, overrun : BOOLEAN],
         NEW r, NEW reaches \in BOOLEAN
  PROVE  LET a == Appended(s, r, reaches)
         IN  /\ a \in [records : {a.records}, synced : Nat, torn_at : {a.torn_at}, overrun : BOOLEAN]
             /\ a.records = Append(s.records, r) /\ a.synced = s.synced /\ a.torn_at = s.torn_at
             /\ s.torn_at = Absent => a.overrun = s.overrun
<1> DEFINE q == Append(s.records, r)
           o == s.overrun \/ (s.torn_at # Absent /\ reaches)
           d == [s EXCEPT !.records = q]
           e == [d EXCEPT !.overrun = o]
<1>1. Appended(s, r, reaches) = e
  BY DEF Appended
<1>2. o \in BOOLEAN /\ (s.torn_at = Absent => o = s.overrun)
  OBVIOUS
<1> HIDE DEF q, o
<1>3. /\ d \in [records : {q}, synced : Nat, torn_at : {s.torn_at}, overrun : BOOLEAN]
      /\ d.records = q /\ d.synced = s.synced /\ d.torn_at = s.torn_at
  OBVIOUS
<1> HIDE DEF d
<1>4. /\ e \in [records : {q}, synced : Nat, torn_at : {s.torn_at}, overrun : BOOLEAN]
      /\ e.records = q /\ e.synced = s.synced /\ e.torn_at = s.torn_at /\ e.overrun = o
  BY <1>2, <1>3
<1> HIDE DEF e
<1> QED  BY <1>1, <1>2, <1>4 DEF q

\* What a crash leaves of a segment.
LEMMA RemainsFacts ==
  ASSUME NEW s, NEW k \in Nat, NEW torn \in BOOLEAN, NEW reaches \in BOOLEAN,
         s \in [records : {s.records}, synced : Nat, torn_at : {s.torn_at}, overrun : BOOLEAN]
  PROVE  LET f == Remains(s, k, torn, reaches)
         IN  /\ f \in [records : {f.records}, synced : Nat, torn_at : {f.torn_at}, overrun : BOOLEAN]
             /\ f.records = SubSeq(s.records, 1, k) /\ f.synced = k
             /\ f.torn_at = s.torn_at \/ (s.torn_at = Absent /\ f.torn_at = k)
             /\ ~s.overrun => ~f.overrun
<1> DEFINE a == SubSeq(s.records, 1, k)
           t == IF k < Len(s.records) /\ torn /\ s.torn_at = Absent THEN k ELSE s.torn_at
           o == s.overrun /\ (k < Len(s.records) => reaches /\ (torn \/ k > s.torn_at))
           d == [s EXCEPT !.records = a]
           e == [d EXCEPT !.synced = k]
           g == [e EXCEPT !.torn_at = t]
           f == [g EXCEPT !.overrun = o]
<1>1. o \in BOOLEAN /\ (~s.overrun => ~o) /\ (t = s.torn_at \/ (s.torn_at = Absent /\ t = k))
  OBVIOUS
<1>2. Remains(s, k, torn, reaches) = f
  BY DEF Remains
<1> HIDE DEF a, t, o
<1>3. d \in [records : {a}, synced : Nat, torn_at : {s.torn_at}, overrun : BOOLEAN]
  OBVIOUS
<1> HIDE DEF d
<1>4. e \in [records : {a}, synced : {k}, torn_at : {s.torn_at}, overrun : BOOLEAN]
  BY <1>3
<1> HIDE DEF e
<1>5. g \in [records : {a}, synced : {k}, torn_at : {t}, overrun : BOOLEAN]
  BY <1>4
<1> HIDE DEF g
<1>6. f \in [records : {a}, synced : {k}, torn_at : {t}, overrun : BOOLEAN] /\ f.overrun = o
  BY <1>1, <1>5
<1> HIDE DEF f
<1>7. f \in [records : {f.records}, synced : Nat, torn_at : {f.torn_at}, overrun : BOOLEAN]
      /\ f.records = a /\ f.synced = k /\ f.torn_at = t
  BY <1>6
<1> QED  BY <1>1, <1>2, <1>6, <1>7 DEF a

\* A segment stays one when it is synced, when a record is appended, and when more are pushed.
LEMMA SegmentGrows ==
  ASSUME NEW s, NEW p \in Nat, SegmentShape(s, p)
  PROVE  /\ \A p2 \in Nat : p <= p2 => SegmentShape(s, p2)
         /\ SegmentShape([s EXCEPT !.synced = Len(s.records)], p)
         /\ \A r : \A reaches \in BOOLEAN :
              r.id \in 1..p /\ r.capture_us \in Nat => SegmentShape(Appended(s, r, reaches), p)
<1>1. /\ s \in [records : {s.records}, synced : Nat, torn_at : {s.torn_at}, overrun : BOOLEAN] /\ Records(s.records, p) /\ s.synced <= Len(s.records)
      /\ Len(s.records) \in Nat
  BY RecordsFacts DEF SegmentShape
<1> DEFINE q == s.records
<1>q. Records(q, p) /\ Len(q) \in Nat /\ q = s.records
  BY <1>1
<1> HIDE DEF q
<1>2. ASSUME NEW p2 \in Nat, p <= p2 PROVE SegmentShape(s, p2)
  <2>1. Records(q, p2)
    BY <1>q, <1>2, RecordsFacts
  <2> QED  BY <2>1, <1>1, <1>q DEF SegmentShape
<1>3. SegmentShape([s EXCEPT !.synced = Len(s.records)], p)
  <2> DEFINE n == Len(q)
             d == [s EXCEPT !.synced = n]
  <2>1. n \in Nat /\ n <= n /\ n = Len(s.records)
    BY <1>q
  <2> HIDE DEF n
  <2>2. d \in [records : {d.records}, synced : Nat, torn_at : {d.torn_at}, overrun : BOOLEAN] /\ d.records = q /\ d.synced = n
    BY <2>1, <1>1, <1>q
  <2> HIDE DEF d
  <2>3. SegmentShape(d, p)
    BY <2>1, <2>2, <1>q DEF SegmentShape
  <2> QED  BY <2>1, <2>3 DEF d
<1>4. ASSUME NEW r, NEW reaches \in BOOLEAN, r.id \in 1..p, r.capture_us \in Nat
      PROVE  SegmentShape(Appended(s, r, reaches), p)
  <2> DEFINE a == Append(q, r)
             d == Appended(s, r, reaches)
  <2>1. Records(a, p) /\ Len(a) = Len(q) + 1
    BY <1>q, <1>4, RecordsFacts
  <2> HIDE DEF a
  <2>2. d \in [records : {d.records}, synced : Nat, torn_at : {d.torn_at}, overrun : BOOLEAN] /\ d.records = a /\ d.synced = s.synced
    BY <1>1, <1>q, AppendedFacts DEF a
  <2>3. s.synced <= Len(a)
    <3>1. PICK n \in Nat, m \in Nat : s.synced = n /\ Len(q) = m /\ n <= m
      BY <1>1, <1>q
    <3> QED  BY <3>1, <2>1
  <2> HIDE DEF d
  <2>4. SegmentShape(d, p)
    BY <2>1, <2>2, <2>3 DEF SegmentShape
  <2> QED  BY <2>4, <1>q DEF d, a
<1> QED  BY <1>2, <1>3, <1>4

\* Flushing keeps every segment.
LEMMA SyncedFacts ==
  ASSUME RecorderInv, NEW name, name \in DOMAIN disk \cup {Absent}
  PROVE  DOMAIN Synced(name) = DOMAIN disk /\ \A n \in DOMAIN disk : SegmentShape(Synced(name)[n], rec.pushed)
<1> DEFINE D == disk
           p == rec.pushed
<1>1. D = disk /\ p = rec.pushed /\ p \in Nat /\ \A n \in DOMAIN D : SegmentShape(D[n], p)
  BY DEF RecorderInv
<1> HIDE DEF D, p
<1>2. CASE name = Absent
  BY <1>1, <1>2 DEF Synced
<1>3. CASE name # Absent
  <2>1. Synced(name) = [D EXCEPT ![name].synced = Len(D[name].records)] /\ name \in DOMAIN D
    BY <1>1, <1>3 DEF Synced
  <2> DEFINE s == D[name]
             d == [s EXCEPT !.synced = Len(s.records)]
  <2>2. SegmentShape(s, p)
    BY <1>1, <2>1
  <2> HIDE DEF s
  <2>3. SegmentShape(d, p)
    BY <1>1, <2>2, SegmentGrows
  <2>4. Synced(name) = [D EXCEPT ![name] = d]
    BY <2>1 DEF s
  <2> HIDE DEF d
  <2>5. DOMAIN Synced(name) = DOMAIN D /\ \A n \in DOMAIN D : Synced(name)[n] = IF n = name THEN d ELSE D[n]
    BY <2>4
  <2> QED  BY <2>3, <2>5, <1>1
<1> QED  BY <1>2, <1>3

\* What is recorded keeps its shape when nothing happens to it.
LEMMA RecorderIdle == ASSUME RecorderInv, UNCHANGED recVars PROVE RecorderInv'
  BY DEF RecorderInv, recVars

\* Recorder::enqueue.
LEMMA Enqueued ==
  ASSUME RecorderInv, NEW category, NEW payload, NEW acted, Enqueue(category, payload, acted)
  PROVE  RecorderInv'
<1>1. CASE UNCHANGED recVars
  BY <1>1, RecorderIdle
<1>2. CASE ~(category # rec.category \/ ~rec.active)
  <2> DEFINE r == rec
             p == rec.pushed
             q == rec.ring
  <2>i. /\ r = rec /\ p \in Nat /\ q = r.ring /\ p = r.pushed /\ Records(q, p) /\ Len(q) <= RingCapacity
        /\ r \in [category : {r.category}, active : BOOLEAN, ring : {q}, shutdown : BOOLEAN, pushed : Nat]
        /\ clock \in [now : Nat, stepped : BOOLEAN]
        /\ Records(writer.batch, p) /\ DOMAIN disk \subseteq Nat /\ \A n \in DOMAIN disk : SegmentShape(disk[n], p)
    BY DEF RecorderInv
  <2> HIDE DEF r, p, q
  <2>1. PICK dt \in {0, 1} : clock' = [clock EXCEPT !.now = @ + dt]
    BY <1>2 DEF Enqueue
  <2>2. clock' \in [now : Nat, stepped : BOOLEAN] /\ clock'.now \in Nat
    <3>1. PICK m \in Nat : clock.now = m
      BY <2>i
    <3> DEFINE m2 == m + dt
    <3>2. m2 \in Nat
      BY <2>1, <3>1
    <3>3. clock' = [clock EXCEPT !.now = m2]
      BY <2>1, <3>1
    <3> HIDE DEF m2
    <3> QED  BY <2>i, <3>2, <3>3
  <2> DEFINE record == [id |-> p + 1, capture_us |-> clock'.now, payload |-> payload, acted |-> acted]
  <2>3. rec' = Push(r, record) /\ UNCHANGED <<writer, disk>>
    BY <1>2, <2>i DEF Enqueue
  <2>4. record.id = p + 1 /\ record.id \in 1..(p + 1) /\ record.capture_us \in Nat /\ p + 1 \in Nat /\ p <= p + 1
    BY <2>2, <2>i
  <2> HIDE DEF record
  <2> DEFINE base == IF Len(q) >= RingCapacity THEN Tail(q) ELSE q
             ring == Append(base, record)
  <2>5. Records(ring, p + 1) /\ Len(ring) <= RingCapacity
    <3>0. RingCapacity \in Nat /\ RingCapacity > 0
      BY RecordingAssumption
    <3>1. Len(q) \in Nat
      BY <2>i, RecordsFacts
    <3>2. Records(base, p) /\ Len(base) \in Nat /\ Len(base) < RingCapacity
      <4>1. CASE Len(q) >= RingCapacity
        <5>1. q # <<>>
          BY <4>1, <3>0
        <5>2. Records(Tail(q), p) /\ Len(Tail(q)) = Len(q) - 1
          BY <5>1, <2>i, RecordsFacts
        <5>3. Len(q) = RingCapacity
          BY <4>1, <3>0, <3>1, <2>i
        <5> QED  BY <4>1, <5>2, <5>3, <3>0
      <4>2. CASE ~(Len(q) >= RingCapacity)
        BY <4>2, <3>0, <3>1, <2>i
      <4> QED  BY <4>1, <4>2
    <3> HIDE DEF base
    <3>3. Records(base, p + 1)
      BY <3>2, <2>i, <2>4, RecordsFacts
    <3>4. Records(Append(base, record), p + 1) /\ Len(Append(base, record)) = Len(base) + 1
      BY <3>3, <2>4, RecordsFacts
    <3> QED  BY <3>2, <3>4, <3>0
  <2>6. rec' = [r EXCEPT !.ring = ring, !.pushed = p + 1]
    BY <2>3, <2>4, <2>i DEF Push
  <2> HIDE DEF ring
  <2>7. /\ rec' \in [category : {rec'.category}, active : BOOLEAN, ring : {rec'.ring}, shutdown : BOOLEAN, pushed : Nat]
        /\ rec'.ring = ring /\ rec'.pushed = p + 1
    <3> DEFINE n == p + 1
               d == [r EXCEPT !.ring = ring]
    <3>1. n \in Nat /\ rec' = [d EXCEPT !.pushed = n]
      BY <2>4, <2>6
    <3> HIDE DEF n
    <3>2. /\ d \in [category : {d.category}, active : BOOLEAN, ring : {ring}, shutdown : BOOLEAN, pushed : Nat]
          /\ d.ring = ring
      BY <2>i
    <3> HIDE DEF d
    <3>3. /\ rec' \in [category : {rec'.category}, active : BOOLEAN, ring : {rec'.ring}, shutdown : BOOLEAN, pushed : Nat]
          /\ rec'.ring = ring /\ rec'.pushed = n
      BY <3>1, <3>2
    <3> QED  BY <3>3 DEF n
  <2>8. Records(writer.batch, p + 1)
    <3> DEFINE b == writer.batch
    <3>1. Records(b, p)
      BY <2>i
    <3> HIDE DEF b
    <3>2. Records(b, p + 1)
      BY <3>1, <2>i, <2>4, RecordsFacts
    <3> QED  BY <3>2 DEF b
  <2>9. \A n \in DOMAIN disk : SegmentShape(disk[n], p + 1)
    <3> SUFFICES ASSUME NEW n \in DOMAIN disk PROVE SegmentShape(disk[n], p + 1)
      OBVIOUS
    <3> DEFINE s == disk[n]
    <3>1. SegmentShape(s, p)
      BY <2>i
    <3> HIDE DEF s
    <3>2. SegmentShape(s, p + 1)
      BY <3>1, <2>i, <2>4, SegmentGrows
    <3> QED  BY <3>2 DEF s
  <2>10. fate' \in [dropped : {fate'.dropped}, deleted : {fate'.deleted}, lost : {fate'.lost}, late : {fate'.late}]
    <3>1. PICK v, w : fate' = [fate EXCEPT !.dropped = v, !.late = w]
      BY <1>2 DEF Enqueue
    <3> QED  BY <3>1 DEF RecorderInv
  <2> QED  BY <2>2, <2>3, <2>5, <2>7, <2>8, <2>9, <2>10 DEF RecorderInv
<1> QED  BY <1>1, <1>2 DEF Enqueue

\* set_active, drop, drain and the end of a batch.
LEMMA RecorderMoves ==
  ASSUME RecorderInv, SetActive \/ DropRecorder \/ Drain \/ StepClockBack
  PROVE  RecorderInv'
<1> DEFINE r == rec
           w == writer
<1>i. /\ r = rec /\ w = writer
      /\ r \in [category : {r.category}, active : BOOLEAN, ring : {r.ring}, shutdown : BOOLEAN, pushed : Nat]
      /\ w \in [at : {"Drain", "Check", "Write", "Exited"}, batch : {w.batch}, segment : {w.segment}, size : Nat]
  BY DEF RecorderInv
<1> HIDE DEF r, w
<1>1. CASE SetActive
  <2>1. rec' = [r EXCEPT !.active = ~r.active] /\ UNCHANGED <<writer, disk, clock, fate>>
    BY <1>1, <1>i DEF SetActive
  <2>2. /\ rec' \in [category : {rec'.category}, active : BOOLEAN, ring : {rec'.ring}, shutdown : BOOLEAN, pushed : Nat]
        /\ rec'.ring = rec.ring /\ rec'.pushed = rec.pushed
    BY <2>1, <1>i
  <2> QED  BY <2>1, <2>2 DEF RecorderInv
<1>2. CASE DropRecorder
  <2>1. rec' = [r EXCEPT !.shutdown = TRUE] /\ UNCHANGED <<writer, disk, clock, fate>>
    BY <1>2, <1>i DEF DropRecorder
  <2>2. /\ rec' \in [category : {rec'.category}, active : BOOLEAN, ring : {rec'.ring}, shutdown : BOOLEAN, pushed : Nat]
        /\ rec'.ring = rec.ring /\ rec'.pushed = rec.pushed
    BY <2>1, <1>i
  <2> QED  BY <2>1, <2>2 DEF RecorderInv
<1>3. CASE Drain
  <2>1. /\ writer' = [w EXCEPT !.at = "Check", !.batch = r.ring] /\ rec' = [r EXCEPT !.ring = <<>>]
        /\ UNCHANGED <<disk, clock, fate>>
    BY <1>3, <1>i DEF Drain
  <2>2. /\ rec' \in [category : {rec'.category}, active : BOOLEAN, ring : {rec'.ring}, shutdown : BOOLEAN, pushed : Nat]
        /\ rec'.ring = <<>> /\ rec'.pushed = rec.pushed
    BY <2>1, <1>i
  <2>3. /\ writer' \in [at : {"Drain", "Check", "Write", "Exited"}, batch : {writer'.batch}, segment : {writer'.segment}, size : Nat]
        /\ writer'.batch = rec.ring /\ writer'.segment = writer.segment
    BY <2>1, <1>i
  <2>4. 0 <= RingCapacity
    BY RecordingAssumption
  <2> QED  BY <2>1, <2>2, <2>3, <2>4, NoRecords DEF RecorderInv
<1>4. CASE StepClockBack
  <2>1. clock' = [now |-> clock.now - 1, stepped |-> TRUE] /\ clock.now > 0 /\ UNCHANGED <<rec, writer, disk, fate>>
    BY <1>4 DEF StepClockBack
  <2>2. PICK m \in Nat : clock.now = m
    BY DEF RecorderInv
  <2>3. m - 1 \in Nat
    BY <2>1, <2>2
  <2>4. clock' \in [now : Nat, stepped : BOOLEAN]
    BY <2>1, <2>2, <2>3
  <2> QED  BY <2>1, <2>4 DEF RecorderInv
<1> QED  BY <1>1, <1>2, <1>3, <1>4

\* The writer looks at shutdown, or a batch is written.
LEMMA WriterMoves ==
  ASSUME RecorderInv, Check \/ EndBatch
  PROVE  RecorderInv'
<1> DEFINE w == writer
<1>i. /\ w = writer /\ writer.segment \in DOMAIN disk \cup {Absent} /\ DOMAIN disk \subseteq Nat
      /\ \A n \in DOMAIN disk : SegmentShape(disk[n], rec.pushed)
      /\ w \in [at : {"Drain", "Check", "Write", "Exited"}, batch : {w.batch}, segment : {w.segment}, size : Nat]
  BY DEF RecorderInv
<1> HIDE DEF w
<1>1. UNCHANGED <<rec, clock, fate>> /\ (disk' = disk \/ disk' = Synced(writer.segment))
      /\ \E a \in {"Drain", "Check", "Write", "Exited"} : writer' = [w EXCEPT !.at = a]
  <2>1. CASE Check
    BY <2>1, <1>i DEF Check
  <2>2. CASE EndBatch
    BY <2>2, <1>i DEF EndBatch
  <2> QED  BY <2>1, <2>2
<1>2. /\ writer' \in [at : {"Drain", "Check", "Write", "Exited"}, batch : {writer'.batch}, segment : {writer'.segment}, size : Nat]
      /\ writer'.batch = writer.batch /\ writer'.segment = writer.segment
  BY <1>1, <1>i
<1>3. DOMAIN disk' = DOMAIN disk /\ \A n \in DOMAIN disk : SegmentShape(disk'[n], rec.pushed)
  <2> DEFINE name == writer.segment
  <2>1. name \in DOMAIN disk \cup {Absent}
    BY <1>i
  <2> HIDE DEF name
  <2>2. DOMAIN Synced(name) = DOMAIN disk /\ \A n \in DOMAIN disk : SegmentShape(Synced(name)[n], rec.pushed)
    BY <2>1, SyncedFacts
  <2> QED  BY <2>2, <1>1, <1>i DEF name
<1> QED  BY <1>1, <1>2, <1>3 DEF RecorderInv

\* One record is written, to a segment that is there or to a new one.
LEMMA RecordWritten == ASSUME RecorderInv, WriteRecord PROVE RecorderInv'
<1> DEFINE w == writer
           p == rec.pushed
<1>i. /\ w = writer /\ p = rec.pushed /\ p \in Nat
      /\ w.segment \in DOMAIN disk \cup {Absent} /\ DOMAIN disk \subseteq Nat
      /\ \A n \in DOMAIN disk : SegmentShape(disk[n], p)
      /\ Records(w.batch, p) /\ w.batch # <<>>
      /\ w \in [at : {"Drain", "Check", "Write", "Exited"}, batch : {w.batch}, segment : {w.segment}, size : Nat]
  BY DEF RecorderInv, WriteRecord
<1>s. DOMAIN Synced(w.segment) = DOMAIN disk /\ \A n \in DOMAIN disk : SegmentShape(Synced(w.segment)[n], p)
  <2> DEFINE name == w.segment
  <2>1. name \in DOMAIN disk \cup {Absent}
    BY <1>i
  <2> HIDE DEF name
  <2>2. DOMAIN Synced(name) = DOMAIN disk /\ \A n \in DOMAIN disk : SegmentShape(Synced(name)[n], rec.pushed)
    BY <2>1, SyncedFacts
  <2> QED  BY <2>2 DEF name
<1> HIDE DEF w, p
<1> DEFINE record == Head(w.batch)
<1>r. record.id \in 1..p /\ record.capture_us \in Nat /\ Records(Tail(w.batch), p)
  <2> DEFINE b == w.batch
  <2>1. Records(b, p) /\ b # <<>>
    BY <1>i
  <2> HIDE DEF b
  <2>2. Head(b).id \in 1..p /\ Head(b).capture_us \in Nat /\ Records(Tail(b), p)
    BY <2>1, <1>i, RecordsFacts
  <2> QED  BY <2>2 DEF b
<1>1. PICK aged \in BOOLEAN :
        LET first == Head(writer.batch)
            rotates == ShouldRotate(aged)
            names == SegmentNames(disk)
            deleted == IF rotates THEN {names[i] : i \in 1..DeletedCount(names, 1)} ELSE {}
            file == IF rotates THEN first.capture_us ELSE writer.segment
            rest == [n \in DOMAIN disk \ deleted |-> IF rotates THEN Synced(writer.segment)[n] ELSE disk[n]]
            into == IF file \in DOMAIN rest THEN rest[file] ELSE EmptySegment
        IN  /\ \E reaches \in BOOLEAN :
                 disk' = [n \in DOMAIN rest \cup {file} |-> IF n = file THEN Appended(into, first, reaches) ELSE rest[n]]
            /\ writer' = [writer EXCEPT !.batch = Tail(@), !.segment = file, !.size = IF rotates THEN 1 ELSE @ + 1]
            /\ fate' = [fate EXCEPT !.deleted = @ \cup UNION {RecordIds(disk[n].records) : n \in deleted}]
  BY DEF WriteRecord
<1> DEFINE rotate == ShouldRotate(aged)
           gone == IF rotate THEN {SegmentNames(disk)[i] : i \in 1..DeletedCount(SegmentNames(disk), 1)} ELSE {}
           name == IF rotate THEN record.capture_us ELSE w.segment
           kept == [n \in DOMAIN disk \ gone |-> IF rotate THEN Synced(w.segment)[n] ELSE disk[n]]
           target == IF name \in DOMAIN kept THEN kept[name] ELSE EmptySegment
<1>d. PICK reaches \in BOOLEAN :
        disk' = [n \in DOMAIN kept \cup {name} |-> IF n = name THEN Appended(target, record, reaches) ELSE kept[n]]
  BY <1>1 DEF w
<1> DEFINE written == Appended(target, record, reaches)
<1>2. /\ disk' = [n \in DOMAIN kept \cup {name} |-> IF n = name THEN written ELSE kept[n]]
      /\ writer' = [w EXCEPT !.batch = Tail(@), !.segment = name, !.size = IF rotate THEN 1 ELSE @ + 1]
      /\ \E v : fate' = [fate EXCEPT !.deleted = v]
      /\ UNCHANGED <<rec, clock>>
  <2>1. UNCHANGED <<rec, clock>>
    BY DEF WriteRecord
  <2> QED  BY <1>1, <1>d, <2>1 DEF w
<1>3. name \in Nat
  BY <1>r, <1>i DEF ShouldRotate
<1>4. DOMAIN kept \subseteq Nat /\ \A n \in DOMAIN kept : SegmentShape(kept[n], p)
  BY <1>i, <1>s
<1> HIDE DEF record, rotate, name, kept
<1>5. SegmentShape(target, p)
  <2>1. SegmentShape(EmptySegment, p)
    <3>1. EmptySegment.records = <<>> /\ EmptySegment.synced = 0 /\ 0 \in Nat /\ Len(<<>>) = 0 /\ 0 <= 0
      BY DEF EmptySegment
    <3>2. EmptySegment \in [records : {EmptySegment.records}, synced : Nat, torn_at : {EmptySegment.torn_at}, overrun : BOOLEAN]
      BY DEF EmptySegment
    <3> QED  BY <3>1, <3>2, NoRecords DEF SegmentShape
  <2> QED  BY <2>1, <1>4
<1> HIDE DEF target
<1>6. SegmentShape(written, p)
  BY <1>5, <1>r, <1>i, SegmentGrows
<1> HIDE DEF written
<1>7. /\ name \in DOMAIN disk' /\ DOMAIN disk' \subseteq Nat
      /\ \A n \in DOMAIN disk' : SegmentShape(disk'[n], p)
  BY <1>2, <1>3, <1>4, <1>6
<1>8. /\ writer' \in [at : {"Drain", "Check", "Write", "Exited"}, batch : {writer'.batch}, segment : {writer'.segment}, size : Nat]
      /\ writer'.batch = Tail(w.batch) /\ writer'.segment = name
  <2> DEFINE size == IF rotate THEN 1 ELSE w.size + 1
             b == Tail(w.batch)
             d == [w EXCEPT !.batch = b]
             e == [d EXCEPT !.segment = name]
  <2>1. size \in Nat
    <3>1. PICK m \in Nat : w.size = m
      BY <1>i
    <3>2. m + 1 \in Nat
      OBVIOUS
    <3> QED  BY <3>1, <3>2
  <2>2. writer' = [e EXCEPT !.size = size]
    BY <1>2
  <2> HIDE DEF size, b
  <2>3. d \in [at : {"Drain", "Check", "Write", "Exited"}, batch : {b}, segment : {d.segment}, size : Nat]
    BY <1>i
  <2> HIDE DEF d
  <2>4. e \in [at : {"Drain", "Check", "Write", "Exited"}, batch : {b}, segment : {name}, size : Nat]
    BY <2>3
  <2> HIDE DEF e
  <2>5. writer' \in [at : {"Drain", "Check", "Write", "Exited"}, batch : {b}, segment : {name}, size : Nat]
    BY <2>1, <2>2, <2>4
  <2>6. writer'.batch = b /\ writer'.segment = name
    BY <2>5
  <2> QED  BY <2>5, <2>6 DEF b
<1>9. fate' \in [dropped : {fate'.dropped}, deleted : {fate'.deleted}, lost : {fate'.lost}, late : {fate'.late}]
  BY <1>2 DEF RecorderInv
<1>10. Records(writer'.batch, p)
  BY <1>8, <1>r
<1> QED  BY <1>2, <1>i, <1>7, <1>8, <1>9, <1>10 DEF RecorderInv

\* A crash leaves a part of every segment.
LEMMA Crashed == ASSUME RecorderInv, CrashRecorder PROVE RecorderInv'
<1> DEFINE r == rec
           p == rec.pushed
<1>i. /\ r = rec /\ p = r.pushed /\ p = rec.pushed /\ p \in Nat /\ DOMAIN disk \subseteq Nat
      /\ \A n \in DOMAIN disk : SegmentShape(disk[n], p)
      /\ r \in [category : {r.category}, active : BOOLEAN, ring : {r.ring}, shutdown : BOOLEAN, pushed : Nat]
  BY DEF RecorderInv
<1> HIDE DEF r, p
<1> DEFINE m == Max({0} \cup {Len(disk[n].records) : n \in DOMAIN disk})
<1>1. PICK kept \in [DOMAIN disk -> 0..m], torn, reaches \in BOOLEAN :
        /\ \A n \in DOMAIN disk : disk[n].synced <= kept[n] /\ kept[n] <= Len(disk[n].records)
        /\ disk' = [n \in DOMAIN disk |-> Remains(disk[n], kept[n], torn, reaches)]
  BY DEF CrashRecorder
<1>2. /\ rec' = [r EXCEPT !.ring = <<>>, !.shutdown = TRUE] /\ writer' = [NewWriter EXCEPT !.at = "Exited"]
      /\ UNCHANGED clock /\ \E v : fate' = [fate EXCEPT !.lost = v]
  BY <1>i DEF CrashRecorder
<1>3. \A k \in 0..m : k \in Nat
  OBVIOUS
<1> HIDE DEF m
<1>4. ASSUME NEW n \in DOMAIN disk PROVE SegmentShape(disk'[n], p)
  <2> DEFINE s == disk[n]
             k == kept[n]
             f == Remains(s, k, torn, reaches)
  <2>1. SegmentShape(s, p)
    BY <1>i
  <2>2. k \in Nat /\ s.synced <= k /\ k <= Len(s.records)
    BY <1>1, <1>3
  <2>3. disk'[n] = f
    BY <1>1
  <2> HIDE DEF s, k
  <2> DEFINE q == s.records
  <2>4. Records(q, p) /\ s \in [records : {q}, synced : Nat, torn_at : {s.torn_at}, overrun : BOOLEAN]
    BY <2>1 DEF SegmentShape
  <2>5. f \in [records : {f.records}, synced : Nat, torn_at : {f.torn_at}, overrun : BOOLEAN] /\ f.records = SubSeq(q, 1, k) /\ f.synced = k
    BY <2>2, <2>4, RemainsFacts
  <2> HIDE DEF f, q
  <2>6. Len(q) \in Nat /\ k <= Len(q)
    BY <2>2, <2>4, <1>i, RecordsFacts DEF q
  <2>7. Records(SubSeq(q, 1, k), p) /\ Len(SubSeq(q, 1, k)) = k
    <3>1. k \in 0..Len(q)
      BY <2>2, <2>6
    <3> QED  BY <3>1, <2>4, <1>i, RecordsFacts
  <2>8. k <= k
    BY <2>2
  <2>9. SegmentShape(f, p)
    BY <2>5, <2>7, <2>8 DEF SegmentShape
  <2> QED  BY <2>3, <2>9
<1>5. DOMAIN disk' = DOMAIN disk
  BY <1>1
<1>6. /\ rec' \in [category : {rec'.category}, active : BOOLEAN, ring : {rec'.ring}, shutdown : BOOLEAN, pushed : Nat]
      /\ rec'.ring = <<>> /\ rec'.pushed = p
  BY <1>2, <1>i
<1>7. /\ writer' \in [at : {"Drain", "Check", "Write", "Exited"}, batch : {writer'.batch}, segment : {writer'.segment}, size : Nat]
      /\ writer'.batch = <<>> /\ writer'.segment = Absent
  BY <1>2 DEF NewWriter
<1>8. fate' \in [dropped : {fate'.dropped}, deleted : {fate'.deleted}, lost : {fate'.lost}, late : {fate'.late}]
  BY <1>2 DEF RecorderInv
<1>9. 0 <= RingCapacity
  BY RecordingAssumption
<1> QED  BY <1>2, <1>4, <1>5, <1>6, <1>7, <1>8, <1>9, <1>i, NoRecords DEF RecorderInv

\* The process starts again with an empty ring and a new writer.
LEMMA Restarted == ASSUME RecorderInv, RestartRecorder PROVE RecorderInv'
<1> DEFINE r == rec
<1>i. r = rec /\ r \in [category : {r.category}, active : BOOLEAN, ring : {r.ring}, shutdown : BOOLEAN, pushed : Nat]
  BY DEF RecorderInv
<1> HIDE DEF r
<1>1. /\ rec' = [r EXCEPT !.ring = <<>>, !.shutdown = FALSE] /\ writer' = NewWriter /\ UNCHANGED disk
      /\ clock' = [clock EXCEPT !.now = @ + 1] /\ \E v : fate' = [fate EXCEPT !.lost = v]
  BY <1>i DEF RestartRecorder
<1>c. clock' \in [now : Nat, stepped : BOOLEAN]
  BY <1>1 DEF RecorderInv
<1>2. /\ rec' \in [category : {rec'.category}, active : BOOLEAN, ring : {rec'.ring}, shutdown : BOOLEAN, pushed : Nat]
      /\ rec'.ring = <<>> /\ rec'.pushed = rec.pushed
  BY <1>1, <1>i
<1>3. /\ writer' \in [at : {"Drain", "Check", "Write", "Exited"}, batch : {writer'.batch}, segment : {writer'.segment}, size : Nat]
      /\ writer'.batch = <<>> /\ writer'.segment = Absent
  BY <1>1 DEF NewWriter
<1>4. fate' \in [dropped : {fate'.dropped}, deleted : {fate'.deleted}, lost : {fate'.lost}, late : {fate'.late}]
  BY <1>1 DEF RecorderInv
<1>5. 0 <= RingCapacity
  BY RecordingAssumption
<1> QED  BY <1>1, <1>c, <1>2, <1>3, <1>4, <1>5, NoRecords DEF RecorderInv

-----------------------------------------------------------------------------
(* Every step keeps the recorder's part.                                   *)

\* One end records, the other does not.
LEMMA Recorded ==
  ASSUME RecorderInv, NEW end, NEW category, NEW payload, NEW acted, Record(end, category, payload, acted)
  PROVE  RecorderInv'
  BY RecorderIdle, Enqueued DEF Record

\* on_input records what it sends, and the 'r' key switches the recording.
LEMMA InputRecorded == ASSUME RecorderInv, NEW input, OnInput(input) PROVE RecorderInv'
<1>1. CASE input.kind = "Action"
  <2>1. SendActionTrigger(input.x)
    BY <1>1 DEF OnInput
  <2>2. \/ UNCHANGED recVars
        \/ \E payload, acted : Record("console", "ActionTriggerC", payload, acted)
    BY <2>1 DEF SendActionTrigger
  <2> QED  BY <2>2, RecorderIdle, Recorded
<1>2. CASE input.kind \in {"Camera", "CameraReset"}
  <2>1. SendCameraControl(LevelAfter(console.level, input))
    BY <1>2 DEF OnInput
  <2>2. \/ UNCHANGED recVars
        \/ \E payload, acted : Record("console", "ActionTriggerC", payload, acted)
    BY <2>1 DEF SendCameraControl
  <2> QED  BY <2>2, RecorderIdle, Recorded
<1>3. CASE input.kind = "ToggleRecording"
  <2>1. SetActive \/ UNCHANGED recVars
    BY <1>3 DEF OnInput
  <2> QED  BY <2>1, RecorderIdle, RecorderMoves
<1>4. CASE input.kind \notin {"Action", "Camera", "CameraReset", "ToggleRecording"}
  <2>1. UNCHANGED recVars
    BY <1>4 DEF OnInput
  <2> QED  BY <2>1, RecorderIdle
<1> QED  BY <1>1, <1>2, <1>3, <1>4

\* What the ends read and send is recorded by the one that records.
LEMMA TrafficRecorded ==
  ASSUME RecorderInv,
         \/ PressKey \/ TakeInput \/ RobotReadsTrigger \/ RobotReadsCamera
         \/ SendCommand \/ RobotReceivesCommand \/ SendTelemetry \/ ConsoleReceivesTelemetry
  PROVE  RecorderInv'
<1>1. CASE PressKey
  <2>1. \E input : OnInput(input)
    BY <1>1 DEF PressKey
  <2> QED  BY <2>1, InputRecorded
<1>2. CASE TakeInput
  <2>1. OnInput(Head(inputs)) \/ UNCHANGED recVars
    BY <1>2 DEF TakeInput
  <2> QED  BY <2>1, InputRecorded, RecorderIdle
<1>3. CASE RobotReadsTrigger \/ RobotReadsCamera
  <2>1. UNCHANGED recVars \/ \E payload, acted : Record("robot", "ActionTriggerC", payload, acted)
    <3>1. CASE RobotReadsTrigger
      BY <3>1 DEF RobotReadsTrigger
    <3>2. CASE RobotReadsCamera
      BY <3>2 DEF RobotReadsCamera
    <3> QED  BY <1>3, <3>1, <3>2
  <2> QED  BY <2>1, RecorderIdle, Recorded
<1>4. CASE SendCommand \/ RobotReceivesCommand \/ SendTelemetry \/ ConsoleReceivesTelemetry
  <2>1. UNCHANGED recVars \/ \E end, category, payload, acted : Record(end, category, payload, acted)
    <3>1. CASE SendCommand
      BY <3>1 DEF SendCommand
    <3>2. CASE RobotReceivesCommand
      BY <3>2 DEF RobotReceivesCommand
    <3>3. CASE SendTelemetry
      BY <3>3 DEF SendTelemetry
    <3>4. CASE ConsoleReceivesTelemetry
      BY <3>4 DEF ConsoleReceivesTelemetry
    <3> QED  BY <1>4, <3>1, <3>2, <3>3, <3>4
  <2> QED  BY <2>1, RecorderIdle, Recorded
<1> QED  BY <1>1, <1>2, <1>3, <1>4

\* Every step of a session keeps the recorder's part.
LEMMA RecorderStep == ASSUME RecorderInv, [Next]_vars PROVE RecorderInv'
<1>1. CASE UNCHANGED recVars
  BY <1>1, RecorderIdle
<1>2. CASE \/ PressKey \/ TakeInput \/ RobotReadsTrigger \/ RobotReadsCamera
           \/ SendCommand \/ RobotReceivesCommand \/ SendTelemetry \/ ConsoleReceivesTelemetry
  BY <1>2, TrafficRecorded
<1>3. CASE RobotStops
  <2>1. CrashRecorder \/ DropRecorder \/ UNCHANGED recVars
    BY <1>3 DEF RobotStops
  <2> QED  BY <2>1, Crashed, RecorderMoves, RecorderIdle
<1>4. CASE RobotStarts
  <2>1. RestartRecorder \/ UNCHANGED recVars
    BY <1>4 DEF RobotStarts
  <2> QED  BY <2>1, Restarted, RecorderIdle
<1>5. CASE RecorderSteps
  <2>1. Drain \/ Check \/ WriteRecord \/ EndBatch \/ StepClockBack
    BY <1>5 DEF RecorderSteps, WriterStep
  <2> QED  BY <2>1, RecorderMoves, WriterMoves, RecordWritten
<1>6. CASE \/ Connect \/ ResumeEstablishes \/ ResumeFails \/ CancelAttempt \/ Establish \/ HelloAgain \/ SaveTicket
           \/ ConsoleTimesOut \/ RobotAccept \/ RobotAcceptStray \/ RobotAdopts \/ RobotSessionEnds \/ LinkDown \/ LinkUp
  <2>1. UNCHANGED recVars
    BY <1>6 DEF Connect, ResumeEstablishes, ResumeFails, CancelAttempt, Establish, HelloAgain, SaveTicket, ConsoleTimesOut,
                RobotAccept, RobotAcceptStray, RobotAdopts, RobotSessionEnds, LinkDown, LinkUp
  <2> QED  BY <2>1, RecorderIdle
<1>7. CASE \/ RobotReadsHello \/ ConsoleReadsHello \/ ConsoleReadsDescribe \/ RobotReadsAccept \/ PadEvent \/ PadRefresh
           \/ CameraRead \/ CameraSpawn \/ CameraChanged \/ CameraFails \/ BridgeReports \/ LoseDatagram
  <2>1. UNCHANGED recVars
    BY <1>7 DEF RobotReadsHello, ConsoleReadsHello, ConsoleReadsDescribe, RobotReadsAccept, PadEvent, PadRefresh,
                CameraRead, CameraSpawn, CameraChanged, CameraFails, BridgeReports, LoseDatagram
  <2> QED  BY <2>1, RecorderIdle
<1>8. UNCHANGED vars => UNCHANGED recVars
  BY DEF vars
<1> QED  BY <1>1, <1>2, <1>3, <1>4, <1>5, <1>6, <1>7, <1>8 DEF Next

-----------------------------------------------------------------------------
(* What the two ends tell each other.                                      *)

\* What a robot's build may be.
LEMMA Builds ==
  ASSUME NEW w \in Workloads
  PROVE  /\ w.build.robot_major \in 0..255
         /\ w.build.sensors \in Seq(SensorDescriptors \ {Absent})
         /\ \A i, j \in 1..Len(w.build.sensors) : w.build.sensors[i].sensor_id = w.build.sensors[j].sensor_id => i = j
<1>1. w.build.robot_major \in 0..255
  BY BuildAssumption
<1>2. w.build.sensors \in Seq(SensorDescriptors \ {Absent})
  BY BuildAssumption
<1>3. \A i, j \in 1..Len(w.build.sensors) : w.build.sensors[i].sensor_id = w.build.sensors[j].sensor_id => i = j
  BY BuildAssumption
<1> QED  BY <1>1, <1>2, <1>3

\* A version of major and minor bytes comes back out of its u16.
LEMMA HelloTravels ==
  ASSUME NEW major \in 0..255, NEW task_class, NEW forwarding
  PROVE  LET h == LocalHello(major, task_class, forwarding) IN DecodeHello(EncodeHello(h)) = h
<1>1. (major * 256 + 0) \div 256 = major /\ (major * 256 + 0) % 256 = 0
  OBVIOUS
<1> QED  BY <1>1 DEF LocalHello, EncodeHello, DecodeHello

\* Both ends come to the same result, or both to none.
LEMMA BothNegotiate ==
  ASSUME work \in Workloads
  PROVE  Negotiate(ConsoleHello, DecodeHello(EncodeHello(RobotHello))) = Negotiate(RobotHello, DecodeHello(EncodeHello(ConsoleHello)))
<1> DEFINE c == ConsoleHello
           r == RobotHello
<1>1. DecodeHello(EncodeHello(c)) = c /\ DecodeHello(EncodeHello(r)) = r
  <2>1. 1 \in 0..255 /\ work.build.robot_major \in 0..255
    BY Builds
  <2> QED  BY <2>1, HelloTravels DEF ConsoleHello, RobotHello
<1>2. c.minor = 0 /\ r.minor = 0 /\ c.rate_hz = 50 /\ r.rate_hz = 50
  BY DEF ConsoleHello, RobotHello, LocalHello
<1> HIDE DEF c, r
<1>3. Negotiate(c, r) = Negotiate(r, c)
  <2>1. CASE c.major # r.major
    BY <2>1 DEF Negotiate
  <2>2. CASE c.major = r.major
    <3>1. /\ c.capabilities \cap r.capabilities = r.capabilities \cap c.capabilities
          /\ c.task_classes \cap r.task_classes = r.task_classes \cap c.task_classes
          /\ c.tiers \cap r.tiers = r.tiers \cap c.tiers
      OBVIOUS
    <3>2. Lesser(c.minor, r.minor) = Lesser(r.minor, c.minor) /\ Lesser(c.rate_hz, r.rate_hz) = Lesser(r.rate_hz, c.rate_hz)
      BY <1>2
    <3> QED  BY <2>2, <3>1, <3>2 DEF Negotiate
  <2> QED  BY <2>1, <2>2
<1> QED  BY <1>1, <1>3 DEF c, r

\* A name that is in an enumeration comes back from its ordinal.
LEMMA NamedOrdinal ==
  ASSUME NEW names, NEW v, \E i \in 1..Len(names) : names[i] = v
  PROVE  Named(names, Ordinal(names, v)) = v
<1> DEFINE n == Ordinal(names, v)
<1>1. n \in 1..Len(names) /\ names[n] = v
  BY DEF Ordinal
<1> HIDE DEF n
<1> QED  BY <1>1 DEF Named, n

\* The values of the enumerations a description carries come back as they were sent.
LEMMA EnumerationFacts ==
  /\ Named(BaseTypes, Ordinal(BaseTypes, "QuadrupedLegs")) = "QuadrupedLegs"
  /\ Named(Codecs, Ordinal(Codecs, "H264")) = "H264"
  /\ \A v \in {"VelocityAttitude", "CartesianEndEffector"} : Named(Shapes, Ordinal(Shapes, v)) = v
<1>1. Len(BaseTypes) = 6 /\ BaseTypes[5] = "QuadrupedLegs" /\ 5 \in 1..6
  BY DEF BaseTypes
<1>2. Len(Codecs) = 3 /\ Codecs[3] = "H264" /\ 3 \in 1..3
  BY DEF Codecs
<1>3. Len(Shapes) = 3 /\ Shapes[2] = "VelocityAttitude" /\ Shapes[3] = "CartesianEndEffector" /\ {2, 3} \subseteq 1..3
  BY DEF Shapes
<1>4. Named(BaseTypes, Ordinal(BaseTypes, "QuadrupedLegs")) = "QuadrupedLegs"
  BY <1>1, NamedOrdinal
<1>5. Named(Codecs, Ordinal(Codecs, "H264")) = "H264"
  BY <1>2, NamedOrdinal
<1>6. ASSUME NEW v \in {"VelocityAttitude", "CartesianEndEffector"} PROVE Named(Shapes, Ordinal(Shapes, v)) = v
  <2>1. \E i \in 1..Len(Shapes) : Shapes[i] = v
    BY <1>3
  <2> QED  BY <2>1, NamedOrdinal
<1> QED  BY <1>4, <1>5, <1>6

\* The XGO's five regions: four legs that share a velocity, and the arm.
LEMMA ProfileFacts ==
  /\ XgoProfile = [dof_count |-> XgoProfile.dof_count, base_type |-> "QuadrupedLegs", joints |-> XgoProfile.joints,
                   regions |-> XgoProfile.regions]
  /\ Len(XgoProfile.regions) = 5 /\ DOMAIN XgoProfile.regions = 1..5
  /\ XgoProfile.regions = [i \in 1..5 |-> XgoProfile.regions[i]]
  /\ \A i \in 1..5 :
       LET g == XgoProfile.regions[i] IN
       g = [region_id |-> g.region_id, name |-> g.name, joint_start |-> g.joint_start, joint_count |-> g.joint_count,
            has_force_torque_sensor |-> g.has_force_torque_sensor,
            command_shape |-> IF i = 5 THEN "CartesianEndEffector" ELSE "VelocityAttitude"]
<1> DEFINE legs == [i \in 1..4 |-> Region(i - 1, LegNames[i], 3 * (i - 1), "VelocityAttitude")]
           arm == Region(ArmRegionId, "arm", 12, "CartesianEndEffector")
           q == XgoProfile.regions
<1>1. q = legs \o <<arm>>
  BY DEF XgoProfile
<1>2. legs \in Seq({legs[i] : i \in 1..4}) /\ Len(legs) = 4 /\ DOMAIN legs = 1..4
  OBVIOUS
<1>3. \A i \in 1..4 : legs[i] = Region(i - 1, LegNames[i], 3 * (i - 1), "VelocityAttitude")
  OBVIOUS
<1> HIDE DEF legs, arm
<1>4. Len(q) = 5 /\ DOMAIN q = 1..5 /\ q[5] = arm /\ (\A i \in 1..4 : q[i] = legs[i]) /\ q = [i \in 1..5 |-> q[i]]
  <2> DEFINE S == {legs[i] : i \in 1..4} \cup {arm}
  <2>1. legs \in Seq(S) /\ <<arm>> \in Seq(S) /\ Len(<<arm>>) = 1 /\ <<arm>>[1] = arm
    BY <1>2
  <2> HIDE DEF S
  <2>2. /\ legs \o <<arm>> \in Seq(S) /\ Len(legs \o <<arm>>) = 5
        /\ \A i \in 1..5 : (legs \o <<arm>>)[i] = IF i <= 4 THEN legs[i] ELSE <<arm>>[i - 4]
    <3>1. /\ legs \o <<arm>> \in Seq(S) /\ Len(legs \o <<arm>>) = Len(legs) + Len(<<arm>>)
          /\ \A i \in 1..(Len(legs) + Len(<<arm>>)) : (legs \o <<arm>>)[i] = IF i <= Len(legs) THEN legs[i] ELSE <<arm>>[i - Len(legs)]
      BY <2>1, ConcatProperties
    <3> QED  BY <3>1, <2>1, <1>2
  <2> DEFINE t == legs \o <<arm>>
  <2>3. Len(t) = 5 /\ DOMAIN t = 1..5 /\ t[5] = arm /\ (\A i \in 1..4 : t[i] = legs[i]) /\ t = [i \in 1..5 |-> t[i]]
    <3>1. t \in Seq(S) /\ Len(t) = 5 /\ \A i \in 1..5 : t[i] = IF i <= 4 THEN legs[i] ELSE <<arm>>[i - 4]
      BY <2>2
    <3>2. t[5] = <<arm>>[1]
      BY <3>1
    <3> HIDE DEF t
    <3>3. DOMAIN t = 1..5 /\ t = [i \in 1..5 |-> t[i]]
      BY <3>1
    <3> QED  BY <3>1, <3>2, <3>3, <2>1
  <2> QED  BY <2>3, <1>1
<1>5. ASSUME NEW i \in 1..5
      PROVE  LET g == q[i] IN
             g = [region_id |-> g.region_id, name |-> g.name, joint_start |-> g.joint_start, joint_count |-> g.joint_count,
                  has_force_torque_sensor |-> g.has_force_torque_sensor,
                  command_shape |-> IF i = 5 THEN "CartesianEndEffector" ELSE "VelocityAttitude"]
  <2>1. CASE i = 5
    <3>1. q[i] = Region(ArmRegionId, "arm", 12, "CartesianEndEffector")
      BY <2>1, <1>4 DEF arm
    <3> QED  BY <2>1, <3>1 DEF Region
  <2>2. CASE i # 5
    <3>1. q[i] = Region(i - 1, LegNames[i], 3 * (i - 1), "VelocityAttitude")
      BY <2>2, <1>3, <1>4
    <3> QED  BY <2>2, <3>1 DEF Region
  <2> QED  BY <2>1, <2>2
<1>6. XgoProfile = [dof_count |-> XgoProfile.dof_count, base_type |-> "QuadrupedLegs", joints |-> XgoProfile.joints,
                   regions |-> XgoProfile.regions]
  BY DEF XgoProfile
<1> QED  BY <1>4, <1>5, <1>6

\* A region whose shape has a name comes back as it was.
LEMMA RegionTravels ==
  ASSUME NEW a, NEW b, NEW c, NEW d, NEW e, NEW shape \in {"VelocityAttitude", "CartesianEndEffector"},
         NEW g, g = [region_id |-> a, name |-> b, joint_start |-> c, joint_count |-> d,
                     has_force_torque_sensor |-> e, command_shape |-> shape]
  PROVE  DecodeRegion(EncodeRegion(g)) = g
<1> DEFINE n == Ordinal(Shapes, shape)
<1>1. Named(Shapes, n) = shape
  BY EnumerationFacts
<1> HIDE DEF n
<1>2. EncodeRegion(g) = [g EXCEPT !.command_shape = n]
  BY DEF EncodeRegion, n
<1> QED  BY <1>1, <1>2 DEF DecodeRegion

\* So does a camera of the robot's codec.
LEMMA CameraTravels ==
  ASSUME NEW a, NEW b, NEW d, NEW e, NEW f,
         NEW c, c = [camera_id |-> a, label |-> b, codec |-> "H264", resolution |-> d, max_fps |-> e, bitrate_kbps |-> f]
  PROVE  DecodeCamera(EncodeCamera(c)) = c
<1> DEFINE n == Ordinal(Codecs, "H264")
<1>1. Named(Codecs, n) = "H264"
  BY EnumerationFacts
<1> HIDE DEF n
<1>2. EncodeCamera(c) = [c EXCEPT !.codec = n]
  BY DEF EncodeCamera, n
<1> QED  BY <1>1, <1>2 DEF DecodeCamera

\* And a profile whose regions do.
LEMMA ProfileRoundTrip ==
  ASSUME NEW a, NEW b, NEW q, IsSeq(q), \A i \in 1..Len(q) : DecodeRegion(EncodeRegion(q[i])) = q[i],
         NEW p, p = [dof_count |-> a, base_type |-> "QuadrupedLegs", joints |-> b, regions |-> q]
  PROVE  DecodeProfile(EncodeProfile(p)) = p
<1> DEFINE m == Ordinal(BaseTypes, "QuadrupedLegs")
           n == Len(q)
           t == [i \in 1..n |-> EncodeRegion(q[i])]
           u == [i \in 1..n |-> DecodeRegion(t[i])]
           w == [dof_count |-> a, base_type |-> m, joints |-> b, regions |-> t]
<1>0. n \in Nat /\ q = [i \in 1..n |-> q[i]]
  <2> DEFINE S == {q[i] : i \in 1..Len(q)}
  <2>1. q \in Seq(S)
    BY DEF IsSeq
  <2> HIDE DEF S
  <2> QED  BY <2>1
<1>1. Named(BaseTypes, m) = "QuadrupedLegs"
  BY EnumerationFacts
<1>2. EncodeProfile(p) = w
  <2>1. EncodeProfile(p) = [p EXCEPT !.base_type = m, !.regions = t]
    BY DEF EncodeProfile
  <2> HIDE DEF m, t
  <2> QED  BY <2>1
<1>3. u = q
  BY <1>0
<1>4. Len(t) = n
  BY <1>0
<1> HIDE DEF m, t, n
<1>5. DecodeProfile(w) = [dof_count |-> a, base_type |-> Named(BaseTypes, m), joints |-> b, regions |-> u]
  <2>1. w.base_type = m /\ w.regions = t
    OBVIOUS
  <2>2. DecodeProfile(w) = [w EXCEPT !.base_type = Named(BaseTypes, m), !.regions = u]
    BY <2>1, <1>4 DEF DecodeProfile
  <2> HIDE DEF u
  <2> QED  BY <2>2
<1> HIDE DEF u
<1> QED  BY <1>1, <1>2, <1>3, <1>5

\* The XGO's profile and its camera are described as they are.
LEMMA ProfileTravels ==
  /\ TheInfo.profile = XgoProfile /\ TheInfo.profile_hash = ProfileHash(XgoProfile)
  /\ TheInfo.cameras = Cameras
<1> DEFINE p == XgoProfile
           q == p.regions
           w == TheDescribe
<1>1. /\ TheInfo.profile_hash = ProfileHash(p) /\ TheInfo.profile = DecodeProfile(EncodeProfile(p))
      /\ w.cameras = [i \in 1..Len(Cameras) |-> EncodeCamera(Cameras[i])]
      /\ TheInfo.cameras = [i \in 1..Len(w.cameras) |-> DecodeCamera(w.cameras[i])]
  <2> DEFINE cs == Cameras
             ss == work.build.sensors
             id == "xgo"
  <2>1. w = EncodeDescribe(id, p, cs, ss) /\ TheInfo = DecodeDescribe(w)
    BY DEF TheInfo, TheDescribe
  <2> HIDE DEF w, p, cs, ss, id
  <2>2. /\ w.profile_hash = ProfileHash(p) /\ w.profile = EncodeProfile(p)
        /\ w.cameras = [i \in 1..Len(cs) |-> EncodeCamera(cs[i])]
    BY <2>1 DEF EncodeDescribe
  <2>3. /\ TheInfo.profile_hash = w.profile_hash /\ TheInfo.profile = DecodeProfile(w.profile)
        /\ TheInfo.cameras = [i \in 1..Len(w.cameras) |-> DecodeCamera(w.cameras[i])]
    BY <2>1 DEF DecodeDescribe
  <2> QED  BY <2>2, <2>3 DEF cs
<1>2. ASSUME NEW i \in 1..5 PROVE DecodeRegion(EncodeRegion(q[i])) = q[i]
  <2> DEFINE shape == IF i = 5 THEN "CartesianEndEffector" ELSE "VelocityAttitude"
             g == q[i]
  <2>1. shape \in {"VelocityAttitude", "CartesianEndEffector"}
    OBVIOUS
  <2>2. g = [region_id |-> g.region_id, name |-> g.name, joint_start |-> g.joint_start, joint_count |-> g.joint_count,
             has_force_torque_sensor |-> g.has_force_torque_sensor, command_shape |-> shape]
    BY ProfileFacts
  <2> HIDE DEF g, shape
  <2>3. DecodeRegion(EncodeRegion(g)) = g
    BY <2>1, <2>2, RegionTravels
  <2> QED  BY <2>3 DEF g
<1>3. DecodeProfile(EncodeProfile(p)) = p
  <2>1. Len(q) = 5 /\ q = [i \in 1..5 |-> q[i]]
    BY ProfileFacts
  <2>2. PICK a, b : p = [dof_count |-> a, base_type |-> "QuadrupedLegs", joints |-> b, regions |-> q]
    BY ProfileFacts
  <2>3. IsSeq(q) /\ \A i \in 1..Len(q) : DecodeRegion(EncodeRegion(q[i])) = q[i]
    <3>1. \A i \in 1..Len(q) : DecodeRegion(EncodeRegion(q[i])) = q[i]
      BY <1>2, <2>1
    <3>2. q \in Seq({q[i] : i \in 1..5})
      <4> DEFINE S == {q[i] : i \in 1..5}
      <4>1. \A i \in 1..5 : q[i] \in S
        OBVIOUS
      <4> HIDE DEF S, q
      <4>2. q \in [1..5 -> S]
        BY <2>1, <4>1
      <4> HIDE DEF S, q
      <4>3. 5 \in Nat
        OBVIOUS
      <4> QED  BY <4>2, <4>3, SMTT(30)
    <3> QED  BY <2>1, <3>1, <3>2 DEF IsSeq
  <2> HIDE DEF p, q
  <2> QED  BY <2>2, <2>3, ProfileRoundTrip
<1>4. TheInfo.cameras = Cameras
  <2> DEFINE cs == Cameras
             x == [i \in 1..Len(cs) |-> EncodeCamera(cs[i])]
             y == [i \in 1..Len(x) |-> DecodeCamera(x[i])]
  <2>1. TheInfo.cameras = y
    BY <1>1
  <2>2. CASE cs = <<>>
    <3>1. y = <<>>
      BY <2>2
    <3> QED  BY <3>1, <2>1, <2>2
  <2>3. CASE cs = <<XgoCamera>>
    <3> DEFINE c == XgoCamera
               s == EncodeCamera(c)
    <3>1. Len(cs) = 1 /\ cs[1] = c
      BY <2>3
    <3>2. Len(x) = 1 /\ x[1] = s
      BY <3>1
    <3>3. y[1] = DecodeCamera(s) /\ y = [i \in 1..1 |-> y[i]]
      <4> HIDE DEF x, s
      <4> QED  BY <3>2
    <3>4. DecodeCamera(s) = c
      <4>1. c = [camera_id |-> c.camera_id, label |-> c.label, codec |-> "H264", resolution |-> c.resolution,
                 max_fps |-> c.max_fps, bitrate_kbps |-> c.bitrate_kbps]
        BY DEF XgoCamera
      <4> HIDE DEF c
      <4> QED  BY <4>1, CameraTravels
    <3> HIDE DEF y, c, s
    <3>5. y = <<c>>
      BY <3>3, <3>4
    <3> QED  BY <3>5, <2>1, <2>3 DEF c
  <2> QED  BY <2>2, <2>3 DEF Cameras
<1> QED  BY <1>1, <1>3, <1>4

\* A set of small numbers has a greatest.
LEMMA MaxFacts ==
  ASSUME NEW n \in Nat, NEW S, S \subseteq 0..n, S # {}
  PROVE  Max(S) \in S /\ \A y \in S : y <= Max(S)
<1> DEFINE T == {n - x : x \in S}
<1>0. \A x \in S : x \in Int /\ n - x \in Nat
  OBVIOUS
<1>1. T \subseteq Nat /\ T # {}
  BY <1>0
<1>2. PICK m \in T : \A k \in T : m <= k
  <2> HIDE DEF T
  <2> QED  BY <1>1, LeastNatural
<1>3. PICK x \in S : m = n - x
  BY <1>2
<1>4. \A y \in S : x >= y
  <2>1. ASSUME NEW y \in S PROVE x >= y
    <3>1. n - x <= n - y
      BY <1>2, <1>3
    <3>2. x \in Int /\ y \in Int
      OBVIOUS
    <3> QED  BY <3>1, <3>2
  <2> QED  BY <2>1
<1>5. Max(S) \in S /\ \A y \in S : Max(S) >= y
  BY <1>4 DEF Max
<1> DEFINE z == Max(S)
<1>6. ASSUME NEW y \in S PROVE y <= z
  <2>1. z \in S /\ z >= y
    BY <1>5
  <2> HIDE DEF z
  <2>2. z \in Int /\ y \in Int
    BY <2>1
  <2> QED  BY <2>1, <2>2
<1> QED  BY <1>5, <1>6

\* Two values, one after the other.
LEMMA PairFacts == ASSUME NEW a, NEW b PROVE Len(Append(<<a>>, b)) = 2 /\ Append(<<a>>, b)[1] = a /\ Append(<<a>>, b)[2] = b
<1> DEFINE S == {a, b}
           s == <<a>>
<1>1. s \in Seq(S)
  OBVIOUS
<1>2. b \in S
  OBVIOUS
<1>3. Len(s) = 1 /\ s[1] = a
  OBVIOUS
<1> HIDE DEF S, s
<1>4. Append(s, b)[Len(s) + 1] = b
  BY <1>1, <1>2, AppendProperties
<1>5. Len(Append(s, b)) = Len(s) + 1
  BY <1>1, <1>2, AppendProperties
<1>6. \A i \in 1..Len(s) : Append(s, b)[i] = s[i]
  BY <1>1, <1>2, AppendProperties
<1>7. Len(s) + 1 = 2
  BY <1>3
<1>8. Append(s, b)[2] = b
  BY <1>4, <1>7
<1>9. Len(Append(s, b)) = 2
  BY <1>5, <1>7
<1>10. Append(s, b)[1] = a
  <2>1. 1 \in 1..Len(s)
    BY <1>3
  <2> QED  BY <2>1, <1>3, <1>6
<1> QED  BY <1>8, <1>9, <1>10 DEF s

\* The XGO's layout is the one TeleopCommand has built in: one velocity for all legs, then the arm.
LEMMA BuiltInLayout ==
  ASSUME NEW blocks, blocks = DeriveCommandLayout(XgoProfile, {}, "Standard")
  PROVE  /\ Len(blocks) = 2
         /\ blocks[1].byte_offset = 0 /\ blocks[1].byte_len = VelocityAttitudeLen
         /\ blocks[2].byte_offset = VelocityAttitudeLen /\ blocks[2].byte_len = CartesianLen
<1> DEFINE q == XgoProfile.regions
           Repeats(bs, g) == g.command_shape = "VelocityAttitude" /\ \E i \in 1..Len(bs) : bs[i].shape = "VelocityAttitude"
           Cursor(bs) == IF bs = <<>> THEN 0 ELSE Last(bs).byte_offset + Last(bs).byte_len
           Add(bs, g) == IF ~Selected({}, g.region_id) \/ Repeats(bs, g) THEN bs
                         ELSE Append(bs, BlockOf(XgoProfile, g, Cursor(bs), "Standard"))
           Solves(it) == it = [s \in SUBSET (1..5) |-> IF s = {} THEN <<>> ELSE Add(it[s \ {Max(s)}], q[Max(s)])]
           va == [shape |-> "VelocityAttitude", region_id |-> Absent, byte_offset |-> 0, byte_len |-> 12, joint_offsets |-> <<>>]
           arm == BlockOf(XgoProfile, q[5], 12, "Standard")
           bare == BlockOf(XgoProfile, q[5], 0, "Standard")
           two == Append(<<va>>, arm)
<1>1. DOMAIN q = 1..5 /\ q[5].command_shape = "CartesianEndEffector"
      /\ \A i \in 1..4 : q[i].command_shape = "VelocityAttitude"
  <2>1. \A i \in 1..5 : q[i].command_shape = IF i = 5 THEN "CartesianEndEffector" ELSE "VelocityAttitude"
    <3>1. ASSUME NEW i \in 1..5 PROVE q[i].command_shape = IF i = 5 THEN "CartesianEndEffector" ELSE "VelocityAttitude"
      <4> DEFINE shape == IF i = 5 THEN "CartesianEndEffector" ELSE "VelocityAttitude"
                 g == q[i]
      <4>1. g = [region_id |-> g.region_id, name |-> g.name, joint_start |-> g.joint_start, joint_count |-> g.joint_count,
                 has_force_torque_sensor |-> g.has_force_torque_sensor, command_shape |-> shape]
        BY ProfileFacts
      <4> HIDE DEF shape, g
      <4>2. g.command_shape = shape
        BY <4>1
      <4> QED  BY <4>2 DEF shape, g
    <3> QED  BY <3>1
  <2> QED  BY <2>1, ProfileFacts
<1>2. blocks = (CHOOSE it : Solves(it))[1..5]
  BY <1>1 DEF DeriveCommandLayout, FoldLeft, MapThenFoldSet
<1>3. /\ \A i \in 1..4 : BlockOf(XgoProfile, q[i], 0, "Standard") = va
      /\ arm.shape = "CartesianEndEffector" /\ arm.byte_offset = 12 /\ arm.byte_len = 8
  <2>1. FixedFieldCount("VelocityAttitude") * BytesPerField("Standard") = 12
        /\ FixedFieldCount("CartesianEndEffector") * BytesPerField("Standard") = 8
    BY DEF FixedFieldCount, BytesPerField
  <2> QED  BY <1>1, <2>1 DEF BlockOf
<1> HIDE DEF arm, bare
<1>4. \A bs : Add(bs, q[5]) = Append(bs, BlockOf(XgoProfile, q[5], Cursor(bs), "Standard"))
  BY <1>1 DEF Selected
<1>5. Add(<<>>, q[5]) = <<bare>> /\ Add(<<va>>, q[5]) = two
  <2>1. Cursor(<<>>) = 0
    OBVIOUS
  <2>2. Cursor(<<va>>) = 12
    BY DEF Last
  <2> HIDE DEF Cursor, Add, va
  <2>3. Append(<<>>, bare) = <<bare>>
    OBVIOUS
  <2> QED  BY <1>4, <2>1, <2>2, <2>3 DEF arm, bare
<1>6. ASSUME NEW i \in 1..4 PROVE Add(<<>>, q[i]) = <<va>> /\ Add(<<va>>, q[i]) = <<va>>
  <2>1. Cursor(<<>>) = 0 /\ Selected({}, q[i].region_id) /\ ~Repeats(<<>>, q[i])
    BY DEF Selected
  <2>2. Repeats(<<va>>, q[i])
    BY <1>1
  <2> HIDE DEF Cursor, Repeats, va
  <2>3. Add(<<>>, q[i]) = Append(<<>>, va)
    BY <2>1, <1>3
  <2>4. Add(<<va>>, q[i]) = <<va>>
    BY <2>2
  <2> HIDE DEF Add
  <2>5. Append(<<>>, va) = <<va>>
    OBVIOUS
  <2> QED  BY <2>3, <2>4, <2>5
<1> HIDE DEF Add, va, two
<1> DEFINE g == [s \in SUBSET (1..5) |-> IF s = {} THEN <<>> ELSE IF 5 \notin s THEN <<va>>
                                         ELSE IF s = {5} THEN <<bare>> ELSE two]
<1>7. Solves(g)
  <2>1. ASSUME NEW s \in SUBSET (1..5), s # {} PROVE g[s] = Add(g[s \ {Max(s)}], q[Max(s)])
    <3> DEFINE x == Max(s)
               t == s \ {x}
    <3>1. x \in s /\ \A y \in s : y <= x
      BY <2>1, MaxFacts, 5 \in Nat, 1..5 \subseteq 0..5
    <3> HIDE DEF x
    <3>2. t \in SUBSET (1..5) /\ x \in 1..5
      BY <3>1
    <3>s. SUFFICES g[s] = Add(g[t], q[x])
      BY DEF x
    <3>3. CASE x = 5
      <4>1. CASE t = {}
        <5>1. s = {5}
          BY <3>1, <3>3, <4>1
        <5> QED  BY <5>1, <4>1, <3>2, <3>3, <1>5
      <4>2. CASE t # {}
        <5>1. 5 \notin t /\ 5 \in s /\ s # {5}
          BY <3>1, <3>3, <4>2
        <5>2. g[t] = <<va>> /\ g[s] = two
          BY <5>1, <4>2, <3>2
        <5> QED  BY <5>2, <3>3, <1>5
      <4> QED  BY <4>1, <4>2
    <3>4. CASE x # 5
      <4>1. x \in 1..4 /\ 5 \notin s /\ 5 \notin t
        <5>1. 5 \notin s
          BY <3>1, <3>2, <3>4
        <5> QED  BY <5>1, <3>2, <3>4
      <4>2. g[s] = <<va>> /\ (g[t] = <<>> \/ g[t] = <<va>>)
        BY <4>1, <2>1, <3>2
      <4> HIDE DEF g
      <4> QED  BY <4>1, <4>2, <1>6
    <3> QED  BY <3>3, <3>4
  <2>2. g[{}] = <<>>
    OBVIOUS
  <2>3. g = [s \in SUBSET (1..5) |-> g[s]]
    OBVIOUS
  <2> HIDE DEF g
  <2>4. \A s \in SUBSET (1..5) : g[s] = IF s = {} THEN <<>> ELSE Add(g[s \ {Max(s)}], q[Max(s)])
    BY <2>1, <2>2
  <2> QED  BY <2>3, <2>4
<1> DEFINE h == CHOOSE it : Solves(it)
<1>8. Solves(h)
  <2> HIDE DEF Solves
  <2> QED  BY <1>7
<1>9. \A s \in SUBSET (1..5) : h[s] = IF s = {} THEN <<>> ELSE Add(h[s \ {Max(s)}], q[Max(s)])
  BY <1>8
<1>10. blocks = h[1..5]
  BY <1>2
<1> HIDE DEF h, Solves
<1>11. ASSUME NEW n \in 1..5 PROVE 1..n \in SUBSET (1..5) /\ 1..n # {} /\ Max(1..n) = n /\ (1..n) \ {n} = 1..(n - 1)
  <2> DEFINE x == Max(1..n)
  <2>1. 1..n \subseteq 0..n /\ 1..n # {} /\ n \in Nat
    OBVIOUS
  <2>2. x \in 1..n /\ \A y \in 1..n : y <= x
    BY <2>1, MaxFacts
  <2> HIDE DEF x
  <2>3. n \in 1..n
    OBVIOUS
  <2>4. x = n
    BY <2>2, <2>3
  <2> QED  BY <2>4 DEF x
<1>12. ASSUME NEW n \in 1..5 PROVE h[1..n] = Add(h[1..(n - 1)], q[n])
  BY <1>9, <1>11
<1>13. h[1..0] = <<>>
  <2>1. 1..0 = {} /\ {} \in SUBSET (1..5)
    OBVIOUS
  <2> QED  BY <2>1, <1>9
<1>14. h[1..1] = <<va>>
  <2>1. h[1..1] = Add(h[1..(1 - 1)], q[1]) /\ 1 - 1 = 0
    BY <1>12
  <2> QED  BY <2>1, <1>13, <1>6
<1>15. h[1..2] = <<va>>
  <2>1. h[1..2] = Add(h[1..(2 - 1)], q[2]) /\ 2 - 1 = 1
    BY <1>12
  <2> QED  BY <2>1, <1>14, <1>6
<1>16. h[1..3] = <<va>>
  <2>1. h[1..3] = Add(h[1..(3 - 1)], q[3]) /\ 3 - 1 = 2
    BY <1>12
  <2> QED  BY <2>1, <1>15, <1>6
<1>17. h[1..4] = <<va>>
  <2>1. h[1..4] = Add(h[1..(4 - 1)], q[4]) /\ 4 - 1 = 3
    BY <1>12
  <2> QED  BY <2>1, <1>16, <1>6
<1>18. h[1..5] = two
  <2>1. h[1..5] = Add(h[1..(5 - 1)], q[5]) /\ 5 - 1 = 4
    BY <1>12
  <2> QED  BY <2>1, <1>17, <1>5
<1>19. Len(blocks) = 2 /\ blocks[1] = va /\ blocks[2] = arm
  <2>1. Len(two) = 2 /\ two[1] = va /\ two[2] = arm
    BY PairFacts DEF two
  <2> QED  BY <2>1, <1>10, <1>18
<1>20. va.byte_offset = 0 /\ va.byte_len = 12
  BY DEF va
<1> QED  BY <1>19, <1>20, <1>3 DEF VelocityAttitudeLen, CartesianLen

\* A sensor's descriptor reaches the console as it is, when it validates: only an absent Doppler scale is
\* written as something else, and it is read back as absent.
LEMMA SensorTravels ==
  ASSUME NEW s \in SensorDescriptors
  PROVE DecodeSensor(EncodeSensor(s)) = IF ValidSensor(s) THEN s ELSE Absent
<1> DEFINE e == s.encoding
           coded(x) == IF x.kind = "Points" /\ x.doppler = Absent THEN [x EXCEPT !.doppler = 0] ELSE x
           read(x) == IF x.kind = "Points" /\ x.doppler = 0 THEN [x EXCEPT !.doppler = Absent] ELSE x
           w == [s EXCEPT !.encoding = coded(e)]
<1>1. EncodeSensor(s) = w
  BY DEF EncodeSensor
<1>2. e \in SensorEncodings
  BY DEF SensorDescriptors
<1>3. read(coded(e)) = e
  <2>1. CASE e.kind = "Points"
    <3>1. e \in [kind : {"Points"}, scale : Nat, intensity : BOOLEAN, doppler : (Nat \ {0}) \cup {Absent}, snr : BOOLEAN]
      BY <1>2, <2>1 DEF SensorEncodings
    <3>2. PICK x : x = e
      OBVIOUS
    <3>3. x \in [kind : {"Points"}, scale : Nat, intensity : BOOLEAN, doppler : (Nat \ {0}) \cup {Absent}, snr : BOOLEAN]
      BY <3>1, <3>2
    <3>4. x.doppler = Absent => [[x EXCEPT !.doppler = 0] EXCEPT !.doppler = Absent] = x
      BY <3>3
    <3>5. x.kind = "Points" /\ [x EXCEPT !.doppler = 0].kind = "Points" /\ [x EXCEPT !.doppler = 0].doppler = 0
      BY <3>3
    <3>6. x.doppler # Absent => x.doppler # 0
      BY <3>3
    <3>7. read(coded(x)) = x
      <4>1. CASE x.doppler = Absent
        BY <4>1, <3>4, <3>5
      <4>2. CASE x.doppler # Absent
        BY <4>2, <3>6
      <4> QED  BY <4>1, <4>2
    <3> QED  BY <3>2, <3>7
  <2>2. CASE e.kind # "Points"
    BY <2>2
  <2> QED  BY <2>1, <2>2
<1>4. DecodeSensor(w) = IF ValidSensor([w EXCEPT !.encoding = read(w.encoding)]) THEN [w EXCEPT !.encoding = read(w.encoding)] ELSE Absent
  BY DEF DecodeSensor
<1> HIDE DEF read, coded
<1>5. w.encoding = coded(e) /\ [w EXCEPT !.encoding = e] = s
  BY DEF SensorDescriptors
<1>6. [w EXCEPT !.encoding = read(w.encoding)] = s
  BY <1>3, <1>5
<1> QED  BY <1>1, <1>4, <1>6

\* What filter_map keeps is what is there, and nothing else.
LEMMA PresentFacts ==
  ASSUME NEW S, NEW t \in Seq(S)
  PROVE Present(t) \in Seq(S) /\ ToSet(Present(t)) = {t[i] : i \in {j \in 1..Len(t) : t[j] # Absent}}
<1> DEFINE Solves(it) == it = [n \in 0..Len(t) |-> IF n = 0 THEN <<>> ELSE IF t[n] = Absent THEN it[n - 1] ELSE Append(it[n - 1], t[n])]
           Kept(n) == {t[i] : i \in {j \in 1..n : t[j] # Absent}}
           next == [n \in Nat |-> [p \in Seq(S) |-> IF n + 1 > Len(t) \/ t[n + 1] = Absent THEN p ELSE Append(p, t[n + 1])]]
           upTo == CHOOSE it : Solves(it)
<1>1. Len(t) \in Nat /\ \A i \in 1..Len(t) : t[i] \in S
  OBVIOUS
<1>2. PICK r : IsIteration(r, Seq(S), <<>>, next)
  <2>1. next \in [Nat -> [Seq(S) -> Seq(S)]]
    <3>1. ASSUME NEW n \in Nat, NEW p \in Seq(S)
          PROVE (IF n + 1 > Len(t) \/ t[n + 1] = Absent THEN p ELSE Append(p, t[n + 1])) \in Seq(S)
      <4>1. CASE n + 1 > Len(t) \/ t[n + 1] = Absent
        BY <4>1
      <4>2. CASE ~(n + 1 > Len(t) \/ t[n + 1] = Absent)
        <5>1. t[n + 1] \in S
          BY <1>1, <4>2
        <5>2. Append(p, t[n + 1]) \in Seq(S)
          BY <5>1, AppendProperties
        <5> QED  BY <5>2, <4>2
      <4> QED  BY <4>1, <4>2
    <3> QED  BY <3>1
  <2>2. <<>> \in Seq(S)
    OBVIOUS
  <2> HIDE DEF next
  <2> QED  BY <2>1, <2>2, IterationExists
<1>3. r \in [Nat -> Seq(S)] /\ r[0] = <<>>
  BY <1>2 DEF IsIteration
<1>4. ASSUME NEW n \in Nat, n + 1 <= Len(t)
      PROVE r[n + 1] = IF t[n + 1] = Absent THEN r[n] ELSE Append(r[n], t[n + 1])
  <2>1. r[n + 1] = next[n][r[n]] /\ r[n] \in Seq(S)
    <3> HIDE DEF next
    <3> QED  BY <1>2 DEF IsIteration
  <2>2. ~(n + 1 > Len(t))
    BY <1>1, <1>4
  <2> QED  BY <2>1, <2>2
<1> HIDE DEF next
<1>5. \E it : Solves(it)
  <2> DEFINE g == [n \in 0..Len(t) |-> r[n]]
  <2>1. ASSUME NEW n \in 0..Len(t)
        PROVE g[n] = IF n = 0 THEN <<>> ELSE IF t[n] = Absent THEN g[n - 1] ELSE Append(g[n - 1], t[n])
    <3>1. CASE n = 0
      BY <3>1, <1>3
    <3>2. CASE n # 0
      <4>1. n - 1 \in Nat /\ (n - 1) + 1 = n /\ n - 1 \in 0..Len(t) /\ n <= Len(t)
        BY <3>2, <1>1
      <4>2. r[n] = IF t[n] = Absent THEN r[n - 1] ELSE Append(r[n - 1], t[n])
        BY <4>1, <1>4
      <4> QED  BY <3>2, <4>1, <4>2
    <3> QED  BY <3>1, <3>2
  <2>2. g = [n \in 0..Len(t) |-> g[n]]
    OBVIOUS
  <2> HIDE DEF g
  <2>3. Solves(g)
    BY <2>1, <2>2
  <2> QED  BY <2>3
<1>6. Solves(upTo)
  <2> HIDE DEF Solves
  <2> QED  BY <1>5
<1>7. Present(t) = upTo[Len(t)]
  BY DEF Present
<1>8. \A n \in 0..Len(t) : upTo[n] = IF n = 0 THEN <<>> ELSE IF t[n] = Absent THEN upTo[n - 1] ELSE Append(upTo[n - 1], t[n])
  BY <1>6
<1> HIDE DEF upTo, Solves
<1> DEFINE Done == {n \in Nat : n <= Len(t) => upTo[n] \in Seq(S) /\ ToSet(upTo[n]) = Kept(n)}
<1>9. 0 \in Done
  <2>1. upTo[0] = <<>>
    BY <1>1, <1>8
  <2>2. <<>> \in Seq(S) /\ ToSet(<<>>) = {}
    BY DEF ToSet
  <2>3. Kept(0) = {}
    OBVIOUS
  <2> QED  BY <2>1, <2>2, <2>3
<1>10. ASSUME NEW n \in Done PROVE n + 1 \in Done
  <2> SUFFICES ASSUME n + 1 <= Len(t) PROVE upTo[n + 1] \in Seq(S) /\ ToSet(upTo[n + 1]) = Kept(n + 1)
    OBVIOUS
  <2>1. n \in Nat /\ n + 1 \in 0..Len(t) /\ n + 1 # 0 /\ (n + 1) - 1 = n /\ n <= Len(t) /\ n + 1 \in 1..Len(t)
    BY <1>1
  <2>2. PICK p : p = upTo[n]
    OBVIOUS
  <2>3. p \in Seq(S) /\ ToSet(p) = Kept(n)
    BY <2>1, <2>2
  <2>4. PICK x : x = t[n + 1]
    OBVIOUS
  <2>5. upTo[n + 1] = IF x = Absent THEN p ELSE Append(p, x)
    BY <1>8, <2>1, <2>2, <2>4
  <2>6. x \in S
    BY <1>1, <2>1, <2>4
  <2>7. ToSet(Append(p, x)) = ToSet(p) \cup {x} /\ Append(p, x) \in Seq(S)
    <3>1. DOMAIN p = 1..Len(p) /\ Len(p) \in Nat
      BY <2>3
    <3>2. Append(p, x) \in Seq(S)
      BY <2>3, <2>6, AppendProperties
    <3>3. Len(Append(p, x)) = Len(p) + 1
      BY <2>3, <2>6, AppendProperties
    <3>4. \A i \in 1..Len(p) : Append(p, x)[i] = p[i]
      BY <2>3, <2>6, AppendProperties
    <3>5. Append(p, x)[Len(p) + 1] = x
      BY <2>3, <2>6, AppendProperties
    <3>6. DOMAIN Append(p, x) = 1..Len(Append(p, x))
      BY <3>2
    <3>7. PICK q : q = Append(p, x)
      OBVIOUS
    <3>8. DOMAIN q = 1..(Len(p) + 1) /\ (\A i \in 1..Len(p) : q[i] = p[i]) /\ q[Len(p) + 1] = x
      BY <3>3, <3>4, <3>5, <3>6, <3>7
    <3>9. {q[i] : i \in DOMAIN q} = {p[i] : i \in DOMAIN p} \cup {x}
      BY <3>1, <3>8
    <3> QED  BY <3>2, <3>7, <3>9 DEF ToSet
  <2>8. Kept(n + 1) = Kept(n) \cup (IF x = Absent THEN {} ELSE {x})
    <3>1. \A j : j \in 1..(n + 1) <=> j \in 1..n \/ j = n + 1
      BY <2>1
    <3> QED  BY <3>1, <2>4
  <2> HIDE DEF Kept
  <2>9. CASE x = Absent
    BY <2>9, <2>3, <2>5, <2>8
  <2>10. CASE x # Absent
    BY <2>10, <2>3, <2>5, <2>7, <2>8
  <2> QED  BY <2>9, <2>10
<1>11. Done = Nat
  <2>1. Done \subseteq Nat
    OBVIOUS
  <2> HIDE DEF Done
  <2> QED  BY <1>9, <1>10, <2>1, NatSetInduction
<1>12. Len(t) \in Done
  BY <1>1, <1>11
<1> QED  BY <1>7, <1>12

\* The console takes every sensor that validates, and its SESSION_ACCEPT names them.
LEMMA SensorsTravel ==
  ASSUME work \in Workloads
  PROVE  \A i \in 1..Len(work.build.sensors) :
           LET s == work.build.sensors[i]
           IN  /\ s.sensor_id \in ToSet(SensorIds(TheInfo)) <=> ValidSensor(s)
               /\ s.sensor_id \in ToSet(SensorIds(TheInfo)) => s \in ToSet(TheInfo.sensors)
<1> DEFINE ss == work.build.sensors
           w == TheDescribe
           t == [i \in 1..Len(w.sensors) |-> DecodeSensor(w.sensors[i])]
           p == TheInfo.sensors
           D == SensorDescriptors \ {Absent}
<1>1. ss \in Seq(D)
  BY BuildAssumption
<1>2. \A i, j \in 1..Len(ss) : ss[i].sensor_id = ss[j].sensor_id => i = j
  BY BuildAssumption
<1>3. w.sensors = [i \in 1..Len(ss) |-> EncodeSensor(ss[i])] /\ p = Present(t)
  <2> DEFINE q == XgoProfile
             cs == Cameras
             id == "xgo"
             x == TheInfo
  <2>1. w = EncodeDescribe(id, q, cs, ss) /\ x = DecodeDescribe(w) /\ p = x.sensors
    BY DEF TheInfo, TheDescribe
  <2> HIDE DEF w, q, cs, ss, id, x, p
  <2> QED  BY <2>1 DEF EncodeDescribe, DecodeDescribe
<1> HIDE DEF ss, w, p
<1>4. Len(ss) \in Nat /\ \A i \in 1..Len(ss) : ss[i] \in SensorDescriptors /\ ss[i] # Absent
  BY <1>1
<1>5. Len(w.sensors) = Len(ss) /\ \A i \in 1..Len(ss) : w.sensors[i] = EncodeSensor(ss[i])
  BY <1>3, <1>4
<1>6. Len(t) = Len(ss) /\ t \in [1..Len(ss) -> SensorDescriptors \cup {Absent}]
      /\ \A i \in 1..Len(ss) : t[i] = IF ValidSensor(ss[i]) THEN ss[i] ELSE Absent
  <2>1. ASSUME NEW i \in 1..Len(ss) PROVE DecodeSensor(w.sensors[i]) = IF ValidSensor(ss[i]) THEN ss[i] ELSE Absent
    <3>1. PICK s : s = ss[i]
      OBVIOUS
    <3>2. DecodeSensor(EncodeSensor(s)) = IF ValidSensor(s) THEN s ELSE Absent
      BY <1>4, <3>1, SensorTravels
    <3> QED  BY <1>5, <3>1, <3>2
  <2>2. t = [i \in 1..Len(ss) |-> DecodeSensor(w.sensors[i])]
    BY <1>5
  <2> HIDE DEF t
  <2> QED  BY <2>1, <2>2, <1>4
<1> DEFINE S == SensorDescriptors \cup {Absent}
<1> HIDE DEF t
<1>7. t \in Seq(S)
  <2> HIDE DEF S
  <2>1. t \in [1..Len(ss) -> S]
    BY <1>6 DEF S
  <2> QED  BY <2>1, <1>4
<1>8. p \in Seq(S) /\ ToSet(p) = {t[i] : i \in {j \in 1..Len(t) : t[j] # Absent}}
  <2> HIDE DEF S
  <2> QED  BY <1>3, <1>7, PresentFacts
<1>9. \A x : x \in ToSet(p) <=> \E i \in 1..Len(ss) : ValidSensor(ss[i]) /\ x = ss[i]
  BY <1>4, <1>6, <1>8
<1>10. \A x : x \in ToSet(SensorIds(TheInfo)) <=> \E y \in ToSet(p) : x = y.sensor_id
  <2> DEFINE x == TheInfo
             ids == SensorIds(x)
  <2>1. p = x.sensors
    BY DEF p
  <2> HIDE DEF x
  <2>2. ids = [i \in 1..Len(p) |-> p[i].sensor_id]
    BY <2>1 DEF SensorIds
  <2>3. DOMAIN p = 1..Len(p)
    BY <1>8
  <2> QED  BY <2>2, <2>3 DEF ToSet, x
<1>11. ASSUME NEW i \in 1..Len(ss)
       PROVE  /\ ss[i].sensor_id \in ToSet(SensorIds(TheInfo)) <=> ValidSensor(ss[i])
              /\ ss[i].sensor_id \in ToSet(SensorIds(TheInfo)) => ss[i] \in ToSet(p)
  <2>1. ASSUME ValidSensor(ss[i]) PROVE ss[i].sensor_id \in ToSet(SensorIds(TheInfo)) /\ ss[i] \in ToSet(p)
    BY <2>1, <1>9, <1>10
  <2>2. ASSUME ss[i].sensor_id \in ToSet(SensorIds(TheInfo)) PROVE ValidSensor(ss[i])
    <3>1. PICK y \in ToSet(p) : ss[i].sensor_id = y.sensor_id
      BY <2>2, <1>10
    <3>2. PICK j \in 1..Len(ss) : ValidSensor(ss[j]) /\ y = ss[j]
      BY <3>1, <1>9
    <3>3. i = j
      BY <3>1, <3>2, <1>2
    <3> QED  BY <3>2, <3>3
  <2> QED  BY <2>1, <2>2
<1> QED  BY <1>11 DEF ss, p

\* SESSION_ACCEPT selects the sensors the console understood.
LEMMA AcceptTravels ==
  ASSUME NEW info, NEW cached
  PROVE  DecodeAccept(EncodeAccept(info, cached)).selected_sensors = SensorIds(info)
<1> DEFINE ids == SensorIds(info)
           w == EncodeAccept(info, cached)
<1>1. ids = [i \in 1..Len(info.sensors) |-> info.sensors[i].sensor_id]
  BY DEF SensorIds
<1>2. "selected_sensors" \in DOMAIN w \ {"quantization"} /\ w.selected_sensors = ids
  BY DEF EncodeAccept, SensorIds
<1> HIDE DEF w, ids
<1>3. DecodeAccept(w).selected_sensors = w.selected_sensors
  BY <1>2 DEF DecodeAccept
<1> QED  BY <1>2, <1>3 DEF w, ids

-----------------------------------------------------------------------------
(* Every step keeps what the ends know of each other.                      *)

\* The builds do not change, nor what they say of themselves.
LEMMA WorkKept == ASSUME work' = work, HandshakeOk(console', robot', up', down') PROVE HandshakeInv'
<1>1. ConsoleHello' = ConsoleHello /\ RobotHello' = RobotHello /\ TheDescribe' = TheDescribe
  BY DEF ConsoleHello, RobotHello, TheDescribe, Cameras
<1>2. TheInfo' = TheInfo
  BY <1>1 DEF TheInfo
<1>3. /\ KnowsHello(console, robot)' = KnowsHello(console', robot')
      /\ KnowsSession(console, robot)' = KnowsSession(console', robot')
      /\ OnTheWay(robot, up, down)' = OnTheWay(robot', up', down')
  BY <1>1, <1>2 DEF KnowsHello, KnowsSession, OnTheWay
<1>4. HandshakeInv' = HandshakeOk(console', robot', up', down')
  BY <1>3 DEF HandshakeInv, HandshakeOk, Fresh, Waits, Together
<1> QED  BY <1>4

\* Two clients at the same point of the handshake, and two sessions.
SamePoint(c, e) ==
  e.mode = c.mode /\ e.est = c.est /\ e.phase = c.phase /\ e.info = c.info /\ e.negotiated = c.negotiated
SameSession(r, s) ==
  s.serving = r.serving /\ s.phase = r.phase /\ s.negotiated = r.negotiated /\ s.selected = r.selected

\* The invariant sees nothing else of them, nor of what is on the way once the connection is in use.
LEMMA SamePointKeeps ==
  ASSUME NEW c, NEW e, NEW r, NEW s, NEW u, NEW v, NEW d,
         HandshakeOk(c, r, u, d), SamePoint(c, e), SameSession(r, s), v.accept = u.accept, Waits(c) => v = u
  PROVE  HandshakeOk(e, s, v, d)
<1>1. Fresh(e, s, v, d)
  BY DEF HandshakeOk, Fresh, Waits, SamePoint, SameSession
<1>2. ASSUME Together(e, s) PROVE KnowsHello(e, s) /\ KnowsSession(e, s) /\ OnTheWay(s, v, d)
  <2>1. KnowsHello(c, r) /\ KnowsSession(c, r) /\ OnTheWay(r, u, d)
    BY <1>2 DEF HandshakeOk, Together, SamePoint, SameSession
  <2> QED  BY <2>1 DEF KnowsHello, KnowsSession, OnTheWay, SamePoint, SameSession
<1> QED  BY <1>1, <1>2 DEF HandshakeOk

\* A connection that has just come up carries the console's HELLO and nothing else.
LEMMA JustEstablished ==
  ASSUME NEW c, NEW e, NEW r, NEW u, NEW d, NEW n,
         HandshakeOk(c, r, u, d), Waits(c), r.serving = "Current",
         e.mode = "Open", e.est = TRUE, e.phase = "AwaitingHello"
  PROVE  HandshakeOk(e, r, [u EXCEPT !.hello = n], d)
<1> DEFINE v == [u EXCEPT !.hello = n]
<1>1. u = NoneUp /\ d = NoneDown /\ r.phase = "AwaitingHello"
  BY DEF HandshakeOk, Fresh
<1>2. v.accept = Absent /\ d.hello = Absent /\ d.describe = Absent
  BY <1>1 DEF NoneUp, NoneDown
<1> HIDE DEF v
<1>3. Fresh(e, r, v, d)
  BY <1>1 DEF Fresh, Waits
<1>4. KnowsHello(e, r) /\ KnowsSession(e, r) /\ OnTheWay(r, v, d)
  BY <1>1, <1>2 DEF KnowsHello, KnowsSession, OnTheWay
<1> QED  BY <1>3, <1>4 DEF HandshakeOk, v

\* A robot that does not serve the console's connection agrees with it on nothing yet.
LEMMA Apart ==
  ASSUME NEW c, NEW r, NEW u, NEW d, Fresh(c, r, u, d), ~Together(c, r) PROVE HandshakeOk(c, r, u, d)
  BY DEF HandshakeOk

\* The session of a connection the console has left serves no present one.
LEMMA AbandonedServes ==
  ASSUME RobotOk(robot)
  PROVE  Abandoned.serving # "Current" /\ (Abandoned.serving \in {"None", "Bogus"} => Abandoned = robot)
<1> DEFINE r == robot
<1>1. RobotOk(r)
  OBVIOUS
<1> HIDE DEF r
<1>2. [r EXCEPT !.serving = "Stale"].serving = "Stale"
  BY <1>1 DEF RobotOk
<1> QED  BY <1>2 DEF Abandoned, r

\* The console connects.
LEMMA ConnectingShakes ==
  ASSUME SessionInv, HandshakeInv, Connect \/ ResumeEstablishes \/ ResumeFails \/ CancelAttempt \/ Establish \/ HelloAgain
                                     \/ SaveTicket \/ ConsoleTimesOut
  PROVE  HandshakeInv'
<1> DEFINE c == console
           r == robot
           u == up
           d == down
<1>r. /\ ConsoleOk(c) /\ RobotOk(r) /\ UpOk(u) /\ HandshakeOk(c, r, u, d)
      /\ c = console /\ r = robot /\ u = up /\ d = down
  BY DEF SessionInv, HandshakeInv
<1>a. RobotOk(robot)
  BY DEF SessionInv
<1> HIDE DEF c, r, u, d
<1>f. Fresh(c, r, u, d)
  BY <1>r DEF HandshakeOk
<1>m. \A m : LET e == [c EXCEPT !.mode = m] IN
              e.mode = m /\ e.est = c.est /\ e.phase = c.phase /\ e.info = c.info /\ e.negotiated = c.negotiated
  BY <1>r DEF ConsoleOk
<1>g. /\ [c EXCEPT !.mode = "Resuming", !.est = FALSE].mode = "Resuming"
      /\ LET e == Reconnected(c) IN
           e.mode = "Open" /\ e.est = FALSE /\ e.phase = "AwaitingHello" /\ e.info = Absent /\ e.negotiated = Absent
  BY <1>r DEF ConsoleOk, Reconnected
<1>c. ConsoleOk(Reconnected(c))
  BY <1>r, ReconnectedFacts
<1>1. CASE Connect
  <2>1. work' = work /\ up' = NoneUp /\ down' = NoneDown /\ robot' = Abandoned
        /\ (console' = Reconnected(c) \/ console' = [c EXCEPT !.mode = "Resuming", !.est = FALSE])
    BY <1>1, <1>r DEF Connect, FreshNet
  <2>2. console'.mode = "Resuming" \/ (console'.mode = "Open" /\ ~console'.est /\ console'.phase = "AwaitingHello")
    BY <2>1, <1>g
  <2>3. robot'.serving # "Current" /\ (robot'.serving \in {"None", "Bogus"} => robot'.phase = "AwaitingHello")
    BY <2>1, <1>a, <1>f, <1>r, AbandonedServes DEF Fresh
  <2>4. Fresh(console', robot', up', down') /\ ~Together(console', robot')
    BY <2>1, <2>2, <2>3 DEF Fresh, Together
  <2> QED  BY <2>1, <2>4, Apart, WorkKept
<1>2. CASE ResumeEstablishes
  <2>1. work' = work /\ up' = [u EXCEPT !.hello = 1] /\ down' = d /\ robot' = r /\ c.mode = "Resuming" /\ r.serving = "Current"
        /\ console' = [Reconnected(c) EXCEPT !.est = TRUE]
    BY <1>2, <1>r DEF ResumeEstablishes, Served
  <2>2. console'.mode = "Open" /\ console'.est = TRUE /\ console'.phase = "AwaitingHello"
    <3> DEFINE e == Reconnected(c)
    <3>1. ConsoleOk(e) /\ e.mode = "Open" /\ e.phase = "AwaitingHello" /\ console' = [e EXCEPT !.est = TRUE]
      BY <2>1, <1>c, <1>g
    <3> HIDE DEF e
    <3> QED  BY <3>1 DEF ConsoleOk
  <2>3. HandshakeOk(console', r, [u EXCEPT !.hello = 1], d)
    BY <2>1, <2>2, <1>r, JustEstablished DEF Waits
  <2> QED  BY <2>1, <2>3, WorkKept
<1>3. CASE ResumeFails
  <2>1. work' = work /\ up' = NoneUp /\ down' = NoneDown /\ robot' = Abandoned
        /\ console' = [Reconnected(c) EXCEPT !.ticket = "None"]
    BY <1>3, <1>r DEF ResumeFails, FreshNet
  <2>2. console'.mode = "Open" /\ ~console'.est /\ console'.phase = "AwaitingHello"
    <3> DEFINE e == Reconnected(c)
    <3>1. ConsoleOk(e) /\ e.mode = "Open" /\ ~e.est /\ e.phase = "AwaitingHello" /\ console' = [e EXCEPT !.ticket = "None"]
      BY <2>1, <1>c, <1>g
    <3> HIDE DEF e
    <3> QED  BY <3>1 DEF ConsoleOk
  <2>3. robot'.serving # "Current" /\ (robot'.serving \in {"None", "Bogus"} => robot'.phase = "AwaitingHello")
    BY <2>1, <1>a, <1>f, <1>r, AbandonedServes DEF Fresh
  <2>4. Fresh(console', robot', up', down') /\ ~Together(console', robot')
    BY <2>1, <2>2, <2>3 DEF Fresh, Together
  <2> QED  BY <2>1, <2>4, Apart, WorkKept
<1>4. CASE CancelAttempt
  <2>1. work' = work /\ up' = NoneUp /\ down' = NoneDown /\ robot' = Abandoned /\ console' = [c EXCEPT !.mode = "Connecting"]
    BY <1>4, <1>r DEF CancelAttempt, FreshNet
  <2>2. console'.mode = "Connecting"
    BY <2>1, <1>m
  <2>3. robot'.serving # "Current" /\ (robot'.serving \in {"None", "Bogus"} => robot'.phase = "AwaitingHello")
    BY <2>1, <1>a, <1>f, <1>r, AbandonedServes DEF Fresh
  <2>4. Fresh(console', robot', up', down') /\ ~Together(console', robot')
    BY <2>1, <2>2, <2>3 DEF Fresh, Together
  <2> QED  BY <2>1, <2>4, Apart, WorkKept
<1>5. CASE Establish
  <2>1. work' = work /\ down' = d /\ robot' = r /\ c.mode = "Open" /\ ~c.est /\ r.serving = "Current"
        /\ console' = [c EXCEPT !.est = TRUE] /\ (c.phase = "AwaitingHello" => up' = [u EXCEPT !.hello = 1])
    BY <1>5, <1>r DEF Establish, Served
  <2>2. c.phase = "AwaitingHello"
    BY <2>1, <1>f DEF Fresh
  <2>3. console'.mode = "Open" /\ console'.est = TRUE /\ console'.phase = "AwaitingHello"
    BY <2>1, <2>2, <1>r DEF ConsoleOk
  <2>4. HandshakeOk(console', r, [u EXCEPT !.hello = 1], d)
    BY <2>1, <2>3, <1>r, JustEstablished DEF Waits
  <2> QED  BY <2>1, <2>2, <2>4, WorkKept
<1>6. CASE HelloAgain
  <2>1. work' = work /\ console' = c /\ robot' = r /\ down' = d /\ up' = [u EXCEPT !.hello = u.hello + 1]
        /\ c.mode = "Open" /\ c.est
    BY <1>6, <1>r DEF HelloAgain, Live
  <2>2. up'.accept = u.accept /\ ~Waits(c)
    BY <2>1, <1>r DEF UpOk, Waits
  <2>3. HandshakeOk(c, r, up', d)
    BY <2>2, <1>r, SamePointKeeps DEF SamePoint, SameSession
  <2> QED  BY <2>1, <2>3, WorkKept
<1>7. CASE SaveTicket
  <2>1. work' = work /\ robot' = r /\ up' = u /\ down' = d /\ console' = [c EXCEPT !.ticket = "Good"]
    BY <1>7, <1>r DEF SaveTicket, netVars
  <2>2. SamePoint(c, console')
    BY <2>1, <1>r DEF ConsoleOk, SamePoint
  <2>3. HandshakeOk(console', r, u, d)
    BY <2>2, <1>r, SamePointKeeps DEF SameSession
  <2> QED  BY <2>1, <2>3, WorkKept
<1>8. CASE ConsoleTimesOut
  <2>1. work' = work /\ robot' = r /\ up' = u /\ down' = d /\ console' = [c EXCEPT !.mode = "Connecting"]
    BY <1>8, <1>r DEF ConsoleTimesOut, netVars
  <2>2. console'.mode = "Connecting"
    BY <2>1, <1>m
  <2>3. Fresh(console', r, u, d) /\ ~Together(console', r)
    BY <2>2, <1>f DEF Fresh, Waits, Together
  <2> QED  BY <2>1, <2>3, Apart, WorkKept
<1> QED  BY <1>1, <1>2, <1>3, <1>4, <1>5, <1>6, <1>7, <1>8

\* The robot takes first packets, gives connections up, stops and starts.
LEMMA ServingShakes ==
  ASSUME SessionInv, HandshakeInv, RobotAccept \/ RobotAcceptStray \/ RobotAdopts \/ RobotSessionEnds \/ LinkDown \/ LinkUp
                                     \/ RobotStops \/ RobotStarts
  PROVE  HandshakeInv'
<1> DEFINE c == console
           r == robot
           u == up
           d == down
<1>r. /\ ConsoleOk(c) /\ RobotOk(r) /\ HandshakeOk(c, r, u, d)
      /\ c = console /\ r = robot /\ u = up /\ d = down
  BY DEF SessionInv, HandshakeInv
<1> HIDE DEF c, r, u, d
<1>f. Fresh(c, r, u, d)
  BY <1>r DEF HandshakeOk
<1>n. \A s : NewSession(s).serving = s /\ NewSession(s).phase = "AwaitingHello"
             /\ [NewSession(s) EXCEPT !.running = FALSE].serving = s
             /\ [NewSession(s) EXCEPT !.running = FALSE].phase = "AwaitingHello"
  BY DEF NewSession
<1>1. CASE RobotAccept
  <2>1. work' = work /\ console' = c /\ up' = NoneUp /\ down' = NoneDown /\ ~c.est /\ robot' = NewSession("Current")
    BY <1>1, <1>r DEF RobotAccept, StartsSession, FreshNet
  <2>2. robot'.serving = "Current" /\ robot'.phase = "AwaitingHello"
    BY <2>1, <1>n
  <2>3. Fresh(c, robot', up', down') /\ ~Together(c, robot')
    BY <2>1, <2>2, <1>f DEF Fresh, Together
  <2> QED  BY <2>1, <2>3, Apart, WorkKept
<1>2. CASE RobotAcceptStray
  <2>1. work' = work /\ console' = c /\ up' = u /\ down' = d /\ \E s \in {"Bogus", "Stale"} : robot' = NewSession(s)
    BY <1>2, <1>r DEF RobotAcceptStray, StartsSession, netVars
  <2>2. robot'.serving \in {"Bogus", "Stale"} /\ robot'.phase = "AwaitingHello"
    BY <2>1, <1>n
  <2>3. Fresh(c, robot', u, d) /\ ~Together(c, robot')
    BY <2>1, <2>2, <1>f DEF Fresh, Together
  <2> QED  BY <2>1, <2>3, Apart, WorkKept
<1>3. CASE RobotAdopts
  <2>1. work' = work /\ console' = c /\ up' = u /\ down' = d /\ r.serving = "Bogus" /\ ~c.est
        /\ robot' = [r EXCEPT !.serving = "Current"]
    BY <1>3, <1>r DEF RobotAdopts, netVars
  <2>2. robot'.serving = "Current" /\ robot'.phase = r.phase
    BY <2>1, <1>r DEF RobotOk
  <2>3. Fresh(c, robot', u, d) /\ ~Together(c, robot')
    BY <2>1, <2>2, <1>f DEF Fresh, Together
  <2> QED  BY <2>1, <2>3, Apart, WorkKept
<1>4. CASE RobotSessionEnds \/ RobotStarts
  <2>1. work' = work /\ console' = c /\ up' = u /\ down' = d /\ robot' = NewSession("None")
    BY <1>4, <1>r DEF RobotSessionEnds, RobotStarts, netVars
  <2>2. robot'.serving = "None" /\ robot'.phase = "AwaitingHello"
    BY <2>1, <1>n
  <2>3. Fresh(c, robot', u, d) /\ ~Together(c, robot')
    BY <2>1, <2>2, <1>f DEF Fresh, Together
  <2> QED  BY <2>1, <2>3, Apart, WorkKept
<1>5. CASE LinkDown \/ LinkUp
  BY <1>5, WorkKept DEF LinkDown, LinkUp, HandshakeInv
<1>6. CASE RobotStops
  <2>1. work' = work /\ up' = u /\ down' = d /\ robot' = [NewSession("None") EXCEPT !.running = FALSE]
        /\ \E t : console' = [c EXCEPT !.ticket = t]
    BY <1>6, <1>r DEF RobotStops, netVars
  <2>2. robot'.serving = "None" /\ robot'.phase = "AwaitingHello"
    BY <2>1, <1>n
  <2>3. console'.mode = c.mode /\ console'.est = c.est /\ console'.phase = c.phase
    BY <2>1, <1>r DEF ConsoleOk
  <2>4. Fresh(console', robot', u, d) /\ ~Together(console', robot')
    BY <2>2, <2>3, <1>f DEF Fresh, Waits, Together
  <2> QED  BY <2>1, <2>4, Apart, WorkKept
<1> QED  BY <1>1, <1>2, <1>3, <1>4, <1>5, <1>6

\* The handshake itself.
LEMMA ShakingShakes ==
  ASSUME SessionInv, HandshakeInv, RobotReadsHello \/ ConsoleReadsHello \/ ConsoleReadsDescribe \/ RobotReadsAccept
  PROVE  HandshakeInv'
<1> DEFINE c == console
           r == robot
           u == up
           d == down
           mine == EncodeHello(RobotHello)
           theirs == Negotiate(RobotHello, DecodeHello(EncodeHello(ConsoleHello)))
<1>r. /\ ConsoleOk(c) /\ RobotOk(r) /\ UpOk(u) /\ HandshakeOk(c, r, u, d)
      /\ c = console /\ r = robot /\ u = up /\ d = down
  BY DEF SessionInv, HandshakeInv
<1> HIDE DEF c, r, u, d
<1>f. Fresh(c, r, u, d)
  BY <1>r DEF HandshakeOk
<1>l. c.mode = "Open" /\ c.est /\ r.serving = "Current" /\ Together(c, r) /\ ~Waits(c)
  BY <1>r DEF RobotReadsHello, ConsoleReadsHello, ConsoleReadsDescribe, RobotReadsAccept, Live, Served, Together, Waits
<1>k. KnowsHello(c, r) /\ KnowsSession(c, r) /\ OnTheWay(r, u, d)
  BY <1>r, <1>l DEF HandshakeOk
<1>1. CASE RobotReadsHello
  <2>1. work' = work /\ console' = c /\ \E n : up' = [u EXCEPT !.hello = n]
    BY <1>1, <1>r DEF RobotReadsHello
  <2>2. up'.accept = u.accept
    BY <2>1, <1>r DEF UpOk
  <2>3. CASE r.phase # "AwaitingHello"
    <3>1. robot' = r /\ down' = d
      BY <1>1, <2>3, <1>r DEF RobotReadsHello
    <3>2. HandshakeOk(c, r, up', d)
      BY <2>2, <1>r, <1>l, SamePointKeeps DEF SamePoint, SameSession
    <3> QED  BY <2>1, <3>1, <3>2, WorkKept
  <2>4. CASE r.phase = "AwaitingHello" /\ theirs = Absent
    <3>1. robot' = [r EXCEPT !.serving = "Stale"] /\ down' = d
      BY <1>1, <2>4, <1>r DEF RobotReadsHello
    <3>2. robot'.serving = "Stale"
      BY <3>1, <1>r DEF RobotOk
    <3>3. Fresh(c, robot', up', d) /\ ~Together(c, robot')
      BY <3>2, <1>l DEF Fresh, Waits, Together
    <3> QED  BY <2>1, <3>1, <3>3, Apart, WorkKept
  <2>5. CASE r.phase = "AwaitingHello" /\ theirs # Absent
    <3> HIDE DEF theirs
    <3>1. /\ robot' = [r EXCEPT !.phase = "AwaitingSessionAccept", !.hello_sent = TRUE, !.negotiated = theirs]
          /\ down' = [hello |-> mine, describe |-> TheDescribe]
      BY <1>1, <2>5, <1>r DEF RobotReadsHello, TheDescribe, theirs
    <3>2. robot'.serving = "Current" /\ robot'.phase = "AwaitingSessionAccept" /\ robot'.negotiated = theirs
      BY <3>1, <1>r, <1>l DEF RobotOk
    <3>3. c.phase = "AwaitingHello" /\ u.accept = Absent
      BY <2>5, <1>k DEF KnowsHello, OnTheWay
    <3>4. KnowsHello(c, robot') /\ KnowsSession(c, robot')
      BY <3>2, <3>3 DEF KnowsHello, KnowsSession, theirs
    <3>5. OnTheWay(robot', up', down')
      BY <3>1, <3>2, <3>3, <2>2 DEF OnTheWay
    <3>6. Fresh(c, robot', up', down')
      BY <3>2, <1>l DEF Fresh, Waits
    <3>7. HandshakeOk(c, robot', up', down')
      BY <3>4, <3>5, <3>6 DEF HandshakeOk
    <3> QED  BY <2>1, <3>7, WorkKept
  <2> QED  BY <2>3, <2>4, <2>5
<1>2. CASE ConsoleReadsHello
  <2>1. work' = work /\ robot' = r /\ up' = u /\ d.hello # Absent /\ down' = [d EXCEPT !.hello = Absent]
        /\ console' = [c EXCEPT !.phase = "AwaitingSessionDescribe", !.negotiated = Negotiate(ConsoleHello, DecodeHello(d.hello))]
    BY <1>2, <1>r DEF ConsoleReadsHello
  <2>2. d.hello = mine /\ r.phase # "AwaitingHello"
    BY <2>1, <1>k DEF OnTheWay
  <2> DEFINE v == Negotiate(ConsoleHello, DecodeHello(d.hello))
  <2>3. v = Negotiate(ConsoleHello, DecodeHello(mine))
    BY <2>2
  <2>4. console' = [c EXCEPT !.phase = "AwaitingSessionDescribe", !.negotiated = v]
    BY <2>1
  <2> HIDE DEF v
  <2>5. console'.mode = "Open" /\ console'.est /\ console'.phase = "AwaitingSessionDescribe" /\ console'.negotiated = v
    BY <2>4, <1>r, <1>l DEF ConsoleOk
  <2>6. down'.describe = d.describe /\ (down'.hello # Absent => down'.hello = d.hello)
    BY <2>1
  <2>7. KnowsHello(console', r)
    BY <2>2, <2>3, <2>5, <1>k DEF KnowsHello
  <2>8. KnowsSession(console', r)
    BY <2>5, <1>k DEF KnowsSession
  <2>9. OnTheWay(r, u, down')
    BY <2>2, <2>6, <1>k DEF OnTheWay
  <2>10. Fresh(console', r, u, down')
    BY <2>5, <1>l DEF Fresh, Waits
  <2>11. HandshakeOk(console', r, u, down')
    BY <2>7, <2>8, <2>9, <2>10 DEF HandshakeOk
  <2> QED  BY <2>1, <2>11, WorkKept
<1>3. CASE ConsoleReadsDescribe
  <2>1. work' = work /\ robot' = r /\ d.describe # Absent /\ down' = [d EXCEPT !.describe = Absent]
    BY <1>3, <1>r DEF ConsoleReadsDescribe
  <2>2. d.describe = TheDescribe
    BY <2>1, <1>k DEF OnTheWay
  <2>3. (down'.hello # Absent => down'.hello = d.hello) /\ (down'.describe # Absent => down'.describe = d.describe)
    BY <2>1
  <2> DEFINE info == DecodeDescribe(d.describe)
             seen == ProfileSeen(c.profiles, info)
  <2>4. CASE /\ c.phase = "AwaitingSessionDescribe"
             /\ up' = [u EXCEPT !.accept = EncodeAccept(info, seen)]
             /\ \E x : console' = [c EXCEPT !.phase = "Operating", !.info = info, !.profiles = x]
    <3>1. info = TheInfo
      BY <2>2 DEF TheInfo
    <3> HIDE DEF info, seen
    <3>2. /\ console'.mode = "Open" /\ console'.est /\ console'.phase = "Operating" /\ console'.info = info
          /\ console'.negotiated = c.negotiated
      BY <2>4, <1>r, <1>l DEF ConsoleOk
    <3>3. up'.accept = EncodeAccept(info, seen)
      BY <2>4, <1>r DEF UpOk
    <3>4. DecodeAccept(up'.accept).selected_sensors = SensorIds(TheInfo)
      BY <3>1, <3>3, AcceptTravels
    <3>5. r.phase # "AwaitingHello"
      BY <2>4, <1>k DEF KnowsHello
    <3>6. KnowsHello(console', r) /\ KnowsSession(console', r)
      BY <2>4, <3>1, <3>2, <1>k DEF KnowsHello, KnowsSession
    <3>7. OnTheWay(r, up', down')
      BY <2>3, <3>4, <3>5, <1>k DEF OnTheWay
    <3>8. Fresh(console', r, up', down')
      BY <3>2, <1>l DEF Fresh, Waits
    <3>9. HandshakeOk(console', r, up', down')
      BY <3>6, <3>7, <3>8 DEF HandshakeOk
    <3> QED  BY <2>1, <3>9, WorkKept
  <2>5. CASE console' = c /\ up' = u
    <3>1. OnTheWay(r, u, down')
      BY <2>3, <1>k DEF OnTheWay
    <3>2. Fresh(c, r, u, down')
      BY <1>l DEF Fresh, Waits
    <3>3. HandshakeOk(c, r, u, down')
      BY <3>1, <3>2, <1>k, <1>l DEF HandshakeOk
    <3> QED  BY <2>1, <2>5, <3>3, WorkKept
  <2>6. \/ /\ c.phase = "AwaitingSessionDescribe"
           /\ up' = [u EXCEPT !.accept = EncodeAccept(info, seen)]
           /\ \E x : console' = [c EXCEPT !.phase = "Operating", !.info = info, !.profiles = x]
        \/ console' = c /\ up' = u
    <3>1. CASE console' = c /\ up' = u
      BY <3>1
    <3>2. CASE ~(console' = c /\ up' = u)
      <4> DEFINE x == RecordProfile(c.profiles, info)
      <4>1. /\ c.phase = "AwaitingSessionDescribe"
            /\ up' = [u EXCEPT !.accept = EncodeAccept(info, seen)]
            /\ console' = [c EXCEPT !.phase = "Operating", !.info = info, !.profiles = x]
        BY <1>3, <3>2, <1>r DEF ConsoleReadsDescribe
      <4> HIDE DEF info, seen, x
      <4> QED  BY <4>1
    <3> QED  BY <3>1, <3>2
  <2> QED  BY <2>4, <2>5, <2>6
<1>4. CASE RobotReadsAccept
  <2> DEFINE v == ToSet(DecodeAccept(u.accept).selected_sensors)
  <2>1. work' = work /\ console' = c /\ down' = d /\ u.accept # Absent /\ up' = [u EXCEPT !.accept = Absent]
        /\ robot' = [r EXCEPT !.phase = "Operating", !.selected = v]
    BY <1>4, <1>r DEF RobotReadsAccept
  <2>2. r.phase # "AwaitingHello" /\ v = ToSet(SensorIds(TheInfo))
    BY <2>1, <1>k DEF OnTheWay
  <2> HIDE DEF v
  <2>3. robot'.serving = "Current" /\ robot'.phase = "Operating" /\ robot'.selected = v /\ robot'.negotiated = r.negotiated
    BY <2>1, <1>r, <1>l DEF RobotOk
  <2>4. up'.accept = Absent
    BY <2>1, <1>r DEF UpOk
  <2>5. KnowsHello(c, robot') /\ KnowsSession(c, robot')
    BY <2>2, <2>3, <1>k DEF KnowsHello, KnowsSession
  <2>6. OnTheWay(robot', up', d)
    BY <2>3, <2>4, <1>k DEF OnTheWay
  <2>7. Fresh(c, robot', up', d)
    BY <2>3, <1>l DEF Fresh, Waits
  <2>8. HandshakeOk(c, robot', up', d)
    BY <2>5, <2>6, <2>7 DEF HandshakeOk
  <2> QED  BY <2>1, <2>8, WorkKept
<1> QED  BY <1>1, <1>2, <1>3, <1>4

\* An input moves the handshake nowhere, and is sent only in a session.
LEMMA InputQuiet ==
  ASSUME SessionInv, NEW input, OnInput(input)
  PROVE  SamePoint(console, console') /\ up'.accept = up.accept /\ (console.phase # "Operating" => up' = up)
<1> DEFINE c == console
           u == up
<1>c. ConsoleOk(c) /\ c = console /\ UpOk(u) /\ u = up
  BY DEF SessionInv
<1> HIDE DEF c, u
<1>p. /\ \A h, n : SamePoint(c, [c EXCEPT !.held = h, !.trigger_seq = n])
      /\ \A l, n : SamePoint(c, [c EXCEPT !.level = l, !.sent_level = l, !.camera_seq = n])
      /\ \A l : SamePoint(c, [c EXCEPT !.level = l])
      /\ \A h : SamePoint(c, [c EXCEPT !.held = h])
      /\ SamePoint(c, c)
  BY <1>c DEF ConsoleOk, SamePoint
<1>s. ASSUME NEW stream \in {"trigger", "camera"}, NEW m, SendUp(stream, m) PROVE up'.accept = up.accept
  <2>1. \A q : [u EXCEPT !["trigger"] = q].accept = u.accept /\ [u EXCEPT !["camera"] = q].accept = u.accept
    BY <1>c DEF UpOk
  <2>2. up' = u \/ \E q : up' = [u EXCEPT !["trigger"] = q] \/ up' = [u EXCEPT !["camera"] = q]
    BY <1>s, <1>c DEF SendUp
  <2> QED  BY <2>1, <2>2, <1>c
<1>1. CASE input.kind = "Action"
  <2>1. CASE console.phase # "Operating"
    BY <1>1, <2>1, <1>c, <1>p DEF OnInput, SendActionTrigger
  <2>2. CASE console.phase = "Operating"
    <3> DEFINE h == Stilled(c.held)
               n == c.trigger_seq + 1
               m == TriggerMessage(input.x, n)
    <3>1. console' = [c EXCEPT !.held = h, !.trigger_seq = n] /\ SendUp("trigger", m)
      BY <1>1, <2>2, <1>c DEF OnInput, SendActionTrigger
    <3> HIDE DEF h, n, m
    <3> QED  BY <3>1, <2>2, <1>c, <1>p, <1>s
  <2> QED  BY <2>1, <2>2
<1>2. CASE input.kind \in {"Camera", "CameraReset"}
  <2> DEFINE l == LevelAfter(c.level, input)
             n == c.camera_seq + 1
             m == CameraMessage(l, n)
  <2>1. SendCameraControl(l)
    BY <1>2, <1>c DEF OnInput
  <2>2. CASE console.phase # "Operating"
    <3>1. console' = [c EXCEPT !.level = l] /\ up' = up
      BY <2>1, <2>2, <1>c DEF SendCameraControl
    <3> HIDE DEF l
    <3> QED  BY <3>1, <1>c, <1>p
  <2>3. CASE console.phase = "Operating"
    <3>1. console' = [c EXCEPT !.level = l, !.sent_level = l, !.camera_seq = n] /\ SendUp("camera", m)
      BY <2>1, <2>3, <1>c DEF SendCameraControl
    <3> HIDE DEF l, n, m
    <3> QED  BY <3>1, <2>3, <1>c, <1>p, <1>s
  <2> QED  BY <2>2, <2>3
<1>3. CASE input.kind = "ToggleRecording"
  BY <1>3, <1>c, <1>p DEF OnInput
<1>4. CASE input.kind \notin {"Action", "Camera", "CameraReset", "ToggleRecording"}
  <2> DEFINE h == HeldAfter(c.held, input)
  <2>1. console' = [c EXCEPT !.held = h] /\ up' = up
    BY <1>4, <1>c DEF OnInput
  <2> HIDE DEF h
  <2> QED  BY <2>1, <1>c, <1>p
<1> QED  BY <1>1, <1>2, <1>3, <1>4

\* Nor does anything else of a session.
LEMMA QuietStep ==
  ASSUME SessionInv, HandshakeInv, work' = work, down' = down, SamePoint(console, console'), SameSession(robot, robot'),
         up'.accept = up.accept, Waits(console) => up' = up
  PROVE  HandshakeInv'
<1>1. HandshakeOk(console, robot, up, down)
  BY DEF HandshakeInv
<1>2. PICK c, e, r, s, u, v, d : c = console /\ e = console' /\ r = robot /\ s = robot' /\ u = up /\ v = up' /\ d = down
  OBVIOUS
<1>3. HandshakeOk(e, s, v, d)
  BY <1>1, <1>2, SamePointKeeps
<1> QED  BY <1>2, <1>3, WorkKept

\* Hands, commands, telemetry, triggers and the capture touch nothing the handshake rests on.
LEMMA QuietSteps ==
  ASSUME SessionInv, HandshakeInv,
         \/ PressKey \/ PadEvent \/ PadRefresh \/ TakeInput \/ RobotReadsTrigger \/ RobotReadsCamera
         \/ CameraRead \/ CameraSpawn \/ CameraChanged \/ CameraFails
         \/ SendCommand \/ RobotReceivesCommand \/ BridgeReports \/ SendTelemetry \/ ConsoleReceivesTelemetry
         \/ LoseDatagram \/ RecorderSteps \/ UNCHANGED vars
  PROVE  HandshakeInv'
<1> DEFINE c == console
           r == robot
           u == up
<1>r. /\ ConsoleOk(c) /\ RobotOk(r) /\ UpOk(u) /\ HandshakeOk(c, r, u, down)
      /\ c = console /\ r = robot /\ u = up
  BY DEF SessionInv, HandshakeInv
<1> HIDE DEF c, r, u
<1>f. Fresh(c, r, u, down)
  BY <1>r DEF HandshakeOk
<1>c. SamePoint(c, c) /\ (\A h : SamePoint(c, [c EXCEPT !.held = h])) /\ (\A t : SamePoint(c, [c EXCEPT !.telemetry = t]))
  BY <1>r DEF ConsoleOk, SamePoint
<1>s. /\ SameSession(r, r)
      /\ \A v : SameSession(r, [r EXCEPT !.trigger_seq = v]) /\ SameSession(r, [r EXCEPT !.cmd = v])
                /\ SameSession(r, [r EXCEPT !.telemetry = v])
      /\ \A v, m : SameSession(r, [r EXCEPT !.camera_seq = v, !.missed = m])
  BY <1>r DEF RobotOk, SameSession
<1>u. \A q : [u EXCEPT !.trigger = q].accept = u.accept /\ [u EXCEPT !.camera = q].accept = u.accept
  BY <1>r DEF UpOk
<1>1. CASE PressKey \/ TakeInput
  <2>1. work' = work /\ robot' = r /\ down' = down /\ (((\E input : OnInput(input)) /\ console.mode = "Open") \/ UNCHANGED <<console, up>>)
    BY <1>1, <1>r DEF PressKey, TakeInput
  <2>2. CASE UNCHANGED <<console, up>>
    BY <2>1, <2>2, <1>r, <1>c, <1>s, QuietStep
  <2>3. CASE (\E input : OnInput(input)) /\ console.mode = "Open"
    <3>1. PICK input : OnInput(input)
      BY <2>3
    <3>2. SamePoint(console, console') /\ up'.accept = up.accept /\ (console.phase # "Operating" => up' = up)
      BY <3>1, InputQuiet
    <3>3. Waits(console) => console.phase = "AwaitingHello"
      BY <2>3, <1>r, <1>f DEF Fresh, Waits
    <3> QED  BY <2>1, <3>2, <3>3, <1>r, <1>s, QuietStep
  <2> QED  BY <2>1, <2>2, <2>3
<1>2. CASE RobotReadsTrigger
  <2>1. /\ work' = work /\ console' = c /\ down' = down /\ c.mode = "Open" /\ c.est
        /\ (\E q : up' = [u EXCEPT !.trigger = q]) /\ (robot' = r \/ \E v : robot' = [r EXCEPT !.trigger_seq = v])
    BY <1>2, <1>r DEF RobotReadsTrigger, Live
  <2>2. up'.accept = up.accept /\ ~Waits(console)
    BY <2>1, <1>r, <1>u DEF Waits
  <2>3. SamePoint(console, console') /\ SameSession(robot, robot')
    <3>1. CASE robot' = r
      BY <2>1, <3>1, <1>r, <1>c, <1>s
    <3>2. CASE robot' # r
      <4>1. PICK v : robot' = [r EXCEPT !.trigger_seq = v]
        BY <2>1, <3>2
      <4>2. SameSession(r, [r EXCEPT !.trigger_seq = v])
        BY <1>s
      <4> QED  BY <2>1, <4>1, <4>2, <1>r, <1>c
    <3> QED  BY <3>1, <3>2
  <2> QED  BY <2>1, <2>2, <2>3, QuietStep
<1>3. CASE RobotReadsCamera
  <2>1. /\ work' = work /\ console' = c /\ down' = down /\ c.mode = "Open" /\ c.est
        /\ (\E q : up' = [u EXCEPT !.camera = q]) /\ (\E v, m : robot' = [r EXCEPT !.camera_seq = v, !.missed = m])
    <3>1. work' = work /\ console' = c /\ down' = down /\ c.mode = "Open" /\ c.est
      BY <1>3, <1>r DEF RobotReadsCamera, Live
    <3>2. PICK n \in 1..Len(up.camera) :
          LET data == ReadUp("camera", n)
              first == Head(data)
              applied == robot.phase = "Operating" /\ Newer(first.seq, robot.camera_seq)
          IN  /\ up' = [up EXCEPT !.camera = SubSeq(@, n + 1, Len(@))]
              /\ robot' = [robot EXCEPT !.camera_seq = IF applied THEN first.seq ELSE @, !.missed = ~applied \/ n > 1]
              /\ camera' = IF applied /\ work.build.camera
                           THEN [camera EXCEPT !.watch = Bounded(first.level, -1000, 1000), !.seen = FALSE] ELSE camera
              /\ IF robot.phase = "Operating"
                 THEN Record("robot", "ActionTriggerC", data, <<"camera_control", first.level, first.seq>>)
                 ELSE UNCHANGED recVars
      BY <1>3 DEF RobotReadsCamera
    <3> DEFINE q == SubSeq(u.camera, n + 1, Len(u.camera))
               first == Head(ReadUp("camera", n))
               applied == robot.phase = "Operating" /\ Newer(first.seq, robot.camera_seq)
               v == IF applied THEN first.seq ELSE r.camera_seq
               m == ~applied \/ n > 1
    <3>3. up' = [u EXCEPT !.camera = q] /\ robot' = [r EXCEPT !.camera_seq = v, !.missed = m]
      BY <3>2, <1>r
    <3> HIDE DEF q, v, m
    <3> QED  BY <3>1, <3>3
  <2>2. up'.accept = up.accept /\ ~Waits(console)
    BY <2>1, <1>r, <1>u DEF Waits
  <2>3. SamePoint(console, console') /\ SameSession(robot, robot')
    <3>1. PICK v, m : robot' = [r EXCEPT !.camera_seq = v, !.missed = m]
      BY <2>1
    <3>2. SameSession(r, [r EXCEPT !.camera_seq = v, !.missed = m])
      BY <1>s
    <3> QED  BY <2>1, <3>1, <3>2, <1>r, <1>c
  <2> QED  BY <2>1, <2>2, <2>3, QuietStep
<1>4. CASE PadEvent \/ PadRefresh \/ CameraRead \/ CameraSpawn \/ CameraChanged \/ CameraFails \/ LoseDatagram
           \/ SendTelemetry \/ RecorderSteps \/ UNCHANGED vars
  <2>1. work' = work /\ console' = c /\ robot' = r /\ up' = u /\ down' = down
    BY <1>4, <1>r DEF PadEvent, PadRefresh, CameraRead, CameraSpawn, CameraChanged, CameraFails, LoseDatagram, SendTelemetry,
                      RecorderSteps, netVars, vars
  <2> QED  BY <2>1, <1>r, <1>c, <1>s, QuietStep
<1>5. CASE SendCommand
  <2>1. work' = work /\ (\E h : console' = [c EXCEPT !.held = h]) /\ robot' = r /\ up' = u /\ down' = down
    BY <1>5, <1>r DEF SendCommand
  <2> QED  BY <2>1, <1>r, <1>c, <1>s, QuietStep
<1>6. CASE RobotReceivesCommand
  <2>1. work' = work /\ console' = c /\ (robot' = r \/ \E v : robot' = [r EXCEPT !.cmd = v]) /\ up' = u /\ down' = down
    BY <1>6, <1>r DEF RobotReceivesCommand
  <2> QED  BY <2>1, <1>r, <1>c, <1>s, QuietStep
<1>7. CASE BridgeReports
  <2>1. work' = work /\ console' = c /\ (\E v : robot' = [r EXCEPT !.telemetry = v]) /\ up' = u /\ down' = down
    BY <1>7, <1>r DEF BridgeReports, netVars
  <2> QED  BY <2>1, <1>r, <1>c, <1>s, QuietStep
<1>8. CASE ConsoleReceivesTelemetry
  <2>1. work' = work /\ (console' = c \/ \E t : console' = [c EXCEPT !.telemetry = t]) /\ robot' = r /\ up' = u /\ down' = down
    BY <1>8, <1>r DEF ConsoleReceivesTelemetry
  <2> QED  BY <2>1, <1>r, <1>c, <1>s, QuietStep
<1> QED  BY <1>1, <1>2, <1>3, <1>4, <1>5, <1>6, <1>7, <1>8

\* What the ends know of each other is an invariant, ...
LEMMA InitHandshake == Init => HandshakeInv
<1> SUFFICES ASSUME Init PROVE HandshakeInv
  OBVIOUS
<1>1. console = NewClient /\ robot = NewSession("None")
  BY DEF Init
<1>2. console.mode = "Connecting" /\ robot.serving = "None" /\ robot.phase = "AwaitingHello"
  BY <1>1 DEF NewClient, NewSession
<1> QED  BY <1>2 DEF HandshakeInv, HandshakeOk, Fresh, Waits, Together

\* Every step keeps what the two ends know of each other ...
LEMMA HandshakeStep == SessionInv /\ HandshakeInv /\ [Next]_vars => HandshakeInv'
  BY ConnectingShakes, ServingShakes, ShakingShakes, QuietSteps DEF Next

\* ... and two ends that operate agree.
LEMMA HandshakeAgrees == SessionInv /\ HandshakeInv => EndsAgree
<1> SUFFICES ASSUME SessionInv, HandshakeInv, console.phase = "Operating", robot.phase = "Operating", Live PROVE
      LET profile == console.info.profile
          blocks == DeriveCommandLayout(profile, {}, "Standard")
      IN  /\ console.negotiated = robot.negotiated
          /\ ProfileHash(profile) = console.info.profile_hash /\ profile = XgoProfile
          /\ DeriveLayout(profile, {}, "Standard") = DeriveLayout(XgoProfile, {}, "Standard")
          /\ Len(blocks) = 2
          /\ blocks[1].byte_offset = 0 /\ blocks[1].byte_len = VelocityAttitudeLen
          /\ blocks[2].byte_offset = VelocityAttitudeLen /\ blocks[2].byte_len = CartesianLen
          /\ console.info.cameras = Cameras
          /\ \A i \in 1..Len(work.build.sensors) :
               LET s == work.build.sensors[i]
               IN  /\ s.sensor_id \in robot.selected <=> ValidSensor(s)
                   /\ s.sensor_id \in robot.selected => s \in ToSet(console.info.sensors)
  BY DEF EndsAgree
<1>1. KnowsHello(console, robot) /\ KnowsSession(console, robot)
  BY DEF Live, Served, Together, HandshakeInv, HandshakeOk
<1>2. console.info = TheInfo /\ robot.selected = ToSet(SensorIds(TheInfo))
  BY <1>1 DEF KnowsSession
<1>3. /\ console.negotiated = Negotiate(ConsoleHello, DecodeHello(EncodeHello(RobotHello)))
      /\ robot.negotiated = Negotiate(RobotHello, DecodeHello(EncodeHello(ConsoleHello)))
  BY <1>1 DEF KnowsHello
<1>4. work \in Workloads
  BY DEF SessionInv, BudgetInv
<1>5. console.negotiated = robot.negotiated
  BY <1>3, <1>4, BothNegotiate
<1>6. TheInfo.profile = XgoProfile /\ TheInfo.profile_hash = ProfileHash(XgoProfile) /\ TheInfo.cameras = Cameras
  BY ProfileTravels
<1> DEFINE blocks == DeriveCommandLayout(XgoProfile, {}, "Standard")
<1>7. /\ Len(blocks) = 2
      /\ blocks[1].byte_offset = 0 /\ blocks[1].byte_len = VelocityAttitudeLen
      /\ blocks[2].byte_offset = VelocityAttitudeLen /\ blocks[2].byte_len = CartesianLen
  <2>1. PICK x : x = DeriveCommandLayout(XgoProfile, {}, "Standard")
    OBVIOUS
  <2> QED  BY <2>1, BuiltInLayout
<1>8. \A i \in 1..Len(work.build.sensors) :
        LET s == work.build.sensors[i]
        IN  /\ s.sensor_id \in robot.selected <=> ValidSensor(s)
            /\ s.sensor_id \in robot.selected => s \in ToSet(console.info.sensors)
  BY <1>2, <1>4, SensorsTravel
<1> HIDE DEF blocks
<1>9. PICK p : p = XgoProfile
  OBVIOUS
<1>10. console.info.profile = p /\ ProfileHash(p) = console.info.profile_hash /\ console.info.cameras = Cameras
       /\ blocks = DeriveCommandLayout(p, {}, "Standard")
  BY <1>2, <1>6, <1>9 DEF blocks
<1> QED  BY <1>5, <1>7, <1>8, <1>9, <1>10

-----------------------------------------------------------------------------
(* Queues and segments as sets of records.                                 *)

\* The records of a queue.
LEMMA QueueFacts ==
  ASSUME NEW q, NEW p \in Nat, Records(q, p)
  PROVE  RecordIds(q) = Ids(Elements(q)) /\ \A a \in Elements(q) : a.id \in 1..p /\ a.id \in Nat /\ a.capture_us \in Nat
<1>1. q \in Seq({q[i] : i \in 1..Len(q)}) /\ \A i \in 1..Len(q) : q[i].id \in 1..p /\ q[i].capture_us \in Nat
  BY DEF Records, IsSeq
<1>2. DOMAIN q = 1..Len(q)
  BY <1>1
<1>3. RecordIds(q) = Ids(Elements(q))
  BY <1>2 DEF RecordIds, Ids, Elements
<1>4. \A n \in 1..p : n \in Nat
  OBVIOUS
<1> QED  BY <1>1, <1>3, <1>4 DEF Elements

\* An empty queue is in order.
LEMMA NothingWaits == Elements(<<>>) = {} /\ Ascending(<<>>) /\ InTime(<<>>) /\ Ids({}) = {}
<1>1. Len(<<>>) = 0 /\ 1..0 = {}
  OBVIOUS
<1> QED  BY <1>1 DEF Elements, Ascending, InTime, Ids

\* A record joins the queue.
LEMMA JoinedFacts ==
  ASSUME NEW q, NEW p \in Nat, Records(q, p), NEW r, r.id \in Nat, r.capture_us \in Nat
  PROVE  /\ Elements(Append(q, r)) = Elements(q) \cup {r}
         /\ Ascending(q) /\ (\A a \in Elements(q) : a.id < r.id) => Ascending(Append(q, r))
         /\ InTime(q) /\ (\A a \in Elements(q) : a.capture_us <= r.capture_us) => InTime(Append(q, r))
<1> DEFINE R == {q[i] : i \in 1..Len(q)}
           a == Append(q, r)
<1>1. q \in Seq(R) /\ Len(q) \in Nat /\ \A i \in 1..Len(q) : q[i] \in Elements(q)
  BY RecordsFacts DEF Records, IsSeq, Elements
<1> HIDE DEF R
<1>2. q \in Seq(R \cup {r})
  BY <1>1
<1>3. a \in Seq(R \cup {r}) /\ Len(a) = Len(q) + 1 /\ \A i \in 1..(Len(q) + 1) : a[i] = IF i = Len(q) + 1 THEN r ELSE q[i]
  BY <1>2, AppendProperties
<1> HIDE DEF a
<1>4. \A i \in 1..Len(a) : i \in 1..Len(q) \/ i = Len(q) + 1
  BY <1>3, <1>1
<1>5. \A i \in 1..Len(q) : i \in 1..Len(a) /\ a[i] = q[i] /\ i # Len(q) + 1
  BY <1>3, <1>1
<1>6. Len(q) + 1 \in 1..Len(a) /\ a[Len(q) + 1] = r
  BY <1>3, <1>1
<1>7. Elements(a) = Elements(q) \cup {r}
  <2>1. ASSUME NEW x \in Elements(a) PROVE x \in Elements(q) \cup {r}
    BY <1>4, <1>5, <1>6 DEF Elements
  <2>2. ASSUME NEW x \in Elements(q) PROVE x \in Elements(a)
    BY <1>5 DEF Elements
  <2>3. r \in Elements(a)
    BY <1>6 DEF Elements
  <2> QED  BY <2>1, <2>2, <2>3
<1>8. ASSUME NEW i \in 1..Len(a), NEW j \in 1..Len(a), i < j
      PROVE  i \in 1..Len(q) /\ (j \in 1..Len(q) \/ j = Len(q) + 1)
  BY <1>8, <1>4, <1>3, <1>1
<1>9. ASSUME Ascending(q), \A x \in Elements(q) : x.id < r.id PROVE Ascending(a)
  BY <1>1, <1>5, <1>6, <1>8, <1>9 DEF Ascending
<1>10. ASSUME InTime(q), \A x \in Elements(q) : x.capture_us <= r.capture_us PROVE InTime(a)
  BY <1>1, <1>5, <1>6, <1>8, <1>10 DEF InTime
<1> QED  BY <1>7, <1>9, <1>10 DEF a

\* The first of a queue goes.
LEMMA LeftFacts ==
  ASSUME NEW q, NEW p \in Nat, Records(q, p), q # <<>>
  PROVE  /\ Head(q) \in Elements(q) /\ Elements(q) = {Head(q)} \cup Elements(Tail(q))
         /\ Ascending(q) => Ascending(Tail(q)) /\ \A a \in Elements(Tail(q)) : Head(q).id < a.id
         /\ InTime(q) => InTime(Tail(q)) /\ \A a \in Elements(Tail(q)) : Head(q).capture_us <= a.capture_us
<1> DEFINE R == {q[i] : i \in 1..Len(q)}
           t == Tail(q)
<1>1. q \in Seq(R) /\ Len(q) \in Nat
  BY RecordsFacts DEF Records, IsSeq
<1> HIDE DEF R
<1>2. t \in Seq(R) /\ Len(t) = Len(q) - 1 /\ (\A i \in 1..Len(t) : t[i] = q[i + 1]) /\ Head(q) = q[1] /\ Len(q) > 0
  BY <1>1, HeadTailProperties, EmptySeq
<1> DEFINE h == Head(q)
<1>h. h = q[1] /\ 1 \in 1..Len(q)
  BY <1>1, <1>2
<1> HIDE DEF t, h
<1>3. \A i \in 1..Len(t) : i + 1 \in 1..Len(q) /\ 1 < i + 1 /\ t[i] = q[i + 1]
  BY <1>1, <1>2
<1>4. \A i \in 1..Len(q) : i = 1 \/ (i - 1 \in 1..Len(t) /\ t[i - 1] = q[i])
  <2> SUFFICES ASSUME NEW i \in 1..Len(q), i # 1 PROVE i - 1 \in 1..Len(t) /\ t[i - 1] = q[i]
    OBVIOUS
  <2>1. i - 1 \in 1..Len(t) /\ (i - 1) + 1 = i
    BY <1>1, <1>2
  <2> QED  BY <2>1, <1>3
<1>5. h \in Elements(q) /\ Elements(q) = {h} \cup Elements(t)
  <2>1. \A x \in Elements(q) : x \in {h} \cup Elements(t)
    BY <1>4, <1>h DEF Elements
  <2>2. \A x \in Elements(t) : x \in Elements(q)
    BY <1>3 DEF Elements
  <2>3. h \in Elements(q)
    BY <1>h DEF Elements
  <2> QED  BY <2>1, <2>2, <2>3
<1>6. \A i, j \in 1..Len(t) : i < j => i + 1 < j + 1
  BY <1>1, <1>2
<1>7. Ascending(q) => Ascending(t) /\ \A a \in Elements(t) : h.id < a.id
  <2> SUFFICES ASSUME Ascending(q) PROVE Ascending(t) /\ \A a \in Elements(t) : h.id < a.id
    OBVIOUS
  <2>1. Ascending(t)
    BY <1>3, <1>6 DEF Ascending
  <2>2. \A i \in 1..Len(t) : h.id < t[i].id
    BY <1>3, <1>h DEF Ascending
  <2> QED  BY <2>1, <2>2 DEF Elements
<1>8. InTime(q) => InTime(t) /\ \A a \in Elements(t) : h.capture_us <= a.capture_us
  <2> SUFFICES ASSUME InTime(q) PROVE InTime(t) /\ \A a \in Elements(t) : h.capture_us <= a.capture_us
    OBVIOUS
  <2>1. InTime(t)
    BY <1>3, <1>6 DEF InTime
  <2>2. \A i \in 1..Len(t) : h.capture_us <= t[i].capture_us
    BY <1>3, <1>h DEF InTime
  <2> QED  BY <2>1, <2>2 DEF Elements
<1> QED  BY <1>5, <1>7, <1>8 DEF t, h

\* What is left of a segment.
LEMMA PrefixFacts ==
  ASSUME NEW q, NEW p \in Nat, Records(q, p), NEW k \in 0..Len(q)
  PROVE  /\ Elements(SubSeq(q, 1, k)) \subseteq Elements(q)
         /\ Ascending(q) => Ascending(SubSeq(q, 1, k))
<1> DEFINE R == {q[i] : i \in 1..Len(q)}
           s == SubSeq(q, 1, k)
<1>1. q \in Seq(R) /\ Len(q) \in Nat /\ \A i \in 1..Len(q) : q[i] \in R
  BY RecordsFacts DEF Records, IsSeq
<1> HIDE DEF R
<1>2. k \in Nat /\ \A i \in 1..k : i \in 1..Len(q)
  BY <1>1
<1>3. Len(s) = k /\ \A i \in 1..k : s[i] = q[i]
  <2>1. \A i \in 1..k : q[i] \in R
    BY <1>1, <1>2
  <2> QED  BY <1>2, <2>1
<1> HIDE DEF s
<1>4. Elements(s) \subseteq Elements(q)
  BY <1>2, <1>3 DEF Elements
<1>5. Ascending(q) => Ascending(s)
  BY <1>2, <1>3 DEF Ascending
<1> QED  BY <1>4, <1>5 DEF s

\* Finitely many numbers can be put in order.
LEMMA OrderExists ==
  \A n \in Nat : \A S \in SUBSET Nat : IsFiniteSet(S) /\ Cardinality(S) = n =>
    \E f \in [1..n -> S] : \A i, j \in 1..n : i < j => f[i] < f[j]
<1> DEFINE P(n) == \A S \in SUBSET Nat : IsFiniteSet(S) /\ Cardinality(S) = n =>
                     \E f \in [1..n -> S] : \A i, j \in 1..n : i < j => f[i] < f[j]
           T == {n \in Nat : P(n)}
<1>1. 0 \in T
  <2>1. ASSUME NEW S \in SUBSET Nat PROVE \E f \in [1..0 -> S] : \A i, j \in 1..0 : i < j => f[i] < f[j]
    <3>1. [i \in 1..0 |-> i] \in [1..0 -> S] /\ 1..0 = {}
      OBVIOUS
    <3> QED  BY <3>1
  <2>2. P(0)
    BY <2>1
  <2> QED  BY <2>2
<1>2. ASSUME NEW n \in T PROVE n + 1 \in T
  <2>0. n \in Nat /\ P(n) /\ n + 1 \in Nat
    OBVIOUS
  <2>1. ASSUME NEW S \in SUBSET Nat, IsFiniteSet(S), Cardinality(S) = n + 1
        PROVE  \E f \in [1..(n + 1) -> S] : \A i, j \in 1..(n + 1) : i < j => f[i] < f[j]
    <3>1. S # {}
      BY <2>0, <2>1, FS_EmptySet
    <3>2. PICK m \in S : \A x \in S : m <= x
      BY <3>1, LeastNatural
    <3> DEFINE U == S \ {m}
    <3>3. IsFiniteSet(U) /\ Cardinality(U) = n /\ U \in SUBSET Nat
      BY <2>0, <2>1, FS_RemoveElement
    <3>4. PICK g \in [1..n -> U] : \A i, j \in 1..n : i < j => g[i] < g[j]
      BY <2>0, <3>3
    <3> DEFINE f == [i \in 1..(n + 1) |-> IF i = 1 THEN m ELSE g[i - 1]]
    <3>5. \A i \in 1..(n + 1) : i = 1 \/ i - 1 \in 1..n
      BY <2>0
    <3>6. \A x \in U : x \in S /\ x \in Nat /\ m < x
      BY <3>2
    <3>7. \A i \in 1..n : g[i] \in U
      BY <3>4
    <3> HIDE DEF U
    <3>8. f \in [1..(n + 1) -> S]
      BY <3>5, <3>6, <3>7
    <3>9. ASSUME NEW i \in 1..(n + 1), NEW j \in 1..(n + 1), i < j PROVE f[i] < f[j]
      <4>1. j # 1 /\ j - 1 \in 1..n /\ f[j] = g[j - 1]
        BY <2>0, <3>5, <3>9
      <4>2. CASE i = 1
        BY <4>1, <4>2, <3>6, <3>7
      <4>3. CASE i # 1
        <5>1. i - 1 \in 1..n /\ i - 1 < j - 1 /\ f[i] = g[i - 1]
          BY <4>3, <2>0, <3>5, <3>9
        <5> QED  BY <5>1, <4>1, <3>4
      <4> QED  BY <4>2, <4>3
    <3> QED  BY <3>8, <3>9
  <2>2. P(n + 1)
    BY <2>1
  <2> HIDE DEF P
  <2> QED  BY <2>0, <2>2
<1>3. T = Nat
  <2>1. T \subseteq Nat
    OBVIOUS
  <2> HIDE DEF T
  <2> QED  BY <2>1, <1>1, <1>2, NatSetInduction
<1> QED  BY <1>3

\* list_segments: every segment once, the oldest first.
LEMMA NamesFacts ==
  ASSUME NEW d, IsFiniteSet(DOMAIN d), DOMAIN d \subseteq Nat
  PROVE  \E n \in Nat :
           /\ SegmentNames(d) \in [1..n -> DOMAIN d] /\ SegmentNames(d) \in Seq(DOMAIN d) /\ Len(SegmentNames(d)) = n
           /\ \A i, j \in 1..n : i < j => SegmentNames(d)[i] < SegmentNames(d)[j]
           /\ \A m \in DOMAIN d : \E i \in 1..n : m = SegmentNames(d)[i]
<1> DEFINE S == DOMAIN d
           n == Cardinality(S)
           names == SegmentNames(d)
<1>0. names = CHOOSE f \in [1..n -> S] : \A i, j \in 1..n : i < j => f[i] < f[j]
  BY DEF SegmentNames
<1>1. n \in Nat /\ IsFiniteSet(S) /\ S \in SUBSET Nat
  BY FS_CardinalityType
<1> HIDE DEF names, S
<1>2. \E f \in [1..n -> S] : \A i, j \in 1..n : i < j => f[i] < f[j]
  BY <1>1, OrderExists
<1>3. names \in [1..n -> S] /\ \A i, j \in 1..n : i < j => names[i] < names[j]
  BY <1>0, <1>2
<1>4. names \in Injection(1..n, S)
  <2>1. ASSUME NEW i \in 1..n, NEW j \in 1..n, names[i] = names[j] PROVE i = j
    <3>1. names[i] \in Nat /\ names[j] \in Nat
      BY <1>1, <1>3
    <3>2. i < j \/ j < i \/ i = j
      BY <1>1
    <3>3. i < j => names[i] < names[j]
      BY <1>3
    <3>4. j < i => names[j] < names[i]
      BY <1>3
    <3> QED  BY <2>1, <3>1, <3>2, <3>3, <3>4
  <2> QED  BY <1>3, <2>1 DEF Injection, IsInjective
<1>5. IsFiniteSet(1..n) /\ Cardinality(1..n) = n
  <2>1. IsFiniteSet(1..n) /\ Cardinality(1..n) = IF 1 > n THEN 0 ELSE n - 1 + 1
    BY <1>1, FS_Interval
  <2> HIDE DEF n
  <2>2. (IF 1 > n THEN 0 ELSE n - 1 + 1) = n
    BY <1>1
  <2> QED  BY <2>1, <2>2
<1>6. names \in Surjection(1..n, S)
  <2>1. Cardinality(1..n) = Cardinality(S)
    BY <1>5
  <2> QED  BY <1>1, <1>4, <2>1, FS_Injection
<1>7. \A m \in S : \E i \in 1..n : m = names[i]
  BY <1>6 DEF Surjection
<1> HIDE DEF n
<1>8. names \in Seq(S) /\ Len(names) = n
  BY <1>1, <1>3, ArrayIsSeq
<1> QED  BY <1>1, <1>3, <1>7, <1>8 DEF names, S

-----------------------------------------------------------------------------
(* The recorder's steps keep it.                                           *)

\* Retention leaves the last segment.
LEMMA DeletedFacts ==
  ASSUME NEW D, NEW names \in Seq(D)
  PROVE  /\ DeletedCount(names, 1) \in Nat
         /\ (names = <<>> => DeletedCount(names, 1) = 0)
         /\ (names # <<>> => DeletedCount(names, 1) <= Len(names) - 1)
<1>1. CASE names = <<>>
  <2>1. DeletedCount(names, 1) = 0
    BY <1>1 DEF DeletedCount
  <2> QED  BY <2>1, <1>1
<1>2. CASE names # <<>>
  <2> DEFINE Size(i) == Len(disk[names[i]].records)
             Sum(S) == FoldSet(LAMBDA i, total : total + Size(i), 0, S)
             total == Sum(1..Len(names)) + 1
             Enough(k) == k = Len(names) - 1 \/ total - Sum(1..k) <= MaxTotal
             T == {k \in 0..(Len(names) - 1) : Enough(k)}
  <2>1. DeletedCount(names, 1) = Min(T)
    BY <1>2 DEF DeletedCount
  <2>2. Len(names) \in Nat /\ Len(names) > 0
    BY <1>2
  <2>3. Len(names) - 1 \in 0..(Len(names) - 1) /\ Enough(Len(names) - 1)
    <3> HIDE DEF total, Sum
    <3> QED  BY <2>2
  <2>4. Len(names) - 1 \in T
    <3> HIDE DEF Enough
    <3> QED  BY <2>3
  <2>5. T \subseteq 0..(Len(names) - 1)
    <3> HIDE DEF Enough
    <3> QED  OBVIOUS
  <2> HIDE DEF T
  <2>6. \E x \in T : \A y \in T : x <= y
    <3>1. T \subseteq Nat /\ T # {}
      BY <2>4, <2>5
    <3> QED  BY <3>1, LeastNatural
  <2>7. Min(T) \in T
    BY <2>6 DEF Min
  <2>8. Min(T) \in 0..(Len(names) - 1)
    BY <2>5, <2>7
  <2>9. Min(T) \in Nat /\ Min(T) <= Len(names) - 1
    BY <2>2, <2>8
  <2> QED  BY <2>1, <2>9, <1>2
<1> QED  BY <1>1, <1>2

\* What a record says does not depend on anything but what is recorded.
LEMMA TruthKept ==
  ASSUME rec'.category = rec.category, Truthful(rec, writer, disk),
         \A a \in OnDisk(disk') \cup Waiting(rec', writer') :
           a \in OnDisk(disk) \cup Waiting(rec, writer) \/ Replayed(a.payload) = a.acted
  PROVE  Truthful(rec, writer, disk)'
<1>1. \A p : Replayed(p)' = Replayed(p)
  BY DEF Replayed
<1>2. \A a \in OnDisk(disk') \cup Waiting(rec', writer') : Replayed(a.payload) = a.acted
  BY DEF Truthful
<1>3. \A a \in OnDisk(disk') \cup Waiting(rec', writer') : Replayed(a.payload)' = a.acted
  <2> HIDE DEF OnDisk, Waiting
  <2> QED  BY <1>1, <1>2
<1> QED  BY <1>3 DEF Truthful

\* The ring, the writer and the files stay.
LEMMA KeptIdle ==
  ASSUME KeptOk, rec'.ring = rec.ring, rec'.pushed = rec.pushed, rec'.category = rec.category,
         rec.shutdown => rec'.shutdown, UNCHANGED <<writer, disk, fate>>, clock'.stepped \/ clock' = clock
  PROVE  KeptOk'
<1>1. Waiting(rec', writer') = Waiting(rec, writer) /\ OnDisk(disk') = OnDisk(disk)
  BY DEF Waiting
<1>2. Truthful(rec, writer, disk)'
  BY <1>1, TruthKept DEF KeptOk
<1>3. Accounted(rec', writer', disk', fate')
  BY <1>1 DEF KeptOk, Accounted
<1>4. InLine(rec', writer', disk')
  BY <1>1 DEF KeptOk, InLine
<1>5. Flushed(writer', disk') /\ LateOnly(rec', writer', fate')
  BY DEF KeptOk, Flushed, LateOnly
<1>6. ~clock'.stepped => OnTime(rec', writer', disk', clock'.now, fate')
  BY <1>1 DEF KeptOk, OnTime, LeftAlone
<1> QED  BY <1>2, <1>3, <1>4, <1>5, <1>6 DEF KeptOk

\* Someone switches the recording or drops the recorder, or the clock goes back.
LEMMA SwitchesKeep == ASSUME RecorderInv, KeptOk, UNCHANGED recVars \/ SetActive \/ DropRecorder \/ StepClockBack PROVE KeptOk'
<1>0. rec \in [category : {rec.category}, active : BOOLEAN, ring : {rec.ring}, shutdown : BOOLEAN, pushed : Nat]
  BY DEF RecorderInv
<1>1. CASE UNCHANGED recVars
  BY <1>1, KeptIdle DEF recVars
<1>2. CASE SetActive
  BY <1>2, <1>0, KeptIdle DEF SetActive
<1>3. CASE DropRecorder
  BY <1>3, <1>0, KeptIdle DEF DropRecorder
<1>4. CASE StepClockBack
  <2>1. clock'.stepped /\ UNCHANGED <<rec, writer, disk, fate>>
    BY <1>4 DEF StepClockBack
  <2> QED  BY <2>1, KeptIdle
<1> QED  BY <1>1, <1>2, <1>3, <1>4

\* The writer takes what waits in the ring.
LEMMA DrainKeeps == ASSUME RecorderInv, KeptOk, Drain PROVE KeptOk'
<1> DEFINE r == rec
           w == writer
<1>0. /\ r = rec /\ w = writer
      /\ r \in [category : {r.category}, active : BOOLEAN, ring : {r.ring}, shutdown : BOOLEAN, pushed : Nat]
      /\ w \in [at : {"Drain", "Check", "Write", "Exited"}, batch : {w.batch}, segment : {w.segment}, size : Nat]
      /\ Accounted(r, w, disk, fate) /\ InLine(r, w, disk) /\ Flushed(w, disk) /\ LateOnly(r, w, fate)
      /\ Truthful(rec, writer, disk) /\ (~clock.stepped => OnTime(r, w, disk, clock.now, fate))
  BY DEF RecorderInv, KeptOk
<1> DEFINE q == r.ring
<1> HIDE DEF r, w
<1>1. /\ w.at = "Drain" /\ writer' = [w EXCEPT !.at = "Check", !.batch = q] /\ rec' = [r EXCEPT !.ring = <<>>]
      /\ UNCHANGED <<disk, clock, fate>>
  BY <1>0 DEF Drain
<1>2. w.batch = <<>> /\ q = r.ring
  BY <1>0, <1>1 DEF LateOnly
<1> HIDE DEF q
<1>3. writer'.at = "Check" /\ writer'.batch = q /\ writer'.segment = w.segment
  BY <1>0, <1>1
<1>4. rec'.ring = <<>> /\ rec'.pushed = r.pushed /\ rec'.category = r.category /\ rec'.shutdown = r.shutdown
  BY <1>0, <1>1
<1>5. Waiting(rec', writer') = Elements(q) /\ Waiting(r, w) = Elements(q) /\ OnDisk(disk') = OnDisk(disk)
  BY <1>1, <1>2, <1>3, <1>4, NothingWaits DEF Waiting
<1>6. Truthful(rec, writer, disk)'
  BY <1>5, <1>0, <1>4, TruthKept
<1>7. Accounted(rec', writer', disk', fate')
  BY <1>5, <1>4, <1>1, <1>0 DEF Accounted
<1>8. InLine(rec', writer', disk')
  BY <1>0, <1>1, <1>2, <1>3, <1>4, <1>5, NothingWaits DEF InLine
<1>9. Flushed(writer', disk')
  BY <1>0, <1>1, <1>3 DEF Flushed
<1>10. LateOnly(rec', writer', fate')
  BY <1>0, <1>1, <1>3, <1>4, NothingWaits DEF LateOnly
<1>11. ~clock'.stepped => OnTime(rec', writer', disk', clock'.now, fate')
  <2> SUFFICES ASSUME OnTime(r, w, disk, clock.now, fate) PROVE OnTime(rec', writer', disk', clock'.now, fate')
    BY <1>0, <1>1
  <2>1. \A n \in DOMAIN disk : LeftAlone(r, w, disk[n], n, clock.now) => LeftAlone(rec', writer', disk[n], n, clock.now)
    BY <1>1, <1>3, <1>5 DEF LeftAlone
  <2> QED  BY <1>1, <1>2, <1>3, <1>4, <1>5, <2>1, NothingWaits DEF OnTime
<1> QED  BY <1>6, <1>7, <1>8, <1>9, <1>10, <1>11 DEF KeptOk

\* Flushing changes no record.
LEMMA SyncedShape ==
  ASSUME RecorderInv, NEW name, name \in DOMAIN disk \cup {Absent}
  PROVE  /\ DOMAIN Synced(name) = DOMAIN disk
         /\ \A n \in DOMAIN disk :
              /\ Synced(name)[n].records = disk[n].records /\ Synced(name)[n].torn_at = disk[n].torn_at
              /\ Synced(name)[n].overrun = disk[n].overrun
              /\ Synced(name)[n].synced = IF n = name THEN Len(disk[n].records) ELSE disk[n].synced
<1> DEFINE D == disk
<1>1. D = disk /\ \A n \in DOMAIN D : D[n] \in [records : {D[n].records}, synced : Nat, torn_at : {D[n].torn_at}, overrun : BOOLEAN]
  BY DEF RecorderInv, SegmentShape
<1>n. \A n \in DOMAIN D : n \in Nat
  BY DEF RecorderInv
<1> HIDE DEF D
<1>2. CASE name = Absent
  <2>1. Synced(name) = D /\ Absent \notin Nat
    BY <1>1, <1>2, RecordingAssumption DEF Synced
  <2> QED  BY <1>1, <1>2, <1>n, <2>1
<1>3. CASE name # Absent
  <2>1. Synced(name) = [D EXCEPT ![name].synced = Len(D[name].records)] /\ name \in DOMAIN D
    BY <1>1, <1>3 DEF Synced
  <2> DEFINE s == D[name]
             k == Len(s.records)
             d == [s EXCEPT !.synced = k]
  <2>2. s \in [records : {s.records}, synced : Nat, torn_at : {s.torn_at}, overrun : BOOLEAN] /\ s = D[name]
    BY <1>1, <2>1
  <2>3. Synced(name) = [D EXCEPT ![name] = d]
    BY <2>1
  <2> HIDE DEF s, k
  <2>4. d.records = s.records /\ d.torn_at = s.torn_at /\ d.overrun = s.overrun /\ d.synced = k
    BY <2>2
  <2> HIDE DEF d
  <2>5. DOMAIN Synced(name) = DOMAIN D /\ \A n \in DOMAIN D : Synced(name)[n] = IF n = name THEN d ELSE D[n]
    BY <2>3
  <2> QED  BY <2>2, <2>4, <2>5, <1>1 DEF k
<1> QED  BY <1>2, <1>3

\* The files change only in what is synced.
LEMMA SameRecords ==
  ASSUME NEW d, NEW d2, DOMAIN d2 = DOMAIN d,
         \A n \in DOMAIN d : d2[n].records = d[n].records /\ d2[n].torn_at = d[n].torn_at /\ d2[n].overrun = d[n].overrun
  PROVE  /\ OnDisk(d2) = OnDisk(d)
         /\ \A r, w, f : Accounted(r, w, d, f) => Accounted(r, w, d2, f)
         /\ \A r, w : InLine(r, w, d) => InLine(r, w, d2)
         /\ \A r, w, now, f : OnTime(r, w, d, now, f) => OnTime(r, w, d2, now, f)
<1>1. OnDisk(d2) = OnDisk(d)
  BY DEF OnDisk
<1>2. \A r, w, f : Accounted(r, w, d, f) => Accounted(r, w, d2, f)
  BY <1>1 DEF Accounted
<1>3. \A r, w : InLine(r, w, d) => InLine(r, w, d2)
  BY <1>1 DEF InLine
<1>4. \A r, w, now, f : OnTime(r, w, d, now, f) => OnTime(r, w, d2, now, f)
  BY <1>1 DEF OnTime, LeftAlone
<1> QED  BY <1>1, <1>2, <1>3, <1>4

\* The writer looks at shutdown, or a batch is written.
LEMMA WriterKeeps == ASSUME RecorderInv, KeptOk, Check \/ EndBatch PROVE KeptOk'
<1> DEFINE w == writer
<1>0. /\ w = writer /\ w.segment \in DOMAIN disk \cup {Absent} /\ DOMAIN disk \subseteq Nat
      /\ w \in [at : {"Drain", "Check", "Write", "Exited"}, batch : {w.batch}, segment : {w.segment}, size : Nat]
      /\ Accounted(rec, w, disk, fate) /\ InLine(rec, w, disk) /\ Flushed(w, disk) /\ LateOnly(rec, w, fate)
      /\ Truthful(rec, writer, disk) /\ (~clock.stepped => OnTime(rec, w, disk, clock.now, fate))
      /\ \A n \in DOMAIN disk : disk[n].synced \in Nat /\ disk[n].synced <= Len(disk[n].records) /\ Len(disk[n].records) \in Nat
  <2>1. \A n \in DOMAIN disk : disk[n].synced \in Nat /\ disk[n].synced <= Len(disk[n].records) /\ Len(disk[n].records) \in Nat
    BY RecordsFacts DEF RecorderInv, SegmentShape
  <2> QED  BY <2>1 DEF RecorderInv, KeptOk
<1> HIDE DEF w
<1>1. PICK a \in {"Drain", "Write", "Exited"} :
        /\ writer' = [w EXCEPT !.at = a] /\ UNCHANGED <<rec, clock, fate>>
        /\ (disk' = disk /\ a # "Exited") \/ disk' = Synced(w.segment)
        /\ a = "Exited" => rec.shutdown /\ w.at = "Check" /\ w.batch = <<>>
        /\ a = "Drain" => w.batch = <<>>
        /\ w.at # "Exited"
  <2>1. CASE Check
    BY <2>1, <1>0 DEF Check, MayExit
  <2>2. CASE EndBatch
    BY <2>2, <1>0 DEF EndBatch
  <2> QED  BY <2>1, <2>2
<1>2. writer'.at = a /\ writer'.batch = w.batch /\ writer'.segment = w.segment
  BY <1>0, <1>1
<1> DEFINE name == w.segment
<1>3. /\ DOMAIN Synced(name) = DOMAIN disk
      /\ \A n \in DOMAIN disk :
           /\ Synced(name)[n].records = disk[n].records /\ Synced(name)[n].torn_at = disk[n].torn_at
           /\ Synced(name)[n].overrun = disk[n].overrun
           /\ Synced(name)[n].synced = IF n = name THEN Len(disk[n].records) ELSE disk[n].synced
  <2>1. name \in DOMAIN disk \cup {Absent}
    BY <1>0
  <2> HIDE DEF name
  <2> QED  BY <2>1, SyncedShape
<1>4. /\ DOMAIN disk' = DOMAIN disk
      /\ \A n \in DOMAIN disk :
           /\ disk'[n].records = disk[n].records /\ disk'[n].torn_at = disk[n].torn_at /\ disk'[n].overrun = disk[n].overrun
           /\ disk'[n].synced = disk[n].synced \/ disk'[n].synced = Len(disk[n].records)
  <2>1. CASE disk' = disk
    BY <2>1
  <2>2. CASE disk' = Synced(name)
    BY <2>2, <1>3
  <2> QED  BY <1>1, <2>1, <2>2
<1>5. Waiting(rec', writer') = Waiting(rec, w) /\ OnDisk(disk') = OnDisk(disk)
  BY <1>1, <1>2, <1>4, SameRecords DEF Waiting
<1>6. Truthful(rec, writer, disk)'
  BY <1>5, <1>0, <1>1, TruthKept
<1>7. Accounted(rec', writer', disk', fate')
  BY <1>0, <1>1, <1>5 DEF Accounted
<1>8. InLine(rec', writer', disk')
  <2>1. InLine(rec, w, disk')
    BY <1>0, <1>4, SameRecords
  <2> QED  BY <2>1, <1>1, <1>2, <1>5 DEF InLine
<1>9. Flushed(writer', disk')
  <2>1. IsFiniteSet(DOMAIN disk')
    BY <1>0, <1>4 DEF Flushed
  <2>2. ASSUME NEW n \in DOMAIN disk PROVE disk'[n].torn_at = Absent \/ (disk'[n].torn_at \in Nat /\ disk'[n].torn_at <= disk'[n].synced)
    <3>1. disk[n].torn_at = Absent \/ (disk[n].torn_at \in Nat /\ disk[n].torn_at <= disk[n].synced)
      BY <1>0 DEF Flushed
    <3> QED  BY <3>1, <1>4, <1>0
  <2>3. ASSUME NEW n \in DOMAIN disk, n # w.segment \/ a = "Exited" PROVE disk'[n].synced = Len(disk'[n].records)
    <3>1. CASE n # w.segment
      BY <3>1, <1>4, <1>0 DEF Flushed
    <3>2. CASE n = w.segment
      BY <2>3, <3>2, <1>1, <1>3
    <3> QED  BY <3>1, <3>2
  <2>4. ASSUME NEW n \in DOMAIN disk, disk'[n].torn_at = Absent PROVE ~disk'[n].overrun
    BY <2>4, <1>0, <1>4 DEF Flushed
  <2> QED  BY <2>1, <2>2, <2>3, <2>4, <1>2, <1>4 DEF Flushed
<1>10. LateOnly(rec', writer', fate')
  BY <1>0, <1>1, <1>2 DEF LateOnly
<1>11. ~clock'.stepped => OnTime(rec', writer', disk', clock'.now, fate')
  <2> SUFFICES ASSUME OnTime(rec, w, disk, clock.now, fate) PROVE OnTime(rec', writer', disk', clock'.now, fate')
    BY <1>0, <1>1
  <2>1. OnTime(rec, w, disk', clock.now, fate)
    BY <1>4, SameRecords
  <2>2. \A n \in DOMAIN disk' : LeftAlone(rec, w, disk'[n], n, clock.now) => LeftAlone(rec', writer', disk'[n], n, clock.now)
    BY <1>1, <1>2, <1>5 DEF LeftAlone
  <2> QED  BY <2>1, <2>2, <1>1, <1>2, <1>5 DEF OnTime
<1> QED  BY <1>6, <1>7, <1>8, <1>9, <1>10, <1>11 DEF KeptOk

\* Retention takes the oldest segments.
LEMMA RetentionFacts ==
  ASSUME RecorderInv, Flushed(writer, disk), NEW b \in BOOLEAN, NEW gone,
         gone = IF b THEN {SegmentNames(disk)[i] : i \in 1..DeletedCount(SegmentNames(disk), 1)} ELSE {}
  PROVE  gone \subseteq DOMAIN disk /\ \A g \in gone, n \in DOMAIN disk \ gone : g < n
<1> DEFINE names == SegmentNames(disk)
           D == DOMAIN disk
<1>0. IsFiniteSet(DOMAIN disk) /\ DOMAIN disk \subseteq Nat
  BY DEF RecorderInv, Flushed
<1>1. PICK c \in Nat :
        /\ names \in [1..c -> D] /\ names \in Seq(D) /\ Len(names) = c
        /\ \A i, j \in 1..c : i < j => names[i] < names[j]
        /\ \A m \in D : \E i \in 1..c : m = names[i]
  BY <1>0, NamesFacts
<1> HIDE DEF names
<1> DEFINE k == DeletedCount(names, 1)
<1>2. k \in Nat /\ k <= c
  <2>1. /\ k \in Nat
        /\ names = <<>> => k = 0
        /\ names # <<>> => k <= Len(names) - 1
    <3> HIDE DEF D
    <3> QED  BY <1>1, DeletedFacts
  <2> HIDE DEF k
  <2> QED  BY <2>1, <1>1
<1>3. gone = IF b THEN {names[i] : i \in 1..k} ELSE {}
  BY DEF names
<1> HIDE DEF k, D
<1>4. \A i \in 1..k : i \in 1..c
  BY <1>1, <1>2
<1>5. gone \subseteq D
  BY <1>1, <1>3, <1>4
<1>6. ASSUME NEW g \in gone, NEW n \in D, n \notin gone PROVE g < n
  <2>1. PICK i \in 1..k : g = names[i] /\ b
    BY <1>3, <1>6
  <2>2. PICK j \in 1..c : n = names[j]
    BY <1>1
  <2>3. j \notin 1..k
    BY <1>3, <1>6, <2>1, <2>2
  <2>4. i < j /\ i \in 1..c
    BY <2>3, <1>2, <1>4
  <2> QED  BY <2>1, <2>2, <2>4, <1>1
<1> QED  BY <1>5, <1>6 DEF D

\* A record appended to one of the files that are left, whose records are base, or to a new one.
Appends(left_, name, into, base, record, p, d2) ==
  /\ d2 = [n \in DOMAIN left_ \cup {name} |-> IF n = name THEN into ELSE left_[n]]
  /\ p \in Nat /\ Records(base, p) /\ record.id \in Nat /\ record.capture_us \in Nat
  /\ IF name \in DOMAIN left_ THEN base = left_[name].records ELSE base = <<>>
  /\ into.records = Append(base, record)

\* The files once a record is appended to one of them, or to a new one.
LEMMA AppendedFiles ==
  ASSUME NEW left_, NEW name, NEW into, NEW base, NEW record, NEW p, NEW d2, Appends(left_, name, into, base, record, p, d2)
  PROVE  Elements(into.records) = Elements(base) \cup {record} /\ OnDisk(d2) = OnDisk(left_) \cup {record}
<1>0. /\ d2 = [n \in DOMAIN left_ \cup {name} |-> IF n = name THEN into ELSE left_[n]]
      /\ p \in Nat /\ Records(base, p) /\ record.id \in Nat /\ record.capture_us \in Nat
      /\ IF name \in DOMAIN left_ THEN base = left_[name].records ELSE base = <<>>
      /\ into.records = Append(base, record)
  BY DEF Appends
<1>1. DOMAIN d2 = DOMAIN left_ \cup {name} /\ d2[name] = into /\ \A n \in DOMAIN left_ : n # name => d2[n] = left_[n]
  BY <1>0
<1>2. Elements(into.records) = Elements(base) \cup {record}
  BY <1>0, JoinedFacts
<1>3. Elements(base) \subseteq OnDisk(left_)
  <2>1. CASE name \in DOMAIN left_
    BY <2>1, <1>0 DEF OnDisk
  <2>2. CASE name \notin DOMAIN left_
    BY <2>2, <1>0, NothingWaits
  <2> QED  BY <2>1, <2>2
<1>4. ASSUME NEW a \in OnDisk(d2) PROVE a \in OnDisk(left_) \cup {record}
  <2>1. PICK n \in DOMAIN d2 : a \in Elements(d2[n].records)
    BY DEF OnDisk
  <2>2. CASE n = name
    BY <2>1, <2>2, <1>1, <1>2, <1>3
  <2>3. CASE n # name
    BY <2>1, <2>3, <1>1 DEF OnDisk
  <2> QED  BY <2>2, <2>3
<1>5. ASSUME NEW a \in OnDisk(left_) PROVE a \in OnDisk(d2)
  <2>1. PICK n \in DOMAIN left_ : a \in Elements(left_[n].records)
    BY DEF OnDisk
  <2>2. CASE n = name
    <3>1. a \in Elements(d2[name].records) /\ name \in DOMAIN d2
      BY <2>1, <2>2, <1>0, <1>1, <1>2
    <3> QED  BY <3>1 DEF OnDisk
  <2>3. CASE n # name
    <3>1. a \in Elements(d2[n].records) /\ n \in DOMAIN d2
      BY <2>1, <2>3, <1>1
    <3> QED  BY <3>1 DEF OnDisk
  <2> QED  BY <2>2, <2>3
<1>6. record \in OnDisk(d2)
  <2>1. record \in Elements(d2[name].records) /\ name \in DOMAIN d2
    BY <1>1, <1>2
  <2> QED  BY <2>1 DEF OnDisk
<1> QED  BY <1>2, <1>4, <1>5, <1>6

\* The files that are left when some are deleted.
LEMMA LeftFiles ==
  ASSUME NEW d, NEW left_, NEW gone, gone \subseteq DOMAIN d, DOMAIN left_ = DOMAIN d \ gone,
         \A n \in DOMAIN left_ : left_[n].records = d[n].records
  PROVE  \A a : a \in OnDisk(d) <=> a \in OnDisk(left_) \/ \E n \in gone : a \in Elements(d[n].records)
<1>1. ASSUME NEW a \in OnDisk(d) PROVE a \in OnDisk(left_) \/ \E n \in gone : a \in Elements(d[n].records)
  <2>1. PICK n \in DOMAIN d : a \in Elements(d[n].records)
    BY DEF OnDisk
  <2>2. CASE n \in gone
    BY <2>1, <2>2
  <2>3. CASE n \notin gone
    <3>1. n \in DOMAIN left_ /\ a \in Elements(left_[n].records)
      BY <2>1, <2>3
    <3> QED  BY <3>1 DEF OnDisk
  <2> QED  BY <2>2, <2>3
<1>2. ASSUME NEW a \in OnDisk(left_) PROVE a \in OnDisk(d)
  <2>1. PICK n \in DOMAIN left_ : a \in Elements(left_[n].records)
    BY DEF OnDisk
  <2>2. n \in DOMAIN d /\ a \in Elements(d[n].records)
    BY <2>1
  <2> QED  BY <2>2 DEF OnDisk
<1>3. ASSUME NEW n \in gone, NEW a \in Elements(d[n].records) PROVE a \in OnDisk(d)
  BY DEF OnDisk
<1> QED  BY <1>1, <1>2, <1>3

\* The numbers of more records.
LEMMA IdsUnion == \A S, T : Ids(S \cup T) = Ids(S) \cup Ids(T)
  BY DEF Ids
\* The number of one record,
LEMMA IdOf == \A a : Ids({a}) = {a.id}
  BY DEF Ids
\* ... and the numbers when one is added.
LEMMA IdsAdd == \A S, a : Ids(S \cup {a}) = Ids(S) \cup {a.id}
  BY DEF Ids

\* What WriteRecord does to the batch and the files: some are deleted, and the first record of the batch goes to one.
Writes(r, w, w2, d, left_, d2, f, f2, gone, name, base, record, p) ==
  /\ p \in Nat /\ Records(r.ring, p) /\ Records(w.batch, p) /\ w.batch # <<>>
  /\ record = Head(w.batch) /\ w2.batch = Tail(w.batch) /\ w2.segment = name
  /\ \A n \in DOMAIN d : n \in Nat /\ Records(d[n].records, p)
  /\ gone \subseteq DOMAIN d /\ DOMAIN left_ = DOMAIN d \ gone
  /\ \A n \in DOMAIN left_ : left_[n].records = d[n].records
  /\ \A g \in gone, n \in DOMAIN d \ gone : g < n
  /\ OnDisk(d2) = OnDisk(left_) \cup {record} /\ DOMAIN d2 = DOMAIN left_ \cup {name}
  /\ \A n \in DOMAIN left_ : n # name => d2[n] = left_[n]
  /\ IF name \in DOMAIN left_ THEN base = left_[name].records ELSE base = <<>>
  /\ d2[name].records = Append(base, record) /\ Elements(d2[name].records) = Elements(base) \cup {record} /\ Records(base, p)
  /\ f2.deleted = f.deleted \cup Ids(UNION {Elements(d[n].records) : n \in gone})
  /\ f2.dropped = f.dropped /\ f2.lost = f.lost

\* One record of the batch is written: the queue and the files stay in line, ...
LEMMA WriteInLine ==
  ASSUME NEW r, NEW w, NEW w2, NEW d, NEW left_, NEW d2, NEW f, NEW f2, NEW gone, NEW name, NEW base, NEW record, NEW p,
         Writes(r, w, w2, d, left_, d2, f, f2, gone, name, base, record, p),
         Accounted(r, w, d, f), InLine(r, w, d)
  PROVE  /\ Accounted(r, w2, d2, f2) /\ InLine(r, w2, d2)
         /\ OnDisk(d2) \cup Waiting(r, w2) \subseteq OnDisk(d) \cup Waiting(r, w)
         /\ Waiting(r, w) = {record} \cup Waiting(r, w2)
<1>h. /\ p \in Nat /\ Records(r.ring, p) /\ Records(w.batch, p) /\ w.batch # <<>>
      /\ record = Head(w.batch) /\ w2.batch = Tail(w.batch) /\ w2.segment = name
      /\ \A n \in DOMAIN d : n \in Nat /\ Records(d[n].records, p)
      /\ gone \subseteq DOMAIN d /\ DOMAIN left_ = DOMAIN d \ gone
      /\ \A n \in DOMAIN left_ : left_[n].records = d[n].records
      /\ \A g \in gone, n \in DOMAIN d \ gone : g < n
      /\ OnDisk(d2) = OnDisk(left_) \cup {record} /\ DOMAIN d2 = DOMAIN left_ \cup {name}
      /\ \A n \in DOMAIN left_ : n # name => d2[n] = left_[n]
      /\ IF name \in DOMAIN left_ THEN base = left_[name].records ELSE base = <<>>
      /\ d2[name].records = Append(base, record) /\ Elements(d2[name].records) = Elements(base) \cup {record} /\ Records(base, p)
      /\ f2.deleted = f.deleted \cup Ids(UNION {Elements(d[n].records) : n \in gone})
      /\ f2.dropped = f.dropped /\ f2.lost = f.lost
  BY DEF Writes
<1> DEFINE B == w.batch
           t == Tail(B)
           taken == UNION {Elements(d[n].records) : n \in gone}
<1>0. OnDisk(d) = OnDisk(left_) \cup taken
  <2>1. gone \subseteq DOMAIN d /\ DOMAIN left_ = DOMAIN d \ gone /\ \A n \in DOMAIN left_ : left_[n].records = d[n].records
    BY <1>h
  <2>2. \A a : a \in OnDisk(d) <=> a \in OnDisk(left_) \/ \E n \in gone : a \in Elements(d[n].records)
    BY <2>1, LeftFiles
  <2> QED  BY <2>2 DEF taken
<1> USE <1>h
<1>1. /\ record \in Elements(B) /\ Elements(B) = {record} \cup Elements(t)
      /\ Ascending(B) => Ascending(t) /\ \A a \in Elements(t) : record.id < a.id
  <2> HIDE DEF B
  <2>1. Records(B, p) /\ B # <<>> /\ record = Head(B)
    BY DEF B
  <2> QED  BY <2>1, LeftFacts
<1>2. w2.batch = t /\ B = w.batch
  OBVIOUS
<1> HIDE DEF B, t, taken
<1>4. Waiting(r, w) = {record} \cup Waiting(r, w2)
  BY <1>1, <1>2 DEF Waiting
<1>5. OnDisk(d2) \cup Waiting(r, w2) \subseteq OnDisk(d) \cup Waiting(r, w)
  BY <1>0, <1>4
<1>6. Accounted(r, w2, d2, f2)
  <2>1. Ids(OnDisk(d)) = Ids(OnDisk(left_)) \cup Ids(taken) /\ Ids(Waiting(r, w)) = {record.id} \cup Ids(Waiting(r, w2))
    <3>1. Ids(OnDisk(left_) \cup taken) = Ids(OnDisk(left_)) \cup Ids(taken)
      BY IdsUnion
    <3>2. Ids({record} \cup Waiting(r, w2)) = Ids({record}) \cup Ids(Waiting(r, w2)) /\ Ids({record}) = {record.id}
      BY IdsUnion, IdOf
    <3> QED  BY <3>1, <3>2, <1>0, <1>4
  <2>2. Ids(OnDisk(d2)) = Ids(OnDisk(left_)) \cup {record.id}
    <3>1. Ids(OnDisk(left_) \cup {record}) = Ids(OnDisk(left_)) \cup Ids({record}) /\ Ids({record}) = {record.id}
      BY IdsUnion, IdOf
    <3> QED  BY <3>1
  <2>3. 1..r.pushed = Ids(OnDisk(d)) \cup Ids(Waiting(r, w)) \cup f.dropped \cup f.deleted \cup f.lost
    BY DEF Accounted
  <2>4. f2.deleted = f.deleted \cup Ids(taken)
    BY DEF taken
  <2> QED  BY <2>1, <2>2, <2>3, <2>4 DEF Accounted
<1>7. InLine(r, w2, d2)
  <2>1. /\ Ascending(r.ring) /\ Ascending(B)
        /\ \A a \in Elements(B), b \in Elements(r.ring) : a.id < b.id
        /\ \A n \in DOMAIN d : Ascending(d[n].records)
        /\ \A a \in OnDisk(d), b \in Waiting(r, w) : a.id < b.id
    BY <1>2 DEF InLine
  <2>2. \A a \in Elements(t), b \in Elements(r.ring) : a.id < b.id
    BY <1>1, <2>1
  <2>3. \A b \in Waiting(r, w2) : record.id < b.id
    BY <1>1, <1>2, <2>1 DEF Waiting
  <2>4. \A a \in OnDisk(d2), b \in Waiting(r, w2) : a.id < b.id
    BY <1>0, <1>4, <2>1, <2>3
  <2>5. ASSUME NEW n \in DOMAIN d2 PROVE Ascending(d2[n].records)
    <3>1. CASE n # name
      BY <3>1, <2>1
    <3>2. CASE n = name
      <4>1. Ascending(base) /\ Elements(base) \subseteq OnDisk(d)
        <5>1. CASE name \in DOMAIN left_
          BY <5>1, <2>1 DEF OnDisk
        <5>2. CASE name \notin DOMAIN left_
          BY <5>2, NothingWaits
        <5> QED  BY <5>1, <5>2
      <4>2. \A a \in Elements(base) : a.id < record.id
        BY <4>1, <2>1, <1>4
      <4>3. record.id \in Nat /\ record.capture_us \in Nat
        BY <1>1, <1>2, QueueFacts
      <4>4. Ascending(Append(base, record))
        BY <4>1, <4>2, <4>3, JoinedFacts
      <4> QED  BY <4>4, <3>2
    <3> QED  BY <3>1, <3>2
  <2> QED  BY <1>1, <1>2, <2>1, <2>2, <2>4, <2>5 DEF InLine
<1> QED  BY <1>4, <1>5, <1>6, <1>7

\* ... and in time.
LEMMA WriteOnTime ==
  ASSUME NEW r, NEW w, NEW w2, NEW d, NEW left_, NEW d2, NEW f, NEW f2, NEW gone, NEW name, NEW base, NEW record, NEW p,
         Writes(r, w, w2, d, left_, d2, f, f2, gone, name, base, record, p),
         NEW rotate \in BOOLEAN, NEW now \in Nat,
         IF rotate THEN name = record.capture_us ELSE name = w.segment /\ name \in DOMAIN left_ /\ name # Absent,
         w.at # "Exited", \A n \in DOMAIN left_ : left_[n].torn_at = d[n].torn_at /\ left_[n].overrun = d[n].overrun,
         d2[name].torn_at = IF name \in DOMAIN left_ THEN left_[name].torn_at ELSE Absent,
         InLine(r, w, d), OnTime(r, w, d, now, f)
  PROVE  OnTime(r, w2, d2, now, f2)
<1>h. /\ p \in Nat /\ Records(r.ring, p) /\ Records(w.batch, p) /\ w.batch # <<>>
      /\ record = Head(w.batch) /\ w2.batch = Tail(w.batch) /\ w2.segment = name
      /\ \A n \in DOMAIN d : n \in Nat /\ Records(d[n].records, p)
      /\ gone \subseteq DOMAIN d /\ DOMAIN left_ = DOMAIN d \ gone
      /\ \A n \in DOMAIN left_ : left_[n].records = d[n].records
      /\ \A g \in gone, n \in DOMAIN d \ gone : g < n
      /\ OnDisk(d2) = OnDisk(left_) \cup {record} /\ DOMAIN d2 = DOMAIN left_ \cup {name}
      /\ \A n \in DOMAIN left_ : n # name => d2[n] = left_[n]
      /\ IF name \in DOMAIN left_ THEN base = left_[name].records ELSE base = <<>>
      /\ d2[name].records = Append(base, record) /\ Elements(d2[name].records) = Elements(base) \cup {record} /\ Records(base, p)
      /\ f2.deleted = f.deleted \cup Ids(UNION {Elements(d[n].records) : n \in gone})
      /\ f2.dropped = f.dropped /\ f2.lost = f.lost
  BY DEF Writes
<1> USE <1>h
<1> DEFINE B == w.batch
           t == Tail(B)
           taken == UNION {Elements(d[n].records) : n \in gone}
<1>1. /\ record \in Elements(B) /\ Elements(B) = {record} \cup Elements(t)
      /\ InTime(B) => InTime(t) /\ \A a \in Elements(t) : record.capture_us <= a.capture_us
  <2> HIDE DEF B
  <2>1. Records(B, p) /\ B # <<>> /\ record = Head(B)
    BY DEF B
  <2> QED  BY <2>1, LeftFacts
<1>2. w2.batch = t /\ B = w.batch
  OBVIOUS
<1> HIDE DEF B, t, taken
<1>3. OnDisk(d) = OnDisk(left_) \cup taken
  <2>1. \A a : a \in OnDisk(d) <=> a \in OnDisk(left_) \/ \E n \in gone : a \in Elements(d[n].records)
    BY LeftFiles
  <2> QED  BY <2>1 DEF taken
<1>4. Waiting(r, w) = {record} \cup Waiting(r, w2)
  BY <1>1, <1>2 DEF Waiting
<1>5. /\ InTime(r.ring) /\ InTime(B)
      /\ \A a \in Elements(B), b \in Elements(r.ring) : a.capture_us <= b.capture_us
      /\ \A a \in Waiting(r, w) : a.capture_us <= now
      /\ \A n \in DOMAIN d : n <= now
      /\ \A n \in DOMAIN d, a \in Waiting(r, w) : n <= a.capture_us
      /\ w.segment # Absent => \A n \in DOMAIN d : n <= w.segment
      /\ \A m, n \in DOMAIN d : m < n => \A a \in Elements(d[m].records), b \in Elements(d[n].records) : a.id < b.id
      /\ \A x \in f.deleted, a \in OnDisk(d) \cup Waiting(r, w) : x < a.id
      /\ \A n \in DOMAIN d : d[n].torn_at # Absent => LeftAlone(r, w, d[n], n, now)
  BY <1>2 DEF OnTime
<1>6. \A a \in OnDisk(d), b \in Waiting(r, w) : a.id < b.id
  BY DEF InLine
<1>7. record.capture_us \in Nat
  BY <1>1, <1>2, QueueFacts
<1>8. InTime(t) /\ \A a \in Elements(t), b \in Elements(r.ring) : a.capture_us <= b.capture_us
  BY <1>1, <1>5
<1>9. \A a \in Waiting(r, w2) : record.capture_us <= a.capture_us
  BY <1>1, <1>2, <1>5 DEF Waiting
<1>10. name \in Nat /\ name <= now /\ (\A a \in Waiting(r, w2) : name <= a.capture_us) /\ \A n \in DOMAIN d : n <= name
  <2>1. CASE rotate
    BY <2>1, <1>4, <1>5, <1>7, <1>9
  <2>2. CASE ~rotate
    BY <2>2, <1>4, <1>5
  <2> QED  BY <2>1, <2>2
<1>11. \A n \in DOMAIN d2 : n \in Nat /\ n <= now /\ n <= name /\ \A a \in Waiting(r, w2) : n <= a.capture_us
  <2> SUFFICES ASSUME NEW n \in DOMAIN d2 PROVE n \in Nat /\ n <= now /\ n <= name /\ \A a \in Waiting(r, w2) : n <= a.capture_us
    OBVIOUS
  <2>1. CASE n = name
    BY <2>1, <1>10
  <2>2. CASE n # name
    <3>1. n \in DOMAIN d
      BY <2>2
    <3> QED  BY <3>1, <1>4, <1>5, <1>10
  <2> QED  BY <2>1, <2>2
<1>12. ASSUME NEW m \in DOMAIN d2, NEW n \in DOMAIN d2, m < n,
              NEW a \in Elements(d2[m].records), NEW b \in Elements(d2[n].records)
       PROVE  a.id < b.id
  <2>1. m # name /\ m \in DOMAIN left_ /\ a \in Elements(d[m].records) /\ m \in DOMAIN d
    <3>1. m # name
      BY <1>12, <1>10, <1>11
    <3> QED  BY <3>1
  <2>2. a \in OnDisk(d)
    BY <2>1 DEF OnDisk
  <2>3. CASE n # name
    <3>1. n \in DOMAIN left_ /\ b \in Elements(d[n].records) /\ n \in DOMAIN d
      BY <2>3
    <3> QED  BY <3>1, <2>1, <1>5, <1>12
  <2>4. CASE n = name
    <3>1. b = record \/ b \in Elements(base)
      BY <2>4
    <3>2. CASE b = record
      BY <3>2, <2>2, <1>4, <1>6
    <3>3. CASE b \in Elements(base)
      <4>1. name \in DOMAIN left_ /\ b \in Elements(d[name].records) /\ name \in DOMAIN d
        BY <3>3, NothingWaits
      <4> QED  BY <4>1, <2>1, <2>4, <1>5, <1>12
    <3> QED  BY <3>1, <3>2, <3>3
  <2> QED  BY <2>3, <2>4
<1>13. ASSUME NEW x \in f2.deleted, NEW a \in OnDisk(d2) \cup Waiting(r, w2) PROVE x < a.id
  <2>1. a \in OnDisk(left_) \/ a \in Waiting(r, w)
    BY <1>4
  <2>2. CASE x \in f.deleted
    BY <2>1, <2>2, <1>3, <1>5
  <2>3. CASE x \notin f.deleted
    <3>1. PICK y \in taken : x = y.id
      BY <2>3 DEF Ids, taken
    <3>2. PICK g \in gone : y \in Elements(d[g].records)
      BY DEF taken
    <3>3. CASE a \in Waiting(r, w)
      BY <3>1, <3>3, <1>3, <1>6
    <3>4. CASE a \in OnDisk(left_)
      <4>1. PICK n \in DOMAIN left_ : a \in Elements(left_[n].records)
        BY <3>4 DEF OnDisk
      <4>2. g < n /\ n \in DOMAIN d /\ g \in DOMAIN d /\ a \in Elements(d[n].records)
        BY <4>1
      <4> QED  BY <4>2, <3>1, <3>2, <1>5
    <3> QED  BY <2>1, <3>3, <3>4
  <2> QED  BY <2>2, <2>3
<1>14. ASSUME NEW n \in DOMAIN d2, d2[n].torn_at # Absent PROVE LeftAlone(r, w2, d2[n], n, now)
  <2>1. n \in DOMAIN left_ /\ n \in DOMAIN d /\ n \in Nat /\ d[n].torn_at # Absent
    BY <1>14
  <2>2. /\ d[n].torn_at = Len(d[n].records) /\ ~d[n].overrun
        /\ n # w.segment /\ n < now /\ \A a \in Waiting(r, w) : n < a.capture_us
    BY <2>1, <1>5 DEF LeftAlone
  <2>3. n # name
    BY <2>1, <2>2, <1>4, <1>7
  <2> QED  BY <2>1, <2>2, <2>3, <1>4 DEF LeftAlone
<1> QED  BY <1>2, <1>4, <1>5, <1>8, <1>11, <1>12, <1>13, <1>14 DEF OnTime

\* One record is written, to a segment that is there or to a new one.
LEMMA WriteKeeps == ASSUME RecorderInv, KeptOk, WriteRecord PROVE KeptOk'
<1> DEFINE r == rec
           w == writer
           d == disk
           f == fate
           p == rec.pushed
           now == clock.now
<1>i. /\ r = rec /\ w = writer /\ d = disk /\ f = fate /\ p = rec.pushed /\ p \in Nat /\ now = clock.now /\ now \in Nat
      /\ w.segment \in DOMAIN d \cup {Absent} /\ DOMAIN d \subseteq Nat
      /\ \A n \in DOMAIN d : /\ d[n] \in [records : {d[n].records}, synced : Nat, torn_at : {d[n].torn_at}, overrun : BOOLEAN]
                             /\ Records(d[n].records, p) /\ Len(d[n].records) \in Nat
      /\ Records(w.batch, p) /\ w.batch # <<>> /\ Records(r.ring, p)
      /\ w \in [at : {"Drain", "Check", "Write", "Exited"}, batch : {w.batch}, segment : {w.segment}, size : Nat]
      /\ f \in [dropped : {f.dropped}, deleted : {f.deleted}, lost : {f.lost}, late : {f.late}]
      /\ w.at = "Write"
  <2>1. \A n \in DOMAIN d : /\ d[n] \in [records : {d[n].records}, synced : Nat, torn_at : {d[n].torn_at}, overrun : BOOLEAN]
                             /\ Records(d[n].records, p) /\ Len(d[n].records) \in Nat
    BY RecordsFacts DEF RecorderInv, SegmentShape
  <2> QED  BY <2>1 DEF RecorderInv, WriteRecord
<1>k. /\ Accounted(r, w, d, f) /\ InLine(r, w, d) /\ Flushed(w, d) /\ Truthful(rec, writer, disk)
      /\ ~clock.stepped => OnTime(r, w, d, now, f)
  BY DEF KeptOk
<1>s. /\ DOMAIN Synced(w.segment) = DOMAIN d
      /\ \A n \in DOMAIN d :
           /\ Synced(w.segment)[n].records = d[n].records /\ Synced(w.segment)[n].torn_at = d[n].torn_at
           /\ Synced(w.segment)[n].overrun = d[n].overrun
           /\ Synced(w.segment)[n].synced = IF n = w.segment THEN Len(d[n].records) ELSE d[n].synced
           /\ SegmentShape(Synced(w.segment)[n], p)
  <2> DEFINE open == w.segment
  <2>1. open \in DOMAIN disk \cup {Absent}
    BY <1>i
  <2> HIDE DEF open
  <2>2. /\ DOMAIN Synced(open) = DOMAIN disk
        /\ \A n \in DOMAIN disk :
             /\ Synced(open)[n].records = disk[n].records /\ Synced(open)[n].torn_at = disk[n].torn_at
             /\ Synced(open)[n].overrun = disk[n].overrun
             /\ Synced(open)[n].synced = IF n = open THEN Len(disk[n].records) ELSE disk[n].synced
    BY <2>1, SyncedShape
  <2>3. \A n \in DOMAIN disk : SegmentShape(Synced(open)[n], rec.pushed)
    BY <2>1, SyncedFacts
  <2> QED  BY <2>2, <2>3 DEF open
<1>1. PICK aged \in BOOLEAN :
        LET first == Head(writer.batch)
            rotates == ShouldRotate(aged)
            names == SegmentNames(disk)
            deleted == IF rotates THEN {names[i] : i \in 1..DeletedCount(names, 1)} ELSE {}
            file == IF rotates THEN first.capture_us ELSE writer.segment
            rest == [n \in DOMAIN disk \ deleted |-> IF rotates THEN Synced(writer.segment)[n] ELSE disk[n]]
            into == IF file \in DOMAIN rest THEN rest[file] ELSE EmptySegment
        IN  /\ \E reaches \in BOOLEAN :
                 disk' = [n \in DOMAIN rest \cup {file} |-> IF n = file THEN Appended(into, first, reaches) ELSE rest[n]]
            /\ writer' = [writer EXCEPT !.batch = Tail(@), !.segment = file, !.size = IF rotates THEN 1 ELSE @ + 1]
            /\ fate' = [fate EXCEPT !.deleted = @ \cup UNION {RecordIds(disk[n].records) : n \in deleted}]
  BY DEF WriteRecord
<1>u. UNCHANGED <<rec, clock>>
  BY DEF WriteRecord
<1> DEFINE record == Head(w.batch)
           rotate == ShouldRotate(aged)
           gone == IF rotate THEN {SegmentNames(disk)[i] : i \in 1..DeletedCount(SegmentNames(disk), 1)} ELSE {}
           name == IF rotate THEN record.capture_us ELSE w.segment
           kept == [n \in DOMAIN d \ gone |-> IF rotate THEN Synced(w.segment)[n] ELSE d[n]]
           target == IF name \in DOMAIN kept THEN kept[name] ELSE EmptySegment
           lostIds == UNION {RecordIds(d[n].records) : n \in gone}
<1>d. PICK reaches \in BOOLEAN :
        disk' = [n \in DOMAIN kept \cup {name} |-> IF n = name THEN Appended(target, record, reaches) ELSE kept[n]]
  BY <1>1
<1> DEFINE written == Appended(target, record, reaches)
<1>2. /\ disk' = [n \in DOMAIN kept \cup {name} |-> IF n = name THEN written ELSE kept[n]]
      /\ writer' = [w EXCEPT !.batch = Tail(@), !.segment = name, !.size = IF rotate THEN 1 ELSE @ + 1]
      /\ fate' = [f EXCEPT !.deleted = @ \cup lostIds]
  BY <1>1, <1>d
<1>3. rotate \in BOOLEAN /\ (~rotate => w.segment # Absent)
  BY DEF ShouldRotate
<1>4. gone \subseteq DOMAIN d /\ \A g \in gone, n \in DOMAIN d \ gone : g < n
  <2> DEFINE b == rotate
             S == gone
  <2>1. b \in BOOLEAN /\ S = IF b THEN {SegmentNames(disk)[i] : i \in 1..DeletedCount(SegmentNames(disk), 1)} ELSE {}
    BY <1>3
  <2>2. Flushed(writer, disk)
    BY <1>k
  <2> HIDE DEF b, S
  <2>3. S \subseteq DOMAIN disk /\ \A g \in S, n \in DOMAIN disk \ S : g < n
    BY <2>1, <2>2, RetentionFacts
  <2> QED  BY <2>3 DEF S
<1> HIDE DEF r, w, d, f, p, now
<1>r. record = Head(w.batch) /\ record.id \in Nat /\ record.capture_us \in Nat
  <2> DEFINE b == w.batch
  <2>1. Records(b, p) /\ b # <<>>
    BY <1>i
  <2> HIDE DEF b
  <2>2. Head(b).id \in 1..p /\ Head(b).capture_us \in Nat
    BY <2>1, <1>i, RecordsFacts
  <2>3. \A n \in 1..p : n \in Nat
    OBVIOUS
  <2> QED  BY <2>2, <2>3 DEF b
<1>5. ~rotate => gone = {}
  OBVIOUS
<1> HIDE DEF record, rotate, gone
<1>6. /\ DOMAIN kept = DOMAIN d \ gone
      /\ \A n \in DOMAIN kept :
           /\ kept[n].records = d[n].records /\ kept[n].torn_at = d[n].torn_at /\ kept[n].overrun = d[n].overrun
           /\ kept[n].synced = IF rotate /\ n = w.segment THEN Len(d[n].records) ELSE d[n].synced
           /\ kept[n] \in [records : {d[n].records}, synced : Nat, torn_at : {d[n].torn_at}, overrun : BOOLEAN]
  <2>1. DOMAIN kept = DOMAIN d \ gone
    OBVIOUS
  <2>2. ASSUME NEW n \in DOMAIN d \ gone
        PROVE  /\ kept[n].records = d[n].records /\ kept[n].torn_at = d[n].torn_at /\ kept[n].overrun = d[n].overrun
               /\ kept[n].synced = IF rotate /\ n = w.segment THEN Len(d[n].records) ELSE d[n].synced
               /\ kept[n] \in [records : {d[n].records}, synced : Nat, torn_at : {d[n].torn_at}, overrun : BOOLEAN]
    <3>1. CASE rotate
      <4>1. kept[n] = Synced(w.segment)[n]
        BY <3>1
      <4> HIDE DEF kept
      <4>2. Synced(w.segment)[n] \in [records : {d[n].records}, synced : Nat, torn_at : {d[n].torn_at}, overrun : BOOLEAN]
        BY <1>s DEF SegmentShape
      <4> QED  BY <3>1, <4>1, <4>2, <1>s
    <3>2. CASE ~rotate
      <4>1. kept[n] = d[n]
        BY <3>2
      <4> HIDE DEF kept
      <4> QED  BY <3>2, <4>1, <1>i
    <3> QED  BY <3>1, <3>2
  <2> QED  BY <2>1, <2>2
<1>7. IF rotate THEN name = record.capture_us ELSE name = w.segment /\ name \in DOMAIN kept /\ name # Absent
  BY <1>3, <1>5, <1>6, <1>i
<1>8. name \in Nat /\ name # Absent
  BY <1>7, <1>r, <1>6, <1>i, RecordingAssumption
<1> HIDE DEF name, kept
<1> DEFINE base == target.records
<1>9. /\ IF name \in DOMAIN kept THEN base = kept[name].records ELSE base = <<>>
      /\ Records(base, p) /\ Len(base) \in Nat
      /\ target.torn_at = Absent \/ (target.torn_at \in Nat /\ target.torn_at <= target.synced)
      /\ target.torn_at = (IF name \in DOMAIN kept THEN kept[name].torn_at ELSE Absent) /\ (target.torn_at = Absent => ~target.overrun)
      /\ target \in [records : {base}, synced : Nat, torn_at : {target.torn_at}, overrun : BOOLEAN]
  <2>1. CASE name \in DOMAIN kept
    <3>1. target = kept[name] /\ name \in DOMAIN d
      BY <2>1, <1>6
    <3> HIDE DEF target
    <3>2. target.records = d[name].records /\ target.torn_at = d[name].torn_at /\ Records(d[name].records, p) /\ Len(d[name].records) \in Nat
      BY <3>1, <2>1, <1>6, <1>i
    <3>3. target \in [records : {base}, synced : Nat, torn_at : {target.torn_at}, overrun : BOOLEAN]
      BY <3>1, <2>1, <1>6, <3>2
    <3>4. d[name].torn_at = Absent \/ (d[name].torn_at \in Nat /\ d[name].torn_at <= d[name].synced)
      BY <3>1, <1>k DEF Flushed
    <3>5. target.torn_at = Absent \/ (target.torn_at \in Nat /\ target.torn_at <= target.synced)
      <4>1. target.synced = IF rotate /\ name = w.segment THEN Len(d[name].records) ELSE d[name].synced
        BY <3>1, <2>1, <1>6
      <4>2. d[name].synced \in Nat /\ d[name].synced <= Len(d[name].records)
        BY <3>1, <1>i DEF RecorderInv, SegmentShape
      <4> QED  BY <4>1, <4>2, <3>2, <3>4
    <3>6. target.torn_at = Absent => ~target.overrun
      <4>1. target.overrun = d[name].overrun
        BY <3>1, <2>1, <1>6
      <4> QED  BY <4>1, <3>1, <3>2, <1>k DEF Flushed
    <3> QED  BY <2>1, <3>1, <3>2, <3>3, <3>5, <3>6
  <2>2. CASE name \notin DOMAIN kept
    <3>1. target = EmptySegment
      BY <2>2
    <3>2. /\ target.records = <<>> /\ target.torn_at = Absent /\ ~target.overrun
          /\ target \in [records : {<<>>}, synced : Nat, torn_at : {Absent}, overrun : BOOLEAN]
      <4>1. /\ EmptySegment.records = <<>> /\ EmptySegment.torn_at = Absent /\ EmptySegment.overrun = FALSE
            /\ EmptySegment \in [records : {<<>>}, synced : {0}, torn_at : {Absent}, overrun : BOOLEAN]
        BY DEF EmptySegment
      <4>2. EmptySegment \in [records : {<<>>}, synced : Nat, torn_at : {Absent}, overrun : BOOLEAN]
        <5> DEFINE s == EmptySegment
        <5>1. s \in [records : {<<>>}, synced : {0}, torn_at : {Absent}, overrun : BOOLEAN]
          BY <4>1
        <5> HIDE DEF s
        <5>2. s \in [records : {<<>>}, synced : Nat, torn_at : {Absent}, overrun : BOOLEAN]
          BY <5>1
        <5> QED  BY <5>2 DEF s
      <4> QED  BY <3>1, <4>1, <4>2
    <3>3. Len(<<>>) \in Nat
      OBVIOUS
    <3> HIDE DEF target
    <3> QED  BY <2>2, <3>2, <3>3, NoRecords
  <2> QED  BY <2>1, <2>2
<1>10. base = target.records
  OBVIOUS
<1> HIDE DEF target, base
<1>11. /\ written.records = Append(base, record) /\ written.synced = target.synced /\ written.torn_at = target.torn_at
       /\ target.torn_at = Absent => written.overrun = target.overrun
  BY <1>9, <1>10, AppendedFacts
<1> HIDE DEF written
<1>12. /\ writer'.batch = Tail(w.batch) /\ writer'.segment = name /\ writer'.at = "Write"
  <2> DEFINE size == IF rotate THEN 1 ELSE w.size + 1
             b == Tail(w.batch)
             x == [w EXCEPT !.batch = b]
             y == [x EXCEPT !.segment = name]
  <2>1. writer' = [y EXCEPT !.size = size]
    BY <1>2
  <2>2. x \in [at : {"Write"}, batch : {b}, segment : {x.segment}, size : Nat]
    BY <1>i
  <2> HIDE DEF size, b, x
  <2>3. y \in [at : {"Write"}, batch : {b}, segment : {name}, size : Nat]
    BY <2>2
  <2> HIDE DEF y
  <2>4. writer'.batch = b /\ writer'.segment = name /\ writer'.at = "Write"
    BY <2>1, <2>3
  <2> QED  BY <2>4 DEF b
<1>13. /\ fate'.deleted = f.deleted \cup Ids(UNION {Elements(d[n].records) : n \in gone})
       /\ fate'.dropped = f.dropped /\ fate'.lost = f.lost
  <2>1. fate'.deleted = f.deleted \cup lostIds /\ fate'.dropped = f.dropped /\ fate'.lost = f.lost
    <3> HIDE DEF lostIds
    <3> QED  BY <1>2, <1>i
  <2>2. \A n \in gone : RecordIds(d[n].records) = Ids(Elements(d[n].records))
    <3> SUFFICES ASSUME NEW n \in gone PROVE RecordIds(d[n].records) = Ids(Elements(d[n].records))
      OBVIOUS
    <3> DEFINE q == d[n].records
    <3>1. Records(q, p)
      BY <1>4, <1>i
    <3> HIDE DEF q
    <3>2. RecordIds(q) = Ids(Elements(q))
      BY <3>1, <1>i, QueueFacts
    <3> QED  BY <3>2 DEF q
  <2>3. lostIds = Ids(UNION {Elements(d[n].records) : n \in gone})
    BY <2>2 DEF Ids
  <2> QED  BY <2>1, <2>3
<1> HIDE DEF lostIds
<1> DEFINE d2 == disk'
           w2 == writer'
           f2 == fate'
<1>14. d2 = [n \in DOMAIN kept \cup {name} |-> IF n = name THEN written ELSE kept[n]]
  BY <1>2
<1>15. /\ w2.batch = Tail(w.batch) /\ w2.segment = name /\ w2.at = "Write"
       /\ f2.deleted = f.deleted \cup Ids(UNION {Elements(d[n].records) : n \in gone})
       /\ f2.dropped = f.dropped /\ f2.lost = f.lost
  BY <1>12, <1>13
<1> HIDE DEF d2, w2, f2
<1>16. /\ DOMAIN d2 = DOMAIN kept \cup {name} /\ \A n \in DOMAIN kept : n # name => d2[n] = kept[n]
       /\ d2[name] = written /\ Elements(written.records) = Elements(base) \cup {record}
       /\ OnDisk(d2) = OnDisk(kept) \cup {record}
  <2>1. Appends(kept, name, written, base, record, p, d2)
    BY <1>14, <1>9, <1>r, <1>11, <1>i DEF Appends
  <2>2. DOMAIN d2 = DOMAIN kept \cup {name} /\ d2[name] = written /\ \A n \in DOMAIN kept : n # name => d2[n] = kept[n]
    BY <1>14
  <2>3. Elements(written.records) = Elements(base) \cup {record}
    BY <2>1, AppendedFiles
  <2>4. OnDisk(d2) = OnDisk(kept) \cup {record}
    BY <2>1, AppendedFiles
  <2> QED  BY <2>2, <2>3, <2>4
<1>w. Writes(r, w, w2, d, kept, d2, f, f2, gone, name, base, record, p)
  <2>1. \A n \in DOMAIN kept : kept[n].records = d[n].records
    BY <1>6
  <2>2. \A n \in DOMAIN d : n \in Nat /\ Records(d[n].records, p)
    BY <1>i
  <2>3. d2[name].records = Append(base, record) /\ Elements(d2[name].records) = Elements(base) \cup {record}
    BY <1>16, <1>11
  <2> QED  BY <2>1, <2>2, <2>3, <1>r, <1>i, <1>4, <1>6, <1>9, <1>15, <1>16 DEF Writes
<1>17. /\ Accounted(r, w2, d2, f2) /\ InLine(r, w2, d2)
       /\ OnDisk(d2) \cup Waiting(r, w2) \subseteq OnDisk(d) \cup Waiting(r, w)
  BY <1>w, <1>k, WriteInLine
<1>18. Truthful(rec, writer, disk)'
  <2>1. \A a \in OnDisk(disk') \cup Waiting(rec', writer') : a \in OnDisk(disk) \cup Waiting(rec, writer)
    BY <1>17, <1>u, <1>i DEF d2, w2
  <2> QED  BY <2>1, <1>k, <1>u, TruthKept
<1>19. Flushed(w2, d2)
  <2>1. IsFiniteSet(DOMAIN d2)
    <3>1. IsFiniteSet(DOMAIN d)
      BY <1>k DEF Flushed
    <3>2. IsFiniteSet(DOMAIN kept)
      BY <3>1, <1>6, FS_Subset
    <3> QED  BY <3>2, <1>16, FS_AddElement
  <2>2. ASSUME NEW n \in DOMAIN d2 PROVE d2[n].torn_at = Absent \/ (d2[n].torn_at \in Nat /\ d2[n].torn_at <= d2[n].synced)
    <3>1. CASE n = name
      BY <3>1, <1>16, <1>11, <1>9
    <3>2. CASE n # name
      <4>1. n \in DOMAIN kept /\ d2[n] = kept[n] /\ n \in DOMAIN d
        BY <3>2, <1>16, <1>6
      <4>2. d[n].torn_at = Absent \/ (d[n].torn_at \in Nat /\ d[n].torn_at <= d[n].synced)
        BY <4>1, <1>k DEF Flushed
      <4>3. d[n].synced \in Nat /\ d[n].synced <= Len(d[n].records) /\ Len(d[n].records) \in Nat
        BY <4>1, <1>i DEF RecorderInv, SegmentShape
      <4> QED  BY <4>1, <4>2, <4>3, <1>6
    <3> QED  BY <3>1, <3>2
  <2>3. ASSUME NEW n \in DOMAIN d2, n # name PROVE d2[n].synced = Len(d2[n].records)
    <3>1. n \in DOMAIN kept /\ d2[n] = kept[n] /\ n \in DOMAIN d
      BY <2>3, <1>16, <1>6
    <3>2. n # w.segment => d[n].synced = Len(d[n].records)
      BY <3>1, <1>k DEF Flushed
    <3>3. n = w.segment => rotate
      BY <2>3, <1>7
    <3> QED  BY <3>1, <3>2, <3>3, <1>6
  <2>4. ASSUME NEW n \in DOMAIN d2, d2[n].torn_at = Absent PROVE ~d2[n].overrun
    <3>1. CASE n = name
      BY <2>4, <3>1, <1>16, <1>11, <1>9
    <3>2. CASE n # name
      BY <2>4, <3>2, <1>16, <1>6, <1>k DEF Flushed
    <3> QED  BY <3>1, <3>2
  <2> QED  BY <2>1, <2>2, <2>3, <2>4, <1>15 DEF Flushed
<1>20. LateOnly(r, w2, f2)
  BY <1>15 DEF LateOnly
<1>21. ~clock.stepped => OnTime(r, w2, d2, now, f2)
  <2> SUFFICES ASSUME OnTime(r, w, d, now, f) PROVE OnTime(r, w2, d2, now, f2)
    BY <1>k
  <2>1. now \in Nat /\ rotate \in BOOLEAN /\ InLine(r, w, d)
    BY <1>i, <1>3, <1>k
  <2>2. w.at # "Exited" /\ \A n \in DOMAIN kept : kept[n].torn_at = d[n].torn_at /\ kept[n].overrun = d[n].overrun
    BY <1>i, <1>6
  <2>3. d2[name].torn_at = IF name \in DOMAIN kept THEN kept[name].torn_at ELSE Absent
    BY <1>16, <1>11, <1>9
  <2> QED  BY <2>1, <2>2, <2>3, <1>7, <1>w, WriteOnTime
<1>22. /\ Accounted(rec', writer', disk', fate') /\ InLine(rec', writer', disk') /\ Flushed(writer', disk')
       /\ LateOnly(rec', writer', fate') /\ (~clock'.stepped => OnTime(rec', writer', disk', clock'.now, fate'))
  BY <1>17, <1>19, <1>20, <1>21, <1>u, <1>i DEF d2, w2, f2
<1> QED  BY <1>18, <1>22 DEF KeptOk

\* A record is pushed: the recorder runs, and what it will be replayed as is what this end did.
LEMMA EnqueueKeeps ==
  ASSUME RecorderInv, KeptOk, NEW category, NEW payload, NEW acted, Enqueue(category, payload, acted),
         category = rec.category => Replayed(payload) = acted, ~rec.shutdown
  PROVE  KeptOk'
<1>1. CASE UNCHANGED recVars
  BY <1>1, SwitchesKeep
<1>2. CASE ~(category # rec.category \/ ~rec.active)
  <2> DEFINE r == rec
             w == writer
             d == disk
             f == fate
             p == rec.pushed
             q == rec.ring
             B == writer.batch
             now == clock.now
  <2>i. /\ r = rec /\ w = writer /\ d = disk /\ f = fate /\ p \in Nat /\ q = r.ring /\ p = r.pushed /\ B = w.batch /\ now = clock.now
        /\ r \in [category : {r.category}, active : BOOLEAN, ring : {q}, shutdown : BOOLEAN, pushed : Nat]
        /\ Records(q, p) /\ Records(B, p) /\ now \in Nat /\ clock \in [now : Nat, stepped : BOOLEAN]
        /\ f \in [dropped : {f.dropped}, deleted : {f.deleted}, lost : {f.lost}, late : {f.late}]
    BY DEF RecorderInv
  <2>k. /\ Accounted(r, w, d, f) /\ InLine(r, w, d) /\ Flushed(w, d) /\ LateOnly(r, w, f) /\ Truthful(rec, writer, disk)
        /\ ~clock.stepped => OnTime(r, w, d, now, f)
    BY DEF KeptOk
  <2> HIDE DEF r, w, d, f, p, q, B, now
  <2>1. PICK dt \in {0, 1} : clock' = [clock EXCEPT !.now = @ + dt]
    BY <1>2 DEF Enqueue
  <2> DEFINE later == clock'.now
  <2>2. later \in Nat /\ now <= later /\ clock'.stepped = clock.stepped
    <3> DEFINE m == now + dt
    <3>1. m \in Nat /\ now <= m
      BY <2>1, <2>i
    <3>2. clock' = [clock EXCEPT !.now = m]
      BY <2>1, <2>i
    <3> HIDE DEF m
    <3>3. clock'.now = m /\ clock'.stepped = clock.stepped
      BY <2>i, <3>2
    <3> QED  BY <3>1, <3>3
  <2> DEFINE record == [id |-> p + 1, capture_us |-> later, payload |-> payload, acted |-> acted]
             base == IF Len(q) >= RingCapacity THEN Tail(q) ELSE q
             ring == Append(base, record)
             gone == RecordIds(Append(q, record)) \ RecordIds(ring)
             late == IF w.at = "Check" /\ B = <<>> THEN f.late \cup {record.id} ELSE f.late
  <2>3. rec' = Push(r, record) /\ UNCHANGED <<writer, disk>>
        /\ fate' = [fate EXCEPT
             !.dropped = @ \cup (RecordIds(Append(rec.ring, record)) \ RecordIds(rec'.ring)),
             !.late = IF writer.at = "Check" /\ writer.batch = <<>> THEN @ \cup {record.id} ELSE @]
    BY <1>2, <2>i DEF Enqueue
  <2>4. /\ record.id = p + 1 /\ record.capture_us = later /\ record.payload = payload /\ record.acted = acted
        /\ p + 1 \in Nat /\ record.id \in Nat /\ record.id \in 1..(p + 1) /\ p <= p + 1
    BY <2>i
  <2> HIDE DEF record, later
  <2>5. rec' = [r EXCEPT !.ring = ring, !.pushed = p + 1]
    BY <2>3, <2>4, <2>i DEF Push
  <2>6. Records(base, p) /\ Elements(base) \subseteq Elements(q)
        /\ (Ascending(q) => Ascending(base)) /\ (InTime(q) => InTime(base))
    <3>1. CASE Len(q) >= RingCapacity
      <4>1. q # <<>>
        <5>1. RingCapacity \in Nat /\ RingCapacity > 0
          BY RecordingAssumption
        <5> QED  BY <5>1, <3>1
      <4>2. Records(Tail(q), p)
        BY <4>1, <2>i, RecordsFacts
      <4>3. Elements(q) = {Head(q)} \cup Elements(Tail(q)) /\ (Ascending(q) => Ascending(Tail(q))) /\ (InTime(q) => InTime(Tail(q)))
        BY <4>1, <2>i, LeftFacts
      <4> QED  BY <3>1, <4>2, <4>3
    <3>2. CASE ~(Len(q) >= RingCapacity)
      BY <3>2, <2>i
    <3> QED  BY <3>1, <3>2
  <2> HIDE DEF base
  <2>7. /\ Records(Append(q, record), p + 1) /\ Elements(Append(q, record)) = Elements(q) \cup {record}
        /\ Records(ring, p + 1) /\ Elements(ring) = Elements(base) \cup {record}
    <3>1. Records(q, p + 1) /\ Records(base, p + 1)
      BY <2>i, <2>4, <2>6, RecordsFacts
    <3>2. later \in Nat
      BY <2>2
    <3>3. Records(Append(q, record), p + 1) /\ Records(ring, p + 1)
      BY <3>1, <3>2, <2>4, RecordsFacts
    <3>4. Elements(Append(q, record)) = Elements(q) \cup {record}
      BY <3>1, <3>2, <2>4, JoinedFacts
    <3>5. Elements(ring) = Elements(base) \cup {record}
      BY <3>1, <3>2, <2>4, JoinedFacts
    <3> QED  BY <3>3, <3>4, <3>5
  <2>8. \A a \in Elements(q) \cup Elements(B) : a.id \in 1..p /\ a.id \in Nat /\ a.id < p + 1 /\ a.capture_us \in Nat
    <3>1. \A a \in Elements(q) \cup Elements(B) : a.id \in 1..p /\ a.id \in Nat /\ a.capture_us \in Nat
      BY <2>i, QueueFacts
    <3>2. \A n \in 1..p : n < p + 1
      BY <2>i
    <3> QED  BY <3>1, <3>2
  <2>9. (Ascending(q) => Ascending(ring)) /\ (InTime(q) /\ (\A a \in Elements(q) : a.capture_us <= later) => InTime(ring))
    <3>1. later \in Nat /\ record.id = p + 1 /\ record.capture_us = later /\ p + 1 \in Nat
      BY <2>2, <2>4
    <3>2. \A a \in Elements(base) : a.id < p + 1
      BY <2>6, <2>8
    <3>3. Ascending(base) => Ascending(ring)
      BY <3>1, <3>2, <2>6, <2>i, JoinedFacts
    <3>4. InTime(base) /\ (\A a \in Elements(base) : a.capture_us <= later) => InTime(ring)
      BY <3>1, <2>6, <2>i, JoinedFacts
    <3> QED  BY <3>3, <3>4, <2>6
  <2>10. gone = (Ids(Elements(q)) \cup {p + 1}) \ (Ids(Elements(base)) \cup {p + 1})
    <3>1. RecordIds(Append(q, record)) = Ids(Elements(Append(q, record))) /\ RecordIds(ring) = Ids(Elements(ring))
      BY <2>7, <2>4, QueueFacts
    <3>2. Ids(Elements(q) \cup {record}) = Ids(Elements(q)) \cup {p + 1} /\ Ids(Elements(base) \cup {record}) = Ids(Elements(base)) \cup {p + 1}
      BY <2>4, IdsAdd
    <3> QED  BY <3>1, <3>2, <2>7
  <2>11. Elements(ring) = Elements(base) \cup {record}
    BY <2>7
  <2> HIDE DEF ring
  <2>12. rec'.ring = ring /\ rec'.pushed = p + 1 /\ rec'.category = r.category /\ rec'.shutdown = r.shutdown
    <3> DEFINE n == p + 1
               x == [r EXCEPT !.ring = ring]
    <3>1. rec' = [x EXCEPT !.pushed = n]
      BY <2>5
    <3> HIDE DEF n
    <3>2. x \in [category : {r.category}, active : BOOLEAN, ring : {ring}, shutdown : {r.shutdown}, pushed : Nat]
      BY <2>i
    <3> HIDE DEF x
    <3>3. rec'.ring = ring /\ rec'.pushed = n /\ rec'.category = r.category /\ rec'.shutdown = r.shutdown
      BY <3>1, <3>2
    <3> QED  BY <3>3 DEF n
  <2>13. fate'.dropped = f.dropped \cup gone /\ fate'.deleted = f.deleted /\ fate'.lost = f.lost /\ fate'.late = late
    <3> DEFINE v == f.dropped \cup gone
               x == [f EXCEPT !.dropped = v]
    <3>1. fate' = [x EXCEPT !.late = late]
      BY <2>3, <2>12, <2>i
    <3> HIDE DEF v, late
    <3>2. x \in [dropped : {v}, deleted : {f.deleted}, lost : {f.lost}, late : {f.late}]
      BY <2>i
    <3> HIDE DEF x
    <3>3. fate'.dropped = v /\ fate'.deleted = f.deleted /\ fate'.lost = f.lost /\ fate'.late = late
      BY <3>1, <3>2
    <3> QED  BY <3>3 DEF v
  <2> HIDE DEF gone
  <2>14. Waiting(rec', writer') = Elements(base) \cup {record} \cup Elements(B) /\ Waiting(r, w) = Elements(q) \cup Elements(B)
    BY <2>3, <2>11, <2>12, <2>i DEF Waiting
  <2>15. disk' = d /\ writer' = w /\ writer'.batch = B
    BY <2>3, <2>i
  <2>16. 1..p = Ids(OnDisk(d)) \cup Ids(Elements(q)) \cup Ids(Elements(B)) \cup f.dropped \cup f.deleted \cup f.lost
    <3>1. Ids(Waiting(r, w)) = Ids(Elements(q)) \cup Ids(Elements(B))
      BY <2>14, IdsUnion
    <3> QED  BY <3>1, <2>k, <2>i DEF Accounted
  <2>17. Accounted(rec', writer', disk', fate')
    <3>1. Ids(Waiting(rec', writer')) = Ids(Elements(base)) \cup {p + 1} \cup Ids(Elements(B))
      <4>1. Ids((Elements(base) \cup {record}) \cup Elements(B)) = Ids(Elements(base) \cup {record}) \cup Ids(Elements(B))
        BY IdsUnion
      <4>2. Ids(Elements(base) \cup {record}) = Ids(Elements(base)) \cup {p + 1}
        BY <2>4, IdsAdd
      <4> QED  BY <4>1, <4>2, <2>14
    <3>2. 1..(p + 1) = (1..p) \cup {p + 1}
      BY <2>i
    <3>3. Ids(Elements(base)) \subseteq Ids(Elements(q))
      BY <2>6 DEF Ids
    <3>4. 1..(p + 1) = Ids(OnDisk(d)) \cup Ids(Waiting(rec', writer')) \cup (f.dropped \cup gone) \cup f.deleted \cup f.lost
      BY <3>1, <3>2, <3>3, <2>10, <2>16
    <3> QED  BY <3>4, <2>12, <2>13, <2>15 DEF Accounted
  <2>18. \A a \in OnDisk(d) : a.id < p + 1
    <3>1. \A a \in OnDisk(d) : a.id \in 1..p
      BY <2>16 DEF Ids
    <3>2. \A n \in 1..p : n < p + 1
      BY <2>i
    <3> QED  BY <3>1, <3>2
  <2>19. InLine(rec', writer', disk')
    <3>1. /\ Ascending(q) /\ Ascending(B)
          /\ \A a \in Elements(B), b \in Elements(q) : a.id < b.id
          /\ \A n \in DOMAIN d : Ascending(d[n].records)
          /\ \A a \in OnDisk(d), b \in Waiting(r, w) : a.id < b.id
      BY <2>k, <2>i DEF InLine
    <3>2. \A a \in Elements(B), b \in Elements(ring) : a.id < b.id
      BY <3>1, <2>4, <2>6, <2>8, <2>11
    <3>3. \A a \in OnDisk(d), b \in Waiting(rec', writer') : a.id < b.id
      BY <3>1, <2>4, <2>6, <2>14, <2>18
    <3> QED  BY <3>1, <3>2, <3>3, <2>9, <2>12, <2>15 DEF InLine
  <2>20. Flushed(writer', disk')
    BY <2>k, <2>15
  <2>21. LateOnly(rec', writer', fate')
    <3>1. w.at # "Exited" /\ (w.at = "Drain" => B = <<>>) /\ (w.at = "Check" /\ B = <<>> => Ids(Elements(q)) \subseteq f.late)
      BY <2>k, <2>i DEF LateOnly
    <3>2. w.at = "Check" /\ B = <<>> => Ids(Elements(ring)) \subseteq fate'.late
      <4> SUFFICES ASSUME w.at = "Check", B = <<>> PROVE Ids(Elements(ring)) \subseteq fate'.late
        OBVIOUS
      <4>1. Ids(Elements(ring)) = Ids(Elements(base)) \cup {record.id}
        BY <2>11, IdsAdd
      <4>2. Ids(Elements(base)) \subseteq Ids(Elements(q))
        BY <2>6 DEF Ids
      <4> QED  BY <3>1, <4>1, <4>2, <2>13
    <3> HIDE DEF late
    <3> QED  BY <3>1, <3>2, <2>12, <2>15 DEF LateOnly
  <2>22. Truthful(rec, writer, disk)'
    <3>1. Replayed(record.payload) = record.acted
      BY <1>2, <2>4
    <3>2. \A a \in OnDisk(disk') \cup Waiting(rec', writer') : a \in OnDisk(disk) \cup Waiting(rec, writer) \/ Replayed(a.payload) = a.acted
      BY <3>1, <2>6, <2>14, <2>15, <2>i
    <3> QED  BY <3>2, <2>k, <2>12, <2>i, TruthKept
  <2>23. ~clock'.stepped => OnTime(rec', writer', disk', clock'.now, fate')
    <3> SUFFICES ASSUME OnTime(r, w, d, now, f) PROVE OnTime(rec', writer', disk', later, fate')
      BY <2>k, <2>2 DEF later
    <3>1. /\ InTime(q) /\ InTime(B)
          /\ \A a \in Elements(B), b \in Elements(q) : a.capture_us <= b.capture_us
          /\ \A a \in Waiting(r, w) : a.capture_us <= now
          /\ \A n \in DOMAIN d : n <= now
          /\ \A n \in DOMAIN d, a \in Waiting(r, w) : n <= a.capture_us
          /\ w.segment # Absent => \A n \in DOMAIN d : n <= w.segment
          /\ \A m, n \in DOMAIN d : m < n => \A a \in Elements(d[m].records), b \in Elements(d[n].records) : a.id < b.id
          /\ \A x \in f.deleted, a \in OnDisk(d) \cup Waiting(r, w) : x < a.id
          /\ \A n \in DOMAIN d : d[n].torn_at # Absent => LeftAlone(r, w, d[n], n, now)
      BY <2>i DEF OnTime
    <3>2. \A a \in Waiting(r, w) : a.capture_us <= later
      BY <3>1, <2>2, <2>8, <2>14, <2>i
    <3>3. DOMAIN d \subseteq Nat
      BY <2>i DEF RecorderInv, d
    <3>4. \A n \in DOMAIN d : n <= later
      BY <3>1, <3>3, <2>2, <2>i
    <3>5. InTime(ring)
      BY <3>1, <3>2, <2>9, <2>14
    <3>6. \A a \in Elements(B), b \in Elements(ring) : a.capture_us <= b.capture_us
      BY <3>1, <3>2, <2>4, <2>6, <2>11, <2>14
    <3>7. \A a \in Waiting(rec', writer') : a = record \/ a \in Waiting(r, w)
      BY <2>6, <2>14
    <3>8. record.capture_us = later /\ later <= later
      BY <2>2, <2>4
    <3>9. \A x \in f.deleted : x < record.id
      <4>1. \A n \in 1..p : n < p + 1
        BY <2>i
      <4> QED  BY <4>1, <2>4, <2>16
    <3>10. \A a \in Waiting(rec', writer') : a.capture_us <= later
      BY <3>2, <3>7, <3>8
    <3>11. \A n \in DOMAIN d, a \in Waiting(rec', writer') : n <= a.capture_us
      BY <3>1, <3>4, <3>7, <3>8
    <3>12. \A x \in f.deleted, a \in OnDisk(d) \cup Waiting(rec', writer') : x < a.id
      BY <3>1, <3>7, <3>9
    <3>13. ASSUME NEW n \in DOMAIN d, LeftAlone(r, w, d[n], n, now) PROVE LeftAlone(rec', writer', d[n], n, later)
      <4>1. n \in Nat /\ (n < now => n < later)
        BY <3>3, <2>2, <2>i
      <4> QED  BY <4>1, <3>7, <3>8, <3>13, <2>15 DEF LeftAlone
    <3> QED  BY <3>1, <3>4, <3>5, <3>6, <3>10, <3>11, <3>12, <3>13, <2>12, <2>13, <2>15 DEF OnTime
  <2> QED  BY <2>17, <2>19, <2>20, <2>21, <2>22, <2>23 DEF KeptOk
<1> QED  BY <1>1, <1>2 DEF Enqueue

\* A crash takes what was not on disk, and the end of what was not synced.
LEMMA CrashKeeps == ASSUME RecorderInv, KeptOk, CrashRecorder PROVE KeptOk'
<1> DEFINE r == rec
           w == writer
           d == disk
           f == fate
           p == rec.pushed
<1>i. /\ r = rec /\ w = writer /\ d = disk /\ f = fate /\ p = r.pushed /\ p \in Nat /\ DOMAIN d \subseteq Nat
      /\ \A n \in DOMAIN d : /\ d[n] \in [records : {d[n].records}, synced : Nat, torn_at : {d[n].torn_at}, overrun : BOOLEAN]
                             /\ Records(d[n].records, p) /\ Len(d[n].records) \in Nat
      /\ r \in [category : {r.category}, active : BOOLEAN, ring : {r.ring}, shutdown : BOOLEAN, pushed : Nat]
      /\ Records(w.batch, p) /\ Records(r.ring, p)
      /\ f \in [dropped : {f.dropped}, deleted : {f.deleted}, lost : {f.lost}, late : {f.late}]
  <2>1. \A n \in DOMAIN d : /\ d[n] \in [records : {d[n].records}, synced : Nat, torn_at : {d[n].torn_at}, overrun : BOOLEAN]
                             /\ Records(d[n].records, p) /\ Len(d[n].records) \in Nat
    BY RecordsFacts DEF RecorderInv, SegmentShape
  <2> QED  BY <2>1 DEF RecorderInv
<1>k. /\ Accounted(r, w, d, f) /\ InLine(r, w, d) /\ Flushed(w, d) /\ Truthful(rec, writer, disk)
      /\ ~clock.stepped => OnTime(r, w, d, clock.now, f)
  BY DEF KeptOk
<1> DEFINE m == Max({0} \cup {Len(disk[n].records) : n \in DOMAIN disk})
<1>1. PICK kept \in [DOMAIN disk -> 0..m], torn, reaches \in BOOLEAN :
        /\ \A n \in DOMAIN disk : disk[n].synced <= kept[n] /\ kept[n] <= Len(disk[n].records)
        /\ disk' = [n \in DOMAIN disk |-> Remains(disk[n], kept[n], torn, reaches)]
  BY DEF CrashRecorder
<1>3. \A k \in 0..m : k \in Nat
  OBVIOUS
<1> HIDE DEF m
<1> DEFINE cutIds == UNION {RecordIds(disk[n].records) \ RecordIds(disk'[n].records) : n \in DOMAIN disk}
           lost == f.lost \cup RecordIds(r.ring) \cup RecordIds(w.batch) \cup cutIds
<1>2. /\ rec' = [r EXCEPT !.ring = <<>>, !.shutdown = TRUE] /\ writer' = [NewWriter EXCEPT !.at = "Exited"]
      /\ UNCHANGED clock /\ fate' = [f EXCEPT !.lost = lost]
  BY <1>i DEF CrashRecorder
<1>4. ASSUME NEW n \in DOMAIN d
      PROVE  /\ disk'[n].synced = Len(disk'[n].records) /\ Elements(disk'[n].records) \subseteq Elements(d[n].records)
             /\ Ascending(disk'[n].records) /\ Records(disk'[n].records, p)
             /\ disk'[n].torn_at = Absent \/ (disk'[n].torn_at \in Nat /\ disk'[n].torn_at <= disk'[n].synced)
             /\ d[n].torn_at \in {Absent, Len(d[n].records)} => disk'[n].torn_at \in {Absent, Len(disk'[n].records)}
             /\ (~d[n].overrun => ~disk'[n].overrun) /\ (d[n].torn_at # Absent => disk'[n].torn_at # Absent)
  <2> DEFINE s == d[n]
             k == kept[n]
             q == s.records
             x == disk'[n]
  <2>1. k \in Nat /\ s.synced <= k /\ k <= Len(q) /\ k \in 0..Len(q)
    <3>1. n \in DOMAIN disk /\ k \in Nat
      BY <1>1, <1>3, <1>i
    <3>2. s.synced <= k /\ k <= Len(q)
      BY <1>1, <1>i, <3>1
    <3>3. Len(q) \in Nat
      BY <1>i
    <3> HIDE DEF k, q
    <3> QED  BY <3>1, <3>2, <3>3
  <2>2. x = Remains(s, k, torn, reaches)
    BY <1>1, <1>i
  <2>3. s \in [records : {s.records}, synced : Nat, torn_at : {s.torn_at}, overrun : BOOLEAN] /\ Records(q, p) /\ q = s.records
    BY <1>i
  <2>4. Ascending(q) /\ (s.torn_at = Absent \/ (s.torn_at \in Nat /\ s.torn_at <= s.synced))
    BY <1>k DEF InLine, Flushed
  <2> HIDE DEF s, k, q, x
  <2>5. /\ x.records = SubSeq(q, 1, k) /\ x.synced = k /\ (~s.overrun => ~x.overrun)
        /\ x.torn_at = s.torn_at \/ (s.torn_at = Absent /\ x.torn_at = k)
    BY <2>1, <2>2, <2>3, RemainsFacts
  <2> DEFINE a == SubSeq(q, 1, k)
  <2>6. Len(a) = k /\ Records(a, p) /\ Elements(a) \subseteq Elements(q) /\ Ascending(a)
    BY <2>1, <2>3, <2>4, <1>i, RecordsFacts, PrefixFacts
  <2>7. x.records = a
    BY <2>5
  <2> HIDE DEF a
  <2>8. s.synced \in Nat /\ Absent \notin Nat /\ Len(q) \in Nat
    <3>1. Len(q) \in Nat
      BY <1>i DEF q, s
    <3> QED  BY <2>3, <3>1, RecordingAssumption
  <2>9. x.torn_at = Absent \/ (x.torn_at \in Nat /\ x.torn_at <= k)
    BY <2>1, <2>4, <2>5, <2>8
  <2>10. (s.torn_at \in {Absent, Len(q)} => x.torn_at \in {Absent, k}) /\ (s.torn_at # Absent => x.torn_at # Absent)
    BY <2>1, <2>4, <2>5, <2>8
  <2> QED  BY <2>5, <2>6, <2>7, <2>9, <2>10 DEF q, s, x
<1>5. DOMAIN disk' = DOMAIN d
  BY <1>1, <1>i
<1>6. OnDisk(disk') \subseteq OnDisk(d)
  BY <1>4, <1>5 DEF OnDisk
<1>7. rec'.ring = <<>> /\ rec'.pushed = p /\ rec'.category = r.category /\ rec'.shutdown
  <2> DEFINE x == [r EXCEPT !.ring = <<>>]
  <2>1. rec' = [x EXCEPT !.shutdown = TRUE]
    BY <1>2
  <2>2. x \in [category : {r.category}, active : BOOLEAN, ring : {<<>>}, shutdown : BOOLEAN, pushed : {p}]
    BY <1>i
  <2> HIDE DEF x
  <2> QED  BY <2>1, <2>2
<1>8. writer'.at = "Exited" /\ writer'.batch = <<>> /\ writer'.segment = Absent
  BY <1>2 DEF NewWriter
<1>9. fate'.dropped = f.dropped /\ fate'.deleted = f.deleted /\ fate'.late = f.late /\ fate'.lost = lost
  <2> HIDE DEF lost
  <2> QED  BY <1>2, <1>i
<1>10. Waiting(rec', writer') = {}
  BY <1>7, <1>8, NothingWaits DEF Waiting
<1>11. Accounted(rec', writer', disk', fate')
  <2>1. \A n \in DOMAIN d : RecordIds(d[n].records) = Ids(Elements(d[n].records)) /\ RecordIds(disk'[n].records) = Ids(Elements(disk'[n].records))
    <3> SUFFICES ASSUME NEW n \in DOMAIN d
                 PROVE  RecordIds(d[n].records) = Ids(Elements(d[n].records)) /\ RecordIds(disk'[n].records) = Ids(Elements(disk'[n].records))
      OBVIOUS
    <3> DEFINE q == d[n].records
               q2 == disk'[n].records
    <3>1. Records(q, p) /\ Records(q2, p)
      BY <1>4, <1>i
    <3> HIDE DEF q, q2
    <3>2. RecordIds(q) = Ids(Elements(q)) /\ RecordIds(q2) = Ids(Elements(q2))
      BY <3>1, <1>i, QueueFacts
    <3> QED  BY <3>2 DEF q, q2
  <2>2. cutIds \subseteq Ids(OnDisk(d))
    <3>1. ASSUME NEW n \in DOMAIN d PROVE RecordIds(d[n].records) \subseteq Ids(OnDisk(d))
      <4>1. Elements(d[n].records) \subseteq OnDisk(d)
        BY DEF OnDisk
      <4> QED  BY <4>1, <2>1 DEF Ids
    <3> QED  BY <3>1, <1>i
  <2>3. Ids(OnDisk(d)) \subseteq Ids(OnDisk(disk')) \cup cutIds
    <3> SUFFICES ASSUME NEW x \in Ids(OnDisk(d)), x \notin Ids(OnDisk(disk')) PROVE x \in cutIds
      OBVIOUS
    <3>1. PICK n \in DOMAIN d : \E a \in Elements(d[n].records) : x = a.id
      BY DEF Ids, OnDisk
    <3>2. x \in RecordIds(d[n].records)
      BY <3>1, <2>1 DEF Ids
    <3>3. x \notin RecordIds(disk'[n].records)
      <4>1. Elements(disk'[n].records) \subseteq OnDisk(disk')
        BY <1>5 DEF OnDisk
      <4> QED  BY <4>1, <2>1 DEF Ids
    <3> QED  BY <3>2, <3>3, <1>i
  <2>4. Ids(OnDisk(disk')) \subseteq Ids(OnDisk(d))
    BY <1>6 DEF Ids
  <2> HIDE DEF cutIds
  <2>5. RecordIds(r.ring) \cup RecordIds(w.batch) = Ids(Waiting(r, w))
    <3> DEFINE q == r.ring
               b == w.batch
    <3>1. Records(q, p) /\ Records(b, p)
      BY <1>i
    <3> HIDE DEF q, b
    <3>2. RecordIds(q) = Ids(Elements(q)) /\ RecordIds(b) = Ids(Elements(b))
      BY <3>1, <1>i, QueueFacts
    <3>3. Ids(Elements(q) \cup Elements(b)) = Ids(Elements(q)) \cup Ids(Elements(b))
      BY IdsUnion
    <3> QED  BY <3>2, <3>3 DEF q, b, Waiting
  <2>6. 1..p = Ids(OnDisk(d)) \cup Ids(Waiting(r, w)) \cup f.dropped \cup f.deleted \cup f.lost
    BY <1>k, <1>i DEF Accounted
  <2>7. Ids(Waiting(rec', writer')) = {}
    BY <1>10, NothingWaits
  <2>8. 1..p = Ids(OnDisk(disk')) \cup {} \cup f.dropped \cup f.deleted \cup lost
    BY <2>2, <2>3, <2>4, <2>5, <2>6
  <2> HIDE DEF lost
  <2> QED  BY <2>7, <2>8, <1>7, <1>9 DEF Accounted
<1>12. InLine(rec', writer', disk')
  BY <1>4, <1>5, <1>7, <1>8, <1>10, NothingWaits DEF InLine
<1>13. Flushed(writer', disk')
  <2>1. IsFiniteSet(DOMAIN disk') /\ \A n \in DOMAIN d : d[n].torn_at = Absent => ~d[n].overrun
    BY <1>5, <1>k DEF Flushed
  <2> QED  BY <2>1, <1>4, <1>5 DEF Flushed
<1>14. LateOnly(rec', writer', fate')
  BY <1>7, <1>8, NothingWaits DEF LateOnly
<1>15. Truthful(rec, writer, disk)'
  BY <1>6, <1>10, <1>7, <1>i, <1>k, TruthKept
<1>16. ~clock'.stepped => OnTime(rec', writer', disk', clock'.now, fate')
  <2> SUFFICES ASSUME OnTime(r, w, d, clock.now, f) PROVE OnTime(rec', writer', disk', clock.now, fate')
    BY <1>2, <1>k
  <2>1. \A n \in DOMAIN disk' : Elements(disk'[n].records) \subseteq Elements(d[n].records)
    BY <1>4, <1>5
  <2>2. ASSUME NEW n \in DOMAIN disk', disk'[n].torn_at # Absent PROVE LeftAlone(rec', writer', disk'[n], n, clock.now)
    <3>1. d[n].torn_at \in {Absent, Len(d[n].records)} /\ ~d[n].overrun
      BY <1>5, <1>k DEF OnTime, LeftAlone, Flushed
    <3> QED  BY <3>1, <2>2, <1>4, <1>5, <1>8 DEF LeftAlone
  <2> QED  BY <2>1, <2>2, <1>5, <1>6, <1>7, <1>8, <1>9, <1>10, NothingWaits DEF OnTime
<1> QED  BY <1>11, <1>12, <1>13, <1>14, <1>15, <1>16 DEF KeptOk

\* The process starts again: what waited in the ring since the writer exited is gone.
LEMMA RestartKeeps == ASSUME RecorderInv, KeptOk, RestartRecorder PROVE KeptOk'
<1> DEFINE r == rec
           w == writer
           d == disk
           f == fate
           p == rec.pushed
           q == rec.ring
           now == clock.now
<1>i. /\ r = rec /\ w = writer /\ d = disk /\ f = fate /\ p = r.pushed /\ p \in Nat /\ q = r.ring
      /\ r \in [category : {r.category}, active : BOOLEAN, ring : {q}, shutdown : BOOLEAN, pushed : Nat]
      /\ Records(q, p) /\ now = clock.now /\ now \in Nat /\ clock \in [now : Nat, stepped : BOOLEAN] /\ DOMAIN d \subseteq Nat
      /\ f \in [dropped : {f.dropped}, deleted : {f.deleted}, lost : {f.lost}, late : {f.late}]
  BY DEF RecorderInv
<1>k. /\ Accounted(r, w, d, f) /\ InLine(r, w, d) /\ Flushed(w, d) /\ LateOnly(r, w, f) /\ Truthful(rec, writer, disk)
      /\ ~clock.stepped => OnTime(r, w, d, now, f)
  BY DEF KeptOk
<1> HIDE DEF r, w, d, f, p, q, now
<1> DEFINE lost == f.lost \cup RecordIds(q)
<1>1. /\ w.at = "Exited" /\ rec' = [r EXCEPT !.ring = <<>>, !.shutdown = FALSE] /\ writer' = NewWriter
      /\ UNCHANGED disk /\ clock' = [clock EXCEPT !.now = @ + 1] /\ fate' = [f EXCEPT !.lost = lost]
  BY <1>i DEF RestartRecorder
<1>c. clock'.now = now + 1 /\ clock'.stepped = clock.stepped
  BY <1>1, <1>i
<1>2. w.batch = <<>>
  BY <1>1, <1>k DEF LateOnly
<1>3. rec'.ring = <<>> /\ rec'.pushed = p /\ rec'.category = r.category
  <2> DEFINE x == [r EXCEPT !.ring = <<>>]
  <2>1. rec' = [x EXCEPT !.shutdown = FALSE]
    BY <1>1
  <2>2. x \in [category : {r.category}, active : BOOLEAN, ring : {<<>>}, shutdown : BOOLEAN, pushed : {p}]
    BY <1>i
  <2> HIDE DEF x
  <2> QED  BY <2>1, <2>2
<1>4. writer'.at = "Drain" /\ writer'.batch = <<>> /\ writer'.segment = Absent
  BY <1>1 DEF NewWriter
<1>5. fate'.dropped = f.dropped /\ fate'.deleted = f.deleted /\ fate'.late = f.late /\ fate'.lost = lost
  <2> HIDE DEF lost
  <2> QED  BY <1>1, <1>i
<1>6. Waiting(rec', writer') = {} /\ Waiting(r, w) = Elements(q) /\ disk' = d
  BY <1>1, <1>2, <1>3, <1>4, <1>i, NothingWaits DEF Waiting
<1>7. Accounted(rec', writer', disk', fate')
  <2>1. RecordIds(q) = Ids(Waiting(r, w)) /\ Ids(Waiting(rec', writer')) = {}
    BY <1>i, <1>6, QueueFacts, NothingWaits
  <2>2. 1..p = Ids(OnDisk(d)) \cup Ids(Waiting(r, w)) \cup f.dropped \cup f.deleted \cup f.lost
    BY <1>k, <1>i DEF Accounted
  <2>3. 1..p = Ids(OnDisk(d)) \cup {} \cup f.dropped \cup f.deleted \cup lost
    BY <2>1, <2>2
  <2> HIDE DEF lost
  <2> QED  BY <2>1, <2>3, <1>3, <1>5, <1>6 DEF Accounted
<1>8. InLine(rec', writer', disk')
  BY <1>k, <1>3, <1>4, <1>6, NothingWaits DEF InLine
<1>9. Flushed(writer', disk')
  BY <1>k, <1>1, <1>4, <1>6 DEF Flushed
<1>10. LateOnly(rec', writer', fate')
  BY <1>4 DEF LateOnly
<1>11. Truthful(rec, writer, disk)'
  BY <1>3, <1>6, <1>i, <1>k, TruthKept
<1>12. ~clock'.stepped => OnTime(rec', writer', disk', clock'.now, fate')
  <2> DEFINE later == clock'.now
  <2> SUFFICES ASSUME OnTime(r, w, d, now, f) PROVE OnTime(rec', writer', d, later, fate')
    BY <1>c, <1>6, <1>k
  <2>1. \A n \in DOMAIN d : n \in Nat /\ n # Absent /\ n <= later /\ n < later
    <3>1. \A n \in DOMAIN d : n \in Nat /\ n # Absent /\ n <= now
      BY <1>i, RecordingAssumption DEF OnTime
    <3>2. later = now + 1
      BY <1>c
    <3> HIDE DEF later
    <3> QED  BY <3>1, <3>2, <1>i
  <2> HIDE DEF later
  <2>2. ASSUME NEW n \in DOMAIN d, d[n].torn_at # Absent PROVE LeftAlone(rec', writer', d[n], n, later)
    BY <2>1, <2>2, <1>4, <1>6 DEF OnTime, LeftAlone
  <2> QED  BY <2>1, <2>2, <1>3, <1>4, <1>5, <1>6, NothingWaits DEF OnTime
<1> QED  BY <1>7, <1>8, <1>9, <1>10, <1>11, <1>12 DEF KeptOk

-----------------------------------------------------------------------------
(* What is recorded is what replay makes of it.                            *)

\* Replay reads a command's arm as it was held.
LEMMA CommandReplays ==
  ASSUME NEW c \in CommandType
  PROVE  ReplayCommand(EncodeFrame("Command", PackCommand(c))) = ArmOf(c)
<1> DEFINE a == PackVelocityAttitude(c.va, "Standard")
           b == PackCartesian([xyz |-> <<c.arm_x * 1000, 0, c.arm_z * 1000>>, gripper |-> c.claw], "Standard")
           e == EncodeFrame("Command", PackCommand(c))
<1>1. a \in Seq(Int) /\ Len(a) = 12
  BY PackedVelocity DEF CommandType
<1>2. /\ b \in Seq(Int) /\ Len(b) = 8
      /\ LET got == UnpackCartesian(b, "Standard")
         IN  got.xyz[1] \div 1000 = c.arm_x /\ got.xyz[3] \div 1000 = c.arm_z /\ got.gripper = c.claw
  BY PackedArm
<1>3. PackCommand(c) = a \o b
  BY DEF PackCommand
<1>e. DecodeFrame(e).category = "Command" /\ DecodeFrame(e).fields = PackCommand(c)
  BY DEF EncodeFrame, DecodeFrame, CategoryByte, CategoryOf
<1> HIDE DEF a, b, e
<1>4. Bytes(a \o b, 0, 12) = a /\ Bytes(a \o b, 12, 8) = b
  <2>0. a \in Seq(Int) /\ b \in Seq(Int) /\ Len(a) = 12 /\ Len(b) = 8
    BY <1>1, <1>2
  <2>1. Bytes(a \o b, 0, Len(a)) = a /\ Bytes(a \o b, Len(a), Len(b)) = b
    BY <2>0, BlockFacts
  <2> QED  BY <2>0, <2>1
<1>5. a # Absent /\ b # Absent
  BY <1>1, <1>2, RecordingAssumption
<1>6. ReplayCommand(e) = LET got == UnpackCartesian(b, "Standard") IN <<got.xyz[1] \div 1000, got.xyz[3] \div 1000, got.gripper>>
  BY <1>3, <1>4, <1>5, <1>e DEF ReplayCommand, VelocityAttitudeLen, CartesianLen
<1>7. ReplayCommand(e) = <<c.arm_x, c.arm_z, c.claw>>
  BY <1>2, <1>6
<1> QED  BY <1>7 DEF ArmOf, e

\* Replay tells the two messages of the action trigger stream apart, and sees the first of a read.
LEMMA TriggerReplays ==
  ASSUME NEW data, NEW first, first = Head(data)
  PROVE  /\ first \in TriggerMessageType => ReplayTrigger(data) = <<"action_trigger", first.action, first.seq>>
         /\ first \in CameraMessageType => ReplayTrigger(data) = <<"camera_control", first.level, first.seq>>
<1>1. first \in TriggerMessageType => first.type = "ActionTrigger"
  BY DEF TriggerMessageType
<1>2. first \in CameraMessageType => first.type = "CameraControl"
  BY DEF CameraMessageType
<1>3. first.type = "ActionTrigger" => VtableSize(first) = 8
  BY DEF VtableSize
<1>4. first.type = "CameraControl" => VtableSize(first) = 14
  BY DEF VtableSize
<1> QED  BY <1>1, <1>2, <1>3, <1>4 DEF ReplayTrigger

\* A message that is sent alone is the first of what is recorded.
LEMMA Alone == \A m : Head(<<m>>) = m
  OBVIOUS

\* One end records what replay will make of it; it runs, so its recorder does too.
LEMMA RecordKeeps ==
  ASSUME RecorderInv, KeptInv, NEW end, NEW category, NEW payload, NEW acted, Record(end, category, payload, acted),
         category = rec.category => Replayed(payload) = acted,
         end = "console" \/ robot.running
  PROVE  KeptOk'
<1>1. KeptOk /\ ShutdownOk
  BY DEF KeptInv
<1>2. CASE end = work.host
  <2>1. Enqueue(category, payload, acted)
    BY <1>2 DEF Record
  <2>2. ~rec.shutdown
    BY <1>1, <1>2 DEF ShutdownOk
  <2> QED  BY <1>1, <2>1, <2>2, EnqueueKeeps
<1>3. CASE end # work.host
  <2>1. UNCHANGED recVars
    BY <1>3 DEF Record
  <2> QED  BY <1>1, <2>1, SwitchesKeep
<1> QED  BY <1>2, <1>3

\* The camera's level is a number.
LEMMA LevelType == ASSUME NEW l \in Int, NEW input \in InputType PROVE LevelAfter(l, input) \in Int
<1>1. input.x \in Int
  BY DEF InputType
<1> QED  BY <1>1 DEF LevelAfter, Bounded

\* An input, ...
LEMMA InputKept == ASSUME SessionInv, RecorderInv, KeptInv, NEW input \in InputType, OnInput(input) PROVE KeptOk'
<1>0. KeptOk /\ console.trigger_seq + 1 \in Nat /\ console.camera_seq + 1 \in Nat
  BY DEF KeptInv, SessionInv, ConsoleOk
<1>i. UNCHANGED recVars => KeptOk'
  BY <1>0, SwitchesKeep
<1>1. CASE input.kind = "Action"
  <2>1. SendActionTrigger(input.x) /\ input.x \in Int
    BY <1>1 DEF OnInput, InputType
  <2> DEFINE s == console.trigger_seq + 1
             m == TriggerMessage(input.x, s)
  <2>2. m.seq = s /\ m \in TriggerMessageType /\ m.action = input.x
    BY <2>1, <1>0 DEF TriggerMessage, TriggerMessageType
  <2>3. UNCHANGED recVars \/ Record("console", "ActionTriggerC", <<m>>, <<"action_trigger", input.x, m.seq>>)
    BY <2>1 DEF SendActionTrigger
  <2> HIDE DEF m
  <2> DEFINE acted == <<"action_trigger", input.x, m.seq>>
  <2>4. ReplayTrigger(<<m>>) = acted
    BY <2>2, TriggerReplays, Alone
  <2>5. "ActionTriggerC" = rec.category => Replayed(<<m>>) = acted
    BY <2>4 DEF Replayed
  <2> HIDE DEF acted
  <2>6. UNCHANGED recVars \/ Record("console", "ActionTriggerC", <<m>>, acted)
    BY <2>3 DEF acted
  <2> QED  BY <2>5, <2>6, <1>i, RecordKeeps
<1>2. CASE input.kind \in {"Camera", "CameraReset"}
  <2> DEFINE l == LevelAfter(console.level, input)
             s == console.camera_seq + 1
             m == CameraMessage(l, s)
  <2>1. SendCameraControl(l)
    BY <1>2 DEF OnInput
  <2>l. l \in Int
    BY LevelType DEF SessionInv, ConsoleOk
  <2> HIDE DEF l
  <2>2. m.seq = s /\ m \in CameraMessageType /\ m.level = l
    BY <2>l, <1>0 DEF CameraMessage, CameraMessageType
  <2>3. UNCHANGED recVars \/ Record("console", "ActionTriggerC", <<m>>, <<"camera_control", l, m.seq>>)
    BY <2>1 DEF SendCameraControl
  <2> HIDE DEF m
  <2> DEFINE acted == <<"camera_control", l, m.seq>>
  <2>4. ReplayTrigger(<<m>>) = acted
    BY <2>2, TriggerReplays, Alone
  <2>5. "ActionTriggerC" = rec.category => Replayed(<<m>>) = acted
    BY <2>4 DEF Replayed
  <2> HIDE DEF acted
  <2>6. UNCHANGED recVars \/ Record("console", "ActionTriggerC", <<m>>, acted)
    BY <2>3 DEF acted
  <2> QED  BY <2>5, <2>6, <1>i, RecordKeeps
<1>3. CASE input.kind = "ToggleRecording"
  <2>1. SetActive \/ UNCHANGED recVars
    BY <1>3 DEF OnInput
  <2> QED  BY <2>1, <1>0, SwitchesKeep
<1>4. CASE input.kind \notin {"Action", "Camera", "CameraReset", "ToggleRecording"}
  <2>1. UNCHANGED recVars
    BY <1>4 DEF OnInput
  <2> QED  BY <2>1, <1>i
<1> QED  BY <1>1, <1>2, <1>3, <1>4

\* ... what the robot reads of the operator's, ...
LEMMA ReadsKept == ASSUME SessionInv, RecorderInv, KeptInv, RobotReadsTrigger \/ RobotReadsCamera PROVE KeptOk'
<1> DEFINE u == up
<1>0. KeptOk /\ u = up /\ u.trigger \in Seq(TriggerMessageType) /\ u.camera \in Seq(CameraMessageType)
  BY DEF KeptInv, SessionInv, UpOk
<1> HIDE DEF u
<1>i. UNCHANGED recVars => KeptOk'
  BY <1>0, SwitchesKeep
<1>l. robot.running
  BY DEF RobotReadsTrigger, RobotReadsCamera, Live, Served
<1>1. CASE RobotReadsTrigger
  <2>1. PICK n \in 1..Len(u.trigger) :
          UNCHANGED recVars \/ LET data == SubSeq(u.trigger, 1, n)
                                   first == Head(data)
                               IN  Record("robot", "ActionTriggerC", data, <<"action_trigger", first.action, first.seq>>)
    BY <1>1, <1>0 DEF RobotReadsTrigger, ReadUp
  <2> DEFINE q == u.trigger
             data == SubSeq(q, 1, n)
             first == Head(data)
             acted == <<"action_trigger", first.action, first.seq>>
  <2>2. UNCHANGED recVars \/ Record("robot", "ActionTriggerC", data, acted)
    BY <2>1
  <2>3. q \in Seq(TriggerMessageType) /\ n \in 1..Len(q)
    BY <1>0, <2>1
  <2> HIDE DEF q
  <2>4. first \in TriggerMessageType
    BY <2>3, ReadFacts
  <2> HIDE DEF data
  <2>f. first = Head(data)
    OBVIOUS
  <2> HIDE DEF first
  <2>5. ReplayTrigger(data) = acted
    BY <2>4, <2>f, TriggerReplays
  <2> HIDE DEF acted
  <2>6. "ActionTriggerC" = rec.category => Replayed(data) = acted
    BY <2>5 DEF Replayed
  <2> QED  BY <2>2, <2>6, <1>i, <1>l, RecordKeeps
<1>2. CASE RobotReadsCamera
  <2>1. PICK n \in 1..Len(u.camera) :
          UNCHANGED recVars \/ LET data == SubSeq(u.camera, 1, n)
                                   first == Head(data)
                               IN  Record("robot", "ActionTriggerC", data, <<"camera_control", first.level, first.seq>>)
    BY <1>2, <1>0 DEF RobotReadsCamera, ReadUp
  <2> DEFINE q == u.camera
             data == SubSeq(q, 1, n)
             first == Head(data)
             acted == <<"camera_control", first.level, first.seq>>
  <2>2. UNCHANGED recVars \/ Record("robot", "ActionTriggerC", data, acted)
    BY <2>1
  <2>3. q \in Seq(CameraMessageType) /\ n \in 1..Len(q)
    BY <1>0, <2>1
  <2> HIDE DEF q
  <2>4. first \in CameraMessageType
    BY <2>3, ReadFacts
  <2> HIDE DEF data
  <2>f. first = Head(data)
    OBVIOUS
  <2> HIDE DEF first
  <2>5. ReplayTrigger(data) = acted
    BY <2>4, <2>f, TriggerReplays
  <2> HIDE DEF acted
  <2>6. "ActionTriggerC" = rec.category => Replayed(data) = acted
    BY <2>5 DEF Replayed
  <2> QED  BY <2>2, <2>6, <1>i, <1>l, RecordKeeps
<1> QED  BY <1>1, <1>2

\* What replay makes of a frame, by its category.
LEMMA FramesReplay ==
  /\ \A c \in CommandType : "ChannelBCommand" = rec.category => Replayed(EncodeFrame("Command", PackCommand(c))) = ArmOf(c)
  /\ \A p : "ChannelBTelemetry" = rec.category => Replayed(EncodeFrame("Telemetry", p)) = UnpackTelemetry(p)
<1>1. ASSUME NEW c \in CommandType, "ChannelBCommand" = rec.category
      PROVE  Replayed(EncodeFrame("Command", PackCommand(c))) = ArmOf(c)
  <2> DEFINE e == EncodeFrame("Command", PackCommand(c))
  <2>1. ReplayCommand(e) = ArmOf(c)
    BY CommandReplays
  <2> HIDE DEF e
  <2> QED  BY <2>1, <1>1 DEF Replayed, e
<1>2. ASSUME NEW p, "ChannelBTelemetry" = rec.category
      PROVE  Replayed(EncodeFrame("Telemetry", p)) = UnpackTelemetry(p)
  <2> DEFINE e == EncodeFrame("Telemetry", p)
  <2>1. ReplayTelemetry(e) = UnpackTelemetry(p)
    BY DEF ReplayTelemetry, EncodeFrame, DecodeFrame, CategoryByte, CategoryOf
  <2> HIDE DEF e
  <2> QED  BY <2>1, <1>2 DEF Replayed, e
<1> QED  BY <1>1, <1>2

\* ... and what they send each other in datagrams.
LEMMA DatagramsKept ==
  ASSUME SessionInv, RecorderInv, KeptInv,
         SendCommand \/ RobotReceivesCommand \/ SendTelemetry \/ ConsoleReceivesTelemetry
  PROVE  KeptOk'
<1> DEFINE c == console
           d == dgram
           r == robot
<1>0. KeptOk /\ ShutdownOk /\ c = console /\ d = dgram /\ r = robot /\ ConsoleOk(c) /\ DgramOk(d)
  BY DEF KeptInv, SessionInv
<1> HIDE DEF c, d, r
<1>i. UNCHANGED recVars => KeptOk'
  BY <1>0, SwitchesKeep
<1>1. CASE SendCommand
  <2>1. PICK h \in {c.held, Stilled(c.held)} : Record("console", "ChannelBCommand", EncodeFrame("Command", PackCommand(h)), ArmOf(h))
    BY <1>1, <1>0 DEF SendCommand
  <2>2. h \in CommandType
    <3> DEFINE g == c.held
    <3>1. GoodCommand(g)
      BY <1>0 DEF ConsoleOk, GoodCommand
    <3> HIDE DEF g
    <3>2. GoodCommand(Stilled(g))
      BY <3>1, HeldFacts
    <3> QED  BY <2>1, <3>1, <3>2 DEF g, GoodCommand
  <2> DEFINE e == EncodeFrame("Command", PackCommand(h))
             acted == ArmOf(h)
  <2>3. "ChannelBCommand" = rec.category => Replayed(e) = acted
    BY <2>2, FramesReplay
  <2>4. Record("console", "ChannelBCommand", e, acted)
    BY <2>1
  <2> HIDE DEF e, acted
  <2> QED  BY <2>3, <2>4, RecordKeeps
<1>2. CASE RobotReceivesCommand
  <2> DEFINE got == CommandIn(d.datagram)
             e == d.datagram.payload
  <2>1. d # Absent /\ d.to = "robot" /\ robot.running
        /\ (UNCHANGED recVars \/ (got # Absent /\ Record("robot", "ChannelBCommand", e, ArmOf(got))))
    BY <1>2, <1>0 DEF RobotReceivesCommand, Live, Served
  <2> DEFINE m == d.meant
  <2>2. d.datagram = Tag(EncodeFrame("Command", PackCommand(m))) /\ GoodCommand(m)
    <3>1. /\ d = [to |-> "robot", datagram |-> Tag(EncodeFrame("Command", PackCommand(d.meant))), meant |-> d.meant]
          /\ GoodCommand(d.meant)
      BY <1>0, <2>1 DEF DgramOk
    <3> QED  BY <3>1
  <2>3. got = UnpackCommand(PackCommand(m)) /\ e = EncodeFrame("Command", PackCommand(m))
    BY <2>2, ReceivedDatagram DEF Tag
  <2> HIDE DEF got, e, m
  <2>4. m \in CommandType
    BY <2>2 DEF GoodCommand
  <2>5. got # Absent => ArmOf(got) = ArmOf(m)
    BY <2>3, <2>4, CommandArrives DEF ArmOf
  <2> DEFINE acted == ArmOf(got)
  <2>6. got # Absent => ("ChannelBCommand" = rec.category => Replayed(e) = acted)
    BY <2>3, <2>4, <2>5, FramesReplay
  <2>7. UNCHANGED recVars \/ (got # Absent /\ Record("robot", "ChannelBCommand", e, acted))
    BY <2>1
  <2> HIDE DEF acted
  <2> QED  BY <2>1, <2>6, <2>7, <1>i, RecordKeeps
<1>3. CASE SendTelemetry
  <2> DEFINE p == PackTelemetry(r.telemetry)
             e == EncodeFrame("Telemetry", p)
             acted == UnpackTelemetry(p)
  <2>1. robot.serving # "None" /\ Record("robot", "ChannelBTelemetry", e, UnpackTelemetry(e.fields))
    BY <1>3, <1>0 DEF SendTelemetry
  <2>2. e.fields = p
    BY DEF EncodeFrame
  <2>3. "ChannelBTelemetry" = rec.category => Replayed(e) = acted
    BY FramesReplay
  <2>4. Record("robot", "ChannelBTelemetry", e, acted)
    BY <2>1, <2>2
  <2> HIDE DEF e, acted
  <2>5. robot.running
    BY <2>1, <1>0 DEF ShutdownOk
  <2> QED  BY <2>3, <2>4, <2>5, RecordKeeps
<1>4. CASE ConsoleReceivesTelemetry
  <2> DEFINE got == TelemetryIn(d.datagram)
             e == d.datagram.payload
             p == PackTelemetry(d.meant)
  <2>1. d # Absent /\ d.to = "console" /\ (UNCHANGED recVars \/ Record("console", "ChannelBTelemetry", e, got))
    BY <1>4, <1>0 DEF ConsoleReceivesTelemetry
  <2>2. d.datagram = Tag(EncodeFrame("Telemetry", p))
    <3>1. d = [to |-> "console", datagram |-> Tag(EncodeFrame("Telemetry", PackTelemetry(d.meant))), meant |-> d.meant]
      BY <1>0, <2>1 DEF DgramOk
    <3> QED  BY <3>1
  <2> HIDE DEF p
  <2>3. got = UnpackTelemetry(p) /\ e = EncodeFrame("Telemetry", p)
    BY <2>2, ReceivedDatagram DEF Tag
  <2> HIDE DEF got, e
  <2>4. "ChannelBTelemetry" = rec.category => Replayed(e) = got
    BY <2>3, FramesReplay
  <2> QED  BY <2>1, <2>4, <1>i, RecordKeeps
<1> QED  BY <1>1, <1>2, <1>3, <1>4

\* The recorder's shutdown changes only with the robot's process.
LEMMA ShutdownMoves ==
  ASSUME RecorderInv
  PROVE  /\ UNCHANGED recVars \/ SetActive \/ WriterStep \/ StepClockBack => rec'.shutdown = rec.shutdown
         /\ \A end, category, payload, acted : Record(end, category, payload, acted) => rec'.shutdown = rec.shutdown
         /\ RestartRecorder => ~rec'.shutdown
<1> DEFINE r == rec
<1>0. r \in [category : {r.category}, active : BOOLEAN, ring : {r.ring}, shutdown : BOOLEAN, pushed : Nat] /\ r = rec
  BY DEF RecorderInv
<1> HIDE DEF r
<1>1. UNCHANGED recVars => rec'.shutdown = rec.shutdown
  BY DEF recVars
<1>2. SetActive => rec'.shutdown = rec.shutdown
  BY <1>0 DEF SetActive
<1>3. WriterStep => rec'.shutdown = rec.shutdown
  BY <1>0 DEF WriterStep, Drain, Check, WriteRecord, EndBatch
<1>4. StepClockBack => rec'.shutdown = rec.shutdown
  BY DEF StepClockBack
<1>5. ASSUME NEW end, NEW category, NEW payload, NEW acted, Record(end, category, payload, acted)
      PROVE  rec'.shutdown = rec.shutdown
  <2>1. CASE UNCHANGED recVars
    BY <2>1, <1>1
  <2>2. CASE \E record : rec' = Push(r, record)
    <3>1. PICK record : rec' = Push(r, record)
      BY <2>2
    <3> DEFINE q == Append(IF Len(r.ring) >= RingCapacity THEN Tail(r.ring) ELSE r.ring, record)
               x == [r EXCEPT !.ring = q]
    <3>2. rec' = [x EXCEPT !.pushed = record.id]
      BY <3>1 DEF Push
    <3> HIDE DEF q
    <3>3. x \in [category : {r.category}, active : BOOLEAN, ring : {q}, shutdown : {r.shutdown}, pushed : Nat]
      BY <1>0
    <3> HIDE DEF x
    <3> QED  BY <3>2, <3>3, <1>0
  <2> QED  BY <1>5, <2>1, <2>2, <1>0 DEF Record, Enqueue
<1>6. RestartRecorder => ~rec'.shutdown
  <2> DEFINE x == [r EXCEPT !.ring = <<>>]
  <2>1. RestartRecorder => rec' = [x EXCEPT !.shutdown = FALSE]
    BY <1>0 DEF RestartRecorder
  <2>2. x \in [category : {r.category}, active : BOOLEAN, ring : {<<>>}, shutdown : BOOLEAN, pushed : Nat]
    BY <1>0
  <2> HIDE DEF x
  <2> QED  BY <2>1, <2>2
<1> QED  BY <1>1, <1>2, <1>3, <1>4, <1>5, <1>6

\* A robot that does not run serves nobody.
LEMMA NotServing == ASSUME RobotOk(robot), ShutdownOk PROVE (robot.serving # "None" => robot.running) /\ (Live => robot.running)
  BY DEF ShutdownOk, Live, Served

\* A new session runs.
LEMMA NewRuns ==
  /\ \A s : NewSession(s).running /\ NewSession(s).serving = s
  /\ ~[NewSession("None") EXCEPT !.running = FALSE].running /\ [NewSession("None") EXCEPT !.running = FALSE].serving = "None"
  BY DEF NewSession

\* The recorder is only shut down by the end of its process.
LEMMA ShutdownStep == ASSUME SessionInv, RecorderInv, KeptInv, [Next]_vars PROVE ShutdownOk'
<1> DEFINE r == robot
<1>0. RobotOk(r) /\ r = robot /\ ShutdownOk /\ (robot.serving # "None" => robot.running) /\ (Live => robot.running)
  BY NotServing DEF SessionInv, KeptInv
<1>d. r \in [running : BOOLEAN, serving : {r.serving}, phase : {r.phase}, hello_sent : {r.hello_sent}, negotiated : {r.negotiated},
             selected : {r.selected}, trigger_seq : {r.trigger_seq}, camera_seq : {r.camera_seq}, missed : {r.missed},
             cmd : {r.cmd}, telemetry : {r.telemetry}]
  BY DEF RobotOk, SessionInv
<1> HIDE DEF r
<1>k. ASSUME work' = work, rec'.shutdown = rec.shutdown, robot' = robot \/ (robot'.running /\ robot.running) PROVE ShutdownOk'
  BY <1>k, <1>0 DEF ShutdownOk
<1>a. Abandoned = robot \/ (Abandoned.running /\ robot.running)
  BY <1>0, <1>d DEF Abandoned
<1>1. CASE \/ Connect \/ ResumeEstablishes \/ ResumeFails \/ CancelAttempt \/ Establish \/ HelloAgain \/ SaveTicket
           \/ ConsoleTimesOut \/ LinkDown \/ LinkUp
  <2>1. UNCHANGED recVars /\ work' = work /\ (robot' = robot \/ robot' = Abandoned)
    BY <1>1 DEF Connect, ResumeEstablishes, ResumeFails, CancelAttempt, Establish, HelloAgain, SaveTicket, ConsoleTimesOut,
                LinkDown, LinkUp
  <2> QED  BY <2>1, <1>k, <1>a, ShutdownMoves
<1>2. CASE RobotAccept \/ RobotAcceptStray
  <2>1. UNCHANGED recVars /\ work' = work /\ robot.running /\ \E s : robot' = NewSession(s)
    BY <1>2 DEF RobotAccept, RobotAcceptStray, StartsSession
  <2> QED  BY <2>1, <1>k, NewRuns, ShutdownMoves
<1>3. CASE RobotSessionEnds
  <2>1. UNCHANGED recVars /\ work' = work /\ robot' = NewSession("None") /\ robot.serving # "None"
    BY <1>3 DEF RobotSessionEnds
  <2> QED  BY <2>1, <1>0, <1>k, NewRuns, ShutdownMoves
<1>4. CASE RobotAdopts
  <2>1. UNCHANGED recVars /\ work' = work /\ robot' = [r EXCEPT !.serving = "Current"] /\ robot.running
    BY <1>4, <1>0 DEF RobotAdopts
  <2>2. robot'.running = r.running
    BY <2>1, <1>d
  <2> QED  BY <2>1, <2>2, <1>0, <1>k, ShutdownMoves
<1>5. CASE RobotStops
  <2>1. work' = work /\ robot' = [NewSession("None") EXCEPT !.running = FALSE]
        /\ (work.host = "robot" \/ UNCHANGED recVars) /\ robot.running
    BY <1>5 DEF RobotStops
  <2>2. UNCHANGED recVars => rec'.shutdown = rec.shutdown
    BY ShutdownMoves
  <2> QED  BY <2>1, <2>2, <1>0, NewRuns DEF ShutdownOk
<1>6. CASE RobotStarts
  <2>1. work' = work /\ robot' = NewSession("None") /\ (IF work.host = "robot" THEN RestartRecorder ELSE UNCHANGED recVars)
    BY <1>6 DEF RobotStarts
  <2>2. UNCHANGED recVars => rec'.shutdown = rec.shutdown
    BY ShutdownMoves
  <2>3. RestartRecorder => ~rec'.shutdown
    BY ShutdownMoves
  <2> QED  BY <2>1, <2>2, <2>3, <1>0, NewRuns DEF ShutdownOk
<1>7. CASE \/ ConsoleReadsHello \/ ConsoleReadsDescribe \/ PadEvent \/ PadRefresh
           \/ CameraRead \/ CameraSpawn \/ CameraChanged \/ CameraFails \/ LoseDatagram
  <2>1. UNCHANGED recVars /\ work' = work /\ robot' = robot
    BY <1>7 DEF ConsoleReadsHello, ConsoleReadsDescribe, PadEvent, PadRefresh,
                CameraRead, CameraSpawn, CameraChanged, CameraFails, LoseDatagram
  <2> QED  BY <2>1, <1>k, ShutdownMoves
<1>8. CASE RobotReadsHello \/ RobotReadsAccept \/ BridgeReports
  <2>1. UNCHANGED recVars /\ work' = work /\ robot.running
    BY <1>8, <1>0 DEF RobotReadsHello, RobotReadsAccept, BridgeReports
  <2>2. robot' = r \/ robot'.running = r.running
    <3>1. CASE RobotReadsHello
      <4>1. PICK n : \/ robot' = r \/ robot' = [r EXCEPT !.serving = "Stale"]
                     \/ robot' = [r EXCEPT !.phase = "AwaitingSessionAccept", !.hello_sent = TRUE, !.negotiated = n]
        BY <3>1, <1>0 DEF RobotReadsHello
      <4> QED  BY <4>1, <1>d
    <3>2. CASE RobotReadsAccept
      <4>1. PICK s : robot' = [r EXCEPT !.phase = "Operating", !.selected = s]
        BY <3>2, <1>0 DEF RobotReadsAccept
      <4> QED  BY <4>1, <1>d
    <3>3. CASE BridgeReports
      <4>1. PICK t : robot' = [r EXCEPT !.telemetry = t]
        BY <3>3, <1>0 DEF BridgeReports
      <4> QED  BY <4>1, <1>d
    <3> QED  BY <1>8, <3>1, <3>2, <3>3
  <2> QED  BY <2>1, <2>2, <1>0, <1>k, ShutdownMoves
<1>9. CASE PressKey \/ TakeInput
  <2>1. work' = work /\ robot' = robot
    BY <1>9 DEF PressKey, TakeInput
  <2>2. UNCHANGED recVars \/ \E input : OnInput(input)
    BY <1>9 DEF PressKey, TakeInput
  <2>3. \/ UNCHANGED recVars \/ SetActive
        \/ \E end, category, payload, acted : Record(end, category, payload, acted)
    <3>1. ASSUME NEW input, OnInput(input)
          PROVE  \/ UNCHANGED recVars \/ SetActive
                 \/ \E end, category, payload, acted : Record(end, category, payload, acted)
      <4>1. CASE input.kind = "Action"
        <5>1. SendActionTrigger(input.x)
          BY <3>1, <4>1 DEF OnInput
        <5> QED  BY <5>1 DEF SendActionTrigger
      <4>2. CASE input.kind \in {"Camera", "CameraReset"}
        <5>1. SendCameraControl(LevelAfter(console.level, input))
          BY <3>1, <4>2 DEF OnInput
        <5> QED  BY <5>1 DEF SendCameraControl
      <4>3. CASE input.kind \notin {"Action", "Camera", "CameraReset"}
        BY <3>1, <4>3 DEF OnInput
      <4> QED  BY <4>1, <4>2, <4>3
    <3> QED  BY <2>2, <3>1
  <2> QED  BY <2>1, <2>3, <1>k, ShutdownMoves
<1>10. CASE \/ RobotReadsTrigger \/ RobotReadsCamera \/ SendCommand \/ RobotReceivesCommand \/ SendTelemetry
            \/ ConsoleReceivesTelemetry
  <2>1. work' = work
    BY <1>10 DEF RobotReadsTrigger, RobotReadsCamera, SendCommand, RobotReceivesCommand, SendTelemetry, ConsoleReceivesTelemetry
  <2>2. robot' = robot \/ (robot'.running /\ robot.running)
    <3>1. CASE RobotReadsTrigger
      <4>1. PICK s : Live /\ (robot' = r \/ robot' = [r EXCEPT !.trigger_seq = s])
        BY <3>1, <1>0 DEF RobotReadsTrigger
      <4> QED  BY <4>1, <1>0, <1>d
    <3>2. CASE RobotReadsCamera
      <4>1. PICK s, m : Live /\ robot' = [r EXCEPT !.camera_seq = s, !.missed = m]
        BY <3>2, <1>0 DEF RobotReadsCamera
      <4> QED  BY <4>1, <1>0, <1>d
    <3>3. CASE RobotReceivesCommand
      <4>1. PICK s : Live /\ (robot' = r \/ robot' = [r EXCEPT !.cmd = s])
        BY <3>3, <1>0 DEF RobotReceivesCommand
      <4> QED  BY <4>1, <1>0, <1>d
    <3>4. CASE SendCommand \/ SendTelemetry \/ ConsoleReceivesTelemetry
      BY <3>4 DEF SendCommand, SendTelemetry, ConsoleReceivesTelemetry
    <3> QED  BY <1>10, <3>1, <3>2, <3>3, <3>4
  <2>3. UNCHANGED recVars \/ \E end, category, payload, acted : Record(end, category, payload, acted)
    <3>1. CASE RobotReadsTrigger
      BY <3>1 DEF RobotReadsTrigger
    <3>2. CASE RobotReadsCamera
      BY <3>2 DEF RobotReadsCamera
    <3>3. CASE SendCommand
      BY <3>3 DEF SendCommand
    <3>4. CASE RobotReceivesCommand
      BY <3>4 DEF RobotReceivesCommand
    <3>5. CASE SendTelemetry
      BY <3>5 DEF SendTelemetry
    <3>6. CASE ConsoleReceivesTelemetry
      BY <3>6 DEF ConsoleReceivesTelemetry
    <3> QED  BY <1>10, <3>1, <3>2, <3>3, <3>4, <3>5, <3>6
  <2> QED  BY <2>1, <2>2, <2>3, <1>k, ShutdownMoves
<1>11. CASE RecorderSteps
  <2>1. work' = work /\ robot' = robot /\ (WriterStep \/ StepClockBack)
    BY <1>11 DEF RecorderSteps
  <2> QED  BY <2>1, <1>k, ShutdownMoves
<1>12. CASE UNCHANGED vars
  <2>1. work' = work /\ robot' = robot /\ UNCHANGED recVars
    BY <1>12 DEF vars
  <2> QED  BY <2>1, <1>k, ShutdownMoves
<1> QED  BY <1>1, <1>2, <1>3, <1>4, <1>5, <1>6, <1>7, <1>8, <1>9, <1>10, <1>11, <1>12 DEF Next

\* Every step keeps the account of the records.
LEMMA KeptStep == ASSUME SessionInv, RecorderInv, KeptInv, [Next]_vars PROVE KeptInv'
<1>0. KeptOk /\ ShutdownOk'
  BY ShutdownStep DEF KeptInv
<1>i. UNCHANGED recVars \/ DropRecorder \/ SetActive \/ StepClockBack => KeptOk'
  BY <1>0, SwitchesKeep
<1>1. CASE PressKey \/ TakeInput
  <2>1. CASE PressKey
    <3>1. PICK key \in work.keys : OnInput(KeyInput[key])
      BY <2>1 DEF PressKey
    <3>2. key \in DOMAIN KeyInput
      BY <3>1, Devices DEF SessionInv, BudgetInv
    <3>3. KeyInput[key] \in InputType
      BY <3>2, KeyInputs
    <3> DEFINE input == KeyInput[key]
    <3>4. input \in InputType /\ OnInput(input)
      BY <3>1, <3>3
    <3> HIDE DEF input
    <3> QED  BY <3>4, <1>0, InputKept DEF KeptInv
  <2>2. CASE TakeInput
    <3>1. UNCHANGED recVars \/ (inputs # <<>> /\ OnInput(Head(inputs)))
      BY <2>2 DEF TakeInput
    <3> DEFINE input == Head(inputs)
    <3>2. inputs # <<>> => input \in InputType
      <4>1. inputs \in Seq(InputType)
        BY DEF SessionInv, HandInv
      <4> QED  BY <4>1, HeadTailProperties
    <3>3. UNCHANGED recVars \/ (inputs # <<>> /\ OnInput(input))
      BY <3>1
    <3> HIDE DEF input
    <3> QED  BY <3>2, <3>3, <1>0, <1>i, InputKept DEF KeptInv
  <2> QED  BY <1>1, <2>1, <2>2, <1>0 DEF KeptInv
<1>2. CASE RobotReadsTrigger \/ RobotReadsCamera
  BY <1>2, <1>0, ReadsKept DEF KeptInv
<1>3. CASE SendCommand \/ RobotReceivesCommand \/ SendTelemetry \/ ConsoleReceivesTelemetry
  BY <1>3, <1>0, DatagramsKept DEF KeptInv
<1>4. CASE RobotStops
  <2>1. CrashRecorder \/ DropRecorder \/ UNCHANGED recVars
    BY <1>4 DEF RobotStops
  <2> QED  BY <2>1, <1>0, <1>i, CrashKeeps DEF KeptInv
<1>5. CASE RobotStarts
  <2>1. RestartRecorder \/ UNCHANGED recVars
    BY <1>5 DEF RobotStarts
  <2> QED  BY <2>1, <1>0, <1>i, RestartKeeps DEF KeptInv
<1>6. CASE RecorderSteps
  <2>1. Drain \/ Check \/ WriteRecord \/ EndBatch \/ StepClockBack
    BY <1>6 DEF RecorderSteps, WriterStep
  <2> QED  BY <2>1, <1>0, <1>i, DrainKeeps, WriterKeeps, WriteKeeps DEF KeptInv
<1>7. CASE \/ Connect \/ ResumeEstablishes \/ ResumeFails \/ CancelAttempt \/ Establish \/ HelloAgain \/ SaveTicket
           \/ ConsoleTimesOut \/ RobotAccept \/ RobotAcceptStray \/ RobotAdopts \/ RobotSessionEnds \/ LinkDown \/ LinkUp
  <2>1. UNCHANGED recVars
    BY <1>7 DEF Connect, ResumeEstablishes, ResumeFails, CancelAttempt, Establish, HelloAgain, SaveTicket, ConsoleTimesOut,
                RobotAccept, RobotAcceptStray, RobotAdopts, RobotSessionEnds, LinkDown, LinkUp
  <2> QED  BY <2>1, <1>0, <1>i DEF KeptInv
<1>8. CASE \/ RobotReadsHello \/ ConsoleReadsHello \/ ConsoleReadsDescribe \/ RobotReadsAccept \/ PadEvent \/ PadRefresh
           \/ CameraRead \/ CameraSpawn \/ CameraChanged \/ CameraFails \/ BridgeReports \/ LoseDatagram
  <2>1. UNCHANGED recVars
    BY <1>8 DEF RobotReadsHello, ConsoleReadsHello, ConsoleReadsDescribe, RobotReadsAccept, PadEvent, PadRefresh,
                CameraRead, CameraSpawn, CameraChanged, CameraFails, BridgeReports, LoseDatagram
  <2> QED  BY <2>1, <1>0, <1>i DEF KeptInv
<1>9. UNCHANGED vars => UNCHANGED recVars
  BY DEF vars
<1> QED  BY <1>0, <1>1, <1>2, <1>3, <1>4, <1>5, <1>6, <1>7, <1>8, <1>9, <1>i DEF Next, KeptInv

\* At first there is nothing to account for.
LEMMA InitKept == Init => KeptInv
<1> SUFFICES ASSUME Init PROVE KeptInv
  OBVIOUS
<1> DEFINE b == StartsActive(work.host, work.category)
<1>1. RecordingInit(work.category, b) /\ robot = NewSession("None")
  BY DEF Init
<1> HIDE DEF b
<1>2. /\ rec = [category |-> work.category, active |-> b, ring |-> <<>>, shutdown |-> FALSE, pushed |-> 0]
      /\ writer = [at |-> "Drain", batch |-> <<>>, segment |-> Absent, size |-> 0]
      /\ DOMAIN disk = {} /\ clock = [now |-> 0, stepped |-> FALSE]
      /\ fate = [dropped |-> {}, deleted |-> {}, lost |-> {}, late |-> {}]
  BY <1>1 DEF RecordingInit, NewCategory, NewWriter
<1>3. rec.ring = <<>> /\ ~rec.shutdown /\ rec.pushed = 0 /\ writer.at = "Drain" /\ writer.batch = <<>> /\ writer.segment = Absent
  BY <1>2
<1>4. fate.dropped = {} /\ fate.deleted = {} /\ fate.lost = {}
  BY <1>2
<1>5. Waiting(rec, writer) = {} /\ OnDisk(disk) = {} /\ 1..0 = {}
  BY <1>2, <1>3, NothingWaits DEF Waiting, OnDisk
<1>6. Accounted(rec, writer, disk, fate)
  BY <1>3, <1>4, <1>5, NothingWaits DEF Accounted
<1>7. InLine(rec, writer, disk)
  BY <1>2, <1>3, <1>5, NothingWaits DEF InLine
<1>8. Flushed(writer, disk)
  BY <1>2, FS_EmptySet DEF Flushed
<1>9. LateOnly(rec, writer, fate)
  BY <1>3 DEF LateOnly
<1>10. Truthful(rec, writer, disk)
  BY <1>5 DEF Truthful
<1>11. OnTime(rec, writer, disk, clock.now, fate)
  BY <1>2, <1>3, <1>4, <1>5, NothingWaits DEF OnTime
<1>12. robot.running
  BY <1>1 DEF NewSession
<1> QED  BY <1>3, <1>6, <1>7, <1>8, <1>9, <1>10, <1>11, <1>12 DEF KeptInv, KeptOk, ShutdownOk

-----------------------------------------------------------------------------
(* What replay reads.                                                      *)

\* One run of records after another.
LEMMA FollowFacts ==
  ASSUME NEW S, NEW s \in Seq(S), NEW t \in Seq(S)
  PROVE  /\ Elements(s \o t) = Elements(s) \cup Elements(t)
         /\ Ascending(s) /\ Ascending(t) /\ (\A a \in Elements(s), b \in Elements(t) : a.id < b.id) => Ascending(s \o t)
<1> DEFINE u == s \o t
           m == Len(s)
           n == Len(t)
<1>1. m \in Nat /\ n \in Nat /\ Len(u) = m + n
  BY ConcatProperties
<1>2. \A i \in 1..(m + n) : u[i] = IF i <= m THEN s[i] ELSE t[i - m]
  BY ConcatProperties
<1>3. \A i \in 1..m : s[i] \in Elements(s)
  BY DEF Elements
<1>4. \A i \in 1..n : t[i] \in Elements(t)
  BY DEF Elements
<1>a. Ascending(s) => \A i, j \in 1..m : i < j => s[i].id < s[j].id
  BY DEF Ascending
<1>b. Ascending(t) => \A i, j \in 1..n : i < j => t[i].id < t[j].id
  BY DEF Ascending
<1> HIDE DEF u, m, n
<1>5. \A i \in 1..(m + n) : IF i <= m THEN i \in 1..m /\ u[i] = s[i] ELSE i - m \in 1..n /\ u[i] = t[i - m]
  BY <1>1, <1>2
<1>6. Elements(u) = Elements(s) \cup Elements(t)
  <2>1. \A i \in 1..Len(u) : u[i] \in Elements(s) \cup Elements(t)
    BY <1>1, <1>3, <1>4, <1>5
  <2>2. ASSUME NEW i \in 1..m PROVE s[i] \in Elements(u)
    <3>1. i \in 1..(m + n) /\ i <= m
      BY <1>1
    <3> QED  BY <3>1, <1>1, <1>5 DEF Elements
  <2>3. ASSUME NEW i \in 1..n PROVE t[i] \in Elements(u)
    <3>1. m + i \in 1..(m + n) /\ ~(m + i <= m) /\ (m + i) - m = i
      BY <1>1
    <3>2. u[m + i] = t[i]
      BY <3>1, <1>5
    <3> QED  BY <3>1, <3>2, <1>1 DEF Elements
  <2>4. Elements(s) = {s[i] : i \in 1..m} /\ Elements(t) = {t[i] : i \in 1..n}
    BY DEF Elements, m, n
  <2>5. Elements(u) \subseteq Elements(s) \cup Elements(t)
    BY <2>1 DEF Elements
  <2> QED  BY <2>2, <2>3, <2>4, <2>5
<1>7. ASSUME Ascending(s), Ascending(t), \A a \in Elements(s), b \in Elements(t) : a.id < b.id
      PROVE  Ascending(u)
  <2>1. ASSUME NEW i \in 1..(m + n), NEW j \in 1..(m + n), i < j PROVE u[i].id < u[j].id
    <3>0. i \in Nat /\ j \in Nat
      BY <1>1
    <3>1. CASE j <= m
      <4>1. i <= m
        BY <3>0, <3>1, <2>1, <1>1
      <4> QED  BY <4>1, <3>1, <2>1, <1>5, <1>7, <1>a
    <3>2. CASE i <= m /\ ~(j <= m)
      BY <3>2, <1>3, <1>4, <1>5, <1>7
    <3>3. CASE ~(i <= m)
      <4>1. ~(j <= m) /\ i - m < j - m
        BY <3>0, <3>3, <2>1, <1>1
      <4> QED  BY <4>1, <3>3, <1>5, <1>7, <1>b
    <3> QED  BY <3>1, <3>2, <3>3
  <2> QED  BY <2>1, <1>1 DEF Ascending
<1> QED  BY <1>6, <1>7 DEF u

\* Runs of records, each in order and each after the ones before it.
InOrder(q) ==
  /\ \A i \in 1..Len(q) : Ascending(q[i])
  /\ \A i, j \in 1..Len(q) : i < j => \A a \in Elements(q[i]), b \in Elements(q[j]) : a.id < b.id

\* Runs that are in order stay so when they are read one after the other, and what is read is what
\* they hold.
LEMMA FlattenFacts ==
  ASSUME NEW S, NEW q \in Seq(Seq(S))
  PROVE  /\ \A a \in Elements(FlattenSeq(q)) : \E i \in 1..Len(q) : a \in Elements(q[i])
         /\ \A i \in 1..Len(q) : Elements(q[i]) \subseteq Elements(FlattenSeq(q))
         /\ InOrder(q) => Ascending(FlattenSeq(q))
<1>1. CASE q = <<>>
  <2>1. FlattenSeq(q) = <<>>
    BY <1>1 DEF FlattenSeq
  <2>2. \A i \in 1..Len(q) : FALSE
    BY <1>1
  <2> QED  BY <2>1, <2>2, NothingWaits DEF InOrder
<1>2. CASE q # <<>>
  <2>1. PICK r \in [1..Len(q) -> Seq(S)] :
           /\ r[1] = q[1]
           /\ \A n \in 2..Len(q) : r[n] = r[n - 1] \o q[n]
           /\ FlattenSeq(q) = r[Len(q)]
    BY <1>2, FlattenRun
  <2>l. Len(q) \in Nat /\ Len(q) > 0 /\ 1 \in 1..Len(q) /\ Len(q) \in 1..Len(q) /\ \A i \in 1..Len(q) : q[i] \in Seq(S)
    BY <1>2
  <2> DEFINE From(n) == \A a \in Elements(r[n]) : \E i \in 1..n : a \in Elements(q[i])
             Into(n) == \A i \in 1..n : Elements(q[i]) \subseteq Elements(r[n])
             Good(n) == From(n) /\ Into(n) /\ (InOrder(q) => Ascending(r[n]))
             T == {n \in Nat : n + 1 \in 1..Len(q) => Good(n + 1)}
  <2>2. 0 \in T
    <3>1. Elements(r[1]) = Elements(q[1]) /\ 1 \in 1..1
      BY <2>1
    <3>2. InOrder(q) => Ascending(r[1])
      BY <2>1, <2>l DEF InOrder
    <3>i. Into(1)
      BY <3>1
    <3>3. Good(1)
      BY <3>1, <3>2, <3>i
    <3> HIDE DEF Good
    <3> QED  BY <3>3
  <2>3. ASSUME NEW n \in T PROVE n + 1 \in T
    <3>1. CASE (n + 1) + 1 \in 1..Len(q)
      <4> DEFINE k == n + 1
                 m == k + 1
                 s == r[k]
                 t == q[m]
      <4>1. k \in 1..Len(q) /\ m \in 2..Len(q) /\ m \in 1..Len(q) /\ m - 1 = k /\ k \in Nat /\ n \in Nat /\ k \in 1..m /\ m \in 1..m
            /\ \A i \in 1..k : i \in 1..m /\ i \in 1..Len(q) /\ i < m
        BY <2>l, <3>1
      <4>2. s \in Seq(S) /\ t \in Seq(S) /\ r[m] = s \o t
        BY <4>1, <2>1, <2>l
      <4>3. Good(k)
        BY <4>1
      <4>g. From(k) /\ Into(k) /\ (InOrder(q) => Ascending(s))
        BY <4>3
      <4>f. \A a \in Elements(s) : \E i \in 1..k : a \in Elements(q[i])
        BY <4>g
      <4>t. \A i \in 1..k : Elements(q[i]) \subseteq Elements(s)
        BY <4>g
      <4>n. \A i \in 1..m : i \in 1..k \/ i = m
        BY <4>1, <2>l
      <4> HIDE DEF k, m, Good, From, Into, T
      <4>i. Into(m)
        <5>1. t = q[m]
          OBVIOUS
        <5> HIDE DEF s, t
        <5>2. Elements(r[m]) = Elements(s) \cup Elements(t)
          BY <4>2, FollowFacts
        <5>3. \A i \in 1..m : Elements(q[i]) \subseteq Elements(r[m])
          BY <5>1, <5>2, <4>t, <4>n
        <5> QED  BY <5>3 DEF Into
      <4>4. From(m)
        <5>1. \A a \in Elements(s) : \E i \in 1..m : a \in Elements(q[i])
          BY <4>1, <4>f
        <5>2. \A a \in Elements(t) : a \in Elements(q[m])
          OBVIOUS
        <5> HIDE DEF s, t
        <5>3. Elements(s \o t) \subseteq Elements(s) \cup Elements(t)
          BY <4>2, FollowFacts
        <5>4. \A a \in Elements(r[m]) : \E i \in 1..m : a \in Elements(q[i])
          BY <5>1, <5>2, <5>3, <4>1, <4>2
        <5> QED  BY <5>4 DEF From
      <4>5. InOrder(q) => Ascending(r[m])
        <5> SUFFICES ASSUME InOrder(q) PROVE Ascending(r[m])
          OBVIOUS
        <5>1. Ascending(s) /\ Ascending(t)
          BY <4>1, <4>g DEF InOrder
        <5>2. \A a \in Elements(s), b \in Elements(t) : a.id < b.id
          BY <4>1, <4>f DEF InOrder
        <5> HIDE DEF s, t
        <5>3. Ascending(s \o t)
          BY <5>1, <5>2, <4>2, FollowFacts
        <5> QED  BY <5>3, <4>2
      <4>6. Good(m)
        BY <4>4, <4>i, <4>5 DEF Good
      <4> QED  BY <4>1, <4>6 DEF T, k, m
    <3>2. CASE (n + 1) + 1 \notin 1..Len(q)
      <4>1. n + 1 \in Nat
        OBVIOUS
      <4> HIDE DEF Good
      <4> QED  BY <3>2, <4>1
    <3> QED  BY <3>1, <3>2
  <2>4. T = Nat
    <3>1. T \subseteq Nat
      OBVIOUS
    <3> HIDE DEF T
    <3> QED  BY <2>2, <2>3, <3>1, NatSetInduction
  <2>5. Good(Len(q))
    <3>1. Len(q) - 1 \in Nat /\ (Len(q) - 1) + 1 = Len(q)
      BY <2>l
    <3> HIDE DEF Good
    <3>2. \A n \in Nat : n + 1 \in 1..Len(q) => Good(n + 1)
      BY <2>4
    <3> QED  BY <3>1, <3>2, <2>l
  <2> QED  BY <2>5, <2>1
<1> QED  BY <1>1, <1>2

\* A segment is read up to a tear, and to its end when nothing is behind the tear.
LEMMA DecodedFacts ==
  ASSUME NEW s, NEW p \in Nat, SegmentShape(s, p), s.torn_at = Absent \/ (s.torn_at \in Nat /\ s.torn_at <= s.synced)
  PROVE  /\ DecodeRecords(s) \in Seq(Elements(s.records) \cup {Garbled})
         /\ s.torn_at \in {Absent, Len(s.records)} /\ ~s.overrun => DecodeRecords(s) = s.records
<1> DEFINE q == s.records
           k == s.torn_at
           E == Elements(q)
           G == {Garbled}
<1>1. Records(q, p) /\ q \in Seq(E) /\ Len(q) \in Nat
  BY RecordsFacts DEF SegmentShape, Records, IsSeq, Elements
<1>2. CASE k = Absent
  <2>1. DecodeRecords(s) = q
    BY <1>2 DEF DecodeRecords
  <2> HIDE DEF q, E, G
  <2>2. q \in Seq(E \cup G)
    BY <1>1
  <2> QED  BY <2>1, <2>2 DEF q, E, G
<1>3. CASE k # Absent
  <2> DEFINE rest == IF s.overrun THEN <<Garbled>> ELSE <<>>
  <2>0. s.synced \in Nat /\ s.synced <= Len(q)
    BY DEF SegmentShape
  <2>1. k \in Nat /\ k <= Len(q)
    BY <1>1, <1>3, <2>0
  <2>2. DecodeRecords(s) = SubSeq(q, 1, k) \o rest
    BY <1>3 DEF DecodeRecords
  <2>3. rest \in Seq(G) /\ (~s.overrun => rest = <<>>)
    <3>1. <<Garbled>> \in Seq({Garbled}) /\ <<>> \in Seq({Garbled})
      <4>1. PICK g : g = Garbled
        OBVIOUS
      <4>2. <<g>> \in Seq({g}) /\ <<>> \in Seq({g})
        OBVIOUS
      <4> QED  BY <4>1, <4>2
    <3>2. CASE s.overrun
      BY <3>1, <3>2
    <3>3. CASE ~s.overrun
      BY <3>1, <3>3
    <3> QED  BY <3>2, <3>3
  <2> HIDE DEF q, k, E, G, rest
  <2>4. SubSeq(q, 1, k) \in Seq(E) /\ (k = Len(q) => SubSeq(q, 1, k) = q)
    BY <1>1, <2>1
  <2>5. SubSeq(q, 1, k) \o rest \in Seq(E \cup G)
    BY <2>3, <2>4
  <2>6. k = Len(q) /\ rest = <<>> => SubSeq(q, 1, k) \o rest = q
    BY <1>1, <2>4
  <2> QED  BY <2>2, <2>3, <2>5, <2>6, <1>3 DEF q, k, E, G
<1> QED  BY <1>2, <1>3

\* Replay reads records that are on disk, and while nobody sets the clock back it reads all of them, in the order of
\* their pushes.
LEMMA ReplayFacts ==
  ASSUME RecorderInv, KeptOk
  PROVE  /\ ReplayRecords \in Seq(OnDisk(disk) \cup {Garbled})
         /\ ~clock.stepped => Elements(ReplayRecords) = OnDisk(disk) /\ Ascending(ReplayRecords)
<1> DEFINE d == disk
           p == rec.pushed
           names == SegmentNames(d)
           S == OnDisk(d) \cup {Garbled}
           q == [i \in 1..Len(names) |-> DecodeRecords(d[names[i]])]
<1>0. /\ d = disk /\ p \in Nat /\ DOMAIN d \subseteq Nat /\ IsFiniteSet(DOMAIN d)
      /\ \A n \in DOMAIN d : SegmentShape(d[n], p)
      /\ \A n \in DOMAIN d : d[n].torn_at = Absent \/ (d[n].torn_at \in Nat /\ d[n].torn_at <= d[n].synced)
      /\ \A n \in DOMAIN d : Ascending(d[n].records)
      /\ ~clock.stepped => \A m, n \in DOMAIN d : m < n =>
           \A a \in Elements(d[m].records), b \in Elements(d[n].records) : a.id < b.id
  BY DEF RecorderInv, KeptOk, Flushed, InLine, OnTime
<1>t. ~clock.stepped => \A n \in DOMAIN d : d[n].torn_at \in {Absent, Len(d[n].records)} /\ ~d[n].overrun
  BY DEF KeptOk, Flushed, OnTime, LeftAlone
<1>1. ReplayRecords = FlattenSeq(q)
  BY DEF ReplayRecords
<1> HIDE DEF d, p
<1>2. PICK k \in Nat : /\ names \in [1..k -> DOMAIN d] /\ Len(names) = k
                       /\ \A i, j \in 1..k : i < j => names[i] < names[j]
                       /\ \A m \in DOMAIN d : \E i \in 1..k : m = names[i]
  BY <1>0, NamesFacts
<1> HIDE DEF names
<1>3. ASSUME NEW n \in DOMAIN d
      PROVE  DecodeRecords(d[n]) \in Seq(S) /\ (~clock.stepped => DecodeRecords(d[n]) = d[n].records)
  <2> DEFINE s == d[n]
             E == Elements(s.records)
             G == {Garbled}
  <2>1. SegmentShape(s, p) /\ (s.torn_at = Absent \/ (s.torn_at \in Nat /\ s.torn_at <= s.synced))
    BY <1>0
  <2>2. E \cup G \subseteq S
    BY DEF OnDisk
  <2>t. ~clock.stepped => s.torn_at \in {Absent, Len(s.records)} /\ ~s.overrun
    BY <1>t
  <2> HIDE DEF s, S
  <2>3. DecodeRecords(s) \in Seq(E \cup G) /\ (~clock.stepped => DecodeRecords(s) = s.records)
    BY <1>0, <2>1, <2>t, DecodedFacts
  <2>4. DecodeRecords(s) \in Seq(S)
    <3> HIDE DEF E, G
    <3> QED  BY <2>2, <2>3
  <2> QED  BY <2>3, <2>4 DEF s
<1>s. S = OnDisk(d) \cup {Garbled}
  OBVIOUS
<1> HIDE DEF S
<1>4. \A i \in 1..k : q[i] = DecodeRecords(d[names[i]]) /\ names[i] \in DOMAIN d
  BY <1>2
<1>5. q \in Seq(Seq(S)) /\ Len(q) = k
  <2>1. q \in [1..k -> Seq(S)]
    BY <1>2, <1>3
  <2> HIDE DEF q
  <2> QED  BY <1>2, <2>1, ArrayIsSeq
<1> HIDE DEF q
<1>6. /\ \A a \in Elements(FlattenSeq(q)) : \E i \in 1..Len(q) : a \in Elements(q[i])
      /\ \A i \in 1..Len(q) : Elements(q[i]) \subseteq Elements(FlattenSeq(q))
      /\ InOrder(q) => Ascending(FlattenSeq(q))
  BY <1>5, FlattenFacts
<1>7. ASSUME ~clock.stepped PROVE Elements(FlattenSeq(q)) = OnDisk(d)
  <2>1. ASSUME NEW i \in 1..k PROVE Elements(q[i]) = Elements(d[names[i]].records) /\ names[i] \in DOMAIN d
    BY <1>3, <1>4, <1>7
  <2>2. ASSUME NEW a \in Elements(FlattenSeq(q)) PROVE a \in OnDisk(d)
    <3>1. PICK i \in 1..k : a \in Elements(q[i])
      BY <1>5, <1>6
    <3> QED  BY <3>1, <2>1 DEF OnDisk
  <2>3. ASSUME NEW a \in OnDisk(d) PROVE a \in Elements(FlattenSeq(q))
    <3>1. PICK n \in DOMAIN d : a \in Elements(d[n].records)
      BY DEF OnDisk
    <3>2. PICK i \in 1..k : n = names[i]
      BY <1>2
    <3> QED  BY <3>1, <3>2, <2>1, <1>5, <1>6
  <2> QED  BY <2>2, <2>3
<1>8. ASSUME ~clock.stepped PROVE InOrder(q)
  <2>1. \A i \in 1..Len(q) : Ascending(q[i])
    BY <1>0, <1>3, <1>4, <1>5, <1>8
  <2>2. ASSUME NEW i \in 1..k, NEW j \in 1..k, i < j, NEW a \in Elements(q[i]), NEW b \in Elements(q[j]) PROVE a.id < b.id
    <3> DEFINE m == names[i]
               n == names[j]
    <3>1. m \in DOMAIN d /\ n \in DOMAIN d /\ m < n /\ q[i] = DecodeRecords(d[m]) /\ q[j] = DecodeRecords(d[n])
      BY <1>2, <1>4, <2>2
    <3> HIDE DEF m, n
    <3>2. a \in Elements(d[m].records) /\ b \in Elements(d[n].records)
      BY <1>3, <1>8, <2>2, <3>1
    <3> QED  BY <1>0, <1>8, <3>1, <3>2
  <2> QED  BY <1>5, <2>1, <2>2 DEF InOrder
<1>9. FlattenSeq(q) \in Seq(S)
  BY <1>5, FlattenType
<1> QED  BY <1>1, <1>6, <1>7, <1>8, <1>9, <1>s DEF d

\* The account gives what is promised of records.
LEMMA KeptGives == RecorderInv /\ KeptInv => RecordsKept
<1> SUFFICES ASSUME RecorderInv, KeptInv PROVE RecordsKept
  OBVIOUS
<1> DEFINE onDisk == UNION {RecordIds(disk[n].records) : n \in DOMAIN disk}
           waiting == RecordIds(rec.ring) \cup RecordIds(writer.batch)
           q == ReplayRecords
           p == rec.pushed
<1>0. KeptOk /\ p \in Nat /\ p = rec.pushed /\ Records(rec.ring, p) /\ Records(writer.batch, p)
      /\ \A n \in DOMAIN disk : Records(disk[n].records, p)
  BY DEF RecorderInv, KeptInv, SegmentShape
<1>k. /\ Accounted(rec, writer, disk, fate) /\ InLine(rec, writer, disk) /\ Flushed(writer, disk) /\ LateOnly(rec, writer, fate)
      /\ Truthful(rec, writer, disk) /\ (~clock.stepped => OnTime(rec, writer, disk, clock.now, fate))
  BY <1>0 DEF KeptOk
<1> HIDE DEF p
<1>1. onDisk = Ids(OnDisk(disk))
  <2>1. ASSUME NEW n \in DOMAIN disk PROVE RecordIds(disk[n].records) = Ids(Elements(disk[n].records))
    <3> DEFINE s == disk[n].records
    <3>1. Records(s, p)
      BY <1>0
    <3> HIDE DEF s
    <3>2. RecordIds(s) = Ids(Elements(s))
      BY <3>1, <1>0, QueueFacts
    <3> QED  BY <3>2 DEF s
  <2>2. \A x \in onDisk : x \in Ids(OnDisk(disk))
    BY <2>1 DEF Ids, OnDisk
  <2>3. \A x \in Ids(OnDisk(disk)) : x \in onDisk
    <3> SUFFICES ASSUME NEW a \in OnDisk(disk) PROVE a.id \in onDisk
      BY DEF Ids
    <3>1. PICK n \in DOMAIN disk : a \in Elements(disk[n].records)
      BY DEF OnDisk
    <3>2. a.id \in RecordIds(disk[n].records)
      BY <2>1, <3>1 DEF Ids
    <3> QED  BY <3>2
  <2> QED  BY <2>2, <2>3
<1>2. waiting = Ids(Waiting(rec, writer)) /\ RecordIds(rec.ring) = Ids(Elements(rec.ring))
  <2> DEFINE r == rec.ring
             b == writer.batch
  <2>1. Records(r, p) /\ Records(b, p)
    BY <1>0
  <2> HIDE DEF r, b
  <2>2. RecordIds(r) = Ids(Elements(r)) /\ RecordIds(b) = Ids(Elements(b))
    BY <2>1, <1>0, QueueFacts
  <2>3. Ids(Elements(r) \cup Elements(b)) = Ids(Elements(r)) \cup Ids(Elements(b))
    BY IdsUnion
  <2> QED  BY <2>2, <2>3 DEF r, b, Waiting
<1>w. waiting = RecordIds(rec.ring) \cup RecordIds(writer.batch)
  OBVIOUS
<1>a. \A a \in OnDisk(disk) \cup Waiting(rec, writer) : a.id \in Nat
  <2> DEFINE r == rec.ring
             b == writer.batch
  <2>1. Records(r, p) /\ Records(b, p)
    BY <1>0
  <2> HIDE DEF r, b
  <2>2. \A a \in Elements(r) \cup Elements(b) : a.id \in Nat
    BY <2>1, <1>0, QueueFacts
  <2>3. ASSUME NEW n \in DOMAIN disk PROVE \A a \in Elements(disk[n].records) : a.id \in Nat
    <3> DEFINE s == disk[n].records
    <3>1. Records(s, p)
      BY <1>0
    <3> HIDE DEF s
    <3> QED  BY <3>1, <1>0, QueueFacts DEF s
  <2> QED  BY <2>2, <2>3 DEF r, b, Waiting, OnDisk
<1>3. q \in Seq(OnDisk(disk) \cup {Garbled}) /\ (~clock.stepped => Elements(q) = OnDisk(disk) /\ Ascending(q))
  BY <1>0, ReplayFacts
<1> HIDE DEF q, onDisk, waiting
<1>4. 1..rec.pushed = onDisk \cup waiting \cup fate.dropped \cup fate.deleted \cup fate.lost
  BY <1>k, <1>1, <1>2 DEF Accounted
<1>5. waiting \cap onDisk = {}
  <2>1. ASSUME NEW a \in OnDisk(disk), NEW b \in Waiting(rec, writer), a.id = b.id PROVE FALSE
    <3>1. a.id < b.id
      BY <1>k DEF InLine
    <3> QED  BY <2>1, <3>1, <1>a
  <2> QED  BY <2>1, <1>1, <1>2 DEF Ids
<1>6. DOMAIN q = 1..Len(q) /\ \A i \in 1..Len(q) : q[i] \in OnDisk(disk) \cup {Garbled}
  BY <1>3
<1>7. \A i \in 1..Len(q) : q[i] = Garbled \/ Replayed(q[i].payload) = q[i].acted
  <2> HIDE DEF Garbled
  <2> QED  BY <1>6, <1>k DEF Truthful
<1>8. ~clock.stepped => RecordIds(q) = onDisk /\ \A i, j \in 1..Len(q) : i < j => q[i].id < q[j].id
  <2>1. RecordIds(q) = Ids(Elements(q))
    BY <1>6 DEF RecordIds, Ids, Elements
  <2> QED  BY <2>1, <1>1, <1>3 DEF Ascending
<1>9. ~clock.stepped => \A x \in fate.deleted, k \in onDisk \cup waiting : x < k
  <2> SUFFICES ASSUME ~clock.stepped, NEW x \in fate.deleted, NEW k \in onDisk \cup waiting PROVE x < k
    OBVIOUS
  <2>1. PICK a \in OnDisk(disk) \cup Waiting(rec, writer) : k = a.id
    BY <1>1, <1>2 DEF Ids
  <2> QED  BY <2>1, <1>k DEF OnTime
<1>10. writer.at = "Exited" => /\ waiting \subseteq fate.late
                               /\ \A n \in DOMAIN disk : disk[n].synced = Len(disk[n].records)
  <2> SUFFICES ASSUME writer.at = "Exited"
               PROVE  waiting \subseteq fate.late /\ \A n \in DOMAIN disk : disk[n].synced = Len(disk[n].records)
    OBVIOUS
  <2>1. Waiting(rec, writer) = Elements(rec.ring) /\ Ids(Elements(rec.ring)) \subseteq fate.late
    BY <1>k, NothingWaits DEF LateOnly, Waiting
  <2> QED  BY <2>1, <1>2, <1>k DEF Flushed
<1>11. RecordsKept <=>
         /\ 1..rec.pushed = onDisk \cup waiting \cup fate.dropped \cup fate.deleted \cup fate.lost
         /\ waiting \cap onDisk = {}
         /\ \A i \in 1..Len(q) : q[i] = Garbled \/ Replayed(q[i].payload) = q[i].acted
         /\ ~clock.stepped => /\ RecordIds(q) = onDisk
                              /\ \A i, j \in 1..Len(q) : i < j => q[i].id < q[j].id
                              /\ \A x \in fate.deleted, k \in onDisk \cup waiting : x < k
         /\ writer.at = "Exited" => /\ waiting \subseteq fate.late
                                    /\ \A n \in DOMAIN disk : disk[n].synced = Len(disk[n].records)
  BY DEF RecordsKept, q, onDisk, waiting
<1> QED  BY <1>4, <1>5, <1>7, <1>8, <1>9, <1>10, <1>11

-----------------------------------------------------------------------------
(* The theorems.                                                           *)

\* The invariant holds at first, ...
LEMMA InitInv == Init => Inv
<1> SUFFICES ASSUME Init PROVE Inv
  OBVIOUS
<1>1. /\ console = NewClient /\ robot = NewSession("None") /\ camera = NoCapture /\ up = NoneUp /\ dgram = Absent
      /\ pad = NewPad /\ inputs = <<>> /\ work \in Workloads /\ left = work.budget
      /\ RecordingInit(work.category, StartsActive(work.host, work.category))
  BY DEF Init
<1>2. ConsoleOk(console) /\ RobotOk(robot) /\ CameraOk(camera) /\ UpOk(up) /\ DgramOk(dgram)
  BY <1>1, NewEnds
<1>3. HandInv
  <2>1. <<0, 0>> \in Axes
    BY DEF Axes
  <2>2. NewPad \in PadType
    BY <2>1 DEF NewPad, PadType
  <2> QED  BY <1>1, <2>2 DEF HandInv
<1>4. BudgetInv
  <2>1. work.budget \in [Faults -> Nat] /\ "hellos" \in Faults /\ up.hello = 0
    BY <1>1, Budgets DEF Faults, NoneUp
  <2>2. left.hellos \in Nat /\ left.hellos = work.budget.hellos
    BY <1>1, <2>1
  <2> QED  BY <1>1, <2>1, <2>2 DEF BudgetInv
<1>5. RecorderInv
  <2> DEFINE b == StartsActive(work.host, work.category)
  <2>1. b \in BOOLEAN
    BY DEF StartsActive
  <2>2. RecordingInit(work.category, b)
    BY <1>1
  <2> HIDE DEF b
  <2>3. /\ rec = [category |-> work.category, active |-> b, ring |-> <<>>, shutdown |-> FALSE, pushed |-> 0]
        /\ writer = [at |-> "Drain", batch |-> <<>>, segment |-> Absent, size |-> 0]
        /\ DOMAIN disk = {} /\ clock = [now |-> 0, stepped |-> FALSE]
        /\ fate = [dropped |-> {}, deleted |-> {}, lost |-> {}, late |-> {}]
    BY <2>2 DEF RecordingInit, NewCategory, NewWriter
  <2>4. /\ rec \in [category : {rec.category}, active : BOOLEAN, ring : {rec.ring}, shutdown : BOOLEAN, pushed : Nat]
        /\ rec.ring = <<>>
    BY <2>1, <2>3
  <2>5. /\ writer \in [at : {"Drain", "Check", "Write", "Exited"}, batch : {writer.batch}, segment : {writer.segment}, size : Nat]
        /\ writer.batch = <<>> /\ writer.segment = Absent
    BY <2>3
  <2>6. /\ clock \in [now : Nat, stepped : BOOLEAN]
        /\ fate \in [dropped : {fate.dropped}, deleted : {fate.deleted}, lost : {fate.lost}, late : {fate.late}]
    BY <2>3
  <2>7. 0 <= RingCapacity
    BY RecordingAssumption
  <2> QED  BY <2>3, <2>4, <2>5, <2>6, <2>7, NoRecords DEF RecorderInv
<1> QED  BY <1>2, <1>3, <1>4, <1>5, InitHandshake, InitKept DEF Inv, SessionInv

\* ... every step keeps it, ...
LEMMA InvIsInductive == Inv /\ [Next]_vars => Inv'
  BY SessionStep, RecorderStep, HandshakeStep, KeptStep DEF Inv

\* ... and it gives the types, ...
LEMMA InvTypes == Inv => TypeOK
<1> SUFFICES ASSUME Inv PROVE TypeOK
  OBVIOUS
<1>1. ConsoleOk(console) /\ RobotOk(robot) /\ CameraOk(camera) /\ UpOk(up) /\ HandInv /\ BudgetInv /\ RecorderInv
  BY DEF Inv, SessionInv
<1>2. console.mode \in {"Connecting", "Resuming", "Open"} /\ console.ticket \in {"None", "Good", "Stale"}
      /\ console.phase \in {"AwaitingHello", "AwaitingSessionDescribe", "Operating"} /\ console.held \in CommandType
  BY <1>1 DEF ConsoleOk
<1>3. /\ robot.serving \in {"None", "Current", "Stale", "Bogus"}
      /\ robot.phase \in {"AwaitingHello", "AwaitingSessionAccept", "Operating"}
  BY <1>1 DEF RobotOk
<1>4. up.hello \in 0..(1 + work.budget.hellos)
  <2>1. "hellos" \in Faults /\ work.budget \in [Faults -> Nat] /\ left \in [Faults -> Nat]
    BY <1>1, Budgets DEF Faults, BudgetInv
  <2>2. left.hellos \in Nat /\ work.budget.hellos \in Nat /\ up.hello \in Nat
    BY <1>1, <2>1 DEF UpOk
  <2>3. up.hello + left.hellos <= 1 + work.budget.hellos
    BY <1>1 DEF BudgetInv
  <2> QED  BY <2>2, <2>3
<1>5. /\ camera.at \in {"None", "Read", "Spawn", "Running", "GaveUp"} /\ camera.watch \in -1000..1000
      /\ camera.attempts \in 0..(MaxAttempts + 1)
  BY <1>1 DEF CameraOk
<1>6. console.held.claw \in 0..255 /\ console.held.arm_x \in -80..155 /\ console.held.arm_z \in -95..155
  BY <1>2 DEF CommandType
<1>7. pad.held \subseteq Holdable /\ pad.mode \in {"Turn", "Roll", "Yaw"}
  BY <1>1 DEF HandInv, PadType
<1>8. \A fault \in DOMAIN left : left[fault] \in Nat
  BY <1>1 DEF BudgetInv
<1>9. RecordingTypeOK
  <2>1. rec.active \in BOOLEAN /\ rec.shutdown \in BOOLEAN /\ writer.at \in {"Drain", "Check", "Write", "Exited"}
    BY <1>1 DEF RecorderInv
  <2>2. /\ Len(rec.ring) <= RingCapacity
        /\ \A i \in 1..Len(rec.ring) : rec.ring[i].id \in 1..rec.pushed /\ rec.ring[i].capture_us \in Nat
    BY <1>1 DEF RecorderInv, Records
  <2>3. DOMAIN disk \subseteq Nat /\ \A n \in DOMAIN disk : disk[n].synced <= Len(disk[n].records)
    BY <1>1 DEF RecorderInv, SegmentShape
  <2>4. writer.segment \in DOMAIN disk \cup {Absent}
    BY <1>1 DEF RecorderInv
  <2> QED  BY <2>1, <2>2, <2>3, <2>4 DEF RecordingTypeOK
<1> DEFINE X == -80..155
           Z == -95..155
           Byte == 0..255
           Level == -1000..1000
           Tries == 0..(MaxAttempts + 1)
           Hellos == 0..(1 + work.budget.hellos)
           Ranges == /\ console.held.claw \in Byte /\ console.held.arm_x \in X /\ console.held.arm_z \in Z
                     /\ camera.watch \in Level /\ camera.attempts \in Tries /\ up.hello \in Hellos
<1>10. Ranges
  <2>1. console.held.claw \in Byte /\ console.held.arm_x \in X /\ console.held.arm_z \in Z
    BY <1>6
  <2>2. camera.watch \in Level /\ camera.attempts \in Tries
    BY <1>5
  <2>3. up.hello \in Hellos
    BY <1>4
  <2> HIDE DEF X, Z, Byte, Level, Tries, Hellos
  <2> QED  BY <2>1, <2>2, <2>3
<1>11. TypeOK <=>
         /\ console.mode \in {"Connecting", "Resuming", "Open"} /\ console.ticket \in {"None", "Good", "Stale"}
         /\ console.phase \in {"AwaitingHello", "AwaitingSessionDescribe", "Operating"}
         /\ robot.serving \in {"None", "Current", "Stale", "Bogus"}
         /\ robot.phase \in {"AwaitingHello", "AwaitingSessionAccept", "Operating"}
         /\ up.hello \in Hellos
         /\ camera.at \in {"None", "Read", "Spawn", "Running", "GaveUp"} /\ camera.watch \in Level
         /\ camera.attempts \in Tries
         /\ console.held.claw \in Byte /\ console.held.arm_x \in X /\ console.held.arm_z \in Z
         /\ pad.held \subseteq Holdable /\ pad.mode \in {"Turn", "Roll", "Yaw"}
         /\ \A fault \in DOMAIN left : left[fault] \in Nat
         /\ RecordingTypeOK
  BY DEF TypeOK
<1> HIDE DEF X, Z, Byte, Level, Tries, Hellos
<1> QED  BY <1>2, <1>3, <1>5, <1>7, <1>8, <1>9, <1>10, <1>11

\* What the robot has is what the console meant.
LEMMA CommandKept ==
  ASSUME RobotOk(robot), robot.cmd # Absent
  PROVE  /\ GoodCommand(robot.cmd.meant) /\ ArmOf(robot.cmd.got) = ArmOf(robot.cmd.meant)
         /\ robot.cmd.got.arm_x = robot.cmd.meant.arm_x /\ robot.cmd.got.arm_z = robot.cmd.meant.arm_z
         /\ \A i \in 1..6 : Near(robot.cmd.got.va[i], robot.cmd.meant.va[i], 10)
<1> DEFINE a == robot.cmd
           c == a.meant
           r == a.got
<1>1. a = [got |-> UnpackCommand(PackCommand(c)), meant |-> c] /\ r # Absent /\ GoodCommand(c)
  BY DEF RobotOk, CommandArrived
<1>2. r = UnpackCommand(PackCommand(c))
  BY <1>1
<1> HIDE DEF c, r
<1>3. r.arm_x = c.arm_x /\ r.arm_z = c.arm_z /\ r.claw = c.claw /\ \A i \in 1..6 : Near(r.va[i], c.va[i], 10)
  BY <1>1, <1>2, CommandArrives DEF GoodCommand
<1>4. ArmOf(r) = ArmOf(c)
  BY <1>3 DEF ArmOf
<1> QED  BY <1>1, <1>3, <1>4 DEF c, r

\* ... what is meant, ...
LEMMA InvArrives == Inv => ArrivesAsMeant
<1> SUFFICES ASSUME Inv PROVE ArrivesAsMeant
  OBVIOUS
<1>1. RobotOk(robot) /\ ConsoleOk(console)
  BY DEF Inv, SessionInv
<1>2. robot.cmd # Absent => /\ \A i \in 1..6 : Near(robot.cmd.got.va[i], robot.cmd.meant.va[i], 10)
                            /\ ArmOf(robot.cmd.got) = ArmOf(robot.cmd.meant)
  BY <1>1, CommandKept
<1>3. ASSUME console.telemetry # Absent
      PROVE  /\ console.telemetry.got.battery = console.telemetry.meant.battery
             /\ \A i \in DOMAIN console.telemetry.meant.angles :
                  Near(console.telemetry.got.angles[i], console.telemetry.meant.angles[i], 10)
  <2> DEFINE a == console.telemetry
             t == a.meant
             r == a.got
  <2>1. a = [got |-> UnpackTelemetry(PackTelemetry(t)), meant |-> t] /\ r # Absent /\ t \in ReportType
    BY <1>1, <1>3 DEF ConsoleOk, ReportArrived
  <2>2. r = UnpackTelemetry(PackTelemetry(t))
    BY <2>1
  <2> HIDE DEF t, r
  <2>3. r.battery = t.battery /\ \A i \in DOMAIN t.angles : Near(r.angles[i], t.angles[i], 10)
    BY <2>1, <2>2, ReportArrives
  <2> QED  BY <2>3 DEF t, r
<1> QED  BY <1>2, <1>3 DEF ArrivesAsMeant

\* ... and the clearance of the arm.
LEMMA InvArmIsClear == Inv => ArmClearOfScreen
<1> SUFFICES ASSUME Inv, robot.cmd # Absent
             PROVE  LET got == robot.cmd.got IN <<got.arm_x, got.arm_z>> = <<0, 0>> \/ got.arm_x >= MinSafeArmX(got.arm_z)
  BY DEF ArmClearOfScreen
<1> DEFINE c == robot.cmd.meant
           r == robot.cmd.got
<1>1. GoodCommand(c) /\ r.arm_x = c.arm_x /\ r.arm_z = c.arm_z
  BY CommandKept DEF Inv, SessionInv
<1> HIDE DEF c, r
<1>2. <<r.arm_x, r.arm_z>> = <<0, 0>> \/ r.arm_x >= MinSafeArmX(r.arm_z)
  BY <1>1 DEF GoodCommand, ArmIsClear
<1> QED  BY <1>2 DEF r

\* Through reconnects, crashes and restarts every value keeps its type: the HELLOs not yet read are no
\* more than were sent, the capture's attempts stay within their limit, the ring within its capacity,
\* and the writer's open segment exists.  (Client, Session, capture_task, Recorder.)
THEOREM SessionTypeOK == Spec => []TypeOK
<1>1. Inv /\ [Next]_vars => Inv'
  BY InvIsInductive
<1> QED  BY InitInv, <1>1, InvTypes, PTL DEF Spec

\* A command reaches the robot, and a report the HUD, as it was meant, for every stick, key and report.
\* (TeleopCommand and TelemetryData pack and unpack, pack_scaled.)
THEOREM SessionArrivesAsMeant == Spec => []ArrivesAsMeant
<1>1. Inv /\ [Next]_vars => Inv'
  BY InvIsInductive
<1> QED  BY InitInv, <1>1, InvArrives, PTL DEF Spec

\* No sequence of keys, held buttons and resets brings the robot an arm position that is neither neutral
\* nor clear of its screen.  (on_input's ArmNudge, min_safe_arm_x.)
THEOREM SessionArmIsClear == Spec => []ArmClearOfScreen
<1>1. Inv /\ [Next]_vars => Inv'
  BY InvIsInductive
<1> QED  BY InitInv, <1>1, InvArmIsClear, PTL DEF Spec

\* Whatever the connection went through - resumptions, overtaken descriptions, restarts of either end -
\* two ends that operate agree on the capabilities, the profile, the layouts and every sensor's format,
\* for every build of the robot.  (hello.rs, both session_handler.rs, profile.rs.)
THEOREM SessionEndsAgree == Spec => []EndsAgree
<1>1. Inv /\ [Next]_vars => Inv'
  BY InvIsInductive
<1>2. Inv => EndsAgree
  BY HandshakeAgrees DEF Inv
<1> QED  BY InitInv, <1>1, <1>2, PTL DEF Spec

\* However the writer, rotation, retention, crashes, shutdowns and the clock interleave with the pushes, for every
\* capacity and size: a record is somewhere or went for a reason, replay gives what this end made of it, in the order
\* of the pushes unless the clock was set back, and a writer that has exited left only what came after its last drain.
\* (ring.rs, writer.rs, segment.rs, core recording.rs and RecorderInner::drop.)
THEOREM SessionRecordsKept == Spec => []RecordsKept
<1>1. Inv /\ [Next]_vars => Inv'
  BY InvIsInductive
<1>2. Inv => RecordsKept
  BY KeptGives DEF Inv
<1> QED  BY InitInv, <1>1, <1>2, PTL DEF Spec
=============================================================================

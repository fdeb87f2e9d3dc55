# A TLA+ model of robotele

robotele teleoperates a walking robot (an XGO-Lite) over QUIC. This directory
holds TLA+ modules that model its control path, its media and data paths, whole
sessions and its recorder, TLC configurations that check them, and TLAPS proofs
of the properties that matter most. `PROJECT.json` maps every definition to the
lines it models.

## The system

| component | state | operations | interacts with |
|---|---|---|---|
| safety core (`roboprotocol-core/src/safety`) | tier, SUSPENDED, stability window, blackout watchdog | RTT sample, heartbeat, check, clear, arbitrate | called by the safety task |
| safety task (`robot-edge/src/safety_task.rs`) | the above, explicit E-Stop, deadman and freshness flags | activity, trigger, clear, tick | called by the session |
| session (`robot-edge/src/quic_server.rs`) | phase, sitting, settling gait, what the bridge was told | datagrams, stream data, ticks, bridge events, shutdown | console over QUIC, supervisor over two channels, Zenoh sidecar |
| supervisor (`robot-edge/src/bridge/process.rs`) | child process, restart attempts | spawn, write, notice death, back off, give up, kill | bridge over pipes |
| bridge (`xgo_bridge/xgo_bridge.py`) | E-Stop latch, time of the last line | handle a line, watchdog thread, exit | vendor SDK, legs |
| console (`operator-console/src/quic_client.rs`) | phase, held velocity and its age, E-Stop view | keys, ticks, reconnect, quit | session over QUIC |
| Zenoh sidecar (`robot-edge/src/zenoh_bridge.rs`) | latest goal and its time, sinks | goal sample, publish | session |
| lossy path (`lossy_queue.rs`, `lossy_rate.rs`) | waiting NALs and slices, token bucket | push, pop, expire, update | session, quiche |
| bulk objects (`bulk.rs`, `bulk_sender.rs`) | open streams, versions, partial copies | publish, pump, receive | session, console |
| topic forwarding (`topic.rs`, `roboprotocol-zenoh`) | latest per key, two reliable lanes, pause flag | push, pop, consume, republish | both peers, Zenoh |
| sensor frames (`sensor.rs`) | pending frames, last emitted | slice, poll, emit | console |
| video (`video.rs`, `gate.rs`, `playback.rs`) | pending NALs, next id, freeze, delta slots | chunk, admit, overflow | console |
| recording (`roboprotocol-recording`) | ring, open segment, retention | enqueue, drain, rotate, delete | both peers, a writer thread |
| handshake (`hello.rs`, `session_handler.rs`, `profile.rs`) | phase, negotiated capabilities, description, cached profile | HELLO, SESSION_DESCRIBE, SESSION_ACCEPT, layouts | both peers |
| connecting (`quic_client.rs`, `quic_server.rs` `run`) | resumption ticket, attempt, phase | connect, resume or fall back, time out, accept, adopt, reconnect | both peers |
| Channel B (`channel_b.rs` of both) | the frame in flight | pack, unpack, tag | session, console, replay |
| operator input (`input.rs`, `gamepad.rs`) | held command, stick and button state, camera controls | keys, pad events, refresh | console |
| capture (`video/channel_a.rs`) | capture process, restart attempts, controls | read, restart, give up, change controls | session |

What makes it hard: the XGO is velocity-commanded, so a robot that is told
nothing more keeps walking, and every way a stop can get lost matters. The
operator's stop travels twice (datagram and stream) over a network that loses
and reorders; the session's decisions reach the legs through a queue, a pipe and
a process that may die at any line; the bridge has a latch and a watchdog of its
own; and both peers may restart or reconnect between any two of these steps.

What makes each part correct: the safety task leaves SUSPENDED or an E-Stop only
as specified and never hands out control in silence; the session's E-Stop always
prevails over what it queued earlier; the bridge holds the legs while latched;
letting go of a key stops the robot; a stop the operator presses latches; frames,
objects and samples leave their buffers in order, whole and at most once; a
record that was accepted is written.

`PROJECT.json` lists the hazards, each at the line where it bites, with the
properties that cover it or the module that will.

## Modules

* **SafetyCore** - the data types of the safety task as records and its methods
  as operators. An `Instant` is kept as its age, which stops growing at the
  threshold it is compared with: the code never compares anything else.
* **SafetyTask** (instance **MCSafetyTask**) - the task under every order of its
  calls. `calm` and `quiet` are history variables that record what happened on
  the link, independently of what the task remembers. robot-edge itself calls
  `on_channel_b_activity` with no RTT and never requests a deadman reset, so in
  a session the tier machine stays at Tier 0; SafetyTask checks the component as
  its interface allows it to be used.
* **XgoBridge** - the bridge's line handling and the legs. A velocity is
  abstracted to who asked for it. One command is one handler's batch of lines.
* **RobotEdge** - session, supervisor, bridge and legs composed, with the
  operator and the network as environment: any well-formed message may come at
  any time. `cmds`, `pipe` and `events` are the unbounded command channel, the
  stdin pipe and the event channel. `told` is a history variable: whether a tick
  told the process that now runs about the E-Stop.
* **TeleopLink** - one console and one session over QUIC. Datagrams are a set:
  one may be lost, may arrive late, and (copies not being told apart) more than
  once. The E-Stop stream is reliable, but a read returns whatever has arrived
  and only its first message is decoded.
* **LossyQueue** - the queue of lossy data on the robot as a record and its
  operations: what a push supersedes, which class a pop serves, the expiry of
  deltas, the two policies for a sensor frame that is superseded half sent.
* **SensorFrames** - encodings, interleaving, slicing, `FrameAssembler` and
  decoding, on frames of a few elements.
* **MediaPath** (instance **MCMediaPath**) - both composed with the encoder, the
  sensor threads, the feed, the network, and on the console the reassembler, the
  delta gate, the delta slot and both playback backends. `decoder` says whether
  the picture is what the camera saw: a delta decoded on another picture than
  the one it was made from spoils it until the next IDR.
* **DataStreams** (instance **MCDataStreams**) - forwarded topics and bulk
  objects through capture, outbox, lanes, rate cap and rate control, QUIC
  streams, the readers and the console's bus, with the watcher that pauses
  republishing while the robot is visible on the local bus.
* **LatestWins** - the abstract specification of a latest-wins feed: what is
  shown was published and is newer than all shown before. MediaPath's sensors
  (`published` is the last frame rendered, `shown` the last one emitted) and
  DataStreams' objects (`published` is the last version given to the sender,
  `shown` the one the receiver holds) implement it.
* **ChannelB** - the command layout a profile implies, quantization, frames and
  tags at both ends. A field of w bytes is w cells with the value in the first,
  so offsets are the code's.
* **Handshake** - HELLO and its negotiation, the description and its acceptance
  through the enumerations of the wire, the checks a console makes of a sensor's
  descriptor, the XGO profile and the simulated sensors.
* **OperatorInput** - keyboard, gamepad thread, and the held command.
* **Recording** - one category of a Recorder with its writer thread, its
  segments on disk, and replay. A crash loses what was not synced and may leave
  half a record at the end of a segment (`torn_at`). A segment opened again to
  append puts new bytes behind the tear; once there are enough of them
  (`overrun`) they fill up the torn record, and `RecordIter` goes on with them.
  What it then reads is one row here, `Garbled`. Sizes of records differ, so when
  there are enough is a choice (`Appended`, `Remains`).
* **Session** (instance **MCSession**) - console and robot through whole
  sessions, composed of the four before it: tickets and their fallback, outages,
  crashes and restarts of the robot, stray packets, the handshake, hands,
  commands, telemetry, triggers, camera controls down to the capture process,
  and the recorder of one end.
* **SafetyTaskProofs**, **RobotEdgeProofs**, **TeleopLinkProofs**,
  **DataStreamsProofs**, **MediaPathProofs**, **SessionProofs** - theorems about
  the module each is named for. **SafetyCoreProofs** holds the lemmas about SafetyCore that the first
  three share, **InductionFacts** induction over the natural numbers in a form the
  provers can use.

Abstractions worth knowing:

* Vendor calls succeed. Query is folded into Heartbeat, and a heartbeat followed
  by another line of the same tick into that line, since every line feeds the
  bridge's watchdog alike.
* A handler's batch of lines is one element of the queue; a crash in the middle
  of a batch is a crash before or after it.
* RobotEdge ends a session when its connection closes, for whatever reason
  (peer, idle timeout, an undecodable stream message). The next one starts once
  the previous supervisor has returned; the moment in which two overlap is left
  out.
* In TeleopLink the legs follow the session at once (RobotEdge is about the
  delay), the robot's E-Stop reports are left out but for opening stream 5, and
  a message of the E-Stop stream is never split between two reads.
* MediaPath, DataStreams and Session take a *workload*, a record chosen once
  that says what a behaviour may meet (what the robot produces, which keys are
  pressed, a budget of each fault). One run so looks at every concern in depth
  without multiplying them all. Session leaves out what TeleopLink has: the
  E-Stop, the move timeout, reordered commands.
* Waiting times in MediaPath and attempts' timeouts in Session are not counted:
  what may time out may do so at any moment the code allows; the deadline of a
  resumption may fire though the robot has already taken the attempt.
* Bytes are units in DataStreams (a small sample is one), records in Recording.
  Real numbers are integers in thousandths, so rounding and saturation are those
  of the code; the sensors' unit is an odd number of fine units, so that
  rounding has one answer. Four image controls of the camera are one.
* Datagrams in MediaPath and DataStreams are lost and reordered but not
  repeated: QUIC does not send one twice. A stream delivers in order, and two
  streams are independent.
* Recording is modelled for one category at one end at a time; the categories
  share nothing but the clock. File-system errors of a live process are left out.
* Benchmark modes and the HUD's rendering are left out everywhere.

## Runs

| run | instance | shows |
|---|---|---|
| `safety_task` | all four classes, thresholds 1 and 2, window 4 units, samples on both sides of the boundaries | resume interlock, latch, silence |
| `robot_edge` | queue 2, pipe 1, events 1, one restart, all action kinds, goals on | E-Stop prevails, gaits undisturbed, shutdown |
| `robot_edge_live` | the same without actions and goals, with fairness | stops and deaths take effect |
| `teleop_link` | blackout and move_stale 1 unit, two stream messages in flight, observer or not, with fairness | release stops, stops latch and hold |
| `media_path` | 3 sensors, 7 workloads of up to 7 NALs or 3 frames per sensor, 2 chunks per IDR, 2 datagrams in flight of each kind | freezes rather than smears, classes take turns, frames whole, in order and as measured |
| `data_streams` | 2 keys, 1 object, 7 workloads of up to 3 samples or versions, large samples of 2 units and windows of 2, with fairness | order per key, reliable and newest arrive, caps let go |
| `session` | 13 workloads of builds, inputs and faults; ring, segment and budget of 2 records; 1 capture restart; with fairness | reconnects, ends agree, commands as meant, arm clear, camera catches up, records kept |
| `topic_overtake` | as `data_streams` | a disagreement, see below |
| `stale_goal`, `session_end`, `observer_release`, `reconnect_unlatches` | as their passing runs | four disagreements between code and comments, see below |

What the three newer passing runs say, and what they except:

* **FreezeNotSmear** - the decoder never shows a delta on the wrong picture,
  whatever is lost, reordered, expired or played late. Five ways around the gate
  that the code has are recorded in `history.slipped` and `history.torn` and
  excepted: a delta as the first NAL of a connection, a late parameter set that
  clears the delta slot, a critical NAL that arrives while the playback thread
  takes deltas, a NAL so late (more than RESTART_GAP) that the gate takes it for
  the start of a new stream, and a NAL put together from the chunks of two sessions.
  **TornOnlyAcrossReconnect** says that the last happens only with chunks that
  were waiting when the connection went: the reassembler is not reset.
* **IdrKeepsParameterSets**, **FinishSendsWhole**, **ClassesTakeTurns** - what
  the robot's queue may never drop or starve. **ShowsWhatWasMeasured** - encode,
  slice, lose, assemble, decode: no phantom point, and a complete frame shows
  everything its format can carry. **SensorsAreLatestWins** - the refinement.
* **InOrderUnlessExposed** - a key's samples are republished in order, except
  where one was still under way on the other stream when the next was queued
  (`topic_overtake` shows that case). **StreamsToldApart** - the first byte of a
  stream decides, and only that byte. **ReliableArrives**, **LatestGoesOut**,
  **NewestObjectArrives** - liveness through caps, windows, stream limits and
  superseding; `history.gone` holds what a pause, a full channel or a lost
  connection took. **ObjectsAreLatestWins** - the refinement.
* **ConnectsAgain** - the two ends operate again and again as long as the
  network is up and the robot runs, except for builds that do not negotiate and
  for `Wedged`: the description was read before HELLO, was dropped as unhandled,
  and the robot's datagrams keep the connection from timing out.
* **EndsAgree** - profile, layouts, capabilities and sensor formats are the same
  at both ends after travelling through the wire's enumerations, and are the ones
  TeleopCommand has built in. **ArrivesAsMeant** - quantization at both ends.
  **ArmClearOfScreen** - the arm's keep-out, over any order of keys, held buttons
  and resets. The neutral position (0, 0), from which the arm starts, lies
  inside the keep-out itself (`min_safe_arm_x(0)` is 70) and is excepted.
* **CameraCatchesUp** - the capture process ends up with the controls sent last,
  unless they were in one read with others (those streams have no framing) or
  came before SESSION_ACCEPT (`robot.missed`).
* **RecordsKept** - every record accepted is in the ring, the writer's hand or a
  segment, or has a named fate; each row of replay is what this end acted on or
  the garbled one of a segment torn and then appended to; unless the clock was
  set back there is no such segment, and replay gives all that is on disk, in
  order; and what waits when the writer has exited was pushed after its last
  drain. A torn segment's name comes again only with the clock: a restart takes
  longer than the microsecond a name counts (`RestartRecorder`). On the robot a
  clock set back is no rare case, since the CM4 has no battery-backed one and
  starts days off (the repository's README.md, "Set the Pi's clock after every
  boot"). Then recording.rs:76-79 does not hold as written - "stops cleanly,
  without error, the moment it hits a truncated final record" - for the record is
  no longer the final one.

Bounds. Ages are compared with one threshold each, so one or two units per
threshold separate "before" from "at". A queue of two holds every batch a
handler sends (a tick's EstopClear and Motion, shutdown's Stop and Estop); two
elements over queue, pipe and process are what it takes for an old command to
be overtaken or handled late, and a batch that finds no room waits rather than
being lost, as in an unbounded channel that is slow. One restart shows both
outcomes of a failure, retry and give up, and a restart window that ends in
between. Two stream messages are the least that one read can merge. Two chunks
per IDR and one pending NAL make reassembly incomplete, reordered and evicting;
seven NALs are a group of pictures and most of the next, so that a lost delta is
followed by an IDR that ends the freeze; three frames per sensor are one emitted,
one pending, one that supersedes. Three samples of a key are a large one, a
small one held behind it and a small one let go; three versions of an object are
one under way, one waiting and one that replaces it. A ring, a segment and a
budget of two records overflow, rotate and delete with three. In Session each
fault has a budget of one or two, which is enough for a fault during the recovery
from another. RESTART_GAP is 3 in the run, so that with seven NALs one
of them can be late enough to be taken for a restarted encoder; the code's 1000
needs a thousand. The groups of pictures open with an IDR, or with parameter sets
that an IDR follows, as `--inline` makes them (`StartsAfresh`): a delta that came
first, or right after parameter sets, would be coded from a picture two ids back,
which a gate that compares ids cannot know.

Fairness. Tokio runs every ready branch of the two `select!` loops, the
supervisor task and the bridge's threads, so those steps are weakly fair, and so
is time. Nothing is assumed of the operator, signals, goals or deaths. In
TeleopLink streams deliver while the connection lasts and no datagram stays in
flight for ever, but none is assumed to arrive. `EstopStopsTheLegs` allows for a
bridge that dies again and again: then nothing can reach the legs.
`ReleaseStops` allows for an operator who clears the E-Stop for ever and so
holds off the watchdog that would stop the robot when every command is lost.
In DataStreams the session's loop keeps flushing, time keeps refilling both
caps, and QUIC delivers what its streams accepted; datagrams, the rate
controller's moves, the watcher and reconnects are left free. In Session the
timers and reads of each end are weakly fair; the robot taking a first packet is
strongly fair, because the console's stack sends that packet again until it is
answered, so a robot that comes back to waiting time after time gets one.
Nothing makes the network come back, the robot restart or a fault end, and
nobody has to touch a key. A held stick that refreshes every 120 ms can drop
resumption attempts again and again (any input cancels one); the budget
`cancels` ends that, so ConnectsAgain is about operators who let go. MediaPath
has no liveness: any of its datagrams may be lost.

The five violations:

* **stale_goal** - when an autonomy goal expires, arbitration falls to
  ActiveImpedanceHold, for which `on_tick` sends the bridge nothing: the zero
  velocity that `AutonomyGoal::velocity` would return is never asked for.
* **session_end** - when the connection closes, the bridge is killed without a
  Stop, although the comment at SHUTDOWN_STOP_ACK_TIMEOUT gives the reason why
  the stop must come first.
* **observer_release** - with `--observer` the tick that zeroes the held command
  is the tick that switches to heartbeats, so the zero is never sent, and the
  heartbeats keep the watchdog from stopping the robot.
* **reconnect_unlatches** - the E-Stop latch belongs to the session; a dropped
  connection and the automatic reconnect give a fresh, unlatched one.
* **topic_overtake** - a key leaves `large_pending` when the transport has taken
  its bytes, not when the peer has read them: the next small sample of that key
  travels on the other stream and may be republished first.

## Proofs

SafetyTaskProofs proves, for every resume window, every set of thresholds and
every set of RTT samples, all six properties that `safety_task` checks. The
inductive invariant `IInv` is TypeOK, SuspendedIsTier4, MemoryIsHonest and
NoDrivingInSilence. They are needed together: ResumeInterlock, for
instance, follows because the stability window is never older than the calm on
the link (MemoryIsHonest), which needs the window to be closed whenever the
machine is not suspended; NoDrivingInSilence needs the watchdog's silence to be
the link's. Lemmas say once what a sample, the watchdog's methods and
arbitration do; the step proof has one case per action. The action properties
follow from the invariant. The assumptions are those on the constants: a
positive window, positive thresholds, natural samples.

RobotEdgeProofs proves the six safety properties that `robot_edge` checks, for
every value of the constants and so for queues of every length. The invariants,
each resting on those before it:

* `LatchInv` and `TypeInv`. TypeOK is not inductive by itself: that the failures
  of a window stay within the limit needs a supervisor at its limit to be gone.
* `ReadyInv` - a robot that sits or whose gait settles has had an operator in
  control, and a session keeps an operator who has once commanded ready. So
  autonomy never finds a gait to disturb, and with a lemma that says for each
  tick what it sends, NothingMovesUnderEstop and GaitUndisturbed follow.
* `QueueInv` and `ShutdownInv` - what a dead bridge or a supervisor that is gone
  leaves behind is empty; the final Stop is under way only once a shutdown has
  begun, only an Estop follows it in queue and pipe, and once it has been
  acknowledged nothing else is left. AckedShutdownIsStill is one conjunct.
* `EstopInv` - once a bridge was told of an E-Stop, what is under way latches it:
  in pipe and queue some Estop, or the latch before them, is followed by no
  EstopClear. EstopPrevails runs the whole backlog through the bridge; that such
  a backlog ends latched and still, however long it is, is an induction.

TeleopLinkProofs proves TypeOK and FreshStopHolds, from `FreshInv`: while a fresh
stop stands its session lives and no clear is anywhere on its way, as a datagram
or in the stream. It also proves `OnlyClearOrNewSessionUnlatches`, what remains
true beside the disagreement `reconnect_unlatches` shows: of all steps only a
clear that arrives and a session that replaces another undo the latch.

DataStreamsProofs proves every safety property of `data_streams`.
`DataStreamsInvariant` says of each stream what it carries and how far the console
has read it (`StreamInv`: an id is given out once, a lane's stream carries its
lane, the first unit opens and no other does), of each object where its versions
are (`ObjectInv`: a version is on one stream and a stream carries one version,
the one in flight is older than the one waiting, and nothing shown will start
again), and the bounds of the buffers. From it follow TypeOK, StreamsToldApart
and, step by step, the refinement ObjectsAreLatestWins: a read that completes an
object is LatestWins' Show, a publication its Publish, and every other step leaves both
variables alone. InOrderUnlessExposed needs three more layers: a key's samples
are captured after all that is on its way (`CaptureInv`), each lane is in order
from the outbox to the end of the wire (`LaneInv`), and between the lanes and
what was handed on every pair that may overtake is in `history.exposed`
(`OrderInv`).

MediaPathProofs proves every safety property of `media_path`, for any
measurements that are integers (MediaPathAssumption). `MediaPathInvariant` has types and bounds, the turns of the
two classes, slices and chunks of this session only, a stream of NALs known by
their ids in which each delta follows the picture it was coded from, and what the
reassembler may still hold of an earlier session. TypeOK, ClassesTakeTurns,
TornOnlyAcrossReconnect, FinishSendsWhole, IdrKeepsParameterSets and the
refinement SensorsAreLatestWins follow from it. FreezeNotSmear is a statement
about the future of the decoder, and its invariant `FlowInv` says so: as long as
nothing has slipped past the gate or was torn, a chain of pictures leads from the
one in the decoder over the critical NALs waiting, the deltas the playback thread
has taken and those in the slot, to the picture that the next delta the gate
lets pass is coded from. The proof has a case for every order in which the two channels can be read.

ShowsWhatWasMeasured needs `MeasuredInv` beside that invariant: a slice carries
what `interleave` put at its place, and a pending frame, and each frame on the
display, holds slices of its own frame only, at their places, and has its slice
count. `FrameShows` then proves, of any such frame of any kind, what the property
says. It rests on the operators of SensorFrames: interleaving gives
every element one place in one slice (`InterleaveFacts`), so a slice that is missing
takes away its own elements and shifts none (`DeinterleaveFacts`; `ReceivedFacts`
for points, which have no place); rounding is within half a unit and the only unit that is, a
scale being odd (`RoundFacts`); and going through a finite set by rank meets
each of its members and nothing else (`NthFacts`).

SessionProofs proves every invariant of the run `session` - TypeOK,
ArrivesAsMeant, ArmClearOfScreen, EndsAgree and RecordsKept - for every size of
the recorder and every workload within two assumptions: SessionAssumption
(budgets are natural numbers, inputs are keys, sticks and reports that the
devices can produce) and BuildAssumption (a major version fits its byte; a
robot's sensors are well-formed and have different ids, which `quic_server::run`
gives by enumerating them with `i as u8`). RecordingAssumption adds that
sizes are positive and that None is neither a time nor a block of a frame. The
invariant `Inv` has four parts:

* `SessionInv` - the command the console holds is neutral or clear of the screen
  (`GoodCommand`), whatever nudges and resets built it; the datagram in
  flight is the packed and tagged form of what its sender meant, and what it
  meant is such a command or such a report; what the robot and the HUD have is
  the unpacked form of it. Beside them the types of both ends, the capture's
  attempts (one that has not given up has some left, without which the bound is
  not inductive) and the budget of HELLOs, of which those not read yet and those
  still to be sent again are never more than there are.
* `RecorderInv` - records, in the ring, in the writer's hand or in a segment,
  are numbered as they were pushed; a segment has no more synced than written; the open
  segment exists, also after rotation, retention and crashes.
* `HandshakeInv` - of a connection both ends belong to: what each end has taken
  over is what the other one sends (capabilities from HELLO, profile and sensors
  from the description, the sensors selected from the acceptance), and so is what
  still lies on the streams.
  A fresh connection carries nothing, neither way, whichever of restart, fallback
  and reconnect made it, and a session no console talks to waits for HELLO. It is
  inductive with SessionInv beside it.
* `KeptInv` - where the records are. `Accounted`: the numbers pushed are those on
  disk, in the writer's hand and in the ring, and those dropped, deleted or
  lost. `InLine`: what is on disk was pushed before what the writer holds, and
  that before the ring. `OnTime`, while nobody has set the clock back: names of
  segments and captures of records run in the same order, retention took the
  earliest, and a torn segment is left alone (`LeftAlone`: nothing is behind its
  tear, and its name is earlier than any the running writer will use). `Flushed`:
  only the open segment has anything unsynced, and a tear is within what was
  synced. `LateOnly`: after an empty drain, what is pushed is
  late. `Truthful`: replaying a record gives what this end made of the message.
  `ShutdownOk`: the recorder is shut down only with the process it ran in.

ArrivesAsMeant then rests on lemmas about the codec: a field of each width comes
back to half a count or saturates on its own side (`QuantizedFacts`), a frame is
cut into the blocks it was put together from, and a telemetry report unpacks to
its angles however many there are (an induction over `FlattenSeq`).

EndsAgree rests on the round trip of a description: each enumeration of the wire
gives back the value it was given (`EnumerationFacts`), so a sensor that
validates has at the console the format it has at the robot, and a layout
depends on nothing but the profile. RecordsKept rests on the codec again (what
replay decodes is what was decoded on arrival) and on what `list_segments`
returns: that the names of a finite set of segments have an ascending order, and
only one (`NamesFacts`, by induction on their number), and what the records of
all segments in a row are, no more and no less (`FlattenFacts`). A rotation, a crash and a retention
each break one order and have to restore it in the same step, which is why
`OnTime` speaks of names and records together.

How it is done. The provers cannot instantiate an induction theorem that takes a
predicate, so InductionFacts states induction of sets of numbers, proves it from
the well-foundedness of the naturals, and derives that recursion on a number
defines a function. The recursive definitions the proofs reason about (the
bridge's Outcome, the outbox's OfTypes, MediaPath's survivors, the fields of a
frame) are recursive functions or folds, never RECURSIVE operators. Assumptions are those on the
constants, each named in the module that declares it.

The proof attempts changed three things that the models say. ClassesTakeTurns did not
hold of `history.passed_over` when a class ran empty and filled again, because
its history was not reset there. FreezeNotSmear could not be proved while the
gate's RESTART_GAP was a constant above every id: a NAL that late is taken for
a new stream, the fifth way around the gate. And the group of pictures had to be
one an encoder makes (`StartsAfresh`). Two operators were given another form with
the same meaning: `Present` in Handshake is a recursive function and
`SegmentNames` in Recording the ascending enumeration of the names, because
tlapm has no definition of SelectSeq and of SortSeq to reason from.

Only model-checked: everything with fairness (EstopStopsTheLegs,
DeathForcesEstop, ReleaseStops, FreshStopLatches, ConnectsAgain, CameraCatchesUp,
ReliableArrives, LatestGoesOut, NewestObjectArrives), whose proofs need ENABLED,
which the provers here do not have.
The five disagreements are counterexamples, found by TLC.

## Plan

1. Core (done): SafetyCore, SafetyTask, XgoBridge, RobotEdge, TeleopLink, the
   proofs above.
2. Media and data path (done): LossyQueue, SensorFrames, MediaPath, DataStreams,
   LatestWins and the two refinements.
3. Sessions (done but for the report of the latch back to the console):
   Handshake, ChannelB, OperatorInput, Recording, Session.
4. Proofs (done but for what is listed above as only model-checked): every safety
   invariant of the passing runs, their action properties and the two refinements.

## Not modelled

* The report of the latch back to the console, `EstopToggle` and what the HUD
  makes of it: TeleopLink has E-Stop keys that always mean trigger or clear.
* Topics from the operator to the robot, which run the same code as the other
  direction, the key expressions that choose what is forwarded, Latest samples
  too large for a datagram, and the forwarding watcher's replacement. On the
  console the allow-list of keys it accepts (`accepts`), and in the robot's pumps
  an error of `stream_send` other than waiting for credit, which drops what waits
  on the lane (link.rs:152) or the object (bulk_sender.rs:142).
* The simulated room (ray casting), `to_points`, interpolation and clock
  arithmetic: numeric code without state.
* `plan_datagrams`, which only its own tests call; splitting the encoder's byte
  stream into NALs; drawing and overlay; the encoding of an occupancy grid.
* The Zenoh sinks (fire and forget), user interface, command lines, benchmarks
  and offline tools, the Oculus gateway (a second client of the same protocol),
  the DimOS client, the Python simulator, generated FlatBuffers code, and QUIC
  itself, which is external and modelled by what the code relies on.

Seen while modelling and checked by no run: the schema's comment gives
VelocityAttitude "fixed 7 fields" where the code has six
(`roboprotocol.fbs`, `profile.rs`); a gamepad that is unplugged with a stick
deflected leaves `PadState` as it was, and the thread goes on refreshing the
command.

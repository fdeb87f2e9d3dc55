------------------------------ MODULE MediaPath ------------------------------
(***************************************************************************)
(* Video and sensor frames from the robot to the operator's screen.        *)
(*                                                                         *)
(* Robot: the encoder task (video/channel_a.rs) and the sensor threads     *)
(* (sim_sensor.rs) hand their latest to the session (quic_server.rs),      *)
(* which queues it in LossyQueue and moves datagrams to the connection     *)
(* whenever the rate cap and quiche's own queue leave room.                *)
(*                                                                         *)
(* Network: datagrams are lost and reordered, never duplicated (QUIC does  *)
(* not send one twice).  A lost connection takes everything in flight with *)
(* it; the console reconnects and the robot serves a new session, whose    *)
(* encoder and sensor threads count from 0 again, and start before the     *)
(* session is Operating.                                                   *)
(*                                                                         *)
(* Console (quic_client.rs): NalReassembler, DeltaGate and the hand-over   *)
(* to a playback thread for video, one FrameAssembler per sensor.          *)
(*                                                                         *)
(* A workload says how much the robot produces, so that one run can look   *)
(* at long video, at many sensor frames, and at both side by side.         *)
(***************************************************************************)
EXTENDS LossyQueue, SensorFrames

CONSTANTS
  Workloads,        \* records [gop, nals, backend, restarts, fitted, frames, policy, drops]:
                    \* gop is the camera's group of pictures (--inline: parameter
                    \* sets before every IDR), fitted the sensors the robot has;
                    \* nals, frames and drops bound what happens
  Selected,         \* the sensors SESSION_ACCEPT selected
  Kind,             \* [Sensors -> the encoding of the sensor]
  Readings,         \* measurements the sensors take, in turn
  MaxPendingNals,   \* MAX_PENDING_NALS
  DeltaQueueCap,    \* DELTA_QUEUE_CAP
  RestartGap,       \* RESTART_GAP
  MaxInFlight       \* bound on the datagrams in the network

\* What `--inline` gives: a group of pictures opens with an IDR, or with parameter sets
\* that an IDR follows, so a P always comes right after the picture it was coded from.
StartsAfresh(gop) ==
  /\ gop[1] # "P"
  /\ \A i \in 1..(Len(gop) - 1) : gop[i] \in ParameterSet => gop[i + 1] # "P"

ASSUME MediaPathAssumption ==
  /\ Selected \subseteq Sensors
  /\ Kind \in [Sensors -> {"Points", "RangeImage", "Depth"}]
  /\ Readings \in Seq(Int) \ {<<>>}
  /\ {MaxPendingNals, DeltaQueueCap, RestartGap, MaxInFlight} \subseteq Nat \ {0}
  /\ Workloads \subseteq
       [gop : Seq(NalType) \ {<<>>}, nals : Nat, backend : {"ffplay", "native"}, restarts : BOOLEAN,
        fitted : SUBSET Sensors, frames : Nat, policy : {"Cut", "Finish"}, drops : Nat]
  /\ \A w \in Workloads : StartsAfresh(w.gop)

VARIABLES
  load,       \* the workload, the number of the session and whether it is Operating
  source,     \* the robot's encoder and sensor threads, and what they hold out
  queue,      \* Session.lossy
  chunks,     \* video chunks in the network
  slices,     \* sensor slices in the network
  video_rx,   \* ChannelAReceiver: chunks of the NALs not complete yet, by nal_id
  gate,       \* DeltaGate
  playback,   \* VideoTx: the critical channel, the DeltaSlot, the playback thread
  decoder,    \* the picture the decoder has, and whether it is what the camera saw
  sensors,    \* the console's assemblers
  display,    \* the frames each sensor's assembler released last
  history     \* what the properties need to know of the past

robot == <<source, queue>>
net == <<chunks, slices>>
video == <<video_rx, gate, playback, decoder>>
lidar == <<sensors, display>>
vars == <<load, source, queue, chunks, slices, video_rx, gate, playback, decoder, sensors,
          display, history>>

-----------------------------------------------------------------------------
NewSource ==
  [next_nal_id |-> 0, gop |-> 1, picture |-> NoId, critical |-> <<>>, latest_delta |-> <<>>,
   frame_seq |-> [s \in Sensors |-> 0], slots |-> [s \in Sensors |-> NoId]]

NewLoad(w) ==
  [gop |-> w.gop, nals |-> w.nals, backend |-> w.backend, restarts |-> w.restarts,
   fitted |-> w.fitted, frames |-> w.frames, policy |-> w.policy, drops |-> w.drops,
   session |-> 1, operating |-> FALSE]

NewGate == [next_id |-> NoId, frozen |-> FALSE]

Init ==
  /\ \E w \in Workloads : load = NewLoad(w)
  /\ source = NewSource
  /\ queue = NewLossyQueue
  /\ chunks = {} /\ slices = {}
  /\ video_rx = <<>>
  /\ gate = NewGate
  /\ playback = [critical |-> <<>>, slot |-> <<>>, ready |-> FALSE, taking |-> FALSE, taken |-> <<>>]
  /\ decoder = [picture |-> <<0, NoId>>, clean |-> TRUE]
  /\ sensors = [s \in Sensors |-> NewAssembler]
  /\ display = [s \in Sensors |-> <<>>]
  /\ history = [slipped |-> FALSE, torn |-> {}, carried |-> {}, passed_over |-> 0]

-----------------------------------------------------------------------------
(* Robot: producers.                                                       *)

\* One NAL of the camera's stream reaches the encoder task.  The picture a P was
\* coded from is the one the encoder made before it.  Critical NALs queue up; a
\* delta replaces the one the session has not taken.
EncodeNal ==
  /\ source.next_nal_id < load.nals
  /\ LET type == load.gop[source.gop]
         nal == [session |-> load.session, id |-> source.next_nal_id, type |-> type,
                 from |-> IF type = "P" THEN source.picture ELSE NoId]
     IN  source' = [source EXCEPT
           !.next_nal_id = @ + 1,
           !.gop = (@ % Len(load.gop)) + 1,
           !.picture = IF type \in ParameterSet THEN @ ELSE nal.id,
           !.critical = IF NalIsCritical(type) THEN Append(@, nal) ELSE @,
           !.latest_delta = IF NalIsCritical(type) THEN @ ELSE <<nal>>]
  /\ UNCHANGED <<load, queue, net, video, lidar, history>>

\* capture_task starts the camera process again (it exited, or the operator changed
\* its controls): the stream starts with a new group of pictures, nal ids go on.
CaptureRestart ==
  /\ load.restarts /\ source.gop > 1 /\ source.next_nal_id < load.nals
  /\ source' = [source EXCEPT !.gop = 1]
  /\ UNCHANGED <<load, queue, net, video, lidar, history>>

\* A sensor thread renders a frame into its slot, over one not taken yet.
RenderFrame(s) ==
  /\ s \in load.fitted /\ source.frame_seq[s] < load.frames
  /\ source' = [source EXCEPT !.slots[s] = source.frame_seq[s], !.frame_seq[s] = @ + 1]
  /\ UNCHANGED <<load, queue, net, video, lidar, history>>

-----------------------------------------------------------------------------
(* Robot: session.                                                         *)

\* SESSION_ACCEPT: from here on the session sends what it is given.
Operate ==
  /\ ~load.operating
  /\ load' = [load EXCEPT !.operating = TRUE]
  /\ UNCHANGED <<robot, net, video, lidar, history>>

\* VideoRx::recv prefers the critical channel; the NAL is queued, or dropped while
\* the session is not Operating.
SessionOnNal ==
  /\ source.critical # <<>> \/ source.latest_delta # <<>>
  /\ LET urgent == source.critical # <<>>
         nal == IF urgent THEN Head(source.critical) ELSE Head(source.latest_delta)
     IN  /\ source' = IF urgent THEN [source EXCEPT !.critical = Tail(@)]
                      ELSE [source EXCEPT !.latest_delta = <<>>]
         /\ queue' = IF load.operating THEN PushVideoNal(queue, nal) ELSE queue
  /\ UNCHANGED <<load, net, video, lidar, history>>

\* What sensor s measures in frame seq: a point cloud of varying size, a range
\* image, or a depth map (whose zero is "no depth", so never negative).
Reading(s, seq, i) == Readings[((s + 2 * seq + i) % Len(Readings)) + 1]

Measurement(s, seq) ==
  CASE Kind[s] = "Points"     -> [i \in 1..(seq % 4) |-> Reading(s, seq, i)]
    [] Kind[s] = "RangeImage" -> Array(Beams * Columns, LAMBDA i : Reading(s, seq, i))
    [] Kind[s] = "Depth"      -> Array(Height * Width, LAMBDA i : Larger(Reading(s, seq, i), 0))

\* send_sensor_frames, with every frame SensorRx::recv took: each selected sensor's
\* frame is sliced and queued, in sensor order; frames too are dropped before Operating.
SessionOnSensorFrames ==
  /\ \E s \in Sensors : source.slots[s] # NoId
  /\ source' = [source EXCEPT !.slots = [s \in Sensors |-> NoId]]
  /\ queue' = [queue EXCEPT !.sensors = [s \in Sensors |->
       LET seq == source.slots[s]
       IN  IF seq = NoId \/ s \notin Selected \/ ~load.operating THEN @[s]
           ELSE PushSensorFrame(queue, load.policy, s,
                  SliceFrame(s, seq, Encode(Kind[s], Measurement(s, seq)))).sensors[s]]]
  /\ UNCHANGED <<load, net, video, lidar, history>>

\* How many datagrams of the other class have gone out while a class was waiting.
PassedOver(q, class) ==
  IF q.video = <<>> \/ SensorWaiting(q) = {} THEN 0
  ELSE IF class = "Video" THEN Larger(history.passed_over, 0) + 1
       ELSE -(Larger(-history.passed_over, 0) + 1)

\* feed_lossy takes one datagram, when the rate cap and quiche's queue allow it;
\* the deltas that are waiting may have waited too long.
FeedLossy ==
  /\ Cardinality(chunks) + Cardinality(slices) < MaxInFlight
  /\ \E q \in {queue} \cup (IF DeltaWaiting(queue) THEN {ExpireStaleVideo(queue)} ELSE {}) :
       IF Empty(q)
       THEN /\ queue' = PopNothing(q)
            /\ history' = [history EXCEPT !.passed_over = 0]
            /\ UNCHANGED net
       ELSE LET popped == Pop(q)
            IN  /\ queue' = popped.q
                /\ history' = [history EXCEPT !.passed_over = PassedOver(q, popped.class)]
                /\ IF popped.class = "Video"
                   THEN chunks' = chunks \cup {popped.datagram} /\ UNCHANGED slices
                   ELSE slices' = slices \cup {popped.datagram} /\ UNCHANGED chunks
  /\ UNCHANGED <<load, source, video, lidar>>

-----------------------------------------------------------------------------
(* Network.                                                                *)

Lose ==
  /\ \/ \E c \in chunks : chunks' = chunks \ {c} /\ UNCHANGED slices
     \/ \E d \in slices : slices' = slices \ {d} /\ UNCHANGED chunks
  /\ UNCHANGED <<load, robot, video, lidar, history>>

\* The connection is lost and found again: reconnect_until_success_or_quit makes a
\* new gate and, on the next SESSION_DESCRIBE, new assemblers; video_rx and the
\* playback thread stay.  The robot serves the new session from scratch.
Reconnect ==
  /\ load.session <= load.drops
  /\ load' = [load EXCEPT !.session = @ + 1, !.operating = FALSE]
  /\ source' = NewSource
  /\ queue' = NewLossyQueue
  /\ chunks' = {} /\ slices' = {}
  /\ gate' = NewGate
  /\ sensors' = [s \in Sensors |-> NewAssembler]
  /\ display' = [s \in Sensors |-> <<>>]
  /\ history' = [history EXCEPT !.carried = @ \cup DOMAIN video_rx, !.passed_over = 0]
  /\ UNCHANGED <<video_rx, playback, decoder>>

-----------------------------------------------------------------------------
(* Console: video.                                                         *)

\* NalReassembler::on_chunk: the pending NALs after the chunk.  Chunks are kept
\* by place and the first to claim a place keeps it.
WithChunk(c) ==
  LET entry == IF c.nal.id \in DOMAIN video_rx THEN video_rx[c.nal.id]
               ELSE [parts |-> <<>>, total |-> NoId]
  IN  [parts |-> IF c.index \in DOMAIN entry.parts THEN entry.parts
                 ELSE With(entry.parts, c.index, c.nal),
       total |-> IF c.is_last THEN c.index + 1 ELSE entry.total]

\* Mutant: a NAL is complete when its last chunk arrives.
CompletedByLast(entry) == entry.total # NoId

Completed(entry) == entry.total # NoId /\ DOMAIN entry.parts = 0..(entry.total - 1)

\* The parts are all the chunks of one NAL.
Whole(entry) ==
  \E nal \in {entry.parts[i] : i \in DOMAIN entry.parts} :
    /\ \A i \in DOMAIN entry.parts : entry.parts[i] = nal
    /\ Cardinality(DOMAIN entry.parts) = Len(ChunkNal(nal))

\* Mutant: no bound.
EvictNone(pending) == pending

\* Past max_pending the lowest nal_id is evicted, whatever it is.
Evict(pending) ==
  IF Cardinality(DOMAIN pending) <= MaxPendingNals THEN pending
  ELSE Keep(pending, DOMAIN pending \ {Least(DOMAIN pending)})

\* DeltaGate::admit: whether the NAL goes on, and the gate after it.
Admit(g, id, type) ==
  LET restarted == g.next_id # NoId /\ id + RestartGap < g.next_id
      at == IF restarted THEN NewGate ELSE g
      late == at.next_id # NoId /\ id < at.next_id
      frozen == at.frozen \/ (at.next_id # NoId /\ id > at.next_id)
  IN  IF late THEN [pass |-> type \in ParameterSet, gate |-> at]
      ELSE [pass |-> type # "P" \/ ~frozen,
            gate |-> [next_id |-> id + 1, frozen |-> frozen /\ type # "IDR"]]

\* Mutant: the gate is not told that playback fell behind.
OverflowKept(g) == g

\* playback_overflowed
Overflow(g) == [g EXCEPT !.frozen = TRUE]

\* VideoTx::send: a critical NAL clears the deltas still waiting; a delta that
\* finds DELTA_QUEUE_CAP waiting clears them too, and is discarded with them.
SendToPlayback(nal, g) ==
  IF NalIsCritical(nal.type)
  THEN /\ playback' = [playback EXCEPT !.slot = <<>>, !.critical = Append(@, nal)]
       /\ gate' = g
  ELSE IF Len(playback.slot) >= DeltaQueueCap
  THEN /\ playback' = [playback EXCEPT !.slot = <<>>]
       /\ gate' = Overflow(g)
  ELSE /\ playback' = [playback EXCEPT !.slot = Append(@, nal), !.ready = TRUE]
       /\ gate' = g

\* The NAL handed on: its first byte, and so its type, is in the first chunk.  One
\* that is not whole is no session's picture.
Reassembled(entry) ==
  [entry.parts[Least(DOMAIN entry.parts)] EXCEPT !.session = IF Whole(entry) THEN @ ELSE 0]

\* How a delta can be lost, or get ahead of its picture, without the gate knowing:
\* a late parameter set clears the deltas waiting; a critical NAL arrives while the
\* playback thread is past its look at the critical channel; the first NAL a new
\* gate sees is a delta; a NAL comes so late that the gate takes it for a new stream.
Slips(nal) ==
  \/ nal.type \in ParameterSet /\ nal.id < gate.next_id /\ playback.slot # <<>>
  \/ NalIsCritical(nal.type) /\ playback.taking
  \/ nal.type = "P" /\ gate.next_id = NoId
  \/ nal.type # "IDR" /\ gate.next_id # NoId /\ nal.id + RestartGap < gate.next_id

OnVideoChunk(c) ==
  /\ c \in chunks
  /\ chunks' = chunks \ {c}
  /\ LET entry == WithChunk(c)
         nal == Reassembled(entry)
         admitted == Admit(gate, nal.id, nal.type)
     IN  IF ~Completed(entry)
         THEN /\ video_rx' = Evict(With(video_rx, c.nal.id, entry))
              /\ UNCHANGED <<gate, playback, history>>
         ELSE /\ video_rx' = Evict(Keep(video_rx, DOMAIN video_rx \ {c.nal.id}))
              /\ IF admitted.pass THEN SendToPlayback(nal, admitted.gate)
                 ELSE gate' = admitted.gate /\ UNCHANGED playback
              /\ history' = [history EXCEPT !.slipped = @ \/ Slips(nal),
                                            !.torn = IF Whole(entry) THEN @ ELSE @ \cup {nal.id}]
  /\ UNCHANGED <<load, robot, slices, decoder, lidar>>

\* Writing a NAL to the decoder.  A P is clean if the decoder holds, clean, the
\* picture it was coded from.
Shown(d, nal) ==
  CASE nal.type \in ParameterSet -> d
    [] nal.type = "IDR" -> [picture |-> <<nal.session, nal.id>>, clean |-> TRUE]
    [] nal.type = "P"   -> [picture |-> <<nal.session, nal.id>>,
                            clean |-> d.clean /\ d.picture = <<nal.session, nal.from>>]

\* feed_playback and render_loop: a critical NAL goes first.
PlayCritical ==
  /\ ~playback.taking /\ playback.critical # <<>>
  /\ decoder' = Shown(decoder, Head(playback.critical))
  /\ playback' = [playback EXCEPT !.critical = Tail(@)]
  /\ UNCHANGED <<load, robot, net, video_rx, gate, lidar, history>>

\* Otherwise the thread goes for the deltas: the feeder when it was notified, the
\* render loop whenever it sees the critical channel empty.
PlaybackWakes ==
  /\ ~playback.taking /\ playback.critical = <<>>
  /\ load.backend = "ffplay" => playback.ready
  /\ playback' = [playback EXCEPT !.taking = TRUE, !.ready = FALSE]
  /\ UNCHANGED <<load, robot, net, video_rx, gate, decoder, lidar, history>>

\* The feeder takes delta after delta, and writes them all when none is left; the
\* render loop takes one and decodes it.
PlaybackTakes ==
  /\ playback.taking /\ playback.slot # <<>>
  /\ LET delta == Head(playback.slot)
     IN  IF load.backend = "ffplay"
         THEN /\ playback' = [playback EXCEPT !.slot = Tail(@), !.taken = Append(@, delta)]
              /\ UNCHANGED decoder
         ELSE /\ playback' = [playback EXCEPT !.slot = Tail(@), !.taking = FALSE]
              /\ decoder' = Shown(decoder, delta)
  /\ UNCHANGED <<load, robot, net, video_rx, gate, lidar, history>>

ShownAll(d, nals) ==
  LET upto[i \in 0..Len(nals)] == IF i = 0 THEN d ELSE Shown(upto[i - 1], nals[i])
  IN  upto[Len(nals)]

PlaybackWrites ==
  /\ playback.taking /\ playback.slot = <<>>
  /\ decoder' = ShownAll(decoder, playback.taken)
  /\ playback' = [playback EXCEPT !.taking = FALSE, !.taken = <<>>]
  /\ UNCHANGED <<load, robot, net, video_rx, gate, lidar, history>>

-----------------------------------------------------------------------------
(* Console: sensors.                                                       *)

Released(s, r) ==
  /\ sensors' = [sensors EXCEPT ![s] = r.asm]
  /\ display' = IF r.ready = <<>> THEN display ELSE [display EXCEPT ![s] = r.ready]

OnSensorSlice(d) ==
  /\ d \in slices
  /\ slices' = slices \ {d}
  /\ Released(d.sensor_id, OnSlice(sensors[d.sensor_id], d))
  /\ UNCHANGED <<load, robot, chunks, video, history>>

\* on_tick: frames past their deadline go out as they are.
PollSensors(s) ==
  /\ \E expired \in SUBSET DOMAIN sensors[s].pending :
       expired # {} /\ Released(s, Poll(sensors[s], expired))
  /\ UNCHANGED <<load, robot, net, video, history>>

-----------------------------------------------------------------------------
Next ==
  \/ EncodeNal \/ CaptureRestart \/ \E s \in Sensors : RenderFrame(s)
  \/ Operate \/ SessionOnNal \/ SessionOnSensorFrames \/ FeedLossy
  \/ Lose \/ Reconnect
  \/ \E c \in chunks : OnVideoChunk(c)
  \/ PlayCritical \/ PlaybackWakes \/ PlaybackTakes \/ PlaybackWrites
  \/ \E d \in slices : OnSensorSlice(d)
  \/ \E s \in Sensors : PollSensors(s)

Spec == Init /\ [][Next]_vars

-----------------------------------------------------------------------------
(* Properties.                                                             *)

Nal == [session : Nat, id : Nat, type : NalType, from : Nat \cup {NoId}]

\* Every NAL, chunk and slice is one the robot produced, and the reassembler and the
\* assemblers stay within their bounds (MAX_PENDING_NALS, MAX_PENDING_FRAMES).
TypeOK ==
  /\ load.session \in Nat /\ load.operating \in BOOLEAN
  /\ source.critical \in Seq(Nal) /\ source.latest_delta \in Seq(Nal)
  /\ \A i \in DOMAIN queue.video : queue.video[i].nal \in Nal
  /\ \A c \in chunks : c.nal \in Nal
  /\ \A d \in slices : d.sensor_id \in Selected
  /\ gate \in [next_id : Nat \cup {NoId}, frozen : BOOLEAN]
  /\ playback.critical \in Seq(Nal) /\ playback.slot \in Seq(Nal)
  /\ Cardinality(DOMAIN video_rx) <= MaxPendingNals
  /\ \A s \in Sensors : Cardinality(DOMAIN sensors[s].pending) <= MaxPendingFrames

\* A delta reaches the decoder only on top of the picture it was coded from (gate.rs:
\* freeze, don't smear): whatever the network loses or reorders, whatever the robot's
\* queue drops or expires, and whenever playback falls behind, the picture freezes.
\* Left out are the five ways around the gate that the code has: a delta as the first
\* NAL of a connection, a late parameter set clearing the DeltaSlot, a critical NAL
\* that arrives while the playback thread takes deltas, a NAL more than RESTART_GAP
\* late, and a NAL reassembled from the chunks of two sessions.
FreezeNotSmear == decoder.clean \/ history.slipped \/ history.torn # {}

\* NalReassembler completes a NAL only from all the chunks of that NAL, unless it
\* carried chunks of an older NAL with the same id over a reconnect.
TornOnlyAcrossReconnect == history.torn \subseteq history.carried

\* Neither class of lossy data starves the other: while both wait, they alternate.
ClassesTakeTurns == history.passed_over \in {-1, 0, 1}

\* LossyQueue keeps what the decoder needs: an IDR that is queued has in front of it
\* the parameter sets of its group that have not been sent.
IdrKeepsParameterSets ==
  [][\A i \in DOMAIN queue.video :
       (/\ queue.video[i].nal.type \in ParameterSet
        /\ \E j \in DOMAIN queue'.video :
             queue'.video[j].nal.type = "IDR" /\ \A k \in DOMAIN queue.video :
                                                  queue.video[k].nal # queue'.video[j].nal)
       => \E j \in DOMAIN queue'.video : queue'.video[j].nal = queue.video[i].nal]_vars

Near(unit, v) == LET d == unit * Scale - v IN 2 * d <= Scale /\ -2 * d <= Scale

\* Nothing phantom on the display: every point, range or depth shown was measured at
\* that place in that frame, to half a unit; and a complete frame shows all that
\* the format can carry.
ShowsWhatWasMeasured ==
  \A s \in Sensors : \A n \in DOMAIN display[s] :
    LET frame == display[s][n]
        data == Measurement(s, frame.frame_seq)
        seen == Decode(Kind[s], frame)
    IN  CASE Kind[s] = "Points" ->
               /\ \A p \in seen : \E i \in DOMAIN data : Near(p, data[i])
               /\ Complete(frame) => \A i \in DOMAIN data :
                    (\E u \in -MaxUnit..MaxUnit : Near(u, data[i])) => \E p \in seen : Near(p, data[i])
          [] Kind[s] = "RangeImage" ->
               \A i \in DOMAIN seen :
                 /\ seen[i] = 0 \/ Near(seen[i], data[i])
                 /\ Complete(frame) /\ seen[i] = 0 => \A u \in 1..MaxUnit : ~Near(u, data[i])
          [] Kind[s] = "Depth" ->
               \A i \in DOMAIN seen : seen[i] = data[i] \/ (seen[i] = 0 /\ ~Complete(frame))

\* Under the Finish policy, a frame whose sending began is sent to its last slice.
FinishSendsWhole ==
  [][load.policy = "Finish" /\ load'.session = load.session =>
       \A s \in Sensors :
         LET sq == queue.sensors[s]
         IN  sq.started /\ sq.current # <<>> =>
               \/ queue'.sensors[s].current \in {sq.current, Tail(sq.current)}
               \/ /\ Len(sq.current) = 1 /\ sq.waiting # <<>>
                  /\ queue'.sensors[s].current = sq.waiting]_vars

\* What the console shows of a sensor implements LatestWins (FrameAssembler: frames
\* only ever go out in increasing frame_seq order).
Feed == INSTANCE LatestWins WITH
  Feeds <- Sensors,
  published <- [s \in Sensors |-> source.frame_seq[s] - 1],
  shown <- [s \in Sensors |-> sensors[s].last_emitted]

SensorsAreLatestWins == Feed!Spec

=============================================================================

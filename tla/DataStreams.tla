----------------------------- MODULE DataStreams -----------------------------
(***************************************************************************)
(* Forwarded topics and bulk objects, from the robot to the operator.      *)
(*                                                                         *)
(* Robot: a Forwarder (roboprotocol-zenoh) captures samples of the local   *)
(* bus; the session pushes them into a TopicOutbox (topic.rs) - newest per *)
(* key for Latest, one of two reliable lanes for Reliable - and publishes  *)
(* bulk objects through a BulkSender (bulk_sender.rs).  flush moves        *)
(* datagrams, then reliable samples, then bulk data to the connection,     *)
(* within the lossy rate cap (lossy_rate.rs) and the topics' own RateCap.  *)
(*                                                                         *)
(* Network: each stream is reliable and in order by itself, and streams    *)
(* are independent of each other.  Datagrams are lost and reordered.       *)
(*                                                                         *)
(* Console: topic and bulk streams are told apart by their first byte; a   *)
(* TopicStreamReader per topic stream, one BulkReceiver.                   *)
(*                                                                         *)
(* Bytes are counted in units: a small sample is one, a large sample and a *)
(* bulk object are several.                                                *)
(***************************************************************************)
EXTENDS Integers, Sequences, FiniteSets, SequencesExt

CONSTANTS
  Keys,           \* topic keys
  Objects,        \* bulk objects, by (kind, source_id)
  Workloads,      \* what the robot's bus does, by bounds: records of samples (per key),
                  \* large, latest, versions (per object), joins, drops, losses; congestion
  MaxSamples,     \* the most samples of a key in any workload
  LargeUnits,     \* units of a large sample; a small one, within SMALL_SAMPLE_MAX, is 1
  ObjectUnits,    \* units of a bulk object, its header the first
  Backlog,        \* reliable_backlog, units per lane
  ChannelDepth,   \* CHANNEL_DEPTH of the Forwarder
  MaxStreams,     \* unidirectional streams the console lets the robot have open
  DatagramUnits,  \* the room a datagram needs: MAX_DATAGRAM_SIZE
  CapBurst,       \* units a RateCap holds
  LatestReserve,  \* LATEST_RESERVE
  Window,         \* units a stream takes before the console has read some
  MinRate, MaxRate, MinBurst   \* MIN_BPS, MAX_BPS and MIN_BURST_BYTES of lossy_rate.rs

ASSUME DataStreamsAssumption ==
  /\ {LargeUnits, ObjectUnits} \subseteq Nat \ {0, 1}
  /\ {Backlog, ChannelDepth, MaxStreams, DatagramUnits, CapBurst, MinRate, MinBurst, Window} \subseteq Nat \ {0}
  /\ LatestReserve \in Nat /\ MaxRate \in Nat /\ MinRate <= MaxRate
  /\ Workloads \subseteq [samples : [Keys -> Nat], large : BOOLEAN, latest : [Keys -> Nat], versions : Nat,
                           joins : Nat, drops : Nat, losses : Nat, congestion : BOOLEAN]
  \* A burst always admits a full datagram, and the reserve leaves nothing negative.
  /\ DatagramUnits <= CapBurst /\ DatagramUnits <= MinBurst

Lanes == {"Small", "Large"}
None == 0

VARIABLES
  bus,        \* what has been published: samples per key and mode, versions per object
  capture,    \* Forwarder.outgoing: samples captured, not yet taken by the session
  outbox,     \* TopicOutbox, and the streams of its lanes
  bulk,       \* BulkSender: the version in flight and the one waiting, per object
  rate,       \* LossyRateControl: its rate and its tokens
  cap,        \* RateCap of the topics: its tokens
  wire,       \* streams by id: the units sent and not read yet
  closed,     \* streams the console has read to their end
  datagrams,  \* topic datagrams in the network
  console,    \* readers, bulk_streams, BulkReceiver, and the Forwarder's pause
  local,      \* the console's bus: samples republished, in order; versions of objects
  history     \* what the properties need to know of the past

network == <<wire, closed, datagrams>>
receiver == <<console, local>>
vars == <<bus, capture, outbox, bulk, rate, cap, wire, closed, datagrams, console, local, history>>

NewOutbox == [latest |-> <<>>, order |-> <<>>,
              lanes |-> [l \in Lanes |-> <<>>], stream |-> [l \in Lanes |-> None]]
NewBulk == [active |-> <<>>, waiting |-> <<>>, next_stream |-> 1]
NewReceiver(paused, republish) ==
  [readers |-> {}, bulk_streams |-> {}, partial |-> <<>>, latest |-> [o \in Objects |-> None],
   dropped |-> {}, paused |-> paused, republish |-> republish]
NewBus(w) ==
  [samples |-> w.samples, large |-> w.large, latest |-> w.latest, versions |-> w.versions,
   joins |-> w.joins, drops |-> w.drops, losses |-> w.losses, congestion |-> w.congestion,
   reliable |-> [k \in Keys |-> 0], state |-> [k \in Keys |-> 0], object |-> [o \in Objects |-> 0]]

Init ==
  /\ \E w \in Workloads : bus = NewBus(w)
  /\ capture = <<>> /\ outbox = NewOutbox /\ bulk = NewBulk
  /\ rate = [level |-> MaxRate, tokens |-> MinBurst]
  /\ cap = CapBurst
  /\ wire = <<>> /\ closed = 0 /\ datagrams = {}
  /\ console = NewReceiver(FALSE, <<>>)
  /\ local = [topic |-> [k \in Keys |-> <<>>], state |-> [k \in Keys |-> None], object |-> [o \in Objects |-> None]]
  /\ history = [queued |-> {}, gone |-> {}, exposed |-> {}]

With(f, x, v) == [y \in DOMAIN f \cup {x} |-> IF y = x THEN v ELSE f[y]]
Without(f, S) == [x \in DOMAIN f \ S |-> f[x]]
Less(a, b) == IF a <= b THEN a ELSE b
More(a, b) == IF a >= b THEN a ELSE b

-----------------------------------------------------------------------------
(* The robot's bus and the Forwarder.                                      *)

Captured(sample) ==
  capture' = IF Len(capture) < ChannelDepth THEN Append(capture, sample) ELSE capture

\* A node publishes on a key that is forwarded as Reliable, or as Latest.
PublishReliable(k, size) ==
  /\ size = 1 \/ bus.large
  /\ bus.reliable[k] < bus.samples[k]
  /\ bus' = [bus EXCEPT !.reliable[k] = @ + 1]
  /\ Captured([mode |-> "Reliable", key |-> k, version |-> bus.reliable[k] + 1, units |-> size])
  /\ UNCHANGED <<outbox, bulk, rate, cap, network, receiver, history>>

PublishLatest(k) ==
  /\ bus.state[k] < bus.latest[k]
  /\ bus' = [bus EXCEPT !.state[k] = @ + 1]
  /\ Captured([mode |-> "Latest", key |-> k, version |-> bus.state[k] + 1, units |-> 1])
  /\ UNCHANGED <<outbox, bulk, rate, cap, network, receiver, history>>

-----------------------------------------------------------------------------
(* TopicOutbox.                                                            *)

\* push_latest: the newest of a key takes the place of the one waiting.
Ordered(ob, k) == IF k \in DOMAIN ob.latest THEN ob.order ELSE Append(ob.order, k)

PushLatest(ob, s) == [ob EXCEPT !.latest = With(@, s.key, s.version), !.order = Ordered(ob, s.key)]

\* large_pending: a sample of the key is on the large lane, not all taken.
LargePending(ob, k) == \E i \in DOMAIN ob.lanes["Large"] : ob.lanes["Large"][i].name = k

\* Mutant: a small sample always takes the small lane.
LaneOfSize(ob, s) == IF s.units > 1 THEN "Large" ELSE "Small"

LaneOf(ob, s) == IF s.units > 1 \/ LargePending(ob, s.key) THEN "Large" ELSE "Small"

\* A sample or an object as the units it takes on its stream.
Units(kind, name, version, n) ==
  [i \in 1..n |-> [kind |-> kind, name |-> name, version |-> version, last |-> i = n]]

\* Mutant: a lane takes a sample as long as it is not full.
FitsSome(ob, s) == Len(ob.lanes[LaneOf(ob, s)]) < Backlog

\* A lane at its backlog drops the new sample.
Fits(ob, s) == Len(ob.lanes[LaneOf(ob, s)]) + s.units <= Backlog

PushReliable(ob, s) ==
  LET lane == LaneOf(ob, s)
  IN  IF Fits(ob, s) THEN [ob EXCEPT !.lanes[lane] = @ \o Units(lane, s.key, s.version, s.units)]
      ELSE ob

Push(ob, s) == IF s.mode = "Latest" THEN PushLatest(ob, s) ELSE PushReliable(ob, s)

\* Earlier samples of the key that a sample on this lane may overtake: those the
\* console has not read to the end on the other stream, and small ones still queued.
Exposed(k, lane) ==
  {u.version : u \in {u \in UNION ({Range(outbox.lanes["Small"])} \cup {Range(wire[i]) : i \in DOMAIN wire}) :
                        u.name = k /\ u.kind \in Lanes \ {lane}}}

\* The session takes what the Forwarder captured, one sample after the other.
SessionOnForward ==
  /\ capture # <<>>
  /\ LET s == Head(capture)
         queued == s.mode = "Reliable" /\ Fits(outbox, s)
     IN  /\ outbox' = Push(outbox, s)
         /\ history' = [history EXCEPT
              !.queued = IF queued THEN @ \cup {[mode |-> s.mode, name |-> s.key, version |-> s.version]}
                         ELSE @,
              !.exposed = IF queued
                          THEN @ \cup ({s.key} \X Exposed(s.key, LaneOf(outbox, s)) \X {s.version})
                          ELSE @]
  /\ capture' = Tail(capture)
  /\ UNCHANGED <<bus, bulk, rate, cap, network, receiver>>

-----------------------------------------------------------------------------
(* Rates.  Tokens come back with time; how much depends on the rate.       *)

\* Mutant: the bucket holds no more than a burst at the rate.
CapacityAtRate(level) == level

\* has_room: the bucket holds a burst at the rate, and never less than MIN_BURST_BYTES.
Capacity(level) == More(level, MinBurst)

RefillRate ==
  /\ rate' = [rate EXCEPT !.tokens = Less(@ + rate.level, Capacity(rate.level))]
  /\ rate' # rate
  /\ UNCHANGED <<bus, capture, outbox, bulk, cap, network, receiver, history>>

RefillCap ==
  /\ cap < CapBurst
  /\ cap' = cap + 1
  /\ UNCHANGED <<bus, capture, outbox, bulk, rate, network, receiver, history>>

\* Mutant: the rate may fall to nothing.
ClampedAbove(level) == Less(level, MaxRate)

Clamped(level) == More(MinRate, Less(level, MaxRate))

\* update: down by a fifth when acknowledgements stall or queues build up, else up.
UpdateRate ==
  /\ bus.congestion
  /\ \E congested \in BOOLEAN :
       rate' = [rate EXCEPT !.level = Clamped(IF congested THEN (@ * 4) \div 5 ELSE @ + 1)]
  /\ UNCHANGED <<bus, capture, outbox, bulk, cap, network, receiver, history>>

-----------------------------------------------------------------------------
(* flush: datagrams first, then the small lane, the large lane, the objects. *)

\* feed_lossy takes a topic datagram when both caps have room for a full one.
CanFeed == outbox.order # <<>> /\ rate.tokens >= DatagramUnits /\ cap >= DatagramUnits

\* What it costs is its own size.
FeedTopicDatagram ==
  /\ CanFeed
  /\ LET k == Head(outbox.order)
     IN  /\ datagrams' = datagrams \cup {[name |-> k, version |-> outbox.latest[k]]}
         /\ outbox' = [outbox EXCEPT !.order = Tail(@), !.latest = Without(@, {k})]
  /\ rate' = [rate EXCEPT !.tokens = @ - 1]
  /\ cap' = cap - 1
  /\ UNCHANGED <<bus, capture, bulk, wire, closed, receiver, history>>

\* stream_send: a stream takes a unit when its id is within the stream limit, which
\* grows as the console reads streams to their end, and its window is open.
Sent(id) == IF id \in DOMAIN wire THEN wire[id] ELSE <<>>
Accepts(id) == id <= MaxStreams + closed /\ Len(Sent(id)) < Window
OnWire(unit, opens) ==
  [opens |-> opens, kind |-> unit.kind, name |-> unit.name, version |-> unit.version, last |-> unit.last]
StreamSend(id, unit) ==
  wire' = With(wire, id, Append(Sent(id), OnWire(unit, id \notin DOMAIN wire)))

\* The lane's stream, allocated the first time.
StreamOf(lane) == IF outbox.stream[lane] = None THEN bulk.next_stream ELSE outbox.stream[lane]

\* pump_reliable: tokens are left for a waiting datagram, and the large lane has
\* its turn only while nothing waits on the small one.
Budget == Less(rate.tokens, cap - (IF outbox.order # <<>> THEN LatestReserve ELSE 0))

CanPump(lane) ==
  /\ outbox.lanes[lane] # <<>>
  /\ lane = "Large" => outbox.lanes["Small"] = <<>>
  /\ Budget > 0
  /\ Accepts(StreamOf(lane))

PumpTopics(lane) ==
  /\ ~CanFeed /\ CanPump(lane)
  /\ StreamSend(StreamOf(lane), Head(outbox.lanes[lane]))
  /\ outbox' = [outbox EXCEPT !.lanes[lane] = Tail(@), !.stream[lane] = StreamOf(lane)]
  /\ bulk' = [bulk EXCEPT !.next_stream = IF outbox.stream[lane] = None THEN @ + 1 ELSE @]
  /\ rate' = [rate EXCEPT !.tokens = @ - 1]
  /\ cap' = cap - 1
  /\ UNCHANGED <<bus, capture, closed, datagrams, receiver, history>>

\* BulkSender::start.
Start(b, o, version) ==
  [b EXCEPT !.active = With(@, o, [stream |-> b.next_stream,
                                   left |-> Units("Object", o, version, ObjectUnits)]),
            !.next_stream = @ + 1]

\* publish: a version in flight finishes, and of those behind it the newest waits.
PublishObject(o) ==
  /\ bus.object[o] < bus.versions
  /\ LET v == bus.object[o] + 1
     IN  /\ bus' = [bus EXCEPT !.object[o] = v]
         /\ bulk' = IF o \in DOMAIN bulk.active THEN [bulk EXCEPT !.waiting = With(@, o, v)]
                    ELSE Start(bulk, o, v)
  /\ UNCHANGED <<capture, outbox, rate, cap, network, receiver, history>>

\* Mutant: the version that waited is dropped with the one that went out.
FinishedAlone(b, o) == [b EXCEPT !.active = Without(@, {o}), !.waiting = Without(@, {o})]

\* An object that is all written makes room for the version waiting behind it.
Finished(b, o) ==
  LET done == [b EXCEPT !.active = Without(@, {o}), !.waiting = Without(@, {o})]
  IN  IF o \in DOMAIN b.waiting THEN Start(done, o, b.waiting[o]) ELSE done

PumpBulk(o) ==
  /\ ~CanFeed /\ \A lane \in Lanes : ~CanPump(lane)
  /\ o \in DOMAIN bulk.active /\ rate.tokens > 0
  /\ LET a == bulk.active[o]
     IN  /\ Accepts(a.stream)
         /\ StreamSend(a.stream, Head(a.left))
         /\ bulk' = IF Len(a.left) = 1 THEN Finished(bulk, o)
                    ELSE [bulk EXCEPT !.active[o].left = Tail(@)]
  /\ rate' = [rate EXCEPT !.tokens = @ - 1]
  /\ UNCHANGED <<bus, capture, outbox, cap, closed, datagrams, receiver, history>>

-----------------------------------------------------------------------------
(* Console: topic streams.                                                 *)

\* Forwarder::republish: nothing goes out while paused or when the channel is full.
Republish(c, samples) ==
  LET taken == ~c.paused /\ Len(c.republish) < ChannelDepth
  IN  /\ console' = IF taken THEN [c EXCEPT !.republish = @ \o samples] ELSE c
      /\ history' = IF taken THEN history ELSE [history EXCEPT !.gone = @ \cup Range(samples)]

\* The republishing task puts the next sample on the console's bus.
PutSample ==
  /\ console.republish # <<>>
  /\ LET s == Head(console.republish)
     IN  local' = IF s.mode = "Latest" THEN [local EXCEPT !.state[s.name] = s.version]
                  ELSE [local EXCEPT !.topic[s.name] = Append(@, s.version)]
  /\ console' = [console EXCEPT !.republish = Tail(@)]
  /\ UNCHANGED <<bus, capture, outbox, bulk, rate, cap, network, history>>

Sample(mode, unit) == [mode |-> mode, name |-> unit.name, version |-> unit.version]

OnTopicDatagram(d) ==
  /\ d \in datagrams
  /\ datagrams' = datagrams \ {d}
  /\ Republish(console, <<Sample("Latest", d)>>)
  /\ UNCHANGED <<bus, capture, outbox, bulk, rate, cap, wire, closed, local>>

\* Mutant: every read is told apart by its own first byte.
IsTopicByByte(id, magic) == id \in console.readers \/ magic

\* on_bulk_readable: a stream is a topic stream if it is being read as one, or if its
\* first read starts with the magic.
IsTopic(id, magic) == id \in console.readers \/ (id \notin console.bulk_streams /\ magic)

\* stream_recv: the next unit of the stream; its last one ends the stream.
Read(id) ==
  /\ id \in DOMAIN wire /\ wire[id] # <<>>
  /\ LET fin == Head(wire[id]).kind = "Object" /\ Head(wire[id]).last
     IN  /\ wire' = IF fin THEN Without(wire, {id}) ELSE [wire EXCEPT ![id] = Tail(@)]
         /\ closed' = IF fin THEN closed + 1 ELSE closed

\* The first byte of a read that does not open the stream may be anything.
FirstByteIsMagic(unit) == IF unit.opens THEN {unit.kind # "Object"} ELSE BOOLEAN

\* TopicStreamReader::push: the last unit of a sample completes it.
OnTopicStream(id) ==
  /\ Read(id)
  /\ LET unit == Head(wire[id])
     IN  /\ \E magic \in FirstByteIsMagic(unit) : IsTopic(id, magic)
         /\ Republish([console EXCEPT !.readers = @ \cup {id}],
                      IF unit.last /\ unit.kind # "Object" THEN <<Sample("Reliable", unit)>> ELSE <<>>)
  /\ UNCHANGED <<bus, capture, outbox, bulk, rate, cap, datagrams, local>>

-----------------------------------------------------------------------------
(* Console: bulk objects.                                                  *)

\* on_header: the partial copies a newer version makes pointless.
Stale(c, o, version) ==
  {i \in DOMAIN c.partial : c.partial[i].name = o /\ c.partial[i].version < version}

\* drop_stream: the rest of the stream is ignored until its end.
DropStreams(c, S) == [c EXCEPT !.partial = Without(@, S), !.dropped = @ \cup S]

OnHeader(c, id, unit) ==
  LET newest == [c EXCEPT !.latest[unit.name] = More(@, unit.version),
                          !.partial = With(@, id, [name |-> unit.name, version |-> unit.version,
                                                   have |-> 1])]
  IN  DropStreams(newest, Stale(newest, unit.name, newest.latest[unit.name]))

\* Mutant: whatever completes is delivered.
DeliveredAlways(c, id, unit) == TRUE

\* on_data at the end of a stream: the object is delivered if it is whole and no newer
\* version has started.
Delivered(c, id, unit) ==
  /\ id \in DOMAIN c.partial /\ c.partial[id].have = ObjectUnits - 1
  /\ c.latest[unit.name] <= c.partial[id].version

OnData(c, id, unit) ==
  IF unit.opens THEN OnHeader(c, id, unit)
  ELSE IF unit.last THEN [c EXCEPT !.partial = Without(@, {id}), !.dropped = @ \ {id}]
  ELSE IF id \in DOMAIN c.partial THEN [c EXCEPT !.partial[id].have = @ + 1]
  ELSE c

OnBulkStream(id) ==
  /\ Read(id)
  /\ LET unit == Head(wire[id])
     IN  /\ \E magic \in FirstByteIsMagic(unit) : ~IsTopic(id, magic)
         /\ console' = [OnData(console, id, unit) EXCEPT
              !.bulk_streams = IF unit.last THEN @ \ {id} ELSE @ \cup {id}]
         /\ local' = IF unit.last /\ Delivered(console, id, unit)
                     THEN [local EXCEPT !.object[unit.name] = unit.version] ELSE local
  /\ UNCHANGED <<bus, capture, outbox, bulk, rate, cap, datagrams, history>>

-----------------------------------------------------------------------------
(* What the network and the hosts do.                                      *)

LoseDatagram(d) ==
  /\ bus.losses > 0 /\ d \in datagrams
  /\ datagrams' = datagrams \ {d}
  /\ bus' = [bus EXCEPT !.losses = @ - 1]
  /\ UNCHANGED <<capture, outbox, bulk, rate, cap, wire, closed, receiver, history>>

\* pause_while_visible: the two Zenoh domains are found joined, or apart again.
WatcherPolls ==
  /\ bus.joins > 0
  /\ bus' = [bus EXCEPT !.joins = @ - 1]
  /\ console' = [console EXCEPT !.paused = ~@]
  /\ UNCHANGED <<capture, outbox, bulk, rate, cap, network, local, history>>

\* Samples the robot has queued and the console has not put on its bus.
Underway ==
  {s \in history.queued : s \notin history.gone /\
     s.version \notin Range(local.topic[s.name]) /\ s \notin Range(console.republish)}

\* A new connection: what was queued or in flight goes with the old one, and samples
\* captured before the session operates are discarded.  The versions of objects
\* start over with the session.
Reconnect ==
  /\ bus.drops > 0
  /\ bus' = [bus EXCEPT !.drops = @ - 1, !.object = [o \in Objects |-> 0]]
  /\ capture' = <<>> /\ outbox' = NewOutbox /\ bulk' = NewBulk
  /\ rate' = [level |-> MaxRate, tokens |-> MinBurst] /\ cap' = CapBurst
  /\ wire' = <<>> /\ closed' = 0 /\ datagrams' = {}
  /\ console' = NewReceiver(console.paused, console.republish)
  /\ local' = [local EXCEPT !.object = [o \in Objects |-> None]]
  /\ history' = [history EXCEPT !.gone = @ \cup Underway]

-----------------------------------------------------------------------------
Next ==
  \/ \E k \in Keys : PublishLatest(k) \/ \E size \in {1, LargeUnits} : PublishReliable(k, size)
  \/ \E o \in Objects : PublishObject(o) \/ PumpBulk(o)
  \/ SessionOnForward \/ RefillRate \/ RefillCap \/ UpdateRate
  \/ FeedTopicDatagram \/ \E lane \in Lanes : PumpTopics(lane)
  \/ PutSample \/ \E d \in datagrams : OnTopicDatagram(d) \/ LoseDatagram(d)
  \/ \E id \in DOMAIN wire : OnTopicStream(id) \/ OnBulkStream(id)
  \/ WatcherPolls \/ Reconnect

\* The session's loop keeps flushing and time keeps giving tokens; QUIC delivers what
\* its streams accepted, and the console reads what has arrived.
Fairness ==
  /\ WF_vars(SessionOnForward) /\ WF_vars(RefillRate) /\ WF_vars(RefillCap)
  /\ WF_vars(FeedTopicDatagram) /\ WF_vars(PutSample)
  /\ WF_vars(\E lane \in Lanes : PumpTopics(lane))
  /\ WF_vars(\E o \in Objects : PumpBulk(o))
  /\ WF_vars(\E id \in DOMAIN wire : OnTopicStream(id) \/ OnBulkStream(id))

Spec == Init /\ [][Next]_vars /\ Fairness

-----------------------------------------------------------------------------
(* Properties.                                                             *)

\* Every buffer, lane, channel and token bucket stays within its bound, no stream is
\* opened beyond the peer's limit, the outbox's order lists every key with a datagram once
\* (the expect in pop_datagram), and the console holds no object the robot never made.
TypeOK ==
  /\ rate \in [level : MinRate..MaxRate, tokens : 0..Capacity(MaxRate)]
  /\ cap \in 0..CapBurst
  /\ \A lane \in Lanes : Len(outbox.lanes[lane]) <= Backlog
  /\ Len(capture) <= ChannelDepth /\ Len(console.republish) <= ChannelDepth
  /\ \A i \in DOMAIN wire : i < bulk.next_stream /\ i <= MaxStreams + closed
  /\ IsInjective(outbox.order) /\ Range(outbox.order) = DOMAIN outbox.latest
  /\ \A o \in Objects : local.object[o] \in 0..bus.object[o]

\* The reliable samples of a key reach the console's bus in the order they were queued.
InOrder ==
  \A k \in Keys : \A i, j \in DOMAIN local.topic[k] :
    i < j => local.topic[k][i] < local.topic[k][j]

\* The same, but for two samples on the two streams of which the earlier had not been
\* read by the console when the later was queued.  A large sample still in the outbox
\* is never overtaken.
InOrderUnlessExposed ==
  \A k \in Keys : \A i, j \in DOMAIN local.topic[k] :
    i < j => \/ local.topic[k][i] < local.topic[k][j]
             \/ <<k, local.topic[k][j], local.topic[k][i]>> \in history.exposed

\* A stream is read as one kind only, and as the kind the robot writes on it, whatever
\* bytes its later reads begin with.
StreamsToldApart ==
  /\ console.readers \cap (console.bulk_streams \cup DOMAIN console.partial) = {}
  /\ console.readers \subseteq Range(outbox.stream)

\* Nothing lost: a reliable sample that was queued reaches the console's bus, unless
\* the console is paused, its channel full, or the connection goes.
ReliableArrives ==
  \A k \in Keys : \A v \in 1..MaxSamples :
    [mode |-> "Reliable", name |-> k, version |-> v] \in history.queued ~>
      \/ v \in Range(local.topic[k])
      \/ [mode |-> "Reliable", name |-> k, version |-> v] \in history.gone

\* The caps always let a waiting datagram through in the end.
LatestGoesOut == \A k \in Keys : k \in Range(outbox.order) ~> k \notin Range(outbox.order)

\* The newest version of an object is not superseded by itself: it arrives.
NewestObjectArrives ==
  \A o \in Objects : <>[](local.object[o] = bus.object[o])

\* What the console keeps of an object implements LatestWins.
Bulk == INSTANCE LatestWins WITH
  Feeds <- Objects,
  published <- [o \in Objects |-> bus.object[o] - 1],
  shown <- [o \in Objects |-> local.object[o] - 1]

ObjectsAreLatestWins == Bulk!Spec

=============================================================================

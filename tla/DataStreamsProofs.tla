-------------------------- MODULE DataStreamsProofs --------------------------
(***************************************************************************)
(* What the forwarding of topics and bulk objects guarantees, for every    *)
(* set of keys and objects, every workload and every bound: the buffers'   *)
(* bounds, that topic and bulk streams are told apart, the order of        *)
(* reliable samples, and that what the console keeps of an object          *)
(* implements LatestWins.                                                  *)
(***************************************************************************)
EXTENDS DataStreams, TLAPS

-----------------------------------------------------------------------------
(* The inductive invariants.                                               *)

CapturedSample == [mode : {"Latest", "Reliable"}, key : Keys, version : Nat, units : Nat \ {0}]
RepublishedSample == [mode : {"Latest", "Reliable"}, name : Keys \cup Objects, version : Nat]
QueuedUnit == [kind : Lanes \cup {"Object"}, name : Keys \cup Objects, version : Nat, last : BOOLEAN]
SentUnit == [opens : BOOLEAN, kind : Lanes \cup {"Object"}, name : Keys \cup Objects,
             version : Nat, last : BOOLEAN]

\* The records and sequences of the state; fields of which only the presence matters
\* stand as themselves.
BusShape == bus \in
  [samples : {bus.samples}, large : {bus.large}, latest : {bus.latest}, versions : {bus.versions},
   joins : {bus.joins}, drops : {bus.drops}, losses : {bus.losses}, congestion : {bus.congestion},
   reliable : [Keys -> Nat], state : [Keys -> Nat], object : [Objects -> Nat]]

ConsoleShape(c) ==
  c \in [readers : SUBSET Nat, bulk_streams : SUBSET Nat, partial : {c.partial},
         latest : [Objects -> Nat], dropped : {c.dropped}, paused : {c.paused},
         republish : Seq(RepublishedSample)]

OutboxShape(ob) ==
  /\ ob \in [latest : {ob.latest}, order : Seq(Keys), lanes : [Lanes -> Seq(QueuedUnit)],
             stream : [Lanes -> Nat]]
  /\ \A k \in DOMAIN ob.latest : ob.latest[k] \in Nat

BulkShape(b) == b \in [active : {b.active}, waiting : {b.waiting}, next_stream : Nat \ {0}]

Shape ==
  /\ BusShape
  /\ capture \in Seq(CapturedSample)
  /\ OutboxShape(outbox) /\ BulkShape(bulk)
  /\ DOMAIN bulk.active \subseteq Objects /\ \A o \in DOMAIN bulk.waiting : bulk.waiting[o] \in Nat
  /\ \A o \in DOMAIN bulk.active : /\ bulk.active[o] \in [stream : Nat, left : Seq(QueuedUnit)]
                                   /\ bulk.active[o].left # <<>>
  /\ closed \in Nat /\ datagrams \subseteq [name : Keys, version : Nat]
  /\ DOMAIN wire \subseteq Nat /\ \A id \in DOMAIN wire : wire[id] \in Seq(SentUnit)
  /\ ConsoleShape(console)
  /\ local \in [topic : [Keys -> Seq(Nat)], state : {local.state}, object : [Objects -> Nat]]
  /\ history \in [queued : {history.queued}, gone : {history.gone}, exposed : {history.exposed}]

\* pop_datagram's expect: the order lists every key with a datagram waiting, once.
OutboxInv == IsInjective(outbox.order) /\ Range(outbox.order) = DOMAIN outbox.latest

\* The streams of the two lanes.
TopicStream(id) == id # None /\ \E lane \in Lanes : outbox.stream[lane] = id

\* Stream ids are given out once, to a lane or to an object.
IdsInv ==
  /\ \A lane \in Lanes : outbox.stream[lane] < bulk.next_stream
  /\ \A o \in DOMAIN bulk.active : bulk.active[o].stream \in 1..(bulk.next_stream - 1)
                                   /\ ~TopicStream(bulk.active[o].stream)
  /\ DOMAIN wire \subseteq 1..(bulk.next_stream - 1)
  /\ console.readers \cup console.bulk_streams \cup DOMAIN console.partial \subseteq 1..(bulk.next_stream - 1)

\* A lane queues samples, an object's stream its units, and the wire keeps them apart.
KindsInv ==
  /\ \A lane \in Lanes : \A i \in 1..Len(outbox.lanes[lane]) : outbox.lanes[lane][i].kind = lane
  /\ \A o \in DOMAIN bulk.active : \A i \in 1..Len(bulk.active[o].left) : bulk.active[o].left[i].kind = "Object"
  /\ \A id \in DOMAIN wire : \A i \in 1..Len(wire[id]) : wire[id][i].kind = "Object" <=> ~TopicStream(id)

\* The console knows the kind of every stream it has begun to read, and the first unit of
\* every other is the one that says so.
ReadInv ==
  /\ \A id \in console.readers : TopicStream(id)
  /\ \A id \in console.bulk_streams \cup DOMAIN console.partial : ~TopicStream(id)
  /\ \A id \in DOMAIN wire :
       /\ (wire[id] # <<>> /\ wire[id][1].opens) \/ id \in console.readers \cup console.bulk_streams
       /\ \A i \in 2..Len(wire[id]) : ~wire[id][i].opens

StreamInv == IdsInv /\ KindsInv /\ ReadInv

\* Version v of object o is on stream id: in the sender, on the wire or half received.
Known(id, o, v) ==
  \/ /\ o \in DOMAIN bulk.active /\ id = bulk.active[o].stream
     /\ v = bulk.active[o].left[1].version
  \/ /\ id \in DOMAIN wire
     /\ \E i \in 1..Len(wire[id]) : /\ wire[id][i].kind = "Object" /\ wire[id][i].name = o
                                    /\ wire[id][i].version = v
  \/ /\ id \in DOMAIN console.partial
     /\ o = console.partial[id].name /\ v = console.partial[id].version

\* What the sender still has of an object in flight: its last units, of one version.
ActiveInv ==
  /\ DOMAIN bulk.waiting \subseteq DOMAIN bulk.active
  /\ \A o \in DOMAIN bulk.active :
       LET a == bulk.active[o]
       IN  /\ Len(a.left) <= ObjectUnits
           /\ \A i \in 1..Len(a.left) : /\ a.left[i].name = o
                                        /\ a.left[i].version = a.left[1].version
                                        /\ a.left[i].last <=> i = Len(a.left)
           /\ Len(a.left) = ObjectUnits <=> a.stream \notin DOMAIN wire
           /\ a.stream \in DOMAIN wire => \A i \in 1..Len(wire[a.stream]) : ~wire[a.stream][i].last

\* A version is on one stream and a stream carries one version; of an object, the one in
\* flight is the newest but for the one waiting, and none is newer than the last published.
KnownInv ==
  /\ \A id, o, v : Known(id, o, v) =>
       /\ o \in Objects /\ v \in 1..bus.object[o]
       /\ o \in DOMAIN bulk.waiting => v < bulk.waiting[o]
       /\ o \in DOMAIN bulk.active => v <= bulk.active[o].left[1].version
  /\ \A id, o, v, p, w : Known(id, o, v) /\ Known(id, p, w) => o = p /\ v = w
  /\ \A id, o, v, other : Known(id, o, v) /\ Known(other, o, v) => id = other
  /\ \A o \in DOMAIN bulk.waiting : bulk.waiting[o] \in 1..bus.object[o]

\* What the console has of an object: nothing it has shown will start again, and what is
\* half received is the newest version begun and not shown yet.
ShownInv ==
  /\ \A o \in Objects :
       /\ local.object[o] <= console.latest[o] /\ console.latest[o] <= bus.object[o]
       /\ o \in DOMAIN bulk.waiting => console.latest[o] < bulk.waiting[o]
       /\ o \in DOMAIN bulk.active /\ bulk.active[o].stream \notin DOMAIN wire
            => console.latest[o] < bulk.active[o].left[1].version
  /\ \A id \in DOMAIN wire :
       wire[id] # <<>> /\ wire[id][1].opens /\ wire[id][1].kind = "Object"
         => wire[id][1].version # console.latest[wire[id][1].name]
  /\ \A id \in DOMAIN console.partial :
       /\ console.partial[id].name \in Objects
       /\ console.partial[id].version = console.latest[console.partial[id].name]
       /\ local.object[console.partial[id].name] < console.partial[id].version

ObjectInv == ActiveInv /\ KnownInv /\ ShownInv

-----------------------------------------------------------------------------
(* Lemmas about the operators.                                             *)

\* Adding and removing entries of a map.
LEMMA WithFacts ==
  ASSUME NEW f, NEW x, NEW v
  PROVE  /\ DOMAIN With(f, x, v) = DOMAIN f \cup {x} /\ With(f, x, v)[x] = v
         /\ \A y \in DOMAIN f : y # x => With(f, x, v)[y] = f[y]
  BY DEF With

\* A function without a set has the values it had elsewhere.
LEMMA WithoutFacts ==
  ASSUME NEW f, NEW S
  PROVE  /\ DOMAIN Without(f, S) = DOMAIN f \ S
         /\ \A y \in DOMAIN f \ S : Without(f, S)[y] = f[y]
  BY DEF Without

\* A queue that a unit is added to, or taken from.
LEMMA QueueFacts ==
  ASSUME NEW S, NEW s \in Seq(S)
  PROVE  /\ Len(s) \in Nat /\ \A i \in 1..Len(s) : s[i] \in S
         /\ \A x \in S : /\ Append(s, x) \in Seq(S) /\ Len(Append(s, x)) = Len(s) + 1
                         /\ Append(s, x)[Len(s) + 1] = x
                         /\ \A i \in 1..Len(s) : Append(s, x)[i] = s[i]
         /\ s # <<>> => /\ Len(s) > 0 /\ Head(s) = s[1] /\ s[1] \in S
                        /\ Tail(s) \in Seq(S) /\ Len(Tail(s)) = Len(s) - 1
                        /\ \A i \in 1..(Len(s) - 1) : Tail(s)[i] = s[i + 1]
  OBVIOUS

\* The elements of a concatenation.
LEMMA ConcatFacts ==
  ASSUME NEW S, NEW s \in Seq(S), NEW t \in Seq(S)
  PROVE  /\ s \o t \in Seq(S) /\ Len(s \o t) = Len(s) + Len(t)
         /\ \A i \in 1..Len(s) : (s \o t)[i] = s[i]
         /\ \A i \in 1..Len(t) : (s \o t)[Len(s) + i] = t[i]
         /\ \A i \in 1..Len(s \o t) : i > Len(s) => i - Len(s) \in 1..Len(t) /\ (s \o t)[i] = t[i - Len(s)]
  OBVIOUS

\* The units of a sample or an object: as many as its size, all alike but for the last.
LEMMA UnitsFacts ==
  ASSUME NEW kind \in Lanes \cup {"Object"}, NEW name \in Keys \cup Objects, NEW version \in Nat, NEW n \in Nat \ {0}
  PROVE  /\ Units(kind, name, version, n) \in Seq(QueuedUnit) /\ Len(Units(kind, name, version, n)) = n
         /\ \A i \in 1..n : /\ Units(kind, name, version, n)[i].kind = kind
                            /\ Units(kind, name, version, n)[i].name = name
                            /\ Units(kind, name, version, n)[i].version = version
                            /\ Units(kind, name, version, n)[i].last <=> i = n
<1> DEFINE u == Units(kind, name, version, n)
           rec(b) == [kind |-> kind, name |-> name, version |-> version, last |-> b]
<1>1. \A b \in BOOLEAN : /\ rec(b) \in QueuedUnit
                         /\ rec(b).kind = kind /\ rec(b).name = name /\ rec(b).version = version
                         /\ rec(b).last = b
  BY DEF QueuedUnit
<1>2. u = [i \in 1..n |-> rec(i = n)]
  BY DEF Units
<1> HIDE DEF rec
<1>3. ASSUME NEW i \in 1..n
      PROVE  /\ u[i] \in QueuedUnit /\ u[i].kind = kind /\ u[i].name = name /\ u[i].version = version
             /\ u[i].last <=> i = n
  <2>1. PICK b \in BOOLEAN : b = (i = n)
    OBVIOUS
  <2>2. u[i] = rec(b)
    BY <1>2, <2>1
  <2> HIDE DEF u
  <2>3. u[i] \in QueuedUnit /\ u[i].kind = kind /\ u[i].name = name /\ u[i].version = version
    BY <1>1, <2>2
  <2>4. u[i].last = b
    BY <1>1, <2>2
  <2> QED  BY <2>1, <2>3, <2>4
<1>4. u \in Seq(QueuedUnit) /\ Len(u) = n
  <2>1. u \in [1..n -> QueuedUnit]
    BY <1>2, <1>3
  <2> HIDE DEF u
  <2> QED  BY <2>1
<1> QED  BY <1>3, <1>4

\* A queued unit as the stream carries it.
LEMMA OnWireFacts ==
  ASSUME NEW u \in QueuedUnit, NEW opens \in BOOLEAN
  PROVE  /\ OnWire(u, opens) \in SentUnit
         /\ OnWire(u, opens).opens = opens /\ OnWire(u, opens).kind = u.kind
         /\ OnWire(u, opens).name = u.name /\ OnWire(u, opens).version = u.version
         /\ OnWire(u, opens).last = u.last
  BY DEF OnWire, QueuedUnit, SentUnit

\* stream_send adds one unit at the end of one stream, which it may open.
LEMMA StreamSendFacts ==
  ASSUME Shape, NEW id, NEW unit \in QueuedUnit, StreamSend(id, unit)
  PROVE  /\ DOMAIN wire' = DOMAIN wire \cup {id}
         /\ \A y \in DOMAIN wire : y # id => wire'[y] = wire[y]
         /\ Sent(id) \in Seq(SentUnit) /\ (id \in DOMAIN wire => Sent(id) = wire[id])
         /\ id \notin DOMAIN wire => Len(Sent(id)) = 0
         /\ wire'[id] \in Seq(SentUnit) /\ Len(wire'[id]) = Len(Sent(id)) + 1
         /\ \A i \in 1..Len(Sent(id)) : wire'[id][i] = Sent(id)[i]
         /\ wire'[id][Len(Sent(id)) + 1] = OnWire(unit, id \notin DOMAIN wire)
<1> DEFINE opens == id \notin DOMAIN wire
           u == OnWire(unit, opens)
<1>1. Sent(id) \in Seq(SentUnit) /\ (id \in DOMAIN wire => Sent(id) = wire[id])
      /\ (id \notin DOMAIN wire => Len(Sent(id)) = 0)
  BY DEF Sent, Shape
<1>2. u \in SentUnit
  <2>1. opens \in BOOLEAN
    OBVIOUS
  <2> HIDE DEF opens
  <2> QED  BY <2>1, OnWireFacts
<1> DEFINE longer == Append(Sent(id), u)
<1>3. wire' = With(wire, id, longer)
  BY DEF StreamSend
<1> HIDE DEF longer
<1>4. DOMAIN wire' = DOMAIN wire \cup {id} /\ \A y \in DOMAIN wire : y # id => wire'[y] = wire[y]
  BY <1>3 DEF With
<1>5. wire'[id] = Append(Sent(id), u)
  BY <1>3 DEF With, longer
<1> HIDE DEF u
<1>6. /\ wire'[id] \in Seq(SentUnit) /\ Len(wire'[id]) = Len(Sent(id)) + 1
      /\ \A i \in 1..Len(Sent(id)) : wire'[id][i] = Sent(id)[i]
      /\ wire'[id][Len(Sent(id)) + 1] = u
  BY <1>1, <1>2, <1>5, QueueFacts
<1> QED  BY <1>1, <1>4, <1>6 DEF u

\* stream_recv takes the first unit of one stream, and the stream with an object's last.
LEMMA ReadFacts ==
  ASSUME Shape, NEW id, Read(id)
  PROVE  /\ id \in DOMAIN wire /\ wire[id] # <<>> /\ Len(wire[id]) > 0
         /\ Head(wire[id]) = wire[id][1] /\ wire[id][1] \in SentUnit
         /\ DOMAIN wire' \subseteq DOMAIN wire /\ DOMAIN wire \ {id} \subseteq DOMAIN wire'
         /\ \A y \in DOMAIN wire : y # id => wire'[y] = wire[y]
         /\ id \in DOMAIN wire' <=> ~(wire[id][1].kind = "Object" /\ wire[id][1].last)
         /\ id \in DOMAIN wire' => /\ wire'[id] \in Seq(SentUnit) /\ Len(wire'[id]) = Len(wire[id]) - 1
                                   /\ \A i \in 1..Len(wire'[id]) : wire'[id][i] = wire[id][i + 1]
         /\ closed' \in Nat /\ closed' >= closed
<1> DEFINE fin == wire[id][1].kind = "Object" /\ wire[id][1].last
<1>1. /\ id \in DOMAIN wire /\ wire[id] # <<>> /\ wire[id] \in Seq(SentUnit) /\ closed \in Nat
  BY DEF Read, Shape
<1>2. /\ Len(wire[id]) > 0 /\ Head(wire[id]) = wire[id][1] /\ wire[id][1] \in SentUnit
      /\ Tail(wire[id]) \in Seq(SentUnit) /\ Len(Tail(wire[id])) = Len(wire[id]) - 1
      /\ \A i \in 1..(Len(wire[id]) - 1) : Tail(wire[id])[i] = wire[id][i + 1]
  BY <1>1, QueueFacts
<1>3. /\ fin => wire' = Without(wire, {id}) /\ closed' = closed + 1
      /\ ~fin => wire' = [wire EXCEPT ![id] = Tail(@)] /\ closed' = closed
  BY <1>2 DEF Read
<1>4. CASE fin
  <2>1. DOMAIN wire' = DOMAIN wire \ {id} /\ \A y \in DOMAIN wire \ {id} : wire'[y] = wire[y]
    BY <1>3, <1>4 DEF Without
  <2>2. closed' \in Nat /\ closed' >= closed
    BY <1>1, <1>3, <1>4
  <2>3. id \notin DOMAIN wire' /\ DOMAIN wire' \subseteq DOMAIN wire /\ DOMAIN wire \ {id} \subseteq DOMAIN wire'
    BY <2>1
  <2> HIDE DEF fin
  <2>4. id \in DOMAIN wire' <=> ~fin
    BY <1>4, <2>3
  <2> QED  BY <1>1, <1>2, <2>1, <2>2, <2>3, <2>4 DEF fin
<1>5. CASE ~fin
  <2>1. DOMAIN wire' = DOMAIN wire /\ wire'[id] = Tail(wire[id]) /\ \A y \in DOMAIN wire \ {id} : wire'[y] = wire[y]
    BY <1>1, <1>3, <1>5
  <2> QED  BY <1>1, <1>2, <1>3, <1>5, <2>1
<1> QED  BY <1>4, <1>5

\* The lanes with a sample's units added.
Longer(lane, s) == [outbox.lanes EXCEPT ![lane] = @ \o Units(lane, s.key, s.version, s.units)]

\* push adds a reliable sample's units at the end of one lane, or nothing.
LEMMA PushFacts ==
  ASSUME Shape, NEW s \in CapturedSample, NEW lane, lane = LaneOf(outbox, s),
         NEW ob, ob = Push(outbox, s)
  PROVE  /\ lane \in Lanes
         /\ ob.stream = outbox.stream
         /\ OutboxShape(ob)
         /\ s.mode = "Reliable" /\ Fits(outbox, s) =>
              ob.lanes = Longer(lane, s)
         /\ ~(s.mode = "Reliable" /\ Fits(outbox, s)) => ob.lanes = outbox.lanes
         /\ s.mode = "Reliable" => ob.latest = outbox.latest /\ ob.order = outbox.order
         /\ s.mode # "Reliable" => /\ ob.latest = With(outbox.latest, s.key, s.version)
                                   /\ ob.order = Ordered(outbox, s.key)
<1>s. /\ s.key \in Keys /\ s.version \in Nat /\ s.units \in Nat \ {0}
      /\ s.mode \in {"Latest", "Reliable"}
  BY DEF CapturedSample
<1>l. lane \in Lanes
  BY DEF LaneOf, Lanes
<1> USE DEF OutboxShape
<1>o. OutboxShape(outbox)
  BY DEF Shape
<1>1. CASE s.mode = "Latest"
  <2> DEFINE lt == With(outbox.latest, s.key, s.version)
             or == Ordered(outbox, s.key)
  <2>1. ob = [outbox EXCEPT !.latest = lt, !.order = or]
    BY <1>1 DEF Push, PushLatest
  <2>2. or \in Seq(Keys)
    BY <1>o, <1>s DEF Ordered
  <2>3. \A k \in DOMAIN lt : lt[k] \in Nat
    BY <1>o, <1>s DEF With
  <2> HIDE DEF lt, or
  <2>4. ob \in [latest : {lt}, order : Seq(Keys), lanes : [Lanes -> Seq(QueuedUnit)], stream : [Lanes -> Nat]]
        /\ ob.latest = lt /\ ob.order = or /\ ob.lanes = outbox.lanes /\ ob.stream = outbox.stream
    BY <1>o, <2>1, <2>2
  <2>5. ob.latest = With(outbox.latest, s.key, s.version) /\ ob.order = Ordered(outbox, s.key)
    BY <2>4 DEF lt, or
  <2>6. s.mode # "Reliable"
    BY <1>1
  <2> QED  BY <1>l, <2>3, <2>4, <2>5, <2>6
<1>2. CASE s.mode = "Reliable" /\ Fits(outbox, s)
  <2> DEFINE us == Units(lane, s.key, s.version, s.units)
  <2>1. ob = [outbox EXCEPT !.lanes[lane] = @ \o us]
    BY <1>2 DEF Push, PushReliable
  <2>2. us \in Seq(QueuedUnit)
    BY <1>l, <1>s, UnitsFacts
  <2> DEFINE ls == [outbox.lanes EXCEPT ![lane] = @ \o us]
  <2>3. ls \in [Lanes -> Seq(QueuedUnit)]
    BY <1>o, <1>l, <2>2, ConcatFacts
  <2>4. ob = [outbox EXCEPT !.lanes = ls]
    BY <1>o, <2>1
  <2> HIDE DEF ls
  <2>5. ob \in [latest : {outbox.latest}, order : Seq(Keys), lanes : [Lanes -> Seq(QueuedUnit)], stream : [Lanes -> Nat]]
        /\ ob.latest = outbox.latest /\ ob.order = outbox.order /\ ob.lanes = ls /\ ob.stream = outbox.stream
    BY <1>o, <2>3, <2>4
  <2>6. ls = Longer(lane, s)
    BY DEF ls, Longer
  <2>7. s.mode # "Latest"
    BY <1>2
  <2> QED  BY <1>l, <1>o, <1>2, <2>5, <2>6, <2>7
<1>3. CASE s.mode = "Reliable" /\ ~Fits(outbox, s)
  <2>1. ob = outbox
    BY <1>3 DEF Push, PushReliable
  <2> QED  BY <1>l, <1>o, <1>3, <2>1
<1> QED  BY <1>s, <1>1, <1>2, <1>3

\* republish adds the samples at the end of the channel or drops them.
LEMMA RepublishFacts ==
  ASSUME NEW c, ConsoleShape(c),
         NEW samples \in Seq(RepublishedSample), Republish(c, samples), Shape
  PROVE  /\ ConsoleShape(console')
         /\ console'.readers = c.readers /\ console'.bulk_streams = c.bulk_streams
         /\ console'.partial = c.partial /\ console'.latest = c.latest
         /\ \/ console'.republish = c.republish
            \/ console'.republish = c.republish \o samples /\ Len(c.republish) < ChannelDepth
         /\ history' \in [queued : {history'.queued}, gone : {history'.gone}, exposed : {history'.exposed}]
         /\ history'.exposed = history.exposed
<1> USE DEF ConsoleShape
<1>h. history \in [queued : {history.queued}, gone : {history.gone}, exposed : {history.exposed}]
  BY DEF Shape
<1>1. CASE ~c.paused /\ Len(c.republish) < ChannelDepth
  <2>1. console' = [c EXCEPT !.republish = @ \o samples] /\ history' = history
    BY <1>1 DEF Republish
  <2>2. c.republish \o samples \in Seq(RepublishedSample)
    BY ConcatFacts
  <2> QED  BY <1>h, <1>1, <2>1, <2>2
<1>2. CASE ~(~c.paused /\ Len(c.republish) < ChannelDepth)
  <2>1. console' = c /\ history' = [history EXCEPT !.gone = @ \cup Range(samples)]
    BY <1>2 DEF Republish
  <2> QED  BY <1>h, <2>1
<1> QED  BY <1>1, <1>2

\* BulkSender::start gives the object the next stream id and all its units to send.
LEMMA StartFacts ==
  ASSUME NEW b, BulkShape(b),
         NEW o \in Objects, NEW version \in Nat, NEW new, new = Start(b, o, version)
  PROVE  /\ BulkShape(new)
         /\ new.next_stream = b.next_stream + 1 /\ new.waiting = b.waiting
         /\ DOMAIN new.active = DOMAIN b.active \cup {o}
         /\ \A p \in DOMAIN b.active : p # o => new.active[p] = b.active[p]
         /\ new.active[o].stream = b.next_stream
         /\ new.active[o].left = Units("Object", o, version, ObjectUnits)
         /\ new.active[o] \in [stream : Nat, left : Seq(QueuedUnit)]
<1> USE DEF BulkShape
<1> DEFINE left == Units("Object", o, version, ObjectUnits)
           a == [stream |-> b.next_stream, left |-> left]
           act == With(b.active, o, a)
<1>1. new = [b EXCEPT !.active = act, !.next_stream = @ + 1]
  BY DEF Start
<1>2. left \in Seq(QueuedUnit)
  <2>1. ObjectUnits \in Nat \ {0} /\ "Object" \in Lanes \cup {"Object"} /\ o \in Keys \cup Objects
    BY DataStreamsAssumption
  <2> QED  BY <2>1, UnitsFacts
<1> HIDE DEF left
<1>3. a.stream = b.next_stream /\ a.left = left /\ a \in [stream : Nat, left : Seq(QueuedUnit)]
  BY <1>2
<1> HIDE DEF a
<1>4. /\ DOMAIN act = DOMAIN b.active \cup {o} /\ act[o] = a
      /\ \A p \in DOMAIN b.active : p # o => act[p] = b.active[p]
  BY DEF With
<1> HIDE DEF act
<1>n. b.next_stream + 1 \in Nat \ {0}
  OBVIOUS
<1>5. /\ new \in [active : {act}, waiting : {b.waiting}, next_stream : Nat \ {0}]
      /\ new.active = act /\ new.waiting = b.waiting /\ new.next_stream = b.next_stream + 1
  BY <1>1, <1>n
<1> QED  BY <1>3, <1>4, <1>5 DEF left

\* The sender after an object is all written.
LEMMA FinishedFacts ==
  ASSUME Shape, NEW o \in DOMAIN bulk.active,
         NEW new, new = Finished(bulk, o)
  PROVE  /\ BulkShape(new)
         /\ DOMAIN new.waiting = DOMAIN bulk.waiting \ {o}
         /\ \A p \in DOMAIN new.waiting : new.waiting[p] = bulk.waiting[p]
         /\ DOMAIN bulk.active \ {o} \subseteq DOMAIN new.active
         /\ DOMAIN new.active \subseteq DOMAIN bulk.active
         /\ \A p \in DOMAIN new.active : p # o => new.active[p] = bulk.active[p]
         /\ o \in DOMAIN new.active <=> o \in DOMAIN bulk.waiting
         /\ o \notin DOMAIN bulk.waiting => new.next_stream = bulk.next_stream
         /\ o \in DOMAIN bulk.waiting =>
              /\ new.next_stream = bulk.next_stream + 1
              /\ new.active[o].stream = bulk.next_stream
              /\ new.active[o].left = Units("Object", o, bulk.waiting[o], ObjectUnits)
              /\ new.active[o] \in [stream : Nat, left : Seq(QueuedUnit)]
<1> DEFINE act == Without(bulk.active, {o})
           wait == Without(bulk.waiting, {o})
           done == [bulk EXCEPT !.active = act, !.waiting = wait]
<1> USE DEF BulkShape
<1>b. BulkShape(bulk)
  BY DEF Shape
<1>1. new = IF o \in DOMAIN bulk.waiting THEN Start(done, o, bulk.waiting[o]) ELSE done
  BY DEF Finished
<1>2. /\ DOMAIN act = DOMAIN bulk.active \ {o} /\ \A p \in DOMAIN act : act[p] = bulk.active[p]
      /\ DOMAIN wait = DOMAIN bulk.waiting \ {o} /\ \A p \in DOMAIN wait : wait[p] = bulk.waiting[p]
  BY DEF Without
<1> HIDE DEF act, wait
<1>3. /\ done.active = act /\ done.waiting = wait /\ done.next_stream = bulk.next_stream
      /\ BulkShape(done)
  BY <1>b
<1> HIDE DEF done
<1>4. CASE o \notin DOMAIN bulk.waiting
  BY <1>1, <1>2, <1>3, <1>4
<1>5. CASE o \in DOMAIN bulk.waiting
  <2> DEFINE v == bulk.waiting[o]
  <2>1. new = Start(done, o, v) /\ v \in Nat /\ o \in Objects
    BY <1>1, <1>5 DEF Shape
  <2> HIDE DEF v
  <2>2. /\ BulkShape(new)
        /\ new.next_stream = done.next_stream + 1 /\ new.waiting = done.waiting
        /\ DOMAIN new.active = DOMAIN done.active \cup {o}
        /\ \A p \in DOMAIN done.active : p # o => new.active[p] = done.active[p]
        /\ new.active[o].stream = done.next_stream
        /\ new.active[o].left = Units("Object", o, v, ObjectUnits)
        /\ new.active[o] \in [stream : Nat, left : Seq(QueuedUnit)]
    BY <1>3, <2>1, StartFacts
  <2>3. new.waiting = wait /\ new.next_stream = bulk.next_stream + 1 /\ new.active[o].stream = bulk.next_stream
    BY <1>3, <2>2
  <2>4. DOMAIN new.active = DOMAIN bulk.active /\ \A p \in DOMAIN new.active : p # o => new.active[p] = bulk.active[p]
    BY <1>2, <1>3, <2>2
  <2> QED  BY <1>2, <1>5, <2>2, <2>3, <2>4 DEF v
<1> QED  BY <1>4, <1>5

\* What a header, and any other unit, does to a receiver c that becomes d.
HeaderRead(c, d, id, unit) ==
  /\ d.latest = [c.latest EXCEPT ![unit.name] = More(@, unit.version)]
  /\ \A y \in DOMAIN d.partial :
       ~(d.partial[y].name = unit.name /\ d.partial[y].version < d.latest[unit.name])
  /\ id \in DOMAIN d.partial => d.partial[id].name = unit.name /\ d.partial[id].version = unit.version

RestRead(c, d, id, unit) ==
  /\ d.latest = c.latest /\ DOMAIN d.partial \subseteq DOMAIN c.partial
  /\ unit.last => id \notin DOMAIN d.partial
  /\ id \in DOMAIN d.partial => d.partial[id].name = c.partial[id].name
                                /\ d.partial[id].version = c.partial[id].version

\* BulkReceiver::on_data: a header opens a partial copy and drops those it makes stale,
\* the last unit closes it, any other unit only adds to it.
LEMMA OnDataFacts ==
  ASSUME NEW c, ConsoleShape(c), NEW id, NEW unit \in SentUnit, NEW d, d = OnData(c, id, unit)
  PROVE  /\ ConsoleShape(d)
         /\ d.readers = c.readers /\ d.bulk_streams = c.bulk_streams /\ d.republish = c.republish
         /\ DOMAIN d.partial \subseteq DOMAIN c.partial \cup {id}
         /\ \A y \in DOMAIN d.partial : y # id => d.partial[y].name = c.partial[y].name
                                                  /\ d.partial[y].version = c.partial[y].version
         /\ unit.opens => HeaderRead(c, d, id, unit)
         /\ ~unit.opens => RestRead(c, d, id, unit)
<1>u. unit.name \in Keys \cup Objects /\ unit.version \in Nat
  BY DEF SentUnit
<1>1. CASE unit.opens
  <2> DEFINE rec == [name |-> unit.name, version |-> unit.version, have |-> 1]
             p1 == With(c.partial, id, rec)
             lt == [c.latest EXCEPT ![unit.name] = More(@, unit.version)]
             newest == [c EXCEPT !.latest[unit.name] = More(@, unit.version), !.partial = p1]
             S == Stale(newest, unit.name, newest.latest[unit.name])
             p2 == Without(p1, S)
  <2>1. d = DropStreams(newest, S)
    BY <1>1 DEF OnData, OnHeader
  <2>2. rec.name = unit.name /\ rec.version = unit.version
    OBVIOUS
  <2> HIDE DEF rec
  <2>3. DOMAIN p1 = DOMAIN c.partial \cup {id} /\ p1[id] = rec /\ \A y \in DOMAIN p1 : y # id => p1[y] = c.partial[y]
    BY DEF With
  <2> HIDE DEF p1
  <2>4. lt \in [Objects -> Nat]
    BY <1>u DEF ConsoleShape, More
  <2>5. /\ newest = [c EXCEPT !.latest = lt, !.partial = p1]
    BY DEF ConsoleShape
  <2> HIDE DEF lt, newest
  <2>6. /\ newest.latest = lt /\ newest.partial = p1 /\ ConsoleShape(newest)
        /\ newest.readers = c.readers /\ newest.bulk_streams = c.bulk_streams /\ newest.republish = c.republish
    BY <2>4, <2>5 DEF ConsoleShape
  <2>7. S = {i \in DOMAIN p1 : p1[i].name = unit.name /\ p1[i].version < lt[unit.name]}
    BY <2>6 DEF Stale
  <2> HIDE DEF S
  <2>8. DOMAIN p2 = DOMAIN p1 \ S /\ \A y \in DOMAIN p2 : p2[y] = p1[y]
    BY DEF Without
  <2>9. d = [newest EXCEPT !.partial = p2, !.dropped = @ \cup S]
    BY <2>1, <2>6 DEF DropStreams
  <2> HIDE DEF p2
  <2>10. /\ d.partial = p2 /\ d.latest = lt /\ ConsoleShape(d)
         /\ d.readers = c.readers /\ d.bulk_streams = c.bulk_streams /\ d.republish = c.republish
    BY <2>6, <2>9 DEF ConsoleShape
  <2>11. \A y \in DOMAIN p2 : ~(p2[y].name = unit.name /\ p2[y].version < lt[unit.name])
    BY <2>7, <2>8
  <2>12. DOMAIN p2 \subseteq DOMAIN c.partial \cup {id}
         /\ (\A y \in DOMAIN p2 : y # id => p2[y].name = c.partial[y].name /\ p2[y].version = c.partial[y].version)
         /\ (id \in DOMAIN p2 => p2[id].name = unit.name /\ p2[id].version = unit.version)
    BY <2>2, <2>3, <2>8
  <2>13. HeaderRead(c, d, id, unit)
    BY <2>10, <2>11, <2>12 DEF HeaderRead, lt
  <2> QED  BY <1>1, <2>10, <2>12, <2>13
<1>2. CASE ~unit.opens /\ unit.last
  <2> DEFINE p2 == Without(c.partial, {id})
  <2>1. d = [c EXCEPT !.partial = p2, !.dropped = @ \ {id}]
    BY <1>2 DEF OnData
  <2>2. DOMAIN p2 = DOMAIN c.partial \ {id} /\ \A y \in DOMAIN p2 : p2[y] = c.partial[y]
    BY DEF Without
  <2> HIDE DEF p2
  <2>3. /\ d.partial = p2 /\ d.latest = c.latest /\ ConsoleShape(d)
        /\ d.readers = c.readers /\ d.bulk_streams = c.bulk_streams /\ d.republish = c.republish
    BY <2>1 DEF ConsoleShape
  <2> QED  BY <1>2, <2>2, <2>3 DEF RestRead
<1>3. CASE ~unit.opens /\ ~unit.last
  <2> DEFINE p2 == [c.partial EXCEPT ![id].have = @ + 1]
  <2>1. d = IF id \in DOMAIN c.partial THEN [c EXCEPT !.partial = p2] ELSE c
    <3>1. "partial" \in DOMAIN c
      BY DEF ConsoleShape
    <3> QED  BY <1>3, <3>1 DEF OnData
  <2>2. DOMAIN p2 = DOMAIN c.partial
        /\ \A y \in DOMAIN p2 : p2[y].name = c.partial[y].name /\ p2[y].version = c.partial[y].version
    OBVIOUS
  <2> HIDE DEF p2
  <2>3. CASE id \in DOMAIN c.partial
    <3>1. /\ d.partial = p2 /\ d.latest = c.latest /\ ConsoleShape(d)
          /\ d.readers = c.readers /\ d.bulk_streams = c.bulk_streams /\ d.republish = c.republish
      BY <2>1, <2>3 DEF ConsoleShape
    <3> QED  BY <1>3, <2>2, <2>3, <3>1 DEF RestRead
  <2>4. CASE id \notin DOMAIN c.partial
    BY <1>3, <2>1, <2>4 DEF RestRead
  <2> QED  BY <2>3, <2>4
<1> QED  BY <1>1, <1>2, <1>3 DEF SentUnit

\* An object is at least its header and its last unit.
LEMMA ObjectUnitsFacts ==
  ASSUME NEW o \in Objects, NEW v \in Nat, NEW left, left = Units("Object", o, v, ObjectUnits)
  PROVE  /\ left \in Seq(QueuedUnit) /\ left # <<>> /\ Len(left) = ObjectUnits
         /\ \A i \in 1..ObjectUnits : /\ left[i].kind = "Object" /\ left[i].name = o
                                      /\ left[i].version = v /\ (left[i].last <=> i = ObjectUnits)
<1>1. ObjectUnits \in Nat \ {0} /\ "Object" \in Lanes \cup {"Object"} /\ o \in Keys \cup Objects
  BY DataStreamsAssumption
<1> DEFINE u == Units("Object", o, v, ObjectUnits)
<1>2. /\ u \in Seq(QueuedUnit) /\ Len(u) = ObjectUnits
      /\ \A i \in 1..ObjectUnits : /\ u[i].kind = "Object" /\ u[i].name = o
                                   /\ u[i].version = v /\ (u[i].last <=> i = ObjectUnits)
  BY <1>1, UnitsFacts
<1> HIDE DEF u
<1>3. u # <<>>
  BY <1>1, <1>2
<1> QED  BY <1>2, <1>3 DEF u

\* The outbox, the sender and the receiver of a new connection.
LEMMA NewFacts ==
  /\ OutboxShape(NewOutbox) /\ NewOutbox.order = <<>> /\ NewOutbox.latest = <<>>
  /\ \A lane \in Lanes : NewOutbox.lanes[lane] = <<>> /\ NewOutbox.stream[lane] = None
  /\ BulkShape(NewBulk) /\ NewBulk.active = <<>> /\ NewBulk.waiting = <<>> /\ NewBulk.next_stream = 1
  /\ \A paused : \A republish \in Seq(RepublishedSample) :
       LET c == NewReceiver(paused, republish)
       IN  /\ ConsoleShape(c) /\ c.readers = {} /\ c.bulk_streams = {} /\ c.partial = <<>>
           /\ c.latest = [o \in Objects |-> None] /\ c.republish = republish
<1>1. [l \in Lanes |-> <<>>] \in [Lanes -> Seq(QueuedUnit)] /\ [l \in Lanes |-> None] \in [Lanes -> Nat]
  BY DEF None
<1>2. /\ OutboxShape(NewOutbox) /\ NewOutbox.order = <<>> /\ NewOutbox.latest = <<>>
      /\ \A lane \in Lanes : NewOutbox.lanes[lane] = <<>> /\ NewOutbox.stream[lane] = None
  BY <1>1 DEF NewOutbox, OutboxShape
<1>3. BulkShape(NewBulk) /\ NewBulk.active = <<>> /\ NewBulk.waiting = <<>> /\ NewBulk.next_stream = 1
  BY DEF NewBulk, BulkShape
<1>4. ASSUME NEW paused, NEW republish \in Seq(RepublishedSample), NEW c, c = NewReceiver(paused, republish)
      PROVE  /\ ConsoleShape(c) /\ c.readers = {} /\ c.bulk_streams = {} /\ c.partial = <<>>
             /\ c.latest = [o \in Objects |-> None] /\ c.republish = republish
  <2>1. [o \in Objects |-> None] \in [Objects -> Nat]
    BY DEF None
  <2> QED  BY <1>4, <2>1 DEF NewReceiver, ConsoleShape
<1> QED  BY <1>2, <1>3, <1>4

-----------------------------------------------------------------------------
(* Types and bounds.                                                       *)

\* The bus, by every action that publishes on it or uses a bound up.
LEMMA BusStep == Shape /\ [Next]_vars => BusShape'
  /\ (\A k \in Keys : bus'.reliable[k] >= bus.reliable[k])
  /\ (Reconnect \/ \A o \in Objects : bus'.object[o] >= bus.object[o])
<1> SUFFICES ASSUME Shape, [Next]_vars
             PROVE  /\ BusShape' /\ \A k \in Keys : bus'.reliable[k] >= bus.reliable[k]
                    /\ Reconnect \/ \A o \in Objects : bus'.object[o] >= bus.object[o]
  OBVIOUS
<1> USE DEF BusShape
<1>b. BusShape
  BY DEF Shape
<1>1. CASE UNCHANGED bus
  BY <1>1, <1>b
<1>2. ASSUME NEW k \in Keys, NEW size, PublishReliable(k, size)
      PROVE  /\ BusShape' /\ \A o \in Objects : bus'.object[o] >= bus.object[o]
             /\ \A q \in Keys : bus'.reliable[q] >= bus.reliable[q]
  <2> DEFINE r == [bus.reliable EXCEPT ![k] = @ + 1]
  <2>1. r \in [Keys -> Nat] /\ \A q \in Keys : r[q] >= bus.reliable[q]
    BY <1>b
  <2>2. bus' = [bus EXCEPT !.reliable = r]
    BY <1>2, <1>b DEF PublishReliable
  <2> HIDE DEF r
  <2> QED  BY <1>b, <2>1, <2>2
<1>3. ASSUME NEW k \in Keys, PublishLatest(k)
      PROVE  /\ BusShape' /\ \A o \in Objects : bus'.object[o] >= bus.object[o]
             /\ \A q \in Keys : bus'.reliable[q] >= bus.reliable[q]
  <2> DEFINE r == [bus.state EXCEPT ![k] = @ + 1]
  <2>1. r \in [Keys -> Nat]
    BY <1>b
  <2>2. bus' = [bus EXCEPT !.state = r]
    BY <1>3, <1>b DEF PublishLatest
  <2> HIDE DEF r
  <2> QED  BY <1>b, <2>1, <2>2
<1>4. ASSUME NEW o \in Objects, PublishObject(o)
      PROVE  /\ BusShape' /\ \A p \in Objects : bus'.object[p] >= bus.object[p]
             /\ \A q \in Keys : bus'.reliable[q] >= bus.reliable[q]
  <2> DEFINE r == [bus.object EXCEPT ![o] = @ + 1]
  <2>1. r \in [Objects -> Nat] /\ \A p \in Objects : r[p] >= bus.object[p]
    BY <1>b
  <2>2. bus' = [bus EXCEPT !.object = r]
    BY <1>4, <1>b DEF PublishObject
  <2> HIDE DEF r
  <2> QED  BY <1>b, <2>1, <2>2
<1>5. ASSUME NEW d, LoseDatagram(d)
      PROVE  /\ BusShape' /\ \A o \in Objects : bus'.object[o] >= bus.object[o]
             /\ \A q \in Keys : bus'.reliable[q] >= bus.reliable[q]
  BY <1>5, <1>b DEF LoseDatagram
<1>6. CASE WatcherPolls
  BY <1>6, <1>b DEF WatcherPolls
<1>7. CASE Reconnect
  <2> DEFINE r == [o \in Objects |-> 0]
  <2>1. r \in [Objects -> Nat]
    OBVIOUS
  <2>2. bus' = [bus EXCEPT !.drops = @ - 1, !.object = r]
    BY <1>7 DEF Reconnect
  <2> DEFINE d == bus.drops - 1
  <2>3. bus' = [bus EXCEPT !.drops = d, !.object = r]
    BY <2>2
  <2> HIDE DEF d, r
  <2>4. BusShape' /\ bus'.reliable = bus.reliable
    BY <1>b, <2>1, <2>3
  <2> QED  BY <1>7, <1>b, <2>4
<1>8. ASSUME NEW id, OnTopicStream(id) \/ OnBulkStream(id) PROVE UNCHANGED bus
  BY <1>8 DEF OnTopicStream, OnBulkStream
<1>9. (\E o \in Objects : PumpBulk(o)) \/ SessionOnForward \/ RefillRate \/ RefillCap \/ UpdateRate
        \/ FeedTopicDatagram \/ (\E lane \in Lanes : PumpTopics(lane)) \/ PutSample
        \/ (\E d \in datagrams : OnTopicDatagram(d)) \/ UNCHANGED vars
      => UNCHANGED bus
  BY DEF PumpBulk, SessionOnForward, RefillRate, RefillCap, UpdateRate, FeedTopicDatagram, PumpTopics,
         PutSample, OnTopicDatagram, vars
<1> QED  BY <1>1, <1>2, <1>3, <1>4, <1>5, <1>6, <1>7, <1>8, <1>9 DEF Next

\* Every step keeps the records and sequences what they are.
LEMMA NextShape == Shape /\ OutboxInv /\ [Next]_vars => Shape'
<1> SUFFICES ASSUME Shape, OutboxInv, [Next]_vars PROVE Shape'
  OBVIOUS
<1>b. BusShape'
  BY BusStep
<1>t. /\ BusShape /\ capture \in Seq(CapturedSample) /\ OutboxShape(outbox) /\ BulkShape(bulk)
      /\ ConsoleShape(console) /\ closed \in Nat
      /\ local \in [topic : [Keys -> Seq(Nat)], state : {local.state}, object : [Objects -> Nat]]
      /\ history \in [queued : {history.queued}, gone : {history.gone}, exposed : {history.exposed}]
  BY DEF Shape
<1>1. ASSUME NEW s \in CapturedSample, Captured(s), UNCHANGED <<outbox, bulk, network, receiver, history>>
      PROVE  Shape'
  <2>1. capture' \in Seq(CapturedSample)
    BY <1>1, <1>t DEF Captured
  <2> QED  BY <1>1, <1>b, <2>1 DEF Shape, network, receiver
<1>2. ASSUME NEW k \in Keys, PublishLatest(k) PROVE Shape'
  <2> DEFINE s == [mode |-> "Latest", key |-> k, version |-> bus.state[k] + 1, units |-> 1]
  <2>1. s \in CapturedSample
    BY <1>t DEF BusShape, CapturedSample
  <2>2. Captured(s) /\ UNCHANGED <<outbox, bulk, network, receiver, history>>
    BY <1>2 DEF PublishLatest
  <2> HIDE DEF s
  <2> QED  BY <1>1, <2>1, <2>2
<1>3. ASSUME NEW k \in Keys, NEW size \in {1, LargeUnits}, PublishReliable(k, size) PROVE Shape'
  <2> DEFINE s == [mode |-> "Reliable", key |-> k, version |-> bus.reliable[k] + 1, units |-> size]
  <2>a. size \in Nat \ {0}
    BY DataStreamsAssumption
  <2>b. bus.reliable[k] + 1 \in Nat
    BY <1>t DEF BusShape
  <2>1. s \in CapturedSample
    BY <2>a, <2>b DEF CapturedSample
  <2>2. Captured(s) /\ UNCHANGED <<outbox, bulk, network, receiver, history>>
    BY <1>3 DEF PublishReliable
  <2> HIDE DEF s
  <2> QED  BY <1>1, <2>1, <2>2
<1>4. CASE SessionOnForward
  <2>1. /\ capture # <<>> /\ outbox' = Push(outbox, Head(capture)) /\ capture' = Tail(capture)
        /\ UNCHANGED <<bulk, network, receiver>>
    BY <1>4 DEF SessionOnForward
  <2>2. history' \in [queued : {history'.queued}, gone : {history'.gone}, exposed : {history'.exposed}]
    BY <1>t, <1>4 DEF SessionOnForward
  <2>3. Head(capture) \in CapturedSample /\ capture' \in Seq(CapturedSample)
    BY <1>t, <2>1, QueueFacts
  <2>4. OutboxShape(outbox')
    BY <2>1, <2>3, PushFacts
  <2> QED  BY <1>b, <2>1, <2>2, <2>3, <2>4 DEF Shape, network, receiver
<1>5. CASE RefillRate \/ RefillCap \/ UpdateRate
  BY <1>b, <1>5 DEF Shape, RefillRate, RefillCap, UpdateRate, network, receiver
<1>6. CASE FeedTopicDatagram
  <2> DEFINE k == Head(outbox.order)
             lt == Without(outbox.latest, {k})
  <2>1. /\ outbox.order # <<>> /\ outbox' = [outbox EXCEPT !.order = Tail(@), !.latest = lt]
        /\ datagrams' = datagrams \cup {[name |-> k, version |-> outbox.latest[k]]}
        /\ UNCHANGED <<bus, capture, bulk, wire, closed, receiver, history>>
    BY <1>6 DEF FeedTopicDatagram, CanFeed
  <2>2. outbox.order \in Seq(Keys)
    BY <1>t DEF OutboxShape
  <2>3. k \in Keys /\ k = outbox.order[1] /\ 1 \in DOMAIN outbox.order /\ Tail(outbox.order) \in Seq(Keys)
    BY <2>1, <2>2
  <2>4. k \in DOMAIN outbox.latest
    BY <2>3 DEF OutboxInv, Range
  <2>5. \A x \in DOMAIN lt : lt[x] \in Nat
    BY <1>t DEF OutboxShape, Without
  <2>6. outbox.latest[k] \in Nat
    BY <1>t, <2>4 DEF OutboxShape
  <2> HIDE DEF lt, k
  <2>7. OutboxShape(outbox')
    BY <1>t, <2>1, <2>3, <2>5 DEF OutboxShape
  <2>8. datagrams' \subseteq [name : Keys, version : Nat]
    BY <2>1, <2>3, <2>6 DEF Shape
  <2> QED  BY <1>b, <2>1, <2>7, <2>8 DEF Shape, receiver
<1> DEFINE WireShape == DOMAIN wire \subseteq Nat /\ \A y \in DOMAIN wire : wire[y] \in Seq(SentUnit)
<1>w. ASSUME NEW id \in Nat, NEW unit \in QueuedUnit, StreamSend(id, unit) PROVE WireShape'
  <2>1. WireShape
    BY DEF Shape
  <2>2. /\ DOMAIN wire' = DOMAIN wire \cup {id} /\ wire'[id] \in Seq(SentUnit)
        /\ \A y \in DOMAIN wire : y # id => wire'[y] = wire[y]
    BY <1>w, StreamSendFacts
  <2> QED  BY <2>1, <2>2
<1>7. ASSUME NEW lane \in Lanes, PumpTopics(lane) PROVE Shape'
  <2> DEFINE ls == [outbox.lanes EXCEPT ![lane] = Tail(@)]
             st == [outbox.stream EXCEPT ![lane] = StreamOf(lane)]
  <2>1. /\ outbox.lanes[lane] # <<>>
        /\ StreamSend(StreamOf(lane), Head(outbox.lanes[lane]))
        /\ outbox' = [outbox EXCEPT !.lanes[lane] = Tail(@), !.stream[lane] = StreamOf(lane)]
        /\ bulk' = [bulk EXCEPT !.next_stream = IF outbox.stream[lane] = None THEN @ + 1 ELSE @]
        /\ UNCHANGED <<bus, capture, closed, datagrams, receiver, history>>
    BY <1>7 DEF PumpTopics, CanPump
  <2>2. outbox' = [outbox EXCEPT !.lanes = ls, !.stream = st]
    BY <1>t, <2>1 DEF OutboxShape
  <2>3. ls \in [Lanes -> Seq(QueuedUnit)] /\ Head(outbox.lanes[lane]) \in QueuedUnit
    BY <1>t, <2>1 DEF OutboxShape
  <2>4. st \in [Lanes -> Nat]
    BY <1>t DEF OutboxShape, BulkShape, StreamOf
  <2>5. WireShape'
    BY <1>w, <1>t, <2>1, <2>3 DEF StreamOf, OutboxShape, BulkShape
  <2>6. BulkShape(bulk') /\ bulk'.active = bulk.active /\ bulk'.waiting = bulk.waiting
    BY <1>t, <2>1 DEF BulkShape
  <2> HIDE DEF ls, st
  <2>7. OutboxShape(outbox')
    BY <1>t, <2>2, <2>3, <2>4 DEF OutboxShape
  <2> QED  BY <1>b, <2>1, <2>5, <2>6, <2>7 DEF Shape, receiver
<1>8. ASSUME NEW o \in Objects, PublishObject(o) PROVE Shape'
  <2> DEFINE v == bus.object[o] + 1
  <2>1. /\ bulk' = IF o \in DOMAIN bulk.active THEN [bulk EXCEPT !.waiting = With(@, o, v)]
                   ELSE Start(bulk, o, v)
        /\ UNCHANGED <<capture, outbox, network, receiver, history>>
    BY <1>8 DEF PublishObject
  <2>2. v \in Nat
    BY <1>t DEF BusShape
  <2> HIDE DEF v
  <2>3. CASE o \in DOMAIN bulk.active
    <3> DEFINE wt == With(bulk.waiting, o, v)
    <3>1. bulk' = [bulk EXCEPT !.waiting = wt]
      BY <2>1, <2>3
    <3>2. \A p \in DOMAIN wt : wt[p] \in Nat
      BY <2>2 DEF With, Shape
    <3> HIDE DEF wt
    <3>3. BulkShape(bulk') /\ bulk'.active = bulk.active /\ bulk'.waiting = wt
      BY <1>t, <3>1 DEF BulkShape
    <3> QED  BY <1>b, <2>1, <3>2, <3>3 DEF Shape, network, receiver
  <2>4. CASE o \notin DOMAIN bulk.active
    <3>1. /\ BulkShape(bulk') /\ bulk'.waiting = bulk.waiting
          /\ DOMAIN bulk'.active = DOMAIN bulk.active \cup {o}
          /\ \A p \in DOMAIN bulk.active : p # o => bulk'.active[p] = bulk.active[p]
          /\ bulk'.active[o] \in [stream : Nat, left : Seq(QueuedUnit)]
          /\ bulk'.active[o].left = Units("Object", o, v, ObjectUnits)
      BY <1>t, <2>1, <2>2, <2>4, StartFacts
    <3>2. bulk'.active[o].left # <<>>
      BY <2>2, <3>1, ObjectUnitsFacts
    <3> QED  BY <1>b, <2>1, <3>1, <3>2 DEF Shape, network, receiver
  <2> QED  BY <2>3, <2>4
<1>9. ASSUME NEW o \in Objects, PumpBulk(o) PROVE Shape'
  <2> DEFINE a == bulk.active[o]
  <2>1. /\ o \in DOMAIN bulk.active /\ StreamSend(a.stream, Head(a.left))
        /\ Len(a.left) = 1 => bulk' = Finished(bulk, o)
        /\ Len(a.left) # 1 => bulk' = [bulk EXCEPT !.active[o].left = Tail(@)]
        /\ UNCHANGED <<bus, capture, outbox, closed, datagrams, receiver, history>>
    BY <1>9 DEF PumpBulk
  <2>2. a \in [stream : Nat, left : Seq(QueuedUnit)] /\ a.left # <<>>
    BY <2>1 DEF Shape
  <2>3. Head(a.left) \in QueuedUnit /\ Tail(a.left) \in Seq(QueuedUnit) /\ (Len(a.left) # 1 => Tail(a.left) # <<>>)
    <3>1. a.left \in Seq(QueuedUnit) /\ a.left # <<>>
      BY <2>2
    <3> DEFINE l == a.left
    <3> HIDE DEF a, l
    <3>2. Head(l) \in QueuedUnit /\ Tail(l) \in Seq(QueuedUnit) /\ (Len(l) # 1 => Tail(l) # <<>>)
      <4>1. l \in Seq(QueuedUnit) /\ l # <<>>
        BY <3>1 DEF l
      <4>2. Head(l) \in QueuedUnit /\ Tail(l) \in Seq(QueuedUnit) /\ Len(Tail(l)) = Len(l) - 1
            /\ Len(l) \in Nat /\ Len(l) # 0
        BY <4>1
      <4>e. Len(<<>>) = 0
        OBVIOUS
      <4>3. Tail(l) = <<>> => Len(Tail(l)) = 0
        BY <4>e, Zenon
      <4> QED  BY <4>2, <4>3
    <3> QED  BY <3>2 DEF l
  <2>4. WireShape'
    BY <1>w, <2>1, <2>2, <2>3
  <2>5. CASE Len(a.left) = 1
    <3>1. /\ BulkShape(bulk')
          /\ DOMAIN bulk'.waiting \subseteq DOMAIN bulk.waiting
          /\ \A p \in DOMAIN bulk'.waiting : bulk'.waiting[p] = bulk.waiting[p]
          /\ DOMAIN bulk'.active \subseteq DOMAIN bulk.active
          /\ \A p \in DOMAIN bulk'.active : p # o => bulk'.active[p] = bulk.active[p]
          /\ o \in DOMAIN bulk'.active =>
               /\ o \in DOMAIN bulk.waiting
               /\ bulk'.active[o].left = Units("Object", o, bulk.waiting[o], ObjectUnits)
               /\ bulk'.active[o] \in [stream : Nat, left : Seq(QueuedUnit)]
      BY <2>1, <2>5, FinishedFacts
    <3>2. o \in DOMAIN bulk'.active => bulk'.active[o].left # <<>>
      BY <3>1, ObjectUnitsFacts DEF Shape
    <3> QED  BY <1>b, <2>1, <2>4, <3>1, <3>2 DEF Shape, receiver
  <2>6. CASE Len(a.left) # 1
    <3> DEFINE act == [bulk.active EXCEPT ![o].left = Tail(@)]
    <3>1. bulk' = [bulk EXCEPT !.active = act]
      BY <1>t, <2>1, <2>6 DEF BulkShape
    <3>2. /\ DOMAIN act = DOMAIN bulk.active /\ \A p \in DOMAIN act : p # o => act[p] = bulk.active[p]
          /\ act[o] \in [stream : Nat, left : Seq(QueuedUnit)] /\ act[o].left = Tail(a.left)
      BY <2>1, <2>2, <2>3
    <3> HIDE DEF act
    <3>3. BulkShape(bulk') /\ bulk'.active = act /\ bulk'.waiting = bulk.waiting
      BY <1>t, <3>1 DEF BulkShape
    <3> QED  BY <1>b, <2>1, <2>3, <2>4, <2>6, <3>2, <3>3 DEF Shape, receiver
  <2> QED  BY <2>5, <2>6
<1>10. CASE PutSample
  <2>1. UNCHANGED <<bus, capture, outbox, bulk, network, history>>
    BY <1>10 DEF PutSample
  <2>2. ConsoleShape(console')
    <3>1. console.republish \in Seq(RepublishedSample) /\ console.republish # <<>>
          /\ console' = [console EXCEPT !.republish = Tail(@)]
      BY <1>t, <1>10 DEF PutSample, ConsoleShape
    <3>2. Tail(console.republish) \in Seq(RepublishedSample)
      BY <3>1, QueueFacts
    <3> DEFINE rest == Tail(console.republish)
    <3>3. console' = [console EXCEPT !.republish = rest]
      BY <3>1
    <3> HIDE DEF rest
    <3> QED  BY <1>t, <3>2, <3>3 DEF ConsoleShape, rest
  <2>3. local' \in [topic : [Keys -> Seq(Nat)], state : {local'.state}, object : [Objects -> Nat]]
    <3> DEFINE s == Head(console.republish)
    <3>1. s \in RepublishedSample
      BY <1>t, <1>10 DEF PutSample, ConsoleShape
    <3>2. local' = IF s.mode = "Latest" THEN [local EXCEPT !.state[s.name] = s.version]
                   ELSE [local EXCEPT !.topic[s.name] = Append(@, s.version)]
      BY <1>10 DEF PutSample
    <3> HIDE DEF s
    <3>3. s.version \in Nat
      BY <3>1 DEF RepublishedSample
    <3>4. [local.topic EXCEPT ![s.name] = Append(@, s.version)] \in [Keys -> Seq(Nat)]
      <4> DEFINE f == [local.topic EXCEPT ![s.name] = Append(@, s.version)]
      <4>1. ASSUME NEW k \in Keys PROVE f[k] \in Seq(Nat)
        <5>1. local.topic[k] \in Seq(Nat)
          BY <1>t
        <5> QED  BY <1>t, <3>3, <5>1
      <4>2. f = [k \in Keys |-> f[k]]
        BY <1>t
      <4> HIDE DEF f
      <4> QED  BY <4>1, <4>2 DEF f
    <3> QED  BY <1>t, <3>2, <3>4
  <2> QED  BY <1>b, <2>1, <2>2, <2>3 DEF Shape, network
<1>11. ASSUME NEW d \in datagrams, OnTopicDatagram(d) PROVE Shape'
  <2>1. /\ datagrams' = datagrams \ {d} /\ Republish(console, <<Sample("Latest", d)>>)
        /\ UNCHANGED <<bus, capture, outbox, bulk, wire, closed, local>>
    BY <1>11 DEF OnTopicDatagram
  <2>2. Sample("Latest", d) \in RepublishedSample
    BY DEF Shape, Sample, RepublishedSample
  <2>3. <<Sample("Latest", d)>> \in Seq(RepublishedSample)
    BY <2>2
  <2>4. /\ ConsoleShape(console')
        /\ history' \in [queued : {history'.queued}, gone : {history'.gone}, exposed : {history'.exposed}]
    BY <1>t, <2>1, <2>3, RepublishFacts
  <2> QED  BY <1>b, <2>1, <2>4 DEF Shape
<1>12. ASSUME NEW d, LoseDatagram(d) PROVE Shape'
  BY <1>b, <1>12 DEF Shape, LoseDatagram, receiver
<1>r. ASSUME NEW id, Read(id) PROVE WireShape' /\ closed' \in Nat
  <2>1. WireShape
    BY DEF Shape
  <2> QED  BY <1>r, <2>1, ReadFacts
<1>13. ASSUME NEW id \in DOMAIN wire, OnTopicStream(id) PROVE Shape'
  <2> DEFINE unit == wire[id][1]
             c == [console EXCEPT !.readers = @ \cup {id}]
             samples == IF unit.last /\ unit.kind # "Object" THEN <<Sample("Reliable", unit)>> ELSE <<>>
  <2>1. Read(id) /\ UNCHANGED <<bus, capture, outbox, bulk, datagrams, local>>
    BY <1>13 DEF OnTopicStream
  <2>2. Head(wire[id]) = unit /\ unit \in SentUnit
    BY <2>1, ReadFacts
  <2>3. Republish(c, samples)
    BY <1>13, <2>2 DEF OnTopicStream
  <2>4. samples \in Seq(RepublishedSample)
    <3>1. Sample("Reliable", unit) \in RepublishedSample
      BY <2>2 DEF SentUnit, Sample, RepublishedSample
    <3> HIDE DEF unit
    <3> QED  BY <3>1
  <2>5. id \in Nat
    BY <2>1 DEF Shape
  <2>6. ConsoleShape(c)
    BY <1>t, <2>5 DEF ConsoleShape
  <2> HIDE DEF c, samples
  <2>7. /\ ConsoleShape(console')
        /\ history' \in [queued : {history'.queued}, gone : {history'.gone}, exposed : {history'.exposed}]
    BY <2>3, <2>4, <2>6, RepublishFacts
  <2> QED  BY <1>b, <1>r, <2>1, <2>7 DEF Shape
<1>14. ASSUME NEW id \in DOMAIN wire, OnBulkStream(id) PROVE Shape'
  <2> DEFINE unit == wire[id][1]
             d == OnData(console, id, unit)
             streams == IF unit.last THEN d.bulk_streams \ {id} ELSE d.bulk_streams \cup {id}
  <2>1. Read(id) /\ UNCHANGED <<bus, capture, outbox, bulk, datagrams, history>>
    BY <1>14 DEF OnBulkStream
  <2>2. Head(wire[id]) = unit /\ unit \in SentUnit
    BY <2>1, ReadFacts
  <2>3. /\ console' = [d EXCEPT !.bulk_streams = IF unit.last THEN @ \ {id} ELSE @ \cup {id}]
        /\ local' = IF unit.last /\ Delivered(console, id, unit)
                    THEN [local EXCEPT !.object[unit.name] = unit.version] ELSE local
    BY <1>14, <2>2 DEF OnBulkStream
  <2> HIDE DEF unit
  <2>4. ConsoleShape(d)
    BY <1>t, <2>2, OnDataFacts
  <2>5. id \in Nat
    BY <2>1 DEF Shape
  <2>6. unit.version \in Nat
    BY <2>2 DEF SentUnit
  <2> HIDE DEF d
  <2>7. console' = [d EXCEPT !.bulk_streams = streams] /\ streams \subseteq Nat
    BY <2>3, <2>4, <2>5 DEF ConsoleShape
  <2> HIDE DEF streams
  <2>8. ConsoleShape(console')
    BY <2>4, <2>7 DEF ConsoleShape
  <2>9. local' \in [topic : [Keys -> Seq(Nat)], state : {local'.state}, object : [Objects -> Nat]]
    BY <1>t, <2>3, <2>6
  <2> QED  BY <1>b, <1>r, <2>1, <2>8, <2>9 DEF Shape
<1>15. CASE WatcherPolls
  <2>1. ConsoleShape(console')
    BY <1>t, <1>15 DEF WatcherPolls, ConsoleShape
  <2> QED  BY <1>b, <1>15, <2>1 DEF Shape, WatcherPolls, network
<1>16. CASE Reconnect
  <2>1. /\ capture' = <<>> /\ outbox' = NewOutbox /\ bulk' = NewBulk
        /\ wire' = <<>> /\ closed' = 0 /\ datagrams' = {}
        /\ console' = NewReceiver(console.paused, console.republish)
        /\ local' = [local EXCEPT !.object = [o \in Objects |-> None]]
        /\ history' = [history EXCEPT !.gone = @ \cup Underway]
    BY <1>16 DEF Reconnect
  <2>6. /\ DOMAIN wire' = {} /\ capture' \in Seq(CapturedSample) /\ closed' \in Nat
        /\ datagrams' \subseteq [name : Keys, version : Nat]
    BY <2>1
  <2>2. OutboxShape(outbox') /\ BulkShape(bulk') /\ bulk'.active = <<>> /\ bulk'.waiting = <<>>
    BY <2>1, NewFacts
  <2>7. DOMAIN bulk'.active = {} /\ DOMAIN bulk'.waiting = {}
    BY <2>2
  <2>3. ConsoleShape(console')
    BY <1>t, <2>1, NewFacts DEF ConsoleShape
  <2>4. local' \in [topic : [Keys -> Seq(Nat)], state : {local'.state}, object : [Objects -> Nat]]
    <3>1. [o \in Objects |-> None] \in [Objects -> Nat]
      BY DEF None
    <3> QED  BY <1>t, <2>1, <3>1
  <2>5. history' \in [queued : {history'.queued}, gone : {history'.gone}, exposed : {history'.exposed}]
    BY <1>t, <2>1
  <2> QED  BY <1>b, <2>1, <2>2, <2>3, <2>4, <2>5, <2>6, <2>7 DEF Shape
<1>17. CASE UNCHANGED vars
  BY <1>b, <1>17 DEF Shape, vars, network, receiver
<1> QED
  BY <1>2, <1>3, <1>4, <1>5, <1>6, <1>7, <1>8, <1>9, <1>10, <1>11, <1>12, <1>13, <1>14, <1>15, <1>16, <1>17
  DEF Next

-----------------------------------------------------------------------------
(* What the steps do to streams.                                           *)

\* All that streams, kinds and objects depend on.
streams == <<outbox.stream, outbox.lanes, bulk, wire, console.readers, console.bulk_streams,
             console.partial, console.latest, local.object, bus.object>>

Quiet == \/ (\E k \in Keys : PublishLatest(k) \/ \E size \in {1, LargeUnits} : PublishReliable(k, size))
         \/ RefillRate \/ RefillCap \/ UpdateRate \/ FeedTopicDatagram \/ PutSample
         \/ (\E d \in datagrams : OnTopicDatagram(d) \/ LoseDatagram(d))
         \/ WatcherPolls \/ UNCHANGED vars

\* Datagrams, rates, the buses and the Forwarders leave the streams alone.
LEMMA QuietFacts == Shape /\ Quiet => UNCHANGED streams
<1> SUFFICES ASSUME Shape, Quiet PROVE UNCHANGED streams
  OBVIOUS
<1>t. /\ BusShape /\ OutboxShape(outbox) /\ ConsoleShape(console)
      /\ local \in [topic : [Keys -> Seq(Nat)], state : {local.state}, object : [Objects -> Nat]]
  BY DEF Shape
<1>1. ASSUME NEW k \in Keys, PublishLatest(k) PROVE UNCHANGED streams
  BY <1>1, <1>t DEF PublishLatest, BusShape, network, receiver, streams
<1>2. ASSUME NEW k \in Keys, NEW size, PublishReliable(k, size) PROVE UNCHANGED streams
  BY <1>2, <1>t DEF PublishReliable, BusShape, network, receiver, streams
<1>3. CASE RefillRate \/ RefillCap \/ UpdateRate
  BY <1>3 DEF RefillRate, RefillCap, UpdateRate, network, receiver, streams
<1>4. CASE FeedTopicDatagram
  BY <1>4, <1>t DEF FeedTopicDatagram, OutboxShape, receiver, streams
<1>5. CASE PutSample
  <2>1. /\ console'.readers = console.readers /\ console'.bulk_streams = console.bulk_streams
        /\ console'.partial = console.partial /\ console'.latest = console.latest
    BY <1>5, <1>t DEF PutSample, ConsoleShape
  <2>2. local'.object = local.object
    BY <1>5, <1>t DEF PutSample
  <2> QED  BY <1>5, <2>1, <2>2 DEF PutSample, network, streams
<1>6. ASSUME NEW d \in datagrams, OnTopicDatagram(d) PROVE UNCHANGED streams
  <2>1. /\ Republish(console, <<Sample("Latest", d)>>)
        /\ UNCHANGED <<bus, capture, outbox, bulk, wire, closed, local>>
    BY <1>6 DEF OnTopicDatagram
  <2>2. Sample("Latest", d) \in RepublishedSample
    BY DEF Shape, Sample, RepublishedSample
  <2>3. <<Sample("Latest", d)>> \in Seq(RepublishedSample)
    BY <2>2
  <2> QED  BY <1>t, <2>1, <2>3, RepublishFacts DEF streams
<1>7. ASSUME NEW d, LoseDatagram(d) PROVE UNCHANGED streams
  BY <1>7, <1>t DEF LoseDatagram, BusShape, receiver, streams
<1>8. CASE WatcherPolls
  BY <1>8, <1>t DEF WatcherPolls, BusShape, ConsoleShape, network, streams
<1>9. CASE UNCHANGED vars
  BY <1>9 DEF vars, network, receiver, streams
<1> QED  BY <1>1, <1>2, <1>3, <1>4, <1>5, <1>6, <1>7, <1>8, <1>9 DEF Quiet

\* A sample is queued on a lane: only that lane grows.
LEMMA QueuesFacts ==
  ASSUME Shape, SessionOnForward, NEW s, s = capture[1], NEW lane, lane = LaneOf(outbox, s)
  PROVE  /\ s \in CapturedSample /\ lane \in Lanes
         /\ UNCHANGED <<outbox.stream, bus, bulk, wire, console, local>>
         /\ s.mode = "Reliable" /\ Fits(outbox, s) => outbox'.lanes = Longer(lane, s)
         /\ ~(s.mode = "Reliable" /\ Fits(outbox, s)) => outbox'.lanes = outbox.lanes
         /\ s.mode = "Reliable" => outbox'.latest = outbox.latest /\ outbox'.order = outbox.order
         /\ s.mode # "Reliable" => /\ outbox'.latest = With(outbox.latest, s.key, s.version)
                                   /\ outbox'.order = Ordered(outbox, s.key)
<1>1. /\ capture # <<>> /\ outbox' = Push(outbox, Head(capture))
      /\ UNCHANGED <<bus, bulk, network, receiver>>
  BY DEF SessionOnForward
<1>2. capture \in Seq(CapturedSample)
  BY DEF Shape
<1>3. Head(capture) = s /\ s \in CapturedSample
  BY <1>1, <1>2
<1>4. outbox' = Push(outbox, s)
  BY <1>1, <1>3
<1>5. /\ lane \in Lanes /\ outbox'.stream = outbox.stream
      /\ s.mode = "Reliable" /\ Fits(outbox, s) => outbox'.lanes = Longer(lane, s)
      /\ ~(s.mode = "Reliable" /\ Fits(outbox, s)) => outbox'.lanes = outbox.lanes
      /\ s.mode = "Reliable" => outbox'.latest = outbox.latest /\ outbox'.order = outbox.order
      /\ s.mode # "Reliable" => /\ outbox'.latest = With(outbox.latest, s.key, s.version)
                                /\ outbox'.order = Ordered(outbox, s.key)
  BY <1>3, <1>4, PushFacts
<1>6. UNCHANGED <<bus, bulk, wire, console, local>>
  BY <1>1 DEF network, receiver
<1> QED  BY <1>3, <1>5, <1>6

\* A lane's first unit goes out on the lane's stream, a new one the first time.
LEMMA PumpsTopicsFacts ==
  ASSUME Shape, NEW lane \in Lanes, PumpTopics(lane), NEW id, id = StreamOf(lane),
         NEW unit, unit = outbox.lanes[lane][1]
  PROVE  /\ id \in Nat /\ unit \in QueuedUnit /\ Len(outbox.lanes[lane]) > 0
         /\ StreamSend(id, unit)
         /\ UNCHANGED <<bus, bulk.active, bulk.waiting, console, local, history, capture,
                        outbox.order, outbox.latest>>
         /\ outbox'.stream = [outbox.stream EXCEPT ![lane] = id]
         /\ outbox'.lanes = [outbox.lanes EXCEPT ![lane] = Tail(@)]
         /\ Tail(outbox.lanes[lane]) \in Seq(QueuedUnit)
         /\ Len(Tail(outbox.lanes[lane])) = Len(outbox.lanes[lane]) - 1
         /\ \A i \in 1..(Len(outbox.lanes[lane]) - 1) : Tail(outbox.lanes[lane])[i] = outbox.lanes[lane][i + 1]
         /\ \/ outbox.stream[lane] # None /\ id = outbox.stream[lane] /\ bulk'.next_stream = bulk.next_stream
            \/ outbox.stream[lane] = None /\ id = bulk.next_stream /\ bulk'.next_stream = bulk.next_stream + 1
<1>t. OutboxShape(outbox) /\ BulkShape(bulk)
  BY DEF Shape
<1>1. /\ outbox.lanes[lane] # <<>>
      /\ StreamSend(StreamOf(lane), Head(outbox.lanes[lane]))
      /\ outbox' = [outbox EXCEPT !.lanes[lane] = Tail(@), !.stream[lane] = StreamOf(lane)]
      /\ bulk' = [bulk EXCEPT !.next_stream = IF outbox.stream[lane] = None THEN @ + 1 ELSE @]
      /\ UNCHANGED <<bus, capture, receiver, history>>
  BY DEF PumpTopics, CanPump
<1>2. outbox.lanes[lane] \in Seq(QueuedUnit) /\ outbox.stream[lane] \in Nat
  BY <1>t DEF OutboxShape
<1> DEFINE l == outbox.lanes[lane]
<1>3. /\ Head(l) = l[1] /\ l[1] \in QueuedUnit /\ Len(l) > 0 /\ Tail(l) \in Seq(QueuedUnit)
      /\ Len(Tail(l)) = Len(l) - 1 /\ \A i \in 1..(Len(l) - 1) : Tail(l)[i] = l[i + 1]
  <2> HIDE DEF l
  <2>1. l \in Seq(QueuedUnit) /\ l # <<>>
    BY <1>1, <1>2 DEF l
  <2> QED  BY <2>1
<1>4. StreamSend(id, unit)
  BY <1>1, <1>3
<1>5. /\ outbox'.stream = [outbox.stream EXCEPT ![lane] = id]
      /\ outbox'.lanes = [outbox.lanes EXCEPT ![lane] = Tail(@)]
      /\ UNCHANGED <<outbox.order, outbox.latest>>
  BY <1>1, <1>t DEF OutboxShape
<1>6. /\ UNCHANGED <<bulk.active, bulk.waiting>>
      /\ bulk'.next_stream = IF outbox.stream[lane] = None THEN bulk.next_stream + 1 ELSE bulk.next_stream
  BY <1>1, <1>t DEF BulkShape
<1>7. id = IF outbox.stream[lane] = None THEN bulk.next_stream ELSE outbox.stream[lane]
  BY DEF StreamOf
<1> QED  BY <1>t, <1>1, <1>2, <1>3, <1>4, <1>5, <1>6, <1>7 DEF receiver, BulkShape

\* publish: the new version waits behind the one in flight, or starts on a new stream.
LEMMA PublishesFacts ==
  ASSUME Shape, NEW o \in Objects, PublishObject(o), NEW v, v = bus.object[o] + 1
  PROVE  /\ v \in Nat /\ bus'.object = [bus.object EXCEPT ![o] = v]
         /\ UNCHANGED <<outbox, wire, closed, console, local, capture, bus.reliable, history>>
         /\ o \in DOMAIN bulk.active =>
              /\ UNCHANGED <<bulk.active, bulk.next_stream>>
              /\ DOMAIN bulk'.waiting = DOMAIN bulk.waiting \cup {o} /\ bulk'.waiting[o] = v
              /\ \A p \in DOMAIN bulk.waiting : p # o => bulk'.waiting[p] = bulk.waiting[p]
         /\ o \notin DOMAIN bulk.active =>
              /\ UNCHANGED bulk.waiting /\ bulk'.next_stream = bulk.next_stream + 1
              /\ DOMAIN bulk'.active = DOMAIN bulk.active \cup {o}
              /\ \A p \in DOMAIN bulk.active : bulk'.active[p] = bulk.active[p]
              /\ bulk'.active[o].stream = bulk.next_stream
              /\ bulk'.active[o].left = Units("Object", o, v, ObjectUnits)
<1>t. BusShape /\ BulkShape(bulk)
  BY DEF Shape
<1>1. /\ bus' = [bus EXCEPT !.object[o] = v]
      /\ bulk' = IF o \in DOMAIN bulk.active THEN [bulk EXCEPT !.waiting = With(@, o, v)]
                 ELSE Start(bulk, o, v)
      /\ UNCHANGED <<outbox, network, receiver, capture, history>>
  BY DEF PublishObject
<1>2. v \in Nat /\ bus'.object = [bus.object EXCEPT ![o] = v] /\ UNCHANGED bus.reliable
  BY <1>t, <1>1 DEF BusShape
<1>3. CASE o \in DOMAIN bulk.active
  <2> DEFINE wt == With(bulk.waiting, o, v)
  <2>1. /\ DOMAIN wt = DOMAIN bulk.waiting \cup {o} /\ wt[o] = v
        /\ \A p \in DOMAIN bulk.waiting : p # o => wt[p] = bulk.waiting[p]
    BY DEF With
  <2>2. bulk' = [bulk EXCEPT !.waiting = wt]
    BY <1>1, <1>3
  <2> HIDE DEF wt
  <2>3. bulk'.waiting = wt /\ UNCHANGED <<bulk.active, bulk.next_stream>>
    BY <1>t, <2>2 DEF BulkShape
  <2> QED  BY <1>1, <1>2, <1>3, <2>1, <2>3 DEF network, receiver
<1>4. CASE o \notin DOMAIN bulk.active
  <2>1. /\ UNCHANGED bulk.waiting /\ bulk'.next_stream = bulk.next_stream + 1
        /\ DOMAIN bulk'.active = DOMAIN bulk.active \cup {o}
        /\ \A p \in DOMAIN bulk.active : p # o => bulk'.active[p] = bulk.active[p]
        /\ bulk'.active[o].stream = bulk.next_stream
        /\ bulk'.active[o].left = Units("Object", o, v, ObjectUnits)
    BY <1>t, <1>1, <1>2, <1>4, StartFacts
  <2> QED  BY <1>1, <1>2, <1>4, <2>1 DEF network, receiver
<1> QED  BY <1>3, <1>4

\* What the sender keeps of an object after a unit that is not its last, and after its last.
UnitTaken(o, id, l) ==
  /\ UNCHANGED <<bulk.waiting, bulk.next_stream>>
  /\ DOMAIN bulk'.active = DOMAIN bulk.active /\ bulk'.active[o].stream = id
  /\ bulk'.active[o].left = Tail(l)
  /\ Len(Tail(l)) = Len(l) - 1
  /\ \A i \in 1..(Len(l) - 1) : Tail(l)[i] = l[i + 1]

ObjectFinished(o) ==
  /\ DOMAIN bulk'.waiting = DOMAIN bulk.waiting \ {o}
  /\ \A p \in DOMAIN bulk'.waiting : bulk'.waiting[p] = bulk.waiting[p]
  /\ o \in DOMAIN bulk'.active <=> o \in DOMAIN bulk.waiting
  /\ o \notin DOMAIN bulk.waiting => UNCHANGED bulk.next_stream
  /\ o \in DOMAIN bulk.waiting =>
       /\ bulk'.next_stream = bulk.next_stream + 1
       /\ bulk'.active[o].stream = bulk.next_stream
       /\ bulk'.active[o].left = Units("Object", o, bulk.waiting[o], ObjectUnits)

\* A unit of an object goes out; after the last one the version waiting starts.
LEMMA PumpsBulkFacts ==
  ASSUME Shape, NEW o \in Objects, PumpBulk(o),
         NEW id, id = bulk.active[o].stream, NEW l, l = bulk.active[o].left
  PROVE  /\ o \in DOMAIN bulk.active /\ id \in Nat /\ l \in Seq(QueuedUnit) /\ Len(l) > 0 /\ l[1] \in QueuedUnit
         /\ StreamSend(id, l[1])
         /\ UNCHANGED <<outbox, bus, console, local, closed, capture, history>>
         /\ \A p \in DOMAIN bulk.active : p # o => p \in DOMAIN bulk'.active /\ bulk'.active[p] = bulk.active[p]
         /\ DOMAIN bulk'.active \subseteq DOMAIN bulk.active
         /\ Len(l) # 1 => UnitTaken(o, id, l)
         /\ Len(l) = 1 => ObjectFinished(o)
<1>t. BulkShape(bulk)
  BY DEF Shape
<1>1. /\ o \in DOMAIN bulk.active /\ StreamSend(id, Head(l))
      /\ Len(l) = 1 => bulk' = Finished(bulk, o)
      /\ Len(l) # 1 => bulk' = [bulk EXCEPT !.active[o].left = Tail(@)]
      /\ UNCHANGED <<bus, capture, outbox, closed, receiver, history>>
  BY DEF PumpBulk
<1>2. id \in Nat /\ l \in Seq(QueuedUnit) /\ l # <<>> /\ bulk.active[o] \in [stream : Nat, left : Seq(QueuedUnit)]
  BY <1>1 DEF Shape
<1>3. /\ Head(l) = l[1] /\ l[1] \in QueuedUnit /\ Len(l) > 0 /\ Len(Tail(l)) = Len(l) - 1
      /\ \A i \in 1..(Len(l) - 1) : Tail(l)[i] = l[i + 1]
  BY <1>2
<1>4. StreamSend(id, l[1])
  BY <1>1, <1>3
<1>5. CASE Len(l) # 1
  <2> DEFINE act == [bulk.active EXCEPT ![o].left = Tail(l)]
  <2>1. bulk' = [bulk EXCEPT !.active = act]
    BY <1>t, <1>1, <1>5 DEF BulkShape
  <2>2. /\ DOMAIN act = DOMAIN bulk.active /\ \A p \in DOMAIN act : p # o => act[p] = bulk.active[p]
        /\ act[o].stream = id /\ act[o].left = Tail(l)
    BY <1>1, <1>2
  <2> HIDE DEF act
  <2>3. bulk'.active = act /\ UNCHANGED <<bulk.waiting, bulk.next_stream>>
    BY <1>t, <2>1 DEF BulkShape
  <2>4. UnitTaken(o, id, l)
    BY <1>3, <2>2, <2>3 DEF UnitTaken
  <2> QED  BY <1>1, <1>2, <1>3, <1>4, <1>5, <2>2, <2>3, <2>4 DEF receiver
<1>6. CASE Len(l) = 1
  <2>1. /\ DOMAIN bulk'.waiting = DOMAIN bulk.waiting \ {o}
        /\ \A p \in DOMAIN bulk'.waiting : bulk'.waiting[p] = bulk.waiting[p]
        /\ DOMAIN bulk.active \ {o} \subseteq DOMAIN bulk'.active
        /\ DOMAIN bulk'.active \subseteq DOMAIN bulk.active
        /\ \A p \in DOMAIN bulk'.active : p # o => bulk'.active[p] = bulk.active[p]
        /\ o \in DOMAIN bulk'.active <=> o \in DOMAIN bulk.waiting
        /\ o \notin DOMAIN bulk.waiting => UNCHANGED bulk.next_stream
        /\ o \in DOMAIN bulk.waiting =>
             /\ bulk'.next_stream = bulk.next_stream + 1
             /\ bulk'.active[o].stream = bulk.next_stream
             /\ bulk'.active[o].left = Units("Object", o, bulk.waiting[o], ObjectUnits)
    BY <1>1, <1>6, FinishedFacts
  <2>2. ObjectFinished(o)
    BY <2>1 DEF ObjectFinished
  <2> QED  BY <1>1, <1>2, <1>3, <1>4, <1>6, <2>1, <2>2 DEF receiver
<1> QED  BY <1>5, <1>6

\* A unit of a topic stream is read: the stream is known as one from here on.
LEMMA ReadsTopicFacts ==
  ASSUME Shape, NEW id, OnTopicStream(id), NEW unit, unit = wire[id][1]
  PROVE  /\ Read(id) /\ unit \in SentUnit
         /\ \E magic \in FirstByteIsMagic(unit) : IsTopic(id, magic)
         /\ console'.readers = console.readers \cup {id}
         /\ UNCHANGED <<bus, capture, outbox, bulk, local, console.bulk_streams, console.partial,
                        console.latest, history.exposed>>
         /\ \/ UNCHANGED console.republish
            \/ /\ Len(console.republish) < ChannelDepth
               /\ ~(unit.last /\ unit.kind # "Object")
               /\ console'.republish = console.republish \o <<>>
            \/ /\ Len(console.republish) < ChannelDepth
               /\ unit.last /\ unit.kind # "Object"
               /\ console'.republish = console.republish \o <<Sample("Reliable", unit)>>
<1> DEFINE c == [console EXCEPT !.readers = @ \cup {id}]
           samples == IF unit.last /\ unit.kind # "Object" THEN <<Sample("Reliable", unit)>> ELSE <<>>
<1>t. ConsoleShape(console)
  BY DEF Shape
<1>1. Read(id) /\ UNCHANGED <<bus, capture, outbox, bulk, local>>
  BY DEF OnTopicStream
<1>2. Head(wire[id]) = unit /\ unit \in SentUnit /\ id \in DOMAIN wire
  BY <1>1, ReadFacts
<1>3. Republish(c, samples) /\ \E magic \in FirstByteIsMagic(unit) : IsTopic(id, magic)
  BY <1>2 DEF OnTopicStream
<1>4. samples \in Seq(RepublishedSample)
  <2>1. Sample("Reliable", unit) \in RepublishedSample
    BY <1>2 DEF SentUnit, Sample, RepublishedSample
  <2> QED  BY <2>1
<1>5. id \in Nat
  BY <1>2 DEF Shape
<1>6. /\ ConsoleShape(c) /\ c.readers = console.readers \cup {id} /\ c.bulk_streams = console.bulk_streams
      /\ c.partial = console.partial /\ c.latest = console.latest /\ c.republish = console.republish
  BY <1>t, <1>5 DEF ConsoleShape
<1> HIDE DEF c, samples
<1>7. /\ console'.readers = c.readers /\ console'.bulk_streams = c.bulk_streams
      /\ console'.partial = c.partial /\ console'.latest = c.latest /\ history'.exposed = history.exposed
      /\ \/ console'.republish = c.republish
         \/ console'.republish = c.republish \o samples /\ Len(c.republish) < ChannelDepth
  BY <1>3, <1>4, <1>6, RepublishFacts
<1>8. CASE unit.last /\ unit.kind # "Object"
  BY <1>1, <1>2, <1>3, <1>6, <1>7, <1>8 DEF samples
<1>9. CASE ~(unit.last /\ unit.kind # "Object")
  BY <1>1, <1>2, <1>3, <1>6, <1>7, <1>9 DEF samples
<1> QED  BY <1>8, <1>9

\* What the console makes of a unit of an object's stream.
BulkRead(id, unit) ==
  /\ console'.partial = OnData(console, id, unit).partial
  /\ console'.latest = OnData(console, id, unit).latest
  /\ local'.object = IF unit.last /\ Delivered(console, id, unit)
                     THEN [local.object EXCEPT ![unit.name] = unit.version] ELSE local.object

\* A unit of an object's stream is read.
LEMMA ReadsBulkFacts ==
  ASSUME Shape, NEW id, OnBulkStream(id), NEW unit, unit = wire[id][1]
  PROVE  /\ Read(id) /\ unit \in SentUnit
         /\ \E magic \in FirstByteIsMagic(unit) : ~IsTopic(id, magic)
         /\ UNCHANGED <<bus, capture, outbox, bulk, console.readers, console.republish, local.topic, history>>
         /\ console'.bulk_streams = IF unit.last THEN console.bulk_streams \ {id}
                                    ELSE console.bulk_streams \cup {id}
         /\ BulkRead(id, unit)
<1>t. ConsoleShape(console)
      /\ local \in [topic : [Keys -> Seq(Nat)], state : {local.state}, object : [Objects -> Nat]]
  BY DEF Shape
<1>1. Read(id) /\ UNCHANGED <<bus, capture, outbox, bulk, history>>
  BY DEF OnBulkStream
<1>2. Head(wire[id]) = unit /\ unit \in SentUnit
  BY <1>1, ReadFacts
<1> DEFINE d == OnData(console, id, unit)
<1>3. /\ console' = [d EXCEPT !.bulk_streams = IF unit.last THEN @ \ {id} ELSE @ \cup {id}]
      /\ local' = IF unit.last /\ Delivered(console, id, unit)
                  THEN [local EXCEPT !.object[unit.name] = unit.version] ELSE local
      /\ \E magic \in FirstByteIsMagic(unit) : ~IsTopic(id, magic)
  BY <1>2 DEF OnBulkStream
<1>4. /\ ConsoleShape(d) /\ d.readers = console.readers /\ d.bulk_streams = console.bulk_streams
      /\ d.republish = console.republish
  BY <1>t, <1>2, OnDataFacts
<1> HIDE DEF d
<1>5. /\ console'.readers = d.readers /\ console'.partial = d.partial /\ console'.latest = d.latest
      /\ console'.republish = d.republish
      /\ console'.bulk_streams = IF unit.last THEN d.bulk_streams \ {id} ELSE d.bulk_streams \cup {id}
  BY <1>3, <1>4 DEF ConsoleShape
<1>6. /\ local'.object = IF unit.last /\ Delivered(console, id, unit)
                         THEN [local.object EXCEPT ![unit.name] = unit.version] ELSE local.object
      /\ UNCHANGED local.topic
  BY <1>t, <1>3
<1>7. BulkRead(id, unit)
  BY <1>5, <1>6 DEF BulkRead, d
<1>8. console'.bulk_streams = IF unit.last THEN console.bulk_streams \ {id} ELSE console.bulk_streams \cup {id}
  BY <1>4, <1>5, Zenon
<1> QED  BY <1>1, <1>2, <1>3, <1>4, <1>5, <1>6, <1>7, <1>8

\* A new connection starts from nothing.
LEMMA ReconnectFacts ==
  ASSUME Shape, Reconnect
  PROVE  /\ capture' = <<>> /\ DOMAIN wire' = {} /\ closed' = 0
         /\ \A lane \in Lanes : outbox'.lanes[lane] = <<>> /\ outbox'.stream[lane] = None
         /\ outbox'.order = <<>> /\ DOMAIN outbox'.latest = {}
         /\ DOMAIN bulk'.active = {} /\ DOMAIN bulk'.waiting = {} /\ bulk'.next_stream = 1
         /\ console'.readers = {} /\ console'.bulk_streams = {} /\ DOMAIN console'.partial = {}
         /\ console'.latest = [o \in Objects |-> None] /\ UNCHANGED <<console.republish, local.topic, history.exposed>>
         /\ local'.object = [o \in Objects |-> None] /\ bus'.object = [o \in Objects |-> 0]
<1>t. BusShape /\ ConsoleShape(console)
      /\ local \in [topic : [Keys -> Seq(Nat)], state : {local.state}, object : [Objects -> Nat]]
      /\ history \in [queued : {history.queued}, gone : {history.gone}, exposed : {history.exposed}]
  BY DEF Shape
<1>1. /\ capture' = <<>> /\ outbox' = NewOutbox /\ bulk' = NewBulk
      /\ wire' = <<>> /\ closed' = 0 /\ datagrams' = {}
      /\ console' = NewReceiver(console.paused, console.republish)
      /\ local' = [local EXCEPT !.object = [o \in Objects |-> None]]
      /\ bus' = [bus EXCEPT !.drops = @ - 1, !.object = [o \in Objects |-> 0]]
      /\ history' = [history EXCEPT !.gone = @ \cup Underway]
  BY DEF Reconnect
<1>2. console.republish \in Seq(RepublishedSample)
  BY <1>t DEF ConsoleShape
<1>3. /\ console'.readers = {} /\ console'.bulk_streams = {} /\ console'.partial = <<>>
      /\ console'.latest = [o \in Objects |-> None] /\ console'.republish = console.republish
  BY <1>1, <1>2, NewFacts
<1>4. local'.object = [o \in Objects |-> None] /\ UNCHANGED local.topic
  BY <1>t, <1>1
<1>5. bus'.object = [o \in Objects |-> 0]
  BY <1>t, <1>1 DEF BusShape
<1>6. /\ outbox'.order = <<>> /\ outbox'.latest = <<>> /\ bulk'.active = <<>> /\ bulk'.waiting = <<>>
      /\ \A lane \in Lanes : outbox'.lanes[lane] = <<>> /\ outbox'.stream[lane] = None
      /\ bulk'.next_stream = 1
  BY <1>1, NewFacts
<1>7. UNCHANGED history.exposed
  BY <1>t, <1>1
<1> QED  BY <1>1, <1>3, <1>4, <1>5, <1>6, <1>7

\* The steps that are not quiet.
LEMMA StepCases ==
  ASSUME [Next]_vars
  PROVE  \/ Quiet \/ SessionOnForward \/ (\E lane \in Lanes : PumpTopics(lane))
         \/ (\E o \in Objects : PublishObject(o) \/ PumpBulk(o))
         \/ (\E id \in DOMAIN wire : OnTopicStream(id) \/ OnBulkStream(id)) \/ Reconnect
  BY DEF Next, Quiet

-----------------------------------------------------------------------------
(* The streams of topics and of objects.                                   *)

\* pop_datagram's expect: the order and the datagrams waiting stay in step.
LEMMA NextOutboxInv == Shape /\ OutboxInv /\ [Next]_vars => OutboxInv'
<1> SUFFICES ASSUME Shape, OutboxInv, [Next]_vars PROVE OutboxInv'
  OBVIOUS
<1>t. outbox.order \in Seq(Keys) /\ IsInjective(outbox.order) /\ Range(outbox.order) = DOMAIN outbox.latest
  BY DEF Shape, OutboxShape, OutboxInv
<1>1. CASE SessionOnForward
  <2> DEFINE s == capture[1]
  <2> HIDE DEF s
  <2>1. /\ s \in CapturedSample
        /\ s.mode = "Reliable" => outbox'.latest = outbox.latest /\ outbox'.order = outbox.order
        /\ s.mode # "Reliable" => /\ outbox'.latest = With(outbox.latest, s.key, s.version)
                                  /\ outbox'.order = Ordered(outbox, s.key)
    BY <1>1, QueuesFacts DEF s
  <2>2. CASE s.mode = "Reliable" \/ s.key \in DOMAIN outbox.latest
    <3>1. outbox'.order = outbox.order /\ DOMAIN outbox'.latest = DOMAIN outbox.latest
      BY <2>1, <2>2 DEF Ordered, With
    <3> QED  BY <1>t, <3>1 DEF OutboxInv
  <2>3. CASE s.mode # "Reliable" /\ s.key \notin DOMAIN outbox.latest
    <3> DEFINE k == s.key
               order == outbox.order
    <3>1. outbox'.order = Append(order, k) /\ DOMAIN outbox'.latest = DOMAIN outbox.latest \cup {k} /\ k \in Keys
      BY <2>1, <2>3 DEF Ordered, With, CapturedSample
    <3>2. order \in Seq(Keys) /\ IsInjective(order) /\ Range(order) = DOMAIN outbox.latest /\ k \notin DOMAIN outbox.latest
      BY <1>t, <2>3
    <3> HIDE DEF k, order
    <3>3. \A i \in 1..Len(order) : order[i] # k
      BY <3>2 DEF Range
    <3>4. IsInjective(Append(order, k)) /\ Range(Append(order, k)) = Range(order) \cup {k}
      BY <3>1, <3>2, <3>3 DEF IsInjective, Range
    <3> QED  BY <3>1, <3>2, <3>4 DEF OutboxInv
  <2> QED  BY <2>2, <2>3
<1>2. CASE FeedTopicDatagram
  <2> DEFINE order == outbox.order
             k == order[1]
  <2>1. order # <<>> /\ outbox' = [outbox EXCEPT !.order = Tail(@), !.latest = Without(@, {Head(order)})]
    BY <1>2 DEF FeedTopicDatagram, CanFeed
  <2>2. outbox'.order = Tail(order) /\ outbox'.latest = Without(outbox.latest, {Head(order)})
    BY <2>1 DEF Shape, OutboxShape
  <2>3. order \in Seq(Keys) /\ IsInjective(order) /\ Range(order) = DOMAIN outbox.latest
    BY <1>t
  <2> HIDE DEF order
  <2>4. Head(order) = k /\ Len(order) > 0 /\ \A i \in 1..(Len(order) - 1) : Tail(order)[i] = order[i + 1]
    BY <2>1, <2>3
  <2>5. DOMAIN outbox'.latest = Range(order) \ {k}
    BY <2>2, <2>3, <2>4 DEF Without
  <2>6. IsInjective(Tail(order)) /\ Range(Tail(order)) = Range(order) \ {k}
    <3>1. DOMAIN Tail(order) = 1..(Len(order) - 1) /\ DOMAIN order = 1..Len(order)
      BY <2>1, <2>3
    <3>2. IsInjective(Tail(order))
      BY <2>3, <2>4, <3>1 DEF IsInjective
    <3>3. Range(Tail(order)) \subseteq Range(order) \ {k}
      BY <2>3, <2>4, <3>1 DEF IsInjective, Range
    <3>4. ASSUME NEW x \in Range(order) \ {k} PROVE x \in Range(Tail(order))
      <4>1. PICK i \in 1..Len(order) : x = order[i]
        BY <3>1 DEF Range
      <4>2. i # 1
        BY <4>1
      <4>3. i - 1 \in 1..(Len(order) - 1) /\ Tail(order)[i - 1] = x
        BY <2>3, <2>4, <4>1, <4>2
      <4> QED  BY <3>1, <4>3 DEF Range
    <3> QED  BY <3>2, <3>3, <3>4
  <2> QED  BY <2>2, <2>5, <2>6 DEF OutboxInv
<1>3. ASSUME NEW lane \in Lanes, PumpTopics(lane) PROVE OutboxInv'
  <2>1. UNCHANGED <<outbox.order, outbox.latest>>
    BY <1>3, PumpsTopicsFacts
  <2> QED  BY <1>t, <2>1 DEF OutboxInv
<1>4. CASE Reconnect
  <2>1. outbox'.order = <<>> /\ DOMAIN outbox'.latest = {}
    BY <1>4, ReconnectFacts
  <2> QED  BY <2>1 DEF OutboxInv, IsInjective, Range
<1>5. CASE UNCHANGED outbox
  BY <1>t, <1>5 DEF OutboxInv
<1>6. \/ SessionOnForward \/ FeedTopicDatagram \/ (\E lane \in Lanes : PumpTopics(lane)) \/ Reconnect
      \/ UNCHANGED outbox
  BY DEF Next, PublishLatest, PublishReliable, PublishObject, PumpBulk, RefillRate, RefillCap, UpdateRate,
         PutSample, OnTopicDatagram, LoseDatagram, OnTopicStream, OnBulkStream, WatcherPolls, vars
<1> QED  BY <1>1, <1>2, <1>3, <1>4, <1>5, <1>6

\* One unit more at the end of stream id.
WireGrows(id, unit) ==
  /\ \A y \in DOMAIN wire' : \A i \in 1..Len(wire'[y]) :
       \/ y \in DOMAIN wire /\ i \in 1..Len(wire[y]) /\ wire'[y][i] = wire[y][i]
       \/ /\ y = id /\ i = Len(wire'[id])
          /\ wire'[y][i].kind = unit.kind /\ wire'[y][i].name = unit.name
          /\ wire'[y][i].version = unit.version /\ wire'[y][i].last = unit.last
          /\ wire'[y][i].opens <=> id \notin DOMAIN wire
  /\ \A y \in DOMAIN wire : \A i \in 1..Len(wire[y]) :
       i \in 1..Len(wire'[y]) /\ wire'[y][i] = wire[y][i]

\* What is on the wire after a unit is sent.
LEMMA SentFacts ==
  ASSUME Shape, ReadInv, NEW id, NEW unit \in QueuedUnit, StreamSend(id, unit)
  PROVE  /\ DOMAIN wire' = DOMAIN wire \cup {id}
         /\ \A y \in DOMAIN wire : y # id => wire'[y] = wire[y]
         /\ Len(wire'[id]) > 0 /\ (id \in DOMAIN wire => Len(wire'[id]) = Len(wire[id]) + 1)
         /\ id \notin DOMAIN wire => Len(wire'[id]) = 1
         /\ WireGrows(id, unit)
         /\ \A y \in DOMAIN wire' :
              /\ (wire'[y] # <<>> /\ wire'[y][1].opens) \/ y \in console.readers \cup console.bulk_streams
              /\ \A i \in 2..Len(wire'[y]) : ~wire'[y][i].opens
<1>1. /\ DOMAIN wire' = DOMAIN wire \cup {id}
      /\ \A y \in DOMAIN wire : y # id => wire'[y] = wire[y]
      /\ Sent(id) \in Seq(SentUnit) /\ (id \in DOMAIN wire => Sent(id) = wire[id])
      /\ id \notin DOMAIN wire => Len(Sent(id)) = 0
      /\ wire'[id] \in Seq(SentUnit) /\ Len(wire'[id]) = Len(Sent(id)) + 1
      /\ \A i \in 1..Len(Sent(id)) : wire'[id][i] = Sent(id)[i]
      /\ wire'[id][Len(Sent(id)) + 1] = OnWire(unit, id \notin DOMAIN wire)
  BY StreamSendFacts
<1>l. \A y \in DOMAIN wire : Len(wire[y]) \in Nat
  BY DEF Shape
<1>2. PICK opens \in BOOLEAN : opens = (id \notin DOMAIN wire)
  OBVIOUS
<1> DEFINE u == OnWire(unit, opens)
           n == Len(Sent(id)) + 1
<1>3. /\ u.kind = unit.kind /\ u.name = unit.name /\ u.version = unit.version
      /\ u.last = unit.last /\ u.opens = opens
  BY OnWireFacts
<1>4. wire'[id][n] = u
  BY <1>1, <1>2, Zenon
<1> HIDE DEF u
<1>5. n = Len(wire'[id]) /\ n > 0 /\ n \in Nat /\ Len(Sent(id)) \in Nat
  BY <1>1
<1>6. ASSUME NEW y \in DOMAIN wire', NEW i \in 1..Len(wire'[y])
      PROVE  \/ y \in DOMAIN wire /\ i \in 1..Len(wire[y]) /\ wire'[y][i] = wire[y][i]
             \/ y = id /\ i = n /\ wire'[y][i] = u
  <2>1. CASE y # id
    BY <1>1, <2>1
  <2>2. CASE y = id /\ i = n
    BY <1>4, <2>2
  <2>3. CASE y = id /\ i # n
    <3>1. i \in 1..Len(Sent(id))
      BY <1>5, <2>3
    <3>2. id \in DOMAIN wire
      BY <1>1, <3>1
    <3> QED  BY <1>1, <2>3, <3>1, <3>2
  <2> QED  BY <2>1, <2>2, <2>3
<1>7. ASSUME NEW y \in DOMAIN wire, NEW i \in 1..Len(wire[y])
      PROVE  i \in 1..Len(wire'[y]) /\ wire'[y][i] = wire[y][i]
  <2>1. CASE y # id
    BY <1>1, <2>1
  <2>2. CASE y = id
    BY <1>1, <1>l, <2>2
  <2> QED  BY <2>1, <2>2
<1>8. u.opens <=> id \notin DOMAIN wire
  BY <1>2, <1>3
<1>9. ASSUME NEW y \in DOMAIN wire', NEW i \in 2..Len(wire'[y]) PROVE ~wire'[y][i].opens
  <2>0. Len(wire'[y]) \in Nat
    BY <1>1, <1>l
  <2>1. CASE y \in DOMAIN wire /\ i \in 1..Len(wire[y]) /\ wire'[y][i] = wire[y][i]
    <3>1. i \in 2..Len(wire[y])
      BY <1>l, <2>1
    <3> QED  BY <2>1, <3>1 DEF ReadInv
  <2>2. CASE y = id /\ i = n /\ wire'[y][i] = u
    <3>1. id \in DOMAIN wire
      BY <1>1, <2>2
    <3> QED  BY <1>8, <2>2, <3>1
  <2> QED  BY <1>6, <2>0, <2>1, <2>2
<1>10. ASSUME NEW y \in DOMAIN wire'
       PROVE  (wire'[y] # <<>> /\ wire'[y][1].opens) \/ y \in console.readers \cup console.bulk_streams
  <2>1. CASE y \notin DOMAIN wire
    <3>1. y = id /\ n = 1
      BY <1>1, <2>1
    <3>2. Len(wire'[y]) = 1
      BY <1>5, <3>1
    <3> QED  BY <1>4, <1>8, <2>1, <3>1, <3>2
  <2>2. CASE y \in DOMAIN wire /\ wire[y] # <<>> /\ wire[y][1].opens
    <3>0. wire[y] \in Seq(SentUnit)
      BY <2>2 DEF Shape
    <3>1. 1 \in 1..Len(wire[y])
      BY <2>2, <3>0
    <3>2. 1 \in 1..Len(wire'[y]) /\ wire'[y][1] = wire[y][1]
      BY <1>7, <2>2, <3>1
    <3>3. wire'[y] # <<>>
      BY <3>2
    <3> QED  BY <2>2, <3>2, <3>3
  <2>3. CASE y \in console.readers \cup console.bulk_streams
    BY <2>3
  <2> QED  BY <2>1, <2>2, <2>3 DEF ReadInv
<1>11. Len(wire'[id]) > 0 /\ (id \in DOMAIN wire => Len(wire'[id]) = Len(wire[id]) + 1)
       /\ (id \notin DOMAIN wire => Len(wire'[id]) = 1)
  BY <1>1, <1>5
<1>12. \A y \in DOMAIN wire' : \A i \in 1..Len(wire'[y]) :
         \/ y \in DOMAIN wire /\ i \in 1..Len(wire[y]) /\ wire'[y][i] = wire[y][i]
         \/ /\ y = id /\ i = Len(wire'[id])
            /\ wire'[y][i].kind = unit.kind /\ wire'[y][i].name = unit.name
            /\ wire'[y][i].version = unit.version /\ wire'[y][i].last = unit.last
            /\ wire'[y][i].opens <=> id \notin DOMAIN wire
  BY <1>3, <1>5, <1>6, <1>8
<1>13. WireGrows(id, unit)
  BY <1>7, <1>12 DEF WireGrows
<1> QED  BY <1>1, <1>9, <1>10, <1>11, <1>13

\* What is on the wire after a unit is read was there before, one place further on.
LEMMA LeftFacts ==
  ASSUME Shape, NEW id, Read(id), NEW y \in DOMAIN wire', NEW i \in 1..Len(wire'[y])
  PROVE  /\ y \in DOMAIN wire
         /\ y # id => i \in 1..Len(wire[y]) /\ wire'[y][i] = wire[y][i]
         /\ y = id => i + 1 \in 2..Len(wire[y]) /\ wire'[y][i] = wire[y][i + 1]
<1>1. /\ DOMAIN wire' \subseteq DOMAIN wire /\ \A x \in DOMAIN wire : x # id => wire'[x] = wire[x]
      /\ id \in DOMAIN wire' => /\ Len(wire'[id]) = Len(wire[id]) - 1
                                /\ \A j \in 1..Len(wire'[id]) : wire'[id][j] = wire[id][j + 1]
  BY ReadFacts
<1>2. Len(wire[y]) \in Nat
  BY <1>1 DEF Shape
<1> QED  BY <1>1, <1>2

\* The first byte of a stream's first unit is enough to tell what it is.
LEMMA ReadByKind ==
  ASSUME Shape, KindsInv, ReadInv, NEW id, Read(id), NEW unit, unit = wire[id][1],
         NEW magic \in FirstByteIsMagic(unit)
  PROVE  IsTopic(id, magic) <=> TopicStream(id)
<1>1. id \in DOMAIN wire /\ wire[id] # <<>> /\ 1 \in 1..Len(wire[id]) /\ unit \in SentUnit
  BY ReadFacts
<1>2. unit.kind = "Object" <=> ~TopicStream(id)
  BY <1>1 DEF KindsInv
<1>3. /\ id \in console.readers => TopicStream(id)
      /\ id \in console.bulk_streams => ~TopicStream(id)
  BY DEF ReadInv
<1>4. unit.opens \/ id \in console.readers \/ id \in console.bulk_streams
  BY <1>1 DEF ReadInv
<1>5. CASE id \in console.readers
  BY <1>3, <1>5 DEF IsTopic
<1>6. CASE id \in console.bulk_streams /\ id \notin console.readers
  BY <1>3, <1>6 DEF IsTopic
<1>7. CASE unit.opens /\ id \notin console.readers /\ id \notin console.bulk_streams
  <2>1. magic = (unit.kind # "Object")
    BY <1>7 DEF FirstByteIsMagic
  <2>2. IsTopic(id, magic) <=> magic
    BY <1>7 DEF IsTopic
  <2> QED  BY <1>2, <2>1, <2>2, Zenon
<1> QED  BY <1>4, <1>5, <1>6, <1>7

\* Every step keeps streams numbered, of one kind, and read only as far as written.
LEMMA NextStreamInv == Shape /\ StreamInv /\ [Next]_vars => StreamInv'
<1> SUFFICES ASSUME Shape, StreamInv, [Next]_vars PROVE StreamInv'
  OBVIOUS
<1>s. IdsInv /\ KindsInv /\ ReadInv
  BY DEF StreamInv
<1>t. /\ bulk.next_stream \in Nat \ {0} /\ outbox.stream \in [Lanes -> Nat]
      /\ outbox.lanes \in [Lanes -> Seq(QueuedUnit)]
      /\ \A o \in DOMAIN bulk.active : bulk.active[o].stream \in Nat /\ Len(bulk.active[o].left) \in Nat
      /\ \A lane \in Lanes : Len(outbox.lanes[lane]) \in Nat
  BY DEF Shape, BulkShape, OutboxShape
<1>1. CASE Quiet
  <2>1. UNCHANGED streams
    BY <1>1, QuietFacts
  <2>2. UNCHANGED <<outbox.stream, outbox.lanes, bulk, wire, console.readers, console.bulk_streams, console.partial>>
    BY <2>1 DEF streams
  <2>3. \A id : TopicStream(id)' <=> TopicStream(id)
    BY <2>2 DEF TopicStream
  <2>4. IdsInv' /\ KindsInv' /\ ReadInv'
    BY <1>s, <2>2, <2>3 DEF IdsInv, KindsInv, ReadInv
  <2> QED  BY <2>4 DEF StreamInv
<1>2. CASE SessionOnForward
  <2> DEFINE s == capture[1]
             lane == LaneOf(outbox, s)
  <2>0. s = capture[1] /\ lane = LaneOf(outbox, s)
    OBVIOUS
  <2> HIDE DEF s, lane
  <2>1. /\ s \in CapturedSample /\ lane \in Lanes
        /\ UNCHANGED <<outbox.stream, bulk, wire, console>>
        /\ s.mode = "Reliable" /\ Fits(outbox, s) => outbox'.lanes = Longer(lane, s)
        /\ ~(s.mode = "Reliable" /\ Fits(outbox, s)) => outbox'.lanes = outbox.lanes
    BY <1>2, <2>0, QueuesFacts
  <2>2. \A id : TopicStream(id)' <=> TopicStream(id)
    BY <2>1 DEF TopicStream
  <2>3. IdsInv' /\ ReadInv'
    BY <1>s, <2>1, <2>2 DEF IdsInv, ReadInv
  <2>4. \A l \in Lanes : \A i \in 1..Len(outbox'.lanes[l]) : outbox'.lanes[l][i].kind = l
    <3>1. CASE s.mode = "Reliable" /\ Fits(outbox, s)
      <4> DEFINE us == Units(lane, s.key, s.version, s.units)
                 old == outbox.lanes[lane]
      <4>1. us \in Seq(QueuedUnit) /\ Len(us) = s.units /\ \A i \in 1..s.units : us[i].kind = lane
        BY <2>1, UnitsFacts DEF CapturedSample
      <4>0. outbox'.lanes = Longer(lane, s)
        BY <2>1, <3>1
      <4>2. outbox'.lanes[lane] = old \o us
            /\ \A other \in Lanes : other # lane => outbox'.lanes[other] = outbox.lanes[other]
        BY <1>t, <2>1, <4>0 DEF Longer
      <4>3. old \in Seq(QueuedUnit) /\ \A i \in 1..Len(old) : old[i].kind = lane
        BY <1>s, <1>t, <2>1 DEF KindsInv
      <4> HIDE DEF us, old
      <4>4. \A i \in 1..Len(old \o us) : (old \o us)[i].kind = lane
        BY <4>1, <4>3
      <4> QED  BY <1>s, <4>2, <4>4 DEF KindsInv
    <3>2. CASE ~(s.mode = "Reliable" /\ Fits(outbox, s))
      BY <1>s, <2>1, <3>2 DEF KindsInv
    <3> QED  BY <3>1, <3>2
  <2>5. KindsInv'
    BY <1>s, <2>1, <2>2, <2>4 DEF KindsInv
  <2> QED  BY <2>3, <2>5 DEF StreamInv
<1>3. ASSUME NEW lane \in Lanes, PumpTopics(lane) PROVE StreamInv'
  <2> DEFINE id == StreamOf(lane)
             unit == outbox.lanes[lane][1]
  <2>1. /\ id \in Nat /\ unit \in QueuedUnit /\ Len(outbox.lanes[lane]) > 0
        /\ StreamSend(id, unit)
        /\ UNCHANGED <<bulk.active, console>>
        /\ outbox'.stream = [outbox.stream EXCEPT ![lane] = id]
        /\ outbox'.lanes = [outbox.lanes EXCEPT ![lane] = Tail(@)]
        /\ Len(Tail(outbox.lanes[lane])) = Len(outbox.lanes[lane]) - 1
        /\ \A i \in 1..(Len(outbox.lanes[lane]) - 1) : Tail(outbox.lanes[lane])[i] = outbox.lanes[lane][i + 1]
        /\ \/ outbox.stream[lane] # None /\ id = outbox.stream[lane] /\ bulk'.next_stream = bulk.next_stream
           \/ outbox.stream[lane] = None /\ id = bulk.next_stream /\ bulk'.next_stream = bulk.next_stream + 1
    BY <1>3, PumpsTopicsFacts
  <2>2. unit.kind = lane
    BY <1>s, <1>t, <2>1 DEF KindsInv
  <2> HIDE DEF id, unit
  <2>3. id # None
    BY <1>t, <2>1 DEF None
  <2>4. \A y : TopicStream(y)' <=> TopicStream(y) \/ y = id
    <3>1. \A l \in Lanes : outbox'.stream[l] = IF l = lane THEN id ELSE outbox.stream[l]
      BY <1>t, <2>1
    <3>2. outbox.stream[lane] = None \/ outbox.stream[lane] = id
      BY <2>1
    <3> QED  BY <2>3, <3>1, <3>2 DEF TopicStream
  <2>5. \A y \in 1..(bulk.next_stream - 1) : TopicStream(y)' <=> TopicStream(y)
    <3>1. CASE outbox.stream[lane] # None
      BY <2>1, <2>4, <3>1 DEF TopicStream
    <3>2. CASE outbox.stream[lane] = None
      BY <1>t, <2>1, <2>4, <3>2
    <3> QED  BY <3>1, <3>2
  <2>w. /\ DOMAIN wire' = DOMAIN wire \cup {id}
        /\ \A y \in DOMAIN wire' :
              /\ (wire'[y] # <<>> /\ wire'[y][1].opens) \/ y \in console.readers \cup console.bulk_streams
              /\ \A i \in 2..Len(wire'[y]) : ~wire'[y][i].opens
    BY <1>s, <2>1, SentFacts
  <2>6. ASSUME NEW y \in DOMAIN wire', NEW i \in 1..Len(wire'[y])
        PROVE  \/ y \in DOMAIN wire /\ i \in 1..Len(wire[y]) /\ wire'[y][i] = wire[y][i]
               \/ y = id /\ wire'[y][i].kind = unit.kind
    <3>1. WireGrows(id, unit)
      BY <1>s, <2>1, SentFacts
    <3> QED  BY <3>1 DEF WireGrows
  <2>7. id \in 1..(bulk'.next_stream - 1) /\ bulk'.next_stream >= bulk.next_stream /\ bulk'.next_stream \in Nat
    BY <1>s, <1>t, <2>1, <2>3 DEF IdsInv, None
  <2>8. IdsInv'
    <3>1. \A l \in Lanes : outbox'.stream[l] < bulk'.next_stream
      BY <1>s, <1>t, <2>1, <2>7 DEF IdsInv
    <3>2. ASSUME NEW o \in DOMAIN bulk'.active
          PROVE  bulk'.active[o].stream \in 1..(bulk'.next_stream - 1) /\ ~TopicStream(bulk.active[o].stream)'
      <4>1. /\ bulk.active[o].stream \in 1..(bulk.next_stream - 1) /\ ~TopicStream(bulk.active[o].stream)
            /\ bulk'.active[o].stream = bulk.active[o].stream
        BY <1>s, <2>1 DEF IdsInv
      <4>2. bulk'.active[o].stream \in 1..(bulk'.next_stream - 1)
        BY <1>t, <2>7, <4>1
      <4> QED  BY <2>5, <4>1, <4>2
    <3>3. DOMAIN wire' \subseteq 1..(bulk'.next_stream - 1)
      BY <1>s, <1>t, <2>w, <2>7 DEF IdsInv
    <3>4. console'.readers \cup console'.bulk_streams \cup DOMAIN console'.partial \subseteq 1..(bulk'.next_stream - 1)
      BY <1>s, <1>t, <2>1, <2>7 DEF IdsInv
    <3> QED  BY <3>1, <3>2, <3>3, <3>4 DEF IdsInv
  <2>9. KindsInv'
    <3>1. \A l \in Lanes : \A i \in 1..Len(outbox'.lanes[l]) : outbox'.lanes[l][i].kind = l
      <4>1. \A i \in 1..Len(outbox'.lanes[lane]) : outbox'.lanes[lane][i].kind = lane
        <5>1. outbox'.lanes[lane] = Tail(outbox.lanes[lane])
          BY <1>t, <2>1
        <5>2. \A i \in 1..(Len(outbox.lanes[lane]) - 1) : i + 1 \in 1..Len(outbox.lanes[lane])
          BY <1>t
        <5> QED  BY <1>s, <2>1, <5>1, <5>2 DEF KindsInv
      <4>2. \A l \in Lanes : l # lane => outbox'.lanes[l] = outbox.lanes[l]
        BY <1>t, <2>1
      <4> QED  BY <1>s, <4>1, <4>2 DEF KindsInv
    <3>2. ASSUME NEW y \in DOMAIN wire', NEW i \in 1..Len(wire'[y])
          PROVE  wire'[y][i].kind = "Object" <=> ~TopicStream(y)'
      <4>1. CASE y \in DOMAIN wire /\ i \in 1..Len(wire[y]) /\ wire'[y][i] = wire[y][i]
        <5>1. y \in 1..(bulk.next_stream - 1)
          BY <1>s, <4>1 DEF IdsInv
        <5> QED  BY <1>s, <2>5, <4>1, <5>1 DEF KindsInv
      <4>2. CASE y = id /\ wire'[y][i].kind = unit.kind
        BY <2>2, <2>4, <4>2 DEF Lanes
      <4> QED  BY <2>6, <4>1, <4>2
    <3>3. \A o \in DOMAIN bulk'.active : \A i \in 1..Len(bulk'.active[o].left) : bulk'.active[o].left[i].kind = "Object"
      BY <1>s, <2>1 DEF KindsInv
    <3> QED  BY <3>1, <3>2, <3>3 DEF KindsInv
  <2>10. ReadInv'
    <3>1. \A y \in console'.readers : TopicStream(y)'
      BY <1>s, <2>1, <2>4 DEF ReadInv
    <3>2. \A y \in console'.bulk_streams \cup DOMAIN console'.partial : ~TopicStream(y)'
      BY <1>s, <2>1, <2>5 DEF ReadInv, IdsInv
    <3> QED  BY <2>1, <2>w, <3>1, <3>2 DEF ReadInv
  <2> QED  BY <2>8, <2>9, <2>10 DEF StreamInv
<1>4. ASSUME NEW o \in Objects, PublishObject(o) PROVE StreamInv'
  <2> DEFINE v == bus.object[o] + 1
  <2> HIDE DEF v
  <2>1. /\ v \in Nat /\ UNCHANGED <<outbox, wire, console>>
        /\ o \in DOMAIN bulk.active => UNCHANGED <<bulk.active, bulk.next_stream>>
        /\ o \notin DOMAIN bulk.active =>
              /\ bulk'.next_stream = bulk.next_stream + 1
              /\ DOMAIN bulk'.active = DOMAIN bulk.active \cup {o}
              /\ \A p \in DOMAIN bulk.active : bulk'.active[p] = bulk.active[p]
              /\ bulk'.active[o].stream = bulk.next_stream
              /\ bulk'.active[o].left = Units("Object", o, v, ObjectUnits)
    BY <1>4, PublishesFacts DEF v
  <2>2. \A y : TopicStream(y)' <=> TopicStream(y)
    BY <2>1 DEF TopicStream
  <2>3. bulk'.next_stream \in Nat /\ bulk'.next_stream >= bulk.next_stream
    BY <1>t, <2>1
  <2>4. ASSUME NEW p \in DOMAIN bulk'.active
        PROVE  /\ bulk'.active[p].stream \in 1..(bulk'.next_stream - 1) /\ ~TopicStream(bulk'.active[p].stream)
               /\ \A i \in 1..Len(bulk'.active[p].left) : bulk'.active[p].left[i].kind = "Object"
    <3>1. CASE p \in DOMAIN bulk.active
      BY <1>s, <1>t, <2>1, <2>3, <3>1 DEF IdsInv, KindsInv
    <3>2. CASE p \notin DOMAIN bulk.active
      <4>1. p = o /\ bulk'.active[p].stream = bulk.next_stream /\ bulk'.next_stream = bulk.next_stream + 1
            /\ bulk'.active[p].left = Units("Object", o, v, ObjectUnits)
        BY <2>1, <3>2
      <4>2. ~TopicStream(bulk.next_stream)
        BY <1>s, <1>t DEF IdsInv, TopicStream
      <4>3. \A i \in 1..Len(bulk'.active[p].left) : bulk'.active[p].left[i].kind = "Object"
        BY <2>1, <4>1, ObjectUnitsFacts
      <4> QED  BY <1>t, <4>1, <4>2, <4>3
    <3> QED  BY <3>1, <3>2
  <2>5. IdsInv'
    BY <1>s, <1>t, <2>1, <2>2, <2>3, <2>4 DEF IdsInv
  <2>6. KindsInv' /\ ReadInv'
    BY <1>s, <2>1, <2>2, <2>4 DEF KindsInv, ReadInv
  <2> QED  BY <2>5, <2>6 DEF StreamInv
<1>5. ASSUME NEW o \in Objects, PumpBulk(o) PROVE StreamInv'
  <2> DEFINE id == bulk.active[o].stream
             l == bulk.active[o].left
             unit == l[1]
  <2>0. id = bulk.active[o].stream /\ l = bulk.active[o].left /\ unit = l[1]
    OBVIOUS
  <2> HIDE DEF id, l, unit
  <2>1. /\ o \in DOMAIN bulk.active /\ id \in Nat /\ l \in Seq(QueuedUnit) /\ Len(l) > 0 /\ unit \in QueuedUnit
        /\ StreamSend(id, unit)
        /\ UNCHANGED <<outbox, console>>
        /\ \A p \in DOMAIN bulk.active : p # o => p \in DOMAIN bulk'.active /\ bulk'.active[p] = bulk.active[p]
        /\ DOMAIN bulk'.active \subseteq DOMAIN bulk.active
    BY <1>5, <2>0, PumpsBulkFacts
  <2>a. /\ Len(l) # 1 => UnitTaken(o, id, l)
        /\ Len(l) = 1 => ObjectFinished(o)
    BY <1>5, <2>0, PumpsBulkFacts
  <2>2. /\ unit.kind = "Object" /\ ~TopicStream(id) /\ id \in 1..(bulk.next_stream - 1)
        /\ \A i \in 1..Len(l) : l[i].kind = "Object"
    BY <1>s, <2>0, <2>1 DEF KindsInv, IdsInv
  <2>3. \A y : TopicStream(y)' <=> TopicStream(y)
    BY <2>1 DEF TopicStream
  <2>4. bulk'.next_stream \in Nat /\ bulk'.next_stream >= bulk.next_stream
    BY <1>t, <2>1, <2>a DEF UnitTaken, ObjectFinished
  <2>5. ASSUME NEW p \in DOMAIN bulk'.active
        PROVE  /\ bulk'.active[p].stream \in 1..(bulk'.next_stream - 1) /\ ~TopicStream(bulk'.active[p].stream)
               /\ \A i \in 1..Len(bulk'.active[p].left) : bulk'.active[p].left[i].kind = "Object"
    <3>1. CASE p # o
      BY <1>s, <1>t, <2>1, <2>4, <3>1 DEF IdsInv, KindsInv
    <3>2. CASE p = o /\ Len(l) # 1
      <4>1. \A i \in 1..(Len(l) - 1) : i + 1 \in 1..Len(l)
        BY <2>1
      <4>2. bulk'.active[o].stream = id /\ bulk'.active[o].left = Tail(l) /\ Len(Tail(l)) = Len(l) - 1
        BY <2>a, <3>2 DEF UnitTaken
      <4>3. \A i \in 1..(Len(l) - 1) : Tail(l)[i].kind = "Object"
        BY <2>a, <2>2, <3>2, <4>1 DEF UnitTaken
      <4>4. id \in 1..(bulk'.next_stream - 1)
        BY <1>t, <2>2, <2>4
      <4> QED  BY <2>2, <3>2, <4>2, <4>3, <4>4
    <3>3. CASE p = o /\ Len(l) = 1
      <4> DEFINE v == bulk.waiting[o]
      <4>1. o \in DOMAIN bulk.waiting /\ bulk'.next_stream = bulk.next_stream + 1
            /\ bulk'.active[p].stream = bulk.next_stream
            /\ bulk'.active[p].left = Units("Object", o, v, ObjectUnits)
        BY <2>a, <3>3 DEF ObjectFinished
      <4>2. ~TopicStream(bulk.next_stream)
        BY <1>s, <1>t DEF IdsInv, TopicStream
      <4>3. v \in Nat
        BY <4>1 DEF Shape
      <4> HIDE DEF v
      <4>4. \A i \in 1..Len(bulk'.active[p].left) : bulk'.active[p].left[i].kind = "Object"
        BY <4>1, <4>3, ObjectUnitsFacts
      <4> QED  BY <1>t, <4>1, <4>2, <4>4
    <3> QED  BY <3>1, <3>2, <3>3
  <2>w. /\ DOMAIN wire' = DOMAIN wire \cup {id}
        /\ \A y \in DOMAIN wire' :
              /\ (wire'[y] # <<>> /\ wire'[y][1].opens) \/ y \in console.readers \cup console.bulk_streams
              /\ \A i \in 2..Len(wire'[y]) : ~wire'[y][i].opens
    BY <1>s, <2>1, SentFacts
  <2>6. ASSUME NEW y \in DOMAIN wire', NEW i \in 1..Len(wire'[y])
        PROVE  \/ y \in DOMAIN wire /\ i \in 1..Len(wire[y]) /\ wire'[y][i] = wire[y][i]
               \/ y = id /\ wire'[y][i].kind = unit.kind
    <3>1. WireGrows(id, unit)
      BY <1>s, <2>1, SentFacts
    <3> QED  BY <3>1 DEF WireGrows
  <2>7. IdsInv'
    <3>1. DOMAIN wire' \subseteq 1..(bulk'.next_stream - 1)
      BY <1>s, <1>t, <2>2, <2>4, <2>w DEF IdsInv
    <3>2. console'.readers \cup console'.bulk_streams \cup DOMAIN console'.partial \subseteq 1..(bulk'.next_stream - 1)
      BY <1>s, <1>t, <2>1, <2>4 DEF IdsInv
    <3>3. \A lane \in Lanes : outbox'.stream[lane] < bulk'.next_stream
      BY <1>s, <1>t, <2>1, <2>4 DEF IdsInv
    <3> QED  BY <2>3, <2>5, <3>1, <3>2, <3>3 DEF IdsInv
  <2>8. KindsInv'
    <3>1. ASSUME NEW y \in DOMAIN wire', NEW i \in 1..Len(wire'[y])
          PROVE  wire'[y][i].kind = "Object" <=> ~TopicStream(y)'
      BY <1>s, <2>2, <2>3, <2>6 DEF KindsInv
    <3> QED  BY <1>s, <2>1, <2>5, <3>1 DEF KindsInv
  <2>9. ReadInv'
    BY <1>s, <2>1, <2>3, <2>w DEF ReadInv
  <2> QED  BY <2>7, <2>8, <2>9 DEF StreamInv
<1>6. ASSUME NEW id, Read(id),
             UNCHANGED <<outbox, bulk>>,
             \/ TopicStream(id) /\ console'.readers = console.readers \cup {id}
                /\ UNCHANGED <<console.bulk_streams, console.partial>>
             \/ /\ ~TopicStream(id) /\ UNCHANGED console.readers
                /\ console'.bulk_streams = IF wire[id][1].last THEN console.bulk_streams \ {id}
                                           ELSE console.bulk_streams \cup {id}
                /\ DOMAIN console'.partial \subseteq DOMAIN console.partial \cup {id}
      PROVE  StreamInv'
  <2>1. \A y : TopicStream(y)' <=> TopicStream(y)
    BY <1>6 DEF TopicStream
  <2>2. /\ id \in DOMAIN wire /\ DOMAIN wire' \subseteq DOMAIN wire /\ wire[id] # <<>> /\ 1 \in 1..Len(wire[id])
        /\ id \in DOMAIN wire' <=> ~(wire[id][1].kind = "Object" /\ wire[id][1].last)
        /\ id \in DOMAIN wire' => /\ wire'[id] \in Seq(SentUnit)
                                  /\ \A i \in 1..Len(wire'[id]) : wire'[id][i] = wire[id][i + 1]
    BY <1>6, ReadFacts
  <2>3. \A y \in DOMAIN wire' : \A i \in 1..Len(wire'[y]) :
          /\ y \in DOMAIN wire
          /\ y # id => i \in 1..Len(wire[y]) /\ wire'[y][i] = wire[y][i]
          /\ y = id => i + 1 \in 2..Len(wire[y]) /\ wire'[y][i] = wire[y][i + 1]
    BY <1>6, LeftFacts
  <2>4. \A y \in DOMAIN wire' : Len(wire'[y]) \in Nat /\ Len(wire[y]) \in Nat /\ (y # id => wire'[y] = wire[y])
    BY <1>6, <2>2, ReadFacts DEF Shape
  <2>5. id \in 1..(bulk.next_stream - 1)
    BY <1>s, <2>2 DEF IdsInv
  <2>6. /\ console'.readers \subseteq console.readers \cup {id}
        /\ console'.bulk_streams \cup DOMAIN console'.partial
             \subseteq console.bulk_streams \cup DOMAIN console.partial \cup {id}
    BY <1>6, Zenon
  <2>7. IdsInv'
    BY <1>6, <1>s, <2>1, <2>2, <2>5, <2>6 DEF IdsInv
  <2>8. KindsInv'
    <3>1. ASSUME NEW y \in DOMAIN wire', NEW i \in 1..Len(wire'[y])
          PROVE  wire'[y][i].kind = "Object" <=> ~TopicStream(y)
      <4>1. CASE y # id
        BY <1>s, <2>3, <4>1 DEF KindsInv
      <4>2. CASE y = id
        <5>1. i + 1 \in 1..Len(wire[y]) /\ wire'[y][i] = wire[y][i + 1] /\ y \in DOMAIN wire
          BY <2>3, <2>4, <4>2
        <5> QED  BY <1>s, <5>1 DEF KindsInv
      <4> QED  BY <4>1, <4>2
    <3> QED  BY <1>6, <1>s, <2>1, <3>1 DEF KindsInv
  <2>9. ReadInv'
    <3>1. \A y \in console'.readers : TopicStream(y)
      BY <1>6, <1>s DEF ReadInv
    <3>2. \A y \in console'.bulk_streams \cup DOMAIN console'.partial : ~TopicStream(y)
      <4>1. CASE ~TopicStream(id)
        BY <1>s, <2>6, <4>1 DEF ReadInv
      <4>2. CASE TopicStream(id)
        BY <1>6, <1>s, <4>2 DEF ReadInv
      <4> QED  BY <4>1, <4>2
    <3>3. ASSUME NEW y \in DOMAIN wire'
          PROVE  /\ (wire'[y] # <<>> /\ wire'[y][1].opens) \/ y \in console'.readers \cup console'.bulk_streams
                 /\ \A i \in 2..Len(wire'[y]) : ~wire'[y][i].opens
      <4>1. CASE y # id
        <5>1. y \in console.readers \cup console.bulk_streams => y \in console'.readers \cup console'.bulk_streams
          BY <1>6, <4>1
        <5>2. y \in DOMAIN wire /\ wire'[y] = wire[y]
          BY <2>2, <2>4, <4>1
        <5> QED  BY <1>s, <5>1, <5>2 DEF ReadInv
      <4>2. CASE y = id
        <5>1. \A i \in 2..Len(wire'[y]) : ~wire'[y][i].opens
          <6>1. ASSUME NEW i \in 2..Len(wire'[y]) PROVE ~wire'[y][i].opens
            <7>1. i \in 1..Len(wire'[y])
              BY <2>4
            <7> QED  BY <1>s, <2>3, <4>2, <7>1 DEF ReadInv
          <6> QED  BY <6>1
        <5>2. CASE TopicStream(id)
          BY <1>6, <4>2, <5>1, <5>2
        <5>3. CASE ~TopicStream(id)
          <6>1. wire[id][1].kind = "Object"
            BY <1>s, <2>2, <5>3 DEF KindsInv
          <6>2. ~wire[id][1].last
            BY <2>2, <4>2, <6>1
          <6>3. id \in console'.bulk_streams
            BY <1>6, <5>3, <6>2
          <6> QED  BY <4>2, <5>1, <6>3
        <5> QED  BY <5>2, <5>3
      <4> QED  BY <4>1, <4>2
    <3> QED  BY <2>1, <3>1, <3>2, <3>3 DEF ReadInv
  <2> QED  BY <2>7, <2>8, <2>9 DEF StreamInv
<1>7. ASSUME NEW id, OnTopicStream(id) PROVE StreamInv'
  <2> DEFINE unit == wire[id][1]
  <2> HIDE DEF unit
  <2>1. /\ Read(id) /\ (\E magic \in FirstByteIsMagic(unit) : IsTopic(id, magic))
        /\ console'.readers = console.readers \cup {id}
        /\ UNCHANGED <<outbox, bulk, console.bulk_streams, console.partial>>
    BY <1>7, ReadsTopicFacts DEF unit
  <2>2. TopicStream(id)
    BY <1>s, <2>1, ReadByKind DEF unit
  <2> QED  BY <1>6, <2>1, <2>2
<1>8. ASSUME NEW id, OnBulkStream(id) PROVE StreamInv'
  <2> DEFINE unit == wire[id][1]
             d == OnData(console, id, unit)
  <2>0. unit = wire[id][1] /\ d = OnData(console, id, unit)
    OBVIOUS
  <2> HIDE DEF unit, d
  <2>1. /\ Read(id) /\ unit \in SentUnit /\ (\E magic \in FirstByteIsMagic(unit) : ~IsTopic(id, magic))
        /\ UNCHANGED <<outbox, bulk, console.readers>>
    BY <1>8, <2>0, ReadsBulkFacts
  <2>b. BulkRead(id, unit)
    BY <1>8, <2>0, ReadsBulkFacts
  <2>2. console'.partial = d.partial
    BY <2>0, <2>b DEF BulkRead
  <2>3. console'.bulk_streams = IF unit.last THEN console.bulk_streams \ {id} ELSE console.bulk_streams \cup {id}
    BY <1>8, <2>0, ReadsBulkFacts, Zenon
  <2>4. ~TopicStream(id)
    BY <1>s, <2>0, <2>1, ReadByKind
  <2>5. DOMAIN d.partial \subseteq DOMAIN console.partial \cup {id}
    BY <2>0, <2>1, OnDataFacts DEF Shape
  <2> QED  BY <1>6, <2>0, <2>1, <2>2, <2>3, <2>4, <2>5
<1>9. CASE Reconnect
  <2>1. /\ DOMAIN wire' = {} /\ DOMAIN bulk'.active = {} /\ bulk'.next_stream = 1
        /\ \A lane \in Lanes : outbox'.lanes[lane] = <<>> /\ outbox'.stream[lane] = None
        /\ console'.readers = {} /\ console'.bulk_streams = {} /\ DOMAIN console'.partial = {}
    BY <1>9, ReconnectFacts
  <2> QED  BY <2>1 DEF StreamInv, IdsInv, KindsInv, ReadInv, None
<1> QED  BY <1>1, <1>2, <1>3, <1>4, <1>5, <1>7, <1>8, <1>9, StepCases

-----------------------------------------------------------------------------
(* The versions of objects.                                                *)

\* What is known of a version is known from the sender, the wire or the receiver, and on a
\* stream that has been given out.
LEMMA KnownFacts ==
  ASSUME Shape, IdsInv
  PROVE  /\ \A o \in DOMAIN bulk.active : Known(bulk.active[o].stream, o, bulk.active[o].left[1].version)
         /\ \A id \in DOMAIN wire : \A i \in 1..Len(wire[id]) :
              wire[id][i].kind = "Object" => Known(id, wire[id][i].name, wire[id][i].version)
         /\ \A id \in DOMAIN console.partial : Known(id, console.partial[id].name, console.partial[id].version)
         /\ \A id, o, v : Known(id, o, v) => id \in 1..(bulk.next_stream - 1)
<1>1. ASSUME NEW id, NEW o, NEW v, Known(id, o, v) PROVE id \in 1..(bulk.next_stream - 1)
  BY <1>1 DEF Known, IdsInv
<1> QED  BY <1>1 DEF Known

\* Nothing new is known, and the versions that wait or are sent are the same.
LEMMA KnownStays ==
  ASSUME KnownInv, bus'.object = bus.object, bulk'.waiting = bulk.waiting,
         DOMAIN bulk'.active = DOMAIN bulk.active,
         \A o \in DOMAIN bulk.active : bulk'.active[o].left[1].version = bulk.active[o].left[1].version,
         \A id, o, v : Known(id, o, v)' => Known(id, o, v)
  PROVE  KnownInv'
<1>1. ASSUME NEW id, NEW o, NEW v, Known(id, o, v)'
      PROVE  /\ o \in Objects /\ v \in 1..bus'.object[o]
             /\ o \in DOMAIN bulk'.waiting => v < bulk'.waiting[o]
             /\ o \in DOMAIN bulk'.active => v <= bulk'.active[o].left[1].version
  <2>1. Known(id, o, v)
    BY <1>1
  <2>2. /\ o \in Objects /\ v \in 1..bus.object[o]
        /\ o \in DOMAIN bulk.waiting => v < bulk.waiting[o]
        /\ o \in DOMAIN bulk.active => v <= bulk.active[o].left[1].version
    BY <2>1 DEF KnownInv
  <2> QED  BY <2>2
<1>2. \A id, o, v, p, w : Known(id, o, v)' /\ Known(id, p, w)' => o = p /\ v = w
  BY DEF KnownInv
<1>3. \A id, o, v, other : Known(id, o, v)' /\ Known(other, o, v)' => id = other
  BY DEF KnownInv
<1>4. \A o \in DOMAIN bulk'.waiting : bulk'.waiting[o] \in 1..bus'.object[o]
  BY DEF KnownInv
<1> QED  BY <1>1, <1>2, <1>3, <1>4 DEF KnownInv

\* Steps that touch no object.
LEMMA ObjectUntouched ==
  ASSUME Shape, ObjectInv, UNCHANGED <<bulk.active, bulk.waiting, wire, console.partial, console.latest,
                                       local.object, bus.object>>
  PROVE  ObjectInv'
<1>1. ActiveInv'
  BY DEF ObjectInv, ActiveInv
<1>2. \A id, o, v : Known(id, o, v)' => Known(id, o, v)
  BY DEF Known
<1>3. KnownInv'
  BY <1>2, KnownStays DEF ObjectInv
<1>4. ShownInv'
  BY DEF ObjectInv, ShownInv
<1> QED  BY <1>1, <1>3, <1>4 DEF ObjectInv

\* A sample's units never look like an object's.
LEMMA ObjectPumpTopics ==
  ASSUME Shape, StreamInv, ObjectInv, NEW lane \in Lanes, PumpTopics(lane)
  PROVE  ObjectInv'
<1> DEFINE id == StreamOf(lane)
           unit == outbox.lanes[lane][1]
<1>0. id = StreamOf(lane) /\ unit = outbox.lanes[lane][1]
  OBVIOUS
<1> HIDE DEF id, unit
<1>1. /\ unit \in QueuedUnit /\ Len(outbox.lanes[lane]) > 0 /\ StreamSend(id, unit) /\ id \in Nat
      /\ UNCHANGED <<bus, bulk.active, bulk.waiting, console, local>>
      /\ (outbox.stream[lane] # None /\ id = outbox.stream[lane]) \/ id = bulk.next_stream
  BY <1>0, PumpsTopicsFacts
<1>s. IdsInv /\ KindsInv /\ ReadInv /\ ActiveInv /\ KnownInv /\ ShownInv
  BY DEF StreamInv, ObjectInv
<1>2. unit.kind = lane /\ unit.kind # "Object"
  <2>1. outbox.lanes[lane] \in Seq(QueuedUnit)
    BY DEF Shape, OutboxShape
  <2> QED  BY <1>0, <1>1, <1>s, <2>1 DEF KindsInv, Lanes
<1>3. \A o \in DOMAIN bulk.active : bulk.active[o].stream # id
  BY <1>1, <1>s DEF IdsInv, TopicStream
<1>4. /\ DOMAIN wire' = DOMAIN wire \cup {id} /\ \A y \in DOMAIN wire : y # id => wire'[y] = wire[y]
      /\ WireGrows(id, unit)
  BY <1>1, <1>s, SentFacts
<1>5. ASSUME NEW y \in DOMAIN wire', NEW i \in 1..Len(wire'[y]), wire'[y][i].kind = "Object"
      PROVE  y \in DOMAIN wire /\ i \in 1..Len(wire[y]) /\ wire'[y][i] = wire[y][i]
  BY <1>2, <1>4, <1>5 DEF WireGrows
<1>6. ASSUME NEW y, NEW o, NEW v, Known(y, o, v)' PROVE Known(y, o, v)
  <2>1. CASE /\ o \in DOMAIN bulk'.active /\ y = bulk'.active[o].stream
             /\ v = bulk'.active[o].left[1].version
    BY <1>1, <2>1 DEF Known
  <2>2. CASE /\ y \in DOMAIN wire'
             /\ \E i \in 1..Len(wire'[y]) : /\ wire'[y][i].kind = "Object" /\ wire'[y][i].name = o
                                            /\ wire'[y][i].version = v
    BY <1>5, <2>2 DEF Known
  <2>3. CASE /\ y \in DOMAIN console'.partial
             /\ o = console'.partial[y].name /\ v = console'.partial[y].version
    BY <1>1, <2>3 DEF Known
  <2> QED  BY <1>6, <2>1, <2>2, <2>3 DEF Known
<1>7. KnownInv'
  BY <1>1, <1>s, <1>6, KnownStays
<1>8. ActiveInv'
  BY <1>1, <1>3, <1>4, <1>s DEF ActiveInv
<1>9. ShownInv'
  <2>1. ASSUME NEW y \in DOMAIN wire', wire'[y] # <<>>, wire'[y][1].opens, wire'[y][1].kind = "Object"
        PROVE  wire'[y][1].version # console.latest[wire'[y][1].name]
    <3>1. 1 \in 1..Len(wire'[y])
      <4>1. wire'[y] \in Seq(SentUnit)
        BY <1>1, <1>4, StreamSendFacts DEF Shape
      <4> QED  BY <2>1, <4>1
    <3>2. y \in DOMAIN wire /\ 1 \in 1..Len(wire[y]) /\ wire'[y][1] = wire[y][1]
      BY <1>5, <2>1, <3>1
    <3>3. wire[y] # <<>>
      BY <3>2
    <3> QED  BY <1>s, <2>1, <3>2, <3>3 DEF ShownInv
  <2> QED  BY <1>1, <1>3, <1>4, <1>s, <2>1 DEF ShownInv
<1> QED  BY <1>7, <1>8, <1>9 DEF ObjectInv

\* A version published is newer than all that is known.
LEMMA ObjectPublish ==
  ASSUME Shape, StreamInv, ObjectInv, NEW o \in Objects, PublishObject(o)
  PROVE  ObjectInv'
<1> DEFINE v == bus.object[o] + 1
           new == bulk.next_stream
<1>0. v = bus.object[o] + 1
  OBVIOUS
<1> HIDE DEF v
<1>1. /\ v \in Nat /\ bus'.object = [bus.object EXCEPT ![o] = v]
      /\ UNCHANGED <<outbox, wire, console, local>>
  BY <1>0, PublishesFacts
<1>s. IdsInv /\ KindsInv /\ ReadInv /\ ActiveInv /\ KnownInv /\ ShownInv
  BY DEF StreamInv, ObjectInv
<1>b. bus.object \in [Objects -> Nat] /\ console.latest \in [Objects -> Nat] /\ local.object \in [Objects -> Nat]
  BY DEF Shape, BusShape, ConsoleShape
<1>2. /\ \A p \in Objects : bus'.object[p] \in Nat /\ bus.object[p] <= bus'.object[p]
      /\ bus'.object[o] = v /\ v > bus.object[o]
  BY <1>0, <1>1, <1>b
<1>3. \A id, p, w : Known(id, p, w) =>
        /\ p \in Objects /\ w \in 1..bus.object[p] /\ w \in 1..bus'.object[p]
        /\ p = o => w < v
  BY <1>2, <1>b, <1>s DEF KnownInv
<1>4. CASE o \in DOMAIN bulk.active
  <2>1. /\ UNCHANGED <<bulk.active, bulk.next_stream>>
        /\ DOMAIN bulk'.waiting = DOMAIN bulk.waiting \cup {o} /\ bulk'.waiting[o] = v
        /\ \A p \in DOMAIN bulk.waiting : p # o => bulk'.waiting[p] = bulk.waiting[p]
    BY <1>0, <1>4, PublishesFacts
  <2>2. \A id, p, w : Known(id, p, w)' <=> Known(id, p, w)
    BY <1>1, <2>1 DEF Known
  <2>3. KnownInv'
    <3>1. ASSUME NEW id, NEW p, NEW w, Known(id, p, w)'
          PROVE  /\ p \in Objects /\ w \in 1..bus'.object[p]
                 /\ p \in DOMAIN bulk'.waiting => w < bulk'.waiting[p]
                 /\ p \in DOMAIN bulk'.active => w <= bulk'.active[p].left[1].version
      <4>1. Known(id, p, w)
        BY <2>2, <3>1
      <4> QED  BY <1>3, <1>s, <2>1, <4>1 DEF KnownInv
    <3>2. /\ \A id, p, w, q, u : Known(id, p, w)' /\ Known(id, q, u)' => p = q /\ w = u
          /\ \A id, p, w, other : Known(id, p, w)' /\ Known(other, p, w)' => id = other
      BY <1>s, <2>2 DEF KnownInv
    <3>3. ASSUME NEW p \in DOMAIN bulk'.waiting PROVE bulk'.waiting[p] \in 1..bus'.object[p]
      <4>1. p \in Objects
        BY <1>s, <2>1 DEF ActiveInv, Shape
      <4>2. CASE p = o
        BY <1>0, <1>1, <1>2, <1>b, <2>1, <4>2
      <4>3. CASE p # o
        BY <1>2, <1>b, <1>s, <2>1, <4>1, <4>3 DEF KnownInv
      <4> QED  BY <4>2, <4>3
    <3> QED  BY <3>1, <3>2, <3>3 DEF KnownInv
  <2>4. ActiveInv'
    BY <1>1, <1>4, <1>s, <2>1 DEF ActiveInv
  <2>5. ShownInv'
    <3>1. ASSUME NEW p \in Objects
          PROVE  /\ local.object[p] <= console.latest[p] /\ console.latest[p] <= bus'.object[p]
                 /\ p \in DOMAIN bulk'.waiting => console.latest[p] < bulk'.waiting[p]
      <4>1. /\ local.object[p] <= console.latest[p] /\ console.latest[p] <= bus.object[p]
            /\ p \in DOMAIN bulk.waiting => console.latest[p] < bulk.waiting[p]
        BY <1>s DEF ShownInv
      <4>2. console.latest[p] <= bus'.object[p]
        BY <1>2, <1>b, <4>1
      <4>3. p = o => console.latest[p] < v
        BY <1>2, <1>b, <1>1, <4>1
      <4> QED  BY <2>1, <4>1, <4>2, <4>3
    <3> QED  BY <1>1, <1>s, <2>1, <3>1 DEF ShownInv
  <2> QED  BY <2>3, <2>4, <2>5 DEF ObjectInv
<1>5. CASE o \notin DOMAIN bulk.active
  <2>1. /\ UNCHANGED bulk.waiting
        /\ DOMAIN bulk'.active = DOMAIN bulk.active \cup {o}
        /\ \A p \in DOMAIN bulk.active : bulk'.active[p] = bulk.active[p]
        /\ bulk'.active[o].stream = bulk.next_stream
        /\ bulk'.active[o].left = Units("Object", o, v, ObjectUnits)
    BY <1>0, <1>5, PublishesFacts
  <2> DEFINE left == bulk'.active[o].left
  <2>2. /\ left # <<>> /\ Len(left) = ObjectUnits
        /\ \A i \in 1..ObjectUnits : /\ left[i].kind = "Object" /\ left[i].name = o
                                     /\ left[i].version = v /\ (left[i].last <=> i = ObjectUnits)
    BY <1>1, <2>1, ObjectUnitsFacts
  <2>3. ObjectUnits \in Nat /\ ObjectUnits > 1 /\ left[1].version = v
    BY <2>2, DataStreamsAssumption
  <2> HIDE DEF left
  <2>4. o \notin DOMAIN bulk.waiting
    BY <1>5, <1>s DEF ActiveInv
  <2>5. ASSUME NEW id, NEW p, NEW w, Known(id, p, w)'
        PROVE  \/ Known(id, p, w) /\ id # new
               \/ id = new /\ p = o /\ w = v
    <3>0. \A y, q, x : Known(y, q, x) => y # new
      BY <1>s, KnownFacts DEF Shape, BulkShape
    <3>1. CASE /\ p \in DOMAIN bulk'.active /\ id = bulk'.active[p].stream
               /\ w = bulk'.active[p].left[1].version
      <4>1. CASE p = o
        BY <2>1, <2>3, <3>1, <4>1 DEF left
      <4>2. CASE p # o
        <5>1. Known(id, p, w)
          BY <2>1, <3>1, <4>2 DEF Known
        <5> QED  BY <3>0, <5>1
      <4> QED  BY <4>1, <4>2
    <3>2. CASE /\ id \in DOMAIN wire'
               /\ \E i \in 1..Len(wire'[id]) : /\ wire'[id][i].kind = "Object" /\ wire'[id][i].name = p
                                               /\ wire'[id][i].version = w
      <4>1. Known(id, p, w)
        BY <1>1, <3>2 DEF Known
      <4> QED  BY <3>0, <4>1
    <3>3. CASE /\ id \in DOMAIN console'.partial
               /\ p = console'.partial[id].name /\ w = console'.partial[id].version
      <4>1. Known(id, p, w)
        BY <1>1, <3>3 DEF Known
      <4> QED  BY <3>0, <4>1
    <3> QED  BY <2>5, <3>1, <3>2, <3>3 DEF Known
  <2>6. KnownInv'
    <3>1. ASSUME NEW id, NEW p, NEW w, Known(id, p, w)'
          PROVE  /\ p \in Objects /\ w \in 1..bus'.object[p]
                 /\ p \in DOMAIN bulk'.waiting => w < bulk'.waiting[p]
                 /\ p \in DOMAIN bulk'.active => w <= bulk'.active[p].left[1].version
      <4>1. CASE id = new /\ p = o /\ w = v
        <5>1. v \in 1..bus'.object[o]
          BY <1>0, <1>1, <1>2, <1>b
        <5> QED  BY <1>1, <2>1, <2>3, <2>4, <4>1, <5>1 DEF left
      <4>2. CASE Known(id, p, w)
        <5>1. p = o => w <= left[1].version
          BY <1>1, <1>3, <1>b, <2>3, <4>2
        <5> QED  BY <1>3, <1>s, <2>1, <4>2, <5>1 DEF KnownInv, left
      <4> QED  BY <2>5, <3>1, <4>1, <4>2
    <3>2. ASSUME NEW id, NEW p, NEW w, NEW q, NEW u, Known(id, p, w)', Known(id, q, u)' PROVE p = q /\ w = u
      BY <1>s, <2>5, <3>2 DEF KnownInv
    <3>3. ASSUME NEW id, NEW p, NEW w, NEW other, Known(id, p, w)', Known(other, p, w)' PROVE id = other
      <4>1. \A y : ~Known(y, o, v)
        BY <1>1, <1>3
      <4> QED  BY <1>s, <2>5, <3>3, <4>1 DEF KnownInv
    <3>4. ASSUME NEW p \in DOMAIN bulk'.waiting PROVE bulk'.waiting[p] \in 1..bus'.object[p]
      <4>1. p \in Objects
        BY <1>s, <2>1 DEF ActiveInv, Shape
      <4> QED  BY <1>2, <1>b, <1>s, <2>1, <4>1 DEF KnownInv
    <3> QED  BY <3>1, <3>2, <3>3, <3>4 DEF KnownInv
  <2>7. ActiveInv'
    <3>1. ASSUME NEW p \in DOMAIN bulk'.active, p # o
          PROVE  /\ p \in DOMAIN bulk.active /\ bulk'.active[p] = bulk.active[p]
      BY <2>1, <3>1
    <3>2. bulk.next_stream \notin DOMAIN wire
      BY <1>s DEF IdsInv, Shape, BulkShape
    <3>3. \A i \in 1..Len(left) : /\ left[i].name = o /\ left[i].version = left[1].version
                                  /\ left[i].last <=> i = Len(left)
      BY <2>2, <2>3
    <3>4. DOMAIN bulk'.waiting \subseteq DOMAIN bulk'.active
      BY <1>s, <2>1 DEF ActiveInv
    <3>5. ASSUME NEW p \in DOMAIN bulk'.active
          PROVE  LET a == bulk'.active[p]
                 IN  /\ Len(a.left) <= ObjectUnits
                     /\ \A i \in 1..Len(a.left) : /\ a.left[i].name = p
                                                  /\ a.left[i].version = a.left[1].version
                                                  /\ a.left[i].last <=> i = Len(a.left)
                     /\ Len(a.left) = ObjectUnits <=> a.stream \notin DOMAIN wire'
                     /\ a.stream \in DOMAIN wire' => \A i \in 1..Len(wire'[a.stream]) : ~wire'[a.stream][i].last
      <4>1. CASE p = o
        BY <1>1, <2>1, <2>2, <2>3, <3>2, <3>3, <4>1 DEF left
      <4>2. CASE p # o
        <5> DEFINE b == bulk.active[p]
        <5>1. /\ Len(b.left) <= ObjectUnits
              /\ \A i \in 1..Len(b.left) : /\ b.left[i].name = p
                                           /\ b.left[i].version = b.left[1].version
                                           /\ b.left[i].last <=> i = Len(b.left)
              /\ Len(b.left) = ObjectUnits <=> b.stream \notin DOMAIN wire
              /\ b.stream \in DOMAIN wire => \A i \in 1..Len(wire[b.stream]) : ~wire[b.stream][i].last
          BY <1>s, <3>1, <4>2 DEF ActiveInv
        <5>2. bulk'.active[p] = b
          BY <3>1, <4>2
        <5> HIDE DEF b
        <5> QED  BY <1>1, <5>1, <5>2
      <4> QED  BY <4>1, <4>2
    <3> QED  BY <3>4, <3>5 DEF ActiveInv
  <2>8. ShownInv'
    <3>1. ASSUME NEW p \in Objects
          PROVE  /\ local.object[p] <= console.latest[p] /\ console.latest[p] <= bus'.object[p]
                 /\ p \in DOMAIN bulk'.waiting => console.latest[p] < bulk'.waiting[p]
                 /\ p \in DOMAIN bulk'.active /\ bulk'.active[p].stream \notin DOMAIN wire'
                      => console.latest[p] < bulk'.active[p].left[1].version
      <4>1. /\ local.object[p] <= console.latest[p] /\ console.latest[p] <= bus.object[p]
            /\ p \in DOMAIN bulk.waiting => console.latest[p] < bulk.waiting[p]
        BY <1>s DEF ShownInv
      <4>2. console.latest[p] <= bus'.object[p]
        BY <1>2, <1>b, <4>1
      <4>3. CASE p = o
        <5>1. console.latest[p] < left[1].version
          BY <1>1, <1>2, <1>b, <2>3, <4>1, <4>3
        <5> QED  BY <2>1, <4>1, <4>2, <4>3, <5>1 DEF left
      <4>4. CASE p # o
        BY <1>1, <1>s, <2>1, <4>1, <4>2, <4>4 DEF ShownInv
      <4> QED  BY <4>3, <4>4
    <3> QED  BY <1>1, <1>s, <3>1 DEF ShownInv
  <2> QED  BY <2>6, <2>7, <2>8 DEF ObjectInv
<1> QED  BY <1>4, <1>5

\* Bulk data moves from the sender to the wire, and the version that waited starts.
LEMMA ObjectPumpBulk ==
  ASSUME Shape, StreamInv, ObjectInv, NEW o \in Objects, PumpBulk(o)
  PROVE  ObjectInv'
<1> DEFINE id == bulk.active[o].stream
           l == bulk.active[o].left
           unit == l[1]
           new == bulk.next_stream
<1>0. id = bulk.active[o].stream /\ l = bulk.active[o].left /\ unit = l[1]
  OBVIOUS
<1> HIDE DEF id, l, unit
<1>1. /\ o \in DOMAIN bulk.active /\ id \in Nat /\ l \in Seq(QueuedUnit) /\ Len(l) > 0 /\ unit \in QueuedUnit
      /\ StreamSend(id, unit)
      /\ UNCHANGED <<outbox, bus, console, local>>
      /\ \A p \in DOMAIN bulk.active : p # o => p \in DOMAIN bulk'.active /\ bulk'.active[p] = bulk.active[p]
      /\ DOMAIN bulk'.active \subseteq DOMAIN bulk.active
  BY <1>0, PumpsBulkFacts
<1>2. /\ Len(l) # 1 => UnitTaken(o, id, l)
      /\ Len(l) = 1 => ObjectFinished(o)
  BY <1>0, PumpsBulkFacts
<1>s. IdsInv /\ KindsInv /\ ReadInv /\ ActiveInv /\ KnownInv /\ ShownInv
  BY DEF StreamInv, ObjectInv
<1>b. /\ bus.object \in [Objects -> Nat] /\ console.latest \in [Objects -> Nat] /\ local.object \in [Objects -> Nat]
      /\ ObjectUnits \in Nat /\ ObjectUnits > 1
  <2>1. ObjectUnits \in Nat /\ ObjectUnits > 1
    BY DataStreamsAssumption
  <2> QED  BY <2>1 DEF Shape, BusShape, ConsoleShape
<1>3. /\ Len(l) <= ObjectUnits /\ Len(l) \in Nat
      /\ \A i \in 1..Len(l) : /\ l[i].name = o /\ l[i].version = unit.version
                              /\ l[i].last <=> i = Len(l)
      /\ Len(l) = ObjectUnits <=> id \notin DOMAIN wire
      /\ id \in DOMAIN wire => \A i \in 1..Len(wire[id]) : ~wire[id][i].last
  BY <1>0, <1>1, <1>s DEF ActiveInv
<1>4. unit.kind = "Object" /\ unit.name = o /\ (unit.last <=> Len(l) = 1)
      /\ Known(id, o, unit.version)
  <2>1. 1 \in 1..Len(l)
    BY <1>1, <1>3
  <2>2. unit.kind = "Object"
    BY <1>0, <1>1, <1>s, <2>1 DEF KindsInv
  <2>3. Known(id, o, unit.version)
    BY <1>0, <1>1, <1>s, KnownFacts
  <2> QED  BY <1>0, <1>3, <2>1, <2>2, <2>3
<1>5. /\ DOMAIN wire' = DOMAIN wire \cup {id} /\ \A y \in DOMAIN wire : y # id => wire'[y] = wire[y]
      /\ Len(wire'[id]) > 0
      /\ WireGrows(id, unit)
      /\ \A y \in DOMAIN wire' : \A i \in 2..Len(wire'[y]) : ~wire'[y][i].opens
  BY <1>1, <1>s, SentFacts
<1>6. \A p \in DOMAIN bulk.active : p # o => bulk.active[p].stream # id
  <2>1. ASSUME NEW p \in DOMAIN bulk.active, bulk.active[p].stream = id PROVE p = o
    <3>1. Known(id, p, bulk.active[p].left[1].version)
      BY <1>s, <2>1, KnownFacts
    <3> QED  BY <1>4, <1>s, <3>1 DEF KnownInv
  <2> QED  BY <2>1
<1>7. \A y, q, x : Known(y, q, x) => y # new
  BY <1>s, KnownFacts DEF Shape, BulkShape
<1>8. ASSUME NEW y, NEW p, NEW w,
             /\ y \in DOMAIN wire'
             /\ \E i \in 1..Len(wire'[y]) : /\ wire'[y][i].kind = "Object" /\ wire'[y][i].name = p
                                            /\ wire'[y][i].version = w
      PROVE  Known(y, p, w)
  <2>1. PICK i \in 1..Len(wire'[y]) : /\ wire'[y][i].kind = "Object" /\ wire'[y][i].name = p
                                      /\ wire'[y][i].version = w
    BY <1>8
  <2>2. CASE y \in DOMAIN wire /\ i \in 1..Len(wire[y]) /\ wire'[y][i] = wire[y][i]
    BY <2>1, <2>2 DEF Known
  <2>3. CASE y = id /\ wire'[y][i].name = unit.name /\ wire'[y][i].version = unit.version
    BY <1>4, <2>1, <2>3
  <2> QED  BY <1>5, <1>8, <2>2, <2>3 DEF WireGrows
<1>9. ASSUME NEW y \in DOMAIN wire', wire'[y] # <<>>, wire'[y][1].opens, wire'[y][1].kind = "Object"
      PROVE  wire'[y][1].version # console.latest[wire'[y][1].name]
  <2>1. 1 \in 1..Len(wire'[y])
    <3>1. wire'[y] \in Seq(SentUnit)
      BY <1>1, <1>5, StreamSendFacts DEF Shape
    <3> QED  BY <1>9, <3>1
  <2>2. CASE y \in DOMAIN wire /\ 1 \in 1..Len(wire[y]) /\ wire'[y][1] = wire[y][1]
    <3>1. wire[y] # <<>>
      BY <2>2
    <3> QED  BY <1>9, <1>s, <2>2, <3>1 DEF ShownInv
  <2>3. CASE /\ y = id /\ wire'[y][1].name = unit.name /\ wire'[y][1].version = unit.version
             /\ wire'[y][1].opens <=> id \notin DOMAIN wire
    <3>1. id \notin DOMAIN wire
      BY <1>9, <2>3
    <3>2. console.latest[o] < unit.version
      BY <1>0, <1>1, <1>s, <3>1 DEF ShownInv
    <3>3. o \in Objects /\ console.latest[o] \in Nat /\ unit.version \in Nat
      BY <1>1, <1>b DEF QueuedUnit
    <3> QED  BY <1>4, <2>3, <3>2, <3>3
  <2> QED  BY <1>5, <2>1, <2>2, <2>3 DEF WireGrows
<1>10. ASSUME NEW p \in DOMAIN bulk'.active, p # o
       PROVE  LET a == bulk'.active[p]
              IN  /\ Len(a.left) <= ObjectUnits
                  /\ \A i \in 1..Len(a.left) : /\ a.left[i].name = p
                                               /\ a.left[i].version = a.left[1].version
                                               /\ a.left[i].last <=> i = Len(a.left)
                  /\ Len(a.left) = ObjectUnits <=> a.stream \notin DOMAIN wire'
                  /\ a.stream \in DOMAIN wire' => \A i \in 1..Len(wire'[a.stream]) : ~wire'[a.stream][i].last
  <2> DEFINE b == bulk.active[p]
  <2>1. p \in DOMAIN bulk.active /\ bulk'.active[p] = b /\ b.stream # id
    BY <1>1, <1>6, <1>10
  <2>2. /\ Len(b.left) <= ObjectUnits
        /\ \A i \in 1..Len(b.left) : /\ b.left[i].name = p
                                     /\ b.left[i].version = b.left[1].version
                                     /\ b.left[i].last <=> i = Len(b.left)
        /\ Len(b.left) = ObjectUnits <=> b.stream \notin DOMAIN wire
        /\ b.stream \in DOMAIN wire => \A i \in 1..Len(wire[b.stream]) : ~wire[b.stream][i].last
    BY <1>s, <2>1 DEF ActiveInv
  <2> HIDE DEF b
  <2> QED  BY <1>5, <2>1, <2>2
<1>11. CASE Len(l) # 1
  <2>1. /\ UNCHANGED bulk.waiting /\ DOMAIN bulk'.active = DOMAIN bulk.active
        /\ bulk'.active[o].stream = id /\ bulk'.active[o].left = Tail(l)
        /\ Len(Tail(l)) = Len(l) - 1 /\ \A i \in 1..(Len(l) - 1) : Tail(l)[i] = l[i + 1]
    BY <1>2, <1>11 DEF UnitTaken
  <2> DEFINE t == Tail(l)
  <2>2. /\ Len(t) \in Nat /\ Len(t) = Len(l) - 1 /\ Len(t) > 0
        /\ \A i \in 1..Len(t) : i + 1 \in 1..Len(l) /\ t[i] = l[i + 1]
    <3>1. Len(t) = Len(l) - 1 /\ \A i \in 1..(Len(l) - 1) : t[i] = l[i + 1]
      BY <2>1
    <3> HIDE DEF t
    <3> QED  BY <1>1, <1>3, <1>11, <3>1
  <2> HIDE DEF t
  <2>3. \A i \in 1..Len(t) : /\ t[i].name = o /\ t[i].version = unit.version
                             /\ t[i].last <=> i = Len(t)
    <3>1. ASSUME NEW i \in 1..Len(t) PROVE /\ t[i].name = o /\ t[i].version = unit.version
                                           /\ t[i].last <=> i = Len(t)
      <4>1. i + 1 \in 1..Len(l) /\ t[i] = l[i + 1]
        BY <2>2
      <4>2. i + 1 = Len(l) <=> i = Len(t)
        BY <2>2
      <4> QED  BY <1>3, <4>1, <4>2
    <3> QED  BY <3>1
  <2>4. t[1].version = unit.version /\ bulk'.active[o].left = t
    BY <2>1, <2>2, <2>3 DEF t
  <2>5. ASSUME NEW y, NEW p, NEW w, Known(y, p, w)' PROVE Known(y, p, w)
    <3>1. CASE /\ p \in DOMAIN bulk'.active /\ y = bulk'.active[p].stream
               /\ w = bulk'.active[p].left[1].version
      <4>1. CASE p = o
        BY <1>4, <2>1, <2>4, <3>1, <4>1
      <4>2. CASE p # o
        BY <1>1, <3>1, <4>2 DEF Known
      <4> QED  BY <4>1, <4>2
    <3>2. CASE /\ y \in DOMAIN wire'
               /\ \E i \in 1..Len(wire'[y]) : /\ wire'[y][i].kind = "Object" /\ wire'[y][i].name = p
                                              /\ wire'[y][i].version = w
      BY <1>8, <3>2
    <3>3. CASE /\ y \in DOMAIN console'.partial
               /\ p = console'.partial[y].name /\ w = console'.partial[y].version
      BY <1>1, <3>3 DEF Known
    <3> QED  BY <2>5, <3>1, <3>2, <3>3 DEF Known
  <2>6. KnownInv'
    <3>1. \A p \in DOMAIN bulk.active : bulk'.active[p].left[1].version = bulk.active[p].left[1].version
      BY <1>0, <1>1, <2>4
    <3> QED  BY <1>1, <1>s, <2>1, <2>5, <3>1, KnownStays
  <2>7. ActiveInv'
    <3>1. \A i \in 1..Len(wire'[id]) : ~wire'[id][i].last
      <4>1. ASSUME NEW i \in 1..Len(wire'[id]) PROVE ~wire'[id][i].last
        <5>1. CASE id \in DOMAIN wire /\ i \in 1..Len(wire[id]) /\ wire'[id][i] = wire[id][i]
          BY <1>3, <5>1
        <5>2. CASE wire'[id][i].last = unit.last
          BY <1>4, <1>11, <5>2, Zenon
        <5> QED  BY <1>5, <5>1, <5>2 DEF WireGrows
      <4> QED  BY <4>1
    <3>2. Len(t) <= ObjectUnits /\ Len(t) # ObjectUnits
      BY <1>3, <1>b, <2>2
    <3>3. ASSUME NEW p \in DOMAIN bulk'.active
          PROVE  LET a == bulk'.active[p]
                 IN  /\ Len(a.left) <= ObjectUnits
                     /\ \A i \in 1..Len(a.left) : /\ a.left[i].name = p
                                                  /\ a.left[i].version = a.left[1].version
                                                  /\ a.left[i].last <=> i = Len(a.left)
                     /\ Len(a.left) = ObjectUnits <=> a.stream \notin DOMAIN wire'
                     /\ a.stream \in DOMAIN wire' => \A i \in 1..Len(wire'[a.stream]) : ~wire'[a.stream][i].last
      <4>1. CASE p = o
        BY <1>5, <2>1, <2>3, <2>4, <3>1, <3>2, <4>1
      <4>2. CASE p # o
        BY <1>10, <4>2
      <4> QED  BY <4>1, <4>2
    <3>4. DOMAIN bulk'.waiting \subseteq DOMAIN bulk'.active
      BY <1>s, <2>1 DEF ActiveInv
    <3> QED  BY <3>3, <3>4 DEF ActiveInv
  <2>8. ShownInv'
    <3>1. ASSUME NEW p \in Objects
          PROVE  /\ local.object[p] <= console.latest[p] /\ console.latest[p] <= bus.object[p]
                 /\ p \in DOMAIN bulk.waiting => console.latest[p] < bulk.waiting[p]
                 /\ p \in DOMAIN bulk'.active /\ bulk'.active[p].stream \notin DOMAIN wire'
                      => console.latest[p] < bulk'.active[p].left[1].version
      <4>1. CASE p = o
        BY <1>5, <1>s, <2>1, <4>1 DEF ShownInv
      <4>2. CASE p # o
        BY <1>1, <1>5, <1>s, <4>2 DEF ShownInv
      <4> QED  BY <4>1, <4>2
    <3> QED  BY <1>1, <1>9, <1>s, <2>1, <3>1 DEF ShownInv
  <2> QED  BY <2>6, <2>7, <2>8 DEF ObjectInv
<1>12. CASE Len(l) = 1
  <2> DEFINE v == bulk.waiting[o]
             left == bulk'.active[o].left
  <2>1. /\ DOMAIN bulk'.waiting = DOMAIN bulk.waiting \ {o}
        /\ \A p \in DOMAIN bulk'.waiting : bulk'.waiting[p] = bulk.waiting[p]
        /\ o \in DOMAIN bulk'.active <=> o \in DOMAIN bulk.waiting
        /\ o \in DOMAIN bulk.waiting =>
             /\ bulk'.active[o].stream = bulk.next_stream
             /\ left = Units("Object", o, v, ObjectUnits)
    BY <1>2, <1>12 DEF ObjectFinished
  <2>2. id \in DOMAIN wire /\ DOMAIN wire' = DOMAIN wire
    <3>1. Len(l) # ObjectUnits
      BY <1>b, <1>12
    <3>2. id \in DOMAIN wire
      BY <1>3, <3>1
    <3> QED  BY <1>5, <3>2
  <2>3. new \notin DOMAIN wire'
    BY <1>s, <2>2 DEF IdsInv, Shape, BulkShape
  <2>4. o \in DOMAIN bulk.waiting => v \in Nat
    BY DEF Shape
  <2> HIDE DEF v, left
  <2>5. o \in DOMAIN bulk.waiting =>
          /\ Len(left) = ObjectUnits
          /\ \A i \in 1..ObjectUnits : /\ left[i].kind = "Object" /\ left[i].name = o
                                       /\ left[i].version = v /\ (left[i].last <=> i = ObjectUnits)
    BY <2>1, <2>4, ObjectUnitsFacts
  <2>6. o \in DOMAIN bulk.waiting => left[1].version = v
    BY <1>b, <2>5
  <2>7. ASSUME NEW y, NEW p, NEW w, Known(y, p, w)'
        PROVE  \/ Known(y, p, w) /\ y # new
               \/ y = new /\ p = o /\ w = v /\ o \in DOMAIN bulk.waiting
    <3>1. CASE /\ p \in DOMAIN bulk'.active /\ y = bulk'.active[p].stream
               /\ w = bulk'.active[p].left[1].version
      <4>1. CASE p = o
        BY <2>1, <2>6, <3>1, <4>1 DEF left
      <4>2. CASE p # o
        <5>1. Known(y, p, w)
          BY <1>1, <3>1, <4>2 DEF Known
        <5> QED  BY <1>7, <5>1
      <4> QED  BY <4>1, <4>2
    <3>2. CASE /\ y \in DOMAIN wire'
               /\ \E i \in 1..Len(wire'[y]) : /\ wire'[y][i].kind = "Object" /\ wire'[y][i].name = p
                                              /\ wire'[y][i].version = w
      BY <1>7, <1>8, <3>2
    <3>3. CASE /\ y \in DOMAIN console'.partial
               /\ p = console'.partial[y].name /\ w = console'.partial[y].version
      <4>1. Known(y, p, w)
        BY <1>1, <3>3 DEF Known
      <4> QED  BY <1>7, <4>1
    <3> QED  BY <2>7, <3>1, <3>2, <3>3 DEF Known
  <2>8. KnownInv'
    <3>1. ASSUME NEW y, NEW p, NEW w, Known(y, p, w)'
          PROVE  /\ p \in Objects /\ w \in 1..bus'.object[p]
                 /\ p \in DOMAIN bulk'.waiting => w < bulk'.waiting[p]
                 /\ p \in DOMAIN bulk'.active => w <= bulk'.active[p].left[1].version
      <4>1. CASE y = new /\ p = o /\ w = v /\ o \in DOMAIN bulk.waiting
        <5>1. v \in 1..bus.object[o] /\ v <= v
          BY <1>b, <1>s, <2>4, <4>1 DEF KnownInv, v
        <5> QED  BY <1>1, <2>1, <2>6, <4>1, <5>1 DEF left
      <4>2. CASE Known(y, p, w)
        <5>1. /\ p \in Objects /\ w \in 1..bus.object[p]
              /\ p \in DOMAIN bulk.waiting => w < bulk.waiting[p]
              /\ p \in DOMAIN bulk.active => w <= bulk.active[p].left[1].version
          BY <1>s, <4>2 DEF KnownInv
        <5>2. CASE p = o
          <6>1. o \in DOMAIN bulk.waiting => w < v
            BY <5>1, <5>2 DEF v
          <6>2. o \in DOMAIN bulk.waiting => w <= v
            BY <1>b, <2>4, <5>1, <6>1
          <6> QED  BY <1>1, <2>1, <2>6, <5>1, <5>2, <6>2 DEF left
        <5>3. CASE p # o
          BY <1>1, <2>1, <5>1, <5>3
        <5> QED  BY <5>2, <5>3
      <4> QED  BY <2>7, <3>1, <4>1, <4>2
    <3>2. ASSUME NEW y, NEW p, NEW w, NEW q, NEW u, Known(y, p, w)', Known(y, q, u)' PROVE p = q /\ w = u
      BY <1>s, <2>7, <3>2 DEF KnownInv
    <3>3. ASSUME NEW y, NEW p, NEW w, NEW other, Known(y, p, w)', Known(other, p, w)' PROVE y = other
      <4>1. o \in DOMAIN bulk.waiting => \A x : ~Known(x, o, v)
        <5>1. ASSUME o \in DOMAIN bulk.waiting, NEW x, Known(x, o, v) PROVE FALSE
          <6>1. v < bulk.waiting[o]
            BY <1>s, <5>1 DEF KnownInv
          <6> QED  BY <2>4, <5>1, <6>1 DEF v
        <5> QED  BY <5>1
      <4> QED  BY <1>s, <2>7, <3>3, <4>1 DEF KnownInv
    <3>4. \A p \in DOMAIN bulk'.waiting : bulk'.waiting[p] \in 1..bus'.object[p]
      BY <1>1, <1>s, <2>1 DEF KnownInv
    <3> QED  BY <3>1, <3>2, <3>3, <3>4 DEF KnownInv
  <2>9. ActiveInv'
    <3>1. ASSUME NEW p \in DOMAIN bulk'.active
          PROVE  LET a == bulk'.active[p]
                 IN  /\ Len(a.left) <= ObjectUnits
                     /\ \A i \in 1..Len(a.left) : /\ a.left[i].name = p
                                                  /\ a.left[i].version = a.left[1].version
                                                  /\ a.left[i].last <=> i = Len(a.left)
                     /\ Len(a.left) = ObjectUnits <=> a.stream \notin DOMAIN wire'
                     /\ a.stream \in DOMAIN wire' => \A i \in 1..Len(wire'[a.stream]) : ~wire'[a.stream][i].last
      <4>1. CASE p = o
        <5>1. o \in DOMAIN bulk.waiting /\ bulk'.active[p].stream = new /\ bulk'.active[p].left = left
          BY <2>1, <3>1, <4>1 DEF left
        <5>2. /\ Len(left) <= ObjectUnits /\ Len(left) = ObjectUnits
              /\ \A i \in 1..Len(left) : /\ left[i].name = o /\ left[i].version = left[1].version
                                         /\ left[i].last <=> i = Len(left)
          BY <1>b, <2>5, <2>6, <5>1
        <5> QED  BY <2>3, <4>1, <5>1, <5>2
      <4>2. CASE p # o
        BY <1>10, <3>1, <4>2
      <4> QED  BY <4>1, <4>2
    <3>2. DOMAIN bulk'.waiting \subseteq DOMAIN bulk'.active
      BY <1>1, <1>s, <2>1 DEF ActiveInv
    <3> QED  BY <3>1, <3>2 DEF ActiveInv
  <2>10. ShownInv'
    <3>1. ASSUME NEW p \in Objects
          PROVE  /\ local.object[p] <= console.latest[p] /\ console.latest[p] <= bus.object[p]
                 /\ p \in DOMAIN bulk'.waiting => console.latest[p] < bulk'.waiting[p]
                 /\ p \in DOMAIN bulk'.active /\ bulk'.active[p].stream \notin DOMAIN wire'
                      => console.latest[p] < bulk'.active[p].left[1].version
      <4>1. /\ local.object[p] <= console.latest[p] /\ console.latest[p] <= bus.object[p]
            /\ p \in DOMAIN bulk.waiting => console.latest[p] < bulk.waiting[p]
        BY <1>s DEF ShownInv
      <4>2. CASE p = o
        BY <2>1, <2>6, <4>1, <4>2 DEF v, left
      <4>3. CASE p # o
        BY <1>1, <1>s, <2>1, <2>2, <4>1, <4>3 DEF ShownInv
      <4> QED  BY <4>2, <4>3
    <3> QED  BY <1>1, <1>9, <1>s, <3>1 DEF ShownInv
  <2> QED  BY <2>8, <2>9, <2>10 DEF ObjectInv
<1> QED  BY <1>11, <1>12

\* What is known after a unit is read was known before.
LEMMA KnownAfterRead ==
  ASSUME Shape, NEW id, Read(id), bulk'.active = bulk.active,
         \A y \in DOMAIN console'.partial : Known(y, console'.partial[y].name, console'.partial[y].version)
  PROVE  \A y, o, v : Known(y, o, v)' => Known(y, o, v)
<1>1. ASSUME NEW y \in DOMAIN wire', NEW i \in 1..Len(wire'[y]), wire'[y][i].kind = "Object"
      PROVE  Known(y, wire'[y][i].name, wire'[y][i].version)
  <2>1. \E j \in 1..Len(wire[y]) : y \in DOMAIN wire /\ wire'[y][i] = wire[y][j]
    <3>0. y \in DOMAIN wire
      BY LeftFacts
    <3>1. Len(wire[y]) \in Nat
      BY <3>0 DEF Shape
    <3>2. CASE y # id
      BY <3>2, LeftFacts
    <3>3. CASE y = id
      <4>1. y \in DOMAIN wire /\ i + 1 \in 2..Len(wire[y]) /\ wire'[y][i] = wire[y][i + 1]
        BY <3>3, LeftFacts
      <4>2. i + 1 \in 1..Len(wire[y])
        BY <3>1, <4>1
      <4> QED  BY <4>1, <4>2
    <3> QED  BY <3>2, <3>3
  <2> QED  BY <1>1, <2>1 DEF Known
<1>2. ASSUME NEW y, NEW o, NEW v, Known(y, o, v)' PROVE Known(y, o, v)
  <2>1. CASE /\ o \in DOMAIN bulk'.active /\ y = bulk'.active[o].stream
             /\ v = bulk'.active[o].left[1].version
    BY <2>1 DEF Known
  <2>2. CASE /\ y \in DOMAIN wire'
             /\ \E i \in 1..Len(wire'[y]) : /\ wire'[y][i].kind = "Object" /\ wire'[y][i].name = o
                                            /\ wire'[y][i].version = v
    BY <1>1, <2>2
  <2>3. CASE /\ y \in DOMAIN console'.partial
             /\ o = console'.partial[y].name /\ v = console'.partial[y].version
    BY <2>3
  <2> QED  BY <1>2, <2>1, <2>2, <2>3 DEF Known
<1> QED  BY <1>2

\* The sender does not notice that a unit is read, but for the end of an object's stream,
\* which it has forgotten by then.
LEMMA ActiveAfterRead ==
  ASSUME Shape, ActiveInv, NEW id, Read(id), bulk' = bulk
  PROVE  /\ ActiveInv'
         /\ \A o \in DOMAIN bulk.active : bulk.active[o].stream \in DOMAIN wire' <=> bulk.active[o].stream \in DOMAIN wire
<1>1. /\ id \in DOMAIN wire /\ wire[id] # <<>> /\ 1 \in 1..Len(wire[id])
      /\ DOMAIN wire' \subseteq DOMAIN wire /\ DOMAIN wire \ {id} \subseteq DOMAIN wire'
      /\ id \in DOMAIN wire' <=> ~(wire[id][1].kind = "Object" /\ wire[id][1].last)
  BY ReadFacts
<1>2. ASSUME NEW o \in DOMAIN bulk.active
      PROVE  LET a == bulk.active[o]
             IN  /\ Len(a.left) <= ObjectUnits
                 /\ \A i \in 1..Len(a.left) : /\ a.left[i].name = o
                                              /\ a.left[i].version = a.left[1].version
                                              /\ a.left[i].last <=> i = Len(a.left)
                 /\ Len(a.left) = ObjectUnits <=> a.stream \notin DOMAIN wire'
                 /\ a.stream \in DOMAIN wire' => \A i \in 1..Len(wire'[a.stream]) : ~wire'[a.stream][i].last
                 /\ a.stream \in DOMAIN wire' <=> a.stream \in DOMAIN wire
  <2> DEFINE a == bulk.active[o]
  <2>1. /\ Len(a.left) <= ObjectUnits
        /\ \A i \in 1..Len(a.left) : /\ a.left[i].name = o
                                     /\ a.left[i].version = a.left[1].version
                                     /\ a.left[i].last <=> i = Len(a.left)
        /\ Len(a.left) = ObjectUnits <=> a.stream \notin DOMAIN wire
        /\ a.stream \in DOMAIN wire => \A i \in 1..Len(wire[a.stream]) : ~wire[a.stream][i].last
    BY DEF ActiveInv
  <2> HIDE DEF a
  <2>2. a.stream \in DOMAIN wire' <=> a.stream \in DOMAIN wire
    BY <1>1, <2>1
  <2>3. ASSUME a.stream \in DOMAIN wire', NEW i \in 1..Len(wire'[a.stream]) PROVE ~wire'[a.stream][i].last
    <3> DEFINE y == a.stream
    <3>0. y \in DOMAIN wire' /\ i \in 1..Len(wire'[y])
      BY <2>3
    <3> HIDE DEF y
    <3>1. /\ y \in DOMAIN wire
          /\ y # id => i \in 1..Len(wire[y]) /\ wire'[y][i] = wire[y][i]
          /\ y = id => i + 1 \in 2..Len(wire[y]) /\ wire'[y][i] = wire[y][i + 1]
      BY <3>0, LeftFacts
    <3>2. y = id => i + 1 \in 1..Len(wire[y])
      <4>1. Len(wire[y]) \in Nat
        BY <3>1 DEF Shape
      <4> QED  BY <3>1, <4>1
    <3>3. \A j \in 1..Len(wire[y]) : ~wire[y][j].last
      BY <2>1, <3>1 DEF y
    <3>4. ~wire'[y][i].last
      BY <3>1, <3>2, <3>3
    <3> QED  BY <3>4 DEF y
  <2>4. /\ Len(a.left) = ObjectUnits <=> a.stream \notin DOMAIN wire'
        /\ a.stream \in DOMAIN wire' => \A i \in 1..Len(wire'[a.stream]) : ~wire'[a.stream][i].last
    BY <2>1, <2>2, <2>3
  <2> QED  BY <2>1, <2>2, <2>4 DEF a
<1>3. \A o \in DOMAIN bulk.active : bulk.active[o].stream \in DOMAIN wire' <=> bulk.active[o].stream \in DOMAIN wire
  BY <1>2
<1>4. DOMAIN bulk.waiting \subseteq DOMAIN bulk.active
  BY DEF ActiveInv
<1> QED  BY <1>2, <1>3, <1>4 DEF ActiveInv

\* The first unit of a stream was its first before, unless the stream is the one read.
LEMMA UnitsAfterRead ==
  ASSUME Shape, ReadInv, NEW id, Read(id), NEW y \in DOMAIN wire', wire'[y] # <<>>, wire'[y][1].opens
  PROVE  y # id /\ y \in DOMAIN wire /\ wire[y] # <<>> /\ wire'[y][1] = wire[y][1]
<1>1. /\ DOMAIN wire' \subseteq DOMAIN wire /\ \A x \in DOMAIN wire : x # id => wire'[x] = wire[x]
      /\ id \in DOMAIN wire' => wire'[id] \in Seq(SentUnit)
  BY ReadFacts
<1>2. ASSUME y = id PROVE FALSE
  <2>1. 1 \in 1..Len(wire'[y])
    BY <1>1, <1>2
  <2>2. 2 \in 2..Len(wire[y]) /\ wire'[y][1] = wire[y][2]
    BY <1>2, <2>1, LeftFacts
  <2> QED  BY <1>1, <2>2 DEF ReadInv
<1> QED  BY <1>1, <1>2

\* Reading a sample's unit.
LEMMA ObjectReadsTopic ==
  ASSUME Shape, StreamInv, ObjectInv, NEW id, OnTopicStream(id)
  PROVE  ObjectInv'
<1>s. IdsInv /\ KindsInv /\ ReadInv /\ ActiveInv /\ KnownInv /\ ShownInv
  BY DEF StreamInv, ObjectInv
<1>1. /\ Read(id)
      /\ UNCHANGED <<bus, bulk, local, console.partial, console.latest>>
  BY ReadsTopicFacts
<1>2. \A y, o, v : Known(y, o, v)' => Known(y, o, v)
  BY <1>1, <1>s, KnownFacts, KnownAfterRead
<1>3. KnownInv'
  BY <1>1, <1>2, <1>s, KnownStays
<1>4. ActiveInv' /\ \A o \in DOMAIN bulk.active : bulk.active[o].stream \in DOMAIN wire' <=> bulk.active[o].stream \in DOMAIN wire
  BY <1>1, <1>s, ActiveAfterRead
<1>5. ASSUME NEW y \in DOMAIN wire', wire'[y] # <<>>, wire'[y][1].opens, wire'[y][1].kind = "Object"
      PROVE  wire'[y][1].version # console.latest[wire'[y][1].name]
  BY <1>1, <1>5, <1>s, UnitsAfterRead DEF ShownInv
<1>6. ShownInv'
  BY <1>1, <1>4, <1>5, <1>s DEF ShownInv
<1> QED  BY <1>3, <1>4, <1>6 DEF ObjectInv

\* An object that is delivered is newer than the one shown, and the console knows of none
\* that is newer still.
LEMMA DeliveredIsNewest ==
  ASSUME Shape, StreamInv, ObjectInv, NEW id, Read(id), ~TopicStream(id), NEW unit, unit = wire[id][1],
         Delivered(console, id, unit)
  PROVE  /\ unit.name \in Objects /\ id \in DOMAIN console.partial /\ ~unit.opens
         /\ console.partial[id].name = unit.name
         /\ unit.version = console.latest[unit.name] /\ local.object[unit.name] < unit.version
<1>s. IdsInv /\ KindsInv /\ KnownInv /\ ShownInv
  BY DEF StreamInv, ObjectInv
<1>1. /\ id \in DOMAIN wire /\ wire[id] # <<>> /\ 1 \in 1..Len(wire[id])
  BY ReadFacts
<1>2. unit.kind = "Object"
  BY <1>1, <1>s DEF KindsInv
<1>3. Known(id, unit.name, unit.version)
  BY <1>1, <1>2, <1>s, KnownFacts
<1>4. id \in DOMAIN console.partial
  BY DEF Delivered
<1>5. Known(id, console.partial[id].name, console.partial[id].version)
  BY <1>4, <1>s, KnownFacts
<1>6. console.partial[id].name = unit.name /\ console.partial[id].version = unit.version
  BY <1>3, <1>5, <1>s DEF KnownInv
<1>7. unit.name \in Objects /\ unit.version = console.latest[unit.name] /\ local.object[unit.name] < unit.version
  BY <1>4, <1>6, <1>s DEF ShownInv
<1>8. ~unit.opens
  BY <1>1, <1>2, <1>7, <1>s DEF ShownInv
<1> QED  BY <1>4, <1>6, <1>7, <1>8

\* Reading an object's unit: a header makes the version the newest and drops the copies
\* it makes stale, the last unit delivers the object or forgets it.
LEMMA ObjectReadsBulk ==
  ASSUME Shape, StreamInv, ObjectInv, NEW id, OnBulkStream(id)
  PROVE  ObjectInv'
<1> DEFINE unit == wire[id][1]
           d == OnData(console, id, unit)
           o == unit.name
           v == unit.version
<1>0. unit = wire[id][1] /\ d = OnData(console, id, unit) /\ o = unit.name /\ v = unit.version
  OBVIOUS
<1> HIDE DEF unit, d, o, v
<1>s. IdsInv /\ KindsInv /\ ReadInv /\ ActiveInv /\ KnownInv /\ ShownInv
  BY DEF StreamInv, ObjectInv
<1>1. /\ Read(id) /\ unit \in SentUnit /\ \E magic \in FirstByteIsMagic(unit) : ~IsTopic(id, magic)
      /\ UNCHANGED <<bus, outbox, bulk>>
      /\ BulkRead(id, unit)
  BY <1>0, ReadsBulkFacts
<1>2. ~TopicStream(id)
  BY <1>0, <1>1, <1>s, ReadByKind
<1>3. /\ console'.partial = d.partial /\ console'.latest = d.latest
      /\ local'.object = IF unit.last /\ Delivered(console, id, unit)
                         THEN [local.object EXCEPT ![o] = v] ELSE local.object
  BY <1>0, <1>1 DEF BulkRead
<1>4. /\ ConsoleShape(d) /\ DOMAIN d.partial \subseteq DOMAIN console.partial \cup {id}
      /\ \A y \in DOMAIN d.partial : y # id => d.partial[y].name = console.partial[y].name
                                               /\ d.partial[y].version = console.partial[y].version
      /\ unit.opens => HeaderRead(console, d, id, unit)
      /\ ~unit.opens => RestRead(console, d, id, unit)
  <2>1. ConsoleShape(console)
    BY DEF Shape
  <2> QED  BY <1>0, <1>1, <2>1, OnDataFacts
<1>5. /\ id \in DOMAIN wire /\ wire[id] # <<>> /\ 1 \in 1..Len(wire[id])
  BY <1>1, ReadFacts
<1>6. unit.kind = "Object"
  BY <1>0, <1>2, <1>5, <1>s DEF KindsInv
<1>7. Known(id, o, v)
  BY <1>0, <1>5, <1>6, <1>s, KnownFacts
<1>8. o \in Objects /\ v \in 1..bus.object[o]
  BY <1>7, <1>s DEF KnownInv
<1>b. /\ bus.object \in [Objects -> Nat] /\ console.latest \in [Objects -> Nat] /\ local.object \in [Objects -> Nat]
      /\ v \in Nat
  BY <1>0, <1>1 DEF Shape, BusShape, ConsoleShape, SentUnit
<1>9. ASSUME NEW y \in DOMAIN console'.partial
      PROVE  Known(y, console'.partial[y].name, console'.partial[y].version)
  <2>1. CASE y # id
    <3>1. Known(y, console.partial[y].name, console.partial[y].version)
      BY <1>3, <1>4, <1>s, <2>1, KnownFacts
    <3> QED  BY <1>3, <1>4, <2>1, <3>1
  <2>2. CASE y = id /\ unit.opens
    BY <1>0, <1>3, <1>4, <1>7, <2>2 DEF HeaderRead
  <2>3. CASE y = id /\ ~unit.opens
    <3>1. Known(y, console.partial[y].name, console.partial[y].version)
      BY <1>3, <1>4, <1>s, <2>3, KnownFacts DEF RestRead
    <3> QED  BY <1>3, <1>4, <2>3, <3>1 DEF RestRead
  <2> QED  BY <2>1, <2>2, <2>3
<1>10. \A y, p, w : Known(y, p, w)' => Known(y, p, w)
  BY <1>1, <1>9, KnownAfterRead
<1>11. KnownInv'
  BY <1>1, <1>10, <1>s, KnownStays
<1>12. ActiveInv' /\ \A p \in DOMAIN bulk.active : bulk.active[p].stream \in DOMAIN wire' <=> bulk.active[p].stream \in DOMAIN wire
  BY <1>1, <1>s, ActiveAfterRead
<1>13. ASSUME NEW p \in Objects
       PROVE  /\ local.object[p] <= console.latest[p] /\ console.latest[p] <= bus.object[p]
              /\ p \in DOMAIN bulk.waiting => console.latest[p] < bulk.waiting[p]
              /\ p \in DOMAIN bulk.active /\ bulk.active[p].stream \notin DOMAIN wire'
                   => console.latest[p] < bulk.active[p].left[1].version
              /\ local.object[p] \in Nat /\ console.latest[p] \in Nat /\ bus.object[p] \in Nat
              /\ p \in DOMAIN bulk.waiting => bulk.waiting[p] \in Nat
              /\ p \in DOMAIN bulk.active => bulk.active[p].left[1].version \in Nat
  <2>1. p \in DOMAIN bulk.active => bulk.active[p].left[1].version \in Nat
    <3>1. ASSUME p \in DOMAIN bulk.active PROVE bulk.active[p].left[1].version \in Nat
      <4>1. bulk.active[p].left \in Seq(QueuedUnit) /\ bulk.active[p].left # <<>>
        BY <3>1 DEF Shape
      <4>2. bulk.active[p].left[1] \in QueuedUnit
        BY <4>1
      <4> QED  BY <4>2 DEF QueuedUnit
    <3> QED  BY <3>1
  <2>2. p \in DOMAIN bulk.waiting => bulk.waiting[p] \in Nat
    BY DEF Shape
  <2> QED  BY <1>12, <1>b, <1>s, <2>1, <2>2 DEF ShownInv
<1>14. ASSUME NEW y \in DOMAIN wire', wire'[y] # <<>>, wire'[y][1].opens, wire'[y][1].kind = "Object"
       PROVE  /\ y # id /\ wire'[y][1].version # console.latest[wire'[y][1].name]
              /\ Known(y, wire'[y][1].name, wire'[y][1].version)
  <2>1. y # id /\ y \in DOMAIN wire /\ wire[y] # <<>> /\ wire'[y][1] = wire[y][1]
    BY <1>1, <1>14, <1>s, UnitsAfterRead
  <2>2. 1 \in 1..Len(wire[y])
    <3>1. wire[y] \in Seq(SentUnit)
      BY <2>1 DEF Shape
    <3> QED  BY <2>1, <3>1
  <2>3. Known(y, wire[y][1].name, wire[y][1].version)
    BY <1>14, <1>s, <2>1, <2>2, KnownFacts
  <2> QED  BY <1>14, <1>s, <2>1, <2>3 DEF ShownInv
<1>15. CASE unit.opens
  <2>1. ~(unit.last /\ Delivered(console, id, unit))
    BY <1>0, <1>1, <1>2, <1>15, DeliveredIsNewest
  <2>2. local'.object = local.object
    BY <1>3, <2>1
  <2> DEFINE latest == console'.latest
  <2>3. /\ latest = [console.latest EXCEPT ![o] = More(@, v)]
        /\ \A y \in DOMAIN d.partial :
             ~(d.partial[y].name = o /\ d.partial[y].version < latest[o])
        /\ id \in DOMAIN d.partial => d.partial[id].name = o /\ d.partial[id].version = v
    BY <1>0, <1>3, <1>4, <1>15 DEF HeaderRead
  <2> HIDE DEF latest
  <2>4. /\ \A p \in Objects : p # o => latest[p] = console.latest[p]
        /\ latest[o] = IF console.latest[o] >= v THEN console.latest[o] ELSE v
    BY <1>8, <1>b, <2>3 DEF More
  <2>5. latest[o] \in Nat /\ latest[o] >= v /\ latest[o] >= console.latest[o]
        /\ (latest[o] = v \/ latest[o] = console.latest[o])
    BY <1>8, <1>b, <2>4
  <2>6. v # console.latest[o]
    BY <1>0, <1>5, <1>6, <1>15, <1>s DEF ShownInv
  <2>7. ASSUME NEW p \in Objects
        PROVE  /\ local.object[p] <= latest[p] /\ latest[p] <= bus.object[p]
               /\ p \in DOMAIN bulk.waiting => latest[p] < bulk.waiting[p]
               /\ p \in DOMAIN bulk.active /\ bulk.active[p].stream \notin DOMAIN wire'
                    => latest[p] < bulk.active[p].left[1].version
    <3>1. CASE p # o
      BY <1>13, <2>4, <3>1
    <3>2. CASE p = o
      <4>1. o \in DOMAIN bulk.waiting => v < bulk.waiting[o]
        BY <1>7, <1>s DEF KnownInv
      <4>2. o \in DOMAIN bulk.active /\ bulk.active[o].stream \notin DOMAIN wire' => v < bulk.active[o].left[1].version
        <5>1. ASSUME o \in DOMAIN bulk.active, bulk.active[o].stream \notin DOMAIN wire'
              PROVE  v < bulk.active[o].left[1].version
          <6>1. v <= bulk.active[o].left[1].version
            BY <1>7, <1>s, <5>1 DEF KnownInv
          <6>2. bulk.active[o].stream # id
            BY <1>12, <1>5, <5>1
          <6>3. Known(bulk.active[o].stream, o, bulk.active[o].left[1].version)
            BY <1>s, <5>1, KnownFacts
          <6>4. v # bulk.active[o].left[1].version
            BY <1>7, <1>s, <6>2, <6>3 DEF KnownInv
          <6> DEFINE w == bulk.active[o].left[1].version
          <6>5. w \in Nat
            BY <1>13, <1>8, <5>1
          <6> HIDE DEF w
          <6>6. v <= w /\ v # w
            BY <6>1, <6>4 DEF w
          <6>7. v < w
            BY <1>b, <6>5, <6>6
          <6> QED  BY <6>7 DEF w
        <5> QED  BY <5>1
      <4> QED  BY <1>13, <1>8, <1>b, <2>5, <3>2, <4>1, <4>2
    <3> QED  BY <3>1, <3>2
  <2>8. ASSUME NEW y \in DOMAIN wire', wire'[y] # <<>>, wire'[y][1].opens, wire'[y][1].kind = "Object"
        PROVE  wire'[y][1].version # latest[wire'[y][1].name]
    <3>1. /\ y # id /\ wire'[y][1].version # console.latest[wire'[y][1].name]
          /\ Known(y, wire'[y][1].name, wire'[y][1].version)
      BY <1>14, <2>8
    <3>2. wire'[y][1].name \in Objects
      BY <1>s, <3>1 DEF KnownInv
    <3>3. wire'[y][1].name = o => wire'[y][1].version # v
      BY <1>7, <1>s, <3>1 DEF KnownInv
    <3> QED  BY <2>4, <2>5, <3>1, <3>2, <3>3
  <2>9. ASSUME NEW y \in DOMAIN console'.partial
        PROVE  /\ console'.partial[y].name \in Objects
               /\ console'.partial[y].version = latest[console'.partial[y].name]
               /\ local.object[console'.partial[y].name] < console'.partial[y].version
    <3>1. ~(d.partial[y].name = o /\ d.partial[y].version < latest[o])
      BY <1>3, <2>3
    <3>2. CASE y = id
      <4>1. console'.partial[y].name = o /\ console'.partial[y].version = v /\ ~(v < latest[o])
        BY <1>3, <2>3, <3>1, <3>2
      <4>2. v = latest[o] /\ local.object[o] < v
        BY <1>13, <1>8, <1>b, <2>5, <2>6, <4>1
      <4> QED  BY <1>8, <4>1, <4>2
    <3>3. CASE y # id
      <4> DEFINE p == console.partial[y].name
                 w == console.partial[y].version
      <4>1. y \in DOMAIN console.partial /\ console'.partial[y].name = p /\ console'.partial[y].version = w
        BY <1>3, <1>4, <3>3
      <4>2. p \in Objects /\ w = console.latest[p] /\ local.object[p] < w
        BY <1>s, <4>1 DEF ShownInv
      <4>3. p = o => ~(w < latest[o])
        BY <1>3, <3>1, <4>1
      <4> HIDE DEF p, w
      <4>4. w = latest[p]
        BY <1>b, <2>4, <2>5, <4>2, <4>3
      <4> QED  BY <4>1, <4>2, <4>4
    <3> QED  BY <3>2, <3>3
  <2>10. ShownInv'
    BY <1>1, <2>2, <2>7, <2>8, <2>9 DEF ShownInv, latest
  <2> QED  BY <1>11, <1>12, <2>10 DEF ObjectInv
<1>16. CASE ~unit.opens
  <2>1. /\ console'.latest = console.latest /\ DOMAIN console'.partial \subseteq DOMAIN console.partial
        /\ unit.last => id \notin DOMAIN console'.partial
    BY <1>3, <1>4, <1>16 DEF RestRead
  <2>2. ASSUME NEW y \in DOMAIN console'.partial
        PROVE  /\ console'.partial[y].name = console.partial[y].name
               /\ console'.partial[y].version = console.partial[y].version
    BY <1>3, <1>4, <1>16 DEF RestRead
  <2>3. CASE unit.last /\ Delivered(console, id, unit)
    <3>1. v = console.latest[o] /\ id \in DOMAIN console.partial
      BY <1>0, <1>1, <1>2, <2>3, DeliveredIsNewest
    <3>2. \A p \in Objects : local'.object[p] = IF p = o THEN v ELSE local.object[p]
      BY <1>3, <1>b, <2>3
    <3>3. ASSUME NEW p \in Objects PROVE local'.object[p] <= console.latest[p]
      BY <1>13, <1>b, <3>1, <3>2
    <3>4. ASSUME NEW y \in DOMAIN console'.partial
          PROVE  /\ console'.partial[y].name \in Objects
                 /\ console'.partial[y].version = console.latest[console'.partial[y].name]
                 /\ local'.object[console'.partial[y].name] < console'.partial[y].version
      <4> DEFINE p == console.partial[y].name
                 w == console.partial[y].version
      <4>1. y \in DOMAIN console.partial /\ console'.partial[y].name = p /\ console'.partial[y].version = w
        BY <2>1, <2>2
      <4>2. p \in Objects /\ w = console.latest[p] /\ local.object[p] < w /\ Known(y, p, w)
        BY <1>s, <4>1, KnownFacts DEF ShownInv
      <4>3. p # o
        <5>1. ASSUME p = o PROVE FALSE
          <6>1. y = id
            BY <1>7, <1>s, <3>1, <4>2, <5>1 DEF KnownInv
          <6> QED  BY <2>1, <2>3, <6>1
        <5> QED  BY <5>1
      <4> HIDE DEF p, w
      <4> QED  BY <3>2, <4>1, <4>2, <4>3
    <3>5. ShownInv'
      BY <1>1, <1>13, <1>14, <2>1, <3>3, <3>4 DEF ShownInv
    <3> QED  BY <1>11, <1>12, <3>5 DEF ObjectInv
  <2>4. CASE ~(unit.last /\ Delivered(console, id, unit))
    <3>1. local'.object = local.object
      BY <1>3, <2>4
    <3>2. ASSUME NEW y \in DOMAIN console'.partial
          PROVE  /\ console'.partial[y].name \in Objects
                 /\ console'.partial[y].version = console.latest[console'.partial[y].name]
                 /\ local.object[console'.partial[y].name] < console'.partial[y].version
      <4>1. y \in DOMAIN console.partial
        BY <2>1
      <4> QED  BY <1>s, <2>2, <4>1 DEF ShownInv
    <3>3. ShownInv'
      BY <1>1, <1>13, <1>14, <2>1, <3>1, <3>2 DEF ShownInv
    <3> QED  BY <1>11, <1>12, <3>3 DEF ObjectInv
  <2> QED  BY <2>3, <2>4
<1> QED  BY <1>15, <1>16

\* Every step keeps what is known of the objects sent.
LEMMA NextObjectInv == Shape /\ StreamInv /\ ObjectInv /\ [Next]_vars => ObjectInv'
<1> SUFFICES ASSUME Shape, StreamInv, ObjectInv, [Next]_vars PROVE ObjectInv'
  OBVIOUS
<1>1. CASE Quiet
  <2>1. UNCHANGED streams
    BY <1>1, QuietFacts
  <2> QED  BY <2>1, ObjectUntouched DEF streams
<1>2. CASE SessionOnForward
  <2> DEFINE s == capture[1]
             lane == LaneOf(outbox, s)
  <2>0. s = capture[1] /\ lane = LaneOf(outbox, s)
    OBVIOUS
  <2> HIDE DEF s, lane
  <2>1. UNCHANGED <<bus, bulk, wire, console, local>>
    BY <1>2, <2>0, QueuesFacts
  <2> QED  BY <2>1, ObjectUntouched
<1>3. ASSUME NEW lane \in Lanes, PumpTopics(lane) PROVE ObjectInv'
  BY <1>3, ObjectPumpTopics
<1>4. ASSUME NEW o \in Objects, PublishObject(o) \/ PumpBulk(o) PROVE ObjectInv'
  BY <1>4, ObjectPublish, ObjectPumpBulk
<1>5. ASSUME NEW id, OnTopicStream(id) \/ OnBulkStream(id) PROVE ObjectInv'
  BY <1>5, ObjectReadsTopic, ObjectReadsBulk
<1>6. CASE Reconnect
  <2>1. /\ DOMAIN wire' = {} /\ DOMAIN bulk'.active = {} /\ DOMAIN bulk'.waiting = {}
        /\ DOMAIN console'.partial = {} /\ console'.latest = [o \in Objects |-> None]
        /\ local'.object = [o \in Objects |-> None] /\ bus'.object = [o \in Objects |-> 0]
    BY <1>6, ReconnectFacts
  <2>2. \A id, o, v : ~Known(id, o, v)'
    BY <2>1 DEF Known
  <2>3. KnownInv'
    BY <2>1, <2>2 DEF KnownInv
  <2>4. ActiveInv' /\ ShownInv'
    BY <2>1 DEF ActiveInv, ShownInv, None
  <2> QED  BY <2>3, <2>4 DEF ObjectInv
<1> QED  BY <1>1, <1>2, <1>3, <1>4, <1>5, <1>6, StepCases

-----------------------------------------------------------------------------
(* Bounds.                                                                 *)

RateInv ==
  /\ rate \in [level : MinRate..MaxRate, tokens : 0..Capacity(MaxRate)]
  /\ cap \in 0..CapBurst

LaneBound == \A lane \in Lanes : Len(outbox.lanes[lane]) <= Backlog

ChannelBound == Len(capture) <= ChannelDepth /\ Len(console.republish) <= ChannelDepth

WireBound == \A i \in DOMAIN wire : i <= MaxStreams + closed

\* The constants as single facts.
LEMMA ConstantFacts ==
  /\ ObjectUnits \in Nat /\ ObjectUnits > 1
  /\ Backlog \in Nat /\ ChannelDepth \in Nat /\ ChannelDepth > 0 /\ MaxStreams \in Nat
  /\ DatagramUnits \in Nat /\ DatagramUnits > 0 /\ CapBurst \in Nat /\ MinBurst \in Nat /\ LatestReserve \in Nat
  /\ MinRate \in Nat /\ MinRate > 0 /\ MaxRate \in Nat /\ MinRate <= MaxRate
  BY DataStreamsAssumption

\* Tokens are spent only when they are there, and the rate stays within its clamps.
LEMMA NextRateInv == Shape /\ RateInv /\ [Next]_vars => RateInv'
<1> SUFFICES ASSUME Shape, RateInv, [Next]_vars PROVE RateInv'
  OBVIOUS
<1> USE ConstantFacts
<1> DEFINE top == Capacity(MaxRate)
<1>c. top \in Nat /\ top >= MinBurst /\ top >= MaxRate
  BY DEF Capacity, More
<1> HIDE DEF top
<1>t. rate \in [level : MinRate..MaxRate, tokens : 0..top] /\ cap \in 0..CapBurst
  BY DEF RateInv, top
<1>1. ASSUME rate' = [rate EXCEPT !.tokens = @ - 1], rate.tokens > 0, cap' \in 0..CapBurst PROVE RateInv'
  BY <1>t, <1>c, <1>1 DEF RateInv, top
<1>2. CASE RefillRate
  <2>1. rate' = [rate EXCEPT !.tokens = Less(@ + rate.level, Capacity(rate.level))] /\ cap' = cap
    BY <1>2 DEF RefillRate
  <2>2. Less(rate.tokens + rate.level, Capacity(rate.level)) \in 0..top
    BY <1>t, <1>c DEF Less, Capacity, More, top
  <2> QED  BY <1>t, <2>1, <2>2 DEF RateInv, top
<1>3. CASE RefillCap
  BY <1>t, <1>3 DEF RefillCap, RateInv, top
<1>4. CASE UpdateRate
  <2>1. PICK congested \in BOOLEAN :
          rate' = [rate EXCEPT !.level = Clamped(IF congested THEN (@ * 4) \div 5 ELSE @ + 1)]
    BY <1>4 DEF UpdateRate
  <2>2. \A n \in Int : Clamped(n) \in MinRate..MaxRate
    BY DEF Clamped, More, Less
  <2>3. rate.level \in Nat /\ (rate.level * 4) \div 5 \in Int /\ rate.level + 1 \in Int
    BY <1>t
  <2> DEFINE level == IF congested THEN (rate.level * 4) \div 5 ELSE rate.level + 1
  <2>4. level \in Int
    BY <2>3
  <2>5. rate' = [rate EXCEPT !.level = Clamped(level)] /\ cap' = cap
    BY <1>4, <2>1 DEF UpdateRate
  <2> HIDE DEF level
  <2> QED  BY <1>t, <2>2, <2>4, <2>5 DEF RateInv, top
<1>5. CASE FeedTopicDatagram
  <2>1. rate' = [rate EXCEPT !.tokens = @ - 1] /\ cap' = cap - 1 /\ rate.tokens >= DatagramUnits /\ cap >= DatagramUnits
    BY <1>5 DEF FeedTopicDatagram, CanFeed
  <2> QED  BY <1>t, <1>1, <2>1
<1>6. ASSUME NEW lane \in Lanes, PumpTopics(lane) PROVE RateInv'
  <2>1. rate' = [rate EXCEPT !.tokens = @ - 1] /\ cap' = cap - 1 /\ Budget > 0
    BY <1>6 DEF PumpTopics, CanPump
  <2>2. rate.tokens > 0 /\ cap > 0
    BY <1>t, <2>1 DEF Budget, Less
  <2> QED  BY <1>t, <1>1, <2>1, <2>2
<1>7. ASSUME NEW o \in Objects, PumpBulk(o) PROVE RateInv'
  <2>1. rate' = [rate EXCEPT !.tokens = @ - 1] /\ cap' = cap /\ rate.tokens > 0
    BY <1>7 DEF PumpBulk
  <2> QED  BY <1>t, <1>1, <2>1
<1>8. CASE Reconnect
  BY <1>8, <1>c DEF Reconnect, RateInv, top
<1>9. CASE UNCHANGED <<rate, cap>>
  BY <1>t, <1>9 DEF RateInv, top
<1>10. \/ RefillRate \/ RefillCap \/ UpdateRate \/ FeedTopicDatagram \/ (\E lane \in Lanes : PumpTopics(lane))
       \/ (\E o \in Objects : PumpBulk(o)) \/ Reconnect \/ UNCHANGED <<rate, cap>>
  BY DEF Next, PublishLatest, PublishReliable, PublishObject, SessionOnForward, PutSample, OnTopicDatagram,
         LoseDatagram, OnTopicStream, OnBulkStream, WatcherPolls, vars
<1> QED  BY <1>2, <1>3, <1>4, <1>5, <1>6, <1>7, <1>8, <1>9, <1>10

\* push_reliable: no lane grows beyond its backlog.
LEMMA NextLaneBound == Shape /\ LaneBound /\ [Next]_vars => LaneBound'
<1> SUFFICES ASSUME Shape, LaneBound, [Next]_vars PROVE LaneBound'
  OBVIOUS
<1>t. /\ outbox.lanes \in [Lanes -> Seq(QueuedUnit)] /\ Backlog \in Nat
      /\ \A lane \in Lanes : Len(outbox.lanes[lane]) \in Nat /\ Len(outbox.lanes[lane]) <= Backlog
  BY ConstantFacts DEF Shape, OutboxShape, LaneBound
<1>1. CASE SessionOnForward
  <2> DEFINE s == capture[1]
             lane == LaneOf(outbox, s)
  <2>0. s = capture[1] /\ lane = LaneOf(outbox, s)
    OBVIOUS
  <2> HIDE DEF s, lane
  <2>1. /\ s \in CapturedSample /\ lane \in Lanes
        /\ s.mode = "Reliable" /\ Fits(outbox, s) => outbox'.lanes = Longer(lane, s)
        /\ ~(s.mode = "Reliable" /\ Fits(outbox, s)) => outbox'.lanes = outbox.lanes
    BY <1>1, <2>0, QueuesFacts
  <2>2. CASE s.mode = "Reliable" /\ Fits(outbox, s)
    <3> DEFINE us == Units(lane, s.key, s.version, s.units)
               old == outbox.lanes[lane]
    <3>1. us \in Seq(QueuedUnit) /\ Len(us) = s.units
      BY <2>1, UnitsFacts DEF CapturedSample
    <3>2. Len(old) + s.units <= Backlog
      BY <2>0, <2>2 DEF Fits
    <3>3. outbox'.lanes[lane] = old \o us
          /\ \A other \in Lanes : other # lane => outbox'.lanes[other] = outbox.lanes[other]
      BY <1>t, <2>1, <2>2 DEF Longer
    <3>4. old \in Seq(QueuedUnit)
      BY <1>t, <2>1
    <3> HIDE DEF us, old
    <3>5. Len(old \o us) <= Backlog
      BY <3>1, <3>2, <3>4
    <3> QED  BY <1>t, <3>3, <3>5 DEF LaneBound
  <2>3. CASE ~(s.mode = "Reliable" /\ Fits(outbox, s))
    BY <1>t, <2>1, <2>3 DEF LaneBound
  <2> QED  BY <2>2, <2>3
<1>2. ASSUME NEW lane \in Lanes, PumpTopics(lane) PROVE LaneBound'
  <2> DEFINE id == StreamOf(lane)
             unit == outbox.lanes[lane][1]
  <2>0. id = StreamOf(lane) /\ unit = outbox.lanes[lane][1]
    OBVIOUS
  <2> HIDE DEF id, unit
  <2>1. /\ outbox'.lanes = [outbox.lanes EXCEPT ![lane] = Tail(@)]
        /\ Len(Tail(outbox.lanes[lane])) = Len(outbox.lanes[lane]) - 1
    BY <1>2, <2>0, PumpsTopicsFacts
  <2> QED  BY <1>t, <2>1 DEF LaneBound
<1>3. CASE Reconnect
  <2>1. \A lane \in Lanes : outbox'.lanes[lane] = <<>>
    BY <1>3, ReconnectFacts
  <2> QED  BY <1>t, <2>1 DEF LaneBound
<1>4. CASE outbox'.lanes = outbox.lanes
  BY <1>t, <1>4 DEF LaneBound
<1>5. CASE Quiet
  BY <1>4, <1>5, QuietFacts DEF streams
<1>6. ASSUME NEW o \in Objects, PublishObject(o) \/ PumpBulk(o) PROVE LaneBound'
  BY <1>4, <1>6 DEF PublishObject, PumpBulk
<1>7. ASSUME NEW id, OnTopicStream(id) \/ OnBulkStream(id) PROVE LaneBound'
  BY <1>4, <1>7 DEF OnTopicStream, OnBulkStream
<1> QED  BY <1>1, <1>2, <1>3, <1>5, <1>6, <1>7, StepCases

\* Captured, republish: neither channel of a Forwarder grows beyond its depth.
LEMMA NextChannelBound == Shape /\ ChannelBound /\ [Next]_vars => ChannelBound'
<1> SUFFICES ASSUME Shape, ChannelBound, [Next]_vars PROVE ChannelBound'
  OBVIOUS
<1>t. /\ ChannelDepth \in Nat
      /\ capture \in Seq(CapturedSample) /\ Len(capture) <= ChannelDepth
      /\ ConsoleShape(console) /\ console.republish \in Seq(RepublishedSample) /\ Len(console.republish) <= ChannelDepth
  BY ConstantFacts DEF Shape, ConsoleShape, ChannelBound
<1> DEFINE old == console.republish
<1>0. old = console.republish /\ old \in Seq(RepublishedSample) /\ Len(old) \in Nat
  BY <1>t
<1> HIDE DEF old
<1>1. ASSUME NEW sample \in CapturedSample, Captured(sample), UNCHANGED console PROVE ChannelBound'
  BY <1>t, <1>1 DEF Captured, ChannelBound
<1>2. ASSUME NEW k \in Keys, PublishLatest(k) PROVE ChannelBound'
  <2> DEFINE s == [mode |-> "Latest", key |-> k, version |-> bus.state[k] + 1, units |-> 1]
  <2>1. s \in CapturedSample
    BY DEF CapturedSample, Shape, BusShape
  <2>2. Captured(s) /\ UNCHANGED console
    BY <1>2 DEF PublishLatest, receiver
  <2> HIDE DEF s
  <2> QED  BY <1>1, <2>1, <2>2
<1>3. ASSUME NEW k \in Keys, NEW size \in {1, LargeUnits}, PublishReliable(k, size) PROVE ChannelBound'
  <2> DEFINE s == [mode |-> "Reliable", key |-> k, version |-> bus.reliable[k] + 1, units |-> size]
  <2>1. s \in CapturedSample
    <3>1. size \in Nat \ {0}
      BY DataStreamsAssumption
    <3> QED  BY <3>1 DEF CapturedSample, Shape, BusShape
  <2>2. Captured(s) /\ UNCHANGED console
    BY <1>3 DEF PublishReliable, receiver
  <2> HIDE DEF s
  <2> QED  BY <1>1, <2>1, <2>2
<1>4. CASE SessionOnForward
  BY <1>t, <1>4 DEF SessionOnForward, receiver, ChannelBound
<1>5. CASE PutSample
  <2>1. console.republish # <<>> /\ console'.republish = Tail(console.republish) /\ UNCHANGED capture
    BY <1>t, <1>5 DEF PutSample, ConsoleShape
  <2> QED  BY <1>t, <2>1 DEF ChannelBound
<1>6. ASSUME NEW d \in datagrams, OnTopicDatagram(d) PROVE ChannelBound'
  <2> DEFINE one == <<Sample("Latest", d)>>
  <2>1. Sample("Latest", d) \in RepublishedSample
    BY DEF Shape, Sample, RepublishedSample
  <2>2. one \in Seq(RepublishedSample) /\ Len(one) = 1
    BY <2>1
  <2>3. Republish(console, one) /\ UNCHANGED capture
    BY <1>6 DEF OnTopicDatagram
  <2> HIDE DEF one
  <2>4. \/ console'.republish = console.republish
        \/ console'.republish = console.republish \o one /\ Len(console.republish) < ChannelDepth
    BY <1>t, <2>2, <2>3, RepublishFacts
  <2>5. CASE console'.republish = console.republish
    BY <1>t, <2>3, <2>5 DEF ChannelBound
  <2>6. CASE console'.republish = console.republish \o one /\ Len(console.republish) < ChannelDepth
    <3>1. one \in Seq(RepublishedSample)
      BY <2>2
    <3>2. Len(old \o one) = Len(old) + Len(one)
      BY <1>0, <3>1
    <3> QED  BY <1>0, <1>t, <2>2, <2>3, <2>6, <3>2 DEF ChannelBound
  <2> QED  BY <2>4, <2>5, <2>6
<1>7. ASSUME NEW id, OnTopicStream(id) PROVE ChannelBound'
  <2> DEFINE unit == wire[id][1]
             one == <<Sample("Reliable", unit)>>
  <2>0. unit = wire[id][1]
    OBVIOUS
  <2> HIDE DEF unit
  <2>1. /\ unit \in SentUnit /\ UNCHANGED capture
        /\ \/ UNCHANGED console.republish
           \/ Len(console.republish) < ChannelDepth /\ console'.republish = console.republish \o <<>>
           \/ Len(console.republish) < ChannelDepth /\ console'.republish = console.republish \o one
    BY <1>7, <2>0, ReadsTopicFacts
  <2>2. one \in Seq(RepublishedSample) /\ Len(one) = 1
    <3>1. Sample("Reliable", unit) \in RepublishedSample
      BY <2>1 DEF SentUnit, Sample, RepublishedSample
    <3> QED  BY <3>1
  <2> HIDE DEF one
  <2>4. CASE UNCHANGED console.republish
    BY <1>t, <2>1, <2>4 DEF ChannelBound
  <2>5. CASE Len(console.republish) < ChannelDepth /\ console'.republish = console.republish \o <<>>
    <3>1. Len(old \o <<>>) = Len(old)
      BY <1>0
    <3> QED  BY <1>0, <1>t, <2>1, <2>5, <3>1 DEF ChannelBound
  <2>6. CASE Len(console.republish) < ChannelDepth /\ console'.republish = console.republish \o one
    <3>1. one \in Seq(RepublishedSample)
      BY <2>2
    <3>2. Len(old \o one) = Len(old) + Len(one)
      BY <1>0, <3>1
    <3> QED  BY <1>0, <1>t, <2>1, <2>2, <2>6, <3>2 DEF ChannelBound
  <2> QED  BY <2>1, <2>4, <2>5, <2>6
<1>8. ASSUME NEW id, OnBulkStream(id) PROVE ChannelBound'
  <2> DEFINE unit == wire[id][1]
  <2>0. unit = wire[id][1]
    OBVIOUS
  <2> HIDE DEF unit
  <2>1. UNCHANGED <<capture, console.republish>>
    BY <1>8, <2>0, ReadsBulkFacts
  <2> QED  BY <1>t, <2>1 DEF ChannelBound
<1>9. CASE Reconnect
  <2>1. capture' = <<>> /\ UNCHANGED console.republish
    BY <1>9, ReconnectFacts
  <2> QED  BY <1>t, <2>1 DEF ChannelBound
<1>10. CASE WatcherPolls
  <2>1. UNCHANGED <<capture, console.republish>>
    BY <1>t, <1>10 DEF WatcherPolls, ConsoleShape
  <2> QED  BY <1>t, <2>1 DEF ChannelBound
<1>11. CASE UNCHANGED <<capture, console>>
  BY <1>t, <1>11 DEF ChannelBound
<1>12. \/ \E k \in Keys : PublishLatest(k) \/ \E size \in {1, LargeUnits} : PublishReliable(k, size)
       \/ SessionOnForward \/ PutSample \/ \E d \in datagrams : OnTopicDatagram(d)
       \/ \E id \in DOMAIN wire : OnTopicStream(id) \/ OnBulkStream(id)
       \/ WatcherPolls \/ Reconnect \/ UNCHANGED <<capture, console>>
  BY DEF Next, PublishObject, PumpBulk, RefillRate, RefillCap, UpdateRate, FeedTopicDatagram, PumpTopics,
         LoseDatagram, vars, receiver
<1> QED  BY <1>2, <1>3, <1>4, <1>5, <1>6, <1>7, <1>8, <1>9, <1>10, <1>11, <1>12

\* stream_send: no stream is opened beyond the peer's limit.
LEMMA NextWireBound == Shape /\ WireBound /\ [Next]_vars => WireBound'
<1> SUFFICES ASSUME Shape, WireBound, [Next]_vars PROVE WireBound'
  OBVIOUS
<1>t. closed \in Nat /\ MaxStreams \in Nat /\ DOMAIN wire \subseteq Nat /\ \A i \in DOMAIN wire : i <= MaxStreams + closed
  BY ConstantFacts DEF Shape, WireBound
<1>1. ASSUME NEW id, NEW unit, StreamSend(id, unit), Accepts(id), closed' = closed PROVE WireBound'
  <2>1. DOMAIN wire' = DOMAIN wire \cup {id}
    <3> DEFINE v == Append(Sent(id), OnWire(unit, id \notin DOMAIN wire))
    <3>1. wire' = With(wire, id, v)
      BY <1>1 DEF StreamSend
    <3> HIDE DEF v
    <3> QED  BY <3>1 DEF With
  <2>2. id <= MaxStreams + closed
    BY <1>1 DEF Accepts
  <2> QED  BY <1>1, <1>t, <2>1, <2>2 DEF WireBound
<1>2. ASSUME NEW lane \in Lanes, PumpTopics(lane) PROVE WireBound'
  BY <1>1, <1>2 DEF PumpTopics, CanPump
<1>3. ASSUME NEW o \in Objects, PumpBulk(o) PROVE WireBound'
  BY <1>1, <1>3 DEF PumpBulk
<1>4. ASSUME NEW id, OnTopicStream(id) \/ OnBulkStream(id) PROVE WireBound'
  <2>1. Read(id)
    BY <1>4 DEF OnTopicStream, OnBulkStream
  <2>2. DOMAIN wire' \subseteq DOMAIN wire /\ closed' \in Nat /\ closed' >= closed
    BY <2>1, ReadFacts
  <2> QED  BY <1>t, <2>2 DEF WireBound
<1>5. CASE Reconnect
  BY <1>5, ReconnectFacts DEF WireBound
<1>6. CASE UNCHANGED <<wire, closed>>
  BY <1>t, <1>6 DEF WireBound
<1>7. \/ (\E lane \in Lanes : PumpTopics(lane)) \/ (\E o \in Objects : PumpBulk(o))
      \/ (\E id \in DOMAIN wire : OnTopicStream(id) \/ OnBulkStream(id)) \/ Reconnect
      \/ UNCHANGED <<wire, closed>>
  BY DEF Next, PublishLatest, PublishReliable, PublishObject, SessionOnForward, RefillRate, RefillCap, UpdateRate,
         FeedTopicDatagram, PutSample, OnTopicDatagram, LoseDatagram, WatcherPolls, vars, network
<1> QED  BY <1>2, <1>3, <1>4, <1>5, <1>6, <1>7

-----------------------------------------------------------------------------
(* The theorems.                                                           *)

Inv == Shape /\ OutboxInv /\ StreamInv /\ ObjectInv /\ RateInv /\ LaneBound /\ ChannelBound /\ WireBound

\* A robot's bus before anything is published on it.
LEMMA NewBusFacts ==
  ASSUME NEW w \in Workloads, bus = NewBus(w)
  PROVE  BusShape /\ bus.object = [o \in Objects |-> 0] /\ bus.reliable = [k \in Keys |-> 0]
<1>1. /\ [k \in Keys |-> 0] \in [Keys -> Nat] /\ [o \in Objects |-> 0] \in [Objects -> Nat]
  OBVIOUS
<1> DEFINE none == [k \in Keys |-> 0]
           nothing == [o \in Objects |-> 0]
<1>2. none \in [Keys -> Nat] /\ nothing \in [Objects -> Nat]
  OBVIOUS
<1>3. bus = [samples |-> w.samples, large |-> w.large, latest |-> w.latest, versions |-> w.versions,
             joins |-> w.joins, drops |-> w.drops, losses |-> w.losses, congestion |-> w.congestion,
             reliable |-> none, state |-> none, object |-> nothing]
  BY DEF NewBus
<1> HIDE DEF none, nothing
<1>4. BusShape /\ bus.object = nothing /\ bus.reliable = none
  BY <1>2, <1>3 DEF BusShape
<1> QED  BY <1>4 DEF none, nothing

\* Everything is well typed at the start.
LEMMA InitShape == Init => Shape
<1> SUFFICES ASSUME Init PROVE Shape
  OBVIOUS
<1>1. BusShape
  BY NewBusFacts DEF Init
<1>2. OutboxShape(outbox) /\ BulkShape(bulk) /\ bulk.active = <<>> /\ bulk.waiting = <<>>
  BY NewFacts DEF Init
<1>3. ConsoleShape(console)
  <2>1. <<>> \in Seq(RepublishedSample)
    OBVIOUS
  <2> QED  BY <2>1, NewFacts DEF Init
<1>4. /\ local = [topic |-> [k \in Keys |-> <<>>], state |-> [k \in Keys |-> None], object |-> [o \in Objects |-> None]]
      /\ history = [queued |-> {}, gone |-> {}, exposed |-> {}]
      /\ capture = <<>> /\ wire = <<>> /\ closed = 0 /\ datagrams = {}
  BY DEF Init
<1>5. local \in [topic : [Keys -> Seq(Nat)], state : {local.state}, object : [Objects -> Nat]]
  <2> DEFINE topic == [k \in Keys |-> <<>>]
             object == [o \in Objects |-> None]
             state == [k \in Keys |-> None]
  <2>1. topic \in [Keys -> Seq(Nat)] /\ object \in [Objects -> Nat]
    BY DEF None
  <2>2. local = [topic |-> topic, state |-> state, object |-> object]
    BY <1>4
  <2> HIDE DEF topic, object, state
  <2> QED  BY <2>1, <2>2
<1>6. history \in [queued : {history.queued}, gone : {history.gone}, exposed : {history.exposed}]
  BY <1>4
<1> QED  BY <1>1, <1>2, <1>3, <1>4, <1>5, <1>6 DEF Shape

\* The invariant holds at the start.
LEMMA InitInv == Init => Inv
<1> SUFFICES ASSUME Init PROVE Inv
  OBVIOUS
<1>1. /\ outbox.order = <<>> /\ outbox.latest = <<>> /\ bulk.next_stream = 1
      /\ \A lane \in Lanes : outbox.lanes[lane] = <<>> /\ outbox.stream[lane] = None
      /\ DOMAIN bulk.active = {} /\ DOMAIN bulk.waiting = {} /\ DOMAIN wire = {}
      /\ capture = <<>> /\ closed = 0
  BY NewFacts DEF Init
<1>2. /\ console.readers = {} /\ console.bulk_streams = {} /\ DOMAIN console.partial = {}
      /\ console.latest = [o \in Objects |-> None] /\ console.republish = <<>>
  BY DEF Init, NewReceiver
<1>3. bus.object = [o \in Objects |-> 0] /\ local.object = [o \in Objects |-> None]
  BY NewBusFacts DEF Init
<1>4. OutboxInv
  BY <1>1 DEF OutboxInv, IsInjective, Range
<1>5. \A id : ~TopicStream(id)
  BY <1>1 DEF TopicStream
<1>6. StreamInv
  <2>1. IdsInv
    BY <1>1, <1>2 DEF IdsInv, None
  <2>2. KindsInv
    BY <1>1 DEF KindsInv
  <2>3. ReadInv
    BY <1>1, <1>2 DEF ReadInv
  <2> QED  BY <2>1, <2>2, <2>3 DEF StreamInv
<1>7. ObjectInv
  <2>1. \A id, o, v : ~Known(id, o, v)
    BY <1>1, <1>2 DEF Known
  <2>2. KnownInv
    BY <1>1, <2>1 DEF KnownInv
  <2>3. ActiveInv
    BY <1>1 DEF ActiveInv
  <2>4. ShownInv
    BY <1>1, <1>2, <1>3 DEF ShownInv, None
  <2> QED  BY <2>2, <2>3, <2>4 DEF ObjectInv
<1>8. RateInv
  BY ConstantFacts DEF Init, RateInv, Capacity, More
<1>9. LaneBound /\ ChannelBound /\ WireBound
  BY <1>1, <1>2, ConstantFacts DEF LaneBound, ChannelBound, WireBound
<1> QED  BY InitShape, <1>4, <1>6, <1>7, <1>8, <1>9 DEF Inv

\* Every step keeps the invariant.
LEMMA NextInv == Inv /\ [Next]_vars => Inv'
  BY NextShape, NextOutboxInv, NextStreamInv, NextObjectInv, NextRateInv, NextLaneBound, NextChannelBound,
     NextWireBound DEF Inv

\* The inductive invariant of the streams and what they carry.
THEOREM DataStreamsInvariant == Spec => []Inv
  BY InitInv, NextInv, PTL DEF Spec

\* Every buffer, lane, channel and token bucket of the Forwarders, the outbox and the rate
\* controls keeps its bound, no stream is opened beyond the peer's limit, pop_datagram's expect
\* holds, and the console never holds an object the robot did not make.
THEOREM DataStreamsTypeOK == Spec => []TypeOK
<1>1. Inv => TypeOK
  <2> SUFFICES ASSUME Inv PROVE TypeOK
    OBVIOUS
  <2>1. Shape /\ OutboxInv /\ StreamInv /\ ObjectInv /\ RateInv /\ LaneBound /\ ChannelBound /\ WireBound
    BY DEF Inv
  <2>2. \A i \in DOMAIN wire : i < bulk.next_stream
    BY <2>1 DEF StreamInv, IdsInv, Shape, BulkShape
  <2>3. \A o \in Objects : local.object[o] \in 0..bus.object[o]
    <3>1. /\ local.object \in [Objects -> Nat] /\ bus.object \in [Objects -> Nat]
          /\ console.latest \in [Objects -> Nat]
      BY <2>1 DEF Shape, BusShape, ConsoleShape
    <3> QED  BY <2>1, <3>1 DEF ObjectInv, ShownInv
  <2> QED  BY <2>1, <2>2, <2>3 DEF TypeOK, RateInv, LaneBound, ChannelBound, WireBound, OutboxInv
<1> QED  BY <1>1, DataStreamsInvariant, PTL

\* on_bulk_readable: a stream is read as what the robot writes on it, whatever its later reads
\* begin with.
THEOREM StreamsAreToldApart == Spec => []StreamsToldApart
<1>1. Inv => StreamsToldApart
  <2> SUFFICES ASSUME Inv PROVE StreamsToldApart
    OBVIOUS
  <2>1. ReadInv /\ outbox.stream \in [Lanes -> Nat]
    BY DEF Inv, StreamInv, Shape, OutboxShape
  <2>2. console.readers \cap (console.bulk_streams \cup DOMAIN console.partial) = {}
    BY <2>1 DEF ReadInv
  <2>3. console.readers \subseteq Range(outbox.stream)
    BY <2>1 DEF ReadInv, TopicStream, Range
  <2> QED  BY <2>2, <2>3 DEF StreamsToldApart
<1> QED  BY <1>1, DataStreamsInvariant, PTL

-----------------------------------------------------------------------------
(* What the console keeps of an object implements LatestWins.              *)

published == [o \in Objects |-> bus.object[o] - 1]
shown == [o \in Objects |-> local.object[o] - 1]

\* What neither publishes an object nor delivers one is a stutter.
LEMMA ObjectStutter ==
  ASSUME bus'.object = bus.object, local'.object = local.object
  PROVE  UNCHANGED <<published, shown>>
  BY DEF published, shown

\* publish counts the versions of an object up by one.
LEMMA PublishIsPublish ==
  ASSUME Shape, NEW o \in Objects, PublishObject(o)
  PROVE  published' = [published EXCEPT ![o] = @ + 1] /\ shown' = shown
<1> DEFINE v == bus.object[o] + 1
<1>0. v = bus.object[o] + 1
  OBVIOUS
<1> HIDE DEF v
<1>1. v \in Nat /\ bus'.object = [bus.object EXCEPT ![o] = v] /\ local' = local
  BY <1>0, PublishesFacts
<1>2. bus.object \in [Objects -> Nat]
  BY DEF Shape, BusShape
<1>3. \A p \in Objects : bus'.object[p] - 1 = IF p = o THEN (bus.object[o] - 1) + 1 ELSE bus.object[p] - 1
  BY <1>0, <1>1, <1>2
<1>4. published' = [published EXCEPT ![o] = @ + 1]
  BY <1>3 DEF published
<1> QED  BY <1>1, <1>4 DEF shown

\* on_data delivers only a version newer than the one the console has, and published.
LEMMA ReadIsShow ==
  ASSUME Shape, StreamInv, ObjectInv, NEW id, OnBulkStream(id)
  PROVE  \/ UNCHANGED <<published, shown>>
         \/ \E o \in Objects : /\ \E v \in (shown[o] + 1)..published[o] : shown' = [shown EXCEPT ![o] = v]
                               /\ published' = published
<1> DEFINE unit == wire[id][1]
<1>0. unit = wire[id][1]
  OBVIOUS
<1> HIDE DEF unit
<1>1. /\ Read(id) /\ BulkRead(id, unit) /\ bus' = bus
      /\ \E magic \in FirstByteIsMagic(unit) : ~IsTopic(id, magic)
  BY <1>0, ReadsBulkFacts
<1>2. KindsInv /\ ReadInv /\ ShownInv
  BY DEF StreamInv, ObjectInv
<1>3. ~TopicStream(id)
  BY <1>0, <1>1, <1>2, ReadByKind
<1>4. bus.object \in [Objects -> Nat] /\ local.object \in [Objects -> Nat] /\ console.latest \in [Objects -> Nat]
  BY DEF Shape, BusShape, ConsoleShape
<1>5. CASE unit.last /\ Delivered(console, id, unit)
  <2> DEFINE o == unit.name
             v == unit.version
  <2>0. o = unit.name /\ v = unit.version
    OBVIOUS
  <2> HIDE DEF o, v
  <2>1. o \in Objects /\ v = console.latest[o] /\ local.object[o] < v
    BY <1>0, <1>1, <1>3, <1>5, <2>0, DeliveredIsNewest
  <2>2. v <= bus.object[o]
    BY <1>2, <2>1 DEF ShownInv
  <2>3. local'.object = [local.object EXCEPT ![o] = v]
    BY <1>1, <1>5, <2>0 DEF BulkRead
  <2>4. v - 1 \in (shown[o] + 1)..published[o]
    BY <1>4, <2>1, <2>2 DEF shown, published
  <2>5. shown' = [shown EXCEPT ![o] = v - 1] /\ published' = published
    BY <1>1, <1>4, <2>1, <2>3 DEF shown, published
  <2> QED  BY <2>1, <2>4, <2>5
<1>6. CASE ~(unit.last /\ Delivered(console, id, unit))
  <2>1. local'.object = local.object
    BY <1>1, <1>6 DEF BulkRead
  <2> QED  BY <1>1, <2>1, ObjectStutter
<1> QED  BY <1>5, <1>6

\* BulkSender and BulkReceiver implement latest-wins: every step publishes an object, shows a
\* version that was published and is newer than all shown before, starts over with a session, or
\* leaves both as they are.
THEOREM ObjectsImplementLatestWins == Spec => ObjectsAreLatestWins
<1>1. Init => Bulk!Init
  <2> SUFFICES ASSUME Init PROVE Bulk!Init
    OBVIOUS
  <2>1. bus.object = [o \in Objects |-> 0] /\ local.object = [o \in Objects |-> None]
    BY NewBusFacts DEF Init
  <2> QED  BY <2>1 DEF Bulk!Init, Bulk!Nothing, None
<1>2. Inv /\ [Next]_vars => [Bulk!Next]_(Bulk!vars)
  <2> SUFFICES ASSUME Inv, [Next]_vars PROVE [Bulk!Next]_(Bulk!vars)
    OBVIOUS
  <2>i. Shape /\ StreamInv /\ ObjectInv
    BY DEF Inv
  <2>s. ASSUME bus'.object = bus.object, local'.object = local.object PROVE [Bulk!Next]_(Bulk!vars)
    BY <2>s DEF Bulk!vars
  <2>1. ASSUME NEW o \in Objects, PublishObject(o) PROVE [Bulk!Next]_(Bulk!vars)
    <3>1. published' = [published EXCEPT ![o] = @ + 1] /\ shown' = shown
      BY <2>i, <2>1, PublishIsPublish
    <3>2. Bulk!Publish(o)
      BY <3>1 DEF Bulk!Publish, published, shown
    <3> QED  BY <3>2 DEF Bulk!Next
  <2>2. ASSUME NEW id, OnBulkStream(id) PROVE [Bulk!Next]_(Bulk!vars)
    <3>1. CASE UNCHANGED <<published, shown>>
      BY <3>1 DEF Bulk!vars, published, shown
    <3>2. ASSUME NEW o \in Objects, \E v \in (shown[o] + 1)..published[o] : shown' = [shown EXCEPT ![o] = v],
                 published' = published
          PROVE  [Bulk!Next]_(Bulk!vars)
      <4>1. Bulk!Show(o)
        BY <3>2 DEF Bulk!Show, published, shown
      <4> QED  BY <4>1 DEF Bulk!Next
    <3> QED  BY <2>i, <2>2, <3>1, <3>2, ReadIsShow
  <2>3. CASE Reconnect
    <3>1. local'.object = [o \in Objects |-> None] /\ bus'.object = [o \in Objects |-> 0]
      BY <2>i, <2>3, ReconnectFacts
    <3>2. Bulk!StartOver
      BY <3>1 DEF Bulk!StartOver, Bulk!Nothing, None
    <3> QED  BY <3>2 DEF Bulk!Next
  <2>4. CASE Quiet
    BY <2>i, <2>4, <2>s, QuietFacts DEF streams
  <2>5. ASSUME SessionOnForward \/ (\E lane \in Lanes : PumpTopics(lane)) \/ (\E o \in Objects : PumpBulk(o))
        PROVE  [Bulk!Next]_(Bulk!vars)
    <3>1. SessionOnForward => bus' = bus /\ local' = local
      BY DEF SessionOnForward, receiver
    <3>2. \A lane \in Lanes : PumpTopics(lane) => bus' = bus /\ local' = local
      BY DEF PumpTopics, receiver
    <3>3. \A o \in Objects : PumpBulk(o) => bus' = bus /\ local' = local
      BY DEF PumpBulk, receiver
    <3> QED  BY <2>5, <2>s, <3>1, <3>2, <3>3
  <2>6. ASSUME NEW id, OnTopicStream(id) PROVE [Bulk!Next]_(Bulk!vars)
    BY <2>6, <2>s DEF OnTopicStream
  <2> QED  BY <2>1, <2>2, <2>3, <2>4, <2>5, <2>6, StepCases
<1> QED  BY <1>1, <1>2, DataStreamsInvariant, PTL DEF Spec, ObjectsAreLatestWins, Bulk!Spec

-----------------------------------------------------------------------------
(* The order of reliable samples.                                          *)

\* A unit of key k, version v, on this lane: queued, or on the wire.
OnLane(lane, k, v) ==
  \/ \E i \in 1..Len(outbox.lanes[lane]) : outbox.lanes[lane][i].name = k /\ outbox.lanes[lane][i].version = v
  \/ \E id \in DOMAIN wire : \E i \in 1..Len(wire[id]) :
       wire[id][i].kind = lane /\ wire[id][i].name = k /\ wire[id][i].version = v

\* Version v of key k has been handed to the console's Forwarder.
Emitted(k, v) ==
  \/ k \in Keys /\ \E i \in 1..Len(local.topic[k]) : local.topic[k][i] = v
  \/ \E i \in 1..Len(console.republish) :
       /\ console.republish[i].mode = "Reliable" /\ console.republish[i].name = k
       /\ console.republish[i].version = v

Forwarded(k, v) == Emitted(k, v) \/ \E lane \in Lanes : OnLane(lane, k, v)

\* In order, or one of the pairs the code lets overtake.
InTurn(k, v, w) == v < w \/ <<k, w, v>> \in history.exposed

\* One unit before another of the same key on the same stream.
Follows(u, w) == u.name = w.name => u.version <= w.version /\ (u.last => u.version < w.version)

\* Samples of a key are captured in order, after all that is on its way already.
CapturedAhead ==
  \A k \in Keys : \A i \in 1..Len(capture) : capture[i].mode = "Reliable" /\ capture[i].key = k =>
    /\ capture[i].version <= bus.reliable[k]
    /\ \A v \in Nat : Forwarded(k, v) => v < capture[i].version

CapturedInOrder ==
  \A i, j \in 1..Len(capture) :
    i < j /\ capture[i].mode = "Reliable" /\ capture[j].mode = "Reliable" /\ capture[i].key = capture[j].key
      => capture[i].version < capture[j].version

PublishedAhead == \A k \in Keys : \A v \in Nat : Forwarded(k, v) => v <= bus.reliable[k]

CaptureInv == CapturedAhead /\ CapturedInOrder /\ PublishedAhead

\* The two lanes are in order by themselves, from the outbox to the end of the wire, and
\* each has a stream of its own.
QueueOrder ==
  \A lane \in Lanes : \A i, j \in 1..Len(outbox.lanes[lane]) :
    i < j => Follows(outbox.lanes[lane][i], outbox.lanes[lane][j])

WireOrder ==
  \A lane \in Lanes : outbox.stream[lane] \in DOMAIN wire =>
    /\ \A i \in 1..Len(wire[outbox.stream[lane]]) : wire[outbox.stream[lane]][i].kind = lane
    /\ \A i, j \in 1..Len(wire[outbox.stream[lane]]) :
         i < j => Follows(wire[outbox.stream[lane]][i], wire[outbox.stream[lane]][j])
    /\ \A i \in 1..Len(wire[outbox.stream[lane]]), j \in 1..Len(outbox.lanes[lane]) :
         Follows(wire[outbox.stream[lane]][i], outbox.lanes[lane][j])

OwnStreams == \A lane, other \in Lanes :
  lane # other /\ outbox.stream[lane] # None => outbox.stream[lane] # outbox.stream[other]

LaneInv == QueueOrder /\ WireOrder /\ OwnStreams

\* Between the lanes: what may overtake is exposed.
LanesApart ==
  \A k : \A v, w \in Nat : OnLane("Small", k, v) /\ OnLane("Large", k, w) =>
    /\ v # w
    /\ v < w => <<k, v, w>> \in history.exposed
    /\ w < v => <<k, w, v>> \in history.exposed

\* Between what is on its way and what has been handed on.
LanesBehind ==
  \A k : \A v, w \in Nat : \A lane \in Lanes : Emitted(k, v) /\ OnLane(lane, k, w) => InTurn(k, v, w)

\* Between the samples handed on.
BusOrder ==
  \A k \in Keys : \A i, j \in 1..Len(local.topic[k]) : i < j => InTurn(k, local.topic[k][i], local.topic[k][j])

ChannelBehind ==
  \A k \in Keys : \A i \in 1..Len(local.topic[k]), j \in 1..Len(console.republish) :
    console.republish[j].mode = "Reliable" /\ console.republish[j].name = k
      => InTurn(k, local.topic[k][i], console.republish[j].version)

ChannelOrder ==
  \A i, j \in 1..Len(console.republish) :
    /\ i < j /\ console.republish[i].mode = "Reliable" /\ console.republish[j].mode = "Reliable"
    /\ console.republish[i].name = console.republish[j].name
    => InTurn(console.republish[i].name, console.republish[i].version, console.republish[j].version)

OrderInv == LanesApart /\ LanesBehind /\ BusOrder /\ ChannelBehind /\ ChannelOrder

\* A lane that a unit is pumped from.
LEMMA LaneShrinks ==
  ASSUME Shape, NEW lane \in Lanes, PumpTopics(lane), NEW other \in Lanes, NEW i \in 1..Len(outbox'.lanes[other])
  PROVE  /\ other # lane => i \in 1..Len(outbox.lanes[other]) /\ outbox'.lanes[other][i] = outbox.lanes[other][i]
         /\ other = lane => i + 1 \in 2..Len(outbox.lanes[lane]) /\ outbox'.lanes[lane][i] = outbox.lanes[lane][i + 1]
<1> DEFINE id == StreamOf(lane)
           unit == outbox.lanes[lane][1]
<1>0. id = StreamOf(lane) /\ unit = outbox.lanes[lane][1]
  OBVIOUS
<1> HIDE DEF id, unit
<1>1. /\ outbox'.lanes = [outbox.lanes EXCEPT ![lane] = Tail(@)]
      /\ Len(Tail(outbox.lanes[lane])) = Len(outbox.lanes[lane]) - 1
      /\ \A j \in 1..(Len(outbox.lanes[lane]) - 1) : Tail(outbox.lanes[lane])[j] = outbox.lanes[lane][j + 1]
  BY <1>0, PumpsTopicsFacts
<1>2. outbox.lanes \in [Lanes -> Seq(QueuedUnit)] /\ Len(outbox.lanes[lane]) \in Nat
  BY DEF Shape, OutboxShape
<1>3. CASE other # lane
  BY <1>1, <1>2, <1>3
<1>4. CASE other = lane
  <2>1. outbox'.lanes[lane] = Tail(outbox.lanes[lane])
    BY <1>1, <1>2
  <2> QED  BY <1>1, <1>2, <1>4, <2>1
<1> QED  BY <1>3, <1>4

\* A reliable sample that is queued: on one lane, after what is there.
Queued(s) == s.mode = "Reliable" /\ Fits(outbox, s)

LaneGrows(lane, s) ==
  \A other \in Lanes : \A i \in 1..Len(outbox'.lanes[other]) :
    \/ i \in 1..Len(outbox.lanes[other]) /\ outbox'.lanes[other][i] = outbox.lanes[other][i]
    \/ /\ other = lane /\ i > Len(outbox.lanes[lane]) /\ Queued(s)
       /\ outbox'.lanes[lane][i].name = s.key /\ outbox'.lanes[lane][i].version = s.version
       /\ outbox'.lanes[lane][i].last <=> i = Len(outbox'.lanes[lane])

\* A forwarded sample adds its units at the end of its lane, or nothing.
LEMMA QueuesGrow ==
  ASSUME Shape, SessionOnForward, NEW s, s = capture[1], NEW lane, lane = LaneOf(outbox, s)
  PROVE  LaneGrows(lane, s)
<1>1. /\ s \in CapturedSample /\ lane \in Lanes
      /\ Queued(s) => outbox'.lanes = Longer(lane, s)
      /\ ~Queued(s) => outbox'.lanes = outbox.lanes
  BY QueuesFacts DEF Queued
<1>2. outbox.lanes \in [Lanes -> Seq(QueuedUnit)]
  BY DEF Shape, OutboxShape
<1>3. CASE Queued(s)
  <2> DEFINE us == Units(lane, s.key, s.version, s.units)
             old == outbox.lanes[lane]
             new == outbox'.lanes[lane]
  <2>1. /\ us \in Seq(QueuedUnit) /\ Len(us) = s.units /\ s.units \in Nat \ {0}
        /\ \A i \in 1..s.units : us[i].name = s.key /\ us[i].version = s.version /\ (us[i].last <=> i = s.units)
    <3>1. /\ lane \in Lanes \cup {"Object"} /\ s.key \in Keys \cup Objects /\ s.version \in Nat
          /\ s.units \in Nat \ {0}
      BY <1>1 DEF CapturedSample
    <3> DEFINE key == s.key
               version == s.version
               n == s.units
    <3>2. key \in Keys \cup Objects /\ version \in Nat /\ n \in Nat \ {0}
      BY <3>1
    <3> HIDE DEF key, version, n
    <3>3. /\ Units(lane, key, version, n) \in Seq(QueuedUnit) /\ Len(Units(lane, key, version, n)) = n
          /\ \A i \in 1..n : /\ Units(lane, key, version, n)[i].name = key
                             /\ Units(lane, key, version, n)[i].version = version
                             /\ Units(lane, key, version, n)[i].last <=> i = n
      BY <3>1, <3>2, UnitsFacts
    <3> QED  BY <3>1, <3>3 DEF key, version, n
  <2>2. new = old \o us /\ \A other \in Lanes : other # lane => outbox'.lanes[other] = outbox.lanes[other]
    BY <1>1, <1>2, <1>3 DEF Longer
  <2>3. old \in Seq(QueuedUnit)
    BY <1>1, <1>2
  <2>o. old = outbox.lanes[lane] /\ new = outbox'.lanes[lane]
    OBVIOUS
  <2> HIDE DEF us, old, new
  <2>4. us \in Seq(QueuedUnit)
    BY <2>1
  <2>5. /\ Len(new) = Len(old) + Len(us) /\ Len(old) \in Nat
        /\ \A i \in 1..Len(old) : new[i] = old[i]
        /\ \A i \in 1..Len(new) : i > Len(old) => i - Len(old) \in 1..Len(us) /\ new[i] = us[i - Len(old)]
    BY <2>2, <2>3, <2>4, ConcatFacts
  <2>6. ASSUME NEW i \in 1..Len(new), i > Len(old)
        PROVE  new[i].name = s.key /\ new[i].version = s.version /\ (new[i].last <=> i = Len(new))
    <3> DEFINE j == i - Len(old)
    <3>1. j \in 1..s.units /\ new[i] = us[j] /\ (j = s.units <=> i = Len(new))
      BY <2>1, <2>5, <2>6
    <3> HIDE DEF j
    <3> QED  BY <2>1, <3>1
  <2>7. ASSUME NEW other \in Lanes, NEW i \in 1..Len(outbox'.lanes[other]), other # lane
        PROVE  i \in 1..Len(outbox.lanes[other]) /\ outbox'.lanes[other][i] = outbox.lanes[other][i]
    BY <2>2, <2>7
  <2>8. ASSUME NEW i \in 1..Len(new), ~(i > Len(old)) PROVE i \in 1..Len(old) /\ new[i] = old[i]
    BY <2>5, <2>8
  <2> QED  BY <1>1, <1>3, <2>o, <2>6, <2>7, <2>8 DEF LaneGrows
<1>4. CASE ~Queued(s)
  BY <1>1, <1>4 DEF LaneGrows
<1> QED  BY <1>3, <1>4

\* A unit pumped to the wire stays on its lane.
LEMMA TopicsOnLane ==
  ASSUME Shape, StreamInv, NEW lane \in Lanes, PumpTopics(lane),
         NEW other \in Lanes, NEW k, NEW v, OnLane(other, k, v)'
  PROVE  OnLane(other, k, v)
<1> DEFINE id == StreamOf(lane)
           unit == outbox.lanes[lane][1]
<1>0. id = StreamOf(lane) /\ unit = outbox.lanes[lane][1]
  OBVIOUS
<1> HIDE DEF id, unit
<1>1. /\ unit \in QueuedUnit /\ Len(outbox.lanes[lane]) > 0 /\ StreamSend(id, unit)
  BY <1>0, PumpsTopicsFacts
<1>2. unit.kind = lane /\ 1 \in 1..Len(outbox.lanes[lane])
  <2>1. Len(outbox.lanes[lane]) \in Nat
    BY DEF Shape, OutboxShape
  <2> QED  BY <1>0, <1>1, <2>1 DEF StreamInv, KindsInv
<1>3. WireGrows(id, unit)
  BY <1>1, SentFacts DEF StreamInv
<1>4. ASSUME NEW i \in 1..Len(outbox'.lanes[other]),
             outbox'.lanes[other][i].name = k, outbox'.lanes[other][i].version = v
      PROVE  OnLane(other, k, v)
  <2>1. PICK j \in 1..Len(outbox.lanes[other]) : outbox'.lanes[other][i] = outbox.lanes[other][j]
    <3>1. CASE other # lane
      BY <3>1, LaneShrinks
    <3>2. CASE other = lane
      <4>1. i + 1 \in 2..Len(outbox.lanes[lane]) /\ outbox'.lanes[lane][i] = outbox.lanes[lane][i + 1]
        BY <3>2, LaneShrinks
      <4>2. i + 1 \in 1..Len(outbox.lanes[lane])
        BY <4>1
      <4> QED  BY <3>2, <4>1, <4>2
    <3> QED  BY <3>1, <3>2
  <2> QED  BY <1>4, <2>1 DEF OnLane
<1>5. ASSUME NEW y \in DOMAIN wire', NEW i \in 1..Len(wire'[y]),
             wire'[y][i].kind = other, wire'[y][i].name = k, wire'[y][i].version = v
      PROVE  OnLane(other, k, v)
  <2>1. CASE y \in DOMAIN wire /\ i \in 1..Len(wire[y]) /\ wire'[y][i] = wire[y][i]
    BY <1>5, <2>1 DEF OnLane
  <2>2. CASE wire'[y][i].kind = unit.kind /\ wire'[y][i].name = unit.name /\ wire'[y][i].version = unit.version
    BY <1>0, <1>2, <1>5, <2>2 DEF OnLane
  <2> QED  BY <1>3, <2>1, <2>2 DEF WireGrows
<1> QED  BY <1>4, <1>5 DEF OnLane

\* A unit of an object is on no lane.
LEMMA BulkOnLane ==
  ASSUME Shape, StreamInv, NEW o \in Objects, PumpBulk(o), NEW other \in Lanes, NEW k, NEW v, OnLane(other, k, v)'
  PROVE  OnLane(other, k, v)
<1> DEFINE id == bulk.active[o].stream
           l == bulk.active[o].left
<1>0. id = bulk.active[o].stream /\ l = bulk.active[o].left
  OBVIOUS
<1> HIDE DEF id, l
<1>1. /\ o \in DOMAIN bulk.active /\ l \in Seq(QueuedUnit) /\ Len(l) > 0 /\ l[1] \in QueuedUnit /\ StreamSend(id, l[1])
      /\ outbox' = outbox
  BY <1>0, PumpsBulkFacts
<1>2. l[1].kind = "Object" /\ other # "Object"
  <2>1. 1 \in 1..Len(l)
    BY <1>1
  <2> QED  BY <1>0, <1>1, <2>1 DEF StreamInv, KindsInv, Lanes
<1> DEFINE unit == l[1]
<1>u. unit = l[1]
  OBVIOUS
<1> HIDE DEF unit
<1>3. WireGrows(id, unit)
  BY <1>1, <1>u, SentFacts DEF StreamInv
<1>4. ASSUME NEW y \in DOMAIN wire', NEW i \in 1..Len(wire'[y]), wire'[y][i].kind = other
      PROVE  y \in DOMAIN wire /\ i \in 1..Len(wire[y]) /\ wire'[y][i] = wire[y][i]
  BY <1>2, <1>3, <1>4, <1>u DEF WireGrows
<1> QED  BY <1>1, <1>4 DEF OnLane

\* Reading takes units off the wire.
LEMMA ReadOnLane ==
  ASSUME Shape, NEW id, Read(id), outbox' = outbox, NEW other, NEW k, NEW v, OnLane(other, k, v)'
  PROVE  OnLane(other, k, v)
<1>1. ASSUME NEW y \in DOMAIN wire', NEW i \in 1..Len(wire'[y])
      PROVE  y \in DOMAIN wire /\ \E j \in 1..Len(wire[y]) : wire'[y][i] = wire[y][j]
  <2>1. /\ y \in DOMAIN wire
        /\ y # id => i \in 1..Len(wire[y]) /\ wire'[y][i] = wire[y][i]
        /\ y = id => i + 1 \in 2..Len(wire[y]) /\ wire'[y][i] = wire[y][i + 1]
    BY LeftFacts
  <2>2. CASE y # id
    BY <2>1, <2>2
  <2>3. CASE y = id
    <3>1. i + 1 \in 1..Len(wire[y])
      BY <2>1, <2>3
    <3> QED  BY <2>1, <2>3, <3>1
  <2> QED  BY <2>2, <2>3
<1> QED  BY <1>1 DEF OnLane

\* PutSample moves the channel's first sample to the end of the bus.
BusGrows(s) ==
  \A k \in Keys : \A i \in 1..Len(local'.topic[k]) :
    \/ i \in 1..Len(local.topic[k]) /\ local'.topic[k][i] = local.topic[k][i]
    \/ /\ s.mode = "Reliable" /\ s.name = k /\ local'.topic[k][i] = s.version
       /\ i = Len(local'.topic[k])

\* What putting the oldest republished sample changes.
LEMMA PutFacts ==
  ASSUME Shape, PutSample, NEW s, s = console.republish[1]
  PROVE  /\ s \in RepublishedSample /\ 1 \in 1..Len(console.republish)
         /\ \A j \in 1..Len(console'.republish) : /\ j + 1 \in 2..Len(console.republish)
                                                  /\ console'.republish[j] = console.republish[j + 1]
         /\ BusGrows(s)
         /\ UNCHANGED <<bus, capture, outbox, wire, history>>
<1>t. /\ ConsoleShape(console) /\ console.republish \in Seq(RepublishedSample)
      /\ local \in [topic : [Keys -> Seq(Nat)], state : {local.state}, object : [Objects -> Nat]]
  BY DEF Shape, ConsoleShape
<1> DEFINE r == console.republish
<1>1. /\ r # <<>> /\ console' = [console EXCEPT !.republish = Tail(@)]
      /\ local' = IF Head(r).mode = "Latest" THEN [local EXCEPT !.state[Head(r).name] = Head(r).version]
                  ELSE [local EXCEPT !.topic[Head(r).name] = Append(@, Head(r).version)]
      /\ UNCHANGED <<bus, capture, outbox, network, history>>
  BY DEF PutSample
<1>2. console'.republish = Tail(r)
  BY <1>t, <1>1 DEF ConsoleShape
<1>r. r = console.republish /\ r \in Seq(RepublishedSample)
  BY <1>t
<1> HIDE DEF r
<1>3. /\ Len(r) > 0 /\ Len(r) \in Nat /\ Head(r) = s /\ s \in RepublishedSample
      /\ Tail(r) \in Seq(RepublishedSample) /\ Len(Tail(r)) = Len(r) - 1
      /\ \A j \in 1..(Len(r) - 1) : Tail(r)[j] = r[j + 1]
  BY <1>1, <1>r, QueueFacts
<1>4. BusGrows(s)
  <2>1. CASE s.mode = "Latest"
    <3>1. local'.topic = local.topic
      BY <1>t, <1>1, <1>3, <2>1
    <3> QED  BY <3>1 DEF BusGrows
  <2>2. CASE s.mode = "Reliable"
    <3> DEFINE n == s.name
               v == s.version
               old == local.topic[n]
               new == [local.topic EXCEPT ![n] = Append(@, v)]
    <3>1. v \in Nat
      BY <1>3 DEF RepublishedSample
    <3>2. local' = [local EXCEPT !.topic = new]
      BY <1>t, <1>1, <1>3, <2>2
    <3>3. DOMAIN new = Keys /\ \A k \in Keys : new[k] = IF k = n THEN Append(local.topic[k], v) ELSE local.topic[k]
      BY <1>t
    <3>n. n = s.name /\ v = s.version
      OBVIOUS
    <3> HIDE DEF new, v, n
    <3>4. local'.topic = new
      BY <1>t, <3>2
    <3>5. ASSUME NEW k \in Keys, NEW i \in 1..Len(local'.topic[k]), k = n
          PROVE  \/ i \in 1..Len(local.topic[k]) /\ local'.topic[k][i] = local.topic[k][i]
                 \/ local'.topic[k][i] = v /\ i = Len(local'.topic[k])
      <4>1. local.topic[k] \in Seq(Nat) /\ local'.topic[k] = Append(local.topic[k], v)
        BY <1>t, <3>3, <3>4, <3>5
      <4> DEFINE t == local.topic[k]
      <4>t. t = local.topic[k] /\ t \in Seq(Nat)
        BY <4>1
      <4> HIDE DEF t
      <4>2. /\ Len(t) \in Nat /\ Len(Append(t, v)) = Len(t) + 1 /\ Append(t, v)[Len(t) + 1] = v
            /\ \A j \in 1..Len(t) : Append(t, v)[j] = t[j]
        BY <3>1, <4>t, QueueFacts
      <4> QED  BY <4>1, <4>2, <4>t
    <3>6. ASSUME NEW k \in Keys, k # n PROVE local'.topic[k] = local.topic[k]
      BY <3>3, <3>4, <3>6
    <3> QED  BY <2>2, <3>5, <3>6, <3>n DEF BusGrows
  <2> QED  BY <1>3, <2>1, <2>2 DEF RepublishedSample
<1> QED  BY <1>1, <1>2, <1>3, <1>4, <1>r DEF network

\* A republished sample goes to the end of the channel, if anywhere.
ChannelGrows(s) ==
  \A j \in 1..Len(console'.republish) :
    \/ j \in 1..Len(console.republish) /\ console'.republish[j] = console.republish[j]
    \/ j = Len(console'.republish) /\ console'.republish[j] = s

\* A channel that gains one sample, or none, grows by at most that sample.
LEMMA RepublishGrows ==
  ASSUME NEW r \in Seq(RepublishedSample), r = console.republish, NEW s \in RepublishedSample,
         \/ console'.republish = r
         \/ console'.republish = r \o <<>>
         \/ console'.republish = r \o <<s>>
  PROVE  ChannelGrows(s)
<1>1. CASE console'.republish = r
  BY <1>1 DEF ChannelGrows
<1>2. CASE console'.republish = r \o <<>>
  <2>1. r \o <<>> = r
    OBVIOUS
  <2> QED  BY <1>2, <2>1 DEF ChannelGrows
<1>3. CASE console'.republish = r \o <<s>>
  <2> DEFINE one == <<s>>
  <2>1. one \in Seq(RepublishedSample) /\ Len(one) = 1 /\ one[1] = s
    OBVIOUS
  <2> HIDE DEF one
  <2>2. one \in Seq(RepublishedSample)
    BY <2>1
  <2>3. /\ Len(r \o one) = Len(r) + Len(one) /\ Len(r) \in Nat
        /\ \A i \in 1..Len(r) : (r \o one)[i] = r[i]
        /\ \A i \in 1..Len(r \o one) : i > Len(r) => i - Len(r) \in 1..Len(one) /\ (r \o one)[i] = one[i - Len(r)]
    BY <2>2, ConcatFacts
  <2>4. console'.republish = r \o one
    BY <1>3 DEF one
  <2> DEFINE new == console'.republish
  <2>5. /\ Len(new) = Len(r) + 1 /\ \A i \in 1..Len(r) : new[i] = r[i]
        /\ new[Len(r) + 1] = s
    <3>1. Len(r \o one) = Len(r) + 1
      BY <2>1, <2>3
    <3>2. Len(r) + 1 \in 1..Len(r \o one) /\ (Len(r) + 1) - Len(r) = 1
      BY <2>3, <3>1
    <3>3. (r \o one)[Len(r) + 1] = one[1]
      BY <2>3, <3>2
    <3> QED  BY <2>1, <2>3, <2>4, <3>1, <3>3
  <2> QED  BY <2>3, <2>5 DEF ChannelGrows
<1> QED  BY <1>1, <1>2, <1>3

\* What Shape says of the numbers.
LEMMA OrderTypes ==
  ASSUME Shape
  PROVE  /\ capture \in Seq(CapturedSample) /\ Len(capture) \in Nat
         /\ \A i \in 1..Len(capture) : /\ capture[i].version \in Nat /\ capture[i].key \in Keys
                                       /\ capture[i].mode \in {"Latest", "Reliable"}
         /\ bus.reliable \in [Keys -> Nat] /\ outbox.stream \in [Lanes -> Nat]
         /\ \A lane \in Lanes : /\ Len(outbox.lanes[lane]) \in Nat
                                /\ \A i \in 1..Len(outbox.lanes[lane]) : outbox.lanes[lane][i].version \in Nat
         /\ \A id \in DOMAIN wire : /\ Len(wire[id]) \in Nat
                                    /\ \A i \in 1..Len(wire[id]) : wire[id][i].version \in Nat
         /\ Len(console.republish) \in Nat
         /\ \A i \in 1..Len(console.republish) : console.republish[i].version \in Nat
         /\ \A k \in Keys : /\ Len(local.topic[k]) \in Nat
                            /\ \A i \in 1..Len(local.topic[k]) : local.topic[k][i] \in Nat
<1>1. capture \in Seq(CapturedSample) /\ bus.reliable \in [Keys -> Nat]
  BY DEF Shape, BusShape
<1>2. \A s \in CapturedSample : s.version \in Nat /\ s.key \in Keys /\ s.mode \in {"Latest", "Reliable"}
  BY DEF CapturedSample
<1>3. Len(capture) \in Nat /\ \A i \in 1..Len(capture) : capture[i] \in CapturedSample
  BY <1>1
<1>4. outbox.lanes \in [Lanes -> Seq(QueuedUnit)] /\ outbox.stream \in [Lanes -> Nat]
  BY DEF Shape, OutboxShape
<1>5. (\A u \in QueuedUnit : u.version \in Nat) /\ (\A u \in SentUnit : u.version \in Nat)
      /\ \A u \in RepublishedSample : u.version \in Nat
  BY DEF QueuedUnit, SentUnit, RepublishedSample
<1>6. \A lane \in Lanes : /\ Len(outbox.lanes[lane]) \in Nat
                          /\ \A i \in 1..Len(outbox.lanes[lane]) : outbox.lanes[lane][i] \in QueuedUnit
  BY <1>4
<1>7. \A id \in DOMAIN wire : /\ Len(wire[id]) \in Nat
                              /\ \A i \in 1..Len(wire[id]) : wire[id][i] \in SentUnit
  BY DEF Shape
<1>8. console.republish \in Seq(RepublishedSample) /\ local.topic \in [Keys -> Seq(Nat)]
  BY DEF Shape, ConsoleShape
<1>9. Len(console.republish) \in Nat
      /\ \A i \in 1..Len(console.republish) : console.republish[i] \in RepublishedSample
  BY <1>8
<1>10. \A k \in Keys : /\ Len(local.topic[k]) \in Nat
                       /\ \A i \in 1..Len(local.topic[k]) : local.topic[k][i] \in Nat
  BY <1>8
<1>11. \A i \in 1..Len(capture) : /\ capture[i].version \in Nat /\ capture[i].key \in Keys
                                  /\ capture[i].mode \in {"Latest", "Reliable"}
  BY <1>2, <1>3
<1>12. \A lane \in Lanes : \A i \in 1..Len(outbox.lanes[lane]) : outbox.lanes[lane][i].version \in Nat
  BY <1>5, <1>6
<1>13. \A id \in DOMAIN wire : \A i \in 1..Len(wire[id]) : wire[id][i].version \in Nat
  BY <1>5, <1>7
<1>14. \A i \in 1..Len(console.republish) : console.republish[i].version \in Nat
  BY <1>5, <1>9
<1> QED  BY <1>1, <1>3, <1>4, <1>6, <1>7, <1>9, <1>10, <1>11, <1>12, <1>13, <1>14

\* Nothing new is on its way, and nothing is captured.
LEMMA CaptureStays ==
  ASSUME CaptureInv, capture' = capture, bus'.reliable = bus.reliable,
         \A k, v : Forwarded(k, v)' => Forwarded(k, v)
  PROVE  CaptureInv'
<1>1. CapturedAhead'
  BY DEF CaptureInv, CapturedAhead
<1>2. CapturedInOrder'
  BY DEF CaptureInv, CapturedInOrder
<1>3. PublishedAhead'
  BY DEF CaptureInv, PublishedAhead
<1> QED  BY <1>1, <1>2, <1>3 DEF CaptureInv

\* When no lane gains and only what was forwarded is emitted, nothing more is forwarded.
LEMMA ForwardedStays ==
  ASSUME \A lane \in Lanes : \A k, v : OnLane(lane, k, v)' => OnLane(lane, k, v),
         \A k, v : Emitted(k, v)' => Forwarded(k, v)
  PROVE  \A k, v : Forwarded(k, v)' => Forwarded(k, v)
  BY DEF Forwarded

\* A sample is captured: the newest of its key.
LEMMA CaptureGrows ==
  ASSUME Shape, Shape', CaptureInv, NEW s \in CapturedSample, Captured(s),
         UNCHANGED <<outbox.lanes, wire, console.republish, local.topic>>,
         \A k \in Keys : bus'.reliable[k] >= bus.reliable[k],
         s.mode = "Reliable" => s.version = bus.reliable[s.key] + 1 /\ bus'.reliable[s.key] = s.version
  PROVE  CaptureInv'
<1>t. /\ capture \in Seq(CapturedSample) /\ Len(capture) \in Nat /\ bus.reliable \in [Keys -> Nat]
      /\ \A i \in 1..Len(capture) : /\ capture[i].version \in Nat /\ capture[i].key \in Keys
  BY OrderTypes
<1>u. bus'.reliable \in [Keys -> Nat]
  BY DEF Shape, BusShape
<1>s. s.version \in Nat /\ s.key \in Keys
  BY DEF CapturedSample
<1>1. \A k, v : Forwarded(k, v)' <=> Forwarded(k, v)
  BY DEF Forwarded, Emitted, OnLane
<1>2. \A i \in 1..Len(capture') : \/ i \in 1..Len(capture) /\ capture'[i] = capture[i]
                                  \/ i = Len(capture') /\ capture'[i] = s
  <2>1. CASE capture' = capture
    BY <2>1
  <2>2. CASE capture' = Append(capture, s)
    <3>1. /\ Len(Append(capture, s)) = Len(capture) + 1 /\ Append(capture, s)[Len(capture) + 1] = s
          /\ \A i \in 1..Len(capture) : Append(capture, s)[i] = capture[i]
      BY <1>t, QueueFacts
    <3> QED  BY <1>t, <2>2, <3>1
  <2> QED  BY <2>1, <2>2 DEF Captured
<1>3. PublishedAhead'
  <2>1. ASSUME NEW k \in Keys, NEW v \in Nat, Forwarded(k, v)' PROVE v <= bus'.reliable[k]
    <3>1. v <= bus.reliable[k]
      BY <1>1, <2>1 DEF CaptureInv, PublishedAhead
    <3> QED  BY <1>t, <1>u, <3>1
  <2> QED  BY <2>1 DEF PublishedAhead
<1>4. CapturedAhead'
  <2>1. ASSUME NEW k \in Keys, NEW i \in 1..Len(capture'), capture'[i].mode = "Reliable", capture'[i].key = k
        PROVE  /\ capture'[i].version <= bus'.reliable[k]
               /\ \A v \in Nat : Forwarded(k, v)' => v < capture'[i].version
    <3>1. CASE i \in 1..Len(capture) /\ capture'[i] = capture[i]
      <4>1. capture[i].version <= bus.reliable[k] /\ \A v \in Nat : Forwarded(k, v) => v < capture[i].version
        BY <2>1, <3>1 DEF CaptureInv, CapturedAhead
      <4>2. capture[i].version <= bus'.reliable[k]
        BY <1>t, <1>u, <3>1, <4>1
      <4> QED  BY <1>1, <3>1, <4>1, <4>2
    <3>2. CASE capture'[i] = s
      <4>1. s.mode = "Reliable" /\ s.key = k
        BY <2>1, <3>2
      <4>2. \A v \in Nat : Forwarded(k, v)' => v <= bus.reliable[k]
        BY <1>1 DEF CaptureInv, PublishedAhead
      <4>3. \A v \in Nat : Forwarded(k, v)' => v < s.version
        BY <1>t, <4>1, <4>2
      <4>4. bus'.reliable[k] = s.version
        BY <4>1
      <4> QED  BY <1>s, <3>2, <4>3, <4>4
    <3> QED  BY <1>2, <3>1, <3>2
  <2> QED  BY <2>1 DEF CapturedAhead
<1>5. CapturedInOrder'
  <2>1. ASSUME NEW i \in 1..Len(capture'), NEW j \in 1..Len(capture'), i < j,
               capture'[i].mode = "Reliable", capture'[j].mode = "Reliable", capture'[i].key = capture'[j].key
        PROVE  capture'[i].version < capture'[j].version
    <3>1. i \in 1..Len(capture) /\ capture'[i] = capture[i]
      BY <1>2, <2>1
    <3>2. CASE j \in 1..Len(capture) /\ capture'[j] = capture[j]
      BY <2>1, <3>1, <3>2 DEF CaptureInv, CapturedInOrder
    <3>3. CASE capture'[j] = s
      <4>1. s.mode = "Reliable" /\ capture[i].mode = "Reliable" /\ capture[i].key = s.key
        BY <2>1, <3>1, <3>3
      <4>2. capture[i].version <= bus.reliable[s.key]
        BY <1>s, <3>1, <4>1 DEF CaptureInv, CapturedAhead
      <4>3. capture[i].version < s.version
        <5>1. s.version = bus.reliable[s.key] + 1
          BY <4>1
        <5>2. bus.reliable[s.key] \in Nat /\ capture[i].version \in Nat
          BY <1>s, <1>t, <3>1
        <5>3. \A a, b, c \in Nat : a <= b /\ c = b + 1 => a < c
          OBVIOUS
        <5> QED  BY <1>s, <4>2, <5>1, <5>2, <5>3
      <4> QED  BY <3>1, <3>3, <4>3
    <3> QED  BY <1>2, <3>2, <3>3
  <2> QED  BY <2>1 DEF CapturedInOrder
<1> QED  BY <1>3, <1>4, <1>5 DEF CaptureInv

\* The session queues the first sample captured.
LEMMA CaptureTaken ==
  ASSUME Shape, Shape', CaptureInv, SessionOnForward
  PROVE  CaptureInv'
<1> DEFINE s == capture[1]
           lane == LaneOf(outbox, s)
<1>0. s = capture[1] /\ lane = LaneOf(outbox, s)
  OBVIOUS
<1> HIDE DEF s, lane
<1>t. /\ capture \in Seq(CapturedSample) /\ Len(capture) \in Nat /\ bus.reliable \in [Keys -> Nat]
      /\ \A i \in 1..Len(capture) : capture[i].version \in Nat /\ capture[i].key \in Keys
  BY OrderTypes
<1>1. /\ s \in CapturedSample /\ lane \in Lanes /\ LaneGrows(lane, s)
      /\ UNCHANGED <<bus, wire, console, local>>
  BY <1>0, QueuesFacts, QueuesGrow
<1>2. capture # <<>> /\ capture' = Tail(capture)
  BY DEF SessionOnForward
<1>3. /\ 1 \in 1..Len(capture)
      /\ \A i \in 1..Len(capture') : i + 1 \in 2..Len(capture) /\ capture'[i] = capture[i + 1]
  BY <1>2, <1>t, QueueFacts
<1>4. ASSUME NEW k, NEW v, Forwarded(k, v)'
      PROVE  Forwarded(k, v) \/ (k = s.key /\ v = s.version /\ s.mode = "Reliable")
  <2>1. Emitted(k, v)' => Emitted(k, v)
    BY <1>1 DEF Emitted
  <2>2. ASSUME NEW l \in Lanes, OnLane(l, k, v)', ~OnLane(l, k, v)
        PROVE  k = s.key /\ v = s.version /\ s.mode = "Reliable"
    <3>1. PICK i \in 1..Len(outbox'.lanes[l]) : outbox'.lanes[l][i].name = k /\ outbox'.lanes[l][i].version = v
      BY <1>1, <2>2 DEF OnLane
    <3>2. ~(i \in 1..Len(outbox.lanes[l]) /\ outbox'.lanes[l][i] = outbox.lanes[l][i])
      BY <2>2, <3>1 DEF OnLane
    <3> QED  BY <1>1, <3>1, <3>2 DEF LaneGrows, Queued
  <2> QED  BY <1>4, <2>1, <2>2 DEF Forwarded
<1>5. s.key \in Keys /\ s.version \in Nat /\ (s.mode = "Reliable" => s.version <= bus.reliable[s.key])
  <2>1. s.key \in Keys /\ s.version \in Nat
    BY <1>0, <1>3, <1>t
  <2> QED  BY <1>0, <1>3, <2>1 DEF CaptureInv, CapturedAhead
<1>6. PublishedAhead'
  <2>1. ASSUME NEW k \in Keys, NEW v \in Nat, Forwarded(k, v)' PROVE v <= bus.reliable[k]
    BY <1>4, <1>5, <2>1 DEF CaptureInv, PublishedAhead
  <2> QED  BY <1>1, <2>1 DEF PublishedAhead
<1>7. CapturedAhead'
  <2>1. ASSUME NEW k \in Keys, NEW i \in 1..Len(capture'), capture'[i].mode = "Reliable", capture'[i].key = k
        PROVE  /\ capture'[i].version <= bus.reliable[k]
               /\ \A v \in Nat : Forwarded(k, v)' => v < capture'[i].version
    <3>1. i + 1 \in 1..Len(capture) /\ 1 < i + 1 /\ capture'[i] = capture[i + 1]
      BY <1>3
    <3>2. /\ capture[i + 1].version <= bus.reliable[k]
          /\ \A v \in Nat : Forwarded(k, v) => v < capture[i + 1].version
      BY <2>1, <3>1 DEF CaptureInv, CapturedAhead
    <3>3. s.mode = "Reliable" /\ s.key = k => s.version < capture[i + 1].version
      BY <1>0, <1>3, <2>1, <3>1 DEF CaptureInv, CapturedInOrder
    <3> QED  BY <1>4, <3>1, <3>2, <3>3
  <2> QED  BY <1>1, <2>1 DEF CapturedAhead
<1>8. CapturedInOrder'
  <2>1. ASSUME NEW i \in 1..Len(capture'), NEW j \in 1..Len(capture'), i < j,
               capture'[i].mode = "Reliable", capture'[j].mode = "Reliable", capture'[i].key = capture'[j].key
        PROVE  capture'[i].version < capture'[j].version
    <3>1. /\ i + 1 \in 1..Len(capture) /\ j + 1 \in 1..Len(capture) /\ i + 1 < j + 1
          /\ capture'[i] = capture[i + 1] /\ capture'[j] = capture[j + 1]
      BY <1>3, <2>1
    <3> QED  BY <2>1, <3>1 DEF CaptureInv, CapturedInOrder
  <2> QED  BY <2>1 DEF CapturedInOrder
<1> QED  BY <1>6, <1>7, <1>8 DEF CaptureInv

\* What the console hands on was on a lane.
LEMMA EmittedTopic ==
  ASSUME Shape, StreamInv, NEW id, OnTopicStream(id), NEW unit, unit = wire[id][1], NEW k, NEW v, Emitted(k, v)'
  PROVE  \/ Emitted(k, v)
         \/ unit.name = k /\ unit.version = v /\ unit.last /\ unit.kind # "Object"
<1>1. /\ unit \in SentUnit /\ UNCHANGED local
      /\ \/ UNCHANGED console.republish
         \/ /\ ~(unit.last /\ unit.kind # "Object")
            /\ console'.republish = console.republish \o <<>>
         \/ /\ unit.last /\ unit.kind # "Object"
            /\ console'.republish = console.republish \o <<Sample("Reliable", unit)>>
  BY ReadsTopicFacts
<1>2. console.republish \in Seq(RepublishedSample)
  BY DEF Shape, ConsoleShape
<1> DEFINE s == Sample("Reliable", unit)
<1>3. /\ s \in RepublishedSample /\ s.name = unit.name /\ s.version = unit.version
  BY <1>1 DEF SentUnit, Sample, RepublishedSample
<1>s. s = Sample("Reliable", unit)
  OBVIOUS
<1> HIDE DEF s
<1>4. CASE unit.last /\ unit.kind # "Object"
  <2>1. ChannelGrows(s)
    <3> DEFINE r == console.republish
    <3>1. r = console.republish /\ r \in Seq(RepublishedSample)
      BY <1>2
    <3>2. console'.republish = r \/ console'.republish = r \o <<s>>
      BY <1>1, <1>4, <1>s
    <3> HIDE DEF r
    <3> QED  BY <1>3, <3>1, <3>2, RepublishGrows
  <2> QED  BY <1>1, <1>3, <1>4, <2>1 DEF Emitted, ChannelGrows
<1>5. CASE ~(unit.last /\ unit.kind # "Object")
  <2>1. console.republish \o <<>> = console.republish
    BY <1>2
  <2>2. UNCHANGED console.republish
    BY <1>1, <1>5, <2>1
  <2> QED  BY <1>1, <2>2 DEF Emitted
<1> QED  BY <1>4, <1>5

\* A put emits nothing that was not emitted.
LEMMA EmittedPut ==
  ASSUME Shape, PutSample, NEW k, NEW v, Emitted(k, v)'
  PROVE  Emitted(k, v)
<1> DEFINE s == console.republish[1]
<1>0. s = console.republish[1]
  OBVIOUS
<1> HIDE DEF s
<1>1. /\ 1 \in 1..Len(console.republish) /\ BusGrows(s)
      /\ \A j \in 1..Len(console'.republish) : /\ j + 1 \in 2..Len(console.republish)
                                               /\ console'.republish[j] = console.republish[j + 1]
  BY <1>0, PutFacts
<1>2. ASSUME k \in Keys, NEW i \in 1..Len(local'.topic[k]), local'.topic[k][i] = v PROVE Emitted(k, v)
  <2>1. CASE i \in 1..Len(local.topic[k]) /\ local'.topic[k][i] = local.topic[k][i]
    BY <1>2, <2>1 DEF Emitted
  <2>2. CASE s.mode = "Reliable" /\ s.name = k /\ local'.topic[k][i] = s.version
    BY <1>0, <1>1, <1>2, <2>2 DEF Emitted
  <2> QED  BY <1>1, <1>2, <2>1, <2>2 DEF BusGrows
<1>3. ASSUME NEW j \in 1..Len(console'.republish), console'.republish[j].mode = "Reliable",
             console'.republish[j].name = k, console'.republish[j].version = v
      PROVE  Emitted(k, v)
  <2>1. j + 1 \in 1..Len(console.republish) /\ console'.republish[j] = console.republish[j + 1]
    BY <1>1
  <2> QED  BY <1>3, <2>1 DEF Emitted
<1> QED  BY <1>2, <1>3 DEF Emitted

\* A datagram is handed on as a Latest sample.
LEMMA DatagramGrows ==
  ASSUME Shape, NEW d \in datagrams, OnTopicDatagram(d)
  PROVE  \E s \in RepublishedSample : s.mode = "Latest" /\ ChannelGrows(s)
<1> DEFINE s == Sample("Latest", d)
           one == <<s>>
           r == console.republish
<1>1. s \in RepublishedSample /\ s.mode = "Latest"
  BY DEF Shape, Sample, RepublishedSample
<1>2. one \in Seq(RepublishedSample)
  BY <1>1
<1>3. Republish(console, one) /\ ConsoleShape(console)
  BY DEF OnTopicDatagram, Shape
<1>4. r = console.republish /\ r \in Seq(RepublishedSample)
  BY <1>3 DEF ConsoleShape
<1>5. console'.republish = r \/ console'.republish = r \o one
  <2> HIDE DEF one
  <2> QED  BY <1>2, <1>3, RepublishFacts
<1>6. console'.republish = r \/ console'.republish = r \o <<s>>
  BY <1>5
<1> HIDE DEF s, r
<1>7. ChannelGrows(s)
  BY <1>1, <1>4, <1>6, RepublishGrows
<1> QED  BY <1>1, <1>7

\* A datagram emits nothing on a reliable topic.
LEMMA EmittedDatagram ==
  ASSUME Shape, NEW d \in datagrams, OnTopicDatagram(d), NEW k, NEW v, Emitted(k, v)'
  PROVE  Emitted(k, v)
<1>1. PICK s \in RepublishedSample : s.mode = "Latest" /\ ChannelGrows(s)
  BY DatagramGrows
<1>2. UNCHANGED local
  BY DEF OnTopicDatagram
<1>3. ASSUME NEW j \in 1..Len(console'.republish), console'.republish[j].mode = "Reliable"
      PROVE  j \in 1..Len(console.republish) /\ console'.republish[j] = console.republish[j]
  BY <1>1, <1>3 DEF ChannelGrows
<1> QED  BY <1>2, <1>3 DEF Emitted

\* What leaves samples where they are.
ordered == <<capture, outbox.lanes, outbox.stream, wire, console.republish, local.topic, bus.reliable, history.exposed>>

Calm == \/ RefillRate \/ RefillCap \/ UpdateRate \/ FeedTopicDatagram \/ WatcherPolls
        \/ (\E o \in Objects : PublishObject(o)) \/ (\E d \in datagrams : LoseDatagram(d)) \/ UNCHANGED vars

\* The steps that move no sample leave every order as it was.
LEMMA CalmFacts == Shape /\ Calm => UNCHANGED ordered
<1> SUFFICES ASSUME Shape, Calm PROVE UNCHANGED ordered
  OBVIOUS
<1>t. BusShape /\ OutboxShape(outbox) /\ ConsoleShape(console)
  BY DEF Shape
<1>1. CASE RefillRate \/ RefillCap \/ UpdateRate
  BY <1>1 DEF RefillRate, RefillCap, UpdateRate, network, receiver, ordered
<1>2. CASE FeedTopicDatagram
  BY <1>2, <1>t DEF FeedTopicDatagram, OutboxShape, receiver, ordered
<1>3. CASE WatcherPolls
  BY <1>3, <1>t DEF WatcherPolls, BusShape, ConsoleShape, network, ordered
<1>4. ASSUME NEW o \in Objects, PublishObject(o) PROVE UNCHANGED ordered
  <2>1. bus'.reliable = bus.reliable
    BY <1>4, <1>t DEF PublishObject, BusShape
  <2> QED  BY <1>4, <2>1 DEF PublishObject, network, receiver, ordered
<1>5. ASSUME NEW d, LoseDatagram(d) PROVE UNCHANGED ordered
  <2>1. bus'.reliable = bus.reliable
    BY <1>5, <1>t DEF LoseDatagram, BusShape
  <2> QED  BY <1>5, <2>1 DEF LoseDatagram, receiver, ordered
<1>6. CASE UNCHANGED vars
  BY <1>6 DEF vars, ordered
<1> QED  BY <1>1, <1>2, <1>3, <1>4, <1>5, <1>6 DEF Calm

\* Every step, by what it does to the order of samples.
LEMMA OrderCases ==
  ASSUME [Next]_vars
  PROVE  \/ Calm \/ SessionOnForward \/ PutSample \/ Reconnect
         \/ (\E k \in Keys : PublishLatest(k) \/ \E size \in {1, LargeUnits} : PublishReliable(k, size))
         \/ (\E lane \in Lanes : PumpTopics(lane)) \/ (\E o \in Objects : PumpBulk(o))
         \/ (\E d \in datagrams : OnTopicDatagram(d))
         \/ (\E id \in DOMAIN wire : OnTopicStream(id) \/ OnBulkStream(id))
  BY DEF Next, Calm

\* A node publishes: only what is captured changes.
LEMMA PublishFacts ==
  ASSUME Shape, NEW k \in Keys, PublishLatest(k) \/ \E size \in {1, LargeUnits} : PublishReliable(k, size)
  PROVE  /\ \E s \in CapturedSample :
              /\ Captured(s)
              /\ s.mode = "Reliable" => s.version = bus.reliable[s.key] + 1 /\ bus'.reliable[s.key] = s.version
         /\ \A j \in Keys : bus'.reliable[j] >= bus.reliable[j]
         /\ UNCHANGED <<outbox, wire, console, local, history>>
<1>t. BusShape /\ bus.reliable \in [Keys -> Nat] /\ bus.state \in [Keys -> Nat]
  BY DEF Shape, BusShape
<1>1. CASE PublishLatest(k)
  <2> DEFINE s == [mode |-> "Latest", key |-> k, version |-> bus.state[k] + 1, units |-> 1]
  <2>1. s \in CapturedSample /\ s.mode # "Reliable"
    BY <1>t DEF CapturedSample
  <2>2. Captured(s) /\ UNCHANGED <<outbox, wire, console, local, history>>
    BY <1>1 DEF PublishLatest, network, receiver
  <2>3. bus'.reliable = bus.reliable
    BY <1>1, <1>t DEF PublishLatest, BusShape
  <2> HIDE DEF s
  <2> QED  BY <1>t, <2>1, <2>2, <2>3
<1>2. ASSUME NEW size \in {1, LargeUnits}, PublishReliable(k, size)
      PROVE  /\ \E s \in CapturedSample :
                  /\ Captured(s)
                  /\ s.mode = "Reliable" => s.version = bus.reliable[s.key] + 1 /\ bus'.reliable[s.key] = s.version
             /\ \A j \in Keys : bus'.reliable[j] >= bus.reliable[j]
             /\ UNCHANGED <<outbox, wire, console, local, history>>
  <2> DEFINE v == bus.reliable[k] + 1
             s == [mode |-> "Reliable", key |-> k, version |-> v, units |-> size]
  <2>1. size \in Nat \ {0} /\ v \in Nat /\ v > bus.reliable[k]
    BY <1>t, DataStreamsAssumption
  <2>2. bus' = [bus EXCEPT !.reliable[k] = v]
    BY <1>2 DEF PublishReliable
  <2>3. Captured(s) /\ UNCHANGED <<outbox, wire, console, local, history>>
    BY <1>2 DEF PublishReliable, network, receiver
  <2>v. v = bus.reliable[k] + 1
    OBVIOUS
  <2> HIDE DEF v
  <2>4. s \in CapturedSample /\ s.version = v /\ s.key = k
    BY <2>1 DEF CapturedSample
  <2>5. bus'.reliable = [bus.reliable EXCEPT ![k] = v]
    BY <1>t, <2>2 DEF BusShape
  <2>6. bus'.reliable[k] = v /\ \A j \in Keys : bus'.reliable[j] >= bus.reliable[j]
    BY <1>t, <2>1, <2>5
  <2> HIDE DEF s
  <2> QED  BY <2>3, <2>4, <2>6, <2>v
<1> QED  BY <1>1, <1>2

\* Every step keeps captured samples in order and ahead of those forwarded.
LEMMA NextCaptureInv == Shape /\ Shape' /\ StreamInv /\ CaptureInv /\ [Next]_vars => CaptureInv'
<1> SUFFICES ASSUME Shape, Shape', StreamInv, CaptureInv, [Next]_vars PROVE CaptureInv'
  OBVIOUS
<1>1. CASE Calm
  <2>1. UNCHANGED ordered
    BY <1>1, CalmFacts
  <2>2. \A k, v : Forwarded(k, v)' => Forwarded(k, v)
    BY <2>1 DEF ordered, Forwarded, Emitted, OnLane
  <2> QED  BY <2>1, <2>2, CaptureStays DEF ordered
<1>2. ASSUME NEW k \in Keys, PublishLatest(k) \/ \E size \in {1, LargeUnits} : PublishReliable(k, size)
      PROVE  CaptureInv'
  <2>1. UNCHANGED <<outbox, wire, console, local>> /\ \A j \in Keys : bus'.reliable[j] >= bus.reliable[j]
    BY <1>2, PublishFacts
  <2>2. PICK s \in CapturedSample :
          /\ Captured(s)
          /\ s.mode = "Reliable" => s.version = bus.reliable[s.key] + 1 /\ bus'.reliable[s.key] = s.version
    BY <1>2, PublishFacts
  <2> QED  BY <2>1, <2>2, CaptureGrows
<1>3. CASE SessionOnForward
  BY <1>3, CaptureTaken
<1>4. ASSUME NEW lane \in Lanes, PumpTopics(lane) PROVE CaptureInv'
  <2>1. UNCHANGED <<bus, capture, console, local>>
    BY <1>4 DEF PumpTopics, receiver
  <2>2. \A l \in Lanes : \A k, v : OnLane(l, k, v)' => OnLane(l, k, v)
    BY <1>4, TopicsOnLane
  <2>3. \A k, v : Emitted(k, v)' => Forwarded(k, v)
    BY <2>1 DEF Emitted, Forwarded
  <2> QED  BY <2>1, <2>2, <2>3, ForwardedStays, CaptureStays
<1>5. ASSUME NEW o \in Objects, PumpBulk(o) PROVE CaptureInv'
  <2>1. UNCHANGED <<bus, capture, console, local>>
    BY <1>5 DEF PumpBulk, receiver
  <2>2. \A l \in Lanes : \A k, v : OnLane(l, k, v)' => OnLane(l, k, v)
    BY <1>5, BulkOnLane
  <2>3. \A k, v : Emitted(k, v)' => Forwarded(k, v)
    BY <2>1 DEF Emitted, Forwarded
  <2> QED  BY <2>1, <2>2, <2>3, ForwardedStays, CaptureStays
<1>6. ASSUME NEW id, OnTopicStream(id) PROVE CaptureInv'
  <2> DEFINE unit == wire[id][1]
  <2>0. unit = wire[id][1]
    OBVIOUS
  <2> HIDE DEF unit
  <2>1. Read(id) /\ unit \in SentUnit /\ UNCHANGED <<bus, capture, outbox>>
    BY <1>6, <2>0, ReadsTopicFacts
  <2>2. \A l \in Lanes : \A k, v : OnLane(l, k, v)' => OnLane(l, k, v)
    BY <2>1, ReadOnLane
  <2>3. ASSUME NEW k, NEW v, Emitted(k, v)' PROVE Forwarded(k, v)
    <3>1. CASE Emitted(k, v)
      BY <3>1 DEF Forwarded
    <3>2. CASE unit.name = k /\ unit.version = v /\ unit.kind # "Object"
      <4>1. unit.kind \in Lanes
        BY <2>1, <3>2 DEF SentUnit
      <4>2. id \in DOMAIN wire /\ 1 \in 1..Len(wire[id])
        BY <2>1, ReadFacts, OrderTypes
      <4> QED  BY <2>0, <3>2, <4>1, <4>2 DEF Forwarded, OnLane
    <3> QED  BY <1>6, <2>0, <2>3, <3>1, <3>2, EmittedTopic
  <2> QED  BY <2>1, <2>2, <2>3, ForwardedStays, CaptureStays
<1>7. ASSUME NEW id, OnBulkStream(id) PROVE CaptureInv'
  <2> DEFINE unit == wire[id][1]
  <2>0. unit = wire[id][1]
    OBVIOUS
  <2> HIDE DEF unit
  <2>1. Read(id) /\ UNCHANGED <<bus, capture, outbox, console.republish, local.topic>>
    BY <1>7, <2>0, ReadsBulkFacts
  <2>2. \A l \in Lanes : \A k, v : OnLane(l, k, v)' => OnLane(l, k, v)
    BY <2>1, ReadOnLane
  <2>3. \A k, v : Emitted(k, v)' => Forwarded(k, v)
    BY <2>1 DEF Emitted, Forwarded
  <2> QED  BY <2>1, <2>2, <2>3, ForwardedStays, CaptureStays
<1>8. CASE PutSample
  <2>1. UNCHANGED <<bus, capture, outbox, wire>>
    BY <1>8, PutFacts
  <2>2. \A l \in Lanes : \A k, v : OnLane(l, k, v)' => OnLane(l, k, v)
    BY <2>1 DEF OnLane
  <2>3. \A k, v : Emitted(k, v)' => Forwarded(k, v)
    BY <1>8, EmittedPut DEF Forwarded
  <2> QED  BY <2>1, <2>2, <2>3, ForwardedStays, CaptureStays
<1>9. ASSUME NEW d \in datagrams, OnTopicDatagram(d) PROVE CaptureInv'
  <2>1. UNCHANGED <<bus, capture, outbox, wire>>
    BY <1>9 DEF OnTopicDatagram
  <2>2. \A l \in Lanes : \A k, v : OnLane(l, k, v)' => OnLane(l, k, v)
    BY <2>1 DEF OnLane
  <2>3. \A k, v : Emitted(k, v)' => Forwarded(k, v)
    BY <1>9, EmittedDatagram DEF Forwarded
  <2> QED  BY <2>1, <2>2, <2>3, ForwardedStays, CaptureStays
<1>10. CASE Reconnect
  <2>1. /\ capture' = <<>> /\ DOMAIN wire' = {} /\ \A lane \in Lanes : outbox'.lanes[lane] = <<>>
        /\ UNCHANGED <<console.republish, local.topic>>
    BY <1>10, ReconnectFacts
  <2>2. bus'.reliable = bus.reliable
    BY <1>10 DEF Reconnect, Shape, BusShape
  <2>3. \A k, v : Forwarded(k, v)' => Forwarded(k, v)
    BY <2>1 DEF Forwarded, Emitted, OnLane
  <2>4. PublishedAhead'
    BY <2>2, <2>3 DEF CaptureInv, PublishedAhead
  <2> QED  BY <2>1, <2>4 DEF CaptureInv, CapturedAhead, CapturedInOrder
<1> QED  BY <1>1, <1>2, <1>3, <1>4, <1>5, <1>6, <1>7, <1>8, <1>9, <1>10, OrderCases

\* The units of a lane on the wire are those of its stream.
LEMMA WireOfLane ==
  ASSUME Shape, StreamInv, LaneInv, NEW lane \in Lanes, NEW id \in DOMAIN wire, NEW i \in 1..Len(wire[id]),
         wire[id][i].kind = lane
  PROVE  id = outbox.stream[lane]
<1>1. lane # "Object"
  BY DEF Lanes
<1>2. TopicStream(id)
  BY <1>1 DEF StreamInv, KindsInv
<1>3. PICK other \in Lanes : outbox.stream[other] = id
  BY <1>2 DEF TopicStream
<1>4. wire[id][i].kind = other
  BY <1>3 DEF LaneInv, WireOrder
<1> QED  BY <1>3, <1>4

\* A sample is queued behind all of its key that is on the lane.
LEMMA LaneOrderQueues ==
  ASSUME Shape, Shape', StreamInv, CaptureInv, LaneInv, SessionOnForward
  PROVE  LaneInv'
<1> DEFINE s == capture[1]
           lane == LaneOf(outbox, s)
<1>0. s = capture[1] /\ lane = LaneOf(outbox, s)
  OBVIOUS
<1> HIDE DEF s, lane
<1>1. /\ s \in CapturedSample /\ lane \in Lanes /\ LaneGrows(lane, s)
      /\ UNCHANGED <<outbox.stream, wire>>
  BY <1>0, QueuesFacts, QueuesGrow
<1>t. /\ \A l \in Lanes : /\ Len(outbox.lanes[l]) \in Nat
                          /\ \A i \in 1..Len(outbox.lanes[l]) : outbox.lanes[l][i].version \in Nat
      /\ \A id \in DOMAIN wire : /\ Len(wire[id]) \in Nat
                                 /\ \A i \in 1..Len(wire[id]) : wire[id][i].version \in Nat
      /\ \A l \in Lanes : Len(outbox'.lanes[l]) \in Nat
      /\ 1 \in 1..Len(capture)
  <2>1. capture # <<>>
    BY DEF SessionOnForward
  <2>2. capture \in Seq(CapturedSample) /\ Len(capture) \in Nat
    BY OrderTypes
  <2>3. 1 \in 1..Len(capture)
    BY <2>1, <2>2
  <2>4. outbox'.lanes \in [Lanes -> Seq(QueuedUnit)]
    BY DEF Shape, OutboxShape
  <2> QED  BY <2>3, <2>4, OrderTypes
<1>s. s.version \in Nat /\ s.key \in Keys
  BY <1>1 DEF CapturedSample
<1>2. ASSUME NEW l \in Lanes, NEW v \in Nat, OnLane(l, s.key, v), s.mode = "Reliable" PROVE v < s.version
  <2>1. Forwarded(s.key, v)
    BY <1>2 DEF Forwarded
  <2> QED  BY <1>0, <1>2, <1>s, <1>t, <2>1 DEF CaptureInv, CapturedAhead
<1>3. QueueOrder'
  <2>1. ASSUME NEW l \in Lanes, NEW i \in 1..Len(outbox'.lanes[l]), NEW j \in 1..Len(outbox'.lanes[l]), i < j
        PROVE  Follows(outbox'.lanes[l][i], outbox'.lanes[l][j])
    <3> DEFINE u == outbox'.lanes[l][i]
               w == outbox'.lanes[l][j]
    <3>0. u = outbox'.lanes[l][i] /\ w = outbox'.lanes[l][j]
      OBVIOUS
    <3> HIDE DEF u, w
    <3>1. CASE /\ i \in 1..Len(outbox.lanes[l]) /\ u = outbox.lanes[l][i]
               /\ j \in 1..Len(outbox.lanes[l]) /\ w = outbox.lanes[l][j]
      BY <2>1, <3>0, <3>1 DEF LaneInv, QueueOrder
    <3>2. CASE /\ i \in 1..Len(outbox.lanes[l]) /\ u = outbox.lanes[l][i]
               /\ w.name = s.key /\ w.version = s.version /\ s.mode = "Reliable"
      <4>1. u.name = w.name => OnLane(l, s.key, u.version)
        BY <3>2 DEF OnLane
      <4>2. u.version \in Nat
        BY <1>t, <3>2
      <4>3. u.name = w.name => u.version < w.version
        BY <1>2, <3>2, <4>1, <4>2
      <4>4. w.version \in Nat
        BY <1>s, <3>2
      <4>5. u.name = w.name => u.version <= w.version /\ u.version < w.version
        BY <4>2, <4>3, <4>4
      <4>6. Follows(u, w)
        BY <4>5, Zenon DEF Follows
      <4> QED  BY <3>0, <4>6
    <3>3. CASE /\ i > Len(outbox.lanes[l])
               /\ u.version = s.version /\ w.version = s.version /\ (u.last <=> i = Len(outbox'.lanes[l]))
      <4>1. ~u.last
        BY <1>t, <2>1, <3>3
      <4> QED  BY <1>s, <3>0, <3>3, <4>1 DEF Follows
    <3>4. CASE i > Len(outbox.lanes[l]) /\ j \in 1..Len(outbox.lanes[l])
      BY <1>t, <2>1, <3>4
    <3>5. \/ i \in 1..Len(outbox.lanes[l]) /\ u = outbox.lanes[l][i]
          \/ /\ i > Len(outbox.lanes[l])
             /\ u.version = s.version /\ (u.last <=> i = Len(outbox'.lanes[l]))
      BY <1>1, <3>0 DEF LaneGrows
    <3>6. \/ j \in 1..Len(outbox.lanes[l]) /\ w = outbox.lanes[l][j]
          \/ w.name = s.key /\ w.version = s.version /\ s.mode = "Reliable"
      BY <1>1, <3>0 DEF LaneGrows, Queued
    <3> QED  BY <3>1, <3>2, <3>3, <3>4, <3>5, <3>6
  <2> QED  BY <2>1 DEF QueueOrder
<1>4. WireOrder'
  <2>1. ASSUME NEW l \in Lanes, outbox.stream[l] \in DOMAIN wire, NEW id, id = outbox.stream[l],
               NEW i \in 1..Len(wire[id]), NEW j \in 1..Len(outbox'.lanes[l])
        PROVE  Follows(wire[id][i], outbox'.lanes[l][j])
    <3> DEFINE u == wire[id][i]
               w == outbox'.lanes[l][j]
    <3>0. u = wire[id][i] /\ w = outbox'.lanes[l][j]
      OBVIOUS
    <3> HIDE DEF u, w
    <3>1. CASE j \in 1..Len(outbox.lanes[l]) /\ w = outbox.lanes[l][j]
      BY <2>1, <3>0, <3>1 DEF LaneInv, WireOrder
    <3>2. CASE w.name = s.key /\ w.version = s.version /\ s.mode = "Reliable"
      <4>1. u.kind = l /\ u.version \in Nat
        BY <1>t, <2>1, <3>0 DEF LaneInv, WireOrder
      <4>2. u.name = w.name => OnLane(l, s.key, u.version)
        BY <2>1, <3>0, <3>2, <4>1 DEF OnLane
      <4>3. u.name = w.name => u.version < w.version
        BY <1>2, <3>2, <4>1, <4>2
      <4>4. w.version \in Nat
        BY <1>s, <3>2
      <4>5. u.name = w.name => u.version <= w.version /\ u.version < w.version
        BY <4>1, <4>3, <4>4
      <4>6. Follows(u, w)
        BY <4>5, Zenon DEF Follows
      <4> QED  BY <3>0, <4>6
    <3>3. \/ j \in 1..Len(outbox.lanes[l]) /\ w = outbox.lanes[l][j]
          \/ w.name = s.key /\ w.version = s.version /\ s.mode = "Reliable"
      BY <1>1, <3>0 DEF LaneGrows, Queued
    <3> QED  BY <3>0, <3>1, <3>2, <3>3
  <2> QED  BY <1>1, <2>1 DEF LaneInv, WireOrder
<1>5. OwnStreams'
  BY <1>1 DEF LaneInv, OwnStreams
<1> QED  BY <1>3, <1>4, <1>5 DEF LaneInv

\* A unit goes from the head of a lane to the end of its stream.
LEMMA LaneOrderPumps ==
  ASSUME Shape, StreamInv, LaneInv, NEW lane \in Lanes, PumpTopics(lane)
  PROVE  LaneInv'
<1> DEFINE id == StreamOf(lane)
           unit == outbox.lanes[lane][1]
<1>0. id = StreamOf(lane) /\ unit = outbox.lanes[lane][1]
  OBVIOUS
<1> HIDE DEF id, unit
<1>t. /\ \A l \in Lanes : Len(outbox.lanes[l]) \in Nat /\ outbox.stream[l] \in Nat
      /\ bulk.next_stream \in Nat /\ outbox.stream \in [Lanes -> Nat]
  BY OrderTypes DEF Shape, BulkShape
<1>1. /\ unit \in QueuedUnit /\ 1 \in 1..Len(outbox.lanes[lane]) /\ StreamSend(id, unit)
      /\ outbox'.stream = [outbox.stream EXCEPT ![lane] = id]
      /\ \/ outbox.stream[lane] # None /\ id = outbox.stream[lane]
         \/ outbox.stream[lane] = None /\ id = bulk.next_stream
  <2>1. Len(outbox.lanes[lane]) > 0
    BY <1>0, PumpsTopicsFacts
  <2>2. 1 \in 1..Len(outbox.lanes[lane])
    BY <1>t, <2>1
  <2>3. unit \in QueuedUnit /\ StreamSend(id, unit)
    BY <1>0, PumpsTopicsFacts
  <2>4. outbox'.stream = [outbox.stream EXCEPT ![lane] = id]
    BY <1>0, PumpsTopicsFacts
  <2>5. \/ outbox.stream[lane] # None /\ id = outbox.stream[lane]
        \/ outbox.stream[lane] = None /\ id = bulk.next_stream
    BY <1>0 DEF StreamOf
  <2> QED  BY <2>2, <2>3, <2>4, <2>5
<1>2. /\ DOMAIN wire' = DOMAIN wire \cup {id} /\ \A y \in DOMAIN wire : y # id => wire'[y] = wire[y]
      /\ WireGrows(id, unit)
  BY <1>1, SentFacts DEF StreamInv
<1>3. /\ outbox'.stream[lane] = id
      /\ \A l \in Lanes : l # lane => outbox'.stream[l] = outbox.stream[l] /\ outbox.stream[l] # id
      /\ id \in DOMAIN wire => id = outbox.stream[lane]
  <2>1. outbox'.stream[lane] = id /\ \A l \in Lanes : l # lane => outbox'.stream[l] = outbox.stream[l]
    BY <1>1, <1>t
  <2>2. /\ \A l \in Lanes : outbox.stream[l] < bulk.next_stream
        /\ \A y \in DOMAIN wire : y \in 1..(bulk.next_stream - 1)
    BY DEF StreamInv, IdsInv
  <2>3. CASE outbox.stream[lane] # None /\ id = outbox.stream[lane]
    BY <2>1, <2>3 DEF LaneInv, OwnStreams
  <2>4. CASE id = bulk.next_stream
    BY <1>t, <2>1, <2>2, <2>4
  <2> QED  BY <1>1, <2>3, <2>4
<1>4. unit.kind = lane
  BY <1>0, <1>1 DEF StreamInv, KindsInv
<1>5. QueueOrder'
  <2>1. ASSUME NEW l \in Lanes, NEW i \in 1..Len(outbox'.lanes[l]), NEW j \in 1..Len(outbox'.lanes[l]), i < j
        PROVE  Follows(outbox'.lanes[l][i], outbox'.lanes[l][j])
    <3>1. CASE l # lane
      <4>1. /\ i \in 1..Len(outbox.lanes[l]) /\ outbox'.lanes[l][i] = outbox.lanes[l][i]
            /\ j \in 1..Len(outbox.lanes[l]) /\ outbox'.lanes[l][j] = outbox.lanes[l][j]
        BY <3>1, LaneShrinks
      <4> QED  BY <2>1, <4>1 DEF LaneInv, QueueOrder
    <3>2. CASE l = lane
      <4>1. /\ i + 1 \in 2..Len(outbox.lanes[lane]) /\ outbox'.lanes[lane][i] = outbox.lanes[lane][i + 1]
            /\ j + 1 \in 2..Len(outbox.lanes[lane]) /\ outbox'.lanes[lane][j] = outbox.lanes[lane][j + 1]
        BY <3>2, LaneShrinks
      <4>2. i + 1 \in 1..Len(outbox.lanes[lane]) /\ j + 1 \in 1..Len(outbox.lanes[lane]) /\ i + 1 < j + 1
        BY <2>1, <4>1
      <4> QED  BY <3>2, <4>1, <4>2 DEF LaneInv, QueueOrder
    <3> QED  BY <3>1, <3>2
  <2> QED  BY <2>1 DEF QueueOrder
<1>6. ASSUME NEW j \in 1..Len(outbox'.lanes[lane])
      PROVE  /\ j + 1 \in 1..Len(outbox.lanes[lane]) /\ 1 < j + 1
             /\ outbox'.lanes[lane][j] = outbox.lanes[lane][j + 1]
  BY LaneShrinks
<1>7. ASSUME NEW i \in 1..Len(wire'[id])
      PROVE  \/ id \in DOMAIN wire /\ i \in 1..Len(wire[id]) /\ wire'[id][i] = wire[id][i]
             \/ /\ i = Len(wire'[id])
                /\ wire'[id][i].kind = unit.kind /\ wire'[id][i].name = unit.name
                /\ wire'[id][i].version = unit.version /\ wire'[id][i].last = unit.last
  BY <1>2 DEF WireGrows
<1>u. ASSUME NEW x, NEW w, x.name = unit.name, x.version = unit.version, x.last = unit.last, Follows(unit, w)
      PROVE  Follows(x, w)
  BY <1>u DEF Follows
<1>v. ASSUME NEW x, NEW w, x.name = unit.name, x.version = unit.version, Follows(w, unit)
      PROVE  Follows(w, x)
  BY <1>v DEF Follows
<1>8. \A i \in 1..Len(wire'[id]) : wire'[id][i].kind = lane
  <2>1. ASSUME NEW i \in 1..Len(wire'[id]), id \in DOMAIN wire, i \in 1..Len(wire[id]), wire'[id][i] = wire[id][i]
        PROVE  wire'[id][i].kind = lane
    BY <1>3, <2>1 DEF LaneInv, WireOrder
  <2> QED  BY <1>4, <1>7, <2>1
<1>9. ASSUME NEW i \in 1..Len(wire'[id]), NEW j \in 1..Len(wire'[id]), i < j
      PROVE  Follows(wire'[id][i], wire'[id][j])
  <2>1. id \in DOMAIN wire /\ i \in 1..Len(wire[id]) /\ wire'[id][i] = wire[id][i]
    <3>1. wire'[id] \in Seq(SentUnit)
      BY <1>1, StreamSendFacts
    <3>2. i # Len(wire'[id])
      BY <1>9, <3>1
    <3> QED  BY <1>7, <3>2
  <2>2. CASE j \in 1..Len(wire[id]) /\ wire'[id][j] = wire[id][j]
    BY <1>3, <1>9, <2>1, <2>2 DEF LaneInv, WireOrder
  <2>3. CASE wire'[id][j].name = unit.name /\ wire'[id][j].version = unit.version
    <3>1. Follows(wire[id][i], unit)
      BY <1>0, <1>1, <1>3, <2>1 DEF LaneInv, WireOrder
    <3> QED  BY <1>v, <2>1, <2>3, <3>1
  <2> QED  BY <1>7, <2>2, <2>3
<1>10. ASSUME NEW i \in 1..Len(wire'[id]), NEW j \in 1..Len(outbox'.lanes[lane])
       PROVE  Follows(wire'[id][i], outbox'.lanes[lane][j])
  <2>1. CASE id \in DOMAIN wire /\ i \in 1..Len(wire[id]) /\ wire'[id][i] = wire[id][i]
    BY <1>3, <1>6, <2>1 DEF LaneInv, WireOrder
  <2>2. CASE wire'[id][i].name = unit.name /\ wire'[id][i].version = unit.version /\ wire'[id][i].last = unit.last
    <3>1. Follows(unit, outbox.lanes[lane][j + 1])
      BY <1>0, <1>1, <1>6 DEF LaneInv, QueueOrder
    <3> QED  BY <1>6, <1>u, <2>2, <3>1
  <2> QED  BY <1>7, <2>1, <2>2
<1>11. WireOrder'
  <2>1. ASSUME NEW l \in Lanes, outbox'.stream[l] \in DOMAIN wire', l # lane
        PROVE  /\ outbox.stream[l] \in DOMAIN wire /\ outbox'.stream[l] = outbox.stream[l]
               /\ wire'[outbox.stream[l]] = wire[outbox.stream[l]]
               /\ \A j \in 1..Len(outbox'.lanes[l]) : /\ j \in 1..Len(outbox.lanes[l])
                                                      /\ outbox'.lanes[l][j] = outbox.lanes[l][j]
    BY <1>2, <1>3, <2>1, LaneShrinks
  <2>2. ASSUME NEW l \in Lanes, outbox'.stream[l] \in DOMAIN wire', NEW y, y = outbox'.stream[l]
        PROVE  /\ \A i \in 1..Len(wire'[y]) : wire'[y][i].kind = l
               /\ \A i, j \in 1..Len(wire'[y]) : i < j => Follows(wire'[y][i], wire'[y][j])
               /\ \A i \in 1..Len(wire'[y]), j \in 1..Len(outbox'.lanes[l]) :
                    Follows(wire'[y][i], outbox'.lanes[l][j])
    <3>1. CASE l = lane
      BY <1>3, <1>8, <1>9, <1>10, <2>2, <3>1
    <3>2. CASE l # lane
      BY <2>1, <2>2, <3>2 DEF LaneInv, WireOrder
    <3> QED  BY <3>1, <3>2
  <2> QED  BY <2>2 DEF WireOrder
<1>12. OwnStreams'
  BY <1>1, <1>3 DEF LaneInv, OwnStreams
<1> QED  BY <1>5, <1>11, <1>12 DEF LaneInv

\* Every step keeps the samples of a lane in order.
LEMMA NextLaneInv == Shape /\ Shape' /\ StreamInv /\ CaptureInv /\ LaneInv /\ [Next]_vars => LaneInv'
<1> SUFFICES ASSUME Shape, Shape', StreamInv, CaptureInv, LaneInv, [Next]_vars PROVE LaneInv'
  OBVIOUS
<1>1. CASE SessionOnForward
  BY <1>1, LaneOrderQueues
<1>2. ASSUME NEW lane \in Lanes, PumpTopics(lane) PROVE LaneInv'
  BY <1>2, LaneOrderPumps
<1>3. ASSUME NEW o \in Objects, PumpBulk(o) PROVE LaneInv'
  <2> DEFINE id == bulk.active[o].stream
             l == bulk.active[o].left
  <2>0. id = bulk.active[o].stream /\ l = bulk.active[o].left
    OBVIOUS
  <2> HIDE DEF id, l
  <2>1. /\ o \in DOMAIN bulk.active /\ l[1] \in QueuedUnit /\ StreamSend(id, l[1]) /\ outbox' = outbox
    BY <1>3, <2>0, PumpsBulkFacts
  <2>2. id \in 1..(bulk.next_stream - 1) /\ ~TopicStream(id) /\ None \notin DOMAIN wire
    BY <2>0, <2>1 DEF StreamInv, IdsInv, None
  <2>3. id # None
    BY <2>2 DEF None
  <2>4. DOMAIN wire' = DOMAIN wire \cup {id} /\ \A y \in DOMAIN wire : y # id => wire'[y] = wire[y]
    BY <2>1, StreamSendFacts
  <2>5. \A lane \in Lanes : outbox.stream[lane] # id
    BY <2>2, <2>3 DEF TopicStream
  <2>6. WireOrder'
    BY <2>1, <2>4, <2>5 DEF LaneInv, WireOrder
  <2> QED  BY <2>1, <2>6 DEF LaneInv, QueueOrder, OwnStreams
<1>4. ASSUME NEW id, Read(id), outbox' = outbox PROVE LaneInv'
  <2>1. ASSUME NEW y \in DOMAIN wire', NEW i \in 1..Len(wire'[y])
        PROVE  /\ y \in DOMAIN wire
               /\ y # id => i \in 1..Len(wire[y]) /\ wire'[y][i] = wire[y][i]
               /\ y = id => i + 1 \in 1..Len(wire[y]) /\ wire'[y][i] = wire[y][i + 1]
    BY <1>4, LeftFacts
  <2>2. ASSUME NEW l \in Lanes, NEW y \in DOMAIN wire', y = outbox.stream[l], NEW i \in 1..Len(wire'[y])
        PROVE  /\ wire'[y][i].kind = l
               /\ \A j \in 1..Len(wire'[y]) : i < j => Follows(wire'[y][i], wire'[y][j])
               /\ \A j \in 1..Len(outbox.lanes[l]) : Follows(wire'[y][i], outbox.lanes[l][j])
    <3>1. CASE y # id
      BY <2>1, <2>2, <3>1 DEF LaneInv, WireOrder
    <3>2. CASE y = id
      <4>1. /\ y \in DOMAIN wire /\ i + 1 \in 1..Len(wire[y]) /\ wire'[y][i] = wire[y][i + 1]
        BY <2>1, <2>2, <3>2
      <4>2. ASSUME NEW j \in 1..Len(wire'[y]), i < j PROVE Follows(wire'[y][i], wire'[y][j])
        <5>1. j + 1 \in 1..Len(wire[y]) /\ wire'[y][j] = wire[y][j + 1] /\ i + 1 < j + 1
          BY <2>1, <2>2, <3>2, <4>2
        <5> QED  BY <2>2, <4>1, <5>1 DEF LaneInv, WireOrder
      <4>3. wire'[y][i].kind = l /\ \A j \in 1..Len(outbox.lanes[l]) : Follows(wire'[y][i], outbox.lanes[l][j])
        BY <2>2, <4>1 DEF LaneInv, WireOrder
      <4> QED  BY <4>2, <4>3
    <3> QED  BY <3>1, <3>2
  <2>3. WireOrder'
    BY <1>4, <2>2 DEF WireOrder
  <2> QED  BY <1>4, <2>3 DEF LaneInv, QueueOrder, OwnStreams
<1>5. ASSUME NEW id, OnTopicStream(id) \/ OnBulkStream(id) PROVE LaneInv'
  BY <1>4, <1>5 DEF OnTopicStream, OnBulkStream
<1>6. CASE Reconnect
  <2>1. DOMAIN wire' = {} /\ \A lane \in Lanes : outbox'.lanes[lane] = <<>> /\ outbox'.stream[lane] = None
    BY <1>6, ReconnectFacts
  <2> QED  BY <2>1 DEF LaneInv, QueueOrder, WireOrder, OwnStreams
<1>7. CASE UNCHANGED <<outbox.lanes, outbox.stream, wire>>
  BY <1>7 DEF LaneInv, QueueOrder, WireOrder, OwnStreams
<1>8. CASE Quiet
  <2>1. UNCHANGED streams
    BY <1>8, QuietFacts
  <2> QED  BY <1>7, <2>1 DEF streams
<1>9. ASSUME NEW o \in Objects, PublishObject(o) PROVE LaneInv'
  <2>1. UNCHANGED <<outbox, wire>>
    BY <1>9 DEF PublishObject, network
  <2> QED  BY <1>7, <2>1
<1> QED  BY <1>1, <1>2, <1>3, <1>5, <1>6, <1>8, <1>9, StepCases

\* What the samples already handed on are ordered by does not change.
LEMMA ChannelStays ==
  ASSUME OrderInv, UNCHANGED <<console.republish, local.topic>>, history.exposed \subseteq history'.exposed
  PROVE  BusOrder' /\ ChannelBehind' /\ ChannelOrder'
<1>1. \A k, v, w : InTurn(k, v, w) => InTurn(k, v, w)'
  BY DEF InTurn
<1>2. BusOrder'
  BY <1>1 DEF OrderInv, BusOrder
<1>3. ChannelBehind'
  BY <1>1 DEF OrderInv, ChannelBehind
<1>4. ChannelOrder'
  BY DEF OrderInv, ChannelOrder, InTurn
<1> QED  BY <1>2, <1>3, <1>4

\* What is on its way becomes less.
LEMMA OrderStays ==
  ASSUME OrderInv, history'.exposed = history.exposed,
         \A lane \in Lanes : \A k, v : OnLane(lane, k, v)' => OnLane(lane, k, v),
         \A k, v : Emitted(k, v)' => Emitted(k, v)
  PROVE  LanesApart' /\ LanesBehind'
<1>1. LanesApart'
  BY DEF OrderInv, LanesApart, Lanes
<1>2. LanesBehind'
  <2>1. ASSUME NEW k, NEW v \in Nat, NEW w \in Nat, NEW lane \in Lanes, Emitted(k, v)', OnLane(lane, k, w)'
        PROVE  InTurn(k, v, w)'
    <3>1. InTurn(k, v, w)
      BY <2>1 DEF OrderInv, LanesBehind
    <3> QED  BY <3>1 DEF InTurn
  <2> QED  BY <2>1 DEF LanesBehind
<1> QED  BY <1>1, <1>2

\* A sample that is queued may overtake only what is exposed to it.
LEMMA OrderQueues ==
  ASSUME Shape, Shape', StreamInv, CaptureInv, OrderInv, SessionOnForward
  PROVE  OrderInv'
<1> DEFINE s == capture[1]
           lane == LaneOf(outbox, s)
<1>0. s = capture[1] /\ lane = LaneOf(outbox, s)
  OBVIOUS
<1> HIDE DEF s, lane
<1>1. /\ s \in CapturedSample /\ lane \in Lanes /\ LaneGrows(lane, s)
      /\ UNCHANGED <<bus, wire, console, local>>
  BY <1>0, QueuesFacts, QueuesGrow
<1>s. s.version \in Nat /\ s.key \in Keys
  BY <1>1 DEF CapturedSample
<1>2. /\ capture # <<>> /\ Head(capture) = s /\ 1 \in 1..Len(capture)
  <2>1. capture # <<>> /\ capture \in Seq(CapturedSample) /\ Len(capture) \in Nat
    BY OrderTypes DEF SessionOnForward
  <2> QED  BY <1>0, <2>1
<1>3. /\ history.exposed \subseteq history'.exposed
      /\ Queued(s) => \A x \in Exposed(s.key, lane) : <<s.key, x, s.version>> \in history'.exposed
  <2> DEFINE more == {s.key} \X Exposed(s.key, lane) \X {s.version}
             queued == IF Queued(s) THEN history.queued \cup {[mode |-> s.mode, name |-> s.key, version |-> s.version]}
                       ELSE history.queued
             exposed == IF Queued(s) THEN history.exposed \cup more ELSE history.exposed
  <2>1. history' = [history EXCEPT !.queued = queued, !.exposed = exposed]
    BY <1>0, <1>2 DEF SessionOnForward, Queued
  <2>2. history \in [queued : {history.queued}, gone : {history.gone}, exposed : {history.exposed}]
    BY DEF Shape
  <2>3. history'.exposed = exposed
    <3> HIDE DEF queued, exposed
    <3> QED  BY <2>1, <2>2
  <2>4. \A x \in Exposed(s.key, lane) : <<s.key, x, s.version>> \in more
    OBVIOUS
  <2> HIDE DEF more
  <2> QED  BY <2>3, <2>4
<1>4. ASSUME NEW l \in Lanes, NEW k, NEW v, OnLane(l, k, v)', ~OnLane(l, k, v)
      PROVE  l = lane /\ k = s.key /\ v = s.version /\ Queued(s)
  <2>1. PICK i \in 1..Len(outbox'.lanes[l]) : outbox'.lanes[l][i].name = k /\ outbox'.lanes[l][i].version = v
    BY <1>1, <1>4 DEF OnLane
  <2>2. ~(i \in 1..Len(outbox.lanes[l]) /\ outbox'.lanes[l][i] = outbox.lanes[l][i])
    BY <1>4, <2>1 DEF OnLane
  <2> QED  BY <1>1, <2>1, <2>2 DEF LaneGrows
<1>5. \A k, v : Emitted(k, v)' <=> Emitted(k, v)
  BY <1>1 DEF Emitted
<1>6. ASSUME Queued(s), NEW v \in Nat, Forwarded(s.key, v) PROVE v < s.version
  BY <1>0, <1>2, <1>6, <1>s DEF CaptureInv, CapturedAhead, Queued
<1>7. ASSUME Queued(s), NEW l \in Lanes, l # lane, NEW v, OnLane(l, s.key, v) PROVE v \in Exposed(s.key, lane)
  <2> DEFINE sets == {Range(outbox.lanes["Small"])} \cup {Range(wire[i]) : i \in DOMAIN wire}
  <2>1. ASSUME NEW S \in sets, NEW u \in S, u.name = s.key, u.kind = l, u.version = v
        PROVE  v \in Exposed(s.key, lane)
    <3>1. u \in UNION sets /\ u.kind \in Lanes \ {lane}
      BY <1>7, <2>1
    <3> QED  BY <2>1, <3>1 DEF Exposed
  <2>2. ASSUME NEW id \in DOMAIN wire, NEW i \in 1..Len(wire[id]),
               wire[id][i].kind = l, wire[id][i].name = s.key, wire[id][i].version = v
        PROVE  v \in Exposed(s.key, lane)
    <3>1. wire[id] \in Seq(SentUnit)
      BY DEF Shape
    <3>2. wire[id][i] \in Range(wire[id])
      BY <3>1 DEF Range
    <3> QED  BY <2>1, <2>2, <3>2
  <2>3. ASSUME NEW i \in 1..Len(outbox.lanes[l]), outbox.lanes[l][i].name = s.key, outbox.lanes[l][i].version = v
        PROVE  v \in Exposed(s.key, lane)
    <3>1. outbox.lanes[l] \in Seq(QueuedUnit) /\ outbox.lanes[l][i].kind = l
      BY DEF Shape, OutboxShape, StreamInv, KindsInv
    <3>2. CASE l = "Small"
      <4>1. outbox.lanes[l][i] \in Range(outbox.lanes["Small"])
        BY <3>1, <3>2 DEF Range
      <4> QED  BY <2>1, <2>3, <3>1, <3>2, <4>1
    <3>3. CASE l = "Large"
      <4>1. LargePending(outbox, s.key)
        BY <2>3, <3>1, <3>3 DEF LargePending
      <4>2. lane = "Large"
        BY <1>0, <4>1 DEF LaneOf
      <4> QED  BY <1>7, <3>3, <4>2
    <3> QED  BY <3>2, <3>3 DEF Lanes
  <2> QED  BY <1>7, <2>2, <2>3 DEF OnLane
<1>8. LanesApart'
  <2>1. ASSUME NEW k, NEW v \in Nat, NEW w \in Nat, OnLane("Small", k, v)', OnLane("Large", k, w)'
        PROVE  /\ v # w
               /\ v < w => <<k, v, w>> \in history'.exposed
               /\ w < v => <<k, w, v>> \in history'.exposed
    <3>l. "Small" \in Lanes /\ "Large" \in Lanes
      BY DEF Lanes
    <3>1. CASE OnLane("Small", k, v) /\ OnLane("Large", k, w)
      BY <1>3, <3>1 DEF OrderInv, LanesApart
    <3>2. CASE OnLane("Small", k, v) /\ ~OnLane("Large", k, w)
      <4>1. lane = "Large" /\ k = s.key /\ w = s.version /\ Queued(s)
        BY <1>4, <2>1, <3>2, <3>l
      <4>2. v \in Exposed(s.key, lane)
        BY <1>7, <3>2, <3>l, <4>1
      <4>3. v < w
        BY <1>6, <3>2, <3>l, <4>1 DEF Forwarded
      <4>4. <<k, v, w>> \in history'.exposed
        BY <1>3, <4>1, <4>2
      <4> QED  BY <4>3, <4>4
    <3>3. CASE ~OnLane("Small", k, v) /\ OnLane("Large", k, w)
      <4>1. lane = "Small" /\ k = s.key /\ v = s.version /\ Queued(s)
        BY <1>4, <2>1, <3>3, <3>l
      <4>2. w \in Exposed(s.key, lane)
        BY <1>7, <3>3, <3>l, <4>1
      <4>3. w < v
        BY <1>6, <3>3, <3>l, <4>1 DEF Forwarded
      <4>4. <<k, w, v>> \in history'.exposed
        BY <1>3, <4>1, <4>2
      <4> QED  BY <4>3, <4>4
    <3>4. CASE ~OnLane("Small", k, v) /\ ~OnLane("Large", k, w)
      BY <1>4, <2>1, <3>4, <3>l
    <3> QED  BY <3>1, <3>2, <3>3, <3>4
  <2> QED  BY <2>1 DEF LanesApart
<1>9. LanesBehind'
  <2>1. ASSUME NEW k, NEW v \in Nat, NEW w \in Nat, NEW l \in Lanes, Emitted(k, v)', OnLane(l, k, w)'
        PROVE  InTurn(k, v, w)'
    <3>1. CASE OnLane(l, k, w)
      <4>1. InTurn(k, v, w)
        BY <1>5, <2>1, <3>1 DEF OrderInv, LanesBehind
      <4> QED  BY <1>3, <4>1 DEF InTurn
    <3>2. CASE ~OnLane(l, k, w)
      <4>1. k = s.key /\ w = s.version /\ Queued(s)
        BY <1>4, <2>1, <3>2
      <4>2. Forwarded(s.key, v)
        BY <1>5, <2>1, <4>1 DEF Forwarded
      <4>3. v < w
        BY <1>6, <4>1, <4>2
      <4> QED  BY <4>3 DEF InTurn
    <3> QED  BY <3>1, <3>2
  <2> QED  BY <2>1 DEF LanesBehind
<1>10. BusOrder' /\ ChannelBehind' /\ ChannelOrder'
  BY <1>1, <1>3, ChannelStays
<1> QED  BY <1>8, <1>9, <1>10 DEF OrderInv

\* The first unit on a lane's wire comes before all that follow it there and all that are queued.
LEMMA FirstOfLane ==
  ASSUME LaneInv, NEW lane \in Lanes, NEW id \in DOMAIN wire, id = outbox.stream[lane], 1 \in 1..Len(wire[id])
  PROVE  /\ \A j \in 1..Len(outbox.lanes[lane]) : Follows(wire[id][1], outbox.lanes[lane][j])
         /\ \A m \in 1..Len(wire[id]) : 1 < m => Follows(wire[id][1], wire[id][m])
BY DEF LaneInv, WireOrder

\* A sample that is handed on is in turn with all that has been and all that will be.
LEMMA OrderEmits ==
  ASSUME Shape, StreamInv, LaneInv, OrderInv, NEW id, OnTopicStream(id)
  PROVE  OrderInv'
<1> DEFINE unit == wire[id][1]
           s == Sample("Reliable", unit)
           l == unit.kind
<1>0. unit = wire[id][1] /\ s = Sample("Reliable", unit) /\ l = unit.kind
  OBVIOUS
<1> HIDE DEF unit, s, l
<1>1. /\ Read(id) /\ unit \in SentUnit /\ UNCHANGED <<outbox, local, history.exposed>>
  BY <1>0, ReadsTopicFacts
<1>w. id \in DOMAIN wire /\ 1 \in 1..Len(wire[id])
  BY <1>1, ReadFacts, OrderTypes
<1>s. s \in RepublishedSample /\ s.name = unit.name /\ s.version = unit.version /\ unit.version \in Nat
  BY <1>0, <1>1 DEF SentUnit, Sample, RepublishedSample
<1>2. \A lane \in Lanes : \A k, v : OnLane(lane, k, v)' => OnLane(lane, k, v)
  BY <1>1, ReadOnLane
<1> DEFINE Completed == unit.last /\ l # "Object"
<1>3. ASSUME NEW k, NEW v, Emitted(k, v)', ~Emitted(k, v) PROVE Completed /\ k = unit.name /\ v = unit.version
  BY <1>0, <1>3, EmittedTopic
<1>4. Completed => l \in Lanes /\ OnLane(l, unit.name, unit.version)
  <2>1. ASSUME Completed PROVE l \in Lanes
    BY <1>0, <1>1, <2>1 DEF SentUnit
  <2> QED  BY <1>0, <1>w, <2>1 DEF OnLane
<1>5. LanesApart'
  BY <1>1, <1>2 DEF OrderInv, LanesApart, Lanes
<1>6. ASSUME Completed, NEW k, k = unit.name, NEW lane \in Lanes, lane = l, NEW w \in Nat, OnLane(lane, k, w)'
      PROVE  unit.version < w
  <2>1. id \in DOMAIN wire /\ id = outbox.stream[lane]
    BY <1>0, <1>4, <1>6, <1>w, WireOfLane
  <2>2. \A j \in 1..Len(outbox.lanes[lane]) : Follows(unit, outbox.lanes[lane][j])
    BY <1>0, <1>w, <2>1, FirstOfLane
  <2>3. \A m \in 1..Len(wire[id]) : 1 < m => Follows(unit, wire[id][m])
    BY <1>0, <1>w, <2>1, FirstOfLane
  <2>4. ASSUME NEW j \in 1..Len(outbox.lanes[lane]), outbox.lanes[lane][j].name = k,
               outbox.lanes[lane][j].version = w
        PROVE  unit.version < w
    <3>1. Follows(unit, outbox.lanes[lane][j])
      BY <2>2, <2>4
    <3> QED  BY <1>6, <2>4, <3>1 DEF Follows
  <2>5. ASSUME NEW y \in DOMAIN wire', NEW i \in 1..Len(wire'[y]),
               wire'[y][i].kind = lane, wire'[y][i].name = k, wire'[y][i].version = w
        PROVE  unit.version < w
    <3>1. /\ y \in DOMAIN wire
          /\ y # id => i \in 1..Len(wire[y]) /\ wire'[y][i] = wire[y][i]
          /\ y = id => i + 1 \in 2..Len(wire[y]) /\ wire'[y][i] = wire[y][i + 1]
      BY <1>1, LeftFacts
    <3>2. y = id
      BY <2>1, <2>5, <3>1, WireOfLane
    <3>3. i + 1 \in 1..Len(wire[id]) /\ 1 < i + 1 /\ wire'[y][i] = wire[id][i + 1]
      BY <3>1, <3>2
    <3>4. Follows(unit, wire[id][i + 1])
      BY <2>3, <3>3
    <3> QED  BY <1>6, <2>5, <3>3, <3>4 DEF Follows
  <2> QED  BY <1>1, <1>6, <2>4, <2>5 DEF OnLane
<1>7. LanesBehind'
  <2>1. ASSUME NEW k, NEW v \in Nat, NEW w \in Nat, NEW lane \in Lanes, Emitted(k, v)', OnLane(lane, k, w)'
        PROVE  InTurn(k, v, w)'
    <3>1. OnLane(lane, k, w)
      BY <1>2, <2>1
    <3>2. CASE Emitted(k, v)
      <4>1. InTurn(k, v, w)
        BY <2>1, <3>1, <3>2 DEF OrderInv, LanesBehind
      <4> QED  BY <1>1, <4>1 DEF InTurn
    <3>3. CASE ~Emitted(k, v)
      <4>1. Completed /\ k = unit.name /\ v = unit.version /\ l \in Lanes /\ OnLane(l, k, v)
        BY <1>3, <1>4, <2>1, <3>3
      <4>2. CASE lane = l
        <5>1. v < w
          BY <1>6, <2>1, <4>1, <4>2
        <5> QED  BY <5>1 DEF InTurn
      <4>3. CASE lane # l
        <5>0. \/ lane = "Small" /\ OnLane("Small", k, w) /\ OnLane("Large", k, v)
              \/ lane = "Large" /\ OnLane("Large", k, w) /\ OnLane("Small", k, v)
          BY <2>1, <3>1, <4>1, <4>3 DEF Lanes
        <5>1. v # w /\ (w < v => <<k, w, v>> \in history.exposed)
          BY <2>1, <5>0 DEF OrderInv, LanesApart
        <5>2. v < w \/ w < v
          BY <2>1, <5>1
        <5> QED  BY <1>1, <5>1, <5>2 DEF InTurn
      <4> QED  BY <4>2, <4>3
    <3> QED  BY <3>2, <3>3
  <2> QED  BY <2>1 DEF LanesBehind
<1>8. ASSUME Completed PROVE ChannelGrows(s)
  <2> DEFINE r == console.republish
  <2>1. r = console.republish /\ r \in Seq(RepublishedSample)
    BY DEF Shape, ConsoleShape
  <2>2. console'.republish = r \/ console'.republish = r \o <<>> \/ console'.republish = r \o <<s>>
    BY <1>0, ReadsTopicFacts
  <2> HIDE DEF r
  <2> QED  BY <1>s, <2>1, <2>2, RepublishGrows
<1>9. ASSUME ~Completed PROVE UNCHANGED console.republish
  <2>1. console.republish \o <<>> = console.republish
    BY DEF Shape, ConsoleShape
  <2>2. console'.republish = console.republish \/ console'.republish = console.republish \o <<>>
    BY <1>0, <1>9, ReadsTopicFacts
  <2> QED  BY <2>1, <2>2
<1>10. CASE Completed
  <2>1. l \in Lanes /\ OnLane(l, unit.name, unit.version) /\ ChannelGrows(s)
    BY <1>4, <1>8, <1>10
  <2>2. BusOrder'
    BY <1>1 DEF OrderInv, BusOrder, InTurn
  <2>3. ASSUME NEW v \in Nat, Emitted(unit.name, v) PROVE InTurn(unit.name, v, unit.version)
    BY <1>s, <2>1, <2>3 DEF OrderInv, LanesBehind
  <2>4. ASSUME NEW k \in Keys, NEW i \in 1..Len(local.topic[k]), NEW j \in 1..Len(console'.republish),
               console'.republish[j].mode = "Reliable", console'.republish[j].name = k
        PROVE  InTurn(k, local.topic[k][i], console'.republish[j].version)
    <3>1. CASE j \in 1..Len(console.republish) /\ console'.republish[j] = console.republish[j]
      BY <2>4, <3>1 DEF OrderInv, ChannelBehind
    <3>2. CASE console'.republish[j] = s
      <4>1. Emitted(k, local.topic[k][i]) /\ local.topic[k][i] \in Nat
        BY OrderTypes DEF Emitted
      <4> QED  BY <1>s, <2>3, <2>4, <3>2, <4>1
    <3> QED  BY <2>1, <3>1, <3>2 DEF ChannelGrows
  <2>5. ChannelBehind'
    BY <1>1, <2>4 DEF ChannelBehind, InTurn
  <2>6. ASSUME NEW i \in 1..Len(console'.republish), NEW j \in 1..Len(console'.republish), i < j,
               console'.republish[i].mode = "Reliable", console'.republish[j].mode = "Reliable",
               console'.republish[i].name = console'.republish[j].name
        PROVE  InTurn(console'.republish[i].name, console'.republish[i].version, console'.republish[j].version)
    <3>0. i # Len(console'.republish)
      <4>1. Len(console'.republish) \in Nat
        BY <2>6
      <4> QED  BY <2>6, <4>1
    <3>1. i \in 1..Len(console.republish) /\ console'.republish[i] = console.republish[i]
      BY <2>1, <3>0 DEF ChannelGrows
    <3>2. CASE j \in 1..Len(console.republish) /\ console'.republish[j] = console.republish[j]
      BY <2>6, <3>1, <3>2 DEF OrderInv, ChannelOrder
    <3>3. CASE console'.republish[j] = s
      <4>1. /\ console.republish[i].name = unit.name /\ Emitted(unit.name, console.republish[i].version)
            /\ console.republish[i].version \in Nat
        BY <1>s, <2>6, <3>1, <3>3, OrderTypes DEF Emitted
      <4> QED  BY <1>s, <2>3, <3>1, <3>3, <4>1
    <3> QED  BY <2>1, <3>2, <3>3 DEF ChannelGrows
  <2>7. ChannelOrder'
    BY <1>1, <2>6 DEF ChannelOrder, InTurn
  <2> QED  BY <1>5, <1>7, <2>2, <2>5, <2>7 DEF OrderInv
<1>11. CASE ~Completed
  <2>1. BusOrder' /\ ChannelBehind' /\ ChannelOrder'
    BY <1>1, <1>9, <1>11, ChannelStays
  <2> QED  BY <1>5, <1>7, <2>1 DEF OrderInv
<1> QED  BY <1>10, <1>11

\* The console's bus takes the samples as they were handed on.
LEMMA OrderPuts ==
  ASSUME Shape, Shape', OrderInv, PutSample
  PROVE  OrderInv'
<1> DEFINE s == console.republish[1]
           r == console.republish
<1>0. s = r[1] /\ r = console.republish
  OBVIOUS
<1> HIDE DEF s, r
<1>1. /\ 1 \in 1..Len(r) /\ BusGrows(s) /\ UNCHANGED <<outbox, wire, history>>
      /\ \A j \in 1..Len(console'.republish) : j + 1 \in 2..Len(r) /\ console'.republish[j] = r[j + 1]
  BY <1>0, PutFacts
<1>2. LanesApart' /\ LanesBehind'
  <2>1. \A lane \in Lanes : \A k, v : OnLane(lane, k, v)' => OnLane(lane, k, v)
    BY <1>1 DEF OnLane
  <2>2. \A k, v : Emitted(k, v)' => Emitted(k, v)
    BY EmittedPut
  <2> QED  BY <1>1, <2>1, <2>2, OrderStays
<1>3. \A j \in 1..Len(console'.republish) :
        j + 1 \in 1..Len(r) /\ 1 < j + 1 /\ console'.republish[j] = r[j + 1]
  BY <1>1
<1>4. ASSUME NEW k \in Keys, NEW i \in 1..Len(local'.topic[k]), NEW j \in 1..Len(local'.topic[k]), i < j
      PROVE  InTurn(k, local'.topic[k][i], local'.topic[k][j])
  <2>1. i # Len(local'.topic[k])
    <3>1. local'.topic[k] \in Seq(Nat)
      BY DEF Shape
    <3> QED  BY <1>4, <3>1
  <2>2. i \in 1..Len(local.topic[k]) /\ local'.topic[k][i] = local.topic[k][i]
    BY <1>1, <2>1 DEF BusGrows
  <2>3. CASE j \in 1..Len(local.topic[k]) /\ local'.topic[k][j] = local.topic[k][j]
    BY <1>4, <2>2, <2>3 DEF OrderInv, BusOrder
  <2>4. CASE s.mode = "Reliable" /\ s.name = k /\ local'.topic[k][j] = s.version
    BY <1>0, <1>1, <2>2, <2>4 DEF OrderInv, ChannelBehind
  <2> QED  BY <1>1, <2>3, <2>4 DEF BusGrows
<1>5. BusOrder'
  BY <1>1, <1>4 DEF BusOrder, InTurn
<1>6. ASSUME NEW k \in Keys, NEW i \in 1..Len(local'.topic[k]), NEW j \in 1..Len(console'.republish),
             console'.republish[j].mode = "Reliable", console'.republish[j].name = k
      PROVE  InTurn(k, local'.topic[k][i], console'.republish[j].version)
  <2>1. j + 1 \in 1..Len(r) /\ 1 < j + 1 /\ console'.republish[j] = r[j + 1]
    BY <1>3
  <2>2. CASE i \in 1..Len(local.topic[k]) /\ local'.topic[k][i] = local.topic[k][i]
    BY <1>0, <1>6, <2>1, <2>2 DEF OrderInv, ChannelBehind
  <2>3. CASE s.mode = "Reliable" /\ s.name = k /\ local'.topic[k][i] = s.version
    BY <1>0, <1>1, <1>6, <2>1, <2>3 DEF OrderInv, ChannelOrder
  <2> QED  BY <1>1, <2>2, <2>3 DEF BusGrows
<1>7. ChannelBehind'
  BY <1>1, <1>6 DEF ChannelBehind, InTurn
<1>8. ASSUME NEW i \in 1..Len(console'.republish), NEW j \in 1..Len(console'.republish), i < j,
             console'.republish[i].mode = "Reliable", console'.republish[j].mode = "Reliable",
             console'.republish[i].name = console'.republish[j].name
      PROVE  InTurn(console'.republish[i].name, console'.republish[i].version, console'.republish[j].version)
  <2>1. /\ i + 1 \in 1..Len(r) /\ console'.republish[i] = r[i + 1]
        /\ j + 1 \in 1..Len(r) /\ console'.republish[j] = r[j + 1] /\ i + 1 < j + 1
    BY <1>3, <1>8
  <2> QED  BY <1>0, <1>8, <2>1 DEF OrderInv, ChannelOrder
<1>9. ChannelOrder'
  BY <1>1, <1>8 DEF ChannelOrder, InTurn
<1> QED  BY <1>2, <1>5, <1>7, <1>9 DEF OrderInv

\* Every step keeps in turn, or exposed to overtaking, what the lanes and the console hold of a key.
LEMMA NextOrderInv == Shape /\ Shape' /\ StreamInv /\ CaptureInv /\ LaneInv /\ OrderInv /\ [Next]_vars => OrderInv'
<1> SUFFICES ASSUME Shape, Shape', StreamInv, CaptureInv, LaneInv, OrderInv, [Next]_vars PROVE OrderInv'
  OBVIOUS
<1>a. ASSUME \A lane \in Lanes : \A k, v : OnLane(lane, k, v)' => OnLane(lane, k, v),
             UNCHANGED <<console.republish, local.topic, history.exposed>>
      PROVE  OrderInv'
  <2>1. \A k, v : Emitted(k, v)' => Emitted(k, v)
    BY <1>a DEF Emitted
  <2>2. LanesApart' /\ LanesBehind'
    BY <1>a, <2>1, OrderStays
  <2>3. BusOrder' /\ ChannelBehind' /\ ChannelOrder'
    BY <1>a, ChannelStays
  <2> QED  BY <2>2, <2>3 DEF OrderInv
<1>1. CASE Calm
  <2>1. UNCHANGED ordered
    BY <1>1, CalmFacts
  <2>2. \A lane \in Lanes : \A k, v : OnLane(lane, k, v)' => OnLane(lane, k, v)
    BY <2>1 DEF ordered, OnLane
  <2> QED  BY <1>a, <2>1, <2>2 DEF ordered
<1>2. ASSUME NEW k \in Keys, PublishLatest(k) \/ \E size \in {1, LargeUnits} : PublishReliable(k, size)
      PROVE  OrderInv'
  <2>1. UNCHANGED <<outbox, wire, console, local, history>>
    BY <1>2, PublishFacts
  <2>2. \A lane \in Lanes : \A j, v : OnLane(lane, j, v)' => OnLane(lane, j, v)
    BY <2>1 DEF OnLane
  <2> QED  BY <1>a, <2>1, <2>2
<1>3. CASE SessionOnForward
  BY <1>3, OrderQueues
<1>4. ASSUME NEW lane \in Lanes, PumpTopics(lane) PROVE OrderInv'
  <2>1. UNCHANGED <<console, local, history>>
    BY <1>4 DEF PumpTopics, receiver
  <2>2. \A l \in Lanes : \A k, v : OnLane(l, k, v)' => OnLane(l, k, v)
    BY <1>4, TopicsOnLane
  <2> QED  BY <1>a, <2>1, <2>2
<1>5. ASSUME NEW o \in Objects, PumpBulk(o) PROVE OrderInv'
  <2>1. UNCHANGED <<console, local, history>>
    BY <1>5 DEF PumpBulk, receiver
  <2>2. \A l \in Lanes : \A k, v : OnLane(l, k, v)' => OnLane(l, k, v)
    BY <1>5, BulkOnLane
  <2> QED  BY <1>a, <2>1, <2>2
<1>6. ASSUME NEW id, OnTopicStream(id) PROVE OrderInv'
  BY <1>6, OrderEmits
<1>7. ASSUME NEW id, OnBulkStream(id) PROVE OrderInv'
  <2> DEFINE unit == wire[id][1]
  <2>0. unit = wire[id][1]
    OBVIOUS
  <2> HIDE DEF unit
  <2>1. Read(id) /\ UNCHANGED <<outbox, console.republish, local.topic, history>>
    BY <1>7, <2>0, ReadsBulkFacts
  <2>2. \A l \in Lanes : \A k, v : OnLane(l, k, v)' => OnLane(l, k, v)
    BY <2>1, ReadOnLane
  <2> QED  BY <1>a, <2>1, <2>2
<1>8. CASE PutSample
  BY <1>8, OrderPuts
<1>9. ASSUME NEW d \in datagrams, OnTopicDatagram(d) PROVE OrderInv'
  <2>1. PICK s \in RepublishedSample : s.mode = "Latest" /\ ChannelGrows(s)
    BY <1>9, DatagramGrows
  <2>2. UNCHANGED <<outbox, wire, local>>
    BY <1>9 DEF OnTopicDatagram
  <2>3. history'.exposed = history.exposed
    BY <1>9 DEF OnTopicDatagram, Republish, Shape
  <2>4. \A j \in 1..Len(console'.republish) : console'.republish[j].mode = "Reliable" =>
          j \in 1..Len(console.republish) /\ console'.republish[j] = console.republish[j]
    BY <2>1 DEF ChannelGrows
  <2>5. LanesApart' /\ LanesBehind'
    <3>1. \A lane \in Lanes : \A k, v : OnLane(lane, k, v)' => OnLane(lane, k, v)
      BY <2>2 DEF OnLane
    <3>2. \A k, v : Emitted(k, v)' => Emitted(k, v)
      BY <1>9, EmittedDatagram
    <3> QED  BY <2>3, <3>1, <3>2, OrderStays
  <2>6. BusOrder'
    BY <2>2, <2>3 DEF OrderInv, BusOrder, InTurn
  <2>7. ChannelBehind'
    BY <2>2, <2>3, <2>4 DEF OrderInv, ChannelBehind, InTurn
  <2>8. ChannelOrder'
    BY <2>3, <2>4 DEF OrderInv, ChannelOrder, InTurn
  <2> QED  BY <2>5, <2>6, <2>7, <2>8 DEF OrderInv
<1>10. CASE Reconnect
  <2>1. /\ DOMAIN wire' = {} /\ \A lane \in Lanes : outbox'.lanes[lane] = <<>>
        /\ UNCHANGED <<console.republish, local.topic, history.exposed>>
    BY <1>10, ReconnectFacts
  <2>2. \A lane \in Lanes : \A k, v : OnLane(lane, k, v)' => OnLane(lane, k, v)
    BY <2>1 DEF OnLane
  <2> QED  BY <1>a, <2>1, <2>2
<1> QED  BY <1>1, <1>2, <1>3, <1>4, <1>5, <1>6, <1>7, <1>8, <1>9, <1>10, OrderCases

\* Nothing is out of order at the start.
LEMMA InitOrder == Init => CaptureInv /\ LaneInv /\ OrderInv
<1> SUFFICES ASSUME Init PROVE CaptureInv /\ LaneInv /\ OrderInv
  OBVIOUS
<1>1. /\ capture = <<>> /\ DOMAIN wire = {}
      /\ \A lane \in Lanes : outbox.lanes[lane] = <<>> /\ outbox.stream[lane] = None
  BY NewFacts DEF Init
<1>2. console.republish = <<>> /\ \A k \in Keys : local.topic[k] = <<>>
  BY DEF Init, NewReceiver
<1>3. \A k, v : ~Emitted(k, v) /\ \A lane \in Lanes : ~OnLane(lane, k, v)
  BY <1>1, <1>2 DEF Emitted, OnLane
<1>4. CaptureInv
  BY <1>1, <1>3 DEF CaptureInv, CapturedAhead, CapturedInOrder, PublishedAhead, Forwarded
<1>5. LaneInv
  BY <1>1 DEF LaneInv, QueueOrder, WireOrder, OwnStreams
<1>6. OrderInv
  <2>1. LanesApart /\ LanesBehind
    BY <1>3 DEF LanesApart, LanesBehind, Lanes
  <2>2. BusOrder /\ ChannelBehind
    BY <1>2 DEF BusOrder, ChannelBehind
  <2>3. ChannelOrder
    BY <1>2 DEF ChannelOrder
  <2> QED  BY <2>1, <2>2, <2>3 DEF OrderInv
<1> QED  BY <1>4, <1>5, <1>6

\* TopicOutbox and TopicStreamReader: the reliable samples of a key come out of the console's
\* bus in the order they were published, but for those the two lanes let overtake: an earlier one
\* the console had not read to its end when the later one was queued.
THEOREM SamplesStayInOrder == Spec => []InOrderUnlessExposed
<1> DEFINE Order == CaptureInv /\ LaneInv /\ OrderInv
<1>1. Init => Order
  BY InitOrder
<1>2. Inv /\ Inv' /\ Order /\ [Next]_vars => Order'
  <2>1. Inv => Shape /\ StreamInv
    BY DEF Inv
  <2>2. Inv' => Shape'
    BY DEF Inv
  <2> QED  BY <2>1, <2>2, NextCaptureInv, NextLaneInv, NextOrderInv
<1>3. Inv /\ Order => InOrderUnlessExposed
  <2> SUFFICES ASSUME Inv, Order PROVE InOrderUnlessExposed
    OBVIOUS
  <2>1. ASSUME NEW k \in Keys, NEW i \in DOMAIN local.topic[k], NEW j \in DOMAIN local.topic[k], i < j
        PROVE  \/ local.topic[k][i] < local.topic[k][j]
               \/ <<k, local.topic[k][j], local.topic[k][i]>> \in history.exposed
    <3>1. local.topic[k] \in Seq(Nat)
      BY DEF Inv, Shape
    <3>2. DOMAIN local.topic[k] = 1..Len(local.topic[k])
      BY <3>1
    <3>3. InTurn(k, local.topic[k][i], local.topic[k][j])
      BY <2>1, <3>2 DEF OrderInv, BusOrder
    <3> QED  BY <3>3 DEF InTurn
  <2> QED  BY <2>1 DEF InOrderUnlessExposed
<1> HIDE DEF Order
<1> QED  BY <1>1, <1>2, <1>3, DataStreamsInvariant, PTL DEF Spec
=============================================================================

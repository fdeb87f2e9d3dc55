--------------------------- MODULE MediaPathProofs ---------------------------
(***************************************************************************)
(* What the path of video and sensor frames guarantees for every workload, *)
(* every set of sensors and every bound: the classes of lossy datagrams    *)
(* take turns, a sensor's frame is sent whole under Finish, a NAL is put   *)
(* together only from its own chunks, an IDR keeps its parameter sets, the *)
(* buffers stay within their bounds, what the console shows of a sensor    *)
(* implements LatestWins and was measured, and the picture freezes but     *)
(* never smears.                                                           *)
(***************************************************************************)
EXTENDS MediaPath, FiniteSetTheorems, InductionFacts

-----------------------------------------------------------------------------
(* The invariant.                                                          *)

IsSeq(q) == q \in Seq({q[i] : i \in 1..Len(q)})

LoadShape ==
  /\ load \in [gop : Seq(NalType) \ {<<>>}, nals : Nat, backend : {"ffplay", "native"}, restarts : BOOLEAN,
               fitted : SUBSET Sensors, frames : Nat, policy : {"Cut", "Finish"}, drops : Nat,
               session : Nat, operating : BOOLEAN]
  /\ source.gop \in 1..Len(load.gop) /\ StartsAfresh(load.gop)

SourceShape ==
  source \in [next_nal_id : Nat, gop : Nat, picture : Nat \cup {NoId}, critical : Seq(Nal),
              latest_delta : Seq(Nal), frame_seq : [Sensors -> Nat], slots : [Sensors -> Nat \cup {NoId}]]

Chunk == [nal : Nal, index : Nat, is_last : BOOLEAN]
SensorQueueShape(sq) ==
  /\ sq \in [current : {sq.current}, started : BOOLEAN, waiting : {sq.waiting}]
  /\ IsSeq(sq.current) /\ IsSeq(sq.waiting)

PendingNal == [nal : Nal, chunks : Seq(Chunk) \ {<<>>}]

QueueShape(q) ==
  /\ q \in [video : Seq(PendingNal), skip_deltas_until_idr : BOOLEAN, video_turn : BOOLEAN,
            sensors : {q.sensors}, last_sensor : {q.last_sensor}]
  /\ DOMAIN q.sensors = Sensors
  /\ \A s \in Sensors : SensorQueueShape(q.sensors[s])

\* The chunks of a NAL that have arrived, by place.
EntryShape(entry) ==
  /\ entry \in [parts : {entry.parts}, total : Nat \cup {NoId}]
  /\ DOMAIN entry.parts \subseteq Nat
  /\ \A k \in DOMAIN entry.parts : entry.parts[k] \in Nal

ReceiverShape ==
  /\ chunks \subseteq Chunk
  /\ DOMAIN video_rx \subseteq Nat /\ \A id \in DOMAIN video_rx : EntryShape(video_rx[id])
  /\ gate \in [next_id : Nat \cup {NoId}, frozen : BOOLEAN]
  /\ playback \in [critical : Seq(Nal), slot : Seq(Nal), ready : BOOLEAN, taking : BOOLEAN, taken : Seq(Nal)]

AssemblerShape ==
  /\ DOMAIN sensors = Sensors
  /\ \A s \in Sensors : sensors[s] \in [pending : {sensors[s].pending}, last_emitted : Int]

HistoryShape ==
  history \in [slipped : {history.slipped}, torn : SUBSET Nat, carried : SUBSET Nat, passed_over : {-1, 0, 1}]

Shape == LoadShape /\ SourceShape /\ QueueShape(queue) /\ ReceiverShape /\ AssemblerShape /\ HistoryShape

\* Which class goes next, when one has been passed over.
TurnInv == /\ history.passed_over = 1 => ~queue.video_turn
           /\ history.passed_over = -1 => queue.video_turn

\* What sensor s measured in frame seq, as the payloads of its slices.
Payloads(s, seq) == Interleave(Encode(Kind[s], Measurement(s, seq)))

\* A slice is of a frame its sensor has rendered in this session, and carries its part of it.
SliceOf(d, s, rendered) ==
  /\ s \in Selected /\ d.sensor_id = s /\ d.frame_seq \in 0..(rendered[s] - 1)
  /\ d.slice_count = Size(Payloads(s, d.frame_seq)) /\ d.slice_index \in DOMAIN Payloads(s, d.frame_seq)
  /\ d.payload = Payloads(s, d.frame_seq)[d.slice_index]

SlicesOf(sq, s, rendered) ==
  /\ \A i \in 1..Len(sq.current) : SliceOf(sq.current[i], s, rendered)
  /\ \A i \in 1..Len(sq.waiting) : SliceOf(sq.waiting[i], s, rendered)

SliceInv ==
  /\ \A s \in Sensors : source.slots[s] < source.frame_seq[s]
  /\ \A s \in Sensors : SlicesOf(queue.sensors[s], s, source.frame_seq)
  /\ \A d \in slices : SliceOf(d, d.sensor_id, source.frame_seq)

\* An assembler keeps only frames newer than the last it released, and of this session.
AssemblerInv ==
  \A s \in Sensors :
    /\ sensors[s].last_emitted \in -1..(source.frame_seq[s] - 1)
    /\ \A p \in DOMAIN sensors[s].pending : p \in (sensors[s].last_emitted + 1)..(source.frame_seq[s] - 1)

PendingBound ==
  /\ IsFiniteSet(DOMAIN video_rx) /\ Cardinality(DOMAIN video_rx) <= MaxPendingNals
  /\ \A s \in Sensors : Cardinality(DOMAIN sensors[s].pending) <= MaxPendingFrames

Parts(nal) == IF nal.type = "IDR" THEN IdrChunks ELSE 1

\* A chunk says where it goes in its NAL, and whether it is the last of it.
ChunkOf(c) == c.index < Parts(c.nal) /\ (c.is_last <=> c.index = Parts(c.nal) - 1)

ChunksOf(q) == \A i \in 1..Len(q.video) : \A j \in 1..Len(q.video[i].chunks) :
                 ChunkOf(q.video[i].chunks[j]) /\ q.video[i].chunks[j].nal = q.video[i].nal

ChunkInv == ChunksOf(queue) /\ \A c \in chunks : ChunkOf(c)

NalsOf(q) == {q.video[i].nal : i \in 1..Len(q.video)}

\* The NALs of this session that have not been put together yet, wherever they are.
PartsOfPending == UNION {{video_rx[id].parts[k] : k \in DOMAIN video_rx[id].parts} : id \in DOMAIN video_rx}

Held ==
  {source.critical[i] : i \in 1..Len(source.critical)}
    \cup {source.latest_delta[i] : i \in 1..Len(source.latest_delta)}
    \cup NalsOf(queue)
    \cup {c.nal : c \in chunks}
    \cup {m \in PartsOfPending : m.session = load.session}

\* They are of this session, and no two of them share an id.
HeldInv ==
  /\ \A m \in Held : m.session = load.session /\ m.id < source.next_nal_id
  /\ \A m, n \in Held : m.id = n.id => m = n

\* A delta is coded from the picture right before it, and so never follows a parameter set.
NotDelta(n) ==
  /\ \A m \in Held : m.id = n => m.type # "P"
  /\ source.next_nal_id = n => load.gop[source.gop] # "P"

StreamInv ==
  /\ load.gop[source.gop] = "P" => source.picture = source.next_nal_id - 1
  /\ \A m \in Held : m.type = "P" => m.from = m.id - 1
  /\ \A m \in Held : m.type \in ParameterSet => NotDelta(m.id + 1)

\* What is known of a NAL that is not complete: it has chunks, but not all; its chunks are of this
\* session unless its id was carried over; and if they all are, its total is right.
EntryOf(entry, id, session, carried) ==
  /\ DOMAIN entry.parts # {} /\ ~Whole(entry)
  /\ \A k \in DOMAIN entry.parts :
       /\ entry.parts[k].id = id /\ entry.parts[k].session <= session /\ k < Parts(entry.parts[k])
       /\ id \notin carried => entry.parts[k].session = session
  /\ (\A k \in DOMAIN entry.parts : entry.parts[k].session = session) =>
       \A k \in DOMAIN entry.parts :
         /\ entry.total \in {NoId, Parts(entry.parts[k])}
         /\ Parts(entry.parts[k]) - 1 \in DOMAIN entry.parts => entry.total = Parts(entry.parts[k])

ReassemblyInv ==
  /\ \A id \in DOMAIN video_rx : EntryOf(video_rx[id], id, load.session, history.carried)
  /\ history.torn \subseteq history.carried

\* A frame, assembled or not yet, has only slices its sensor made of what it measured.
FrameOf(frame, s, seq) ==
  /\ frame = [frame_seq |-> seq, slice_count |-> Size(Payloads(s, seq)), slices |-> frame.slices] /\ seq \in Nat
  /\ DOMAIN frame.slices \subseteq DOMAIN Payloads(s, seq)
  /\ \A k \in DOMAIN frame.slices : frame.slices[k] = Payloads(s, seq)[k]

PendingOf(asm, s) == \A p \in DOMAIN asm.pending : FrameOf(asm.pending[p], s, p)
ReadyOf(ready, s) == \A n \in DOMAIN ready : FrameOf(ready[n], s, ready[n].frame_seq)

\* So has every frame an assembler keeps, and every frame on the display.
MeasuredInv ==
  DOMAIN display = Sensors /\ \A s \in Sensors : PendingOf(sensors[s], s) /\ ReadyOf(display[s], s)

Inv == /\ Shape /\ TurnInv /\ SliceInv /\ AssemblerInv /\ PendingBound /\ ChunkInv /\ HeldInv /\ StreamInv
       /\ ReassemblyInv

-----------------------------------------------------------------------------
(* The operators of the model.                                             *)

\* A set of numbers has its least member.
LEMMA LeastFacts ==
  ASSUME NEW S, S \subseteq Nat, S # {}
  PROVE  Least(S) \in S /\ \A y \in S : Least(S) <= y
BY LeastNatural DEF Least

\* A sequence without its head, and one member of it.
LEMMA TailSeq ==
  ASSUME NEW q, IsSeq(q), q # <<>>
  PROVE  /\ IsSeq(Tail(q)) /\ Len(Tail(q)) = Len(q) - 1 /\ Len(q) \in Nat /\ 1 \in 1..Len(q)
         /\ \A i \in 1..Len(Tail(q)) : i + 1 \in 1..Len(q) /\ Tail(q)[i] = q[i + 1]
         /\ Head(q) = q[1]
<1> DEFINE S == {q[i] : i \in 1..Len(q)}
<1>1. q \in Seq(S)
  BY DEF IsSeq
<1> HIDE DEF S
<1>2. /\ Len(Tail(q)) = Len(q) - 1 /\ Len(q) \in Nat \ {0}
      /\ \A i \in 1..Len(Tail(q)) : i + 1 \in 1..Len(q) /\ Tail(q)[i] = q[i + 1]
      /\ Head(q) = q[1] /\ Tail(q) \in Seq(S)
  BY <1>1
<1> DEFINE t == Tail(q)
           T == {t[i] : i \in 1..Len(t)}
<1>a. t \in Seq(S)
  BY <1>2
<1> HIDE DEF t
<1>3. t = [i \in 1..Len(t) |-> t[i]] /\ Len(t) \in Nat
  BY <1>a
<1>4. [i \in 1..Len(t) |-> t[i]] \in Seq(T)
  BY <1>3
<1>5. t \in Seq(T)
  BY <1>3, <1>4
<1> QED  BY <1>2, <1>5 DEF IsSeq, t

\* A sequence given element by element.
LEMMA BuiltSeq ==
  ASSUME NEW q, NEW n \in Nat, q = [i \in 1..n |-> q[i]]
  PROVE  IsSeq(q) /\ Len(q) = n
<1>1. Len(q) = n
  OBVIOUS
<1> DEFINE T == {q[i] : i \in 1..n}
<1>2. [i \in 1..n |-> q[i]] \in Seq(T)
  OBVIOUS
<1> QED  BY <1>1, <1>2 DEF IsSeq

\* The empty sequence is a sequence of its own elements.
LEMMA EmptySeq == IsSeq(<<>>) /\ Len(<<>>) = 0
BY DEF IsSeq

\* The largest member of a finite set of numbers is its last by rank.
LEMMA NthLast ==
  ASSUME NEW S, NEW n \in Nat, S \subseteq 0..n, S # {}
  PROVE  /\ Cardinality(S) \in Nat \ {0} /\ IsFiniteSet(S)
         /\ Nth(S, Cardinality(S)) \in S
<1>1. IsFiniteSet(0..n)
  BY FS_Interval
<1>2. IsFiniteSet(S) /\ Cardinality(S) \in Nat
  BY <1>1, FS_Subset, FS_CardinalityType
<1>3. Cardinality(S) # 0
  BY <1>2, FS_EmptySet
<1> DEFINE T == {n - x : x \in S}
<1>4. T \subseteq Nat /\ T # {}
  <2>1. ASSUME NEW x \in S PROVE n - x \in Nat
    <3>1. x \in 0..n
      OBVIOUS
    <3> QED  BY <3>1
  <2> QED  BY <2>1
<1>5. PICK k \in T : \A m \in T : k <= m
  <2> HIDE DEF T
  <2> QED  BY <1>4, LeastNatural
<1>6. PICK x \in S : \A y \in S : y <= x
  <2>1. PICK x \in S : k = n - x
    BY <1>5
  <2>2. \A y \in S : n - y \in T
    OBVIOUS
  <2>3. \A y \in S : y <= x
    <3> SUFFICES ASSUME NEW y \in S PROVE y <= x
      OBVIOUS
    <3>1. n - x <= n - y
      <4> HIDE DEF T
      <4> QED  BY <1>5, <2>1, <2>2
    <3>2. x \in 0..n /\ y \in 0..n
      OBVIOUS
    <3> QED  BY <3>1, <3>2
  <2> QED  BY <2>1, <2>3
<1>7. {y \in S : y <= x} = S
  BY <1>6
<1>8. \E z \in S : Cardinality({y \in S : y <= z}) = Cardinality(S)
  BY <1>6, <1>7
<1> QED  BY <1>2, <1>3, <1>8 DEF Nth

\* One more waiting NAL, taken if it is of the types.
Taken(s, p, types) == IF p.nal.type \in types THEN Append(s, p) ELSE s

\* The recursion that defines OfTypes has a solution.
LEMMA OfTypesRun ==
  ASSUME NEW S, NEW w \in Seq(S), NEW types
  PROVE  \E r \in [0..Len(w) -> Seq(S)] :
           /\ r[0] = <<>>
           /\ \A n \in 1..Len(w) : r[n] = Taken(r[n - 1], w[n], types)
           /\ OfTypes(w, types) = r[Len(w)]
<1> DEFINE A == Seq(S)
           next == [n \in Nat |-> [s \in A |-> IF n + 1 \in 1..Len(w) THEN Taken(s, w[n + 1], types) ELSE s]]
           Run(r) == r = [n \in 0..Len(w) |-> IF n = 0 THEN <<>> ELSE Taken(r[n - 1], w[n], types)]
<1>l. Len(w) \in Nat /\ \A n \in 1..Len(w) : w[n] \in S /\ n - 1 \in Nat /\ n - 1 \in 0..Len(w)
  OBVIOUS
<1>1. <<>> \in A
  OBVIOUS
<1>a. ASSUME NEW s \in A, NEW p \in S PROVE Taken(s, p, types) \in A
  BY DEF Taken
<1> HIDE DEF A
<1>2. ASSUME NEW n \in Nat, NEW s \in A
      PROVE  (IF n + 1 \in 1..Len(w) THEN Taken(s, w[n + 1], types) ELSE s) \in A
  BY <1>l, <1>a
<1>3. next \in [Nat -> [A -> A]]
  BY <1>2
<1>4. PICK f \in [Nat -> A] : f[0] = <<>> /\ \A n \in Nat : f[n + 1] = next[n][f[n]]
  <2> HIDE DEF next
  <2>1. \E f : IsIteration(f, A, <<>>, next)
    BY <1>1, <1>3, IterationExists
  <2> QED  BY <2>1 DEF IsIteration
<1> DEFINE g == [n \in 0..Len(w) |-> f[n]]
<1>5. ASSUME NEW n \in 1..Len(w) PROVE f[n] = Taken(f[n - 1], w[n], types)
  <2>1. n - 1 \in Nat /\ (n - 1) + 1 = n /\ f[n - 1] \in A
    BY <1>l, <1>4
  <2> QED  BY <2>1, <1>4
<1>6. Run(g)
  <2>1. ASSUME NEW n \in 0..Len(w) PROVE g[n] = IF n = 0 THEN <<>> ELSE Taken(g[n - 1], w[n], types)
    BY <1>l, <1>4, <1>5
  <2> QED  BY <2>1
<1> HIDE DEF g
<1> DEFINE h == CHOOSE r : Run(r)
<1>7. Run(h)
  <2> HIDE DEF Run
  <2> QED  BY <1>6
<1>8. OfTypes(w, types) = h[Len(w)]
  BY DEF OfTypes, Taken
<1> HIDE DEF h
<1>9. \A n \in 0..Len(w) : h[n] = IF n = 0 THEN <<>> ELSE Taken(h[n - 1], w[n], types)
  BY <1>7
<1>10. h[0] = <<>> /\ \A n \in 1..Len(w) : h[n] = Taken(h[n - 1], w[n], types)
  BY <1>9, <1>l
<1>11. h \in [0..Len(w) -> A]
  <2> DEFINE T == {n \in Nat : n \in 0..Len(w) => h[n] \in A}
  <2>1. 0 \in T
    BY <1>10, <1>1
  <2>2. ASSUME NEW n \in T PROVE n + 1 \in T
    <3>1. CASE n + 1 \in 0..Len(w)
      <4>1. n + 1 \in 1..Len(w) /\ n \in 0..Len(w) /\ (n + 1) - 1 = n
        BY <1>l, <3>1
      <4>2. h[n] \in A /\ h[n + 1] = Taken(h[n], w[n + 1], types) /\ w[n + 1] \in S
        BY <4>1, <1>l, <1>10
      <4> QED  BY <4>2, <1>a
    <3>2. CASE n + 1 \notin 0..Len(w)
      BY <3>2
    <3> QED  BY <3>1, <3>2
  <2>3. T = Nat
    <3>1. T \subseteq Nat
      OBVIOUS
    <3> HIDE DEF T
    <3> QED  BY <2>1, <2>2, <3>1, NatSetInduction
  <2>4. \A n \in 0..Len(w) : h[n] \in A
    BY <2>3, <1>l
  <2> QED  BY <2>4, <1>7
<1> QED  BY <1>8, <1>10, <1>11 DEF A

\* OfTypes keeps what is of the types, and nothing else (by induction on the sequence).
LEMMA OfTypesFacts ==
  ASSUME NEW S, NEW w \in Seq(S), NEW types
  PROVE  /\ OfTypes(w, types) \in Seq(S)
         /\ \A i \in 1..Len(w) : w[i].nal.type \in types =>
              \E j \in 1..Len(OfTypes(w, types)) : OfTypes(w, types)[j] = w[i]
         /\ \A j \in 1..Len(OfTypes(w, types)) :
              \E i \in 1..Len(w) : OfTypes(w, types)[j] = w[i] /\ w[i].nal.type \in types
<1>1. PICK r \in [0..Len(w) -> Seq(S)] :
           /\ r[0] = <<>>
           /\ \A n \in 1..Len(w) : r[n] = Taken(r[n - 1], w[n], types)
           /\ OfTypes(w, types) = r[Len(w)]
  BY OfTypesRun
<1>l. Len(w) \in Nat /\ \A n \in 1..Len(w) : w[n] \in S
  OBVIOUS
<1> DEFINE Kept(n) == \A i \in 1..n : w[i].nal.type \in types => \E j \in 1..Len(r[n]) : r[n][j] = w[i]
           Only(n) == \A j \in 1..Len(r[n]) : \E i \in 1..n : r[n][j] = w[i] /\ w[i].nal.type \in types
           T == {n \in Nat : n <= Len(w) => Kept(n) /\ Only(n)}
<1>2. 0 \in T
  BY <1>1
<1>3. ASSUME NEW n \in T PROVE n + 1 \in T
  <2> SUFFICES ASSUME n + 1 <= Len(w) PROVE Kept(n + 1) /\ Only(n + 1)
    <3> HIDE DEF Kept, Only
    <3> QED  OBVIOUS
  <2> DEFINE a == r[n]
             b == r[n + 1]
             p == w[n + 1]
  <2>0. n \in Nat /\ n + 1 \in 1..Len(w) /\ (n + 1) - 1 = n /\ n \in 0..Len(w) /\ n + 1 \in 0..Len(w) /\ p \in S
    BY <1>l
  <2>1. Kept(n) /\ Only(n)
    <3> HIDE DEF Kept, Only
    <3> QED  BY <2>0
  <2>2. a \in Seq(S) /\ b \in Seq(S) /\ b = Taken(a, p, types)
    BY <1>1, <2>0
  <2>3. \A i \in 1..(n + 1) : i \in 1..n \/ i = n + 1
    BY <2>0
  <2>a. a = r[n] /\ b = r[n + 1] /\ p = w[n + 1]
    OBVIOUS
  <2> HIDE DEF a, b, p
  <2>4. CASE p.nal.type \in types
    <3>1. b = Append(a, p)
      BY <2>2, <2>4 DEF Taken
    <3>2. /\ Len(b) = Len(a) + 1 /\ Len(a) \in Nat /\ b[Len(a) + 1] = p
          /\ \A j \in 1..Len(a) : b[j] = a[j] /\ j \in 1..Len(b)
      BY <2>0, <2>2, <3>1
    <3>3. \A j \in 1..Len(b) : j \in 1..Len(a) \/ j = Len(a) + 1
      BY <3>2
    <3>4. Len(a) + 1 \in 1..Len(b)
      BY <3>2
    <3>5. Kept(n + 1)
      <4> SUFFICES ASSUME NEW i \in 1..(n + 1), w[i].nal.type \in types
                   PROVE  \E j \in 1..Len(b) : b[j] = w[i]
        BY <2>a
      <4>1. CASE i \in 1..n
        <5>1. PICK j \in 1..Len(a) : a[j] = w[i]
          BY <2>1, <2>a, <4>1
        <5> QED  BY <3>2, <5>1
      <4>2. CASE i = n + 1
        BY <2>a, <3>2, <3>4, <4>2
      <4> QED  BY <2>3, <4>1, <4>2
    <3>6. Only(n + 1)
      <4> SUFFICES ASSUME NEW j \in 1..Len(b)
                   PROVE  \E i \in 1..(n + 1) : b[j] = w[i] /\ w[i].nal.type \in types
        BY <2>a
      <4>1. CASE j \in 1..Len(a)
        <5>1. PICK i \in 1..n : a[j] = w[i] /\ w[i].nal.type \in types
          BY <2>1, <2>a, <4>1
        <5>2. i \in 1..(n + 1)
          BY <2>0
        <5> QED  BY <3>2, <4>1, <5>1, <5>2
      <4>2. CASE j = Len(a) + 1
        <5>1. n + 1 \in 1..(n + 1)
          BY <2>0
        <5> QED  BY <2>4, <2>a, <3>2, <4>2, <5>1
      <4> QED  BY <3>3, <4>1, <4>2
    <3> QED  BY <3>5, <3>6
  <2>5. CASE p.nal.type \notin types
    <3>1. b = a
      BY <2>2, <2>5 DEF Taken
    <3>2. Kept(n + 1)
      BY <2>1, <2>3, <2>5, <2>a, <3>1
    <3>3. Only(n + 1)
      <4> SUFFICES ASSUME NEW j \in 1..Len(b)
                   PROVE  \E i \in 1..(n + 1) : b[j] = w[i] /\ w[i].nal.type \in types
        BY <2>a
      <4>1. PICK i \in 1..n : a[j] = w[i] /\ w[i].nal.type \in types
        BY <2>1, <2>a, <3>1
      <4>2. i \in 1..(n + 1)
        BY <2>0
      <4> QED  BY <3>1, <4>1, <4>2
    <3> QED  BY <3>2, <3>3
  <2> QED  BY <2>4, <2>5
<1>4. T = Nat
  <2>1. T \subseteq Nat
    OBVIOUS
  <2> HIDE DEF T
  <2> QED  BY <1>2, <1>3, <2>1, NatSetInduction
<1>5. Kept(Len(w)) /\ Only(Len(w))
  <2> HIDE DEF Kept, Only
  <2> QED  BY <1>4, <1>l
<1>6. r[Len(w)] \in Seq(S)
  BY <1>l
<1> QED  BY <1>1, <1>5, <1>6

\* The size of a zero-based array.
LEMMA ArraySize == ASSUME NEW n \in Nat PROVE Cardinality(0..(n - 1)) = n /\ IsFiniteSet(0..(n - 1))
BY FS_Interval

\* Dividing up rounds up, and stays a natural number.
LEMMA CeilDivType == ASSUME NEW a \in Nat, NEW b \in Nat \ {0} PROVE CeilDiv(a, b) \in Nat
<1>1. a + b - 1 \in Nat
  OBVIOUS
<1> DEFINE c == a + b - 1
<1> HIDE DEF c
<1>2. c \in Nat => c \div b \in Nat
  OBVIOUS
<1> QED  BY <1>1, <1>2 DEF c, CeilDiv

\* slice_frame: a frame is a sequence of slices of its own.
LEMMA SliceFrameFacts ==
  ASSUME NEW s, NEW seq, NEW elements, Size(elements) \in Nat
  PROVE  /\ IsSeq(SliceFrame(s, seq, elements))
         /\ \A i \in 1..Len(SliceFrame(s, seq, elements)) :
              /\ SliceFrame(s, seq, elements)[i].sensor_id = s
              /\ SliceFrame(s, seq, elements)[i].frame_seq = seq
              /\ SliceFrame(s, seq, elements)[i].slice_count = Size(Interleave(elements))
              /\ SliceFrame(s, seq, elements)[i].slice_index \in DOMAIN Interleave(elements)
              /\ SliceFrame(s, seq, elements)[i].payload =
                   Interleave(elements)[SliceFrame(s, seq, elements)[i].slice_index]
<1> DEFINE n == SliceCount(Size(elements))
           parts == Interleave(elements)
           q == SliceFrame(s, seq, elements)
<1>1. n \in Nat \ {0}
  <2>1. CeilDiv(Size(elements), PerSlice) \in Nat
    BY CeilDivType, SensorFramesAssumption
  <2> QED  BY <2>1 DEF SliceCount, Larger
<1>2. DOMAIN parts = 0..(n - 1)
  BY DEF Interleave, Array
<1>3. Size(parts) = n
  <2> HIDE DEF n, parts
  <2> QED  BY <1>1, <1>2, ArraySize DEF Size
<1>4. q = [i \in 1..n |-> [sensor_id |-> s, frame_seq |-> seq, slice_index |-> i - 1,
                           slice_count |-> n, payload |-> parts[i - 1]]]
  <2> HIDE DEF n, parts
  <2> QED  BY <1>3 DEF SliceFrame, n, parts
<1> HIDE DEF n, parts, q
<1>5. q = [i \in 1..n |-> q[i]] /\ \A i \in 1..n : q[i].sensor_id = s /\ q[i].frame_seq = seq
  BY <1>4
<1>6. IsSeq(q) /\ Len(q) = n
  BY <1>1, <1>5, BuiltSeq
<1>7. ASSUME NEW i \in 1..n
      PROVE  q[i].slice_count = n /\ q[i].slice_index \in 0..(n - 1) /\ q[i].payload = parts[q[i].slice_index]
  <2>1. q[i].slice_index = i - 1 /\ q[i].slice_count = n /\ q[i].payload = parts[i - 1]
    BY <1>4
  <2>2. i - 1 \in 0..(n - 1)
    BY <1>1
  <2> QED  BY <2>1, <2>2
<1>8. \A i \in 1..Len(q) :
        /\ q[i].sensor_id = s /\ q[i].frame_seq = seq
        /\ q[i].slice_count = Size(parts) /\ q[i].slice_index \in DOMAIN parts /\ q[i].payload = parts[q[i].slice_index]
  BY <1>2, <1>3, <1>5, <1>6, <1>7
<1> QED  BY <1>6, <1>8 DEF q, parts

\* Whatever a sensor measures is encoded in finitely many elements.
LEMMA EncodeSize ==
  ASSUME NEW s \in Sensors, NEW seq \in Nat
  PROVE  Size(Encode(Kind[s], Measurement(s, seq))) \in Nat
<1>0. Kind[s] \in {"Points", "RangeImage", "Depth"}
  BY MediaPathAssumption
<1>1. CASE Kind[s] = "Points"
  <2> DEFINE data == Measurement(s, seq)
             kept == {i \in DOMAIN data : Quantizes(data[i])}
             n == seq % 4
  <2>1. n \in Nat /\ DOMAIN data = 1..n
    BY <1>1 DEF Measurement
  <2> HIDE DEF data, n
  <2>2. IsFiniteSet(kept) /\ Cardinality(kept) \in Nat
    <3>1. IsFiniteSet(1..n) /\ kept \subseteq 1..n
      BY <2>1, FS_Interval
    <3> QED  BY <3>1, FS_Subset, FS_CardinalityType
  <2>3. Encode(Kind[s], data) = EncodePoints(data)
    BY <1>1 DEF Encode
  <2>4. DOMAIN EncodePoints(data) = 0..(Cardinality(kept) - 1)
    BY DEF EncodePoints, Array
  <2> HIDE DEF kept
  <2>5. Size(EncodePoints(data)) = Cardinality(kept)
    BY <2>2, <2>4, ArraySize DEF Size
  <2> QED  BY <2>2, <2>3, <2>5 DEF data
<1>2. CASE Kind[s] = "RangeImage"
  <2> DEFINE data == Measurement(s, seq)
  <2> HIDE DEF data
  <2>1. Encode(Kind[s], data) = EncodeRanges(data)
    BY <1>2 DEF Encode
  <2>2. DOMAIN EncodeRanges(data) = 0..(Columns - 1) /\ Columns \in Nat
    BY SensorFramesAssumption DEF EncodeRanges, Array
  <2>3. Size(EncodeRanges(data)) = Columns
    BY <2>2, ArraySize DEF Size
  <2> QED  BY <2>1, <2>2, <2>3 DEF data
<1>3. CASE Kind[s] = "Depth"
  <2> DEFINE data == Measurement(s, seq)
             n == Height * SegmentsPerRow
  <2> HIDE DEF data
  <2>1. Encode(Kind[s], data) = EncodeDepth(data)
    BY <1>3 DEF Encode
  <2>2. DOMAIN EncodeDepth(data) = 0..(n - 1)
    BY DEF EncodeDepth, Array
  <2>3. n \in Nat
    <3>1. SegmentsPerRow \in Nat /\ Height \in Nat
      BY CeilDivType, SensorFramesAssumption DEF SegmentsPerRow
    <3> HIDE DEF SegmentsPerRow
    <3> QED  BY <3>1
  <2> HIDE DEF n
  <2>4. Size(EncodeDepth(data)) = n
    BY <2>2, <2>3, ArraySize DEF Size
  <2> QED  BY <2>1, <2>3, <2>4 DEF data
<1> QED  BY <1>0, <1>1, <1>2, <1>3

\* chunk_nal: the chunks of a NAL, and nothing else.
LEMMA ChunkNalFacts ==
  ASSUME NEW nal \in Nal
  PROVE  /\ ChunkNal(nal) \in Seq(Chunk) /\ Len(ChunkNal(nal)) = Parts(nal) /\ Parts(nal) \in Nat \ {0}
         /\ \A i \in 1..Len(ChunkNal(nal)) : ChunkOf(ChunkNal(nal)[i]) /\ ChunkNal(nal)[i].nal = nal
<1> DEFINE n == Parts(nal)
           q == ChunkNal(nal)
<1>1. n \in Nat \ {0}
  BY LossyQueueAssumption DEF Parts
<1>2. q = [i \in 1..n |-> [nal |-> nal, index |-> i - 1, is_last |-> i = n]]
  BY DEF ChunkNal, Parts
<1>n. n = Parts(nal)
  OBVIOUS
<1> HIDE DEF n, q
<1>3. ASSUME NEW i \in 1..n PROVE [nal |-> nal, index |-> i - 1, is_last |-> i = n] \in Chunk
  <2>1. i - 1 \in Nat
    BY <1>1
  <2> QED  BY <2>1 DEF Chunk
<1>4. q \in Seq(Chunk) /\ Len(q) = n
  BY <1>1, <1>2, <1>3
<1>5. ASSUME NEW i \in 1..n PROVE ChunkOf(q[i]) /\ q[i].nal = nal
  <2>1. q[i] = [nal |-> nal, index |-> i - 1, is_last |-> i = n]
    BY <1>2
  <2>2. q[i].nal = nal /\ q[i].index = i - 1 /\ q[i].is_last = (i = n)
    BY <2>1
  <2>3. i - 1 < n /\ (i = n <=> i - 1 = n - 1)
    BY <1>1
  <2> QED  BY <1>n, <2>2, <2>3 DEF ChunkOf
<1> QED  BY <1>1, <1>4, <1>5, <1>n DEF q

-----------------------------------------------------------------------------
(* The robot's queue.                                                      *)

\* push_video_nal: what was waiting and survives, then the NAL.
LEMMA PushVideoFacts ==
  ASSUME NEW q, QueueShape(q), NEW nal \in Nal
  PROVE  /\ QueueShape(PushVideoNal(q, nal))
         /\ PushVideoNal(q, nal).sensors = q.sensors /\ PushVideoNal(q, nal).video_turn = q.video_turn
         /\ NalsOf(PushVideoNal(q, nal)) \subseteq NalsOf(q) \cup {nal}
         /\ ChunksOf(q) => ChunksOf(PushVideoNal(q, nal))
<1> DEFINE q2 == PushVideoNal(q, nal)
           new == [nal |-> nal, chunks |-> ChunkNal(nal)]
           kept == OfTypes(q.video, Survivors(nal.type))
<1>t. /\ q.video \in Seq(PendingNal) /\ q.skip_deltas_until_idr \in BOOLEAN
      /\ q = [video |-> q.video, skip_deltas_until_idr |-> q.skip_deltas_until_idr, video_turn |-> q.video_turn,
              sensors |-> q.sensors, last_sensor |-> q.last_sensor]
  BY DEF QueueShape
<1>0. q2 = PushVideoNal(q, nal) /\ new.nal = nal /\ new.chunks = ChunkNal(nal)
  OBVIOUS
<1>1. new \in PendingNal /\ \A j \in 1..Len(new.chunks) : ChunkOf(new.chunks[j]) /\ new.chunks[j].nal = new.nal
  <2>1. ChunkNal(nal) # <<>>
    BY ChunkNalFacts
  <2> QED  BY <2>1, ChunkNalFacts DEF PendingNal
<1>2. /\ kept \in Seq(PendingNal)
      /\ \A j \in 1..Len(kept) : \E i \in 1..Len(q.video) : kept[j] = q.video[i]
  BY <1>t, OfTypesFacts
<1>3. \/ q2 = q
      \/ \E b \in BOOLEAN : q2 = [q EXCEPT !.video = Append(kept, new), !.skip_deltas_until_idr = b]
  BY <1>t DEF PushVideoNal
<1> HIDE DEF q2, new, kept
<1>4. CASE q2 = q
  BY <1>0, <1>4
<1>5. ASSUME NEW b \in BOOLEAN, q2 = [q EXCEPT !.video = Append(kept, new), !.skip_deltas_until_idr = b]
      PROVE  /\ QueueShape(q2) /\ q2.sensors = q.sensors /\ q2.video_turn = q.video_turn
             /\ NalsOf(q2) \subseteq NalsOf(q) \cup {nal}
             /\ ChunksOf(q) => ChunksOf(q2)
  <2> DEFINE v == Append(kept, new)
  <2>1. /\ v \in Seq(PendingNal) /\ Len(v) = Len(kept) + 1 /\ Len(kept) \in Nat /\ v[Len(kept) + 1] = new
        /\ \A j \in 1..Len(kept) : v[j] = kept[j]
    BY <1>1, <1>2
  <2> HIDE DEF v
  <2>2. /\ q2.video = v /\ q2.skip_deltas_until_idr = b /\ q2.video_turn = q.video_turn
        /\ q2.sensors = q.sensors /\ q2.last_sensor = q.last_sensor
        /\ q2 = [video |-> v, skip_deltas_until_idr |-> b, video_turn |-> q.video_turn,
                 sensors |-> q.sensors, last_sensor |-> q.last_sensor]
    BY <1>5, <1>t DEF v
  <2>3. QueueShape(q2)
    <3>1. q2 \in [video : Seq(PendingNal), skip_deltas_until_idr : BOOLEAN, video_turn : BOOLEAN,
                  sensors : {q.sensors}, last_sensor : {q.last_sensor}]
      BY <2>1, <2>2 DEF QueueShape
    <3> QED  BY <2>2, <3>1 DEF QueueShape
  <2>4. \A j \in 1..Len(v) : v[j] = new \/ \E i \in 1..Len(q.video) : v[j] = q.video[i]
    <3> SUFFICES ASSUME NEW j \in 1..Len(v), v[j] # new PROVE \E i \in 1..Len(q.video) : v[j] = q.video[i]
      OBVIOUS
    <3>1. j \in 1..Len(kept)
      BY <2>1
    <3> QED  BY <1>2, <2>1, <3>1
  <2>5. NalsOf(q2) \subseteq NalsOf(q) \cup {nal}
    BY <1>0, <2>2, <2>4 DEF NalsOf
  <2>6. ASSUME ChunksOf(q), NEW j \in 1..Len(v), NEW m \in 1..Len(v[j].chunks)
        PROVE  ChunkOf(v[j].chunks[m]) /\ v[j].chunks[m].nal = v[j].nal
    BY <1>1, <2>4, <2>6 DEF ChunksOf
  <2>7. ChunksOf(q) => ChunksOf(q2)
    BY <2>2, <2>6 DEF ChunksOf
  <2> QED  BY <2>2, <2>3, <2>5, <2>7
<1> QED  BY <1>0, <1>3, <1>4, <1>5

\* expire_stale_video: only deltas go.
LEMMA ExpireFacts ==
  ASSUME NEW q, QueueShape(q)
  PROVE  /\ QueueShape(ExpireStaleVideo(q))
         /\ ExpireStaleVideo(q).sensors = q.sensors /\ ExpireStaleVideo(q).video_turn = q.video_turn
         /\ NalsOf(ExpireStaleVideo(q)) \subseteq NalsOf(q)
         /\ ChunksOf(q) => ChunksOf(ExpireStaleVideo(q))
<1> DEFINE q2 == ExpireStaleVideo(q)
           types == NalType \ {"P"}
           kept == OfTypes(q.video, types)
<1>t. /\ q.video \in Seq(PendingNal)
      /\ q = [video |-> q.video, skip_deltas_until_idr |-> q.skip_deltas_until_idr, video_turn |-> q.video_turn,
              sensors |-> q.sensors, last_sensor |-> q.last_sensor]
  BY DEF QueueShape
<1>2. /\ kept \in Seq(PendingNal)
      /\ \A j \in 1..Len(kept) : \E i \in 1..Len(q.video) : kept[j] = q.video[i]
  <2> HIDE DEF types
  <2> QED  BY <1>t, OfTypesFacts
<1>a. q2 = [q EXCEPT !.video = kept, !.skip_deltas_until_idr = TRUE]
  BY DEF ExpireStaleVideo
<1> HIDE DEF q2, kept
<1>3. q2 = [video |-> kept, skip_deltas_until_idr |-> TRUE, video_turn |-> q.video_turn,
            sensors |-> q.sensors, last_sensor |-> q.last_sensor]
  BY <1>t, <1>a
<1>4. QueueShape(q2)
  <2>1. q2 \in [video : Seq(PendingNal), skip_deltas_until_idr : BOOLEAN, video_turn : BOOLEAN,
                sensors : {q.sensors}, last_sensor : {q.last_sensor}]
    BY <1>2, <1>3 DEF QueueShape
  <2> QED  BY <1>3, <2>1 DEF QueueShape
<1>5. NalsOf(q2) \subseteq NalsOf(q)
  BY <1>2, <1>3 DEF NalsOf
<1>6. ChunksOf(q) => ChunksOf(q2)
  <2> SUFFICES ASSUME ChunksOf(q), NEW j \in 1..Len(kept), NEW m \in 1..Len(kept[j].chunks)
               PROVE  ChunkOf(kept[j].chunks[m]) /\ kept[j].chunks[m].nal = kept[j].nal
    BY <1>3 DEF ChunksOf
  <2> QED  BY <1>2 DEF ChunksOf
<1>7. q2.sensors = q.sensors /\ q2.video_turn = q.video_turn
  BY <1>3
<1> QED  BY <1>4, <1>5, <1>6, <1>7 DEF q2

\* A sequence of several without its first.
LEMMA RestFacts ==
  ASSUME NEW S, NEW s \in Seq(S), Len(s) \in Nat \ {0, 1}
  PROVE  /\ Tail(s) \in Seq(S) /\ Tail(s) # <<>>
         /\ \A j \in 1..Len(Tail(s)) : j + 1 \in 1..Len(s) /\ Tail(s)[j] = s[j + 1]
<1>1. Tail(s) \in Seq(S) /\ Len(Tail(s)) = Len(s) - 1 /\ Len(s) - 1 # 0
  OBVIOUS
<1>2. Tail(s) # <<>>
  BY <1>1
<1>3. \A j \in 1..Len(Tail(s)) : j + 1 \in 1..Len(s) /\ Tail(s)[j] = s[j + 1]
  <2> SUFFICES ASSUME NEW j \in 1..Len(Tail(s)) PROVE j + 1 \in 1..Len(s) /\ Tail(s)[j] = s[j + 1]
    OBVIOUS
  <2>1. j \in 1..(Len(s) - 1)
    BY <1>1
  <2> QED  BY <2>1
<1> QED  BY <1>1, <1>2, <1>3

\* A NAL waiting whose chunks are replaced is its NAL and the new ones.
LEMMA ChunksReplaced ==
  ASSUME NEW p \in PendingNal, NEW t
  PROVE  [p EXCEPT !.chunks = t] = [nal |-> p.nal, chunks |-> t]
<1>1. p = [nal |-> p.nal, chunks |-> p.chunks]
  BY DEF PendingNal
<1> QED  BY <1>1

\* pop_video: the next chunk of the first NAL, which goes when it was the last one.
LEMMA PopVideoFacts ==
  ASSUME NEW q, QueueShape(q), ChunksOf(q), q.video # <<>>
  PROVE  /\ QueueShape(PopVideo(q).q) /\ PopVideo(q).class = "Video"
         /\ PopVideo(q).q.sensors = q.sensors /\ PopVideo(q).q.video_turn = q.video_turn
         /\ NalsOf(PopVideo(q).q) \subseteq NalsOf(q)
         /\ ChunksOf(PopVideo(q).q)
         /\ PopVideo(q).datagram \in Chunk /\ ChunkOf(PopVideo(q).datagram)
         /\ PopVideo(q).datagram.nal \in NalsOf(q)
<1> DEFINE w == q.video
           front == w[1]
           c == front.chunks
           last == Len(c) = 1
           v == IF last THEN Tail(w) ELSE [w EXCEPT ![1].chunks = Tail(c)]
           q2 == PopVideo(q).q
<1>t. /\ w \in Seq(PendingNal) /\ w # <<>>
      /\ q = [video |-> w, skip_deltas_until_idr |-> q.skip_deltas_until_idr, video_turn |-> q.video_turn,
              sensors |-> q.sensors, last_sensor |-> q.last_sensor]
  BY DEF QueueShape
<1>w. w = q.video
  OBVIOUS
<1>1. PopVideo(q).class = "Video" /\ PopVideo(q).datagram = Head(c) /\ q2 = [q EXCEPT !.video = v]
  <2>1. front = Head(q.video)
    BY <1>t
  <2> DEFINE h == Head(q.video)
             v2 == IF Len(h.chunks) = 1 THEN Tail(q.video) ELSE [q.video EXCEPT ![1].chunks = Tail(h.chunks)]
             p2 == [q EXCEPT !.video = v2]
             d == Head(h.chunks)
  <2>2. PopVideo(q) = [q |-> p2, class |-> "Video", datagram |-> d]
    BY DEF PopVideo
  <2>3. v2 = v /\ d = Head(c)
    BY <2>1
  <2> HIDE DEF p2, d
  <2>4. PopVideo(q).q = p2 /\ PopVideo(q).class = "Video" /\ PopVideo(q).datagram = d
    BY <2>2
  <2>5. p2 = [q EXCEPT !.video = v2]
    BY DEF p2
  <2> HIDE DEF v2, v, c
  <2>6. PopVideo(q).q = [q EXCEPT !.video = v]
    BY <2>3, <2>4, <2>5
  <2> QED  BY <2>3, <2>4, <2>6
<1>p. \A i \in 1..Len(w) : \A j \in 1..Len(w[i].chunks) : ChunkOf(w[i].chunks[j]) /\ w[i].chunks[j].nal = w[i].nal
  BY DEF ChunksOf
<1> HIDE DEF q2, w
<1>2. /\ Len(w) \in Nat /\ 1 \in 1..Len(w) /\ front \in PendingNal
      /\ \A i \in 1..Len(w) : w[i] \in PendingNal
  BY <1>t
<1>f. front = [nal |-> front.nal, chunks |-> c] /\ front.nal \in Nal /\ c \in Seq(Chunk) /\ c # <<>>
  BY <1>2 DEF PendingNal
<1>3. ChunkOf(c[1]) /\ c[1].nal = front.nal /\ Head(c) = c[1] /\ c[1] \in Chunk
  <2>1. 1 \in 1..Len(c)
    <3> HIDE DEF c
    <3> QED  BY <1>f
  <2> QED  BY <1>2, <1>f, <1>p, <2>1
<1> DEFINE left == [nal |-> front.nal, chunks |-> Tail(c)]
<1>4. ~last => /\ left \in PendingNal
               /\ \A j \in 1..Len(left.chunks) : ChunkOf(left.chunks[j]) /\ left.chunks[j].nal = left.nal
  <2> SUFFICES ASSUME ~last
               PROVE  /\ left \in PendingNal
                      /\ \A j \in 1..Len(left.chunks) : ChunkOf(left.chunks[j]) /\ left.chunks[j].nal = left.nal
    OBVIOUS
  <2> DEFINE t == Tail(c)
  <2>0. Len(c) # 1
    OBVIOUS
  <2>p. \A j \in 1..Len(c) : ChunkOf(c[j]) /\ c[j].nal = front.nal
    BY <1>2, <1>p
  <2> HIDE DEF c
  <2>c. c \in Seq(Chunk) /\ c # <<>>
    BY <1>f
  <2>d. Len(c) \in Nat \ {0, 1}
    BY <2>0, <2>c
  <2>1. /\ t \in Seq(Chunk) /\ t # <<>>
        /\ \A j \in 1..Len(t) : j + 1 \in 1..Len(c) /\ t[j] = c[j + 1]
    BY <2>c, <2>d, RestFacts
  <2> HIDE DEF t
  <2>2. left.nal = front.nal /\ left.chunks = t
    BY DEF t
  <2>3. left \in PendingNal
    BY <1>f, <2>1 DEF PendingNal, t
  <2> QED  BY <2>1, <2>2, <2>3, <2>p
<1>5. v \in Seq(PendingNal) /\ \A i \in 1..Len(v) : (~last /\ v[i] = left) \/ \E m \in 1..Len(w) : v[i] = w[m]
  <2>1. CASE last
    <3>1. v = Tail(w)
      BY <2>1
    <3> HIDE DEF v, left, last
    <3>2. v \in Seq(PendingNal) /\ \A i \in 1..Len(v) : i + 1 \in 1..Len(w) /\ v[i] = w[i + 1]
      BY <1>t, <3>1
    <3> QED  BY <3>2
  <2>2. CASE ~last
    <3>1. v = [w EXCEPT ![1] = left]
      <4>1. v = [w EXCEPT ![1].chunks = Tail(c)]
        BY <2>2
      <4>2. [front EXCEPT !.chunks = Tail(c)] = left
        <5>1. front \in PendingNal
          BY <1>2
        <5> HIDE DEF front
        <5> QED  BY <5>1, ChunksReplaced
      <4> QED  BY <4>1, <4>2
    <3>2. left \in PendingNal
      BY <1>4, <2>2
    <3> HIDE DEF v, left, last
    <3>3. /\ v \in Seq(PendingNal) /\ Len(v) = Len(w)
          /\ \A i \in 1..Len(w) : v[i] = IF i = 1 THEN left ELSE w[i]
      BY <1>t, <3>1, <3>2
    <3> QED  BY <2>2, <3>3
  <2> QED  BY <2>1, <2>2
<1>l. left.nal = front.nal /\ front = w[1]
  OBVIOUS
<1> HIDE DEF v, left, last, c
<1>6. q2 = [video |-> v, skip_deltas_until_idr |-> q.skip_deltas_until_idr, video_turn |-> q.video_turn,
            sensors |-> q.sensors, last_sensor |-> q.last_sensor]
  BY <1>t, <1>1
<1>7. QueueShape(q2)
  <2>1. q2 \in [video : Seq(PendingNal), skip_deltas_until_idr : BOOLEAN, video_turn : BOOLEAN,
                sensors : {q.sensors}, last_sensor : {q.last_sensor}]
    BY <1>5, <1>6 DEF QueueShape
  <2> QED  BY <1>6, <2>1 DEF QueueShape
<1>8. NalsOf(q2) \subseteq NalsOf(q)
  <2> SUFFICES ASSUME NEW i \in 1..Len(v) PROVE \E m \in 1..Len(w) : v[i].nal = w[m].nal
    BY <1>6, <1>w DEF NalsOf
  <2> QED  BY <1>2, <1>5, <1>l
<1>9. ChunksOf(q2)
  <2> SUFFICES ASSUME NEW i \in 1..Len(v), NEW j \in 1..Len(v[i].chunks)
               PROVE  ChunkOf(v[i].chunks[j]) /\ v[i].chunks[j].nal = v[i].nal
    BY <1>6 DEF ChunksOf
  <2> QED  BY <1>4, <1>5, <1>p
<1>10. c[1].nal \in NalsOf(q)
  BY <1>2, <1>3, <1>w DEF NalsOf
<1>11. q2.sensors = q.sensors /\ q2.video_turn = q.video_turn
  BY <1>6
<1> QED  BY <1>1, <1>3, <1>7, <1>8, <1>9, <1>10, <1>11 DEF q2

\* How one sensor's queue goes on: its frame loses its first slice, or the frame that
\* waited takes its place when that was the last.
Advances(sq, new) ==
  sq.current # <<>> =>
    \/ new.current = Tail(sq.current)
    \/ Len(sq.current) = 1 /\ sq.waiting # <<>> /\ new.current = sq.waiting

\* pop_sensor: the next slice of the sensor whose turn it is.
LEMMA PopSensorFacts ==
  ASSUME NEW q, QueueShape(q), SensorWaiting(q) # {}
  PROVE  /\ QueueShape(PopSensor(q).q) /\ PopSensor(q).class = "Sensor"
         /\ PopSensor(q).q.video = q.video /\ PopSensor(q).q.video_turn = q.video_turn
         /\ \A s \in Sensors : PopSensor(q).q.sensors[s] = q.sensors[s] \/ Advances(q.sensors[s], PopSensor(q).q.sensors[s])
         /\ \A rendered : (\A s \in Sensors : SlicesOf(q.sensors[s], s, rendered)) =>
              /\ SliceOf(PopSensor(q).datagram, PopSensor(q).datagram.sensor_id, rendered)
              /\ \A s \in Sensors : SlicesOf(PopSensor(q).q.sensors[s], s, rendered)
<1> DEFINE s == NextSensor(q)
           sq == q.sensors[s]
           current == IF sq.current # <<>> THEN sq.current ELSE sq.waiting
           waiting == IF sq.current # <<>> THEN sq.waiting ELSE <<>>
           promote == Len(current) = 1 /\ waiting # <<>>
           new == [current |-> IF promote THEN waiting ELSE Tail(current), started |-> ~promote,
                   waiting |-> IF promote THEN <<>> ELSE waiting]
           q2 == PopSensor(q).q
<1>1. s \in SensorWaiting(q)
  <2> DEFINE W == SensorWaiting(q)
             A == {x \in W : x > q.last_sensor}
  <2>1. W \subseteq Nat /\ W # {} /\ A \subseteq W
    BY LossyQueueAssumption DEF SensorWaiting
  <2>2. s = Least(IF A # {} THEN A ELSE W)
    BY DEF NextSensor
  <2> HIDE DEF A, W, s
  <2>3. s \in W
    BY <2>1, <2>2, LeastFacts
  <2> QED  BY <2>3 DEF W
<1>2. s \in Sensors /\ (sq.current # <<>> \/ sq.waiting # <<>>)
  <2> HIDE DEF s
  <2> QED  BY <1>1 DEF SensorWaiting
<1>3. /\ PopSensor(q).class = "Sensor" /\ PopSensor(q).datagram = Head(current)
      /\ q2 = [q EXCEPT !.last_sensor = s, !.sensors[s] = new]
  <2> DEFINE p2 == [q EXCEPT !.last_sensor = s, !.sensors[s] = new]
             d == Head(current)
  <2>1. PopSensor(q) = [q |-> p2, class |-> "Sensor", datagram |-> d]
    BY DEF PopSensor
  <2> HIDE DEF p2, d
  <2>2. PopSensor(q).q = p2 /\ PopSensor(q).class = "Sensor" /\ PopSensor(q).datagram = d
    BY <2>1
  <2> QED  BY <2>2 DEF p2, d
<1>t. /\ q = [video |-> q.video, skip_deltas_until_idr |-> q.skip_deltas_until_idr, video_turn |-> q.video_turn,
              sensors |-> q.sensors, last_sensor |-> q.last_sensor]
      /\ DOMAIN q.sensors = Sensors /\ \A x \in Sensors : SensorQueueShape(q.sensors[x])
  BY DEF QueueShape
<1>4. IsSeq(current) /\ current # <<>> /\ IsSeq(waiting)
  <2>1. IsSeq(sq.current) /\ IsSeq(sq.waiting)
    <3> HIDE DEF s
    <3> QED  BY <1>2, <1>t DEF SensorQueueShape
  <2> QED  BY <1>2, <2>1, EmptySeq
<1>5. /\ IsSeq(Tail(current)) /\ 1 \in 1..Len(current) /\ Head(current) = current[1]
      /\ \A i \in 1..Len(Tail(current)) : i + 1 \in 1..Len(current) /\ Tail(current)[i] = current[i + 1]
  <2> HIDE DEF current
  <2> QED  BY <1>4, TailSeq
<1>6. /\ new.current = (IF promote THEN waiting ELSE Tail(current)) /\ new.started = (~promote)
      /\ new.waiting = (IF promote THEN <<>> ELSE waiting)
  BY DEF new
<1>7. SensorQueueShape(new)
  <2>1. IsSeq(new.current) /\ IsSeq(new.waiting)
    BY <1>4, <1>5, <1>6, EmptySeq
  <2>2. new \in [current : {new.current}, started : BOOLEAN, waiting : {new.waiting}]
    OBVIOUS
  <2> QED  BY <2>1, <2>2 DEF SensorQueueShape
<1>8. Advances(sq, new)
  BY <1>6 DEF Advances
<1>9. ASSUME NEW rendered, SlicesOf(sq, s, rendered)
      PROVE  SliceOf(Head(current), s, rendered) /\ SlicesOf(new, s, rendered)
  <2>1. \A i \in 1..Len(current) : SliceOf(current[i], s, rendered)
    BY <1>9 DEF SlicesOf
  <2>2. \A i \in 1..Len(waiting) : SliceOf(waiting[i], s, rendered)
    BY <1>9, EmptySeq DEF SlicesOf
  <2> HIDE DEF current, waiting, promote, new, sq
  <2>3. \A i \in 1..Len(Tail(current)) : SliceOf(Tail(current)[i], s, rendered)
    BY <1>5, <2>1
  <2>4. \A i \in 1..Len(new.current) : SliceOf(new.current[i], s, rendered)
    BY <1>6, <2>2, <2>3
  <2>5. \A i \in 1..Len(new.waiting) : SliceOf(new.waiting[i], s, rendered)
    BY <1>6, <2>2, EmptySeq
  <2> QED  BY <1>5, <2>1, <2>4, <2>5 DEF SlicesOf
<1>q. sq = q.sensors[s]
  OBVIOUS
<1> HIDE DEF s, sq, current, waiting, promote, new, q2
<1> DEFINE sensors2 == [q.sensors EXCEPT ![s] = new]
<1>10. q2 = [video |-> q.video, skip_deltas_until_idr |-> q.skip_deltas_until_idr, video_turn |-> q.video_turn,
             sensors |-> sensors2, last_sensor |-> s]
  <2>1. q2 = [q EXCEPT !.last_sensor = s, !.sensors = sensors2]
    BY <1>3, <1>t
  <2> HIDE DEF sensors2
  <2> QED  BY <1>t, <2>1
<1>11. DOMAIN sensors2 = Sensors /\ \A x \in Sensors : sensors2[x] = IF x = s THEN new ELSE q.sensors[x]
  BY <1>t, <1>2
<1> HIDE DEF sensors2
<1>12. q2.video = q.video /\ q2.video_turn = q.video_turn /\ q2.sensors = sensors2 /\ q2.last_sensor = s
  BY <1>10
<1>13. QueueShape(q2)
  <2>1. q2 \in [video : Seq(PendingNal), skip_deltas_until_idr : BOOLEAN, video_turn : BOOLEAN,
                sensors : {sensors2}, last_sensor : {s}]
    BY <1>10 DEF QueueShape
  <2>2. \A x \in Sensors : SensorQueueShape(sensors2[x])
    BY <1>7, <1>11, <1>t
  <2> QED  BY <1>11, <1>12, <2>1, <2>2 DEF QueueShape
<1>14. \A x \in Sensors : q2.sensors[x] = q.sensors[x] \/ Advances(q.sensors[x], q2.sensors[x])
  BY <1>8, <1>11, <1>12, <1>q
<1>15. ASSUME NEW rendered, \A x \in Sensors : SlicesOf(q.sensors[x], x, rendered)
       PROVE  /\ SliceOf(Head(current), Head(current).sensor_id, rendered)
              /\ \A x \in Sensors : SlicesOf(q2.sensors[x], x, rendered)
  <2>1. SliceOf(Head(current), s, rendered) /\ SlicesOf(new, s, rendered)
    BY <1>2, <1>9, <1>15, <1>q
  <2>2. Head(current).sensor_id = s
    BY <2>1 DEF SliceOf
  <2>3. \A x \in Sensors : SlicesOf(q2.sensors[x], x, rendered)
    BY <1>11, <1>12, <1>15, <2>1
  <2> QED  BY <2>1, <2>2, <2>3
<1> QED  BY <1>3, <1>12, <1>13, <1>14, <1>15 DEF q2

\* pop: one of the two, by turns when both have something.
LEMMA PopFacts ==
  ASSUME NEW q, QueueShape(q), ChunksOf(q), ~Empty(q)
  PROVE  /\ QueueShape(Pop(q).q) /\ Pop(q).q.video_turn = ~q.video_turn
         /\ ChunksOf(Pop(q).q) /\ NalsOf(Pop(q).q) \subseteq NalsOf(q)
         /\ \/ /\ Pop(q).class = "Video" /\ Pop(q).q.sensors = q.sensors
               /\ Pop(q).datagram \in Chunk /\ ChunkOf(Pop(q).datagram) /\ Pop(q).datagram.nal \in NalsOf(q)
               /\ q.video_turn \/ SensorWaiting(q) = {}
            \/ /\ Pop(q).class = "Sensor"
               /\ ~q.video_turn \/ q.video = <<>>
               /\ \A s \in Sensors : Pop(q).q.sensors[s] = q.sensors[s] \/ Advances(q.sensors[s], Pop(q).q.sensors[s])
               /\ \A rendered : (\A s \in Sensors : SlicesOf(q.sensors[s], s, rendered)) =>
                    /\ SliceOf(Pop(q).datagram, Pop(q).datagram.sensor_id, rendered)
                    /\ \A s \in Sensors : SlicesOf(Pop(q).q.sensors[s], s, rendered)
<1> DEFINE q1 == [q EXCEPT !.video_turn = ~@]
           r == Pop(q)
<1>t. /\ q = [video |-> q.video, skip_deltas_until_idr |-> q.skip_deltas_until_idr, video_turn |-> q.video_turn,
              sensors |-> q.sensors, last_sensor |-> q.last_sensor]
      /\ q.video_turn \in BOOLEAN
  BY DEF QueueShape
<1>1. q1 = [video |-> q.video, skip_deltas_until_idr |-> q.skip_deltas_until_idr, video_turn |-> ~q.video_turn,
            sensors |-> q.sensors, last_sensor |-> q.last_sensor]
  BY <1>t
<1>2. r = IF (q.video_turn /\ q.video # <<>>) \/ SensorWaiting(q) = {} THEN PopVideo(q1) ELSE PopSensor(q1)
  BY DEF Pop
<1> HIDE DEF q1, r
<1>3. /\ q1.video = q.video /\ q1.video_turn = (~q.video_turn) /\ q1.sensors = q.sensors
      /\ q1.last_sensor = q.last_sensor
  BY <1>1
<1>4. QueueShape(q1)
  <2>1. q1 \in [video : Seq(PendingNal), skip_deltas_until_idr : BOOLEAN, video_turn : BOOLEAN,
                sensors : {q.sensors}, last_sensor : {q.last_sensor}]
    BY <1>1 DEF QueueShape
  <2> QED  BY <1>3, <2>1 DEF QueueShape
<1>5. ChunksOf(q1) /\ NalsOf(q1) = NalsOf(q) /\ SensorWaiting(q1) = SensorWaiting(q)
  BY <1>3 DEF ChunksOf, NalsOf, SensorWaiting
<1>6. CASE (q.video_turn /\ q.video # <<>>) \/ SensorWaiting(q) = {}
  <2>1. q1.video # <<>> /\ r = PopVideo(q1)
    BY <1>2, <1>3, <1>6 DEF Empty
  <2>2. /\ QueueShape(r.q) /\ r.class = "Video"
        /\ r.q.sensors = q1.sensors /\ r.q.video_turn = q1.video_turn
        /\ NalsOf(r.q) \subseteq NalsOf(q1)
        /\ ChunksOf(r.q)
        /\ r.datagram \in Chunk /\ ChunkOf(r.datagram)
        /\ r.datagram.nal \in NalsOf(q1)
    BY <1>4, <1>5, <2>1, PopVideoFacts
  <2> QED  BY <1>3, <1>5, <1>6, <2>2 DEF r
<1>7. CASE ~((q.video_turn /\ q.video # <<>>) \/ SensorWaiting(q) = {})
  <2>1. SensorWaiting(q1) # {} /\ r = PopSensor(q1)
    BY <1>2, <1>5, <1>7
  <2>2. /\ QueueShape(r.q) /\ r.class = "Sensor"
        /\ r.q.video = q1.video /\ r.q.video_turn = q1.video_turn
        /\ \A s \in Sensors : r.q.sensors[s] = q1.sensors[s] \/ Advances(q1.sensors[s], r.q.sensors[s])
    BY <1>4, <2>1, PopSensorFacts
  <2>3. ASSUME NEW rendered, \A s \in Sensors : SlicesOf(q1.sensors[s], s, rendered)
        PROVE  /\ SliceOf(r.datagram, r.datagram.sensor_id, rendered)
               /\ \A s \in Sensors : SlicesOf(r.q.sensors[s], s, rendered)
    BY <1>4, <2>1, <2>3, PopSensorFacts
  <2>4. ChunksOf(r.q) /\ NalsOf(r.q) = NalsOf(q1)
    BY <1>5, <2>2 DEF ChunksOf, NalsOf
  <2>5. \A rendered : (\A s \in Sensors : SlicesOf(q.sensors[s], s, rendered)) =>
          /\ SliceOf(r.datagram, r.datagram.sensor_id, rendered)
          /\ \A s \in Sensors : SlicesOf(r.q.sensors[s], s, rendered)
    BY <1>3, <2>3
  <2>6. ~q.video_turn \/ q.video = <<>>
    BY <1>7
  <2> QED  BY <1>3, <1>5, <2>2, <2>4, <2>5, <2>6 DEF r
<1> QED  BY <1>6, <1>7

\* push_sensor_frame: the new frame cuts in, or waits.
LEMMA PushFrameFacts ==
  ASSUME NEW q, QueueShape(q), NEW policy, NEW s \in Sensors, NEW frame, IsSeq(frame)
  PROVE  /\ SensorQueueShape(PushSensorFrame(q, policy, s, frame).sensors[s])
         /\ \A rendered :
              SlicesOf(q.sensors[s], s, rendered) /\ (\A i \in 1..Len(frame) : SliceOf(frame[i], s, rendered))
                => SlicesOf(PushSensorFrame(q, policy, s, frame).sensors[s], s, rendered)
         /\ policy # "Cut" /\ q.sensors[s].started /\ q.sensors[s].current # <<>>
              => PushSensorFrame(q, policy, s, frame).sensors[s].current = q.sensors[s].current
<1> DEFINE sq == q.sensors[s]
           new == IF CutsIn(policy, sq) THEN [current |-> frame, started |-> FALSE, waiting |-> sq.waiting]
                  ELSE [sq EXCEPT !.waiting = frame]
<1>1. PushSensorFrame(q, policy, s, frame).sensors[s] = new
  <2>1. PushSensorFrame(q, policy, s, frame) = [q EXCEPT !.sensors[s] = new]
    BY DEF PushSensorFrame
  <2>2. "sensors" \in DOMAIN q /\ s \in DOMAIN q.sensors
    BY DEF QueueShape
  <2> HIDE DEF new
  <2> QED  BY <2>1, <2>2
<1>2. sq = [current |-> sq.current, started |-> sq.started, waiting |-> sq.waiting] /\ sq.started \in BOOLEAN
  BY DEF QueueShape, SensorQueueShape
<1>3. IsSeq(sq.current) /\ IsSeq(sq.waiting)
  BY DEF QueueShape, SensorQueueShape
<1>q. sq = q.sensors[s]
  OBVIOUS
<1> HIDE DEF sq
<1>4. new = IF CutsIn(policy, sq) THEN [current |-> frame, started |-> FALSE, waiting |-> sq.waiting]
            ELSE [current |-> sq.current, started |-> sq.started, waiting |-> frame]
  <2>1. [sq EXCEPT !.waiting = frame] = [current |-> sq.current, started |-> sq.started, waiting |-> frame]
    BY <1>2
  <2> QED  BY <2>1
<1> HIDE DEF new
<1>5. SensorQueueShape(new)
  BY <1>2, <1>3, <1>4 DEF SensorQueueShape
<1>6. ASSUME NEW rendered, SlicesOf(sq, s, rendered), \A i \in 1..Len(frame) : SliceOf(frame[i], s, rendered)
      PROVE  SlicesOf(new, s, rendered)
  <2>1. new.current \in {frame, sq.current} /\ new.waiting \in {frame, sq.waiting}
    BY <1>4
  <2> QED  BY <1>6, <2>1 DEF SlicesOf
<1>7. policy # "Cut" /\ sq.started /\ sq.current # <<>> => new.current = sq.current
  BY <1>4 DEF CutsIn
<1> QED  BY <1>1, <1>5, <1>6, <1>7, <1>q

\* VideoRx::recv hands over one NAL of those the encoder holds out.
LEMMA OnNalFacts ==
  ASSUME SessionOnNal, SourceShape
  PROVE  \E nal \in Nal :
           /\ nal \in {source.critical[i] : i \in 1..Len(source.critical)}
                        \cup {source.latest_delta[i] : i \in 1..Len(source.latest_delta)}
           /\ queue' \in {queue, PushVideoNal(queue, nal)}
           /\ source'.critical \in Seq(Nal) /\ source'.latest_delta \in Seq(Nal)
           /\ \A i \in 1..Len(source'.critical) : \E j \in 1..Len(source.critical) :
                source'.critical[i] = source.critical[j]
           /\ \A i \in 1..Len(source'.latest_delta) : \E j \in 1..Len(source.latest_delta) :
                source'.latest_delta[i] = source.latest_delta[j]
           /\ source' = [next_nal_id |-> source.next_nal_id, gop |-> source.gop, picture |-> source.picture,
                         critical |-> source'.critical, latest_delta |-> source'.latest_delta,
                         frame_seq |-> source.frame_seq, slots |-> source.slots]
<1> DEFINE urgent == source.critical # <<>>
           nal == IF urgent THEN Head(source.critical) ELSE Head(source.latest_delta)
           crit == IF urgent THEN Tail(source.critical) ELSE source.critical
           delta == IF urgent THEN source.latest_delta ELSE <<>>
<1>t. /\ source.critical \in Seq(Nal) /\ source.latest_delta \in Seq(Nal)
      /\ source = [next_nal_id |-> source.next_nal_id, gop |-> source.gop, picture |-> source.picture,
                   critical |-> source.critical, latest_delta |-> source.latest_delta,
                   frame_seq |-> source.frame_seq, slots |-> source.slots]
  BY DEF SourceShape
<1>1. /\ urgent \/ source.latest_delta # <<>>
      /\ source' = IF urgent THEN [source EXCEPT !.critical = Tail(@)] ELSE [source EXCEPT !.latest_delta = <<>>]
      /\ queue' \in {queue, PushVideoNal(queue, nal)}
  BY DEF SessionOnNal
<1>2. /\ nal \in {source.critical[i] : i \in 1..Len(source.critical)}
                   \cup {source.latest_delta[i] : i \in 1..Len(source.latest_delta)}
      /\ nal \in Nal
  <2>1. ASSUME NEW q \in Seq(Nal), q # <<>> PROVE Head(q) = q[1] /\ 1 \in 1..Len(q) /\ Head(q) \in Nal
    BY <2>1
  <2> QED  BY <1>1, <1>t, <2>1
<1>3. crit \in Seq(Nal) /\ delta \in Seq(Nal)
  BY <1>t
<1>4. \A i \in 1..Len(crit) : \E j \in 1..Len(source.critical) : crit[i] = source.critical[j]
  <2>1. CASE urgent
    <3> DEFINE q == source.critical
               t == Tail(q)
    <3>1. q \in Seq(Nal) /\ q # <<>>
      BY <1>t, <2>1
    <3> HIDE DEF q
    <3>2. \A i \in 1..Len(t) : i + 1 \in 1..Len(q) /\ t[i] = q[i + 1]
      BY <3>1
    <3> QED  BY <2>1, <3>2 DEF q
  <2>2. CASE ~urgent
    BY <2>2
  <2> QED  BY <2>1, <2>2
<1>5. \A i \in 1..Len(delta) : \E j \in 1..Len(source.latest_delta) : delta[i] = source.latest_delta[j]
  <2>1. CASE urgent
    BY <2>1
  <2>2. CASE ~urgent
    <3>1. delta = <<>>
      BY <2>2
    <3> QED  BY <3>1, EmptySeq
  <2> QED  BY <2>1, <2>2
<1>6. source' = [next_nal_id |-> source.next_nal_id, gop |-> source.gop, picture |-> source.picture,
                 critical |-> crit, latest_delta |-> delta,
                 frame_seq |-> source.frame_seq, slots |-> source.slots]
  <2>1. CASE urgent
    <3>1. source' = [source EXCEPT !.critical = crit] /\ delta = source.latest_delta
      BY <1>1, <2>1
    <3> HIDE DEF crit, delta
    <3> QED  BY <1>t, <3>1
  <2>2. CASE ~urgent
    <3>1. source' = [source EXCEPT !.latest_delta = delta] /\ crit = source.critical
      BY <1>1, <2>2
    <3> HIDE DEF crit, delta
    <3> QED  BY <1>t, <3>1
  <2> QED  BY <2>1, <2>2
<1> HIDE DEF nal, crit, delta, urgent
<1>7. source'.critical = crit /\ source'.latest_delta = delta
  BY <1>6
<1> QED  BY <1>1, <1>2, <1>3, <1>4, <1>5, <1>6, <1>7

\* send_sensor_frames: every sensor's queue keeps its shape and holds slices of its own.
LEMMA OnFramesFacts ==
  ASSUME SessionOnSensorFrames, LoadShape, SourceShape, QueueShape(queue), SliceInv
  PROVE  /\ QueueShape(queue') /\ queue'.video = queue.video /\ queue'.video_turn = queue.video_turn
         /\ \A s \in Sensors : SlicesOf(queue'.sensors[s], s, source.frame_seq)
         /\ load.policy = "Finish" => \A s \in Sensors :
              queue.sensors[s].started /\ queue.sensors[s].current # <<>>
                => queue'.sensors[s].current = queue.sensors[s].current
<1> DEFINE Frame(s) == SliceFrame(s, source.slots[s], Encode(Kind[s], Measurement(s, source.slots[s])))
           sensors2 == [s \in Sensors |->
                          IF source.slots[s] = NoId \/ s \notin Selected \/ ~load.operating THEN queue.sensors[s]
                          ELSE PushSensorFrame(queue, load.policy, s, Frame(s)).sensors[s]]
<1>t. queue = [video |-> queue.video, skip_deltas_until_idr |-> queue.skip_deltas_until_idr,
               video_turn |-> queue.video_turn, sensors |-> queue.sensors, last_sensor |-> queue.last_sensor]
  BY DEF QueueShape
<1>1. queue' = [queue EXCEPT !.sensors = sensors2]
  BY DEF SessionOnSensorFrames
<1>2. ASSUME NEW s \in Sensors, source.slots[s] # NoId, s \in Selected
      PROVE  IsSeq(Frame(s)) /\ \A i \in 1..Len(Frame(s)) : SliceOf(Frame(s)[i], s, source.frame_seq)
  <2> DEFINE seq == source.slots[s]
             e == Encode(Kind[s], Measurement(s, seq))
             f == SliceFrame(s, seq, e)
  <2>1. seq \in Nat /\ source.frame_seq[s] \in Nat /\ seq < source.frame_seq[s]
    BY <1>2 DEF SourceShape, SliceInv
  <2> HIDE DEF seq
  <2>2. Size(e) \in Nat
    BY <2>1, EncodeSize
  <2> HIDE DEF e
  <2>3. /\ IsSeq(f)
        /\ \A i \in 1..Len(f) :
             /\ f[i].sensor_id = s /\ f[i].frame_seq = seq /\ f[i].slice_count = Size(Interleave(e))
             /\ f[i].slice_index \in DOMAIN Interleave(e) /\ f[i].payload = Interleave(e)[f[i].slice_index]
    BY <2>2, SliceFrameFacts
  <2>p. Payloads(s, seq) = Interleave(e)
    BY DEF Payloads, e
  <2>4. f = Frame(s)
    BY DEF seq, e
  <2> HIDE DEF f
  <2>5. \A i \in 1..Len(f) : SliceOf(f[i], s, source.frame_seq)
    BY <1>2, <2>1, <2>3, <2>p DEF SliceOf
  <2> HIDE DEF Frame
  <2> QED  BY <2>3, <2>4, <2>5
<1>3. ASSUME NEW s \in Sensors
      PROVE  /\ SensorQueueShape(sensors2[s]) /\ SlicesOf(sensors2[s], s, source.frame_seq)
             /\ load.policy = "Finish" /\ queue.sensors[s].started /\ queue.sensors[s].current # <<>>
                  => sensors2[s].current = queue.sensors[s].current
  <2>1. SensorQueueShape(queue.sensors[s]) /\ SlicesOf(queue.sensors[s], s, source.frame_seq)
    BY DEF QueueShape, SliceInv
  <2>2. CASE source.slots[s] = NoId \/ s \notin Selected \/ ~load.operating
    <3>1. sensors2[s] = queue.sensors[s]
      BY <2>2
    <3> HIDE DEF sensors2
    <3> QED  BY <2>1, <3>1
  <2>3. CASE ~(source.slots[s] = NoId \/ s \notin Selected \/ ~load.operating)
    <3> DEFINE f == Frame(s)
               new == PushSensorFrame(queue, load.policy, s, f).sensors[s]
    <3>1. sensors2[s] = new
      BY <2>3
    <3>2. IsSeq(f) /\ \A i \in 1..Len(f) : SliceOf(f[i], s, source.frame_seq)
      <4> HIDE DEF Frame
      <4> QED  BY <1>2, <2>3
    <3> HIDE DEF sensors2, f, new
    <3>3. /\ SensorQueueShape(new) /\ SlicesOf(new, s, source.frame_seq)
          /\ load.policy # "Cut" /\ queue.sensors[s].started /\ queue.sensors[s].current # <<>>
               => new.current = queue.sensors[s].current
      BY <2>1, <3>2, PushFrameFacts DEF new
    <3> QED  BY <3>1, <3>3
  <2> QED  BY <2>2, <2>3
<1>4. DOMAIN sensors2 = Sensors
  OBVIOUS
<1> HIDE DEF sensors2, Frame
<1>5. queue' = [video |-> queue.video, skip_deltas_until_idr |-> queue.skip_deltas_until_idr,
                video_turn |-> queue.video_turn, sensors |-> sensors2, last_sensor |-> queue.last_sensor]
  BY <1>t, <1>1
<1>6. /\ queue'.video = queue.video /\ queue'.video_turn = queue.video_turn /\ queue'.sensors = sensors2
      /\ queue'.last_sensor = queue.last_sensor
  BY <1>5
<1>7. QueueShape(queue')
  <2>1. queue' \in [video : Seq(PendingNal), skip_deltas_until_idr : BOOLEAN, video_turn : BOOLEAN,
                    sensors : {sensors2}, last_sensor : {queue.last_sensor}]
    BY <1>5 DEF QueueShape
  <2> QED  BY <1>3, <1>4, <1>6, <2>1 DEF QueueShape
<1> QED  BY <1>3, <1>6, <1>7

-----------------------------------------------------------------------------
(* What each step leaves alone.                                            *)

OnSomeChunk == \E c \in chunks : OnVideoChunk(c)
OnSomeSlice == \E d \in slices : OnSensorSlice(d)
Plays == PlayCritical \/ PlaybackWakes \/ PlaybackTakes \/ PlaybackWrites
Produces == EncodeNal \/ CaptureRestart \/ \E s \in Sensors : RenderFrame(s)

\* What each group of actions leaves alone.
LEMMA Untouched ==
  /\ Produces => UNCHANGED <<load, queue, chunks, slices, video_rx, gate, playback, decoder, sensors, display, history>>
  /\ Operate => UNCHANGED <<source, queue, chunks, slices, video_rx, gate, playback, decoder, sensors, display, history>>
  /\ SessionOnNal \/ SessionOnSensorFrames =>
       UNCHANGED <<load, chunks, slices, video_rx, gate, playback, decoder, sensors, display, history>>
  /\ FeedLossy => UNCHANGED <<load, source, video_rx, gate, playback, decoder, sensors, display>>
  /\ Lose => UNCHANGED <<load, source, queue, video_rx, gate, playback, decoder, sensors, display, history>>
  /\ OnSomeChunk => UNCHANGED <<load, source, queue, slices, decoder, sensors, display>>
  /\ Plays => UNCHANGED <<load, source, queue, chunks, slices, video_rx, gate, sensors, display, history>>
  /\ OnSomeSlice => UNCHANGED <<load, source, queue, chunks, video_rx, gate, playback, decoder, history>>
  /\ (\E s \in Sensors : PollSensors(s)) =>
       UNCHANGED <<load, source, queue, chunks, slices, video_rx, gate, playback, decoder, history>>
<1>1. Produces => UNCHANGED <<load, queue, chunks, slices, video_rx, gate, playback, decoder, sensors, display, history>>
  BY DEF Produces, EncodeNal, CaptureRestart, RenderFrame, net, video, lidar
<1>2. Operate => UNCHANGED <<source, queue, chunks, slices, video_rx, gate, playback, decoder, sensors, display, history>>
  BY DEF Operate, robot, net, video, lidar
<1>3. SessionOnNal \/ SessionOnSensorFrames =>
        UNCHANGED <<load, chunks, slices, video_rx, gate, playback, decoder, sensors, display, history>>
  BY DEF SessionOnNal, SessionOnSensorFrames, net, video, lidar
<1>4. FeedLossy => UNCHANGED <<load, source, video_rx, gate, playback, decoder, sensors, display>>
  BY DEF FeedLossy, video, lidar
<1>5. Lose => UNCHANGED <<load, source, queue, video_rx, gate, playback, decoder, sensors, display, history>>
  BY DEF Lose, robot, video, lidar
<1>6. OnSomeChunk => UNCHANGED <<load, source, queue, slices, decoder, sensors, display>>
  BY DEF OnSomeChunk, OnVideoChunk, robot, lidar
<1>7. Plays => UNCHANGED <<load, source, queue, chunks, slices, video_rx, gate, sensors, display, history>>
  BY DEF Plays, PlayCritical, PlaybackWakes, PlaybackTakes, PlaybackWrites, robot, net, lidar
<1>8. OnSomeSlice => UNCHANGED <<load, source, queue, chunks, video_rx, gate, playback, decoder, history>>
  BY DEF OnSomeSlice, OnSensorSlice, robot, video
<1>9. (\E s \in Sensors : PollSensors(s)) =>
        UNCHANGED <<load, source, queue, chunks, slices, video_rx, gate, playback, decoder, history>>
  BY DEF PollSensors, robot, net, video
<1> QED  BY <1>1, <1>2, <1>3, <1>4, <1>5, <1>6, <1>7, <1>8, <1>9

\* Only a lost connection ends a session, and no step changes what it was given.
LEMMA SessionStays ==
  ASSUME LoadShape,
         \/ Produces \/ Operate \/ SessionOnNal \/ SessionOnSensorFrames \/ FeedLossy \/ Lose
         \/ OnSomeChunk \/ Plays \/ OnSomeSlice \/ (\E s \in Sensors : PollSensors(s))
  PROVE  load'.session = load.session /\ load'.gop = load.gop /\ load'.backend = load.backend
<1>1. CASE Operate
  <2>1. load' = [load EXCEPT !.operating = TRUE]
    BY <1>1 DEF Operate
  <2> QED  BY <2>1 DEF LoadShape
<1>2. CASE load' = load
  BY <1>2
<1> QED  BY <1>1, <1>2, Untouched

\* The steps of the path.
LEMMA Steps ==
  ASSUME [Next]_vars
  PROVE  \/ Produces \/ Operate \/ SessionOnNal \/ SessionOnSensorFrames \/ FeedLossy \/ Lose \/ Reconnect
         \/ OnSomeChunk \/ Plays \/ OnSomeSlice \/ (\E s \in Sensors : PollSensors(s))
         \/ UNCHANGED vars
BY DEF Next, Produces, OnSomeChunk, OnSomeSlice, Plays

\* The robot's side of a step.
LEMMA ReconnectFacts ==
  ASSUME Reconnect, LoadShape, HistoryShape
  PROVE  /\ load' = [gop |-> load.gop, nals |-> load.nals, backend |-> load.backend, restarts |-> load.restarts,
                     fitted |-> load.fitted, frames |-> load.frames, policy |-> load.policy, drops |-> load.drops,
                     session |-> load.session + 1, operating |-> FALSE]
         /\ source' = NewSource /\ queue' = NewLossyQueue /\ chunks' = {} /\ slices' = {} /\ gate' = NewGate
         /\ sensors' = [s \in Sensors |-> NewAssembler]
         /\ history' = [slipped |-> history.slipped, torn |-> history.torn,
                        carried |-> history.carried \cup DOMAIN video_rx, passed_over |-> 0]
         /\ UNCHANGED <<video_rx, playback>>
<1>1. /\ load' = [load EXCEPT !.session = @ + 1, !.operating = FALSE]
      /\ history' = [history EXCEPT !.carried = @ \cup DOMAIN video_rx, !.passed_over = 0]
  BY DEF Reconnect
<1>2. load' = [gop |-> load.gop, nals |-> load.nals, backend |-> load.backend, restarts |-> load.restarts,
               fitted |-> load.fitted, frames |-> load.frames, policy |-> load.policy, drops |-> load.drops,
               session |-> load.session + 1, operating |-> FALSE]
  BY <1>1 DEF LoadShape
<1>3. history' = [slipped |-> history.slipped, torn |-> history.torn,
                  carried |-> history.carried \cup DOMAIN video_rx, passed_over |-> 0]
  BY <1>1 DEF HistoryShape
<1> QED  BY <1>2, <1>3 DEF Reconnect

\* The source, field by field.
SourceOf(next_nal_id, gop, picture, critical, latest_delta, frame_seq, slots) ==
  [next_nal_id |-> next_nal_id, gop |-> gop, picture |-> picture, critical |-> critical,
   latest_delta |-> latest_delta, frame_seq |-> frame_seq, slots |-> slots]

\* The source is the record of its seven fields.
LEMMA SourceFields ==
  ASSUME SourceShape
  PROVE  source = SourceOf(source.next_nal_id, source.gop, source.picture, source.critical, source.latest_delta,
                           source.frame_seq, source.slots)
BY DEF SourceShape, SourceOf

\* A new NAL has a new id, and is held out with those not taken yet.
LEMMA EncodeFacts ==
  ASSUME EncodeNal, LoadShape, SourceShape
  PROVE  \E nal \in Nal, gop \in 1..Len(load.gop), picture \in Nat \cup {NoId},
           critical \in Seq(Nal), delta \in Seq(Nal) :
           /\ nal = [session |-> load.session, id |-> source.next_nal_id, type |-> load.gop[source.gop],
                     from |-> IF load.gop[source.gop] = "P" THEN source.picture ELSE NoId]
           /\ gop = (source.gop % Len(load.gop)) + 1
           /\ picture = IF load.gop[source.gop] \in ParameterSet THEN source.picture ELSE source.next_nal_id
           /\ critical \in {source.critical, Append(source.critical, nal)} /\ delta \in {source.latest_delta, <<nal>>}
           /\ source' = SourceOf(source.next_nal_id + 1, gop, picture, critical, delta, source.frame_seq, source.slots)
<1> DEFINE type == load.gop[source.gop]
           nal == [session |-> load.session, id |-> source.next_nal_id, type |-> type,
                   from |-> IF type = "P" THEN source.picture ELSE NoId]
           gop == (source.gop % Len(load.gop)) + 1
           picture == IF type \in ParameterSet THEN source.picture ELSE nal.id
           critical == IF NalIsCritical(type) THEN Append(source.critical, nal) ELSE source.critical
           delta == IF NalIsCritical(type) THEN source.latest_delta ELSE <<nal>>
<1>1. /\ type \in NalType /\ load.session \in Nat /\ source.next_nal_id \in Nat
      /\ source.picture \in Nat \cup {NoId} /\ NoId = -1
  BY DEF LoadShape, SourceShape, NoId
<1>2. gop \in 1..Len(load.gop)
  <2>1. Len(load.gop) \in Nat \ {0} /\ source.gop \in 1..Len(load.gop)
    <3>1. load.gop \in Seq(NalType) /\ load.gop # <<>>
      BY DEF LoadShape
    <3> QED  BY <3>1 DEF LoadShape
  <2> QED  BY <2>1
<1>3. nal \in Nal /\ nal.id = source.next_nal_id
  BY <1>1 DEF Nal
<1>g. /\ nal = [session |-> load.session, id |-> source.next_nal_id, type |-> load.gop[source.gop],
                from |-> IF load.gop[source.gop] = "P" THEN source.picture ELSE NoId]
      /\ gop = (source.gop % Len(load.gop)) + 1
      /\ picture = IF load.gop[source.gop] \in ParameterSet THEN source.picture ELSE source.next_nal_id
  OBVIOUS
<1>4. source' = [source EXCEPT !.next_nal_id = @ + 1, !.gop = gop, !.picture = picture,
                               !.critical = critical, !.latest_delta = delta]
  BY DEF EncodeNal
<1>5. picture \in Nat \cup {NoId}
  BY <1>1, <1>3
<1>6. critical \in {source.critical, Append(source.critical, nal)} /\ delta \in {source.latest_delta, <<nal>>}
  OBVIOUS
<1> HIDE DEF type, nal, gop, picture, critical, delta
<1>s. critical \in Seq(Nal) /\ delta \in Seq(Nal)
  <2>1. source.critical \in Seq(Nal) /\ source.latest_delta \in Seq(Nal)
    BY DEF SourceShape
  <2>2. Append(source.critical, nal) \in Seq(Nal) /\ <<nal>> \in Seq(Nal)
    BY <1>3, <2>1
  <2> QED  BY <1>6, <2>1, <2>2
<1> DEFINE next == source.next_nal_id + 1
<1>7. source' = [source EXCEPT !.next_nal_id = next, !.gop = gop, !.picture = picture,
                               !.critical = critical, !.latest_delta = delta]
  BY <1>4
<1>n. next = source.next_nal_id + 1
  OBVIOUS
<1> HIDE DEF next
<1>8. source' = SourceOf(next, gop, picture, critical, delta, source.frame_seq, source.slots)
  BY <1>7, SourceFields DEF SourceOf
<1> QED  BY <1>2, <1>3, <1>5, <1>6, <1>8, <1>g, <1>n, <1>s

\* A camera restart begins the group of pictures again and changes nothing else.
LEMMA RestartFacts ==
  ASSUME CaptureRestart, SourceShape
  PROVE  source' = SourceOf(source.next_nal_id, 1, source.picture, source.critical, source.latest_delta,
                            source.frame_seq, source.slots)
<1>1. source' = [source EXCEPT !.gop = 1]
  BY DEF CaptureRestart
<1> QED  BY <1>1, SourceFields DEF SourceOf

\* A frame takes the next number of its sensor.
LEMMA RenderFacts ==
  ASSUME NEW s \in Sensors, RenderFrame(s), SourceShape
  PROVE  source' = SourceOf(source.next_nal_id, source.gop, source.picture, source.critical, source.latest_delta,
                            [source.frame_seq EXCEPT ![s] = @ + 1], [source.slots EXCEPT ![s] = source.frame_seq[s]])
<1> DEFINE seqs == [source.frame_seq EXCEPT ![s] = @ + 1]
           slots == [source.slots EXCEPT ![s] = source.frame_seq[s]]
<1>1. source' = [source EXCEPT !.slots[s] = source.frame_seq[s], !.frame_seq[s] = @ + 1]
  BY DEF RenderFrame
<1>2. source' = [source EXCEPT !.slots = slots, !.frame_seq = seqs]
  BY <1>1, SourceFields DEF SourceOf
<1> HIDE DEF seqs, slots
<1>3. source' = SourceOf(source.next_nal_id, source.gop, source.picture, source.critical, source.latest_delta, seqs, slots)
  BY <1>2, SourceFields DEF SourceOf
<1> QED  BY <1>3 DEF seqs, slots

\* send_sensor_frames empties the slots.
LEMMA TakeFacts ==
  ASSUME SessionOnSensorFrames, SourceShape
  PROVE  source' = SourceOf(source.next_nal_id, source.gop, source.picture, source.critical, source.latest_delta,
                            source.frame_seq, [s \in Sensors |-> NoId])
<1> DEFINE slots == [s \in Sensors |-> NoId]
<1>1. source' = [source EXCEPT !.slots = slots]
  BY DEF SessionOnSensorFrames
<1> HIDE DEF slots
<1>2. source' = SourceOf(source.next_nal_id, source.gop, source.picture, source.critical, source.latest_delta,
                         source.frame_seq, slots)
  BY <1>1, SourceFields DEF SourceOf
<1> QED  BY <1>2 DEF slots

-----------------------------------------------------------------------------
(* The robot's side keeps its shape, and the classes take turns.           *)

\* One more element, of the same set.
LEMMA AppendSeq == ASSUME NEW S, NEW q \in Seq(S), NEW x \in S PROVE Append(q, x) \in Seq(S)
OBVIOUS

\* Every step keeps the workload, the source and the history well typed.
LEMMA NextSourceShape == LoadShape /\ SourceShape /\ HistoryShape /\ [Next]_vars => LoadShape' /\ SourceShape'
<1> SUFFICES ASSUME LoadShape, SourceShape, HistoryShape, [Next]_vars PROVE LoadShape' /\ SourceShape'
  OBVIOUS
<1>t. /\ source.next_nal_id \in Nat /\ source.gop \in Nat /\ source.picture \in Nat \cup {NoId}
      /\ source.critical \in Seq(Nal) /\ source.latest_delta \in Seq(Nal)
      /\ source.frame_seq \in [Sensors -> Nat] /\ source.slots \in [Sensors -> Nat \cup {NoId}]
      /\ source.gop \in 1..Len(load.gop) /\ Len(load.gop) \in Nat
  BY DEF LoadShape, SourceShape
<1>a. ASSUME load' = load, source'.gop \in 1..Len(load.gop) PROVE LoadShape'
  BY <1>a DEF LoadShape
<1>1. CASE EncodeNal
  <2>1. load' = load
    BY <1>1, Untouched DEF Produces
  <2>2. PICK nal \in Nal, gop \in 1..Len(load.gop), picture \in Nat \cup {NoId},
           critical \in Seq(Nal), delta \in Seq(Nal) :
           /\ critical \in {source.critical, Append(source.critical, nal)} /\ delta \in {source.latest_delta, <<nal>>}
           /\ source' = SourceOf(source.next_nal_id + 1, gop, picture, critical, delta, source.frame_seq, source.slots)
    BY <1>1, EncodeFacts
  <2>3. critical \in Seq(Nal) /\ delta \in Seq(Nal) /\ source.next_nal_id + 1 \in Nat /\ gop \in Nat
    <3>1. Append(source.critical, nal) \in Seq(Nal)
      BY <1>t, AppendSeq
    <3>2. <<nal>> \in Seq(Nal)
      OBVIOUS
    <3>3. critical \in {source.critical, Append(source.critical, nal)} /\ delta \in {source.latest_delta, <<nal>>}
      BY <2>2
    <3>4. critical \in Seq(Nal)
      BY <1>t, <3>1, <3>3
    <3>5. delta \in Seq(Nal)
      BY <1>t, <3>2, <3>3
    <3>6. source.next_nal_id + 1 \in Nat /\ gop \in Nat
      BY <1>t
    <3> QED  BY <3>4, <3>5, <3>6
  <2>4. SourceShape' /\ source'.gop = gop
    BY <1>t, <2>2, <2>3 DEF SourceOf, SourceShape
  <2> QED  BY <1>a, <2>1, <2>4
<1>2. CASE CaptureRestart
  <2>1. load' = load
    BY <1>2, Untouched DEF Produces
  <2>2. SourceShape' /\ source'.gop = 1
    BY <1>2, <1>t, RestartFacts DEF SourceOf, SourceShape
  <2>3. 1 \in 1..Len(load.gop)
    BY <1>t
  <2> QED  BY <1>a, <2>1, <2>2, <2>3
<1>3. ASSUME NEW s \in Sensors, RenderFrame(s) PROVE LoadShape' /\ SourceShape'
  <2> DEFINE seqs == [source.frame_seq EXCEPT ![s] = @ + 1]
             slots == [source.slots EXCEPT ![s] = source.frame_seq[s]]
  <2>1. load' = load
    BY <1>3, Untouched DEF Produces
  <2>2. source' = SourceOf(source.next_nal_id, source.gop, source.picture, source.critical, source.latest_delta, seqs, slots)
    BY <1>3, RenderFacts
  <2>3. seqs \in [Sensors -> Nat] /\ slots \in [Sensors -> Nat \cup {NoId}]
    BY <1>t
  <2> HIDE DEF seqs, slots
  <2>4. SourceShape' /\ source'.gop = source.gop
    BY <1>t, <2>2, <2>3 DEF SourceOf, SourceShape
  <2> QED  BY <1>a, <1>t, <2>1, <2>4
<1>4. CASE Operate
  <2>1. source' = source
    BY <1>4, Untouched
  <2>2. load' = [load EXCEPT !.operating = TRUE]
    BY <1>4 DEF Operate
  <2> QED  BY <2>1, <2>2 DEF LoadShape, SourceShape
<1>5. CASE SessionOnNal
  <2>1. load' = load
    BY <1>5, Untouched
  <2>2. /\ source'.critical \in Seq(Nal) /\ source'.latest_delta \in Seq(Nal)
        /\ source' = SourceOf(source.next_nal_id, source.gop, source.picture, source'.critical, source'.latest_delta,
                              source.frame_seq, source.slots)
    BY <1>5, OnNalFacts DEF SourceOf
  <2>3. SourceShape' /\ source'.gop = source.gop
    <3>1. ASSUME NEW c \in Seq(Nal), NEW d \in Seq(Nal), c = source'.critical, d = source'.latest_delta
          PROVE  SourceShape' /\ source'.gop = source.gop
      BY <1>t, <2>2, <3>1 DEF SourceOf, SourceShape
    <3> QED  BY <2>2, <3>1
  <2> QED  BY <1>a, <1>t, <2>1, <2>3
<1>6. CASE SessionOnSensorFrames
  <2> DEFINE slots == [s \in Sensors |-> NoId]
  <2>1. load' = load
    BY <1>6, Untouched
  <2>2. source' = SourceOf(source.next_nal_id, source.gop, source.picture, source.critical, source.latest_delta,
                           source.frame_seq, slots)
    BY <1>6, TakeFacts
  <2>3. slots \in [Sensors -> Nat \cup {NoId}]
    OBVIOUS
  <2> HIDE DEF slots
  <2>4. SourceShape' /\ source'.gop = source.gop
    BY <1>t, <2>2, <2>3 DEF SourceOf, SourceShape
  <2> QED  BY <1>a, <1>t, <2>1, <2>4
<1>7. CASE Reconnect
  <2>1. /\ load' = [gop |-> load.gop, nals |-> load.nals, backend |-> load.backend, restarts |-> load.restarts,
                    fitted |-> load.fitted, frames |-> load.frames, policy |-> load.policy, drops |-> load.drops,
                    session |-> load.session + 1, operating |-> FALSE]
        /\ source' = NewSource
    BY <1>7, ReconnectFacts
  <2>2. SourceShape' /\ source'.gop = 1
    BY <2>1 DEF SourceShape, NewSource
  <2>3. 1 \in 1..Len(load.gop)
    BY <1>t
  <2> QED  BY <2>1, <2>2, <2>3 DEF LoadShape
<1>8. CASE UNCHANGED <<load, source>>
  BY <1>8 DEF LoadShape, SourceShape
<1> QED  BY <1>1, <1>2, <1>3, <1>4, <1>5, <1>6, <1>7, <1>8, Steps, Untouched DEF Produces, vars

\* The queue when the session begins.
LEMMA NewQueue ==
  /\ QueueShape(NewLossyQueue) /\ ChunksOf(NewLossyQueue) /\ NalsOf(NewLossyQueue) = {}
  /\ NewLossyQueue.video = <<>>
  /\ \A rendered : \A s \in Sensors : SlicesOf(NewLossyQueue.sensors[s], s, rendered)
<1> DEFINE q == NewLossyQueue
           sensors0 == [s \in Sensors |-> NewSensorQueue]
<1>1. q = [video |-> <<>>, skip_deltas_until_idr |-> FALSE, video_turn |-> FALSE,
           sensors |-> sensors0, last_sensor |-> NoId]
  BY DEF NewLossyQueue
<1>2. SensorQueueShape(NewSensorQueue) /\ NewSensorQueue.current = <<>> /\ NewSensorQueue.waiting = <<>>
  BY EmptySeq DEF SensorQueueShape, NewSensorQueue
<1>3. DOMAIN sensors0 = Sensors /\ \A s \in Sensors : sensors0[s] = NewSensorQueue
  OBVIOUS
<1> HIDE DEF q, sensors0
<1>4. q.video = <<>> /\ q.sensors = sensors0 /\ q.last_sensor = NoId
  BY <1>1
<1>5. QueueShape(q)
  <2>1. q \in [video : Seq(PendingNal), skip_deltas_until_idr : BOOLEAN, video_turn : BOOLEAN,
               sensors : {sensors0}, last_sensor : {NoId}]
    BY <1>1
  <2> QED  BY <1>2, <1>3, <1>4, <2>1 DEF QueueShape
<1>6. ChunksOf(q) /\ NalsOf(q) = {}
  BY <1>4, EmptySeq DEF ChunksOf, NalsOf
<1>7. \A rendered : \A s \in Sensors : SlicesOf(q.sensors[s], s, rendered)
  BY <1>2, <1>3, <1>4, EmptySeq DEF SlicesOf
<1> QED  BY <1>4, <1>5, <1>6, <1>7 DEF q

\* feed_lossy: one datagram goes out, and the turn passes.
LEMMA FeedFacts ==
  ASSUME FeedLossy, QueueShape(queue), ChunksOf(queue), HistoryShape, TurnInv
  PROVE  /\ QueueShape(queue') /\ ChunksOf(queue') /\ NalsOf(queue') \subseteq NalsOf(queue)
         /\ HistoryShape' /\ TurnInv'
         /\ UNCHANGED <<history.slipped, history.torn, history.carried>>
         /\ chunks' = chunks \/ \E c \in Chunk : ChunkOf(c) /\ c.nal \in NalsOf(queue) /\ chunks' = chunks \cup {c}
         /\ \A s \in Sensors : queue'.sensors[s] = queue.sensors[s] \/ Advances(queue.sensors[s], queue'.sensors[s])
         /\ \A rendered : (\A s \in Sensors : SlicesOf(queue.sensors[s], s, rendered)) =>
              /\ \A s \in Sensors : SlicesOf(queue'.sensors[s], s, rendered)
              /\ \A d \in slices' : d \in slices \/ SliceOf(d, d.sensor_id, rendered)
<1>1. PICK q \in {queue} \cup (IF DeltaWaiting(queue) THEN {ExpireStaleVideo(queue)} ELSE {}) :
        IF Empty(q)
        THEN /\ queue' = PopNothing(q)
             /\ history' = [history EXCEPT !.passed_over = 0]
             /\ UNCHANGED net
        ELSE LET popped == Pop(q)
             IN  /\ queue' = popped.q
                 /\ history' = [history EXCEPT !.passed_over = PassedOver(q, popped.class)]
                 /\ IF popped.class = "Video"
                    THEN chunks' = chunks \cup {popped.datagram} /\ UNCHANGED slices
                    ELSE slices' = slices \cup {popped.datagram} /\ UNCHANGED chunks
  BY DEF FeedLossy
<1>2. /\ QueueShape(q) /\ ChunksOf(q) /\ NalsOf(q) \subseteq NalsOf(queue)
      /\ q.sensors = queue.sensors /\ q.video_turn = queue.video_turn
  <2>1. q \in {queue, ExpireStaleVideo(queue)}
    BY <1>1
  <2>2. CASE q = queue
    BY <2>2
  <2>3. CASE q = ExpireStaleVideo(queue)
    BY <2>3, ExpireFacts
  <2> QED  BY <2>1, <2>2, <2>3
<1>h. ASSUME NEW p \in {-1, 0, 1}, history' = [history EXCEPT !.passed_over = p]
      PROVE  /\ HistoryShape' /\ UNCHANGED <<history.slipped, history.torn, history.carried>>
             /\ history'.passed_over = p
  BY <1>h DEF HistoryShape
<1>b. queue.video_turn \in BOOLEAN
  BY DEF QueueShape
<1>3. CASE Empty(q)
  <2>1. /\ queue' = PopNothing(q) /\ history' = [history EXCEPT !.passed_over = 0]
        /\ chunks' = chunks /\ slices' = slices
    BY <1>1, <1>3 DEF net
  <2>2. /\ HistoryShape' /\ UNCHANGED <<history.slipped, history.torn, history.carried>>
        /\ history'.passed_over = 0
    BY <1>h, <2>1
  <2>3. queue' = [video |-> q.video, skip_deltas_until_idr |-> q.skip_deltas_until_idr, video_turn |-> ~q.video_turn,
                  sensors |-> q.sensors, last_sensor |-> q.last_sensor]
    BY <1>2, <2>1 DEF PopNothing, QueueShape
  <2>4. /\ queue'.video = q.video /\ queue'.sensors = q.sensors /\ queue'.last_sensor = q.last_sensor
    BY <2>3
  <2>5. QueueShape(queue')
    <3>1. queue' \in [video : Seq(PendingNal), skip_deltas_until_idr : BOOLEAN, video_turn : BOOLEAN,
                      sensors : {q.sensors}, last_sensor : {q.last_sensor}]
      BY <1>2, <2>3 DEF QueueShape
    <3> QED  BY <1>2, <2>4, <3>1 DEF QueueShape
  <2>6. ChunksOf(queue') /\ NalsOf(queue') = NalsOf(q)
    BY <1>2, <2>4 DEF ChunksOf, NalsOf
  <2>7. TurnInv'
    BY <2>2 DEF TurnInv
  <2> QED  BY <1>2, <2>1, <2>2, <2>4, <2>5, <2>6, <2>7
<1>4. CASE ~Empty(q)
  <2> DEFINE r == Pop(q)
             p == PassedOver(q, r.class)
  <2>1. /\ queue' = r.q /\ history' = [history EXCEPT !.passed_over = p]
        /\ IF r.class = "Video" THEN chunks' = chunks \cup {r.datagram} /\ UNCHANGED slices
           ELSE slices' = slices \cup {r.datagram} /\ UNCHANGED chunks
    BY <1>1, <1>4
  <2>2. /\ QueueShape(r.q) /\ r.q.video_turn = ~q.video_turn
        /\ ChunksOf(r.q) /\ NalsOf(r.q) \subseteq NalsOf(q)
        /\ \/ /\ r.class = "Video" /\ r.q.sensors = q.sensors
              /\ r.datagram \in Chunk /\ ChunkOf(r.datagram) /\ r.datagram.nal \in NalsOf(q)
              /\ q.video_turn \/ SensorWaiting(q) = {}
           \/ /\ r.class = "Sensor"
              /\ ~q.video_turn \/ q.video = <<>>
              /\ \A s \in Sensors : r.q.sensors[s] = q.sensors[s] \/ Advances(q.sensors[s], r.q.sensors[s])
              /\ \A rendered : (\A s \in Sensors : SlicesOf(q.sensors[s], s, rendered)) =>
                   /\ SliceOf(r.datagram, r.datagram.sensor_id, rendered)
                   /\ \A s \in Sensors : SlicesOf(r.q.sensors[s], s, rendered)
    BY <1>2, <1>4, PopFacts
  <2>p. p = PassedOver(q, r.class)
    OBVIOUS
  <2>q. r.q = queue'
    BY <2>1
  <2> HIDE DEF r, p
  <2>3. /\ p \in {-1, 0, 1}
        /\ p = 1 => q.video_turn
        /\ p = -1 => ~q.video_turn
    <3> DEFINE h == history.passed_over
               turn == queue.video_turn
    <3>1. /\ h \in {-1, 0, 1} /\ turn \in BOOLEAN
          /\ h = 1 => ~turn
          /\ h = -1 => turn
      BY <1>b DEF HistoryShape, TurnInv
    <3>2. p = IF q.video = <<>> \/ SensorWaiting(q) = {} THEN 0
              ELSE IF r.class = "Video" THEN Larger(h, 0) + 1 ELSE -(Larger(-h, 0) + 1)
      BY <2>p DEF PassedOver
    <3>3. q.video_turn = turn
      BY <1>2
    <3> HIDE DEF h, turn
    <3>4. CASE q.video = <<>> \/ SensorWaiting(q) = {}
      <4>1. p = 0
        BY <3>2, <3>4
      <4> QED  BY <4>1
    <3>5. CASE ~(q.video = <<>> \/ SensorWaiting(q) = {}) /\ r.class = "Video"
      <4>1. turn
        BY <2>2, <3>3, <3>5
      <4>2. h \in {-1, 0}
        BY <3>1, <4>1
      <4>3. p = 1
        <5>1. p = Larger(h, 0) + 1
          BY <3>2, <3>5
        <5> QED  BY <4>2, <5>1 DEF Larger
      <4> QED  BY <3>3, <4>1, <4>3
    <3>6. CASE ~(q.video = <<>> \/ SensorWaiting(q) = {}) /\ r.class # "Video"
      <4>1. ~turn
        BY <2>2, <3>3, <3>6
      <4>2. h \in {0, 1}
        BY <3>1, <4>1
      <4>3. p = -1
        <5>1. p = -(Larger(-h, 0) + 1)
          BY <3>2, <3>6
        <5> QED  BY <4>2, <5>1 DEF Larger
      <4> QED  BY <3>3, <4>1, <4>3
    <3> QED  BY <3>4, <3>5, <3>6
  <2>4. /\ HistoryShape' /\ UNCHANGED <<history.slipped, history.torn, history.carried>>
        /\ history'.passed_over = p
    BY <1>h, <2>1, <2>3
  <2>5. TurnInv'
    <3>1. queue'.video_turn = ~q.video_turn
      BY <2>2, <2>q
    <3> QED  BY <2>3, <2>4, <3>1 DEF TurnInv
  <2>6. QueueShape(queue') /\ ChunksOf(queue') /\ NalsOf(queue') \subseteq NalsOf(queue)
    BY <1>2, <2>1, <2>2
  <2>7. CASE r.class = "Video"
    <3>1. /\ queue'.sensors = queue.sensors /\ slices' = slices /\ chunks' = chunks \cup {r.datagram}
          /\ r.datagram \in Chunk /\ ChunkOf(r.datagram) /\ r.datagram.nal \in NalsOf(queue)
      BY <1>2, <2>1, <2>2, <2>7
    <3> QED  BY <2>4, <2>5, <2>6, <3>1
  <2>8. CASE r.class # "Video"
    <3>1. slices' = slices \cup {r.datagram} /\ chunks' = chunks
      BY <2>1, <2>8
    <3>2. \A s \in Sensors : queue'.sensors[s] = queue.sensors[s] \/ Advances(queue.sensors[s], queue'.sensors[s])
      BY <1>2, <2>1, <2>2, <2>8
    <3>3. ASSUME NEW rendered, \A s \in Sensors : SlicesOf(queue.sensors[s], s, rendered)
          PROVE  /\ \A s \in Sensors : SlicesOf(queue'.sensors[s], s, rendered)
                 /\ \A d \in slices' : d \in slices \/ SliceOf(d, d.sensor_id, rendered)
      <4>1. /\ SliceOf(r.datagram, r.datagram.sensor_id, rendered)
            /\ \A s \in Sensors : SlicesOf(r.q.sensors[s], s, rendered)
        BY <1>2, <2>2, <2>8, <3>3
      <4> QED  BY <2>1, <3>1, <4>1
    <3> QED  BY <2>4, <2>5, <2>6, <3>1, <3>2, <3>3
  <2> QED  BY <2>7, <2>8
<1> QED  BY <1>3, <1>4

-----------------------------------------------------------------------------
(* The console's video: NalReassembler, DeltaGate and the hand-over.       *)

\* A function with one more argument, and with fewer.
LEMMA WithFacts ==
  ASSUME NEW f, NEW x, NEW v
  PROVE  /\ DOMAIN With(f, x, v) = DOMAIN f \cup {x} /\ With(f, x, v)[x] = v
         /\ \A y \in DOMAIN f : y # x => With(f, x, v)[y] = f[y]
BY DEF With

\* A function kept on a set has the values it had there.
LEMMA KeepFacts ==
  ASSUME NEW f, NEW S
  PROVE  DOMAIN Keep(f, S) = DOMAIN f \cap S /\ \A y \in DOMAIN f \cap S : Keep(f, S)[y] = f[y]
BY DEF Keep

\* Eviction takes the pending NALs back under their bound.
LEMMA EvictFacts ==
  ASSUME NEW f, DOMAIN f \subseteq Nat, IsFiniteSet(DOMAIN f), Cardinality(DOMAIN f) <= MaxPendingNals + 1
  PROVE  /\ DOMAIN Evict(f) \subseteq DOMAIN f /\ IsFiniteSet(DOMAIN Evict(f))
         /\ Cardinality(DOMAIN Evict(f)) <= MaxPendingNals
         /\ \A x \in DOMAIN Evict(f) : Evict(f)[x] = f[x]
<1> DEFINE D == DOMAIN f
           n == Cardinality(D)
<1>1. n \in Nat /\ MaxPendingNals \in Nat \ {0}
  BY FS_CardinalityType, MediaPathAssumption
<1>2. CASE n <= MaxPendingNals
  BY <1>2 DEF Evict
<1>3. CASE ~(n <= MaxPendingNals)
  <2> DEFINE x == Least(D)
  <2>1. D # {}
    BY <1>1, <1>3, FS_EmptySet
  <2>2. x \in D
    BY <2>1, LeastFacts
  <2> HIDE DEF x
  <2>3. IsFiniteSet(D \ {x}) /\ Cardinality(D \ {x}) = n - 1
    BY <2>2, FS_RemoveElement
  <2>4. Evict(f) = Keep(f, D \ {x})
    BY <1>3 DEF Evict, x
  <2>5. DOMAIN Evict(f) = D \ {x} /\ \A y \in D \ {x} : Evict(f)[y] = f[y]
    <3>1. Evict(f) = [y \in D \cap (D \ {x}) |-> f[y]]
      BY <2>4 DEF Keep
    <3>2. D \cap (D \ {x}) = D \ {x}
      OBVIOUS
    <3> HIDE DEF D
    <3> QED  BY <3>1, <3>2
  <2>6. n - 1 <= MaxPendingNals
    BY <1>1
  <2> QED  BY <2>3, <2>5, <2>6
<1> QED  BY <1>2, <1>3

\* The entry of a NAL after one more chunk: the chunk is in its place unless that was taken.
LEMMA WithChunkFacts ==
  ASSUME NEW c \in Chunk, ReceiverShape
  PROVE  /\ EntryShape(WithChunk(c)) /\ c.index \in DOMAIN WithChunk(c).parts
         /\ \A k \in DOMAIN WithChunk(c).parts :
              \/ WithChunk(c).parts[k] = c.nal /\ k = c.index
              \/ /\ c.nal.id \in DOMAIN video_rx /\ k \in DOMAIN video_rx[c.nal.id].parts
                 /\ WithChunk(c).parts[k] = video_rx[c.nal.id].parts[k]
         /\ \/ c.is_last /\ WithChunk(c).total = c.index + 1
            \/ ~c.is_last /\ WithChunk(c).total = NoId /\ c.nal.id \notin DOMAIN video_rx
            \/ ~c.is_last /\ c.nal.id \in DOMAIN video_rx /\ WithChunk(c).total = video_rx[c.nal.id].total
         /\ c.nal.id \in DOMAIN video_rx => \A k \in DOMAIN video_rx[c.nal.id].parts :
              k \in DOMAIN WithChunk(c).parts /\ WithChunk(c).parts[k] = video_rx[c.nal.id].parts[k]
         /\ \/ WithChunk(c).parts[c.index] = c.nal
            \/ c.nal.id \in DOMAIN video_rx /\ WithChunk(c).parts = video_rx[c.nal.id].parts
<1> DEFINE known == c.nal.id \in DOMAIN video_rx
           old == IF known THEN video_rx[c.nal.id] ELSE [parts |-> <<>>, total |-> NoId]
           parts == IF c.index \in DOMAIN old.parts THEN old.parts ELSE With(old.parts, c.index, c.nal)
           total == IF c.is_last THEN c.index + 1 ELSE old.total
<1>1. WithChunk(c) = [parts |-> parts, total |-> total]
  BY DEF WithChunk
<1>2. c.nal \in Nal /\ c.index \in Nat /\ c.is_last \in BOOLEAN
  BY DEF Chunk
<1>3. /\ old.total \in Nat \cup {NoId} /\ DOMAIN old.parts \subseteq Nat
      /\ \A k \in DOMAIN old.parts : old.parts[k] \in Nal
  <2>1. CASE known
    <3> DEFINE e == video_rx[c.nal.id]
    <3>1. EntryShape(e) /\ old = e
      BY <2>1 DEF ReceiverShape
    <3> HIDE DEF e, old
    <3> QED  BY <3>1 DEF EntryShape
  <2>2. CASE ~known
    <3>1. old = [parts |-> <<>>, total |-> NoId]
      BY <2>2
    <3> HIDE DEF old
    <3>2. old.parts = <<>> /\ old.total = NoId /\ DOMAIN old.parts = {}
      BY <3>1
    <3> QED  BY <3>2
  <2> QED  BY <2>1, <2>2
<1>4. /\ known => old = video_rx[c.nal.id]
      /\ ~known => DOMAIN old.parts = {} /\ old.total = NoId
  OBVIOUS
<1> HIDE DEF old
<1>5. /\ c.index \in DOMAIN parts /\ DOMAIN parts \subseteq DOMAIN old.parts \cup {c.index}
      /\ \A k \in DOMAIN parts :
           (parts[k] = c.nal /\ k = c.index) \/ (k \in DOMAIN old.parts /\ parts[k] = old.parts[k])
      /\ \A k \in DOMAIN old.parts : k \in DOMAIN parts /\ parts[k] = old.parts[k]
      /\ parts[c.index] = c.nal \/ (parts = old.parts /\ DOMAIN old.parts # {})
  <2>1. CASE c.index \in DOMAIN old.parts
    <3>1. parts = old.parts
      BY <2>1
    <3> HIDE DEF parts
    <3> QED  BY <2>1, <3>1
  <2>2. CASE c.index \notin DOMAIN old.parts
    <3> DEFINE f == old.parts
               x == c.index
               v == c.nal
    <3>1. parts = [y \in DOMAIN f \cup {x} |-> IF y = x THEN v ELSE f[y]]
      BY <2>2 DEF With
    <3>2. f = old.parts /\ x = c.index /\ v = c.nal
      OBVIOUS
    <3> HIDE DEF parts, f, x, v
    <3>3. /\ DOMAIN parts = DOMAIN f \cup {x}
          /\ \A k \in DOMAIN parts : (k = x /\ parts[k] = v) \/ (k \in DOMAIN f /\ parts[k] = f[k])
          /\ parts[x] = v /\ \A k \in DOMAIN f : k # x => parts[k] = f[k]
      BY <3>1
    <3>5. x \notin DOMAIN f
      BY <2>2, <3>2
    <3>6. \A k \in DOMAIN f : k \in DOMAIN parts /\ parts[k] = f[k]
      BY <3>3, <3>5
    <3>4. /\ x \in DOMAIN parts /\ DOMAIN parts \subseteq DOMAIN f \cup {x}
          /\ \A k \in DOMAIN parts : (parts[k] = v /\ k = x) \/ (k \in DOMAIN f /\ parts[k] = f[k])
      BY <3>3
    <3> QED  BY <3>2, <3>3, <3>4, <3>6
  <2> QED  BY <2>1, <2>2
<1>6. /\ c.is_last => total = c.index + 1
      /\ ~c.is_last => total = old.total
  OBVIOUS
<1> HIDE DEF parts, total
<1>7. WithChunk(c).parts = parts /\ WithChunk(c).total = total
  BY <1>1
<1>8. total \in Nat \cup {NoId}
  BY <1>2, <1>3, <1>6
<1>9. DOMAIN parts \subseteq Nat /\ \A k \in DOMAIN parts : parts[k] \in Nal
  BY <1>2, <1>3, <1>5
<1>10. EntryShape(WithChunk(c))
  <2>1. WithChunk(c) \in [parts : {parts}, total : Nat \cup {NoId}]
    BY <1>1, <1>8
  <2> QED  BY <1>7, <1>9, <2>1 DEF EntryShape
<1>11. \A k \in DOMAIN parts :
         \/ parts[k] = c.nal /\ k = c.index
         \/ known /\ k \in DOMAIN video_rx[c.nal.id].parts /\ parts[k] = video_rx[c.nal.id].parts[k]
  BY <1>4, <1>5
<1>12. \/ c.is_last /\ total = c.index + 1
       \/ ~c.is_last /\ total = NoId /\ ~known
       \/ ~c.is_last /\ known /\ total = video_rx[c.nal.id].total
  BY <1>4, <1>6
<1>13. /\ known => \A k \in DOMAIN video_rx[c.nal.id].parts :
            k \in DOMAIN parts /\ parts[k] = video_rx[c.nal.id].parts[k]
       /\ \/ parts[c.index] = c.nal
          \/ known /\ parts = video_rx[c.nal.id].parts
  BY <1>4, <1>5
<1> QED  BY <1>5, <1>7, <1>10, <1>11, <1>12, <1>13

\* The NAL that is handed on has the id of its chunks.
LEMMA ReassembledFacts ==
  ASSUME NEW entry, EntryShape(entry), DOMAIN entry.parts # {}
  PROVE  /\ Reassembled(entry) \in Nal
         /\ \E k \in DOMAIN entry.parts : Reassembled(entry).id = entry.parts[k].id
<1> DEFINE k == Least(DOMAIN entry.parts)
           nal == entry.parts[k]
           s == IF Whole(entry) THEN nal.session ELSE 0
<1>1. k \in DOMAIN entry.parts
  BY LeastFacts DEF EntryShape
<1> HIDE DEF k
<1>2. nal \in Nal
  BY <1>1 DEF EntryShape
<1>3. Reassembled(entry) = [nal EXCEPT !.session = s]
  BY DEF Reassembled, k
<1>q. nal = entry.parts[k]
  OBVIOUS
<1> HIDE DEF nal
<1>4. s \in Nat
  BY <1>2 DEF Nal
<1> HIDE DEF s
<1>5. Reassembled(entry) \in Nal /\ Reassembled(entry).id = nal.id
  BY <1>2, <1>3, <1>4 DEF Nal
<1> QED  BY <1>1, <1>5, <1>q

\* DeltaGate and DeltaSlot keep their shape.
LEMMA AdmitShape ==
  ASSUME NEW g \in [next_id : Nat \cup {NoId}, frozen : BOOLEAN], NEW id \in Nat, NEW type
  PROVE  Admit(g, id, type).gate \in [next_id : Nat \cup {NoId}, frozen : BOOLEAN]
<1> DEFINE restarted == g.next_id # NoId /\ id + RestartGap < g.next_id
           at == IF restarted THEN NewGate ELSE g
           late == at.next_id # NoId /\ id < at.next_id
           frozen == at.frozen \/ (at.next_id # NoId /\ id > at.next_id)
           open == [next_id |-> id + 1, frozen |-> frozen /\ type # "IDR"]
<1>1. at \in [next_id : Nat \cup {NoId}, frozen : BOOLEAN]
  BY DEF NewGate
<1>2. open \in [next_id : Nat \cup {NoId}, frozen : BOOLEAN]
  OBVIOUS
<1>3. Admit(g, id, type).gate = at \/ Admit(g, id, type).gate = open
  BY DEF Admit
<1> HIDE DEF at, open
<1> QED  BY <1>1, <1>2, <1>3

\* What is pending after a chunk: what was, and the NAL of the chunk if it is not complete.
LEMMA ChunkPending ==
  ASSUME NEW c \in chunks, OnVideoChunk(c), ReceiverShape, PendingBound
  PROVE  /\ IsFiniteSet(DOMAIN video_rx') /\ Cardinality(DOMAIN video_rx') <= MaxPendingNals
         /\ \A x \in DOMAIN video_rx' :
              \/ x \in DOMAIN video_rx /\ video_rx'[x] = video_rx[x]
              \/ x = c.nal.id /\ video_rx'[x] = WithChunk(c) /\ ~Completed(WithChunk(c))
<1> DEFINE entry == WithChunk(c)
           id == c.nal.id
           D == DOMAIN video_rx
           g == IF ~Completed(entry) THEN [y \in D \cup {id} |-> IF y = id THEN entry ELSE video_rx[y]]
                ELSE [y \in D \cap (D \ {id}) |-> video_rx[y]]
<1>1. video_rx' = Evict(g)
  BY DEF OnVideoChunk, With, Keep
<1>2. c \in Chunk /\ id \in Nat
  BY DEF ReceiverShape, Chunk, Nal
<1>3. D \subseteq Nat /\ IsFiniteSet(D) /\ Cardinality(D) <= MaxPendingNals /\ MaxPendingNals \in Nat \ {0}
  BY MediaPathAssumption DEF ReceiverShape, PendingBound
<1>4. entry = WithChunk(c) /\ id = c.nal.id /\ D = DOMAIN video_rx
  OBVIOUS
<1> HIDE DEF entry, id, D
<1>5. /\ DOMAIN g = D \cup {id} \/ DOMAIN g = D \cap (D \ {id})
      /\ \A x \in DOMAIN g :
           (x \in D /\ g[x] = video_rx[x]) \/ (x = id /\ g[x] = entry /\ ~Completed(entry))
  OBVIOUS
<1> HIDE DEF g
<1>6. IsFiniteSet(D \cup {id}) /\ Cardinality(D \cup {id}) <= MaxPendingNals + 1
  <2>1. IsFiniteSet(D \cup {id}) /\ Cardinality(D \cup {id}) \in {Cardinality(D), Cardinality(D) + 1}
    BY <1>3, FS_AddElement
  <2> QED  BY <1>3, <2>1, FS_CardinalityType
<1>7. DOMAIN g \subseteq D \cup {id}
  BY <1>5
<1>8. IsFiniteSet(DOMAIN g) /\ Cardinality(DOMAIN g) <= MaxPendingNals + 1
  <2>1. IsFiniteSet(DOMAIN g) /\ Cardinality(DOMAIN g) <= Cardinality(D \cup {id})
    BY <1>6, <1>7, FS_Subset
  <2> QED  BY <1>3, <1>6, <2>1, FS_CardinalityType
<1>9. DOMAIN g \subseteq Nat
  BY <1>2, <1>3, <1>7
<1>10. /\ DOMAIN Evict(g) \subseteq DOMAIN g /\ IsFiniteSet(DOMAIN Evict(g))
       /\ Cardinality(DOMAIN Evict(g)) <= MaxPendingNals
       /\ \A x \in DOMAIN Evict(g) : Evict(g)[x] = g[x]
  BY <1>8, <1>9, EvictFacts
<1>11. \A x \in DOMAIN video_rx' :
         (x \in D /\ video_rx'[x] = video_rx[x]) \/ (x = id /\ video_rx'[x] = entry /\ ~Completed(entry))
  BY <1>1, <1>5, <1>10
<1> QED  BY <1>1, <1>4, <1>10, <1>11

\* The entry of a NAL after one more chunk of it: within a session all its chunks are of the same NAL.
LEMMA EntryFacts ==
  ASSUME NEW c \in chunks, ReceiverShape, ChunkInv, HeldInv, ReassemblyInv
  PROVE  /\ \A k \in DOMAIN WithChunk(c).parts :
              /\ WithChunk(c).parts[k].id = c.nal.id /\ WithChunk(c).parts[k].session <= load.session
              /\ k < Parts(WithChunk(c).parts[k])
              /\ c.nal.id \notin history.carried => WithChunk(c).parts[k].session = load.session
              /\ WithChunk(c).parts[k].session = load.session => WithChunk(c).parts[k] = c.nal
         /\ (\A k \in DOMAIN WithChunk(c).parts : WithChunk(c).parts[k].session = load.session) =>
              /\ WithChunk(c).total \in {NoId, Parts(c.nal)}
              /\ Parts(c.nal) - 1 \in DOMAIN WithChunk(c).parts => WithChunk(c).total = Parts(c.nal)
<1> DEFINE entry == WithChunk(c)
           id == c.nal.id
           known == id \in DOMAIN video_rx
           old == video_rx[id]
           n == Parts(c.nal)
<1>1. c \in Chunk /\ c.index < n /\ (c.is_last <=> c.index = n - 1)
  BY DEF ReceiverShape, ChunkInv, ChunkOf
<1>2. c.index \in Nat /\ n \in Nat /\ c.nal \in Nal
  BY <1>1, LossyQueueAssumption DEF Chunk, Parts
<1>3. c.nal \in Held /\ c.nal.session = load.session /\ load.session \in Nat
  <2>1. c.nal \in Held
    BY DEF Held
  <2> QED  BY <1>2, <2>1 DEF HeldInv, Nal
<1>4. known => EntryOf(old, id, load.session, history.carried)
  BY DEF ReassemblyInv
<1>5. ASSUME known, NEW k \in DOMAIN old.parts, old.parts[k].session = load.session PROVE old.parts[k] = c.nal
  <2> DEFINE m == old.parts[k]
  <2>1. m \in Held
    BY <1>5 DEF Held, PartsOfPending
  <2>2. m.id = id
    BY <1>4, <1>5 DEF EntryOf
  <2> QED  BY <1>3, <2>1, <2>2 DEF HeldInv
<1>6. /\ \A k \in DOMAIN entry.parts :
           \/ entry.parts[k] = c.nal /\ k = c.index
           \/ known /\ k \in DOMAIN old.parts /\ entry.parts[k] = old.parts[k]
      /\ \/ c.is_last /\ entry.total = c.index + 1
         \/ ~c.is_last /\ entry.total = NoId /\ ~known
         \/ ~c.is_last /\ known /\ entry.total = old.total
      /\ known => \A k \in DOMAIN old.parts : k \in DOMAIN entry.parts /\ entry.parts[k] = old.parts[k]
  BY <1>1, WithChunkFacts
<1> HIDE DEF entry, known
<1>7. \A k \in DOMAIN entry.parts :
        /\ entry.parts[k].id = id /\ entry.parts[k].session <= load.session /\ k < Parts(entry.parts[k])
        /\ id \notin history.carried => entry.parts[k].session = load.session
        /\ entry.parts[k].session = load.session => entry.parts[k] = c.nal
  <2> SUFFICES ASSUME NEW k \in DOMAIN entry.parts
               PROVE  /\ entry.parts[k].id = id /\ entry.parts[k].session <= load.session /\ k < Parts(entry.parts[k])
                      /\ id \notin history.carried => entry.parts[k].session = load.session
                      /\ entry.parts[k].session = load.session => entry.parts[k] = c.nal
    OBVIOUS
  <2>1. CASE entry.parts[k] = c.nal /\ k = c.index
    BY <1>1, <1>3, <2>1
  <2>2. CASE known /\ k \in DOMAIN old.parts /\ entry.parts[k] = old.parts[k]
    BY <1>4, <1>5, <2>2 DEF EntryOf
  <2> QED  BY <1>6, <2>1, <2>2
<1>8. ASSUME \A k \in DOMAIN entry.parts : entry.parts[k].session = load.session
      PROVE  entry.total \in {NoId, n} /\ (n - 1 \in DOMAIN entry.parts => entry.total = n)
  <2>1. CASE c.is_last
    BY <1>1, <1>2, <1>6, <2>1
  <2>2. CASE ~c.is_last /\ entry.total = NoId /\ ~known
    BY <1>1, <1>2, <1>6, <2>2
  <2>3. CASE ~c.is_last /\ known /\ entry.total = old.total
    <3>1. \A k \in DOMAIN old.parts : old.parts[k].session = load.session /\ old.parts[k] = c.nal
      BY <1>5, <1>6, <1>8, <2>3
    <3>2. /\ DOMAIN old.parts # {}
          /\ \A k \in DOMAIN old.parts :
               old.total \in {NoId, Parts(old.parts[k])}
               /\ (Parts(old.parts[k]) - 1 \in DOMAIN old.parts => old.total = Parts(old.parts[k]))
      BY <1>4, <2>3, <3>1 DEF EntryOf
    <3>3. old.total \in {NoId, n} /\ (n - 1 \in DOMAIN old.parts => old.total = n)
      BY <3>1, <3>2
    <3>4. n - 1 \in DOMAIN entry.parts => n - 1 \in DOMAIN old.parts
      BY <1>1, <1>2, <1>6, <2>3
    <3> QED  BY <2>3, <3>3, <3>4
  <2> QED  BY <1>6, <2>1, <2>2, <2>3
<1> QED  BY <1>7, <1>8 DEF entry

\* A NAL that has all its chunks is complete, and is the one the last chunk to come belongs to.
LEMMA WholeFacts ==
  ASSUME NEW c \in chunks, ReceiverShape, ChunkInv, HeldInv, ReassemblyInv, Whole(WithChunk(c))
  PROVE  (\A k \in DOMAIN WithChunk(c).parts : WithChunk(c).parts[k] = c.nal) /\ Completed(WithChunk(c))
<1> DEFINE entry == WithChunk(c)
           id == c.nal.id
           n == Parts(c.nal)
           D == DOMAIN entry.parts
<1>1. c \in Chunk /\ c.nal \in Nal /\ n \in Nat \ {0}
  BY LossyQueueAssumption DEF ReceiverShape, Chunk, Parts
<1>2. c.index \in D /\ D \subseteq Nat
  BY <1>1, WithChunkFacts DEF EntryShape
<1>3. PICK nal : (\A k \in D : entry.parts[k] = nal) /\ Cardinality(D) = Len(ChunkNal(nal))
  BY DEF Whole
<1>4. nal = c.nal
  <2>1. CASE entry.parts[c.index] = c.nal
    BY <1>2, <1>3, <2>1
  <2>2. CASE id \in DOMAIN video_rx /\ entry.parts = video_rx[id].parts
    <3>1. ~Whole(video_rx[id])
      BY <2>2 DEF ReassemblyInv, EntryOf
    <3>2. Whole(entry)
      OBVIOUS
    <3> HIDE DEF entry
    <3> QED  BY <2>2, <3>1, <3>2 DEF Whole
  <2> QED  BY <1>1, <2>1, <2>2, WithChunkFacts
<1>5. \A k \in D : entry.parts[k] = c.nal
  BY <1>3, <1>4
<1>6. \A k \in D : k < n
  BY <1>5, EntryFacts
<1>7. Len(ChunkNal(c.nal)) = n
  BY <1>1, ChunkNalFacts
<1>8. c.nal.session = load.session
  <2>1. c.nal \in Held
    BY DEF Held
  <2> QED  BY <2>1 DEF HeldInv
<1>9. (n - 1 \in D => entry.total = n) /\ entry.total \in {NoId, n}
  BY <1>5, <1>8, EntryFacts
<1>10. Cardinality(D) = n
  BY <1>3, <1>4, <1>7
<1> HIDE DEF D, n, entry
<1>11. D = 0..(n - 1)
  <2>1. IsFiniteSet(0..(n - 1)) /\ Cardinality(0..(n - 1)) = n
    BY <1>1, ArraySize
  <2>2. D \subseteq 0..(n - 1)
    BY <1>1, <1>2, <1>6
  <2> QED  BY <1>10, <2>1, <2>2, FS_Subset
<1>12. entry.total = n /\ n # NoId
  BY <1>1, <1>9, <1>11 DEF NoId
<1> QED  BY <1>5, <1>11, <1>12 DEF Completed, D, entry

\* A NAL of this session is handed on only with all its chunks.
LEMMA CompletedIsWhole ==
  ASSUME NEW c \in chunks, ReceiverShape, ChunkInv, HeldInv, ReassemblyInv, Completed(WithChunk(c)), ~Whole(WithChunk(c))
  PROVE  c.nal.id \in history.carried
<1> SUFFICES ASSUME c.nal.id \notin history.carried
             PROVE  Whole(WithChunk(c))
  OBVIOUS
<1> DEFINE entry == WithChunk(c)
           n == Parts(c.nal)
<1>1. c \in Chunk /\ c.index \in DOMAIN entry.parts
  BY WithChunkFacts DEF ReceiverShape
<1>2. /\ \A k \in DOMAIN entry.parts : entry.parts[k] = c.nal /\ entry.parts[k].session = load.session
      /\ entry.total \in {NoId, n}
  BY EntryFacts
<1>3. entry.total = n /\ DOMAIN entry.parts = 0..(n - 1)
  BY <1>2 DEF Completed
<1>4. Len(ChunkNal(c.nal)) = n /\ n \in Nat
  BY LossyQueueAssumption DEF ChunkNal, Parts
<1> HIDE DEF n, entry
<1>5. Cardinality(0..(n - 1)) = n
  BY <1>4, FS_Interval
<1> QED  BY <1>1, <1>2, <1>3, <1>4, <1>5 DEF Whole, entry

\* The NAL that is handed on whole is the one that was sent.
LEMMA ReassembledWhole ==
  ASSUME NEW c \in chunks, ReceiverShape, ChunkInv, HeldInv, ReassemblyInv, Whole(WithChunk(c))
  PROVE  Reassembled(WithChunk(c)) = c.nal
<1> DEFINE entry == WithChunk(c)
           k == Least(DOMAIN entry.parts)
           nal == entry.parts[k]
<1>1. c \in Chunk /\ c.nal \in Nal /\ DOMAIN entry.parts \subseteq Nat /\ DOMAIN entry.parts # {}
  <2>1. c \in Chunk
    BY DEF ReceiverShape
  <2> QED  BY <2>1, WithChunkFacts DEF Chunk, EntryShape
<1>2. k \in DOMAIN entry.parts
  BY <1>1, LeastFacts
<1>3. nal = c.nal
  BY <1>2, WholeFacts
<1>4. Reassembled(entry) = [nal EXCEPT !.session = nal.session]
  BY DEF Reassembled
<1> HIDE DEF nal
<1> QED  BY <1>1, <1>3, <1>4 DEF Nal

\* Whatever a complete NAL does, the gate and the playback keep their shape, and only a
\* NAL that is not whole is torn.
LEMMA ChunkHandsOn ==
  ASSUME NEW c \in chunks, OnVideoChunk(c), ReceiverShape, HistoryShape, ReassemblyInv, ChunkInv, HeldInv
  PROVE  /\ gate' \in [next_id : Nat \cup {NoId}, frozen : BOOLEAN]
         /\ playback' \in [critical : Seq(Nal), slot : Seq(Nal), ready : BOOLEAN, taking : BOOLEAN, taken : Seq(Nal)]
         /\ HistoryShape' /\ UNCHANGED <<history.carried, history.passed_over>>
         /\ history'.torn \subseteq history.torn \cup history.carried
<1> DEFINE entry == WithChunk(c)
           nal == Reassembled(entry)
           G == [next_id : Nat \cup {NoId}, frozen : BOOLEAN]
           P == [critical : Seq(Nal), slot : Seq(Nal), ready : BOOLEAN, taking : BOOLEAN, taken : Seq(Nal)]
<1>1. c \in Chunk /\ EntryShape(entry) /\ DOMAIN entry.parts # {}
  BY WithChunkFacts DEF ReceiverShape
<1>2. gate \in G /\ playback \in P
  BY DEF ReceiverShape
<1>3. CASE ~Completed(entry)
  <2>1. UNCHANGED <<gate, playback, history>>
    BY <1>3 DEF OnVideoChunk
  <2> QED  BY <1>2, <2>1 DEF HistoryShape
<1>4. CASE Completed(entry)
  <2> DEFINE admitted == Admit(gate, nal.id, nal.type)
             g == admitted.gate
             slipped == history.slipped \/ Slips(nal)
             torn == IF Whole(entry) THEN history.torn ELSE history.torn \cup {nal.id}
  <2>1. nal \in Nal
    BY <1>1, ReassembledFacts
  <2>2. nal.id = c.nal.id
    <3>1. PICK k \in DOMAIN entry.parts : nal.id = entry.parts[k].id
      BY <1>1, ReassembledFacts
    <3>2. \/ entry.parts[k] = c.nal
          \/ /\ c.nal.id \in DOMAIN video_rx /\ k \in DOMAIN video_rx[c.nal.id].parts
             /\ entry.parts[k] = video_rx[c.nal.id].parts[k]
      BY <1>1, WithChunkFacts
    <3> QED  BY <3>1, <3>2 DEF ReassemblyInv, EntryOf
  <2>3. /\ IF admitted.pass THEN SendToPlayback(nal, g) ELSE gate' = g /\ UNCHANGED playback
        /\ history' = [history EXCEPT !.slipped = slipped, !.torn = torn]
    BY <1>4 DEF OnVideoChunk
  <2>4. g \in G
    <3>1. nal.id \in Nat
      BY <2>1 DEF Nal
    <3> HIDE DEF nal
    <3> DEFINE i == nal.id
               t == nal.type
    <3>2. i \in Nat /\ g = Admit(gate, i, t).gate
      BY <3>1
    <3> HIDE DEF i, t, g
    <3> QED  BY <1>2, <3>2, AdmitShape
  <2>5. torn \subseteq history.torn \cup history.carried
    BY <1>4, <2>2, CompletedIsWhole
  <2>6. history' = [slipped |-> slipped, torn |-> torn, carried |-> history.carried,
                    passed_over |-> history.passed_over]
    <3> HIDE DEF slipped, torn
    <3> QED  BY <2>3 DEF HistoryShape
  <2> HIDE DEF g, nal, slipped, torn
  <2>7. /\ history' \in [slipped : {slipped}, torn : {torn}, carried : SUBSET Nat, passed_over : {-1, 0, 1}]
        /\ history'.slipped = slipped /\ history'.torn = torn
        /\ UNCHANGED <<history.carried, history.passed_over>>
    BY <2>6 DEF HistoryShape
  <2>8. torn \in SUBSET Nat
    BY <2>5 DEF HistoryShape
  <2>9. HistoryShape' /\ history'.torn \subseteq history.torn \cup history.carried
    BY <2>5, <2>7, <2>8 DEF HistoryShape
  <2>10. gate' \in G /\ playback' \in P
    <3>0. playback = [critical |-> playback.critical, slot |-> playback.slot, ready |-> playback.ready,
                      taking |-> playback.taking, taken |-> playback.taken]
      BY <1>2
    <3>1. /\ playback.critical \in Seq(Nal) /\ playback.slot \in Seq(Nal) /\ playback.taken \in Seq(Nal)
          /\ playback.ready \in BOOLEAN /\ playback.taking \in BOOLEAN
      BY <1>2
    <3>2. Append(playback.critical, nal) \in Seq(Nal) /\ Append(playback.slot, nal) \in Seq(Nal) /\ <<>> \in Seq(Nal)
      BY <2>1, <3>1, AppendSeq
    <3>3. CASE ~admitted.pass
      BY <1>2, <2>3, <2>4, <3>3
    <3>4. CASE admitted.pass /\ NalIsCritical(nal.type)
      <4>1. playback' = [playback EXCEPT !.slot = <<>>, !.critical = Append(@, nal)] /\ gate' = g
        BY <2>3, <3>4 DEF SendToPlayback
      <4>2. playback' = [critical |-> Append(playback.critical, nal), slot |-> <<>>, ready |-> playback.ready,
                         taking |-> playback.taking, taken |-> playback.taken]
        BY <3>0, <4>1
      <4> QED  BY <2>4, <3>1, <3>2, <4>1, <4>2
    <3>5. CASE admitted.pass /\ ~NalIsCritical(nal.type) /\ Len(playback.slot) >= DeltaQueueCap
      <4>1. playback' = [playback EXCEPT !.slot = <<>>] /\ gate' = [g EXCEPT !.frozen = TRUE]
        BY <2>3, <3>5 DEF SendToPlayback, Overflow
      <4>2. playback' = [critical |-> playback.critical, slot |-> <<>>, ready |-> playback.ready,
                         taking |-> playback.taking, taken |-> playback.taken]
        BY <3>0, <4>1
      <4> QED  BY <2>4, <3>1, <3>2, <4>1, <4>2
    <3>6. CASE admitted.pass /\ ~NalIsCritical(nal.type) /\ ~(Len(playback.slot) >= DeltaQueueCap)
      <4>1. playback' = [playback EXCEPT !.slot = Append(@, nal), !.ready = TRUE] /\ gate' = g
        BY <2>3, <3>6 DEF SendToPlayback
      <4>2. playback' = [critical |-> playback.critical, slot |-> Append(playback.slot, nal), ready |-> TRUE,
                         taking |-> playback.taking, taken |-> playback.taken]
        BY <3>0, <4>1
      <4> QED  BY <2>4, <3>1, <3>2, <4>1, <4>2
    <3> QED  BY <3>3, <3>4, <3>5, <3>6
  <2> QED  BY <2>7, <2>9, <2>10
<1> QED  BY <1>3, <1>4

-----------------------------------------------------------------------------
(* The console's video keeps its invariants.                               *)

\* The playback thread only moves NALs.
LEMMA PlaysShape ==
  ASSUME Plays, ReceiverShape
  PROVE  playback' \in [critical : Seq(Nal), slot : Seq(Nal), ready : BOOLEAN, taking : BOOLEAN, taken : Seq(Nal)]
<1> DEFINE P == [critical : Seq(Nal), slot : Seq(Nal), ready : BOOLEAN, taking : BOOLEAN, taken : Seq(Nal)]
<1>0. playback = [critical |-> playback.critical, slot |-> playback.slot, ready |-> playback.ready,
                  taking |-> playback.taking, taken |-> playback.taken]
  BY DEF ReceiverShape
<1>1. /\ playback.critical \in Seq(Nal) /\ playback.slot \in Seq(Nal) /\ playback.taken \in Seq(Nal)
      /\ playback.ready \in BOOLEAN /\ playback.taking \in BOOLEAN
  BY DEF ReceiverShape
<1>2. CASE PlayCritical
  <2>1. playback.critical # <<>> /\ playback' = [playback EXCEPT !.critical = Tail(@)]
    BY <1>2 DEF PlayCritical
  <2>2. playback' = [critical |-> Tail(playback.critical), slot |-> playback.slot, ready |-> playback.ready,
                     taking |-> playback.taking, taken |-> playback.taken]
    BY <1>0, <2>1
  <2>3. Tail(playback.critical) \in Seq(Nal)
    BY <1>1, <2>1
  <2> QED  BY <1>1, <2>2, <2>3
<1>3. CASE PlaybackWakes
  <2>1. playback' = [playback EXCEPT !.taking = TRUE, !.ready = FALSE]
    BY <1>3 DEF PlaybackWakes
  <2>2. playback' = [critical |-> playback.critical, slot |-> playback.slot, ready |-> FALSE,
                     taking |-> TRUE, taken |-> playback.taken]
    BY <1>0, <2>1
  <2> QED  BY <1>1, <2>2
<1>4. CASE PlaybackTakes
  <2> DEFINE delta == Head(playback.slot)
  <2>1. /\ playback.slot # <<>>
        /\ \/ playback' = [playback EXCEPT !.slot = Tail(@), !.taken = Append(@, delta)]
           \/ playback' = [playback EXCEPT !.slot = Tail(@), !.taking = FALSE]
    BY <1>4 DEF PlaybackTakes
  <2>2. Tail(playback.slot) \in Seq(Nal) /\ delta \in Nal
    BY <1>1, <2>1
  <2> HIDE DEF delta
  <2>3. Append(playback.taken, delta) \in Seq(Nal)
    BY <1>1, <2>2, AppendSeq
  <2>4. CASE playback' = [playback EXCEPT !.slot = Tail(@), !.taken = Append(@, delta)]
    <3>1. playback' = [critical |-> playback.critical, slot |-> Tail(playback.slot), ready |-> playback.ready,
                       taking |-> playback.taking, taken |-> Append(playback.taken, delta)]
      BY <1>0, <2>4
    <3> QED  BY <1>1, <2>2, <2>3, <3>1
  <2>5. CASE playback' = [playback EXCEPT !.slot = Tail(@), !.taking = FALSE]
    <3>1. playback' = [critical |-> playback.critical, slot |-> Tail(playback.slot), ready |-> playback.ready,
                       taking |-> FALSE, taken |-> playback.taken]
      BY <1>0, <2>5
    <3> QED  BY <1>1, <2>2, <3>1
  <2> QED  BY <2>1, <2>4, <2>5
<1>5. CASE PlaybackWrites
  <2>1. playback' = [playback EXCEPT !.taking = FALSE, !.taken = <<>>]
    BY <1>5 DEF PlaybackWrites
  <2>2. playback' = [critical |-> playback.critical, slot |-> playback.slot, ready |-> playback.ready,
                     taking |-> FALSE, taken |-> <<>>]
    BY <1>0, <2>1
  <2>3. <<>> \in Seq(Nal)
    OBVIOUS
  <2> QED  BY <1>1, <2>2, <2>3
<1> QED  BY <1>2, <1>3, <1>4, <1>5 DEF Plays

VideoBound == IsFiniteSet(DOMAIN video_rx) /\ Cardinality(DOMAIN video_rx) <= MaxPendingNals

\* A chunk that arrives keeps the pending NALs bounded, and whole only with their own chunks.
LEMMA ChunkReceiver ==
  ASSUME OnSomeChunk, ReceiverShape, PendingBound, HistoryShape, ChunkInv, HeldInv, ReassemblyInv
  PROVE  /\ ReceiverShape' /\ VideoBound' /\ ReassemblyInv' /\ HistoryShape'
         /\ chunks' \subseteq chunks /\ UNCHANGED <<history.carried, history.passed_over>>
<1>1. PICK c \in chunks : OnVideoChunk(c)
  BY DEF OnSomeChunk
<1> DEFINE entry == WithChunk(c)
<1>2. /\ IsFiniteSet(DOMAIN video_rx') /\ Cardinality(DOMAIN video_rx') <= MaxPendingNals
      /\ \A x \in DOMAIN video_rx' :
           \/ x \in DOMAIN video_rx /\ video_rx'[x] = video_rx[x]
           \/ x = c.nal.id /\ video_rx'[x] = entry /\ ~Completed(entry)
  BY <1>1, ChunkPending
<1>3. /\ gate' \in [next_id : Nat \cup {NoId}, frozen : BOOLEAN]
      /\ playback' \in [critical : Seq(Nal), slot : Seq(Nal), ready : BOOLEAN, taking : BOOLEAN, taken : Seq(Nal)]
      /\ HistoryShape' /\ UNCHANGED <<history.carried, history.passed_over>>
      /\ history'.torn \subseteq history.torn \cup history.carried
  BY <1>1, ChunkHandsOn
<1>4. chunks' \subseteq chunks
  BY <1>1 DEF OnVideoChunk
<1>5. c \in Chunk /\ c.nal.id \in Nat
  BY DEF ReceiverShape, Chunk, Nal
<1>6. /\ EntryShape(entry) /\ c.index \in DOMAIN entry.parts
      /\ \A k \in DOMAIN entry.parts :
           \/ entry.parts[k] = c.nal
           \/ /\ c.nal.id \in DOMAIN video_rx /\ k \in DOMAIN video_rx[c.nal.id].parts
              /\ entry.parts[k] = video_rx[c.nal.id].parts[k]
  BY <1>5, WithChunkFacts
<1>7. ~Completed(entry) => EntryOf(entry, c.nal.id, load.session, history.carried)
  <2>1. ~Completed(entry) => ~Whole(entry)
    BY WholeFacts
  <2>2. /\ \A k \in DOMAIN entry.parts :
             /\ entry.parts[k].id = c.nal.id /\ entry.parts[k].session <= load.session /\ k < Parts(entry.parts[k])
             /\ c.nal.id \notin history.carried => entry.parts[k].session = load.session
             /\ entry.parts[k].session = load.session => entry.parts[k] = c.nal
        /\ (\A k \in DOMAIN entry.parts : entry.parts[k].session = load.session) =>
             /\ entry.total \in {NoId, Parts(c.nal)}
             /\ Parts(c.nal) - 1 \in DOMAIN entry.parts => entry.total = Parts(c.nal)
    BY EntryFacts
  <2> HIDE DEF entry
  <2> QED  BY <1>6, <2>1, <2>2 DEF EntryOf
<1>8. load' = load
  BY <1>1 DEF OnVideoChunk
<1> HIDE DEF entry
<1>9. ReceiverShape'
  BY <1>2, <1>3, <1>4, <1>5, <1>6 DEF ReceiverShape
<1>10. \A id \in DOMAIN video_rx' : EntryOf(video_rx'[id], id, load.session, history.carried)
  BY <1>2, <1>7 DEF ReassemblyInv
<1>12. ReassemblyInv'
  BY <1>3, <1>8, <1>10 DEF ReassemblyInv
<1> QED  BY <1>2, <1>3, <1>4, <1>9, <1>12 DEF VideoBound

\* A connection that is lost leaves the reassembler nothing of the new session.
LEMMA ReconnectReceiver ==
  ASSUME Reconnect, LoadShape, ReceiverShape, HistoryShape, ReassemblyInv
  PROVE  /\ ReceiverShape' /\ HistoryShape' /\ ReassemblyInv'
         /\ \A m \in PartsOfPending' : m.session # load'.session
<1>1. /\ chunks' = {} /\ gate' = NewGate /\ UNCHANGED <<video_rx, playback>>
      /\ history' = [slipped |-> history.slipped, torn |-> history.torn,
                     carried |-> history.carried \cup DOMAIN video_rx, passed_over |-> 0]
  BY ReconnectFacts
<1>2. /\ history'.torn = history.torn /\ history'.carried = history.carried \cup DOMAIN video_rx
      /\ history'.passed_over = 0 /\ history'.slipped = history.slipped
  BY <1>1
<1>s. load.session \in Nat /\ load'.session = load.session + 1
  <2>1. load.session \in Nat
    BY DEF LoadShape
  <2>2. load' = [gop |-> load.gop, nals |-> load.nals, backend |-> load.backend, restarts |-> load.restarts,
                 fitted |-> load.fitted, frames |-> load.frames, policy |-> load.policy, drops |-> load.drops,
                 session |-> load.session + 1, operating |-> FALSE]
    BY ReconnectFacts
  <2> QED  BY <2>1, <2>2
<1>3. NewGate \in [next_id : Nat \cup {NoId}, frozen : BOOLEAN]
  BY DEF NewGate
<1>4. ReceiverShape'
  BY <1>1, <1>3 DEF ReceiverShape
<1>5. history.torn \in SUBSET Nat /\ history.carried \cup DOMAIN video_rx \in SUBSET Nat
  BY DEF HistoryShape, ReceiverShape
<1>6. HistoryShape'
  BY <1>1, <1>2, <1>5 DEF HistoryShape
<1>7. \A id \in DOMAIN video_rx : \A k \in DOMAIN video_rx[id].parts :
        video_rx[id].parts[k] \in Nal /\ video_rx[id].parts[k].session <= load.session
  BY DEF ReassemblyInv, EntryOf, ReceiverShape, EntryShape
<1>8. \A id \in DOMAIN video_rx : \A k \in DOMAIN video_rx[id].parts :
        /\ video_rx[id].parts[k].session <= load.session + 1
        /\ video_rx[id].parts[k].session # load.session + 1
  BY <1>7, <1>s DEF Nal
<1>9. \A id \in DOMAIN video_rx : EntryOf(video_rx[id], id, load.session + 1, history'.carried)
  <2> SUFFICES ASSUME NEW id \in DOMAIN video_rx
               PROVE  EntryOf(video_rx[id], id, load.session + 1, history'.carried)
    OBVIOUS
  <2>1. EntryOf(video_rx[id], id, load.session, history.carried)
    BY DEF ReassemblyInv
  <2>2. id \in history'.carried
    BY <1>2
  <2> QED  BY <1>8, <2>1, <2>2 DEF EntryOf
<1>10. ReassemblyInv'
  BY <1>1, <1>2, <1>9, <1>s DEF ReassemblyInv
<1>11. \A m \in PartsOfPending' : m.session # load'.session
  BY <1>1, <1>8, <1>s DEF PartsOfPending
<1> QED  BY <1>4, <1>6, <1>10, <1>11

\* Every step keeps what the receiver of video holds.
LEMMA NextReceiver ==
  ASSUME [Next]_vars, Shape, PendingBound, TurnInv, ChunkInv, HeldInv, ReassemblyInv
  PROVE  ReceiverShape' /\ VideoBound' /\ ReassemblyInv' /\ HistoryShape'
<1>0. LoadShape /\ QueueShape(queue) /\ ReceiverShape /\ HistoryShape /\ VideoBound /\ ChunksOf(queue)
  BY DEF Shape, PendingBound, VideoBound, ChunkInv
<1>1. CASE OnSomeChunk
  BY <1>0, <1>1, ChunkReceiver
<1>2. CASE Reconnect
  <2>1. video_rx' = video_rx
    BY <1>2 DEF Reconnect
  <2> QED  BY <1>0, <1>2, <2>1, ReconnectReceiver DEF VideoBound
<1>3. CASE Plays
  <2>1. UNCHANGED <<load, chunks, video_rx, gate, history>>
    BY <1>3, Untouched
  <2>2. playback' \in [critical : Seq(Nal), slot : Seq(Nal), ready : BOOLEAN, taking : BOOLEAN, taken : Seq(Nal)]
    BY <1>0, <1>3, PlaysShape
  <2>3. ReceiverShape'
    BY <1>0, <2>1, <2>2 DEF ReceiverShape
  <2>4. VideoBound' /\ ReassemblyInv' /\ HistoryShape'
    BY <1>0, <2>1 DEF VideoBound, ReassemblyInv, HistoryShape
  <2> QED  BY <2>3, <2>4
<1>4. CASE FeedLossy
  <2>1. /\ HistoryShape' /\ UNCHANGED <<history.slipped, history.torn, history.carried>>
        /\ chunks' = chunks \/ \E c \in Chunk : chunks' = chunks \cup {c}
    BY <1>0, <1>4, FeedFacts
  <2>2. UNCHANGED <<load, video_rx, gate, playback>>
    BY <1>4, Untouched
  <2>3. chunks' \subseteq Chunk
    BY <1>0, <2>1 DEF ReceiverShape
  <2>4. ReceiverShape'
    BY <1>0, <2>2, <2>3 DEF ReceiverShape
  <2>5. VideoBound' /\ ReassemblyInv'
    BY <1>0, <2>1, <2>2 DEF VideoBound, ReassemblyInv
  <2> QED  BY <2>1, <2>4, <2>5
<1>5. ASSUME chunks' \subseteq chunks, UNCHANGED <<load.session, video_rx, gate, playback, history>>
      PROVE  ReceiverShape' /\ VideoBound' /\ ReassemblyInv' /\ HistoryShape'
  <2>1. ReceiverShape'
    BY <1>0, <1>5 DEF ReceiverShape
  <2>2. VideoBound' /\ ReassemblyInv' /\ HistoryShape'
    BY <1>0, <1>5 DEF VideoBound, ReassemblyInv, HistoryShape
  <2> QED  BY <2>1, <2>2
<1>6. CASE Lose
  <2>1. chunks' \subseteq chunks
    BY <1>6 DEF Lose
  <2> QED  BY <1>5, <1>6, <2>1, Untouched
<1>7. CASE \/ Produces \/ Operate \/ SessionOnNal \/ SessionOnSensorFrames \/ OnSomeSlice
           \/ (\E s \in Sensors : PollSensors(s))
  <2>1. UNCHANGED <<chunks, video_rx, gate, playback, history>>
    BY <1>7, Untouched
  <2>2. load'.session = load.session
    BY <1>0, <1>7, SessionStays
  <2> QED  BY <1>5, <2>1, <2>2
<1>8. CASE UNCHANGED vars
  BY <1>5, <1>8 DEF vars
<1> QED  BY <1>1, <1>2, <1>3, <1>4, <1>6, <1>7, <1>8, Steps

-----------------------------------------------------------------------------
(* The queue keeps its invariants.                                         *)

\* Every step keeps the lossy queue well typed, its chunks in place and the turns of its classes.
LEMMA NextQueue ==
  ASSUME [Next]_vars, Shape, PendingBound, TurnInv, SliceInv, ChunkInv, HeldInv, ReassemblyInv
  PROVE  QueueShape(queue') /\ ChunkInv' /\ TurnInv'
<1>0. LoadShape /\ SourceShape /\ QueueShape(queue) /\ ReceiverShape /\ HistoryShape /\ ChunksOf(queue)
  BY DEF Shape, ChunkInv
<1>1. CASE SessionOnNal
  <2>1. PICK nal \in Nal : queue' \in {queue, PushVideoNal(queue, nal)}
    BY <1>0, <1>1, OnNalFacts
  <2>2. UNCHANGED <<chunks, history>>
    BY <1>1, Untouched
  <2>3. QueueShape(queue') /\ ChunksOf(queue') /\ queue'.video_turn = queue.video_turn
    BY <1>0, <2>1, PushVideoFacts
  <2> QED  BY <2>2, <2>3 DEF ChunkInv, TurnInv
<1>2. CASE SessionOnSensorFrames
  <2>1. QueueShape(queue') /\ queue'.video = queue.video /\ queue'.video_turn = queue.video_turn
    BY <1>0, <1>2, OnFramesFacts
  <2>2. UNCHANGED <<chunks, history>>
    BY <1>2, Untouched
  <2>3. ChunksOf(queue')
    BY <1>0, <2>1 DEF ChunksOf
  <2> QED  BY <2>1, <2>2, <2>3 DEF ChunkInv, TurnInv
<1>3. CASE FeedLossy
  <2>1. /\ QueueShape(queue') /\ ChunksOf(queue') /\ TurnInv'
        /\ chunks' = chunks \/ \E c \in Chunk : ChunkOf(c) /\ chunks' = chunks \cup {c}
    BY <1>0, <1>3, FeedFacts
  <2> QED  BY <2>1 DEF ChunkInv
<1>4. CASE Reconnect
  <2>1. queue' = NewLossyQueue /\ chunks' = {} /\ history'.passed_over = 0
    BY <1>0, <1>4, ReconnectFacts
  <2>2. QueueShape(queue') /\ ChunksOf(queue')
    BY <2>1, NewQueue
  <2> QED  BY <2>1, <2>2 DEF ChunkInv, TurnInv
<1>5. ASSUME queue' = queue, chunks' \subseteq chunks, history'.passed_over = history.passed_over
      PROVE  QueueShape(queue') /\ ChunkInv' /\ TurnInv'
  BY <1>0, <1>5 DEF ChunkInv, TurnInv
<1>6. CASE Lose
  <2>1. chunks' \subseteq chunks
    BY <1>6 DEF Lose
  <2> QED  BY <1>5, <1>6, <2>1, Untouched
<1>7. CASE OnSomeChunk
  <2>1. chunks' \subseteq chunks /\ history'.passed_over = history.passed_over
    BY <1>0, <1>7, ChunkReceiver
  <2> QED  BY <1>5, <1>7, <2>1, Untouched
<1>8. CASE Produces \/ Operate \/ Plays \/ OnSomeSlice \/ (\E s \in Sensors : PollSensors(s))
  <2>1. UNCHANGED <<queue, chunks, history>>
    BY <1>8, Untouched
  <2> QED  BY <1>5, <2>1
<1>9. CASE UNCHANGED vars
  BY <1>5, <1>9 DEF vars
<1> QED  BY <1>1, <1>2, <1>3, <1>4, <1>6, <1>7, <1>8, <1>9, Steps

-----------------------------------------------------------------------------
(* No two NALs of a session share an id.                                   *)

PartsOfSession == {m \in PartsOfPending : m.session = load.session}

\* The NAL that the encoder task is to be given.
NextNal == [session |-> load.session, id |-> source.next_nal_id, type |-> load.gop[source.gop],
            from |-> IF load.gop[source.gop] = "P" THEN source.picture ELSE NoId]

\* A step that encodes nothing: the camera's group goes on where it was, or starts afresh.
SameStream ==
  /\ UNCHANGED <<load.session, load.gop, source.next_nal_id>>
  /\ UNCHANGED <<source.gop, source.picture>> \/ source'.gop = 1

\* What is held after a step was held before it, or is the NAL just encoded.
LEMMA NextHeld ==
  ASSUME [Next]_vars, Shape, PendingBound, TurnInv, SliceInv, ChunkInv, HeldInv, ReassemblyInv
  PROVE  \/ Reconnect /\ Held' = {} /\ source' = NewSource /\ load'.gop = load.gop
         \/ Held' \subseteq Held /\ SameStream
         \/ EncodeNal /\ Held' \subseteq Held \cup {NextNal}
<1> DEFINE C == {source.critical[i] : i \in 1..Len(source.critical)}
           D == {source.latest_delta[i] : i \in 1..Len(source.latest_delta)}
           N == {c.nal : c \in chunks}
<1>0. LoadShape /\ SourceShape /\ QueueShape(queue) /\ ReceiverShape /\ HistoryShape /\ ChunksOf(queue)
  BY DEF Shape, ChunkInv
<1>h. Held = C \cup D \cup NalsOf(queue) \cup N \cup PartsOfSession
  BY DEF Held, PartsOfSession
<1>hp. Held' = C' \cup D' \cup NalsOf(queue') \cup N' \cup PartsOfSession'
  BY DEF Held, PartsOfSession
<1>1. CASE EncodeNal
  <2>1. PICK nal \in Nal, gop \in 1..Len(load.gop), picture \in Nat \cup {NoId},
           critical \in Seq(Nal), delta \in Seq(Nal) :
           /\ nal = NextNal
           /\ critical \in {source.critical, Append(source.critical, nal)} /\ delta \in {source.latest_delta, <<nal>>}
           /\ source' = SourceOf(source.next_nal_id + 1, gop, picture, critical, delta, source.frame_seq, source.slots)
    BY <1>0, <1>1, EncodeFacts DEF NextNal
  <2>2. source'.critical = critical /\ source'.latest_delta = delta /\ source'.next_nal_id = source.next_nal_id + 1
    BY <2>1 DEF SourceOf
  <2>3. source.critical \in Seq(Nal) /\ source.latest_delta \in Seq(Nal)
    BY <1>0 DEF SourceShape
  <2>4. C' \subseteq C \cup {nal}
    <3>1. CASE critical = source.critical
      BY <2>2, <3>1
    <3>2. CASE critical = Append(source.critical, nal)
      <4>1. \A i \in 1..Len(critical) : critical[i] \in C \cup {nal}
        BY <2>3, <3>2
      <4> QED  BY <2>2, <4>1
    <3> QED  BY <2>1, <3>1, <3>2
  <2>5. D' \subseteq D \cup {nal}
    <3>1. CASE delta = source.latest_delta
      BY <2>2, <3>1
    <3>2. CASE delta = <<nal>>
      <4>1. \A i \in 1..Len(delta) : delta[i] = nal
        BY <3>2
      <4> QED  BY <2>2, <4>1
    <3> QED  BY <2>1, <3>1, <3>2
  <2>6. UNCHANGED <<load, queue, chunks, video_rx, history>>
    BY <1>1, Untouched DEF Produces
  <2>7. NalsOf(queue') = NalsOf(queue) /\ N' = N /\ PartsOfSession' = PartsOfSession
    BY <2>6 DEF PartsOfSession, PartsOfPending
  <2> HIDE DEF C, D, N
  <2>8. Held' \subseteq Held \cup {nal}
    BY <1>h, <1>hp, <2>4, <2>5, <2>7
  <2> QED  BY <1>1, <2>1, <2>8
<1>2. CASE SessionOnNal
  <2>1. PICK nal \in Nal :
           /\ nal \in C \cup D
           /\ queue' \in {queue, PushVideoNal(queue, nal)}
           /\ \A i \in 1..Len(source'.critical) : \E j \in 1..Len(source.critical) :
                source'.critical[i] = source.critical[j]
           /\ \A i \in 1..Len(source'.latest_delta) : \E j \in 1..Len(source.latest_delta) :
                source'.latest_delta[i] = source.latest_delta[j]
           /\ source' = [next_nal_id |-> source.next_nal_id, gop |-> source.gop, picture |-> source.picture,
                         critical |-> source'.critical, latest_delta |-> source'.latest_delta,
                         frame_seq |-> source.frame_seq, slots |-> source.slots]
    BY <1>0, <1>2, OnNalFacts
  <2>2. UNCHANGED <<load, chunks, video_rx, history>>
    BY <1>2, Untouched
  <2>3. C' \subseteq C /\ D' \subseteq D
    <3>1. /\ \A i \in 1..Len(source'.critical) : \E j \in 1..Len(source.critical) :
               source'.critical[i] = source.critical[j]
          /\ \A i \in 1..Len(source'.latest_delta) : \E j \in 1..Len(source.latest_delta) :
               source'.latest_delta[i] = source.latest_delta[j]
      BY <2>1
    <3>2. C' \subseteq C
      BY <3>1
    <3>3. D' \subseteq D
      BY <3>1
    <3> QED  BY <3>2, <3>3
  <2>4. NalsOf(queue') \subseteq NalsOf(queue) \cup {nal}
    BY <1>0, <2>1, PushVideoFacts
  <2>5. N' = N /\ PartsOfSession' = PartsOfSession
    BY <2>2 DEF PartsOfSession, PartsOfPending
  <2>6. SameStream
    <3>1. UNCHANGED <<source.next_nal_id, source.gop, source.picture>>
      BY <2>1
    <3> QED  BY <2>2, <3>1 DEF SameStream
  <2>7. nal \in C \cup D
    BY <2>1
  <2> HIDE DEF C, D, N
  <2>8. Held' \subseteq Held
    BY <1>h, <1>hp, <2>3, <2>4, <2>5, <2>7
  <2> QED  BY <2>6, <2>8
<1>3. ASSUME SameStream, source'.critical = source.critical,
             source'.latest_delta = source.latest_delta, NalsOf(queue') \subseteq NalsOf(queue),
             N' \subseteq N \cup NalsOf(queue), PartsOfSession' \subseteq PartsOfSession \cup N
      PROVE  Held' \subseteq Held /\ SameStream
  <2>1. C' = C /\ D' = D
    BY <1>3
  <2> HIDE DEF C, D, N
  <2> QED  BY <1>3, <1>h, <1>hp, <2>1
<1>4. CASE FeedLossy
  <2>1. /\ NalsOf(queue') \subseteq NalsOf(queue) /\ history'.carried = history.carried
        /\ chunks' = chunks \/ \E c \in Chunk : c.nal \in NalsOf(queue) /\ chunks' = chunks \cup {c}
    BY <1>0, <1>4, FeedFacts DEF TurnInv
  <2>2. UNCHANGED <<load, source, video_rx>> /\ SameStream
    BY <1>4, Untouched DEF SameStream
  <2>3. N' \subseteq N \cup NalsOf(queue)
    BY <2>1
  <2>4. PartsOfSession' = PartsOfSession
    BY <2>1, <2>2 DEF PartsOfSession, PartsOfPending
  <2> HIDE DEF N
  <2> QED  BY <1>3, <2>1, <2>2, <2>3, <2>4
<1>5. CASE OnSomeChunk
  <2>1. PICK c \in chunks : OnVideoChunk(c)
    BY <1>5 DEF OnSomeChunk
  <2>2. \A x \in DOMAIN video_rx' :
          \/ x \in DOMAIN video_rx /\ video_rx'[x] = video_rx[x]
          \/ x = c.nal.id /\ video_rx'[x] = WithChunk(c)
    BY <1>0, <2>1, ChunkPending
  <2>3. UNCHANGED <<load, source, queue>> /\ chunks' \subseteq chunks
    BY <1>0, <1>5, ChunkReceiver, Untouched
  <2>4. c.nal \in N /\ SameStream
    BY <2>3 DEF SameStream
  <2>5. \A x \in DOMAIN video_rx' : \A k \in DOMAIN video_rx'[x].parts :
          video_rx'[x].parts[k].session = load.session => video_rx'[x].parts[k] \in PartsOfSession \cup N
    <3> SUFFICES ASSUME NEW x \in DOMAIN video_rx', NEW k \in DOMAIN video_rx'[x].parts,
                        video_rx'[x].parts[k].session = load.session
                 PROVE  video_rx'[x].parts[k] \in PartsOfSession \cup N
      OBVIOUS
    <3>1. CASE x \in DOMAIN video_rx /\ video_rx'[x] = video_rx[x]
      BY <3>1 DEF PartsOfSession, PartsOfPending
    <3>2. CASE x = c.nal.id /\ video_rx'[x] = WithChunk(c)
      <4>1. WithChunk(c).parts[k] = c.nal
        BY <1>0, <3>2, EntryFacts
      <4> QED  BY <2>4, <3>2, <4>1
    <3> QED  BY <2>2, <3>1, <3>2
  <2>6. PartsOfSession' \subseteq PartsOfSession \cup N
    BY <2>3, <2>5 DEF PartsOfSession, PartsOfPending
  <2>7. N' \subseteq N
    BY <2>3
  <2> HIDE DEF N
  <2> QED  BY <1>3, <2>3, <2>4, <2>6, <2>7
<1>6. CASE Reconnect
  <2>1. source' = NewSource /\ queue' = NewLossyQueue /\ chunks' = {}
    BY <1>0, <1>6, ReconnectFacts
  <2>2. \A m \in PartsOfPending' : m.session # load'.session
    BY <1>0, <1>6, ReconnectReceiver
  <2>3. source'.critical = <<>> /\ source'.latest_delta = <<>>
    BY <2>1 DEF NewSource
  <2>4. C' = {} /\ D' = {}
    BY <2>3
  <2>5. NalsOf(queue') = {}
    BY <2>1, NewQueue
  <2>6. N' = {} /\ PartsOfSession' = {}
    BY <2>1, <2>2 DEF PartsOfSession
  <2>7. load'.gop = load.gop
    BY <1>0, <1>6, ReconnectFacts
  <2> HIDE DEF C, D, N
  <2> QED  BY <1>6, <1>hp, <2>1, <2>4, <2>5, <2>6, <2>7
<1>7. ASSUME UNCHANGED <<queue, video_rx, history>>, chunks' \subseteq chunks, SameStream,
             UNCHANGED <<source.critical, source.latest_delta>>
      PROVE  Held' \subseteq Held /\ SameStream
  <2>1. N' \subseteq N
    BY <1>7
  <2>2. PartsOfSession' = PartsOfSession
    BY <1>7 DEF PartsOfSession, PartsOfPending, SameStream
  <2> HIDE DEF N
  <2> QED  BY <1>3, <1>7, <2>1, <2>2
<1>8. CASE CaptureRestart
  <2>1. UNCHANGED <<source.next_nal_id, source.critical, source.latest_delta>> /\ source'.gop = 1
    BY <1>0, <1>8, RestartFacts DEF SourceOf
  <2>2. UNCHANGED <<load, queue, video_rx, chunks, history>>
    BY <1>8, Untouched DEF Produces
  <2> QED  BY <1>7, <2>1, <2>2 DEF SameStream
<1>9. CASE \E s \in Sensors : RenderFrame(s)
  <2>1. UNCHANGED <<source.next_nal_id, source.critical, source.latest_delta, source.gop, source.picture>>
    BY <1>0, <1>9, RenderFacts DEF SourceOf
  <2>2. UNCHANGED <<load, queue, video_rx, chunks, history>>
    BY <1>9, Untouched DEF Produces
  <2> QED  BY <1>7, <2>1, <2>2 DEF SameStream
<1>10. CASE SessionOnSensorFrames
  <2>1. UNCHANGED <<source.next_nal_id, source.critical, source.latest_delta, source.gop, source.picture>>
    BY <1>0, <1>10, TakeFacts DEF SourceOf
  <2>2. queue'.video = queue.video
    BY <1>0, <1>10, OnFramesFacts
  <2>3. NalsOf(queue') = NalsOf(queue)
    BY <2>2 DEF NalsOf
  <2>4. UNCHANGED <<load, chunks, video_rx, history>>
    BY <1>10, Untouched
  <2>5. N' = N /\ PartsOfSession' = PartsOfSession
    BY <2>4 DEF PartsOfSession, PartsOfPending
  <2>6. SameStream
    BY <2>1, <2>4 DEF SameStream
  <2> HIDE DEF N
  <2> QED  BY <1>3, <2>1, <2>3, <2>5, <2>6
<1>11. CASE Lose
  <2>1. chunks' \subseteq chunks
    BY <1>11 DEF Lose
  <2>2. UNCHANGED <<load, source, queue, video_rx, history>>
    BY <1>11, Untouched
  <2> QED  BY <1>7, <2>1, <2>2 DEF SameStream
<1>12. CASE Operate \/ Plays \/ OnSomeSlice \/ (\E s \in Sensors : PollSensors(s))
  <2>1. UNCHANGED <<source, queue, chunks, video_rx, history, load.session, load.gop>>
    BY <1>0, <1>12, SessionStays, Untouched
  <2> QED  BY <1>7, <2>1 DEF SameStream
<1>13. CASE UNCHANGED vars
  BY <1>7, <1>13 DEF vars, SameStream
<1> QED  BY <1>1, <1>2, <1>4, <1>5, <1>6, <1>8, <1>9, <1>10, <1>11, <1>12, <1>13, Steps DEF Produces

\* What is held is what an encoder made.
LEMMA HeldAreNals ==
  ASSUME Shape
  PROVE  Held \subseteq Nal
<1>1. QueueShape(queue) /\ SourceShape /\ ReceiverShape
  BY DEF Shape
<1>2. NalsOf(queue) \subseteq Nal
  <2>1. queue.video \in Seq(PendingNal)
    BY <1>1 DEF QueueShape
  <2>2. \A i \in 1..Len(queue.video) : queue.video[i] \in PendingNal
    BY <2>1
  <2>3. \A i \in 1..Len(queue.video) : queue.video[i].nal \in Nal
    BY <2>2 DEF PendingNal
  <2> QED  BY <2>3 DEF NalsOf
<1>3. PartsOfPending \subseteq Nal
  BY <1>1 DEF PartsOfPending, ReceiverShape, EntryShape
<1>4. {c.nal : c \in chunks} \subseteq Nal
  BY <1>1 DEF ReceiverShape, Chunk
<1>5. {source.critical[i] : i \in 1..Len(source.critical)} \subseteq Nal
  BY <1>1 DEF SourceShape
<1>6. {source.latest_delta[i] : i \in 1..Len(source.latest_delta)} \subseteq Nal
  BY <1>1 DEF SourceShape
<1> QED  BY <1>2, <1>3, <1>4, <1>5, <1>6 DEF Held

\* The encoder task gives the next NAL its place in the camera's stream.
LEMMA EncodeStream ==
  ASSUME EncodeNal, Shape
  PROVE  /\ load' = load /\ NextNal \in Nal /\ NextNal.session = load.session /\ NextNal.id = source.next_nal_id
         /\ NextNal.type = load.gop[source.gop]
         /\ NextNal.from = IF load.gop[source.gop] = "P" THEN source.picture ELSE NoId
         /\ source'.next_nal_id = source.next_nal_id + 1
         /\ source'.gop = (source.gop % Len(load.gop)) + 1
         /\ source'.picture = IF load.gop[source.gop] \in ParameterSet THEN source.picture ELSE source.next_nal_id
<1>0. LoadShape /\ SourceShape
  BY DEF Shape
<1>1. PICK nal \in Nal, gop \in 1..Len(load.gop), picture \in Nat \cup {NoId},
           critical \in Seq(Nal), delta \in Seq(Nal) :
           /\ nal = NextNal
           /\ gop = (source.gop % Len(load.gop)) + 1
           /\ picture = IF load.gop[source.gop] \in ParameterSet THEN source.picture ELSE source.next_nal_id
           /\ source' = SourceOf(source.next_nal_id + 1, gop, picture, critical, delta, source.frame_seq, source.slots)
  BY <1>0, EncodeFacts DEF NextNal
<1>2. source'.next_nal_id = source.next_nal_id + 1 /\ source'.gop = gop /\ source'.picture = picture
  BY <1>1 DEF SourceOf
<1>3. load' = load
  BY Untouched DEF Produces
<1>4. /\ NextNal.session = load.session /\ NextNal.id = source.next_nal_id /\ NextNal.type = load.gop[source.gop]
      /\ NextNal.from = IF load.gop[source.gop] = "P" THEN source.picture ELSE NoId
  BY DEF NextNal
<1> QED  BY <1>1, <1>2, <1>3, <1>4

\* A new NAL takes an id no other NAL of the session has.
LEMMA NextHeldInv ==
  ASSUME [Next]_vars, Shape, PendingBound, TurnInv, SliceInv, ChunkInv, HeldInv, ReassemblyInv
  PROVE  HeldInv'
<1>1. /\ \A m \in Held : m.session = load.session /\ m.id < source.next_nal_id
      /\ \A m, n \in Held : m.id = n.id => m = n
  BY DEF HeldInv
<1>2. source.next_nal_id \in Nat
  BY DEF Shape, SourceShape
<1>3. CASE Held' = {}
  BY <1>3 DEF HeldInv
<1>4. CASE Held' \subseteq Held /\ SameStream
  BY <1>1, <1>4 DEF HeldInv, SameStream
<1>5. CASE EncodeNal /\ Held' \subseteq Held \cup {NextNal}
  <2>1. /\ load' = load /\ source'.next_nal_id = source.next_nal_id + 1
        /\ NextNal.session = load.session /\ NextNal.id = source.next_nal_id
    BY <1>5, EncodeStream
  <2>2. \A m \in Held : m.id \in Nat /\ m.id # NextNal.id
    BY <1>1, <1>2, <2>1, HeldAreNals DEF Nal
  <2>3. \A m \in Held' : m.session = load'.session /\ m.id < source'.next_nal_id
    BY <1>1, <1>2, <1>5, <2>1, <2>2
  <2>4. \A m, n \in Held' : m.id = n.id => m = n
    BY <1>1, <1>5, <2>2
  <2> QED  BY <2>3, <2>4 DEF HeldInv
<1> QED  BY <1>3, <1>4, <1>5, NextHeld

\* Where a P cannot be, none comes to be.
LEMMA NotDeltaStays ==
  ASSUME Shape, NEW n \in Nat, NotDelta(n),
         \/ Held' \subseteq Held /\ SameStream
         \/ EncodeNal /\ Held' \subseteq Held \cup {NextNal} /\ n <= source.next_nal_id
  PROVE  NotDelta(n)'
<1>0. load.gop[1] # "P" /\ source.next_nal_id \in Nat
  BY DEF Shape, LoadShape, StartsAfresh, SourceShape
<1>1. CASE Held' \subseteq Held /\ SameStream
  BY <1>0, <1>1 DEF NotDelta, SameStream
<1>2. CASE EncodeNal /\ Held' \subseteq Held \cup {NextNal} /\ n <= source.next_nal_id
  <2>1. /\ source'.next_nal_id = source.next_nal_id + 1
        /\ NextNal.type = load.gop[source.gop] /\ NextNal.id = source.next_nal_id
    BY <1>2, EncodeStream
  <2> HIDE DEF NextNal
  <2>2. \A m \in Held' : m.id = n => m.type # "P"
    BY <1>2, <2>1 DEF NotDelta
  <2>3. source'.next_nal_id # n
    BY <1>0, <1>2, <2>1
  <2> QED  BY <2>2, <2>3 DEF NotDelta
<1> QED  BY <1>1, <1>2

\* The place after the last is the first.
LEMMA Wraps ==
  ASSUME NEW n \in Nat, NEW i \in 1..n
  PROVE  (i % n) + 1 = IF i = n THEN 1 ELSE i + 1
OBVIOUS

\* A picture is coded from the one before it, through restarts of the camera and new sessions.
LEMMA NextStreamInv ==
  ASSUME [Next]_vars, Shape, PendingBound, TurnInv, SliceInv, ChunkInv, HeldInv, StreamInv, ReassemblyInv
  PROVE  StreamInv'
<1>0. /\ load.gop[1] # "P" /\ source.next_nal_id \in Nat /\ load.gop \in Seq(NalType) /\ source.gop \in 1..Len(load.gop)
      /\ source.picture \in Nat \cup {NoId}
      /\ \A i \in 1..(Len(load.gop) - 1) : load.gop[i] \in ParameterSet => load.gop[i + 1] # "P"
  BY DEF Shape, LoadShape, StartsAfresh, SourceShape
<1>1. /\ load.gop[source.gop] = "P" => source.picture = source.next_nal_id - 1
      /\ \A m \in Held : m.type = "P" => m.from = m.id - 1
      /\ \A m \in Held : m.type \in ParameterSet => NotDelta(m.id + 1)
  BY DEF StreamInv
<1>2. \A m \in Held : m.id \in Nat /\ m.id < source.next_nal_id
  BY HeldAreNals DEF Nal, HeldInv
<1>3. CASE Held' = {} /\ source' = NewSource /\ load'.gop = load.gop
  <2>1. source'.gop = 1
    BY <1>3 DEF NewSource
  <2> QED  BY <1>0, <1>3, <2>1 DEF StreamInv
<1>4. CASE Held' \subseteq Held /\ SameStream
  <2>1. \A m \in Held : m.type \in ParameterSet => NotDelta(m.id + 1)'
    <3> SUFFICES ASSUME NEW m \in Held, m.type \in ParameterSet PROVE NotDelta(m.id + 1)'
      OBVIOUS
    <3> DEFINE n == m.id + 1
    <3>1. n \in Nat /\ NotDelta(n)
      BY <1>1, <1>2
    <3>2. NotDelta(n)'
      <4> HIDE DEF n
      <4> QED  BY <1>4, <3>1, NotDeltaStays
    <3> QED  BY <3>2
  <2>2. load'.gop[source'.gop] = "P" => source'.picture = source'.next_nal_id - 1
    BY <1>0, <1>1, <1>4 DEF SameStream
  <2> QED  BY <1>1, <1>4, <2>1, <2>2 DEF StreamInv
<1>5. CASE EncodeNal /\ Held' \subseteq Held \cup {NextNal}
  <2> DEFINE type == load.gop[source.gop]
  <2>0. Len(load.gop) \in Nat
    BY <1>0
  <2>1. /\ load' = load /\ NextNal \in Nal /\ NextNal.session = load.session /\ NextNal.id = source.next_nal_id
        /\ NextNal.type = type /\ NextNal.from = IF type = "P" THEN source.picture ELSE NoId
        /\ source'.next_nal_id = source.next_nal_id + 1
        /\ source'.gop = (source.gop % Len(load.gop)) + 1
        /\ source'.picture = IF type \in ParameterSet THEN source.picture ELSE source.next_nal_id
    BY <1>5, EncodeStream
  <2>2. type \in ParameterSet => load.gop[source'.gop] # "P"
    <3>1. CASE source.gop = Len(load.gop)
      <4>1. source'.gop = 1
        BY <1>0, <2>0, <2>1, <3>1, Wraps
      <4> QED  BY <1>0, <4>1
    <3>2. CASE source.gop # Len(load.gop)
      <4>1. source.gop \in 1..(Len(load.gop) - 1)
        BY <1>0, <2>0, <3>2
      <4>2. source'.gop = source.gop + 1
        BY <1>0, <2>0, <2>1, <3>2, Wraps
      <4> QED  BY <1>0, <4>1, <4>2
    <3> QED  BY <3>1, <3>2
  <2>3. load'.gop[source'.gop] = "P" => source'.picture = source'.next_nal_id - 1
    BY <1>0, <2>1, <2>2
  <2>4. NextNal.type = "P" => NextNal.from = NextNal.id - 1
    BY <1>1, <2>1
  <2>5. ASSUME NEW m \in Held, m.type \in ParameterSet PROVE NotDelta(m.id + 1)'
    <3> DEFINE n == m.id + 1
    <3>1. n \in Nat /\ NotDelta(n) /\ n <= source.next_nal_id
      BY <1>0, <1>1, <1>2, <2>5
    <3>2. NotDelta(n)'
      <4> HIDE DEF n, type
      <4> QED  BY <1>5, <3>1, NotDeltaStays
    <3> QED  BY <3>2
  <2>6. ASSUME type \in ParameterSet, NEW n \in Nat, n = source.next_nal_id + 1 PROVE NotDelta(n)'
    <3>1. \A m \in Held' : m.id # n
      <4>1. \A m \in Held : m.id # n
        BY <1>0, <1>2, <2>6
      <4>2. NextNal.id # n
        BY <1>0, <2>1, <2>6
      <4> HIDE DEF NextNal
      <4> QED  BY <1>5, <4>1, <4>2
    <3>2. load'.gop[source'.gop] # "P"
      BY <2>1, <2>2, <2>6
    <3> QED  BY <3>1, <3>2 DEF NotDelta
  <2>7. ASSUME NEW m \in Held', m.type \in ParameterSet PROVE NotDelta(m.id + 1)'
    <3>1. CASE m \in Held
      BY <2>5, <2>7, <3>1
    <3>2. CASE m = NextNal
      <4> DEFINE n == m.id + 1
      <4>0. m.id = source.next_nal_id /\ m.type = type
        BY <2>1, <3>2
      <4>1. n \in Nat /\ n = source.next_nal_id + 1 /\ type \in ParameterSet
        <5> HIDE DEF type
        <5> QED  BY <1>0, <2>7, <4>0
      <4>2. NotDelta(n)'
        <5> HIDE DEF n
        <5> QED  BY <2>6, <4>1
      <4> QED  BY <4>2
    <3> QED  BY <1>5, <3>1, <3>2
  <2>8. \A m \in Held' : m.type = "P" => m.from = m.id - 1
    BY <1>1, <1>5, <2>4
  <2> QED  BY <2>3, <2>7, <2>8 DEF StreamInv
<1> QED  BY <1>3, <1>4, <1>5, NextHeld

-----------------------------------------------------------------------------
(* The console's assemblers.                                               *)

\* What an assembler keeps, when its sensor has rendered n frames.
AssemblerOf(asm, n) ==
  /\ asm \in [pending : {asm.pending}, last_emitted : Int] /\ asm.last_emitted \in -1..(n - 1)
  /\ \A p \in DOMAIN asm.pending : p \in (asm.last_emitted + 1)..(n - 1)
  /\ Cardinality(DOMAIN asm.pending) <= MaxPendingFrames

\* emit: whatever is released, only newer frames stay, and one fewer than there were.
LEMMA EmitFacts ==
  ASSUME NEW asm, NEW n \in Nat, NEW seq \in DOMAIN asm.pending, DOMAIN asm.pending \subseteq 0..(n - 1),
         Cardinality(DOMAIN asm.pending) <= MaxPendingFrames + 1
  PROVE  AssemblerOf(Emit(asm, seq), n) /\ Emit(asm, seq).last_emitted = seq
<1> DEFINE D == DOMAIN asm.pending
           newer == {p \in D : p > seq}
           kept == Keep(asm.pending, newer)
<1>1. Emit(asm, seq) = [pending |-> kept, last_emitted |-> seq]
  BY DEF Emit
<1>2. DOMAIN kept = newer
  BY DEF Keep
<1>3. IsFiniteSet(D) /\ Cardinality(D) \in Nat
  <2>1. IsFiniteSet(0..(n - 1))
    BY ArraySize
  <2> QED  BY <2>1, FS_Subset, FS_CardinalityType
<1>4. IsFiniteSet(D \ {seq}) /\ Cardinality(D \ {seq}) = Cardinality(D) - 1
  BY <1>3, FS_RemoveElement
<1>5. newer \subseteq D \ {seq}
  OBVIOUS
<1>6. Cardinality(newer) <= Cardinality(D \ {seq}) /\ IsFiniteSet(newer) /\ Cardinality(newer) \in Nat
  BY <1>4, <1>5, FS_Subset, FS_CardinalityType
<1>7. MaxPendingFrames \in Nat
  BY SensorFramesAssumption
<1>8. Cardinality(newer) <= MaxPendingFrames
  BY <1>3, <1>4, <1>6, <1>7
<1>9. seq \in 0..(n - 1) /\ \A p \in newer : p \in (seq + 1)..(n - 1)
  OBVIOUS
<1> HIDE DEF kept, newer
<1>10. Emit(asm, seq).pending = kept /\ Emit(asm, seq).last_emitted = seq
  BY <1>1
<1> QED  BY <1>1, <1>2, <1>8, <1>9, <1>10 DEF AssemblerOf

\* on_slice of a slice of the session.
LEMMA OnSliceFacts ==
  ASSUME NEW asm, NEW n \in Nat, AssemblerOf(asm, n), NEW d, d.frame_seq \in 0..(n - 1)
  PROVE  /\ AssemblerOf(OnSlice(asm, d).asm, n)
         /\ \/ OnSlice(asm, d).asm.last_emitted = asm.last_emitted
            \/ OnSlice(asm, d).asm.last_emitted \in (asm.last_emitted + 1)..(n - 1)
<1> DEFINE seq == d.frame_seq
           D == DOMAIN asm.pending
           known == seq \in D
           entry == IF known THEN asm.pending[seq]
                    ELSE [frame_seq |-> seq, slice_count |-> d.slice_count, slices |-> <<>>]
           filled == [entry EXCEPT !.slices = With(@, d.slice_index, d.payload)]
           pending == With(asm.pending, seq, filled)
           added == [asm EXCEPT !.pending = pending]
           oldest == CHOOSE p \in DOMAIN added.pending : \A r \in DOMAIN added.pending : p <= r
           refused == \/ seq <= asm.last_emitted \/ entry.slice_count # d.slice_count
                      \/ d.slice_index \in DOMAIN entry.slices
           over == Cardinality(DOMAIN added.pending) > MaxPendingFrames
<1>1. OnSlice(asm, d) =
        IF refused THEN [asm |-> asm, ready |-> <<>>]
        ELSE IF Complete(filled) THEN [asm |-> Emit(added, seq), ready |-> <<filled>>]
        ELSE IF over THEN [asm |-> Emit(added, oldest), ready |-> <<added.pending[oldest]>>]
        ELSE [asm |-> added, ready |-> <<>>]
  BY DEF OnSlice
<1>2. asm = [pending |-> asm.pending, last_emitted |-> asm.last_emitted] /\ asm.last_emitted \in -1..(n - 1)
  BY DEF AssemblerOf
<1>3. DOMAIN pending = D \cup {seq}
  BY DEF With
<1>4. refused => OnSlice(asm, d).asm = asm
  BY <1>1
<1>r. ~refused => seq > asm.last_emitted
  BY <1>2
<1> HIDE DEF refused, filled, pending
<1>5. added = [pending |-> pending, last_emitted |-> asm.last_emitted]
  BY <1>2
<1>6. added.pending = pending /\ added.last_emitted = asm.last_emitted
  BY <1>5
<1>q. over => Cardinality(D \cup {seq}) > MaxPendingFrames
  BY <1>3, <1>6
<1>qq. ~over => ~(Cardinality(D \cup {seq}) > MaxPendingFrames)
  BY <1>3, <1>6
<1>o. oldest = CHOOSE p \in D \cup {seq} : \A r \in D \cup {seq} : p <= r
  BY <1>3, <1>6
<1>l. \/ OnSlice(asm, d).asm = asm
      \/ ~refused /\ OnSlice(asm, d).asm = Emit(added, seq)
      \/ ~refused /\ OnSlice(asm, d).asm = Emit(added, oldest)
      \/ ~refused /\ OnSlice(asm, d).asm = added /\ ~over
  BY <1>1
<1> HIDE DEF added, oldest, over
<1>7. \A p \in D : p \in (asm.last_emitted + 1)..(n - 1)
  BY DEF AssemblerOf
<1>8. D \cup {seq} \subseteq 0..(n - 1)
  BY <1>2, <1>7
<1>9. Cardinality(D \cup {seq}) <= MaxPendingFrames + 1 /\ Cardinality(D \cup {seq}) \in Nat
  <2>1. IsFiniteSet(0..(n - 1))
    BY ArraySize
  <2>2. IsFiniteSet(D)
    BY <1>8, <2>1, FS_Subset
  <2>3. Cardinality(D) <= MaxPendingFrames
    BY DEF AssemblerOf
  <2>4. Cardinality(D \cup {seq}) \in {Cardinality(D), Cardinality(D) + 1} /\ Cardinality(D) \in Nat
    BY <2>2, FS_AddElement, FS_CardinalityType
  <2>5. MaxPendingFrames \in Nat
    BY SensorFramesAssumption
  <2> QED  BY <2>3, <2>4, <2>5
<1>10. ASSUME ~refused
       PROVE  /\ \A p \in D \cup {seq} : p \in (asm.last_emitted + 1)..(n - 1)
              /\ AssemblerOf(Emit(added, seq), n) /\ Emit(added, seq).last_emitted = seq
              /\ AssemblerOf(Emit(added, oldest), n) /\ Emit(added, oldest).last_emitted = oldest
              /\ oldest \in D \cup {seq}
  <2>1. \A p \in D \cup {seq} : p \in (asm.last_emitted + 1)..(n - 1)
    BY <1>2, <1>7, <1>8, <1>10, <1>r
  <2>2. oldest \in D \cup {seq}
    <3> DEFINE E == D \cup {seq}
    <3>1. E \subseteq Nat /\ E # {}
      BY <1>8
    <3> HIDE DEF E
    <3>2. \E p \in E : \A r \in E : p <= r
      BY <3>1, LeastNatural
    <3> QED  BY <1>o, <3>2 DEF E
  <2>3. /\ DOMAIN added.pending \subseteq 0..(n - 1) /\ seq \in DOMAIN added.pending /\ oldest \in DOMAIN added.pending
        /\ Cardinality(DOMAIN added.pending) <= MaxPendingFrames + 1
    BY <1>3, <1>6, <1>8, <1>9, <2>2
  <2>4. AssemblerOf(Emit(added, seq), n) /\ Emit(added, seq).last_emitted = seq
    BY <2>3, EmitFacts
  <2>5. AssemblerOf(Emit(added, oldest), n) /\ Emit(added, oldest).last_emitted = oldest
    BY <2>3, EmitFacts
  <2> QED  BY <2>1, <2>2, <2>4, <2>5
<1>11. ASSUME ~refused, ~over PROVE AssemblerOf(added, n)
  <2>1. Cardinality(D \cup {seq}) <= MaxPendingFrames
    BY <1>9, <1>11, <1>qq, SensorFramesAssumption
  <2>2. added \in [pending : {added.pending}, last_emitted : Int]
    BY <1>2, <1>5, <1>6
  <2> QED  BY <1>2, <1>3, <1>6, <1>10, <1>11, <2>1, <2>2 DEF AssemblerOf
<1> HIDE DEF seq, D
<1>12. CASE OnSlice(asm, d).asm = asm
  BY <1>12
<1>13. CASE ~refused /\ OnSlice(asm, d).asm = Emit(added, seq)
  BY <1>10, <1>13
<1>14. CASE ~refused /\ OnSlice(asm, d).asm = Emit(added, oldest)
  BY <1>10, <1>14
<1>15. CASE ~refused /\ OnSlice(asm, d).asm = added /\ ~over
  BY <1>6, <1>11, <1>15
<1> QED  BY <1>l, <1>12, <1>13, <1>14, <1>15

\* poll: the newest frame past its deadline is what is released last.
LEMMA PollFacts ==
  ASSUME NEW asm, NEW n \in Nat, AssemblerOf(asm, n), NEW expired \in SUBSET DOMAIN asm.pending, expired # {}
  PROVE  /\ AssemblerOf(Poll(asm, expired).asm, n)
         /\ Poll(asm, expired).asm.last_emitted \in (asm.last_emitted + 1)..(n - 1)
<1> DEFINE m == Cardinality(expired)
           order == [i \in 1..m |-> Nth(expired, i)]
           last == order[Len(order)]
<1>1. \A p \in DOMAIN asm.pending : p \in (asm.last_emitted + 1)..(n - 1)
  BY DEF AssemblerOf
<1>2. asm.last_emitted \in -1..(n - 1) /\ Cardinality(DOMAIN asm.pending) <= MaxPendingFrames
  BY DEF AssemblerOf
<1>3. DOMAIN asm.pending \subseteq 0..(n - 1) /\ expired \subseteq 0..n
  BY <1>1, <1>2
<1>4. m \in Nat \ {0} /\ Nth(expired, m) \in expired
  BY <1>3, NthLast
<1>5. Poll(asm, expired).asm = Emit(asm, last)
  BY DEF Poll
<1> HIDE DEF m
<1>6. last = Nth(expired, m)
  BY <1>4
<1> HIDE DEF last
<1>7. last \in DOMAIN asm.pending
  BY <1>4, <1>6
<1>8. Cardinality(DOMAIN asm.pending) <= MaxPendingFrames + 1
  <2>1. IsFiniteSet(0..(n - 1))
    BY ArraySize
  <2>2. Cardinality(DOMAIN asm.pending) \in Nat
    BY <1>3, <2>1, FS_Subset, FS_CardinalityType
  <2> QED  BY <1>2, <2>2, SensorFramesAssumption
<1>9. AssemblerOf(Emit(asm, last), n) /\ Emit(asm, last).last_emitted = last
  BY <1>3, <1>7, <1>8, EmitFacts
<1> QED  BY <1>1, <1>5, <1>7, <1>9

\* A new assembler has released nothing.
LEMMA NewAssemblerFacts == AssemblerOf(NewAssembler, 0) /\ NewAssembler.last_emitted = -1
<1>1. Cardinality({}) = 0
  BY FS_EmptySet
<1>2. DOMAIN <<>> = {} /\ MaxPendingFrames \in Nat
  BY SensorFramesAssumption
<1> QED  BY <1>1, <1>2 DEF NewAssembler, NothingYet, AssemblerOf

Assemblers == DOMAIN sensors = Sensors /\ \A s \in Sensors : AssemblerOf(sensors[s], source.frame_seq[s])

\* The parts of the invariant about assemblers, as one statement and back.
LEMMA AssemblersFacts ==
  /\ AssemblerShape /\ AssemblerInv /\ PendingBound => Assemblers
  /\ Assemblers /\ VideoBound => AssemblerShape /\ AssemblerInv /\ PendingBound
BY DEF AssemblerShape, AssemblerInv, PendingBound, Assemblers, AssemblerOf, VideoBound

-----------------------------------------------------------------------------
(* Sensor frames keep their invariants.                                    *)

\* A step that shows nothing new of any sensor.
LEMMA SensorsStay ==
  ASSUME Shape, SliceInv, Assemblers, UNCHANGED <<source.frame_seq, source.slots, sensors>>,
         \A s \in Sensors : SlicesOf(queue'.sensors[s], s, source.frame_seq), slices' \subseteq slices
  PROVE  SliceInv' /\ Assemblers'
<1>1. SliceInv'
  BY DEF SliceInv
<1>2. Assemblers'
  BY DEF Assemblers
<1> QED  BY <1>1, <1>2

\* A slice of what was rendered is one of what is rendered later.
LEMMA LaterSlices ==
  ASSUME NEW before \in [Sensors -> Nat], NEW after \in [Sensors -> Nat], \A s \in Sensors : before[s] <= after[s]
  PROVE  /\ \A s \in Sensors : \A d : SliceOf(d, s, before) => SliceOf(d, s, after)
         /\ \A s \in Sensors : \A sq : SlicesOf(sq, s, before) => SlicesOf(sq, s, after)
<1>1. \A s \in Sensors : \A d : SliceOf(d, s, before) => SliceOf(d, s, after)
  BY DEF SliceOf
<1> QED  BY <1>1 DEF SlicesOf

\* Every step keeps the slices those of their frames, and the assemblers behind them.
LEMMA NextSensors ==
  ASSUME [Next]_vars, Shape, PendingBound, TurnInv, SliceInv, AssemblerInv, ChunkInv, HeldInv, ReassemblyInv
  PROVE  SliceInv' /\ Assemblers'
<1>0. /\ LoadShape /\ SourceShape /\ QueueShape(queue) /\ ReceiverShape /\ HistoryShape /\ ChunksOf(queue)
      /\ Assemblers
  BY AssemblersFacts DEF Shape, ChunkInv
<1>f. source.frame_seq \in [Sensors -> Nat] /\ source.slots \in [Sensors -> Nat \cup {NoId}]
  BY <1>0 DEF SourceShape
<1>q. /\ \A s \in Sensors : source.slots[s] < source.frame_seq[s]
      /\ \A s \in Sensors : SlicesOf(queue.sensors[s], s, source.frame_seq)
      /\ \A d \in slices : SliceOf(d, d.sensor_id, source.frame_seq)
  BY DEF SliceInv
<1>s. Selected \subseteq Sensors
  BY MediaPathAssumption
<1>1. CASE EncodeNal
  <2>1. UNCHANGED <<source.frame_seq, source.slots>>
    BY <1>0, <1>1, EncodeFacts DEF SourceOf
  <2>2. UNCHANGED <<queue, slices, sensors>>
    BY <1>1, Untouched DEF Produces
  <2> QED  BY <1>0, <1>q, <2>1, <2>2, SensorsStay
<1>2. CASE CaptureRestart
  <2>1. UNCHANGED <<source.frame_seq, source.slots>>
    BY <1>0, <1>2, RestartFacts DEF SourceOf
  <2>2. UNCHANGED <<queue, slices, sensors>>
    BY <1>2, Untouched DEF Produces
  <2> QED  BY <1>0, <1>q, <2>1, <2>2, SensorsStay
<1>3. ASSUME NEW s \in Sensors, RenderFrame(s)
      PROVE  SliceInv' /\ Assemblers'
  <2> DEFINE seqs == [source.frame_seq EXCEPT ![s] = @ + 1]
             slots == [source.slots EXCEPT ![s] = source.frame_seq[s]]
  <2>1. source'.frame_seq = seqs /\ source'.slots = slots
    BY <1>0, <1>3, RenderFacts DEF SourceOf
  <2>2. UNCHANGED <<queue, slices, sensors>>
    BY <1>3, Untouched DEF Produces
  <2>3. seqs \in [Sensors -> Nat] /\ \A t \in Sensors : source.frame_seq[t] <= seqs[t]
    BY <1>f
  <2>4. \A t \in Sensors : slots[t] < seqs[t]
    BY <1>f, <1>q
  <2> HIDE DEF seqs, slots
  <2>5. /\ \A t \in Sensors : \A d : SliceOf(d, t, source.frame_seq) => SliceOf(d, t, seqs)
        /\ \A t \in Sensors : \A sq : SlicesOf(sq, t, source.frame_seq) => SlicesOf(sq, t, seqs)
    <3> DEFINE before == source.frame_seq
    <3>1. before \in [Sensors -> Nat] /\ \A t \in Sensors : before[t] <= seqs[t]
      BY <1>f, <2>3
    <3>2. before = source.frame_seq
      OBVIOUS
    <3> HIDE DEF before
    <3>3. /\ \A t \in Sensors : \A d : SliceOf(d, t, before) => SliceOf(d, t, seqs)
          /\ \A t \in Sensors : \A sq : SlicesOf(sq, t, before) => SlicesOf(sq, t, seqs)
      BY <2>3, <3>1, LaterSlices
    <3> QED  BY <3>2, <3>3
  <2>6. \A d \in slices : d.sensor_id \in Sensors
    BY <1>q, <1>s DEF SliceOf
  <2>7. SliceInv'
    BY <1>q, <2>1, <2>2, <2>4, <2>5, <2>6 DEF SliceInv
  <2>8. \A t \in Sensors : AssemblerOf(sensors[t], seqs[t])
    <3> SUFFICES ASSUME NEW t \in Sensors PROVE AssemblerOf(sensors[t], seqs[t])
      OBVIOUS
    <3>1. AssemblerOf(sensors[t], source.frame_seq[t]) /\ source.frame_seq[t] \in Nat /\ seqs[t] \in Nat
      BY <1>0, <1>f, <2>3 DEF Assemblers
    <3> QED  BY <2>3, <3>1 DEF AssemblerOf
  <2>9. Assemblers'
    BY <1>0, <2>1, <2>2, <2>8 DEF Assemblers
  <2> QED  BY <2>7, <2>9
<1>4. CASE SessionOnNal
  <2>1. PICK nal \in Nal :
           /\ queue' \in {queue, PushVideoNal(queue, nal)}
           /\ source' = [next_nal_id |-> source.next_nal_id, gop |-> source.gop, picture |-> source.picture,
                         critical |-> source'.critical, latest_delta |-> source'.latest_delta,
                         frame_seq |-> source.frame_seq, slots |-> source.slots]
    BY <1>0, <1>4, OnNalFacts
  <2>2. UNCHANGED <<slices, sensors>>
    BY <1>4, Untouched
  <2>3. UNCHANGED <<source.frame_seq, source.slots>>
    BY <2>1
  <2>4. queue'.sensors = queue.sensors
    BY <1>0, <2>1, PushVideoFacts
  <2> QED  BY <1>0, <1>q, <2>2, <2>3, <2>4, SensorsStay
<1>5. CASE SessionOnSensorFrames
  <2>1. source'.frame_seq = source.frame_seq /\ source'.slots = [s \in Sensors |-> NoId]
    BY <1>0, <1>5, TakeFacts DEF SourceOf
  <2>2. UNCHANGED <<slices, sensors>>
    BY <1>5, Untouched
  <2>3. \A s \in Sensors : SlicesOf(queue'.sensors[s], s, source.frame_seq)
    BY <1>0, <1>5, OnFramesFacts
  <2>4. \A s \in Sensors : source'.slots[s] < source.frame_seq[s]
    BY <1>f, <2>1 DEF NoId
  <2>5. SliceInv'
    BY <1>q, <2>1, <2>2, <2>3, <2>4 DEF SliceInv
  <2>6. Assemblers'
    BY <1>0, <2>1, <2>2 DEF Assemblers
  <2> QED  BY <2>5, <2>6
<1>6. CASE FeedLossy
  <2>1. UNCHANGED <<source, sensors>>
    BY <1>6, Untouched
  <2>2. /\ \A s \in Sensors : SlicesOf(queue'.sensors[s], s, source.frame_seq)
        /\ \A d \in slices' : d \in slices \/ SliceOf(d, d.sensor_id, source.frame_seq)
    <3> DEFINE seqs == source.frame_seq
    <3>1. seqs = source.frame_seq /\ \A s \in Sensors : SlicesOf(queue.sensors[s], s, seqs)
      BY <1>q
    <3> HIDE DEF seqs
    <3>2. /\ \A s \in Sensors : SlicesOf(queue'.sensors[s], s, seqs)
          /\ \A d \in slices' : d \in slices \/ SliceOf(d, d.sensor_id, seqs)
      BY <1>0, <1>6, <3>1, FeedFacts
    <3> QED  BY <3>1, <3>2
  <2>3. SliceInv'
    BY <1>q, <2>1, <2>2 DEF SliceInv
  <2>4. Assemblers'
    BY <1>0, <2>1 DEF Assemblers
  <2> QED  BY <2>3, <2>4
<1>7. CASE Lose
  <2>1. UNCHANGED <<source, queue, sensors>>
    BY <1>7, Untouched
  <2>2. slices' \subseteq slices
    BY <1>7 DEF Lose
  <2> QED  BY <1>0, <1>q, <2>1, <2>2, SensorsStay
<1>8. CASE Reconnect
  <2>1. /\ source' = NewSource /\ queue' = NewLossyQueue /\ slices' = {}
        /\ sensors' = [s \in Sensors |-> NewAssembler]
    BY <1>0, <1>8, ReconnectFacts
  <2>2. source'.frame_seq = [s \in Sensors |-> 0] /\ source'.slots = [s \in Sensors |-> NoId]
    BY <2>1 DEF NewSource
  <2>3. \A s \in Sensors : source'.slots[s] < source'.frame_seq[s]
    BY <2>2 DEF NoId
  <2>4. \A s \in Sensors : SlicesOf(queue'.sensors[s], s, source'.frame_seq)
    <3> DEFINE seqs == source'.frame_seq
    <3> HIDE DEF seqs
    <3>1. \A s \in Sensors : SlicesOf(NewLossyQueue.sensors[s], s, seqs)
      BY NewQueue
    <3> QED  BY <2>1, <3>1 DEF seqs
  <2>5. SliceInv'
    BY <2>1, <2>3, <2>4 DEF SliceInv
  <2>6. Assemblers'
    BY <2>1, <2>2, NewAssemblerFacts DEF Assemblers
  <2> QED  BY <2>5, <2>6
<1>9. ASSUME NEW d \in slices, OnSensorSlice(d)
      PROVE  SliceInv' /\ Assemblers'
  <2>1. /\ slices' \subseteq slices /\ sensors' = [sensors EXCEPT ![d.sensor_id] = OnSlice(sensors[d.sensor_id], d).asm]
        /\ UNCHANGED <<source, queue>>
    BY <1>9 DEF OnSensorSlice, Released, robot
  <2>2. d.sensor_id \in Sensors /\ d.frame_seq \in 0..(source.frame_seq[d.sensor_id] - 1)
    BY <1>q, <1>s DEF SliceOf
  <2> DEFINE s == d.sensor_id
             n == source.frame_seq[s]
             asm == sensors[s]
  <2>3. n \in Nat /\ AssemblerOf(asm, n) /\ d.frame_seq \in 0..(n - 1)
    BY <1>0, <1>f, <2>2 DEF Assemblers
  <2>4. AssemblerOf(OnSlice(asm, d).asm, n)
    <3> HIDE DEF asm, n
    <3> QED  BY <2>3, OnSliceFacts
  <2>5. Assemblers'
    BY <1>0, <2>1, <2>2, <2>4 DEF Assemblers
  <2>6. SliceInv'
    BY <1>q, <2>1 DEF SliceInv
  <2> QED  BY <2>5, <2>6
<1>10. ASSUME NEW s \in Sensors, PollSensors(s)
       PROVE  SliceInv' /\ Assemblers'
  <2>1. /\ slices' = slices /\ UNCHANGED <<source, queue>>
    BY <1>10 DEF PollSensors, net, robot
  <2>2. PICK expired \in SUBSET DOMAIN sensors[s].pending :
           expired # {} /\ sensors' = [sensors EXCEPT ![s] = Poll(sensors[s], expired).asm]
    BY <1>10 DEF PollSensors, Released
  <2> DEFINE n == source.frame_seq[s]
             asm == sensors[s]
  <2>3. n \in Nat /\ AssemblerOf(asm, n) /\ expired \in SUBSET DOMAIN asm.pending
    BY <1>0, <1>f, <2>2 DEF Assemblers
  <2>4. AssemblerOf(Poll(asm, expired).asm, n)
    <3> HIDE DEF asm, n
    <3> QED  BY <2>2, <2>3, PollFacts
  <2>5. Assemblers'
    BY <1>0, <2>1, <2>2, <2>4 DEF Assemblers
  <2>6. SliceInv'
    BY <1>q, <2>1 DEF SliceInv
  <2> QED  BY <2>5, <2>6
<1>11. CASE Operate \/ OnSomeChunk \/ Plays
  <2>1. UNCHANGED <<source, queue, slices, sensors>>
    BY <1>11, Untouched
  <2> QED  BY <1>0, <1>q, <2>1, SensorsStay
<1>12. CASE UNCHANGED vars
  <2>1. UNCHANGED <<source, queue, slices, sensors>>
    BY <1>12 DEF vars
  <2> QED  BY <1>0, <1>q, <2>1, SensorsStay
<1> QED  BY <1>1, <1>2, <1>3, <1>4, <1>5, <1>6, <1>7, <1>8, <1>9, <1>10, <1>11, <1>12, Steps DEF Produces, OnSomeSlice

-----------------------------------------------------------------------------
(* The invariant, and what follows from it.                                *)

\* The invariant holds at the start.
LEMMA InitInv == Init => Inv
<1> SUFFICES ASSUME Init PROVE Inv
  OBVIOUS
<1>1. PICK w \in Workloads : load = NewLoad(w)
  BY DEF Init
<1>2. /\ source = NewSource /\ queue = NewLossyQueue /\ chunks = {} /\ slices = {} /\ video_rx = <<>>
      /\ gate = NewGate /\ sensors = [s \in Sensors |-> NewAssembler]
      /\ playback = [critical |-> <<>>, slot |-> <<>>, ready |-> FALSE, taking |-> FALSE, taken |-> <<>>]
      /\ history = [slipped |-> FALSE, torn |-> {}, carried |-> {}, passed_over |-> 0]
  BY DEF Init
<1>3. DOMAIN video_rx = {}
  BY <1>2
<1>4. /\ source.next_nal_id = 0 /\ source.gop = 1 /\ source.picture = NoId /\ source.critical = <<>>
      /\ source.latest_delta = <<>> /\ source.frame_seq = [s \in Sensors |-> 0]
      /\ source.slots = [s \in Sensors |-> NoId]
  BY <1>2 DEF NewSource
<1>5. history.slipped = FALSE /\ history.torn = {} /\ history.carried = {} /\ history.passed_over = 0
  BY <1>2
<1>6. LoadShape
  <2>1. w \in [gop : Seq(NalType) \ {<<>>}, nals : Nat, backend : {"ffplay", "native"}, restarts : BOOLEAN,
               fitted : SUBSET Sensors, frames : Nat, policy : {"Cut", "Finish"}, drops : Nat]
    BY MediaPathAssumption
  <2>2. load \in [gop : Seq(NalType) \ {<<>>}, nals : Nat, backend : {"ffplay", "native"}, restarts : BOOLEAN,
                  fitted : SUBSET Sensors, frames : Nat, policy : {"Cut", "Finish"}, drops : Nat,
                  session : Nat, operating : BOOLEAN]
    BY <1>1, <2>1 DEF NewLoad
  <2>3. load.gop \in Seq(NalType) /\ load.gop # <<>>
    BY <2>2
  <2>4. 1 \in 1..Len(load.gop)
    BY <2>3
  <2>5. StartsAfresh(load.gop)
    BY <1>1, MediaPathAssumption DEF NewLoad
  <2> QED  BY <1>4, <2>2, <2>4, <2>5 DEF LoadShape
<1>7. SourceShape
  <2>1. <<>> \in Seq(Nal) /\ NoId \in Nat \cup {NoId} /\ 0 \in Nat
    OBVIOUS
  <2>2. source = [next_nal_id |-> 0, gop |-> 1, picture |-> NoId, critical |-> <<>>, latest_delta |-> <<>>,
                  frame_seq |-> [s \in Sensors |-> 0], slots |-> [s \in Sensors |-> NoId]]
    BY <1>2 DEF NewSource
  <2> QED  BY <2>1, <2>2 DEF SourceShape
<1>8. /\ QueueShape(queue) /\ ChunksOf(queue) /\ NalsOf(queue) = {}
      /\ \A s \in Sensors : SlicesOf(queue.sensors[s], s, source.frame_seq)
  <2> DEFINE seqs == source.frame_seq
  <2> HIDE DEF seqs
  <2>1. \A s \in Sensors : SlicesOf(NewLossyQueue.sensors[s], s, seqs)
    BY NewQueue
  <2> QED  BY <1>2, <2>1, NewQueue DEF seqs
<1>9. ReceiverShape
  <2>1. gate \in [next_id : Nat \cup {NoId}, frozen : BOOLEAN]
    BY <1>2 DEF NewGate
  <2>2. <<>> \in Seq(Nal)
    OBVIOUS
  <2>3. playback \in [critical : Seq(Nal), slot : Seq(Nal), ready : BOOLEAN, taking : BOOLEAN, taken : Seq(Nal)]
    BY <1>2, <2>2
  <2> QED  BY <1>2, <1>3, <2>1, <2>3 DEF ReceiverShape
<1>10. HistoryShape
  BY <1>2, <1>5 DEF HistoryShape
<1>11. TurnInv
  BY <1>5 DEF TurnInv
<1>12. SliceInv
  BY <1>2, <1>4, <1>8 DEF SliceInv, NoId
<1>13. Assemblers
  BY <1>2, <1>4, NewAssemblerFacts DEF Assemblers
<1>14. VideoBound
  BY <1>3, FS_EmptySet, MediaPathAssumption DEF VideoBound
<1>15. AssemblerShape /\ AssemblerInv /\ PendingBound
  BY <1>13, <1>14, AssemblersFacts
<1>16. ChunkInv
  BY <1>2, <1>8 DEF ChunkInv
<1>17. Held = {}
  <2>1. {source.critical[i] : i \in 1..Len(source.critical)} = {}
    BY <1>4
  <2>2. {source.latest_delta[i] : i \in 1..Len(source.latest_delta)} = {}
    BY <1>4
  <2>3. {c.nal : c \in chunks} = {}
    BY <1>2
  <2>4. PartsOfPending = {}
    BY <1>3 DEF PartsOfPending
  <2> QED  BY <1>8, <2>1, <2>2, <2>3, <2>4 DEF Held
<1>18. HeldInv
  BY <1>17 DEF HeldInv
<1>19. ReassemblyInv
  BY <1>3, <1>5 DEF ReassemblyInv
<1>20. StreamInv
  <2>1. load.gop[source.gop] # "P"
    BY <1>4, <1>6 DEF LoadShape, StartsAfresh
  <2> QED  BY <1>17, <2>1 DEF StreamInv
<1> QED  BY <1>6, <1>7, <1>8, <1>9, <1>10, <1>11, <1>12, <1>15, <1>16, <1>18, <1>19, <1>20 DEF Inv, Shape

\* Every step keeps the invariant.
LEMMA NextInv == Inv /\ [Next]_vars => Inv'
<1> SUFFICES ASSUME Inv, [Next]_vars PROVE Inv'
  OBVIOUS
<1>0. Shape /\ TurnInv /\ SliceInv /\ AssemblerInv /\ PendingBound /\ ChunkInv /\ HeldInv /\ StreamInv
      /\ ReassemblyInv
  BY DEF Inv
<1>1. LoadShape' /\ SourceShape'
  BY <1>0, NextSourceShape DEF Shape
<1>2. QueueShape(queue') /\ ChunkInv' /\ TurnInv'
  BY <1>0, NextQueue
<1>3. ReceiverShape' /\ VideoBound' /\ ReassemblyInv' /\ HistoryShape'
  BY <1>0, NextReceiver
<1>4. SliceInv' /\ Assemblers'
  BY <1>0, NextSensors
<1>5. AssemblerShape' /\ AssemblerInv' /\ PendingBound'
  BY <1>3, <1>4 DEF AssemblerShape, AssemblerInv, PendingBound, Assemblers, AssemblerOf, VideoBound
<1>6. HeldInv'
  BY <1>0, NextHeldInv
<1>7. Shape'
  BY <1>1, <1>2, <1>3, <1>5 DEF Shape
<1>8. StreamInv'
  BY <1>0, NextStreamInv
<1> QED  BY <1>2, <1>3, <1>4, <1>5, <1>6, <1>7, <1>8 DEF Inv

\* Everything below rests on this invariant: what is where has its shape, classes take turns,
\* slices and frames are of this session, chunks go to their own NAL, and ids tell NALs apart.
THEOREM MediaPathInvariant == Spec => []Inv
BY InitInv, NextInv, PTL DEF Spec

\* Every NAL, chunk and slice on its way is one the robot produced, and NalReassembler and the
\* FrameAssemblers stay within MAX_PENDING_NALS and MAX_PENDING_FRAMES, whatever arrives.
THEOREM MediaPathTypeOK == Spec => []TypeOK
<1>1. Inv => TypeOK
  <2> SUFFICES ASSUME Inv PROVE TypeOK
    OBVIOUS
  <2>0. LoadShape /\ SourceShape /\ QueueShape(queue) /\ ReceiverShape /\ SliceInv /\ PendingBound
    BY DEF Inv, Shape
  <2>1. load.session \in Nat /\ load.operating \in BOOLEAN
    BY <2>0 DEF LoadShape
  <2>2. source.critical \in Seq(Nal) /\ source.latest_delta \in Seq(Nal)
    BY <2>0 DEF SourceShape
  <2>3. \A i \in DOMAIN queue.video : queue.video[i].nal \in Nal
    <3>1. queue.video \in Seq(PendingNal)
      BY <2>0 DEF QueueShape
    <3>2. \A i \in DOMAIN queue.video : queue.video[i] \in PendingNal
      BY <3>1
    <3> QED  BY <3>2 DEF PendingNal
  <2>4. \A c \in chunks : c.nal \in Nal
    BY <2>0 DEF ReceiverShape, Chunk
  <2>5. \A d \in slices : d.sensor_id \in Selected
    BY <2>0 DEF SliceInv, SliceOf
  <2>6. /\ gate \in [next_id : Nat \cup {NoId}, frozen : BOOLEAN]
        /\ playback.critical \in Seq(Nal) /\ playback.slot \in Seq(Nal)
    BY <2>0 DEF ReceiverShape
  <2>7. /\ Cardinality(DOMAIN video_rx) <= MaxPendingNals
        /\ \A s \in Sensors : Cardinality(DOMAIN sensors[s].pending) <= MaxPendingFrames
    BY <2>0 DEF PendingBound
  <2> QED  BY <2>1, <2>2, <2>3, <2>4, <2>5, <2>6, <2>7 DEF TypeOK
<1> QED  BY <1>1, MediaPathInvariant, PTL

\* LossyQueue.pop lets neither video nor sensors go twice while the other waits, through expiry,
\* new arrivals and turns passed on an empty queue.
THEOREM LossyClassesTakeTurns == Spec => []ClassesTakeTurns
<1>1. Inv => ClassesTakeTurns
  BY DEF Inv, Shape, HistoryShape, ClassesTakeTurns
<1> QED  BY <1>1, MediaPathInvariant, PTL

\* NalReassembler never joins the chunks of two NALs within a session, whatever is lost,
\* reordered or evicted; only ids that were pending across a reconnect can be torn.
THEOREM NalsAreWholeWithinSession == Spec => []TornOnlyAcrossReconnect
<1>1. Inv => TornOnlyAcrossReconnect
  BY DEF Inv, ReassemblyInv, TornOnlyAcrossReconnect
<1> QED  BY <1>1, MediaPathInvariant, PTL

\* What a step may do to the frame of a sensor that is being sent.
WholeStep(s) ==
  LET sq == queue.sensors[s]
  IN  sq.started /\ sq.current # <<>> =>
        \/ queue'.sensors[s].current \in {sq.current, Tail(sq.current)}
        \/ /\ Len(sq.current) = 1 /\ sq.waiting # <<>>
           /\ queue'.sensors[s].current = sq.waiting

\* Under Finish a sensor's frame that has begun to be sent goes on slice by slice to its end,
\* through new frames, the other class's turns and the promotion of the frame that waits.
THEOREM FinishSendsFrames == Spec => FinishSendsWhole
<1>1. Inv /\ [Next]_vars =>
        [load.policy = "Finish" /\ load'.session = load.session =>
           \A s \in Sensors :
             LET sq == queue.sensors[s]
             IN  sq.started /\ sq.current # <<>> =>
                   \/ queue'.sensors[s].current \in {sq.current, Tail(sq.current)}
                   \/ /\ Len(sq.current) = 1 /\ sq.waiting # <<>>
                      /\ queue'.sensors[s].current = sq.waiting]_vars
  <2> SUFFICES ASSUME Inv, [Next]_vars, load.policy = "Finish", load'.session = load.session,
                      NEW s \in Sensors
               PROVE  WholeStep(s)
    BY DEF WholeStep
  <2>0. LoadShape /\ SourceShape /\ QueueShape(queue) /\ HistoryShape /\ ChunksOf(queue) /\ TurnInv /\ SliceInv
    BY DEF Inv, Shape, ChunkInv
  <2>1. CASE SessionOnSensorFrames
    <3>1. queue.sensors[s].started /\ queue.sensors[s].current # <<>>
            => queue'.sensors[s].current = queue.sensors[s].current
      BY <2>0, <2>1, OnFramesFacts
    <3> QED  BY <3>1 DEF WholeStep
  <2>2. CASE FeedLossy
    <3>1. queue'.sensors[s] = queue.sensors[s] \/ Advances(queue.sensors[s], queue'.sensors[s])
      BY <2>0, <2>2, FeedFacts
    <3> QED  BY <3>1 DEF Advances, WholeStep
  <2>3. CASE SessionOnNal
    <3>1. PICK nal \in Nal : queue' \in {queue, PushVideoNal(queue, nal)}
      BY <2>0, <2>3, OnNalFacts
    <3>2. queue'.sensors = queue.sensors
      BY <2>0, <3>1, PushVideoFacts
    <3> QED  BY <3>2 DEF WholeStep
  <2>4. CASE Reconnect
    <3>1. load.session \in Nat /\ load'.session = load.session + 1
      <4>1. load.session \in Nat
        BY <2>0 DEF LoadShape
      <4>2. load' = [gop |-> load.gop, nals |-> load.nals, backend |-> load.backend, restarts |-> load.restarts,
                     fitted |-> load.fitted, frames |-> load.frames, policy |-> load.policy, drops |-> load.drops,
                     session |-> load.session + 1, operating |-> FALSE]
        BY <2>0, <2>4, ReconnectFacts
      <4> QED  BY <4>1, <4>2
    <3> QED  BY <3>1
  <2>5. CASE queue' = queue
    BY <2>5 DEF WholeStep
  <2>6. CASE Produces \/ Operate \/ Lose \/ OnSomeChunk \/ Plays \/ OnSomeSlice \/ (\E t \in Sensors : PollSensors(t))
    BY <2>5, <2>6, Untouched
  <2>7. CASE UNCHANGED vars
    BY <2>5, <2>7 DEF vars
  <2> QED  BY <2>1, <2>2, <2>3, <2>4, <2>6, <2>7, Steps
<1> QED  BY <1>1, MediaPathInvariant, PTL DEF Spec, FinishSendsWhole

\* push_video_nal of an IDR: the parameter sets that wait are still there after it.
LEMMA IdrKeeps ==
  ASSUME NEW q, QueueShape(q), NEW nal \in Nal, nal.type = "IDR",
         NEW i \in 1..Len(q.video), q.video[i].nal.type \in ParameterSet
  PROVE  \E j \in 1..Len(PushVideoNal(q, nal).video) : PushVideoNal(q, nal).video[j] = q.video[i]
<1> DEFINE new == [nal |-> nal, chunks |-> ChunkNal(nal)]
           kept == OfTypes(q.video, Survivors(nal.type))
           v == Append(kept, new)
<1>1. q.video \in Seq(PendingNal) /\ Survivors(nal.type) = ParameterSet
  BY DEF QueueShape, Survivors, ParameterSet
<1>2. /\ kept \in Seq(PendingNal)
      /\ \E j \in 1..Len(kept) : kept[j] = q.video[i]
  <2> DEFINE w == q.video
             p == w[i]
  <2>1. w \in Seq(PendingNal) /\ i \in 1..Len(w) /\ p = w[i] /\ w[i].nal.type \in ParameterSet
        /\ kept = OfTypes(w, ParameterSet) /\ p = q.video[i]
    BY <1>1
  <2> HIDE DEF w, p, kept
  <2>2. /\ OfTypes(w, ParameterSet) \in Seq(PendingNal)
        /\ \A k \in 1..Len(w) : w[k].nal.type \in ParameterSet =>
             \E j \in 1..Len(OfTypes(w, ParameterSet)) : OfTypes(w, ParameterSet)[j] = w[k]
    BY <2>1, OfTypesFacts
  <2> QED  BY <2>1, <2>2
<1>3. PushVideoNal(q, nal).video = v
  <2> HIDE DEF new, kept
  <2> DEFINE b == q.skip_deltas_until_idr /\ nal.type # "IDR"
  <2>1. PushVideoNal(q, nal) = [q EXCEPT !.video = v, !.skip_deltas_until_idr = b]
    BY DEF PushVideoNal, new, kept
  <2> HIDE DEF v, b
  <2> QED  BY <2>1 DEF QueueShape
<1> HIDE DEF kept
<1>4. new \in PendingNal
  BY ChunkNalFacts DEF PendingNal
<1> HIDE DEF new
<1>5. Len(v) = Len(kept) + 1 /\ Len(kept) \in Nat /\ \A j \in 1..Len(kept) : v[j] = kept[j] /\ j \in 1..Len(v)
  BY <1>2, <1>4
<1> HIDE DEF v
<1> QED  BY <1>2, <1>3, <1>5

\* LossyQueue may drop deltas and older pictures, never the SPS and PPS that wait in front of an
\* IDR that is queued.
THEOREM IdrHasParameterSets == Spec => IdrKeepsParameterSets
<1>1. Inv /\ [Next]_vars =>
        [\A i \in DOMAIN queue.video :
           (/\ queue.video[i].nal.type \in ParameterSet
            /\ \E j \in DOMAIN queue'.video :
                 queue'.video[j].nal.type = "IDR" /\ \A k \in DOMAIN queue.video :
                                                      queue.video[k].nal # queue'.video[j].nal)
           => \E j \in DOMAIN queue'.video : queue'.video[j].nal = queue.video[i].nal]_vars
  <2> SUFFICES ASSUME Inv, [Next]_vars, NEW i \in DOMAIN queue.video, queue.video[i].nal.type \in ParameterSet,
                      NEW j \in DOMAIN queue'.video, queue'.video[j].nal.type = "IDR",
                      \A k \in DOMAIN queue.video : queue.video[k].nal # queue'.video[j].nal
               PROVE  \E n \in DOMAIN queue'.video : queue'.video[n].nal = queue.video[i].nal
    OBVIOUS
  <2>0. LoadShape /\ SourceShape /\ QueueShape(queue) /\ HistoryShape /\ ChunksOf(queue) /\ TurnInv /\ SliceInv
    BY DEF Inv, Shape, ChunkInv
  <2>d. DOMAIN queue.video = 1..Len(queue.video)
    <3>1. queue.video \in Seq(PendingNal)
      BY <2>0 DEF QueueShape
    <3> QED  BY <3>1
  <2>n. QueueShape(queue') => DOMAIN queue'.video = 1..Len(queue'.video)
    <3>1. QueueShape(queue') => queue'.video \in Seq(PendingNal)
      BY DEF QueueShape
    <3> QED  BY <3>1
  <2>o. ASSUME QueueShape(queue'), NalsOf(queue') \subseteq NalsOf(queue) PROVE FALSE
    <3>1. queue'.video[j].nal \in NalsOf(queue')
      BY <2>n, <2>o DEF NalsOf
    <3>2. queue'.video[j].nal \notin NalsOf(queue)
      BY <2>d DEF NalsOf
    <3> QED  BY <2>o, <3>1, <3>2
  <2>1. CASE SessionOnNal
    <3>1. PICK nal \in Nal : queue' \in {queue, PushVideoNal(queue, nal)}
      BY <2>0, <2>1, OnNalFacts
    <3>2. CASE queue' = queue
      BY <2>0, <2>o, <3>2
    <3>3. CASE queue' = PushVideoNal(queue, nal)
      <4>1. QueueShape(queue') /\ NalsOf(queue') \subseteq NalsOf(queue) \cup {nal}
        BY <2>0, <3>3, PushVideoFacts
      <4>2. queue'.video[j].nal \in NalsOf(queue') /\ queue'.video[j].nal \notin NalsOf(queue)
        BY <2>d, <2>n, <4>1 DEF NalsOf
      <4>3. nal.type = "IDR"
        BY <4>1, <4>2
      <4>4. \E n \in 1..Len(PushVideoNal(queue, nal).video) : PushVideoNal(queue, nal).video[n] = queue.video[i]
        BY <2>0, <2>d, <4>3, IdrKeeps
      <4>5. \E n \in 1..Len(queue'.video) : queue'.video[n] = queue.video[i]
        BY <3>3, <4>4
      <4> QED  BY <2>n, <4>1, <4>5
    <3> QED  BY <3>1, <3>2, <3>3
  <2>2. CASE FeedLossy
    <3>1. QueueShape(queue') /\ NalsOf(queue') \subseteq NalsOf(queue)
      BY <2>0, <2>2, FeedFacts
    <3> QED  BY <2>o, <3>1
  <2>3. CASE SessionOnSensorFrames
    <3>1. QueueShape(queue') /\ queue'.video = queue.video
      BY <2>0, <2>3, OnFramesFacts
    <3> QED  BY <2>o, <3>1 DEF NalsOf
  <2>4. CASE Reconnect
    <3>1. queue' = NewLossyQueue
      BY <2>0, <2>4, ReconnectFacts
    <3>2. QueueShape(queue') /\ NalsOf(queue') = {}
      BY <3>1, NewQueue
    <3> QED  BY <2>o, <3>2
  <2>5. CASE queue' = queue
    BY <2>0, <2>o, <2>5
  <2>6. CASE Produces \/ Operate \/ Lose \/ OnSomeChunk \/ Plays \/ OnSomeSlice \/ (\E s \in Sensors : PollSensors(s))
    BY <2>5, <2>6, Untouched
  <2>7. CASE UNCHANGED vars
    BY <2>5, <2>7 DEF vars
  <2> QED  BY <2>1, <2>2, <2>3, <2>4, <2>6, <2>7, Steps
<1> QED  BY <1>1, MediaPathInvariant, PTL DEF Spec, IdrKeepsParameterSets

-----------------------------------------------------------------------------
(* Sensor frames implement LatestWins.                                     *)

published == [s \in Sensors |-> source.frame_seq[s] - 1]
shown == [s \in Sensors |-> sensors[s].last_emitted]

\* An assembler that moves on shows a frame that was rendered, newer than all it showed before.
LEMMA EmitIsShow ==
  ASSUME NEW s \in Sensors, NEW r, Assemblers, SourceShape, sensors' = [sensors EXCEPT ![s] = r],
         source' = source,
         \/ r.last_emitted = sensors[s].last_emitted
         \/ r.last_emitted \in (sensors[s].last_emitted + 1)..(source.frame_seq[s] - 1)
  PROVE  [Feed!Next]_(Feed!vars)
<1>1. DOMAIN sensors = Sensors
  BY DEF Assemblers
<1>2. shown' = [shown EXCEPT ![s] = r.last_emitted] /\ published' = published
  BY <1>1 DEF shown, published
<1>3. CASE r.last_emitted = sensors[s].last_emitted
  <2>1. shown' = shown
    BY <1>2, <1>3 DEF shown
  <2> QED  BY <1>2, <2>1 DEF Feed!vars, shown, published
<1>4. CASE r.last_emitted \in (sensors[s].last_emitted + 1)..(source.frame_seq[s] - 1)
  <2>1. r.last_emitted \in (shown[s] + 1)..published[s]
    BY <1>4 DEF shown, published
  <2>2. Feed!Show(s)
    BY <1>2, <2>1 DEF Feed!Show, shown, published
  <2> QED  BY <2>2 DEF Feed!Next
<1> QED  BY <1>3, <1>4

\* SensorFrame producers and FrameAssembler implement latest-wins: every step renders the next
\* frame of a sensor, shows one that was rendered and is newer than all shown before it (through
\* lost and reordered slices, eviction and deadlines), starts over, or leaves both as they are.
THEOREM SensorsImplementLatestWins == Spec => SensorsAreLatestWins
<1>1. Init => Feed!Init
  <2> SUFFICES ASSUME Init PROVE Feed!Init
    OBVIOUS
  <2>1. source.frame_seq = [s \in Sensors |-> 0] /\ sensors = [s \in Sensors |-> NewAssembler]
    BY DEF Init, NewSource
  <2> QED  BY <2>1 DEF Feed!Init, Feed!Nothing, NewAssembler, NothingYet
<1>2. Inv /\ [Next]_vars => [Feed!Next]_(Feed!vars)
  <2> SUFFICES ASSUME Inv, [Next]_vars PROVE [Feed!Next]_(Feed!vars)
    OBVIOUS
  <2>0. LoadShape /\ SourceShape /\ QueueShape(queue) /\ HistoryShape /\ SliceInv /\ Assemblers
    BY AssemblersFacts DEF Inv, Shape
  <2>f. source.frame_seq \in [Sensors -> Nat]
    BY <2>0 DEF SourceShape
  <2>s. ASSUME source'.frame_seq = source.frame_seq, sensors' = sensors PROVE [Feed!Next]_(Feed!vars)
    BY <2>s DEF Feed!vars
  <2>1. ASSUME NEW s \in Sensors, RenderFrame(s) PROVE [Feed!Next]_(Feed!vars)
    <3>1. source'.frame_seq = [source.frame_seq EXCEPT ![s] = @ + 1]
      BY <2>0, <2>1, RenderFacts DEF SourceOf
    <3>2. sensors' = sensors
      BY <2>1, Untouched DEF Produces
    <3>3. published' = [published EXCEPT ![s] = @ + 1] /\ shown' = shown
      <4>1. \A t \in Sensors : source'.frame_seq[t] - 1 =
              IF t = s THEN (source.frame_seq[s] - 1) + 1 ELSE source.frame_seq[t] - 1
        BY <2>f, <3>1
      <4>2. published' = [published EXCEPT ![s] = @ + 1]
        BY <4>1 DEF published
      <4>3. shown' = shown
        BY <3>2 DEF shown
      <4> QED  BY <4>2, <4>3
    <3>4. Feed!Publish(s)
      BY <3>3 DEF Feed!Publish, published, shown
    <3> QED  BY <3>4 DEF Feed!Next
  <2>2. ASSUME NEW d \in slices, OnSensorSlice(d) PROVE [Feed!Next]_(Feed!vars)
    <3> DEFINE s == d.sensor_id
               n == source.frame_seq[s]
               asm == sensors[s]
               r == OnSlice(asm, d).asm
    <3>1. s \in Sensors /\ d.frame_seq \in 0..(n - 1)
      BY <2>0, MediaPathAssumption DEF SliceInv, SliceOf
    <3>2. sensors' = [sensors EXCEPT ![s] = r] /\ source' = source
      BY <2>2 DEF OnSensorSlice, Released, robot
    <3>3. n \in Nat /\ AssemblerOf(asm, n)
      BY <2>0, <2>f, <3>1 DEF Assemblers
    <3>4. r.last_emitted = asm.last_emitted \/ r.last_emitted \in (asm.last_emitted + 1)..(n - 1)
      <4> HIDE DEF asm, n
      <4> QED  BY <3>1, <3>3, OnSliceFacts
    <3>5. \/ r.last_emitted = sensors[s].last_emitted
          \/ r.last_emitted \in (sensors[s].last_emitted + 1)..(source.frame_seq[s] - 1)
      BY <3>4
    <3> HIDE DEF s, r, n, asm
    <3> QED  BY <2>0, <3>1, <3>2, <3>5, EmitIsShow
  <2>3. ASSUME NEW s \in Sensors, PollSensors(s) PROVE [Feed!Next]_(Feed!vars)
    <3>1. PICK expired \in SUBSET DOMAIN sensors[s].pending :
             expired # {} /\ sensors' = [sensors EXCEPT ![s] = Poll(sensors[s], expired).asm]
      BY <2>3 DEF PollSensors, Released
    <3>2. source' = source
      BY <2>3 DEF PollSensors, robot
    <3> DEFINE n == source.frame_seq[s]
               asm == sensors[s]
               r == Poll(asm, expired).asm
    <3>3. n \in Nat /\ AssemblerOf(asm, n) /\ expired \in SUBSET DOMAIN asm.pending
      BY <2>0, <2>f, <3>1 DEF Assemblers
    <3>4. r.last_emitted \in (asm.last_emitted + 1)..(n - 1)
      <4> HIDE DEF asm, n
      <4> QED  BY <3>1, <3>3, PollFacts
    <3>5. sensors' = [sensors EXCEPT ![s] = r] /\ r.last_emitted \in (sensors[s].last_emitted + 1)..(source.frame_seq[s] - 1)
      BY <3>1, <3>4
    <3> HIDE DEF r, n, asm
    <3> QED  BY <2>0, <3>2, <3>5, EmitIsShow
  <2>4. CASE Reconnect
    <3>1. source' = NewSource /\ sensors' = [s \in Sensors |-> NewAssembler]
      BY <2>0, <2>4, ReconnectFacts
    <3>2. Feed!StartOver
      BY <3>1 DEF NewSource, NewAssembler, NothingYet, Feed!StartOver, Feed!Nothing
    <3> QED  BY <3>2 DEF Feed!Next
  <2>5. CASE EncodeNal
    <3>1. source'.frame_seq = source.frame_seq
      BY <2>0, <2>5, EncodeFacts DEF SourceOf
    <3>2. sensors' = sensors
      BY <2>5, Untouched DEF Produces
    <3> QED  BY <2>s, <3>1, <3>2
  <2>6. CASE CaptureRestart
    <3>1. source'.frame_seq = source.frame_seq
      BY <2>0, <2>6, RestartFacts DEF SourceOf
    <3>2. sensors' = sensors
      BY <2>6, Untouched DEF Produces
    <3> QED  BY <2>s, <3>1, <3>2
  <2>7. CASE SessionOnNal
    <3>1. PICK nal \in Nal :
             source' = [next_nal_id |-> source.next_nal_id, gop |-> source.gop, picture |-> source.picture,
                        critical |-> source'.critical, latest_delta |-> source'.latest_delta,
                        frame_seq |-> source.frame_seq, slots |-> source.slots]
      BY <2>0, <2>7, OnNalFacts
    <3>2. source'.frame_seq = source.frame_seq
      BY <3>1
    <3>3. sensors' = sensors
      BY <2>7, Untouched
    <3> QED  BY <2>s, <3>2, <3>3
  <2>8. CASE SessionOnSensorFrames
    <3>1. source'.frame_seq = source.frame_seq
      BY <2>0, <2>8, TakeFacts DEF SourceOf
    <3>2. sensors' = sensors
      BY <2>8, Untouched
    <3> QED  BY <2>s, <3>1, <3>2
  <2>9. CASE Operate \/ FeedLossy \/ Lose \/ OnSomeChunk \/ Plays
    <3>1. source' = source /\ sensors' = sensors
      BY <2>9, Untouched
    <3> QED  BY <2>s, <3>1
  <2>10. CASE UNCHANGED vars
    BY <2>10, <2>s DEF vars
  <2> QED  BY <2>1, <2>2, <2>3, <2>4, <2>5, <2>6, <2>7, <2>8, <2>9, <2>10, Steps DEF Produces, OnSomeSlice
<1> QED  BY <1>1, <1>2, MediaPathInvariant, PTL DEF Spec, SensorsAreLatestWins, Feed!Spec

-----------------------------------------------------------------------------
(* Freeze, don't smear: the pictures on their way to the decoder.          *)

\* A picture is known by the session that numbered it and its number: its own, and of the one it was coded from.
Pic(nal) == <<nal.session, nal.id>>
Coded(nal) == <<nal.session, nal.from>>

\* The deltas q lead from picture p to picture r, each coded from the one before it.
Follows(q, p, r) ==
  /\ \A i \in 1..Len(q) : q[i].type = "P" /\ Coded(q[i]) = IF i = 1 THEN p ELSE Pic(q[i - 1])
  /\ r = IF q = <<>> THEN p ELSE Pic(q[Len(q)])

\* The critical NALs q lead from picture p to picture r: the last IDR among them, if any.
After(q, p, r) ==
  /\ \A i \in 1..Len(q) : NalIsCritical(q[i].type)
  /\ \/ r = p /\ \A i \in 1..Len(q) : q[i].type # "IDR"
     \/ \E i \in 1..Len(q) :
          q[i].type = "IDR" /\ r = Pic(q[i]) /\ \A j \in (i + 1)..Len(q) : q[j].type # "IDR"

\* No P at all leads from a picture to that same picture.
LEMMA FollowsEmpty == ASSUME NEW p, NEW r PROVE Follows(<<>>, p, r) <=> r = p
BY DEF Follows

\* One more P leads to its picture, when coded from the last.
LEMMA FollowsAppend ==
  ASSUME NEW q \in Seq(Nal), NEW nal \in Nal, NEW p, Follows(q, p, Coded(nal)), nal.type = "P"
  PROVE  Follows(Append(q, nal), p, Pic(nal))
<1> DEFINE v == Append(q, nal)
           n == Len(q) + 1
<1>1. /\ Len(v) = n /\ n \in Nat /\ n - 1 = Len(q) /\ v[n] = nal /\ v # <<>>
      /\ \A i \in 1..Len(q) : v[i] = q[i] /\ i # n
      /\ \A i \in 1..n : i \in 1..Len(q) \/ i = n
  OBVIOUS
<1>2. /\ \A i \in 1..Len(q) : q[i].type = "P" /\ Coded(q[i]) = IF i = 1 THEN p ELSE Pic(q[i - 1])
      /\ Coded(nal) = IF q = <<>> THEN p ELSE Pic(q[Len(q)])
  BY DEF Follows
<1>3. Coded(nal) = IF n = 1 THEN p ELSE Pic(v[n - 1])
  <2>1. CASE q = <<>>
    BY <1>2, <2>1
  <2>2. CASE q # <<>>
    <3>1. Len(q) \in 1..Len(q) /\ n # 1
      BY <2>2
    <3> HIDE DEF v, n
    <3> QED  BY <1>1, <1>2, <2>2, <3>1
  <2> QED  BY <2>1, <2>2
<1> HIDE DEF v
<1>4. \A i \in 1..Len(q) : Coded(v[i]) = IF i = 1 THEN p ELSE Pic(v[i - 1])
  <2> SUFFICES ASSUME NEW i \in 1..Len(q), i # 1 PROVE Coded(v[i]) = Pic(v[i - 1])
    BY <1>1, <1>2
  <2>1. i - 1 \in 1..Len(q)
    OBVIOUS
  <2> QED  BY <1>1, <1>2, <2>1
<1> HIDE DEF n
<1> QED  BY <1>1, <1>2, <1>3, <1>4 DEF Follows

\* The first P is coded from where the line starts; the others start at its picture.
LEMMA FollowsTail ==
  ASSUME NEW q \in Seq(Nal), q # <<>>, NEW p, NEW r, Follows(q, p, r)
  PROVE  /\ Head(q) \in Nal /\ Head(q).type = "P" /\ Coded(Head(q)) = p
         /\ Tail(q) \in Seq(Nal) /\ Follows(Tail(q), Pic(Head(q)), r)
<1> DEFINE v == Tail(q)
<1>1. /\ v \in Seq(Nal) /\ Len(v) = Len(q) - 1 /\ Len(q) \in Nat \ {0} /\ Head(q) = q[1] /\ Head(q) \in Nal
      /\ \A i \in 1..Len(v) : v[i] = q[i + 1] /\ i + 1 \in 1..Len(q)
      /\ v = <<>> <=> Len(q) = 1
  <2>1. /\ v \in Seq(Nal) /\ Len(v) = Len(q) - 1 /\ Len(q) \in Nat \ {0} /\ Head(q) = q[1] /\ Head(q) \in Nal
        /\ \A i \in 1..Len(v) : v[i] = q[i + 1] /\ i + 1 \in 1..Len(q)
    OBVIOUS
  <2> HIDE DEF v
  <2> QED  BY <2>1
<1>2. /\ \A i \in 1..Len(q) : q[i].type = "P" /\ Coded(q[i]) = IF i = 1 THEN p ELSE Pic(q[i - 1])
      /\ r = Pic(q[Len(q)])
  BY DEF Follows
<1> HIDE DEF v
<1>3. ASSUME NEW i \in 1..Len(v)
      PROVE  v[i].type = "P" /\ Coded(v[i]) = IF i = 1 THEN Pic(Head(q)) ELSE Pic(v[i - 1])
  <2>1. v[i] = q[i + 1] /\ i + 1 \in 1..Len(q) /\ i + 1 # 1 /\ (i + 1) - 1 = i
    BY <1>1
  <2>2. v[i].type = "P" /\ Coded(v[i]) = Pic(q[i])
    BY <1>2, <2>1
  <2>3. i # 1 => v[i - 1] = q[i]
    <3>1. i # 1 => i - 1 \in 1..Len(v) /\ (i - 1) + 1 = i
      BY <1>1
    <3> QED  BY <1>1, <3>1
  <2> QED  BY <1>1, <2>2, <2>3
<1>4. r = IF v = <<>> THEN Pic(Head(q)) ELSE Pic(v[Len(v)])
  <2>1. CASE Len(q) = 1
    BY <1>1, <1>2, <2>1
  <2>2. CASE Len(q) # 1
    <3>1. Len(v) \in 1..Len(v) /\ Len(v) + 1 = Len(q)
      BY <1>1, <2>2
    <3>2. v[Len(v)] = q[Len(q)]
      BY <1>1, <3>1
    <3> QED  BY <1>1, <1>2, <2>2, <3>2
  <2> QED  BY <2>1, <2>2
<1>5. 1 \in 1..Len(q)
  BY <1>1
<1>6. Head(q).type = "P" /\ Coded(Head(q)) = p
  BY <1>1, <1>2, <1>5
<1> QED  BY <1>1, <1>3, <1>4, <1>6 DEF Follows, v

\* No critical NAL at all leads from a picture to that same picture.
LEMMA AfterEmpty == ASSUME NEW p, NEW r PROVE After(<<>>, p, r) <=> r = p
BY DEF After

\* One more critical NAL leads to its picture when it is an IDR, and to where the line was otherwise.
LEMMA AfterAppend ==
  ASSUME NEW q \in Seq(Nal), NEW nal \in Nal, NalIsCritical(nal.type), NEW p, NEW r, After(q, p, r)
  PROVE  After(Append(q, nal), p, IF nal.type = "IDR" THEN Pic(nal) ELSE r)
<1> DEFINE v == Append(q, nal)
           n == Len(q) + 1
<1>1. /\ Len(v) = n /\ n \in Nat /\ v[n] = nal /\ Len(q) \in Nat
      /\ \A i \in 1..Len(q) : v[i] = q[i]
      /\ \A i \in 1..n : i \in 1..Len(q) \/ i = n
  OBVIOUS
<1> HIDE DEF v
<1>2. \A i \in 1..n : NalIsCritical(v[i].type)
  BY <1>1 DEF After
<1>3. CASE nal.type = "IDR"
  <2>1. n \in 1..n /\ (n + 1)..n = {}
    BY <1>1
  <2>2. \E i \in 1..n : v[i].type = "IDR" /\ Pic(nal) = Pic(v[i]) /\ \A j \in (i + 1)..n : v[j].type # "IDR"
    BY <1>1, <1>3, <2>1
  <2> HIDE DEF n
  <2> QED  BY <1>1, <1>2, <1>3, <2>2 DEF After, v
<1>4. CASE nal.type # "IDR"
  <2>1. CASE r = p /\ \A i \in 1..Len(q) : q[i].type # "IDR"
    <3>1. \A i \in 1..n : v[i].type # "IDR"
      BY <1>1, <1>4, <2>1
    <3> HIDE DEF n
    <3> QED  BY <1>1, <1>2, <1>4, <2>1, <3>1 DEF After, v
  <2>2. CASE \E i \in 1..Len(q) : q[i].type = "IDR" /\ r = Pic(q[i]) /\ \A j \in (i + 1)..Len(q) : q[j].type # "IDR"
    <3>1. PICK i \in 1..Len(q) : q[i].type = "IDR" /\ r = Pic(q[i]) /\ \A j \in (i + 1)..Len(q) : q[j].type # "IDR"
      BY <2>2
    <3>2. i \in 1..n /\ v[i] = q[i] /\ \A j \in (i + 1)..n : (j \in (i + 1)..Len(q) /\ j \in 1..Len(q)) \/ j = n
      BY <1>1
    <3>3. \A j \in (i + 1)..n : v[j].type # "IDR"
      BY <1>1, <1>4, <3>1, <3>2
    <3> HIDE DEF n
    <3> QED  BY <1>1, <1>2, <1>4, <3>1, <3>2, <3>3 DEF After, v
  <2> QED  BY <2>1, <2>2 DEF After
<1> QED  BY <1>3, <1>4

\* After the first critical NAL the others start at its picture, when it is an IDR.
LEMMA AfterTail ==
  ASSUME NEW q \in Seq(Nal), q # <<>>, NEW p, NEW r, After(q, p, r)
  PROVE  /\ Head(q) \in Nal /\ NalIsCritical(Head(q).type) /\ Tail(q) \in Seq(Nal)
         /\ After(Tail(q), IF Head(q).type = "IDR" THEN Pic(Head(q)) ELSE p, r)
<1> DEFINE v == Tail(q)
           m == Len(q) - 1
           d == IF Head(q).type = "IDR" THEN Pic(Head(q)) ELSE p
<1>1. /\ v \in Seq(Nal) /\ Len(v) = m /\ m \in Nat /\ Len(q) = m + 1 /\ Head(q) = q[1] /\ Head(q) \in Nal
      /\ \A i \in 1..m : v[i] = q[i + 1] /\ i + 1 \in 1..Len(q)
  OBVIOUS
<1> HIDE DEF v, m
<1>2. 1 \in 1..Len(q)
  BY <1>1
<1>3. NalIsCritical(Head(q).type) /\ \A i \in 1..m : NalIsCritical(v[i].type)
  BY <1>1, <1>2 DEF After
<1>4. CASE r = p /\ \A i \in 1..Len(q) : q[i].type # "IDR"
  <2>1. d = p /\ \A i \in 1..m : v[i].type # "IDR"
    BY <1>1, <1>2, <1>4
  <2> HIDE DEF d
  <2> QED  BY <1>1, <1>3, <1>4, <2>1 DEF After, v, d
<1>5. CASE \E i \in 1..Len(q) : q[i].type = "IDR" /\ r = Pic(q[i]) /\ \A j \in (i + 1)..Len(q) : q[j].type # "IDR"
  <2>1. PICK i \in 1..Len(q) : q[i].type = "IDR" /\ r = Pic(q[i]) /\ \A j \in (i + 1)..Len(q) : q[j].type # "IDR"
    BY <1>5
  <2>2. CASE i = 1
    <3>1. d = r
      BY <1>1, <2>1, <2>2
    <3>2. \A j \in 1..m : j + 1 \in (i + 1)..Len(q)
      BY <1>1, <2>2
    <3>3. \A j \in 1..m : v[j].type # "IDR"
      BY <1>1, <2>1, <3>2
    <3> HIDE DEF d
    <3> QED  BY <1>1, <1>3, <3>1, <3>3 DEF After, v, d
  <2>3. CASE i # 1
    <3> DEFINE k == i - 1
    <3>1. k \in 1..m /\ k + 1 = i /\ \A j \in (k + 1)..m : j \in 1..m /\ j + 1 \in (i + 1)..Len(q)
      BY <1>1, <2>3
    <3> HIDE DEF k
    <3>2. v[k].type = "IDR" /\ r = Pic(v[k])
      BY <1>1, <2>1, <3>1
    <3>3. \A j \in (k + 1)..m : v[j].type # "IDR"
      BY <1>1, <2>1, <3>1
    <3> HIDE DEF d
    <3> QED  BY <1>1, <1>3, <3>1, <3>2, <3>3 DEF After, v, d
  <2> QED  BY <2>2, <2>3
<1> QED  BY <1>4, <1>5 DEF After

\* Decoding deltas that follow one another, from the picture they start with, stays clean.
LEMMA ShownAllClean ==
  ASSUME NEW q \in Seq(Nal), NEW p, NEW r, Follows(q, p, r)
  PROVE  ShownAll([picture |-> p, clean |-> TRUE], q) = [picture |-> r, clean |-> TRUE]
<1> DEFINE d == [picture |-> p, clean |-> TRUE]
           u == [i \in 0..Len(q) |-> IF i = 0 THEN d ELSE [picture |-> Pic(q[i]), clean |-> TRUE]]
           Run(f) == f = [i \in 0..Len(q) |-> IF i = 0 THEN d ELSE Shown(f[i - 1], q[i])]
           h == CHOOSE f : Run(f)
<1>l. Len(q) \in Nat /\ \A i \in 1..Len(q) : q[i] \in Nal /\ i - 1 \in 0..Len(q) /\ i \in 0..Len(q) /\ i # 0
  OBVIOUS
<1>f. /\ \A i \in 1..Len(q) : q[i].type = "P" /\ Coded(q[i]) = IF i = 1 THEN p ELSE Pic(q[i - 1])
      /\ r = IF q = <<>> THEN p ELSE Pic(q[Len(q)])
  BY DEF Follows
<1>u. u = [i \in 0..Len(q) |-> u[i]] /\ \A i \in 0..Len(q) : u[i] = IF i = 0 THEN d ELSE [picture |-> Pic(q[i]), clean |-> TRUE]
  <2> HIDE DEF d
  <2> QED  OBVIOUS
<1> HIDE DEF u
<1>1. ASSUME NEW i \in 1..Len(q)
      PROVE  Shown(u[i - 1], q[i]) = u[i]
  <2>1. u[i - 1] = [picture |-> Coded(q[i]), clean |-> TRUE]
    <3>1. CASE i = 1
      BY <1>l, <1>f, <1>u, <3>1
    <3>2. CASE i # 1
      <4>1. i - 1 # 0 /\ i - 1 \in 0..Len(q)
        BY <3>2
      <4>2. u[i - 1] = [picture |-> Pic(q[i - 1]), clean |-> TRUE]
        BY <1>u, <4>1
      <4> QED  BY <1>f, <3>2, <4>2
    <3> QED  BY <3>1, <3>2
  <2>2. u[i] = [picture |-> Pic(q[i]), clean |-> TRUE]
    BY <1>l, <1>u
  <2>3. q[i].type = "P" /\ q[i].type \notin ParameterSet
    BY <1>f DEF ParameterSet
  <2>4. Shown(u[i - 1], q[i]) = [picture |-> Pic(q[i]), clean |-> u[i - 1].clean /\ u[i - 1].picture = Coded(q[i])]
    BY <2>3 DEF Shown, Pic, Coded
  <2>5. u[i - 1].clean = TRUE /\ u[i - 1].picture = Coded(q[i])
    BY <2>1
  <2> QED  BY <2>2, <2>4, <2>5
<1>2. u[0] = d
  BY <1>l, <1>u
<1>3. Run(u)
  <2>1. \A i \in 0..Len(q) : u[i] = IF i = 0 THEN d ELSE Shown(u[i - 1], q[i])
    <3> HIDE DEF d
    <3> QED  BY <1>1, <1>2, <1>l
  <2> HIDE DEF d
  <2> QED  BY <1>u, <2>1
<1>4. Run(h)
  <2> HIDE DEF Run
  <2> QED  BY <1>3
<1>5. ShownAll(d, q) = h[Len(q)]
  BY DEF ShownAll
<1> HIDE DEF h
<1>6. h[0] = d /\ \A i \in 1..Len(q) : h[i] = Shown(h[i - 1], q[i])
  <2> HIDE DEF d
  <2>1. \A i \in 0..Len(q) : h[i] = IF i = 0 THEN d ELSE Shown(h[i - 1], q[i])
    BY <1>4
  <2> QED  BY <1>l, <2>1
<1> DEFINE T == {i \in Nat : i \in 0..Len(q) => h[i] = u[i]}
<1>7. 0 \in T
  BY <1>2, <1>6
<1>8. ASSUME NEW i \in T PROVE i + 1 \in T
  <2>1. CASE i + 1 \in 0..Len(q)
    <3>1. i + 1 \in 1..Len(q) /\ i \in 0..Len(q) /\ (i + 1) - 1 = i
      BY <1>l, <2>1
    <3>2. h[i + 1] = Shown(u[i], q[i + 1]) /\ Shown(u[i], q[i + 1]) = u[i + 1]
      BY <3>1, <1>1, <1>6
    <3> QED  BY <3>2
  <2>2. CASE i + 1 \notin 0..Len(q)
    BY <2>2
  <2> QED  BY <2>1, <2>2
<1>9. T = Nat
  <2>1. T \subseteq Nat
    OBVIOUS
  <2> HIDE DEF T
  <2> QED  BY <1>7, <1>8, <2>1, NatSetInduction
<1>10. h[Len(q)] = u[Len(q)]
  BY <1>9, <1>l
<1>11. u[Len(q)] = [picture |-> r, clean |-> TRUE]
  <2>1. CASE q = <<>>
    BY <1>2, <1>f, <2>1
  <2>2. CASE q # <<>>
    <3>1. Len(q) \in 1..Len(q)
      BY <2>2
    <3> QED  BY <1>f, <1>u, <1>l, <2>2, <3>1
  <2> QED  BY <2>1, <2>2
<1> QED  BY <1>5, <1>10, <1>11

\* From the picture in the decoder, the critical NALs waiting lead to a, the deltas the playback
\* thread has taken to b, and those in the DeltaSlot to r.
Chain(p, a, b, r) ==
  /\ After(playback.critical, p, a) /\ Follows(playback.taken, a, b) /\ Follows(playback.slot, b, r)

\* A gate that lets deltas pass waits for the one coded from r, if there is a delta at all.
Meets(n, frozen, r) == n # NoId /\ ~frozen => r = <<load.session, n - 1>> \/ NotDelta(n)

Flow ==
  /\ decoder = [picture |-> decoder.picture, clean |-> TRUE]
  /\ playback.taking => playback.critical = <<>>
  /\ ~playback.taking \/ load.backend = "native" => playback.taken = <<>>
  /\ gate.next_id <= source.next_nal_id
  /\ \E a, b, r, n :
       Chain(decoder.picture, a, b, r) /\ n = gate.next_id /\ Meets(n, gate.frozen, r)

FlowInv == ~history.slipped /\ history.torn = {} => Flow

\* Within a session the encoder's count goes up.
LEMMA SessionGoesOn ==
  ASSUME [Next]_vars, Inv, ~Reconnect
  PROVE  /\ load'.session = load.session /\ load'.backend = load.backend
         /\ source.next_nal_id \in Nat /\ source'.next_nal_id \in Nat /\ source.next_nal_id <= source'.next_nal_id
<1>0. /\ Shape /\ PendingBound /\ TurnInv /\ SliceInv /\ ChunkInv /\ HeldInv /\ ReassemblyInv
      /\ LoadShape /\ source.next_nal_id \in Nat
  BY DEF Inv, Shape, SourceShape
<1>1. load'.session = load.session /\ load'.backend = load.backend
  <2>1. CASE UNCHANGED vars
    BY <2>1 DEF vars
  <2> QED  BY <1>0, <2>1, SessionStays, Steps
<1>2. \/ source'.next_nal_id = source.next_nal_id
      \/ source'.next_nal_id = source.next_nal_id + 1
  BY <1>0, NextHeld, EncodeStream DEF SameStream
<1> QED  BY <1>0, <1>1, <1>2

\* What the gate expects still meets the stream after a step of the same session.
LEMMA MeetsStays ==
  ASSUME [Next]_vars, Inv, NEW n \in Nat \cup {NoId}, NEW frozen, NEW r, n <= source.next_nal_id, Meets(n, frozen, r),
         ~Reconnect
  PROVE  Meets(n, frozen, r)'
<1>0. /\ Shape /\ PendingBound /\ TurnInv /\ SliceInv /\ ChunkInv /\ HeldInv /\ ReassemblyInv /\ LoadShape
  BY DEF Inv, Shape
<1>1. CASE n = NoId \/ frozen
  BY <1>1 DEF Meets
<1>2. CASE n \in Nat /\ ~frozen /\ NotDelta(n)
  <2>1. \/ Held' \subseteq Held /\ SameStream
        \/ EncodeNal /\ Held' \subseteq Held \cup {NextNal}
    BY <1>0, NextHeld
  <2> QED  BY <1>0, <1>2, <2>1, NotDeltaStays DEF Meets
<1>3. CASE r = <<load.session, n - 1>>
  <2>1. load'.session = load.session
    BY SessionGoesOn
  <2> QED  BY <1>3, <2>1 DEF Meets
<1>4. n \in Nat \/ n = NoId
  OBVIOUS
<1> QED  BY <1>1, <1>2, <1>3, <1>4 DEF Meets

\* A NAL that does not go around the gate is discarded, or is let pass in one of four ways.
LEMMA AdmitFacts ==
  ASSUME NEW g \in [next_id : Nat \cup {NoId}, frozen : BOOLEAN], NEW id \in Nat, NEW type \in NalType,
         type # "IDR" => ~(g.next_id # NoId /\ id + RestartGap < g.next_id),
         type = "P" => g.next_id # NoId
  PROVE  \/ /\ ~Admit(g, id, type).pass
            /\ Admit(g, id, type).gate \in {g, [next_id |-> id + 1, frozen |-> TRUE]}
         \/ /\ type \in ParameterSet /\ Admit(g, id, type).pass
            /\ Admit(g, id, type).gate = g /\ id < g.next_id
         \/ /\ type \in ParameterSet /\ Admit(g, id, type).pass
            /\ \E frozen \in BOOLEAN : Admit(g, id, type).gate = [next_id |-> id + 1, frozen |-> frozen]
         \/ /\ type = "IDR" /\ Admit(g, id, type).pass
            /\ Admit(g, id, type).gate = [next_id |-> id + 1, frozen |-> FALSE]
         \/ /\ type = "P" /\ Admit(g, id, type).pass /\ g.next_id = id /\ ~g.frozen
            /\ Admit(g, id, type).gate = [next_id |-> id + 1, frozen |-> FALSE]
<1> DEFINE restarted == g.next_id # NoId /\ id + RestartGap < g.next_id
           at == IF restarted THEN NewGate ELSE g
           late == at.next_id # NoId /\ id < at.next_id
           frozen == at.frozen \/ (at.next_id # NoId /\ id > at.next_id)
           open == [next_id |-> id + 1, frozen |-> frozen /\ type # "IDR"]
           R == Admit(g, id, type)
<1>1. R = IF late THEN [pass |-> type \in ParameterSet, gate |-> at]
          ELSE [pass |-> type # "P" \/ ~frozen, gate |-> open]
  BY DEF Admit
<1>2. g.next_id \in Nat \cup {NoId} /\ g.frozen \in BOOLEAN
  OBVIOUS
<1>3. type # "IDR" => at = g
  OBVIOUS
<1>4. /\ ParameterSet = {"SPS", "PPS"} /\ type \in {"SPS", "PPS", "IDR", "P"}
  BY DEF ParameterSet, NalType
<1>5. late /\ type = "IDR" => at = g
  BY DEF NewGate
<1>6. late => at = g
  BY <1>3, <1>5
<1>7. late /\ at = g => id < g.next_id
  OBVIOUS
<1>8. type = "P" /\ ~late /\ ~frozen => g.next_id = id /\ ~g.frozen
  BY <1>2, <1>3
<1>9. frozen \in BOOLEAN /\ late \in BOOLEAN
  BY <1>2 DEF NewGate
<1> HIDE DEF at, late, frozen
<1>10. /\ late => R.pass = (type \in ParameterSet) /\ R.gate = at
       /\ ~late => R.pass = (type # "P" \/ ~frozen) /\ R.gate = open
  BY <1>1
<1>11. /\ type = "IDR" => open = [next_id |-> id + 1, frozen |-> FALSE]
       /\ type # "IDR" /\ frozen => open = [next_id |-> id + 1, frozen |-> TRUE]
       /\ type # "IDR" /\ ~frozen => open = [next_id |-> id + 1, frozen |-> FALSE]
  BY <1>9
<1> HIDE DEF open, R
<1>12. CASE late
  <2>1. CASE type \in ParameterSet
    BY <1>6, <1>7, <1>10, <1>12, <2>1 DEF R
  <2>2. CASE type \notin ParameterSet
    BY <1>6, <1>10, <1>12, <2>2 DEF R
  <2> QED  BY <2>1, <2>2
<1>13. CASE ~late
  <2>1. CASE type = "IDR"
    BY <1>10, <1>11, <1>13, <2>1 DEF R
  <2>2. CASE type \in ParameterSet
    <3>1. type # "IDR" /\ type # "P"
      BY <1>4, <2>2
    <3>2. \E f \in BOOLEAN : open = [next_id |-> id + 1, frozen |-> f]
      BY <1>9, <1>11, <3>1
    <3> QED  BY <1>10, <1>13, <2>2, <3>1, <3>2 DEF R
  <2>3. CASE type = "P" /\ frozen
    BY <1>10, <1>11, <1>13, <2>3 DEF R
  <2>4. CASE type = "P" /\ ~frozen
    BY <1>8, <1>10, <1>11, <1>13, <2>4 DEF R
  <2> QED  BY <1>4, <2>1, <2>2, <2>3, <2>4
<1> QED  BY <1>12, <1>13

\* VideoTx::send, field by field.
LEMMA SendFacts ==
  ASSUME ReceiverShape, NEW nal, NEW g \in [next_id : Nat \cup {NoId}, frozen : BOOLEAN], SendToPlayback(nal, g)
  PROVE  /\ playback'.taken = playback.taken /\ playback'.taking = playback.taking
         /\ gate'.next_id = g.next_id
         /\ NalIsCritical(nal.type) =>
              playback'.critical = Append(playback.critical, nal) /\ playback'.slot = <<>> /\ gate' = g
         /\ ~NalIsCritical(nal.type) =>
              /\ playback'.critical = playback.critical
              /\ \/ playback'.slot = <<>> /\ gate'.frozen = TRUE
                 \/ playback'.slot = Append(playback.slot, nal) /\ gate' = g
<1>0. playback \in [critical : Seq(Nal), slot : Seq(Nal), ready : BOOLEAN, taking : BOOLEAN, taken : Seq(Nal)]
  BY DEF ReceiverShape
<1>1. CASE NalIsCritical(nal.type)
  <2>1. playback' = [playback EXCEPT !.slot = <<>>, !.critical = Append(@, nal)] /\ gate' = g
    BY <1>1 DEF SendToPlayback
  <2> QED  BY <1>0, <1>1, <2>1
<1>2. CASE ~NalIsCritical(nal.type) /\ Len(playback.slot) >= DeltaQueueCap
  <2>1. playback' = [playback EXCEPT !.slot = <<>>] /\ gate' = [g EXCEPT !.frozen = TRUE]
    BY <1>2 DEF SendToPlayback, Overflow
  <2> QED  BY <1>0, <1>2, <2>1
<1>3. CASE ~NalIsCritical(nal.type) /\ ~(Len(playback.slot) >= DeltaQueueCap)
  <2>1. playback' = [playback EXCEPT !.slot = Append(@, nal), !.ready = TRUE] /\ gate' = g
    BY <1>3 DEF SendToPlayback
  <2> QED  BY <1>0, <1>3, <2>1
<1> QED  BY <1>1, <1>2, <1>3

\* The pictures flow on, when the playback and the gate fit each other after the step.
LEMMA FlowGoesOn ==
  ASSUME Inv, [Next]_vars, ~Reconnect,
         NEW p, NEW a, NEW b, NEW r, NEW n \in Nat \cup {NoId}, NEW frozen,
         n <= source.next_nal_id, Meets(n, frozen, r),
         decoder' = [picture |-> p, clean |-> TRUE], gate'.next_id = n, gate'.frozen = frozen,
         After(playback'.critical, p, a), Follows(playback'.taken, a, b), Follows(playback'.slot, b, r),
         playback'.taking => playback'.critical = <<>>,
         ~playback'.taking \/ load.backend = "native" => playback'.taken = <<>>
  PROVE  Flow'
<1>1. Meets(n, frozen, r)'
  BY MeetsStays
<1>2. Meets(n, gate.frozen, r)'
  BY <1>1 DEF Meets
<1>3. gate'.next_id <= source'.next_nal_id /\ load'.backend = load.backend
  BY SessionGoesOn DEF NoId
<1>4. decoder'.picture = p
  OBVIOUS
<1>5. Chain(decoder.picture, a, b, r)'
  BY <1>4 DEF Chain
<1>6. decoder' = [picture |-> decoder'.picture, clean |-> TRUE]
  BY <1>4
<1> QED  BY <1>2, <1>3, <1>5, <1>6 DEF Flow

\* What Flow says of this state, with every part named.
LEMMA FlowNow ==
  ASSUME Inv, Flow
  PROVE  /\ gate \in [next_id : Nat \cup {NoId}, frozen : BOOLEAN]
         /\ playback \in [critical : Seq(Nal), slot : Seq(Nal), ready : BOOLEAN, taking : BOOLEAN, taken : Seq(Nal)]
         /\ load.backend \in {"ffplay", "native"}
         /\ playback.taking => playback.critical = <<>>
         /\ ~playback.taking \/ load.backend = "native" => playback.taken = <<>>
         /\ \E p, a, b, r, n, frozen :
              /\ n \in Nat \cup {NoId} /\ n <= source.next_nal_id /\ Meets(n, frozen, r)
              /\ decoder = [picture |-> p, clean |-> TRUE] /\ gate = [next_id |-> n, frozen |-> frozen]
              /\ After(playback.critical, p, a) /\ Follows(playback.taken, a, b) /\ Follows(playback.slot, b, r)
<1>1. /\ gate \in [next_id : Nat \cup {NoId}, frozen : BOOLEAN]
      /\ playback \in [critical : Seq(Nal), slot : Seq(Nal), ready : BOOLEAN, taking : BOOLEAN, taken : Seq(Nal)]
      /\ load.backend \in {"ffplay", "native"}
  BY DEF Inv, Shape, ReceiverShape, LoadShape
<1>2. PICK a, b, r, n :
         Chain(decoder.picture, a, b, r) /\ n = gate.next_id /\ Meets(n, gate.frozen, r)
  BY DEF Flow
<1>3. PICK p, frozen : p = decoder.picture /\ frozen = gate.frozen
  OBVIOUS
<1>4. /\ n \in Nat \cup {NoId} /\ n <= source.next_nal_id /\ Meets(n, frozen, r)
      /\ decoder = [picture |-> p, clean |-> TRUE] /\ gate = [next_id |-> n, frozen |-> frozen]
      /\ After(playback.critical, p, a) /\ Follows(playback.taken, a, b) /\ Follows(playback.slot, b, r)
  BY <1>1, <1>2, <1>3 DEF Flow, Chain
<1>5. /\ playback.taking => playback.critical = <<>>
      /\ ~playback.taking \/ load.backend = "native" => playback.taken = <<>>
  BY DEF Flow
<1> QED  BY <1>1, <1>4, <1>5

\* A step that moves no picture.
LEMMA FlowStays ==
  ASSUME Inv, [Next]_vars, Flow, ~Reconnect, UNCHANGED <<gate, playback, decoder>>
  PROVE  Flow'
<1>1. PICK p, a, b, r, n, frozen :
         /\ n \in Nat \cup {NoId} /\ n <= source.next_nal_id /\ Meets(n, frozen, r)
         /\ decoder = [picture |-> p, clean |-> TRUE] /\ gate = [next_id |-> n, frozen |-> frozen]
         /\ After(playback.critical, p, a) /\ Follows(playback.taken, a, b) /\ Follows(playback.slot, b, r)
  BY FlowNow
<1>2. /\ decoder' = [picture |-> p, clean |-> TRUE] /\ gate'.next_id = n /\ gate'.frozen = frozen
      /\ After(playback'.critical, p, a) /\ Follows(playback'.taken, a, b) /\ Follows(playback'.slot, b, r)
  BY <1>1
<1>3. /\ playback'.taking => playback'.critical = <<>>
      /\ ~playback'.taking \/ load.backend = "native" => playback'.taken = <<>>
  BY FlowNow
<1> QED  BY <1>1, <1>2, <1>3, FlowGoesOn

\* The playback thread shows the pictures in the order in which they were coded.
LEMMA PlaysFlow ==
  ASSUME Inv, [Next]_vars, Plays, Flow, ~Reconnect
  PROVE  Flow'
<1>1. PICK p, a, b, r, n, frozen :
         /\ n \in Nat \cup {NoId} /\ n <= source.next_nal_id /\ Meets(n, frozen, r)
         /\ decoder = [picture |-> p, clean |-> TRUE] /\ gate = [next_id |-> n, frozen |-> frozen]
         /\ After(playback.critical, p, a) /\ Follows(playback.taken, a, b) /\ Follows(playback.slot, b, r)
  BY FlowNow
<1>2. /\ playback \in [critical : Seq(Nal), slot : Seq(Nal), ready : BOOLEAN, taking : BOOLEAN, taken : Seq(Nal)]
      /\ playback.taking => playback.critical = <<>>
      /\ ~playback.taking \/ load.backend = "native" => playback.taken = <<>>
      /\ load.backend \in {"ffplay", "native"}
  BY FlowNow
<1>3. playback.critical \in Seq(Nal) /\ playback.slot \in Seq(Nal) /\ playback.taken \in Seq(Nal)
  BY <1>2
<1>4. gate'.next_id = n /\ gate'.frozen = frozen
  <2>1. gate' = gate
    BY Untouched
  <2> QED  BY <1>1, <2>1
<1>5. CASE PlayCritical
  <2> DEFINE first == Head(playback.critical)
             d == IF first.type = "IDR" THEN Pic(first) ELSE p
  <2>1. /\ ~playback.taking /\ playback.critical # <<>> /\ decoder' = Shown(decoder, first)
        /\ playback' = [playback EXCEPT !.critical = Tail(@)]
    BY <1>5 DEF PlayCritical
  <2>2. /\ playback'.critical = Tail(playback.critical) /\ playback'.slot = playback.slot
        /\ playback'.taken = playback.taken /\ playback'.taking = playback.taking
    BY <1>2, <2>1
  <2>3. first \in Nal /\ NalIsCritical(first.type) /\ After(Tail(playback.critical), d, a)
    BY <1>1, <1>3, <2>1, AfterTail
  <2>4. decoder' = [picture |-> d, clean |-> TRUE]
    <3> HIDE DEF first
    <3>1. first.type \in ParameterSet \/ first.type = "IDR"
      BY <2>3 DEF NalIsCritical, Nal, NalType
    <3>2. "IDR" \notin ParameterSet
      BY DEF ParameterSet
    <3>3. CASE first.type \in ParameterSet
      <4>0. first.type # "IDR" /\ first.type # "P"
        BY <3>3 DEF ParameterSet
      <4>1. d = p
        BY <4>0
      <4>2. Shown(decoder, first) = decoder
        BY <3>3, <4>0 DEF Shown
      <4> HIDE DEF d
      <4> QED  BY <1>1, <2>1, <4>1, <4>2
    <3>4. CASE first.type = "IDR"
      <4>1. d = Pic(first) /\ Shown(decoder, first) = [picture |-> Pic(first), clean |-> TRUE]
        BY <3>2, <3>4 DEF Shown, Pic
      <4> HIDE DEF d
      <4> QED  BY <2>1, <4>1
    <3> QED  BY <3>1, <3>3, <3>4
  <2> HIDE DEF d, first
  <2>5. PICK e : e = d
    OBVIOUS
  <2>6. /\ decoder' = [picture |-> e, clean |-> TRUE]
        /\ After(playback'.critical, e, a) /\ Follows(playback'.taken, a, b) /\ Follows(playback'.slot, b, r)
    BY <1>1, <2>2, <2>3, <2>4, <2>5
  <2>7. /\ playback'.taking => playback'.critical = <<>>
        /\ ~playback'.taking \/ load.backend = "native" => playback'.taken = <<>>
    BY <1>2, <2>1, <2>2
  <2> QED  BY <1>1, <1>4, <2>6, <2>7, FlowGoesOn
<1>6. CASE PlaybackWakes
  <2>1. /\ ~playback.taking /\ playback.critical = <<>> /\ decoder' = decoder
        /\ playback' = [playback EXCEPT !.taking = TRUE, !.ready = FALSE]
    BY <1>6 DEF PlaybackWakes, video
  <2>2. /\ playback'.critical = playback.critical /\ playback'.slot = playback.slot
        /\ playback'.taken = playback.taken /\ playback'.taking = TRUE
    BY <1>2, <2>1
  <2>3. /\ decoder' = [picture |-> p, clean |-> TRUE]
        /\ After(playback'.critical, p, a) /\ Follows(playback'.taken, a, b) /\ Follows(playback'.slot, b, r)
    BY <1>1, <2>1, <2>2
  <2>4. /\ playback'.taking => playback'.critical = <<>>
        /\ ~playback'.taking \/ load.backend = "native" => playback'.taken = <<>>
    BY <1>2, <2>1, <2>2
  <2> QED  BY <1>1, <1>4, <2>3, <2>4, FlowGoesOn
<1>7. CASE PlaybackTakes
  <2> DEFINE delta == Head(playback.slot)
  <2>1. playback.taking /\ playback.slot # <<>>
    BY <1>7 DEF PlaybackTakes
  <2>2. /\ delta \in Nal /\ delta.type = "P" /\ Coded(delta) = b
        /\ Tail(playback.slot) \in Seq(Nal) /\ Follows(Tail(playback.slot), Pic(delta), r)
    BY <1>1, <1>3, <2>1, FollowsTail
  <2>3. playback.critical = <<>> /\ a = p
    BY <1>1, <1>2, <2>1, AfterEmpty
  <2>4. PICK e : e = Pic(delta)
    OBVIOUS
  <2>5. CASE load.backend = "ffplay"
    <3>1. playback' = [playback EXCEPT !.slot = Tail(@), !.taken = Append(@, delta)] /\ decoder' = decoder
      BY <1>7, <2>5 DEF PlaybackTakes
    <3>2. /\ playback'.critical = playback.critical /\ playback'.slot = Tail(playback.slot)
          /\ playback'.taken = Append(playback.taken, delta) /\ playback'.taking = playback.taking
      BY <1>2, <3>1
    <3>3. Follows(Append(playback.taken, delta), a, Pic(delta))
      BY <1>1, <1>3, <2>2, FollowsAppend
    <3>4. /\ decoder' = [picture |-> p, clean |-> TRUE]
          /\ After(playback'.critical, p, a) /\ Follows(playback'.taken, a, e) /\ Follows(playback'.slot, e, r)
      BY <1>1, <2>2, <2>4, <3>1, <3>2, <3>3
    <3>5. /\ playback'.taking => playback'.critical = <<>>
          /\ ~playback'.taking \/ load.backend = "native" => playback'.taken = <<>>
      BY <1>2, <2>1, <2>3, <2>5, <3>2
    <3> QED  BY <1>1, <1>4, <3>4, <3>5, FlowGoesOn
  <2>6. CASE load.backend # "ffplay"
    <3>1. playback' = [playback EXCEPT !.slot = Tail(@), !.taking = FALSE] /\ decoder' = Shown(decoder, delta)
      BY <1>7, <2>6 DEF PlaybackTakes
    <3>2. /\ playback'.critical = playback.critical /\ playback'.slot = Tail(playback.slot)
          /\ playback'.taken = playback.taken /\ playback'.taking = FALSE
      BY <1>2, <3>1
    <3>3. playback.taken = <<>> /\ b = p
      BY <1>1, <1>2, <2>3, <2>6, FollowsEmpty
    <3>4. decoder' = [picture |-> Pic(delta), clean |-> TRUE]
      <4> HIDE DEF delta
      <4>1. delta.type = "P" /\ delta.type \notin ParameterSet
        BY <2>2 DEF ParameterSet
      <4>2. Shown(decoder, delta) = [picture |-> Pic(delta), clean |-> decoder.clean /\ decoder.picture = Coded(delta)]
        BY <4>1 DEF Shown, Pic, Coded
      <4>3. decoder.clean = TRUE /\ decoder.picture = Coded(delta)
        BY <1>1, <2>2, <3>3
      <4> QED  BY <3>1, <4>2, <4>3
    <3>5. /\ decoder' = [picture |-> e, clean |-> TRUE]
          /\ After(playback'.critical, e, e) /\ Follows(playback'.taken, e, e) /\ Follows(playback'.slot, e, r)
      <4>1. After(<<>>, e, e) /\ Follows(<<>>, e, e)
        BY AfterEmpty, FollowsEmpty
      <4> QED  BY <2>2, <2>3, <2>4, <3>2, <3>3, <3>4, <4>1
    <3>6. /\ playback'.taking => playback'.critical = <<>>
          /\ ~playback'.taking \/ load.backend = "native" => playback'.taken = <<>>
      BY <3>2, <3>3
    <3> QED  BY <1>1, <1>4, <3>5, <3>6, FlowGoesOn
  <2> QED  BY <2>5, <2>6
<1>8. CASE PlaybackWrites
  <2>1. /\ playback.taking /\ playback.slot = <<>> /\ decoder' = ShownAll(decoder, playback.taken)
        /\ playback' = [playback EXCEPT !.taking = FALSE, !.taken = <<>>]
    BY <1>8 DEF PlaybackWrites
  <2>2. /\ playback'.critical = playback.critical /\ playback'.slot = playback.slot
        /\ playback'.taken = <<>> /\ playback'.taking = FALSE
    BY <1>2, <2>1
  <2>3. playback.critical = <<>> /\ a = p
    BY <1>1, <1>2, <2>1, AfterEmpty
  <2>4. decoder' = [picture |-> b, clean |-> TRUE]
    BY <1>1, <1>3, <2>1, <2>3, ShownAllClean
  <2>5. /\ After(playback'.critical, b, b) /\ Follows(playback'.taken, b, b) /\ Follows(playback'.slot, b, r)
    <3>1. After(<<>>, b, b) /\ Follows(<<>>, b, b)
      BY AfterEmpty, FollowsEmpty
    <3> QED  BY <1>1, <2>2, <2>3, <3>1
  <2>6. /\ playback'.taking => playback'.critical = <<>>
        /\ ~playback'.taking \/ load.backend = "native" => playback'.taken = <<>>
    BY <2>2
  <2> QED  BY <1>1, <1>4, <2>4, <2>5, <2>6, FlowGoesOn
<1> QED  BY <1>5, <1>6, <1>7, <1>8 DEF Plays

\* A NAL that the gate and the playback take as they should, or that the gate discards.
LEMMA HandedOnFlow ==
  ASSUME Inv, [Next]_vars, ~Reconnect, Flow, NEW nal \in Held, ~Slips(nal), decoder' = decoder,
         IF Admit(gate, nal.id, nal.type).pass THEN SendToPlayback(nal, Admit(gate, nal.id, nal.type).gate)
         ELSE gate' = Admit(gate, nal.id, nal.type).gate /\ UNCHANGED playback
  PROVE  Flow'
<1>1. PICK p, a, b, r, n, frozen :
         /\ n \in Nat \cup {NoId} /\ n <= source.next_nal_id /\ Meets(n, frozen, r)
         /\ decoder = [picture |-> p, clean |-> TRUE] /\ gate = [next_id |-> n, frozen |-> frozen]
         /\ After(playback.critical, p, a) /\ Follows(playback.taken, a, b) /\ Follows(playback.slot, b, r)
  BY FlowNow
<1>2. /\ playback \in [critical : Seq(Nal), slot : Seq(Nal), ready : BOOLEAN, taking : BOOLEAN, taken : Seq(Nal)]
      /\ playback.taking => playback.critical = <<>>
      /\ ~playback.taking \/ load.backend = "native" => playback.taken = <<>>
      /\ gate \in [next_id : Nat \cup {NoId}, frozen : BOOLEAN]
  BY FlowNow
<1>3. playback.critical \in Seq(Nal) /\ playback.slot \in Seq(Nal) /\ playback.taken \in Seq(Nal)
  BY <1>2
<1>4. /\ nal \in Nal /\ nal.id \in Nat /\ nal.type \in NalType /\ nal.session = load.session
      /\ nal.id + 1 \in Nat /\ nal.id + 1 <= source.next_nal_id /\ (nal.id + 1) - 1 = nal.id
      /\ nal.type = "P" => nal.from = nal.id - 1
      /\ nal.type \in ParameterSet => NotDelta(nal.id + 1)
  <2>1. nal \in Nal /\ source.next_nal_id \in Nat
    BY HeldAreNals DEF Inv, Shape, SourceShape
  <2>2. /\ nal.session = load.session /\ nal.id < source.next_nal_id
        /\ nal.type = "P" => nal.from = nal.id - 1
        /\ nal.type \in ParameterSet => NotDelta(nal.id + 1)
    BY DEF Inv, HeldInv, StreamInv
  <2> QED  BY <2>1, <2>2 DEF Nal
<1>5. PICK id, type : id = nal.id /\ type = nal.type
  OBVIOUS
<1> DEFINE R == Admit(gate, id, type)
<1>6. /\ type \in ParameterSet /\ id < gate.next_id => playback.slot = <<>>
      /\ NalIsCritical(type) => ~playback.taking
      /\ type = "P" => gate.next_id # NoId
      /\ type # "IDR" => ~(gate.next_id # NoId /\ id + RestartGap < gate.next_id)
  BY <1>5 DEF Slips
<1>7. \/ ~R.pass /\ R.gate \in {gate, [next_id |-> id + 1, frozen |-> TRUE]}
      \/ type \in ParameterSet /\ R.pass /\ R.gate = gate /\ id < gate.next_id
      \/ type \in ParameterSet /\ R.pass /\ \E f \in BOOLEAN : R.gate = [next_id |-> id + 1, frozen |-> f]
      \/ type = "IDR" /\ R.pass /\ R.gate = [next_id |-> id + 1, frozen |-> FALSE]
      \/ /\ type = "P" /\ R.pass /\ gate.next_id = id /\ ~gate.frozen
         /\ R.gate = [next_id |-> id + 1, frozen |-> FALSE]
  <2>1. PICK g : g = gate
    OBVIOUS
  <2>2. /\ g \in [next_id : Nat \cup {NoId}, frozen : BOOLEAN] /\ id \in Nat /\ type \in NalType
        /\ type # "IDR" => ~(g.next_id # NoId /\ id + RestartGap < g.next_id)
        /\ type = "P" => g.next_id # NoId
    BY <1>2, <1>4, <1>5, <1>6, <2>1
  <2>3. R = Admit(g, id, type)
    BY <2>1
  <2> HIDE DEF R
  <2> QED  BY <2>1, <2>2, <2>3, AdmitFacts
<1>8. IF R.pass THEN SendToPlayback(nal, R.gate) ELSE gate' = R.gate /\ UNCHANGED playback
  BY <1>5
<1>9. R.gate \in [next_id : Nat \cup {NoId}, frozen : BOOLEAN]
  BY <1>2, <1>4, <1>5, AdmitShape
<1> HIDE DEF R
<1>10. R.pass =>
        /\ playback'.taken = playback.taken /\ playback'.taking = playback.taking
        /\ gate'.next_id = R.gate.next_id
        /\ NalIsCritical(type) =>
             playback'.critical = Append(playback.critical, nal) /\ playback'.slot = <<>> /\ gate' = R.gate
        /\ ~NalIsCritical(type) =>
             /\ playback'.critical = playback.critical
             /\ \/ playback'.slot = <<>> /\ gate'.frozen = TRUE
                \/ playback'.slot = Append(playback.slot, nal) /\ gate' = R.gate
  <2> SUFFICES ASSUME R.pass
               PROVE  /\ playback'.taken = playback.taken /\ playback'.taking = playback.taking
                      /\ gate'.next_id = R.gate.next_id
                      /\ NalIsCritical(type) =>
                           playback'.critical = Append(playback.critical, nal) /\ playback'.slot = <<>> /\ gate' = R.gate
                      /\ ~NalIsCritical(type) =>
                           /\ playback'.critical = playback.critical
                           /\ \/ playback'.slot = <<>> /\ gate'.frozen = TRUE
                              \/ playback'.slot = Append(playback.slot, nal) /\ gate' = R.gate
    OBVIOUS
  <2>1. ReceiverShape
    BY DEF Inv, Shape
  <2>2. PICK g : g = R.gate
    OBVIOUS
  <2>3. g \in [next_id : Nat \cup {NoId}, frozen : BOOLEAN] /\ SendToPlayback(nal, g)
    BY <1>8, <1>9, <2>2
  <2> QED  BY <1>5, <2>1, <2>2, <2>3, SendFacts
<1>11. CASE ~R.pass
  <2>1. playback' = playback /\ gate' = R.gate
    BY <1>8, <1>11
  <2>2. CASE R.gate = gate
    BY <2>1, <2>2, FlowStays
  <2>3. CASE R.gate = [next_id |-> id + 1, frozen |-> TRUE]
    <3>1. PICK m : m = id + 1
      OBVIOUS
    <3>2. m \in Nat \cup {NoId} /\ m <= source.next_nal_id /\ Meets(m, TRUE, r)
      BY <1>4, <1>5, <3>1 DEF Meets
    <3>3. /\ decoder' = [picture |-> p, clean |-> TRUE] /\ gate'.next_id = m /\ gate'.frozen = TRUE
          /\ After(playback'.critical, p, a) /\ Follows(playback'.taken, a, b) /\ Follows(playback'.slot, b, r)
      BY <1>1, <2>1, <2>3, <3>1
    <3>4. /\ playback'.taking => playback'.critical = <<>>
          /\ ~playback'.taking \/ load.backend = "native" => playback'.taken = <<>>
      BY <1>2, <2>1
    <3> QED  BY <3>2, <3>3, <3>4, FlowGoesOn
  <2> QED  BY <1>7, <1>11, <2>2, <2>3
<1>12. CASE R.pass /\ NalIsCritical(type)
  <2>1. /\ ~playback.taking /\ playback'.taking = playback.taking /\ playback.taken = <<>> /\ playback'.taken = <<>>
        /\ playback'.critical = Append(playback.critical, nal) /\ playback'.slot = <<>> /\ gate' = R.gate
    BY <1>2, <1>6, <1>10, <1>12
  <2>2. b = a
    BY <1>1, <2>1, FollowsEmpty
  <2>3. PICK e : e = IF type = "IDR" THEN Pic(nal) ELSE a
    OBVIOUS
  <2>4. After(playback'.critical, p, e)
    <3>1. After(Append(playback.critical, nal), p, IF nal.type = "IDR" THEN Pic(nal) ELSE a)
      BY <1>1, <1>3, <1>4, <1>5, <1>12, AfterAppend
    <3> QED  BY <1>5, <2>1, <2>3, <3>1
  <2>5. Follows(playback'.taken, e, e) /\ Follows(playback'.slot, e, e)
    BY <2>1, FollowsEmpty
  <2>6. \E m, f : /\ m \in Nat \cup {NoId} /\ m <= source.next_nal_id /\ Meets(m, f, e)
                  /\ R.gate = [next_id |-> m, frozen |-> f]
    <3>1. CASE type \in ParameterSet /\ R.gate = gate /\ id < gate.next_id
      <4>1. e = a /\ type # "IDR"
        BY <2>3, <3>1 DEF ParameterSet
      <4>2. r = b
        BY <1>1, <1>6, <3>1, FollowsEmpty
      <4> QED  BY <1>1, <2>2, <3>1, <4>1, <4>2
    <3>2. CASE type \in ParameterSet /\ \E f \in BOOLEAN : R.gate = [next_id |-> id + 1, frozen |-> f]
      <4>1. PICK f \in BOOLEAN : R.gate = [next_id |-> id + 1, frozen |-> f]
        BY <3>2
      <4>2. Meets(nal.id + 1, f, e)
        BY <1>4, <1>5, <3>2 DEF Meets
      <4> QED  BY <1>4, <1>5, <4>1, <4>2
    <3>3. CASE type = "IDR" /\ R.gate = [next_id |-> id + 1, frozen |-> FALSE]
      <4>1. e = <<load.session, nal.id>>
        BY <1>4, <2>3, <3>3 DEF Pic
      <4>2. Meets(nal.id + 1, FALSE, e)
        BY <1>4, <4>1 DEF Meets
      <4> QED  BY <1>4, <1>5, <3>3, <4>2
    <3> QED  BY <1>7, <1>12, <3>1, <3>2, <3>3 DEF NalIsCritical
  <2>7. PICK m, f : /\ m \in Nat \cup {NoId} /\ m <= source.next_nal_id /\ Meets(m, f, e)
                    /\ R.gate = [next_id |-> m, frozen |-> f]
    BY <2>6
  <2>8. /\ decoder' = [picture |-> p, clean |-> TRUE] /\ gate'.next_id = m /\ gate'.frozen = f
        /\ playback'.taking => playback'.critical = <<>>
        /\ ~playback'.taking \/ load.backend = "native" => playback'.taken = <<>>
    BY <1>1, <2>1, <2>7
  <2> QED  BY <2>4, <2>5, <2>7, <2>8, FlowGoesOn
<1>13. CASE R.pass /\ ~NalIsCritical(type)
  <2>1. /\ type = "P" /\ gate.next_id = id /\ ~gate.frozen
        /\ R.gate = [next_id |-> id + 1, frozen |-> FALSE]
    BY <1>7, <1>13 DEF NalIsCritical, ParameterSet
  <2>2. n = id /\ n # NoId /\ ~frozen
    BY <1>1, <1>4, <1>5, <2>1 DEF NoId
  <2>3. r = Coded(nal)
    <3>1. ~NotDelta(n)
      BY <1>5, <2>1, <2>2 DEF NotDelta
    <3>2. r = <<load.session, n - 1>>
      BY <1>1, <2>2, <3>1 DEF Meets
    <3> QED  BY <1>4, <1>5, <2>1, <2>2, <3>2 DEF Coded
  <2>4. /\ playback'.taken = playback.taken /\ playback'.taking = playback.taking
        /\ playback'.critical = playback.critical /\ gate'.next_id = id + 1
        /\ \/ playback'.slot = <<>> /\ gate'.frozen = TRUE
           \/ playback'.slot = Append(playback.slot, nal) /\ gate' = R.gate
    BY <1>10, <1>13, <2>1
  <2>5. /\ playback'.taking => playback'.critical = <<>>
        /\ ~playback'.taking \/ load.backend = "native" => playback'.taken = <<>>
        /\ decoder' = [picture |-> p, clean |-> TRUE]
        /\ After(playback'.critical, p, a) /\ Follows(playback'.taken, a, b)
    BY <1>1, <1>2, <2>4
  <2>6. PICK m : m = id + 1
    OBVIOUS
  <2>7. m \in Nat \cup {NoId} /\ m <= source.next_nal_id /\ gate'.next_id = m
    BY <1>4, <1>5, <2>4, <2>6
  <2>8. CASE playback'.slot = <<>> /\ gate'.frozen = TRUE
    <3>1. Follows(playback'.slot, b, b) /\ Meets(m, TRUE, b)
      BY <2>8, FollowsEmpty DEF Meets
    <3> QED  BY <2>5, <2>7, <2>8, <3>1, FlowGoesOn
  <2>9. CASE playback'.slot = Append(playback.slot, nal) /\ gate' = R.gate
    <3>1. PICK e : e = Pic(nal)
      OBVIOUS
    <3>2. Follows(Append(playback.slot, nal), b, Pic(nal))
      BY <1>1, <1>3, <1>4, <1>5, <2>1, <2>3, FollowsAppend
    <3>3. Follows(playback'.slot, b, e) /\ gate'.frozen = FALSE
      BY <2>1, <2>9, <3>1, <3>2
    <3>4. Meets(m, FALSE, e)
      BY <1>4, <1>5, <2>6, <3>1 DEF Meets, Pic
    <3> QED  BY <2>5, <2>7, <3>3, <3>4, FlowGoesOn
  <2> QED  BY <2>4, <2>8, <2>9
<1> QED  BY <1>11, <1>12, <1>13

\* A chunk arrives, and no NAL goes around the gate or is torn.
LEMMA ChunkFlow ==
  ASSUME Inv, [Next]_vars, ~Reconnect, NEW c \in chunks, OnVideoChunk(c), FlowInv,
         ~history'.slipped, history'.torn = {}
  PROVE  Flow'
<1> DEFINE entry == WithChunk(c)
           nal == Reassembled(entry)
           admitted == Admit(gate, nal.id, nal.type)
<1>1. decoder' = decoder
  BY DEF OnVideoChunk
<1>2. CASE ~Completed(entry)
  <2>1. UNCHANGED <<gate, playback, history>>
    BY <1>2 DEF OnVideoChunk
  <2>2. Flow
    BY <2>1 DEF FlowInv
  <2> QED  BY <1>1, <2>1, <2>2, FlowStays
<1>3. CASE Completed(entry)
  <2> DEFINE slipped == history.slipped \/ Slips(nal)
             torn == IF Whole(entry) THEN history.torn ELSE history.torn \cup {nal.id}
  <2>1. /\ IF admitted.pass THEN SendToPlayback(nal, admitted.gate) ELSE gate' = admitted.gate /\ UNCHANGED playback
        /\ history' = [history EXCEPT !.slipped = slipped, !.torn = torn]
    BY <1>3 DEF OnVideoChunk
  <2>2. history'.slipped = slipped /\ history'.torn = torn
    <3> HIDE DEF slipped, torn
    <3>1. history \in [slipped : {history.slipped}, torn : SUBSET Nat, carried : SUBSET Nat, passed_over : {-1, 0, 1}]
      BY DEF Inv, Shape, HistoryShape
    <3> QED  BY <2>1, <3>1
  <2>3. ~history.slipped /\ ~Slips(nal)
    BY <2>2, Zenon
  <2>4. Whole(entry) /\ history.torn = {}
    <3> HIDE DEF nal, entry
    <3> QED  BY <2>2
  <2>5. Flow
    BY <2>3, <2>4 DEF FlowInv
  <2>6. nal = c.nal
    BY <2>4, ReassembledWhole DEF Inv, Shape
  <2>7. c.nal \in Held
    BY DEF Held
  <2> HIDE DEF entry, nal
  <2>8. PICK m \in Held : m = nal
    BY <2>6, <2>7
  <2>9. /\ ~Slips(m)
        /\ IF Admit(gate, m.id, m.type).pass THEN SendToPlayback(m, Admit(gate, m.id, m.type).gate)
           ELSE gate' = Admit(gate, m.id, m.type).gate /\ UNCHANGED playback
    BY <2>1, <2>3, <2>8
  <2> QED  BY <1>1, <2>5, <2>9, HandedOnFlow
<1> QED  BY <1>2, <1>3

\* The picture is clean at the start.
LEMMA InitFlow == Init => Flow
<1> SUFFICES ASSUME Init PROVE Flow
  OBVIOUS
<1>1. /\ gate = NewGate /\ decoder = [picture |-> <<0, NoId>>, clean |-> TRUE]
      /\ playback = [critical |-> <<>>, slot |-> <<>>, ready |-> FALSE, taking |-> FALSE, taken |-> <<>>]
      /\ source = NewSource
  BY DEF Init
<1>2. PICK p : p = <<0, NoId>>
  OBVIOUS
<1>3. decoder = [picture |-> p, clean |-> TRUE] /\ decoder.picture = p
  BY <1>1, <1>2
<1>4. After(<<>>, p, p) /\ Follows(<<>>, p, p)
  BY AfterEmpty, FollowsEmpty
<1>5. Chain(decoder.picture, p, p, p)
  BY <1>1, <1>3, <1>4 DEF Chain
<1>6. gate.next_id = NoId /\ Meets(NoId, gate.frozen, p)
  BY <1>1 DEF NewGate, Meets
<1>7. NoId <= source.next_nal_id
  BY <1>1 DEF NewSource, NoId
<1>8. playback.critical = <<>> /\ playback.taken = <<>>
  BY <1>1
<1> QED  BY <1>3, <1>5, <1>6, <1>7, <1>8 DEF Flow

\* The playback thread and the decoder outlive a connection, the gate does not.
LEMMA ReconnectFlow ==
  ASSUME Inv, Reconnect, Flow
  PROVE  Flow'
<1>1. PICK p, a, b, r, n, frozen :
         /\ n \in Nat \cup {NoId} /\ n <= source.next_nal_id /\ Meets(n, frozen, r)
         /\ decoder = [picture |-> p, clean |-> TRUE] /\ gate = [next_id |-> n, frozen |-> frozen]
         /\ After(playback.critical, p, a) /\ Follows(playback.taken, a, b) /\ Follows(playback.slot, b, r)
  BY FlowNow
<1>2. /\ gate' = NewGate /\ source' = NewSource /\ playback' = playback /\ decoder' = decoder
      /\ load' = [load EXCEPT !.session = @ + 1, !.operating = FALSE]
  BY DEF Reconnect
<1>3. load'.backend = load.backend
  <2>1. load' = [gop |-> load.gop, nals |-> load.nals, backend |-> load.backend, restarts |-> load.restarts,
                 fitted |-> load.fitted, frames |-> load.frames, policy |-> load.policy, drops |-> load.drops,
                 session |-> load.session + 1, operating |-> FALSE]
    BY ReconnectFacts DEF Inv, Shape
  <2> QED  BY <2>1
<1>4. gate'.next_id = NoId /\ gate'.next_id <= source'.next_nal_id
  BY <1>2 DEF NewGate, NewSource, NoId
<1>5. Meets(NoId, gate.frozen, r)'
  BY DEF Meets
<1>6. decoder'.picture = p /\ decoder' = [picture |-> decoder'.picture, clean |-> TRUE]
  BY <1>1, <1>2
<1>7. Chain(decoder.picture, a, b, r)'
  BY <1>1, <1>2, <1>6 DEF Chain
<1>8. /\ playback'.taking => playback'.critical = <<>>
      /\ ~playback'.taking \/ load'.backend = "native" => playback'.taken = <<>>
  BY <1>2, <1>3 DEF Flow
<1> QED  BY <1>4, <1>5, <1>6, <1>7, <1>8 DEF Flow

\* Every step keeps the flow to the decoder, where nothing slipped past the gate and nothing is torn.
LEMMA NextFlow == Inv /\ FlowInv /\ [Next]_vars => FlowInv'
<1> SUFFICES ASSUME Inv, FlowInv, [Next]_vars, ~history'.slipped, history'.torn = {} PROVE Flow'
  BY DEF FlowInv
<1>0. LoadShape /\ HistoryShape /\ ReceiverShape /\ QueueShape(queue) /\ TurnInv /\ SliceInv
      /\ ChunksOf(queue) /\ SourceShape
  BY DEF Inv, Shape, ChunkInv
<1>1. CASE Reconnect
  <2>1. history' = [slipped |-> history.slipped, torn |-> history.torn,
                    carried |-> history.carried \cup DOMAIN video_rx, passed_over |-> 0]
    BY <1>0, <1>1, ReconnectFacts
  <2>2. ~history.slipped /\ history.torn = {}
    BY <2>1
  <2> QED  BY <1>1, <2>2, ReconnectFlow DEF FlowInv
<1>2. CASE ~Reconnect /\ OnSomeChunk
  <2>1. PICK c \in chunks : OnVideoChunk(c)
    BY <1>2 DEF OnSomeChunk
  <2> QED  BY <1>2, <2>1, ChunkFlow
<1>3. CASE ~Reconnect /\ Plays
  <2>1. history' = history
    BY <1>3, Untouched
  <2>2. Flow
    BY <2>1 DEF FlowInv
  <2> QED  BY <1>3, <2>2, PlaysFlow
<1>4. ASSUME ~Reconnect, UNCHANGED <<gate, playback, decoder, history.slipped, history.torn>> PROVE Flow'
  <2>1. Flow
    BY <1>4 DEF FlowInv
  <2> QED  BY <1>4, <2>1, FlowStays
<1>5. CASE ~Reconnect /\ FeedLossy
  <2>1. UNCHANGED <<history.slipped, history.torn>>
    BY <1>0, <1>5, FeedFacts
  <2>2. UNCHANGED <<gate, playback, decoder>>
    BY <1>5, Untouched
  <2> QED  BY <1>4, <1>5, <2>1, <2>2
<1>6. CASE /\ ~Reconnect
           /\ \/ Produces \/ Operate \/ SessionOnNal \/ SessionOnSensorFrames \/ Lose
              \/ OnSomeSlice \/ (\E s \in Sensors : PollSensors(s))
  <2>1. UNCHANGED <<gate, playback, decoder, history>>
    BY <1>6, Untouched
  <2> QED  BY <1>4, <1>6, <2>1
<1>7. CASE ~Reconnect /\ UNCHANGED vars
  <2>1. UNCHANGED <<gate, playback, decoder, history>>
    BY <1>7 DEF vars, video
  <2> QED  BY <1>4, <1>7, <2>1
<1> QED  BY <1>1, <1>2, <1>3, <1>5, <1>6, <1>7, Steps

\* DeltaGate, DeltaSlot and the playback thread together freeze, never smear: through loss,
\* reordering, late NALs, overflow, restarts of the camera and new sessions, for either backend
\* and any bounds, a delta is decoded on the picture it was coded from, unless one of the five
\* ways around the gate has been taken.
THEOREM PictureFreezes == Spec => []FreezeNotSmear
<1>1. Init => FlowInv
  BY InitFlow DEF FlowInv
<1>2. FlowInv => FreezeNotSmear
  <2> SUFFICES ASSUME FlowInv, ~history.slipped, history.torn = {} PROVE decoder.clean
    BY DEF FreezeNotSmear
  <2>1. decoder = [picture |-> decoder.picture, clean |-> TRUE]
    BY DEF FlowInv, Flow
  <2> QED  BY <2>1
<1> QED  BY <1>1, <1>2, NextFlow, MediaPathInvariant, PTL DEF Spec

-----------------------------------------------------------------------------
(* Division, and the members of a set by rank.                             *)

\* A larger factor, a larger product.
LEMMA TimesGrows ==
  ASSUME NEW a \in Int, NEW b \in Int, NEW n \in Nat, a <= b
  PROVE  a * n <= b * n
<1> DEFINE d == b - a
<1>1. d \in Nat /\ b = a + d
  OBVIOUS
<1> HIDE DEF d
<1>2. d * n \in Nat /\ b * n = a * n + d * n
  BY <1>1
<1>3. a * n \in Int
  OBVIOUS
<1> QED  BY <1>2, <1>3

\* Quotient and rest, and that there is one of each.
LEMMA DivisionFacts ==
  ASSUME NEW i \in Int, NEW n \in Nat \ {0}
  PROVE  /\ i \div n \in Int /\ i % n \in 0..(n - 1) /\ i = (i \div n) * n + (i % n)
         /\ \A q \in Int : \A r \in 0..(n - 1) : i = q * n + r => q = i \div n /\ r = i % n
<1>1. i \div n \in Int /\ i % n \in 0..(n - 1) /\ i = (i \div n) * n + (i % n)
  OBVIOUS
<1>2. ASSUME NEW q \in Int, NEW r \in 0..(n - 1), i = q * n + r PROVE q = i \div n /\ r = i % n
  <2> DEFINE p == i \div n
             t == i % n
  <2>1. p \in Int /\ t \in 0..(n - 1) /\ i = p * n + t
    BY <1>1
  <2>0. p = i \div n /\ t = i % n
    OBVIOUS
  <2> HIDE DEF p, t
  <2>2. q * n \in Int /\ p * n \in Int /\ (p + 1) * n = p * n + n /\ (q + 1) * n = q * n + n
    BY <2>1
  <2>3. ~(p + 1 <= q)
    <3>1. p + 1 <= q => (p + 1) * n <= q * n
      BY <2>1, TimesGrows
    <3> QED  BY <1>2, <2>1, <2>2, <3>1
  <2>4. ~(q + 1 <= p)
    <3>1. q + 1 <= p => (q + 1) * n <= p * n
      BY <2>1, TimesGrows
    <3> QED  BY <1>2, <2>1, <2>2, <3>1
  <2>5. p = q
    BY <2>1, <2>3, <2>4
  <2> QED  BY <1>2, <2>0, <2>1, <2>2, <2>5
<1> QED  BY <1>1, <1>2

\* A natural number divided is one.
LEMMA NaturalDivision ==
  ASSUME NEW i \in Nat, NEW n \in Nat \ {0}
  PROVE  i \div n \in Nat /\ i % n \in 0..(n - 1) /\ i = (i \div n) * n + (i % n)
OBVIOUS

\* As many slices of a size as it takes.
LEMMA CeilDivFacts ==
  ASSUME NEW a \in Nat, NEW n \in Nat \ {0}, NEW j \in Nat \ {0}
  PROVE  j <= CeilDiv(a, n) <=> (j - 1) * n < a
<1> DEFINE c == a + n - 1
           q == c \div n
           r == c % n
<1>1. q \in Int /\ r \in 0..(n - 1) /\ c = q * n + r /\ c \in Int
  BY DivisionFacts
<1>2. CeilDiv(a, n) = q /\ c = a + n - 1
  BY DEF CeilDiv
<1> HIDE DEF c, q, r
<1>3. q * n \in Int /\ (q - 1) * n = q * n - n /\ (j - 1) * n \in Int /\ j - 1 \in Int
  BY <1>1
<1>4. j <= q => (j - 1) * n <= (q - 1) * n
  <2>1. j - 1 \in Int /\ q - 1 \in Int /\ n \in Nat /\ (j <= q => j - 1 <= q - 1)
    BY <1>1
  <2> QED  BY <2>1, TimesGrows
<1>5. q <= j - 1 => q * n <= (j - 1) * n
  BY <1>1, <1>3, TimesGrows
<1> QED  BY <1>1, <1>2, <1>3, <1>4, <1>5

\* Every rank is that of one member, and every member has a rank.
LEMMA NthFacts ==
  ASSUME NEW S, S \subseteq Nat, IsFiniteSet(S)
  PROVE  /\ Cardinality(S) \in Nat
         /\ \A n \in 1..Cardinality(S) : Nth(S, n) \in S
         /\ \A x \in S : \E n \in 1..Cardinality(S) : x = Nth(S, n)
<1> DEFINE c == Cardinality(S)
           Upto(x) == {y \in S : y <= x}
           rank == [x \in S |-> Cardinality(Upto(x))]
<1>1. c \in Nat
  BY FS_CardinalityType
<1>2. ASSUME NEW x \in S PROVE IsFiniteSet(Upto(x)) /\ rank[x] \in 1..c
  <2>1. Upto(x) \in SUBSET S /\ x \in Upto(x)
    OBVIOUS
  <2> DEFINE U == Upto(x)
  <2>2. rank[x] = Cardinality(U)
    OBVIOUS
  <2> HIDE DEF U, rank
  <2>3. IsFiniteSet(U) /\ Cardinality(U) <= c /\ Cardinality(U) \in Nat
    BY <2>1, FS_Subset, FS_CardinalityType DEF U
  <2>4. Cardinality(U) # 0
    BY <2>1, <2>3, FS_EmptySet DEF U
  <2> QED  BY <1>1, <2>2, <2>3, <2>4 DEF U
<1>3. ASSUME NEW x \in S, NEW y \in S, x < y PROVE rank[x] # rank[y]
  <2> DEFINE U == Upto(x)
             V == Upto(y)
  <2>1. U \in SUBSET V /\ y \in V /\ y \notin U
    <3>1. \A z \in S : z \in Nat
      OBVIOUS
    <3>2. \A z \in S : z <= x => z <= y
      BY <1>3, <3>1
    <3>3. ~(y <= x) /\ y <= y
      BY <1>3, <3>1
    <3> QED  BY <3>2, <3>3
  <2>2. IsFiniteSet(V) /\ rank[x] = Cardinality(U) /\ rank[y] = Cardinality(V)
    BY <1>2
  <2> HIDE DEF U, V, rank
  <2>3. Cardinality(V) = Cardinality(U) => V = U
    BY <2>1, <2>2, FS_Subset
  <2> QED  BY <2>1, <2>2, <2>3
<1>4. rank \in Injection(S, 1..c)
  <2>1. rank \in [S -> 1..c]
    BY <1>2
  <2>2. ASSUME NEW x \in S, NEW y \in S, rank[x] = rank[y] PROVE x = y
    <3>1. x < y \/ y < x \/ x = y
      OBVIOUS
    <3> HIDE DEF rank
    <3> QED  BY <1>3, <2>2, <3>1
  <2> HIDE DEF rank, c
  <2> QED  BY <2>1, <2>2 DEF Injection, IsInjective
<1>5. rank \in Surjection(S, 1..c)
  <2>1. IsFiniteSet(1..c) /\ Cardinality(1..c) = IF 1 > c THEN 0 ELSE c - 1 + 1
    BY <1>1, FS_Interval
  <2>2. (IF 1 > c THEN 0 ELSE c - 1 + 1) = c
    <3> HIDE DEF c
    <3> QED  BY <1>1
  <2>3. Cardinality(S) = Cardinality(1..c)
    BY <2>1, <2>2
  <2> HIDE DEF rank, c
  <2> QED  BY <1>4, <2>1, <2>3, FS_Injection
<1>6. ASSUME NEW n \in 1..c PROVE Nth(S, n) \in S /\ rank[Nth(S, n)] = n
  <2>1. \E x \in S : rank[x] = n
    <3> HIDE DEF rank, c
    <3> QED  BY <1>5 DEF Surjection
  <2>2. \E x \in S : Cardinality({y \in S : y <= x}) = n
    BY <2>1
  <2> QED  BY <2>2 DEF Nth
<1>7. ASSUME NEW x \in S PROVE \E n \in 1..c : x = Nth(S, n)
  <2> HIDE DEF rank, c
  <2>1. rank[x] \in 1..c
    BY <1>2
  <2> DEFINE z == Nth(S, rank[x])
  <2>2. z \in S /\ rank[z] = rank[x]
    BY <1>6, <2>1
  <2> HIDE DEF z
  <2>3. z = x
    BY <1>4, <2>2 DEF Injection, IsInjective
  <2> QED  BY <2>1, <2>3 DEF z
<1> QED  BY <1>1, <1>6, <1>7

-----------------------------------------------------------------------------
(* From a measurement to its slices and back.                              *)

\* interleave: each element is in one place of one slice, and nothing else is.
LEMMA InterleaveFacts ==
  ASSUME NEW e, NEW m \in Nat, DOMAIN e = 0..(m - 1)
  PROVE  LET parts == Interleave(e)
             n == Size(parts)
         IN  /\ n \in Nat \ {0} /\ DOMAIN parts = 0..(n - 1)
             /\ \A k \in 0..(n - 1) : \A j \in DOMAIN parts[k] : \E i \in 0..(m - 1) : parts[k][j] = e[i]
             /\ \A i \in 0..(m - 1) :
                  /\ i % n \in 0..(n - 1) /\ (i \div n) + 1 \in DOMAIN parts[i % n]
                  /\ parts[i % n][(i \div n) + 1] = e[i]
<1> DEFINE n == SliceCount(Size(e))
           parts == Interleave(e)
           Places(k) == CeilDiv(Larger(m - k, 0), n)
<1>1. Size(e) = m
  BY ArraySize DEF Size
<1>2. n \in Nat \ {0}
  <2>1. CeilDiv(m, PerSlice) \in Nat
    BY CeilDivType, SensorFramesAssumption
  <2> QED  BY <1>1, <2>1 DEF SliceCount, Larger
<1>3. parts = [k \in 0..(n - 1) |-> [j \in 1..Places(k) |-> e[k + (j - 1) * n]]]
  BY <1>1 DEF Interleave, Array
<1> HIDE DEF n, parts
<1>4. DOMAIN parts = 0..(n - 1) /\ Size(parts) = n
  <2>1. DOMAIN parts = 0..(n - 1)
    BY <1>3
  <2> QED  BY <1>2, <2>1, ArraySize DEF Size
<1>5. ASSUME NEW k \in 0..(n - 1) PROVE parts[k] = [j \in 1..Places(k) |-> e[k + (j - 1) * n]]
  BY <1>3
<1>6. ASSUME NEW k \in 0..(n - 1), NEW j \in Nat \ {0}
      PROVE  j \in 1..Places(k) <=> k + (j - 1) * n < m
  <2> DEFINE a == Larger(m - k, 0)
  <2>1. a \in Nat /\ (a = m - k \/ (a = 0 /\ m <= k)) /\ k \in Nat
    BY <1>2 DEF Larger
  <2>2. (j - 1) * n \in Nat
    <3>1. j - 1 \in Nat
      OBVIOUS
    <3> DEFINE l == j - 1
    <3> HIDE DEF l
    <3>2. l \in Nat => l * n \in Nat
      BY <1>2
    <3> QED  BY <3>1, <3>2 DEF l
  <2> HIDE DEF a
  <2>3. j <= CeilDiv(a, n) <=> (j - 1) * n < a
    BY <1>2, <2>1, CeilDivFacts
  <2>4. CeilDiv(a, n) \in Nat
    BY <1>2, <2>1, CeilDivType
  <2>5. Places(k) = CeilDiv(a, n)
    BY DEF a
  <2> HIDE DEF Places
  <2>6. j \in 1..Places(k) <=> (j - 1) * n < a
    BY <2>3, <2>4, <2>5
  <2> QED  BY <2>1, <2>2, <2>6
<1>7. ASSUME NEW k \in 0..(n - 1), NEW j \in DOMAIN parts[k]
      PROVE  \E i \in 0..(m - 1) : parts[k][j] = e[i]
  <2> DEFINE i == k + (j - 1) * n
  <2>1. j \in 1..Places(k) /\ parts[k][j] = e[i]
    <3> HIDE DEF Places
    <3> QED  BY <1>5, <1>7
  <2>2. j \in Nat \ {0}
    BY <2>1
  <2>3. i < m
    <3> HIDE DEF Places
    <3> QED  BY <1>6, <2>1, <2>2
  <2>4. i \in Nat
    <3>1. j - 1 \in Nat /\ k \in Nat
      BY <1>2, <2>2
    <3> DEFINE l == j - 1
    <3> HIDE DEF l
    <3>2. l \in Nat => l * n \in Nat
      BY <1>2
    <3> QED  BY <3>1, <3>2 DEF l
  <2> HIDE DEF i
  <2>5. i \in 0..(m - 1)
    BY <2>3, <2>4
  <2> QED  BY <2>1, <2>5
<1>8. ASSUME NEW i \in 0..(m - 1)
      PROVE  /\ i % n \in 0..(n - 1) /\ (i \div n) + 1 \in DOMAIN parts[i % n]
             /\ parts[i % n][(i \div n) + 1] = e[i]
  <2> DEFINE q == i \div n
             k == i % n
  <2>0. i \in Nat /\ i < m
    OBVIOUS
  <2>1. q \in Int /\ k \in 0..(n - 1) /\ i = q * n + k
    BY <1>2, <2>0, DivisionFacts
  <2>2. q \in Nat
    BY <1>2, <2>0
  <2>q. q = i \div n /\ k = i % n
    OBVIOUS
  <2> HIDE DEF q, k
  <2> DEFINE j == q + 1
  <2>3. j \in Nat \ {0} /\ j - 1 = q
    BY <2>2
  <2>4. k + (j - 1) * n = i
    <3>1. q * n \in Int
      BY <1>2, <2>1
    <3> QED  BY <2>1, <2>3, <3>1
  <2> HIDE DEF j
  <2>5. j \in 1..Places(k)
    <3> HIDE DEF Places
    <3> QED  BY <1>6, <2>0, <2>1, <2>3, <2>4
  <2>6. j \in DOMAIN parts[k] /\ parts[k][j] = e[i]
    <3>1. parts[k] = [l \in 1..Places(k) |-> e[k + (l - 1) * n]]
      BY <1>5, <2>1
    <3> HIDE DEF Places
    <3>2. DOMAIN parts[k] = 1..Places(k) /\ parts[k][j] = e[k + (j - 1) * n]
      BY <2>5, <3>1
    <3> QED  BY <2>4, <2>5, <3>2
  <2> QED  BY <2>1, <2>6, <2>q DEF j
<1> QED  BY <1>2, <1>4, <1>7, <1>8 DEF parts

\* What arrived is what was sent, by place; and all of it did, when the frame is complete.
LEMMA DeinterleaveFacts ==
  ASSUME NEW e, NEW m \in Nat, DOMAIN e = 0..(m - 1), NEW frame, NEW lost,
         frame.slice_count = Size(Interleave(e)), DOMAIN frame.slices \subseteq DOMAIN Interleave(e),
         \A k \in DOMAIN frame.slices : frame.slices[k] = Interleave(e)[k]
  PROVE  /\ DOMAIN Deinterleave(frame, m, lost) = 0..(m - 1)
         /\ \A i \in 0..(m - 1) :
              /\ Deinterleave(frame, m, lost)[i] \in {e[i], lost}
              /\ Complete(frame) => Deinterleave(frame, m, lost)[i] = e[i]
<1> DEFINE parts == Interleave(e)
           n == Size(parts)
           d == Deinterleave(frame, m, lost)
           Here(i) == i % n \in DOMAIN frame.slices /\ (i \div n) + 1 \in DOMAIN frame.slices[i % n]
<1>1. /\ n \in Nat \ {0} /\ DOMAIN parts = 0..(n - 1)
      /\ \A i \in 0..(m - 1) :
           /\ i % n \in 0..(n - 1) /\ (i \div n) + 1 \in DOMAIN parts[i % n]
           /\ parts[i % n][(i \div n) + 1] = e[i]
  BY InterleaveFacts
<1>2. d = [i \in 0..(m - 1) |-> IF Here(i) THEN frame.slices[i % n][(i \div n) + 1] ELSE lost]
  BY DEF Deinterleave, ElementOf, Array
<1>3. /\ frame.slice_count = n /\ DOMAIN frame.slices \subseteq DOMAIN parts
      /\ \A k \in DOMAIN frame.slices : frame.slices[k] = parts[k]
  OBVIOUS
<1> HIDE DEF d, parts, n
<1>4. ASSUME NEW i \in 0..(m - 1)
      PROVE  d[i] \in {e[i], lost} /\ (Complete(frame) => d[i] = e[i])
  <2>1. i % n \in 0..(n - 1) /\ (i \div n) + 1 \in DOMAIN parts[i % n] /\ parts[i % n][(i \div n) + 1] = e[i]
    BY <1>1
  <2>2. d[i] = IF Here(i) THEN frame.slices[i % n][(i \div n) + 1] ELSE lost
    BY <1>2
  <2> DEFINE k == i % n
             j == (i \div n) + 1
  <2>3. /\ k \in 0..(n - 1) /\ j \in DOMAIN parts[k] /\ parts[k][j] = e[i]
        /\ d[i] = IF k \in DOMAIN frame.slices /\ j \in DOMAIN frame.slices[k] THEN frame.slices[k][j] ELSE lost
    BY <2>1, <2>2
  <2> HIDE DEF k, j
  <2>4. k \in DOMAIN frame.slices => d[i] = e[i]
    BY <1>3, <2>3
  <2>5. k \notin DOMAIN frame.slices => d[i] = lost
    BY <2>3
  <2>6. Complete(frame) => k \in DOMAIN frame.slices
    BY <1>3, <2>3 DEF Complete
  <2> QED  BY <2>4, <2>5, <2>6
<1>5. DOMAIN d = 0..(m - 1)
  BY <1>2
<1> QED  BY <1>4, <1>5 DEF d

\* So it is with points, the order of which is no matter.
LEMMA ReceivedFacts ==
  ASSUME NEW e, NEW m \in Nat, DOMAIN e = 0..(m - 1), NEW frame,
         frame.slice_count = Size(Interleave(e)), DOMAIN frame.slices \subseteq DOMAIN Interleave(e),
         \A k \in DOMAIN frame.slices : frame.slices[k] = Interleave(e)[k]
  PROVE  /\ \A x \in ReceivedElements(frame) : \E i \in 0..(m - 1) : x = e[i]
         /\ Complete(frame) => \A i \in 0..(m - 1) : e[i] \in ReceivedElements(frame)
<1> DEFINE parts == Interleave(e)
           n == Size(parts)
<1>1. /\ n \in Nat \ {0} /\ DOMAIN parts = 0..(n - 1)
      /\ \A k \in 0..(n - 1) : \A j \in DOMAIN parts[k] : \E i \in 0..(m - 1) : parts[k][j] = e[i]
      /\ \A i \in 0..(m - 1) :
           /\ i % n \in 0..(n - 1) /\ (i \div n) + 1 \in DOMAIN parts[i % n]
           /\ parts[i % n][(i \div n) + 1] = e[i]
  BY InterleaveFacts
<1>2. /\ frame.slice_count = n /\ DOMAIN frame.slices \subseteq DOMAIN parts
      /\ \A k \in DOMAIN frame.slices : frame.slices[k] = parts[k]
  OBVIOUS
<1> HIDE DEF parts, n
<1>3. ASSUME NEW x \in ReceivedElements(frame) PROVE \E i \in 0..(m - 1) : x = e[i]
  <2>1. PICK k \in DOMAIN frame.slices : \E j \in DOMAIN frame.slices[k] : x = frame.slices[k][j]
    BY <1>3 DEF ReceivedElements
  <2>2. k \in 0..(n - 1) /\ frame.slices[k] = parts[k]
    BY <1>1, <1>2
  <2> QED  BY <1>1, <2>1, <2>2
<1>4. ASSUME Complete(frame), NEW i \in 0..(m - 1) PROVE e[i] \in ReceivedElements(frame)
  <2> DEFINE k == i % n
             j == (i \div n) + 1
  <2>1. k \in 0..(n - 1) /\ j \in DOMAIN parts[k] /\ parts[k][j] = e[i]
    BY <1>1
  <2> HIDE DEF k, j
  <2>2. k \in DOMAIN frame.slices
    BY <1>2, <1>4, <2>1 DEF Complete
  <2>3. frame.slices[k] = parts[k]
    BY <1>2, <2>2
  <2> QED  BY <2>1, <2>2, <2>3 DEF ReceivedElements
<1> QED  BY <1>3, <1>4

\* (value / scale).round(): to half a unit, and no other unit is as near, as no value is half way.
LEMMA RoundFacts ==
  ASSUME NEW v \in Int
  PROVE  Round(v) \in Int /\ Near(Round(v), v) /\ \A u \in Int : Near(u, v) => Round(v) = u
<1> DEFINE h == Scale \div 2
<1>1. Scale \in Nat \ {0} /\ Scale % 2 = 1
  BY SensorFramesAssumption
<1>2. h \in Nat /\ Scale = 2 * h + 1
  BY <1>1
<1>d. h = Scale \div 2
  OBVIOUS
<1> HIDE DEF h
<1>3. ASSUME NEW w \in Nat
      PROVE  LET q == (w + h) \div Scale
             IN  /\ q \in Int /\ 2 * (q * Scale - w) \in -Scale..Scale
                 /\ \A u \in Int : 2 * (u * Scale - w) \in -Scale..Scale => q = u
  <2> DEFINE c == w + h
             q == c \div Scale
             r == c % Scale
  <2>1. c \in Int /\ c = w + h
    BY <1>2
  <2> HIDE DEF c
  <2>2. /\ q \in Int /\ r \in 0..(Scale - 1) /\ c = q * Scale + r
        /\ \A u \in Int : \A t \in 0..(Scale - 1) : c = u * Scale + t => u = q
    <3>1. /\ c \div Scale \in Int /\ c % Scale \in 0..(Scale - 1) /\ c = (c \div Scale) * Scale + (c % Scale)
          /\ \A u \in Int : \A t \in 0..(Scale - 1) : c = u * Scale + t => u = c \div Scale /\ t = c % Scale
      BY <1>1, <2>1, DivisionFacts
    <3> HIDE DEF c
    <3> QED  BY <3>1
  <2> HIDE DEF q, r
  <2>3. q * Scale \in Int
    BY <1>1, <2>2
  <2>4. 2 * (q * Scale - w) \in -Scale..Scale
    BY <1>1, <1>2, <2>1, <2>2, <2>3
  <2>5. ASSUME NEW u \in Int, 2 * (u * Scale - w) \in -Scale..Scale PROVE q = u
    <3> DEFINE a == u * Scale
               t == c - a
    <3>1. a \in Int
      BY <1>1
    <3>2. 2 * (a - w) \in -Scale..Scale
      BY <2>5
    <3> HIDE DEF a
    <3>3. t \in 0..(Scale - 1) /\ c = a + t
      BY <1>1, <1>2, <2>1, <3>1, <3>2
    <3> HIDE DEF t
    <3> QED  BY <2>2, <3>3 DEF a
  <2> QED  BY <2>2, <2>4, <2>5 DEF q, c
<1>4. CASE v >= 0
  <2> DEFINE q == (v + h) \div Scale
  <2>1. v \in Nat /\ Round(v) = q
    BY <1>4, <1>d DEF Round
  <2>2. /\ q \in Int /\ 2 * (q * Scale - v) \in -Scale..Scale
        /\ \A u \in Int : 2 * (u * Scale - v) \in -Scale..Scale => q = u
    BY <1>3, <2>1
  <2> HIDE DEF q
  <2>3. Near(q, v)
    BY <1>1, <2>2 DEF Near
  <2>4. \A u \in Int : Near(u, v) => 2 * (u * Scale - v) \in -Scale..Scale
    BY <1>1 DEF Near
  <2> QED  BY <2>1, <2>2, <2>3, <2>4
<1>5. CASE ~(v >= 0)
  <2> DEFINE w == -v
             q == (w + h) \div Scale
  <2>1. w \in Nat /\ v = -w /\ Round(v) = -q
    BY <1>5, <1>d DEF Round
  <2> HIDE DEF w
  <2>2. /\ q \in Int /\ 2 * (q * Scale - w) \in -Scale..Scale
        /\ \A u \in Int : 2 * (u * Scale - w) \in -Scale..Scale => q = u
    BY <1>3, <2>1
  <2> HIDE DEF q
  <2>3. \A u \in Int : u * Scale \in Int /\ (-u) * Scale = -(u * Scale)
    BY <1>1
  <2>4. Near(-q, v)
    BY <1>1, <2>1, <2>2, <2>3 DEF Near
  <2>5. ASSUME NEW u \in Int, Near(u, v) PROVE q = -u
    <3>1. 2 * ((-u) * Scale - w) \in -Scale..Scale
      BY <1>1, <2>1, <2>3, <2>5 DEF Near
    <3> QED  BY <2>2, <3>1
  <2>6. \A u \in Int : Near(u, v) => -q = u
    BY <2>2, <2>5
  <2> QED  BY <2>1, <2>2, <2>4, <2>6
<1> QED  BY <1>4, <1>5

\* What a sensor measures is a number.
LEMMA ReadingFacts == \A s \in Sensors : \A seq, i \in Nat : Reading(s, seq, i) \in Int
<1> SUFFICES ASSUME NEW s \in Sensors, NEW seq \in Nat, NEW i \in Nat PROVE Reading(s, seq, i) \in Int
  OBVIOUS
<1>1. Readings \in Seq(Int) /\ Len(Readings) \in Nat \ {0}
  BY MediaPathAssumption
<1> DEFINE a == s + 2 * seq + i
           n == Len(Readings)
<1>2. a \in Int
  BY LossyQueueAssumption
<1> HIDE DEF a, n
<1>3. a % n \in 0..(n - 1)
  BY <1>1, <1>2, DivisionFacts DEF n
<1>4. (a % n) + 1 \in 1..n
  BY <1>1, <1>3 DEF n
<1>5. Reading(s, seq, i) = Readings[(a % n) + 1]
  BY DEF Reading, a, n
<1> QED  BY <1>1, <1>4, <1>5 DEF n

\* What a frame of one sensor shows.
Shows(s, frame) ==
  LET data == Measurement(s, frame.frame_seq)
      seen == Decode(Kind[s], frame)
  IN  CASE Kind[s] = "Points" ->
             /\ \A p \in seen : \E i \in DOMAIN data : Near(p, data[i])
             /\ Complete(frame) => \A i \in DOMAIN data :
                  (\E u \in -MaxUnit..MaxUnit : Near(u, data[i])) => \E p \in seen : Near(p, data[i])
        [] Kind[s] = "RangeImage" ->
             \A i \in DOMAIN seen :
               /\ seen[i] = 0 \/ Near(seen[i], data[i])
               /\ Complete(frame) /\ seen[i] = 0 => \A u \in 1..MaxUnit : ~Near(u, data[i])
        [] Kind[s] = "Depth" ->
             \A i \in DOMAIN seen : seen[i] = data[i] \/ (seen[i] = 0 /\ ~Complete(frame))

\* PointFormat: every point shown was measured, and those that fit are all shown.
LEMMA PointsShown ==
  ASSUME NEW s \in Sensors, NEW frame, FrameOf(frame, s, frame.frame_seq), Kind[s] = "Points"
  PROVE  Shows(s, frame)
<1> DEFINE seq == frame.frame_seq
           data == Measurement(s, seq)
           m == seq % 4
           kept == {i \in DOMAIN data : Quantizes(data[i])}
           c == Cardinality(kept)
           e == EncodePoints(data)
           seen == Decode(Kind[s], frame)
<1>1. seq \in Nat
  BY DEF FrameOf
<1>2. m \in Nat /\ data = [i \in 1..m |-> Reading(s, seq, i)]
  BY <1>1 DEF Measurement
<1>3. DOMAIN data = 1..m /\ \A i \in DOMAIN data : data[i] \in Int
  <2> HIDE DEF data, m
  <2>1. DOMAIN data = 1..m /\ \A i \in 1..m : data[i] = Reading(s, seq, i) /\ i \in Nat
    BY <1>2
  <2> HIDE DEF seq
  <2> QED  BY <1>1, <2>1, ReadingFacts
<1>4. Payloads(s, seq) = Interleave(e)
  BY DEF Payloads, Encode
<1>5. e = [i \in 0..(c - 1) |-> <<Round(data[Nth(kept, i + 1)])>>]
  BY DEF EncodePoints, Array
<1>6. seen = {x[1] : x \in ReceivedElements(frame)}
  BY DEF Decode
<1>7. kept \subseteq Nat /\ IsFiniteSet(kept)
  <2>1. IsFiniteSet(1..m) /\ kept \in SUBSET (1..m)
    BY <1>2, <1>3, FS_Interval
  <2> HIDE DEF kept, m
  <2>2. \A i \in 1..m : i \in Nat
    BY <1>2
  <2> QED  BY <2>1, <2>2, FS_Subset
<1>8. \A i \in kept : i \in DOMAIN data /\ Near(Round(data[i]), data[i])
  BY <1>3, RoundFacts
<1>9. \A i \in DOMAIN data : (\E u \in -MaxUnit..MaxUnit : Near(u, data[i])) => i \in kept
  <2>1. MaxUnit \in Nat
    BY SensorFramesAssumption
  <2>2. ASSUME NEW i \in DOMAIN data, NEW u \in -MaxUnit..MaxUnit, Near(u, data[i]) PROVE Quantizes(data[i])
    <3>1. u \in Int /\ u \in (-MaxUnit - 1)..MaxUnit
      BY <2>1
    <3>2. Round(data[i]) = u
      BY <1>3, <2>2, <3>1, RoundFacts
    <3> QED  BY <3>1, <3>2 DEF Quantizes
  <2> QED  BY <2>2
<1>q. Shows(s, frame) <=>
        /\ \A p \in seen : \E i \in DOMAIN data : Near(p, data[i])
        /\ Complete(frame) => \A i \in DOMAIN data :
             (\E u \in -MaxUnit..MaxUnit : Near(u, data[i])) => \E p \in seen : Near(p, data[i])
  BY DEF Shows
<1> HIDE DEF data, kept, seen, e, m
<1>10. /\ c \in Nat /\ \A n \in 1..c : Nth(kept, n) \in kept
       /\ \A x \in kept : \E n \in 1..c : x = Nth(kept, n)
  BY <1>7, NthFacts
<1> HIDE DEF c
<1>11. DOMAIN e = 0..(c - 1)
  BY <1>5
<1>12. /\ frame.slice_count = Size(Interleave(e)) /\ DOMAIN frame.slices \subseteq DOMAIN Interleave(e)
       /\ \A k \in DOMAIN frame.slices : frame.slices[k] = Interleave(e)[k]
  BY <1>4 DEF FrameOf
<1>13. /\ \A x \in ReceivedElements(frame) : \E i \in 0..(c - 1) : x = e[i]
       /\ Complete(frame) => \A i \in 0..(c - 1) : e[i] \in ReceivedElements(frame)
  BY <1>10, <1>11, <1>12, ReceivedFacts
<1>14. ASSUME NEW i \in 0..(c - 1)
       PROVE  Nth(kept, i + 1) \in kept /\ e[i][1] = Round(data[Nth(kept, i + 1)])
  <2>1. i + 1 \in 1..c
    BY <1>10
  <2> QED  BY <1>5, <1>10, <2>1
<1>15. ASSUME NEW p \in seen PROVE \E i \in DOMAIN data : Near(p, data[i])
  <2>1. PICK x \in ReceivedElements(frame) : p = x[1]
    BY <1>6
  <2>2. PICK i \in 0..(c - 1) : x = e[i]
    BY <1>13
  <2> QED  BY <1>8, <1>14, <2>1, <2>2
<1>16. ASSUME Complete(frame), NEW i \in DOMAIN data, \E u \in -MaxUnit..MaxUnit : Near(u, data[i])
       PROVE  \E p \in seen : Near(p, data[i])
  <2>1. i \in kept
    BY <1>9, <1>16
  <2>2. PICK n \in 1..c : i = Nth(kept, n)
    BY <1>10, <2>1
  <2>3. n - 1 \in 0..(c - 1) /\ (n - 1) + 1 = n
    BY <1>10
  <2>4. e[n - 1] \in ReceivedElements(frame) /\ e[n - 1][1] = Round(data[i])
    BY <1>13, <1>14, <1>16, <2>2, <2>3
  <2>5. Round(data[i]) \in seen
    BY <1>6, <2>4
  <2> QED  BY <1>8, <2>1, <2>5
<1> QED  BY <1>15, <1>16, <1>q

\* A place in a picture of h rows of w has its row and its column.
LEMMA PlaceFacts ==
  ASSUME NEW h \in Nat \ {0}, NEW w \in Nat \ {0}, NEW i \in 0..(h * w - 1)
  PROVE  i % w \in 0..(w - 1) /\ i \div w \in 0..(h - 1) /\ i = (i \div w) * w + (i % w)
<1>0. h * w \in Int /\ i \in Nat /\ i < h * w
  OBVIOUS
<1> DEFINE q == i \div w
           r == i % w
<1>1. q \in Nat /\ r \in 0..(w - 1) /\ i = q * w + r
  BY <1>0, NaturalDivision
<1> HIDE DEF q, r
<1>2. q * w \in Int
  BY <1>1
<1>3. h <= q => h * w <= q * w
  BY <1>1, TimesGrows
<1>4. q < h
  BY <1>0, <1>1, <1>2, <1>3
<1> QED  BY <1>1, <1>4 DEF q, r

\* RangeImageFormat: a range shown was measured at that place; none is shown only where none fits.
LEMMA RangesShown ==
  ASSUME NEW s \in Sensors, NEW frame, FrameOf(frame, s, frame.frame_seq), Kind[s] = "RangeImage"
  PROVE  Shows(s, frame)
<1> DEFINE seq == frame.frame_seq
           data == Measurement(s, seq)
           e == EncodeRanges(data)
           none == [b \in 1..Beams |-> 0]
           columns == Deinterleave(frame, Columns, none)
           seen == Decode(Kind[s], frame)
<1>0. Beams \in Nat \ {0} /\ Columns \in Nat \ {0} /\ MaxUnit \in Nat
  BY SensorFramesAssumption
<1>1. seq \in Nat
  BY DEF FrameOf
<1>2. data = [i \in 0..(Beams * Columns - 1) |-> Reading(s, seq, i)]
  BY DEF Measurement, Array
<1>3. \A i \in 0..(Beams * Columns - 1) : data[i] \in Int
  BY <1>0, <1>1, <1>2, ReadingFacts
<1>4. Payloads(s, seq) = Interleave(e)
  BY DEF Payloads, Encode
<1>5. e = [c \in 0..(Columns - 1) |-> [b \in 1..Beams |-> RangeUnit(data[(b - 1) * Columns + c])]]
  BY DEF EncodeRanges, Array
<1>6. seen = [i \in 0..(Beams * Columns - 1) |-> columns[i % Columns][(i \div Columns) + 1]]
  BY DEF Decode, Array
<1>q. Shows(s, frame) <=>
        \A i \in DOMAIN seen :
          /\ seen[i] = 0 \/ Near(seen[i], data[i])
          /\ Complete(frame) /\ seen[i] = 0 => \A u \in 1..MaxUnit : ~Near(u, data[i])
  BY DEF Shows
<1> HIDE DEF data, e, seen
<1>7. DOMAIN e = 0..(Columns - 1)
  BY <1>5
<1>8. /\ frame.slice_count = Size(Interleave(e)) /\ DOMAIN frame.slices \subseteq DOMAIN Interleave(e)
      /\ \A k \in DOMAIN frame.slices : frame.slices[k] = Interleave(e)[k]
  BY <1>4 DEF FrameOf
<1> HIDE DEF none
<1>9. \A c \in 0..(Columns - 1) : columns[c] \in {e[c], none} /\ (Complete(frame) => columns[c] = e[c])
  BY <1>0, <1>7, <1>8, DeinterleaveFacts
<1> HIDE DEF columns
<1>10. ASSUME NEW i \in DOMAIN seen
       PROVE  /\ i \in 0..(Beams * Columns - 1)
              /\ seen[i] \in {RangeUnit(data[i]), 0} /\ (Complete(frame) => seen[i] = RangeUnit(data[i]))
  <2>0. i \in 0..(Beams * Columns - 1)
    BY <1>6
  <2> DEFINE y == i \div Columns
             c == i % Columns
             b == y + 1
  <2>1. c \in 0..(Columns - 1) /\ y \in 0..(Beams - 1) /\ i = y * Columns + c
    BY <1>0, <2>0, PlaceFacts
  <2>2. seen[i] = columns[c][b]
    BY <1>6, <2>0
  <2> HIDE DEF y, c
  <2>3. b \in 1..Beams /\ b - 1 = y
    BY <1>0, <2>1
  <2> HIDE DEF b
  <2>4. e[c][b] = RangeUnit(data[(b - 1) * Columns + c])
    BY <1>5, <2>1, <2>3
  <2>5. e[c][b] = RangeUnit(data[i])
    BY <2>1, <2>3, <2>4
  <2>6. none[b] = 0
    BY <2>3 DEF none
  <2> QED  BY <1>9, <2>0, <2>1, <2>2, <2>5, <2>6
<1>11. ASSUME NEW v \in Int
       PROVE  /\ RangeUnit(v) = 0 \/ Near(RangeUnit(v), v)
              /\ RangeUnit(v) = 0 => \A u \in 1..MaxUnit : ~Near(u, v)
  <2>1. Round(v) \in Int /\ Near(Round(v), v) /\ \A u \in Int : Near(u, v) => Round(v) = u
    BY RoundFacts
  <2>2. \A u \in 1..MaxUnit : u \in Int /\ u # 0
    BY <1>0
  <2>3. RangeUnit(v) = IF Round(v) \in 1..MaxUnit THEN Round(v) ELSE 0
    BY DEF RangeUnit
  <2>4. RangeUnit(v) = 0 => Round(v) \notin 1..MaxUnit
    BY <2>2, <2>3
  <2> QED  BY <2>1, <2>2, <2>3, <2>4
<1> QED  BY <1>3, <1>10, <1>11, <1>q

\* DepthFormat: a depth shown is the one measured there, and only what was lost is missing.
LEMMA DepthsShown ==
  ASSUME NEW s \in Sensors, NEW frame, FrameOf(frame, s, frame.frame_seq), Kind[s] = "Depth"
  PROVE  Shows(s, frame)
<1> DEFINE seq == frame.frame_seq
           data == Measurement(s, seq)
           e == EncodeDepth(data)
           n == SegmentsPerRow
           none == [k \in 1..SegmentWidth |-> 0]
           segments == Deinterleave(frame, Height * n, none)
           seen == Decode(Kind[s], frame)
<1>0. Width \in Nat \ {0} /\ Height \in Nat \ {0} /\ SegmentWidth \in Nat \ {0}
  BY SensorFramesAssumption
<1>4. Payloads(s, seq) = Interleave(e)
  BY DEF Payloads, Encode
<1>5. e = [z \in 0..(Height * n - 1) |->
             [k \in 1..SegmentWidth |->
                IF (z % n) * SegmentWidth + k - 1 < Width
                THEN data[(z \div n) * Width + (z % n) * SegmentWidth + k - 1] ELSE 0]]
  BY DEF EncodeDepth, Array
<1>6. seen = [i \in 0..(Height * Width - 1) |->
                segments[(i \div Width) * n + (i % Width) \div SegmentWidth][((i % Width) % SegmentWidth) + 1]]
  BY DEF Decode, Array
<1>q. Shows(s, frame) <=>
        \A i \in DOMAIN seen : seen[i] = data[i] \/ (seen[i] = 0 /\ ~Complete(frame))
  BY DEF Shows
<1>n. n \in Nat /\ \A j \in Nat \ {0} : j <= n <=> (j - 1) * SegmentWidth < Width
  BY <1>0, CeilDivType, CeilDivFacts DEF SegmentsPerRow
<1> HIDE DEF data, e, seen, n
<1>7. n \in Nat \ {0} /\ Height * n \in Nat
  <2>1. (1 - 1) * SegmentWidth < Width
    BY <1>0
  <2>2. 1 <= n
    BY <1>n, <2>1
  <2> QED  BY <1>0, <1>n, <2>2
<1>8. DOMAIN e = 0..(Height * n - 1)
  BY <1>5
<1>9. /\ frame.slice_count = Size(Interleave(e)) /\ DOMAIN frame.slices \subseteq DOMAIN Interleave(e)
      /\ \A k \in DOMAIN frame.slices : frame.slices[k] = Interleave(e)[k]
  BY <1>4 DEF FrameOf
<1> HIDE DEF none
<1>10. \A z \in 0..(Height * n - 1) : segments[z] \in {e[z], none} /\ (Complete(frame) => segments[z] = e[z])
  <2> DEFINE m == Height * n
  <2>1. m \in Nat /\ DOMAIN e = 0..(m - 1)
    BY <1>7, <1>8
  <2> HIDE DEF m
  <2>2. \A z \in 0..(m - 1) :
          /\ Deinterleave(frame, m, none)[z] \in {e[z], none}
          /\ Complete(frame) => Deinterleave(frame, m, none)[z] = e[z]
    BY <1>9, <2>1, DeinterleaveFacts
  <2> QED  BY <2>2 DEF m
<1> HIDE DEF segments
<1>11. ASSUME NEW i \in DOMAIN seen PROVE seen[i] \in {data[i], 0} /\ (Complete(frame) => seen[i] = data[i])
  <2>0. i \in 0..(Height * Width - 1)
    BY <1>6
  <2> DEFINE y == i \div Width
             x == i % Width
             k == x \div SegmentWidth
             t == x % SegmentWidth
             z == y * n + k
  <2>1. x \in 0..(Width - 1) /\ y \in 0..(Height - 1) /\ i = y * Width + x
    BY <1>0, <2>0, PlaceFacts
  <2>2. seen[i] = segments[z][t + 1]
    BY <1>6, <2>0
  <2> HIDE DEF x, y
  <2>3. k \in Nat /\ t \in 0..(SegmentWidth - 1) /\ x = k * SegmentWidth + t
    <3>1. x \in Nat
      BY <2>1
    <3> QED  BY <1>0, <3>1, NaturalDivision
  <2> HIDE DEF k, t
  <2>4. k * SegmentWidth \in Nat /\ y * Width \in Nat /\ y * n \in Nat
    BY <1>0, <1>7, <2>1, <2>3
  <2>5. k \in 0..(n - 1)
    <3> DEFINE j == k + 1
    <3>1. j \in Nat \ {0} /\ j - 1 = k
      BY <2>3
    <3> HIDE DEF j
    <3>2. j <= n
      BY <1>0, <1>n, <2>1, <2>3, <2>4, <3>1
    <3> QED  BY <1>7, <2>3, <3>1, <3>2 DEF j
  <2>6. z \in 0..(Height * n - 1)
    <3> DEFINE last == Height - 1
    <3>1. last \in Nat /\ y <= last /\ y \in Nat /\ last * n = Height * n - n
      BY <1>0, <1>7, <2>1
    <3> HIDE DEF last
    <3>2. y * n <= last * n
      BY <1>7, <3>1, TimesGrows
    <3> QED  BY <1>7, <2>4, <2>5, <3>1, <3>2
  <2>7. z \div n = y /\ z % n = k
    <3>1. z \in Int /\ y \in Int /\ z = y * n + k
      BY <2>1, <2>4, <2>5
    <3> HIDE DEF z
    <3> QED  BY <1>7, <2>5, <3>1, DivisionFacts
  <2> HIDE DEF z
  <2>8. e[z][t + 1] = data[i]
    <3> DEFINE u == t + 1
    <3>1. u \in 1..SegmentWidth /\ u - 1 = t /\ u \in Int
      BY <1>0, <2>3
    <3> HIDE DEF u
    <3>2. e[z][u] = IF k * SegmentWidth + u - 1 < Width THEN data[y * Width + k * SegmentWidth + u - 1] ELSE 0
      BY <1>5, <2>6, <2>7, <3>1
    <3> DEFINE a == k * SegmentWidth
               b == y * Width
    <3>3. a \in Nat /\ b \in Nat /\ x = a + t /\ i = b + x /\ x < Width
      BY <1>0, <2>1, <2>3, <2>4
    <3>4. e[z][u] = IF a + u - 1 < Width THEN data[b + a + u - 1] ELSE 0
      BY <3>2
    <3> HIDE DEF a, b
    <3>5. a + u - 1 = x /\ b + a + u - 1 = i /\ x < Width
      BY <2>1, <2>3, <3>1, <3>3
    <3> QED  BY <3>4, <3>5 DEF u
  <2>9. none[t + 1] = 0
    <3>1. t + 1 \in 1..SegmentWidth
      BY <1>0, <2>3
    <3> QED  BY <3>1 DEF none
  <2> QED  BY <1>10, <2>2, <2>6, <2>8, <2>9
<1> QED  BY <1>11, <1>q

\* Whatever the encoding, a frame shows what was measured.
LEMMA FrameShows ==
  ASSUME NEW s \in Sensors, NEW frame, FrameOf(frame, s, frame.frame_seq)
  PROVE  Shows(s, frame)
<1>1. Kind[s] \in {"Points", "RangeImage", "Depth"}
  BY MediaPathAssumption
<1> QED  BY <1>1, PointsShown, RangesShown, DepthsShown

-----------------------------------------------------------------------------
(* What assemblers keep and release was measured.                          *)

\* emit: what stays is what was pending.
LEMMA EmitMeasured ==
  ASSUME NEW asm, NEW s, PendingOf(asm, s), NEW seq
  PROVE  PendingOf(Emit(asm, seq), s)
<1> DEFINE newer == {p \in DOMAIN asm.pending : p > seq}
           kept == Keep(asm.pending, newer)
<1>1. Emit(asm, seq) = [pending |-> kept, last_emitted |-> seq]
  BY DEF Emit
<1>2. DOMAIN kept \subseteq DOMAIN asm.pending /\ \A p \in DOMAIN kept : kept[p] = asm.pending[p]
  BY DEF Keep
<1> HIDE DEF kept
<1>3. Emit(asm, seq).pending = kept
  BY <1>1
<1> QED  BY <1>2, <1>3 DEF PendingOf

\* on_slice: a slice only ever adds its own payload, in its own place, to its own frame.
LEMMA OnSliceMeasured ==
  ASSUME NEW s, NEW asm, asm = [pending |-> asm.pending, last_emitted |-> asm.last_emitted], PendingOf(asm, s),
         NEW d, d.frame_seq \in Nat, d.slice_count = Size(Payloads(s, d.frame_seq)),
         d.slice_index \in DOMAIN Payloads(s, d.frame_seq), d.payload = Payloads(s, d.frame_seq)[d.slice_index]
  PROVE  PendingOf(OnSlice(asm, d).asm, s) /\ ReadyOf(OnSlice(asm, d).ready, s)
<1> DEFINE seq == d.frame_seq
           D == DOMAIN asm.pending
           known == seq \in D
           entry == IF known THEN asm.pending[seq]
                    ELSE [frame_seq |-> seq, slice_count |-> d.slice_count, slices |-> <<>>]
           arrived == With(entry.slices, d.slice_index, d.payload)
           filled == [entry EXCEPT !.slices = With(@, d.slice_index, d.payload)]
           pending == With(asm.pending, seq, filled)
           added == [asm EXCEPT !.pending = pending]
           oldest == CHOOSE p \in DOMAIN added.pending : \A r \in DOMAIN added.pending : p <= r
           refused == \/ seq <= asm.last_emitted \/ entry.slice_count # d.slice_count
                      \/ d.slice_index \in DOMAIN entry.slices
           over == Cardinality(DOMAIN added.pending) > MaxPendingFrames
<1>1. OnSlice(asm, d) =
        IF refused THEN [asm |-> asm, ready |-> <<>>]
        ELSE IF Complete(filled) THEN [asm |-> Emit(added, seq), ready |-> <<filled>>]
        ELSE IF over THEN [asm |-> Emit(added, oldest), ready |-> <<added.pending[oldest]>>]
        ELSE [asm |-> added, ready |-> <<>>]
  BY DEF OnSlice
<1> HIDE DEF refused, over
<1>2. FrameOf(entry, s, seq)
  <2>1. CASE known
    BY <2>1 DEF PendingOf
  <2>2. CASE ~known
    <3>1. entry = [frame_seq |-> seq, slice_count |-> d.slice_count, slices |-> <<>>]
      BY <2>2
    <3> HIDE DEF entry
    <3>2. entry.slices = <<>> /\ DOMAIN <<>> = {}
      BY <3>1
    <3> QED  BY <3>1, <3>2 DEF FrameOf
  <2> QED  BY <2>1, <2>2
<1>3. FrameOf(filled, s, seq)
  <2>1. entry = [frame_seq |-> seq, slice_count |-> Size(Payloads(s, seq)), slices |-> entry.slices]
    BY <1>2 DEF FrameOf
  <2> HIDE DEF entry
  <2>2. filled = [frame_seq |-> seq, slice_count |-> Size(Payloads(s, seq)), slices |-> arrived]
    BY <2>1
  <2>3. /\ DOMAIN arrived = DOMAIN entry.slices \cup {d.slice_index}
        /\ \A k \in DOMAIN arrived : arrived[k] = IF k = d.slice_index THEN d.payload ELSE entry.slices[k]
    BY DEF With
  <2> HIDE DEF filled, arrived
  <2>4. filled.slices = arrived
    BY <2>2
  <2>5. /\ DOMAIN entry.slices \subseteq DOMAIN Payloads(s, seq)
        /\ \A k \in DOMAIN entry.slices : entry.slices[k] = Payloads(s, seq)[k]
    BY <1>2 DEF FrameOf
  <2>6. \A k \in DOMAIN arrived : arrived[k] = Payloads(s, seq)[k]
    BY <2>3, <2>5
  <2> QED  BY <2>2, <2>3, <2>4, <2>5, <2>6 DEF FrameOf
<1> HIDE DEF filled, entry
<1>4. DOMAIN pending = D \cup {seq} /\ \A p \in DOMAIN pending : pending[p] = IF p = seq THEN filled ELSE asm.pending[p]
  BY DEF With
<1> HIDE DEF pending
<1>5. added = [pending |-> pending, last_emitted |-> asm.last_emitted]
  OBVIOUS
<1>6. added.pending = pending
  BY <1>5
<1>7. oldest = CHOOSE p \in DOMAIN pending : \A r \in DOMAIN pending : p <= r
  BY <1>6
<1> HIDE DEF added, oldest
<1>8. PendingOf(added, s)
  BY <1>3, <1>4, <1>6 DEF PendingOf
<1>9. PendingOf(Emit(added, seq), s) /\ PendingOf(Emit(added, oldest), s)
  BY <1>8, EmitMeasured
<1>10. ASSUME NEW frame, NEW n, FrameOf(frame, s, n) PROVE ReadyOf(<<frame>>, s)
  <2>1. frame.frame_seq = n
    BY <1>10 DEF FrameOf
  <2>2. DOMAIN <<frame>> = {1} /\ <<frame>>[1] = frame
    OBVIOUS
  <2> QED  BY <1>10, <2>1, <2>2 DEF ReadyOf
<1>11. ReadyOf(<<>>, s)
  BY DEF ReadyOf
<1>12. ReadyOf(<<filled>>, s)
  BY <1>3, <1>10
<1>13. ReadyOf(<<added.pending[oldest]>>, s)
  <2>1. oldest \in DOMAIN pending
    <3> DEFINE E == DOMAIN pending
    <3>1. E \subseteq Nat /\ E # {}
      BY <1>4 DEF PendingOf, FrameOf
    <3> HIDE DEF E
    <3>2. \E p \in E : \A r \in E : p <= r
      BY <3>1, LeastNatural
    <3> QED  BY <1>7, <3>2 DEF E
  <2>2. FrameOf(added.pending[oldest], s, oldest)
    BY <1>6, <1>8, <2>1 DEF PendingOf
  <2> QED  BY <1>10, <2>2
<1> HIDE DEF seq, D
<1>14. \/ OnSlice(asm, d) = [asm |-> asm, ready |-> <<>>]
       \/ OnSlice(asm, d) = [asm |-> Emit(added, seq), ready |-> <<filled>>]
       \/ OnSlice(asm, d) = [asm |-> Emit(added, oldest), ready |-> <<added.pending[oldest]>>]
       \/ OnSlice(asm, d) = [asm |-> added, ready |-> <<>>]
  BY <1>1
<1>15. \/ OnSlice(asm, d).asm = asm /\ OnSlice(asm, d).ready = <<>>
       \/ OnSlice(asm, d).asm = Emit(added, seq) /\ OnSlice(asm, d).ready = <<filled>>
       \/ OnSlice(asm, d).asm = Emit(added, oldest) /\ OnSlice(asm, d).ready = <<added.pending[oldest]>>
       \/ OnSlice(asm, d).asm = added /\ OnSlice(asm, d).ready = <<>>
  BY <1>14
<1> QED  BY <1>8, <1>9, <1>11, <1>12, <1>13, <1>15

\* poll: what is released was pending.
LEMMA PollMeasured ==
  ASSUME NEW s, NEW asm, NEW n \in Nat, AssemblerOf(asm, n), PendingOf(asm, s),
         NEW expired \in SUBSET DOMAIN asm.pending, expired # {}
  PROVE  PendingOf(Poll(asm, expired).asm, s) /\ ReadyOf(Poll(asm, expired).ready, s)
<1> DEFINE m == Cardinality(expired)
           order == [i \in 1..m |-> Nth(expired, i)]
           last == order[Len(order)]
           ready == [i \in 1..Len(order) |-> asm.pending[order[i]]]
<1>1. Poll(asm, expired) = [asm |-> Emit(asm, last), ready |-> ready]
  BY DEF Poll
<1>2. expired \subseteq Nat /\ IsFiniteSet(expired)
  <2>1. \A p \in DOMAIN asm.pending : p \in (asm.last_emitted + 1)..(n - 1) /\ asm.last_emitted \in -1..(n - 1)
    BY DEF AssemblerOf
  <2>2. expired \subseteq 0..(n - 1)
    BY <2>1
  <2>3. IsFiniteSet(0..(n - 1))
    BY ArraySize
  <2> QED  BY <2>2, <2>3, FS_Subset
<1>3. m \in Nat /\ \A i \in 1..m : Nth(expired, i) \in expired
  BY <1>2, NthFacts
<1> HIDE DEF m
<1>4. Len(order) = m /\ \A i \in 1..m : order[i] \in DOMAIN asm.pending
  BY <1>3
<1> HIDE DEF order
<1>5. DOMAIN ready = 1..m /\ \A i \in 1..m : ready[i] = asm.pending[order[i]]
  BY <1>4
<1> HIDE DEF ready, last
<1>6. Poll(asm, expired).asm = Emit(asm, last) /\ Poll(asm, expired).ready = ready
  BY <1>1
<1>7. \A i \in 1..m : FrameOf(ready[i], s, order[i]) /\ ready[i].frame_seq = order[i]
  <2> SUFFICES ASSUME NEW i \in 1..m
               PROVE  FrameOf(ready[i], s, order[i]) /\ ready[i].frame_seq = order[i]
    OBVIOUS
  <2>1. order[i] \in DOMAIN asm.pending /\ ready[i] = asm.pending[order[i]]
    BY <1>4, <1>5
  <2>2. FrameOf(ready[i], s, order[i])
    BY <2>1 DEF PendingOf
  <2>3. ready[i].frame_seq = order[i]
    BY <2>2 DEF FrameOf
  <2> QED  BY <2>2, <2>3
<1>8. ReadyOf(ready, s)
  BY <1>5, <1>7 DEF ReadyOf
<1> QED  BY <1>6, <1>8, EmitMeasured

\* A release puts what is ready on the display, and leaves the other sensors alone.
LEMMA ReleasedMeasured ==
  ASSUME MeasuredInv, DOMAIN sensors = Sensors, NEW s \in Sensors, NEW r, Released(s, r),
         PendingOf(r.asm, s), ReadyOf(r.ready, s)
  PROVE  MeasuredInv'
<1>1. /\ sensors' = [sensors EXCEPT ![s] = r.asm]
      /\ display' = IF r.ready = <<>> THEN display ELSE [display EXCEPT ![s] = r.ready]
  BY DEF Released
<1>2. \A t \in Sensors : sensors'[t] = IF t = s THEN r.asm ELSE sensors[t]
  BY <1>1
<1>3. DOMAIN display' = Sensors /\ \A t \in Sensors : display'[t] \in {display[t], IF t = s THEN r.ready ELSE display[t]}
  BY <1>1 DEF MeasuredInv
<1>4. \A t \in Sensors : PendingOf(sensors'[t], t)
  BY <1>2 DEF MeasuredInv
<1>5. \A t \in Sensors : ReadyOf(display'[t], t)
  BY <1>3 DEF MeasuredInv
<1> QED  BY <1>3, <1>4, <1>5 DEF MeasuredInv, PendingOf, ReadyOf

\* New assemblers keep nothing, and nothing is displayed.
LEMMA NewMeasured == \A s : PendingOf(NewAssembler, s) /\ ReadyOf(<<>>, s)
<1>1. DOMAIN <<>> = {} /\ NewAssembler.pending = <<>>
  BY DEF NewAssembler
<1> QED  BY <1>1 DEF PendingOf, ReadyOf

\* So nothing is shown that was not measured at the start,
LEMMA InitMeasured == Init => MeasuredInv
<1> SUFFICES ASSUME Init PROVE MeasuredInv
  OBVIOUS
<1>1. sensors = [s \in Sensors |-> NewAssembler] /\ display = [s \in Sensors |-> <<>>]
  BY DEF Init
<1>2. DOMAIN display = Sensors /\ \A s \in Sensors : sensors[s] = NewAssembler /\ display[s] = <<>>
  BY <1>1
<1> QED  BY <1>2, NewMeasured DEF MeasuredInv

\* ... nor later: only slices, deadlines and a new connection change what is assembled and shown.
LEMMA NextMeasured == Inv /\ MeasuredInv /\ [Next]_vars => MeasuredInv'
<1> SUFFICES ASSUME Inv, MeasuredInv, [Next]_vars PROVE MeasuredInv'
  OBVIOUS
<1>0. LoadShape /\ SourceShape /\ HistoryShape /\ SliceInv /\ Assemblers
  BY AssemblersFacts DEF Inv, Shape
<1>d. DOMAIN sensors = Sensors /\ \A s \in Sensors : AssemblerOf(sensors[s], source.frame_seq[s]) /\ source.frame_seq[s] \in Nat
  BY <1>0 DEF Assemblers, SourceShape
<1>1. ASSUME UNCHANGED <<sensors, display>> PROVE MeasuredInv'
  BY <1>1 DEF MeasuredInv, PendingOf, ReadyOf
<1>2. CASE Reconnect
  <2>1. sensors' = [s \in Sensors |-> NewAssembler] /\ display' = [s \in Sensors |-> <<>>]
    BY <1>2 DEF Reconnect
  <2>2. DOMAIN display' = Sensors /\ \A s \in Sensors : sensors'[s] = NewAssembler /\ display'[s] = <<>>
    BY <2>1
  <2>3. \A s \in Sensors : PendingOf(sensors'[s], s) /\ ReadyOf(display'[s], s)
    BY <2>2, NewMeasured
  <2> QED  BY <2>2, <2>3 DEF MeasuredInv, PendingOf, ReadyOf
<1>3. ASSUME NEW d \in slices, OnSensorSlice(d) PROVE MeasuredInv'
  <2> DEFINE s == d.sensor_id
             asm == sensors[s]
             r == OnSlice(asm, d)
  <2>1. SliceOf(d, s, source.frame_seq) /\ Selected \subseteq Sensors
    BY <1>0, MediaPathAssumption DEF SliceInv
  <2>2. /\ s \in Sensors /\ d.frame_seq \in Nat /\ d.slice_count = Size(Payloads(s, d.frame_seq))
        /\ d.slice_index \in DOMAIN Payloads(s, d.frame_seq) /\ d.payload = Payloads(s, d.frame_seq)[d.slice_index]
    BY <2>1 DEF SliceOf
  <2>3. asm = [pending |-> asm.pending, last_emitted |-> asm.last_emitted] /\ PendingOf(asm, s)
    BY <1>d, <2>2 DEF AssemblerOf, MeasuredInv
  <2>4. Released(s, r)
    BY <1>3 DEF OnSensorSlice
  <2> HIDE DEF s, asm
  <2>5. PendingOf(r.asm, s) /\ ReadyOf(r.ready, s)
    BY <2>2, <2>3, OnSliceMeasured
  <2> HIDE DEF r
  <2> QED  BY <1>d, <2>2, <2>4, <2>5, ReleasedMeasured
<1>4. ASSUME NEW s \in Sensors, PollSensors(s) PROVE MeasuredInv'
  <2> DEFINE asm == sensors[s]
  <2>1. PICK expired \in SUBSET DOMAIN asm.pending : expired # {} /\ Released(s, Poll(asm, expired))
    BY <1>4 DEF PollSensors
  <2> DEFINE n == source.frame_seq[s]
             r == Poll(asm, expired)
  <2>2. n \in Nat /\ AssemblerOf(asm, n) /\ PendingOf(asm, s)
    BY <1>d DEF MeasuredInv
  <2> HIDE DEF asm, n
  <2>3. PendingOf(r.asm, s) /\ ReadyOf(r.ready, s)
    BY <2>1, <2>2, PollMeasured
  <2>4. Released(s, r)
    BY <2>1
  <2> HIDE DEF r
  <2> QED  BY <1>d, <2>3, <2>4, ReleasedMeasured
<1>5. CASE Produces \/ Operate \/ SessionOnNal \/ SessionOnSensorFrames \/ FeedLossy \/ Lose \/ OnSomeChunk \/ Plays
  BY <1>1, <1>5, Untouched
<1>6. CASE UNCHANGED vars
  BY <1>1, <1>6 DEF vars
<1> QED  BY <1>2, <1>3, <1>4, <1>5, <1>6, Steps DEF OnSomeSlice

\* Nothing phantom on the display: every point, range or depth shown was measured at that place in that
\* frame, to half a unit, and a complete frame shows all that the format can carry - for every format, size
\* of slice, loss, reordering, deadline and eviction.  (sensor.rs: the encodings, slice_frame,
\* FrameAssembler, deinterleave.)
THEOREM SensorsShowWhatWasMeasured == Spec => []ShowsWhatWasMeasured
<1>1. MeasuredInv => ShowsWhatWasMeasured
  <2> SUFFICES ASSUME MeasuredInv, NEW s \in Sensors, NEW n \in DOMAIN display[s] PROVE Shows(s, display[s][n])
    BY DEF ShowsWhatWasMeasured, Shows
  <2>1. FrameOf(display[s][n], s, display[s][n].frame_seq)
    BY DEF MeasuredInv, ReadyOf
  <2> QED  BY <2>1, FrameShows
<1>2. Inv /\ MeasuredInv /\ [Next]_vars => Inv' /\ MeasuredInv'
  BY NextInv, NextMeasured
<1>3. Init => Inv /\ MeasuredInv
  BY InitInv, InitMeasured
<1> QED  BY <1>1, <1>2, <1>3, PTL DEF Spec

=============================================================================

----------------------------- MODULE LossyQueue -----------------------------
(***************************************************************************)
(* robot-edge lossy_queue.rs: what waits on the robot for a turn on the    *)
(* lossy datagrams, and what is dropped there.  The queue is a record and  *)
(* its operations are operators on it; MediaPath drives them.              *)
(*                                                                         *)
(* Waiting times are not kept: a delta that is waiting may turn out to     *)
(* have waited longer than VIDEO_MAX_WAIT at any pop.                      *)
(***************************************************************************)
EXTENDS Integers, Sequences, FiniteSets

CONSTANTS
  Sensors,     \* sensor ids
  IdrChunks    \* chunks an IDR is split into; every other NAL fits one

ASSUME LossyQueueAssumption ==
  /\ Sensors \subseteq Nat /\ IsFiniteSet(Sensors)
  /\ IdrChunks \in Nat \ {0}

NoId == -1

ParameterSet == {"SPS", "PPS"}
NalType == ParameterSet \cup {"IDR", "P"}

\* nal_is_critical: everything else may be superseded.
NalIsCritical(type) == type # "P"

\* chunk_nal: every chunk says which NAL it is of, where it goes and whether it is
\* the last.  A NAL is known by the session that made it, its id and its type.
ChunkNal(nal) ==
  LET n == IF nal.type = "IDR" THEN IdrChunks ELSE 1
  IN  [i \in 1..n |-> [nal |-> nal, index |-> i - 1, is_last |-> i = n]]

NewSensorQueue == [current |-> <<>>, started |-> FALSE, waiting |-> <<>>]

NewLossyQueue ==
  [video |-> <<>>, skip_deltas_until_idr |-> FALSE, video_turn |-> FALSE,
   sensors |-> [s \in Sensors |-> NewSensorQueue], last_sensor |-> NoId]

-----------------------------------------------------------------------------
(* Video.                                                                  *)

\* Mutant: an IDR also clears the parameter sets waiting in front of it.
SurvivorsOfAll(type) == CASE type \in ParameterSet -> NalType \ {type}
                          [] type = "IDR"          -> {}
                          [] OTHER                 -> NalType

\* The types of NAL a new one leaves in the queue.
Survivors(type) == CASE type \in ParameterSet -> NalType \ {type}
                     [] type = "IDR"          -> ParameterSet
                     [] OTHER                 -> NalType

\* The waiting NALs of these types, in order.
OfTypes(waiting, types) ==
  LET upto[i \in 0..Len(waiting)] ==
        IF i = 0 THEN <<>>
        ELSE IF waiting[i].nal.type \in types THEN Append(upto[i - 1], waiting[i]) ELSE upto[i - 1]
  IN  upto[Len(waiting)]

PushVideoNal(q, nal) ==
  IF nal.type = "P" /\ q.skip_deltas_until_idr
  THEN q
  ELSE [q EXCEPT
         !.video = Append(OfTypes(@, Survivors(nal.type)), [nal |-> nal, chunks |-> ChunkNal(nal)]),
         !.skip_deltas_until_idr = @ /\ nal.type # "IDR"]

DeltaWaiting(q) == \E i \in DOMAIN q.video : q.video[i].nal.type = "P"

ExpireStaleVideo(q) ==
  [q EXCEPT !.video = OfTypes(@, NalType \ {"P"}),
            !.skip_deltas_until_idr = TRUE]

PopVideo(q) ==
  LET front == Head(q.video)
  IN  [q |-> [q EXCEPT !.video = IF Len(front.chunks) = 1 THEN Tail(@)
                                 ELSE [@ EXCEPT ![1].chunks = Tail(front.chunks)]],
       class |-> "Video", datagram |-> Head(front.chunks)]

-----------------------------------------------------------------------------
(* Sensors.  A frame always has a slice, so an empty waiting is none.      *)

\* Mutant: under Finish, a frame replaces the one that is half sent.
CutsInAlways(policy, sq) == TRUE

\* Cut, or Finish with nothing of the current frame sent: the new frame takes its place.
CutsIn(policy, sq) == policy = "Cut" \/ sq.current = <<>> \/ ~sq.started

PushSensorFrame(q, policy, s, slices) ==
  LET sq == q.sensors[s]
  IN  [q EXCEPT !.sensors[s] =
         IF CutsIn(policy, sq)
         THEN [current |-> slices, started |-> FALSE, waiting |-> sq.waiting]
         ELSE [sq EXCEPT !.waiting = slices]]

SensorWaiting(q) == {s \in Sensors : q.sensors[s].current # <<>> \/ q.sensors[s].waiting # <<>>}

Least(S) == CHOOSE x \in S : \A y \in S : x <= y

\* Round robin: the first waiting sensor after the one served last.
NextSensor(q) ==
  LET after == {s \in SensorWaiting(q) : s > q.last_sensor}
  IN  Least(IF after # {} THEN after ELSE SensorWaiting(q))

PopSensor(q) ==
  LET s == NextSensor(q)
      sq == q.sensors[s]
      current == IF sq.current # <<>> THEN sq.current ELSE sq.waiting
      waiting == IF sq.current # <<>> THEN sq.waiting ELSE <<>>
      promote == Len(current) = 1 /\ waiting # <<>>
  IN  [q |-> [q EXCEPT !.last_sensor = s,
                       !.sensors[s] = [current |-> IF promote THEN waiting ELSE Tail(current),
                                       started |-> ~promote,
                                       waiting |-> IF promote THEN <<>> ELSE waiting]],
       class |-> "Sensor", datagram |-> Head(current)]

-----------------------------------------------------------------------------
Empty(q) == q.video = <<>> /\ SensorWaiting(q) = {}

\* Mutant: video goes first whenever it has something.
PopVideoFirst(q) ==
  LET turned == [q EXCEPT !.video_turn = ~@]
  IN  IF q.video # <<>> THEN PopVideo(turned) ELSE PopSensor(turned)

\* pop, once stale video has been expired and something is left: the other class
\* has its turn when the one whose turn it is has nothing.
Pop(q) ==
  LET turned == [q EXCEPT !.video_turn = ~@]
  IN  IF (q.video_turn /\ q.video # <<>>) \/ SensorWaiting(q) = {}
      THEN PopVideo(turned) ELSE PopSensor(turned)

\* A pop that finds nothing still passes the turn.
PopNothing(q) == [q EXCEPT !.video_turn = ~@]

=============================================================================

------------------------------ MODULE Recording ------------------------------
(***************************************************************************)
(* roboprotocol-recording: one category of a Recorder.  The program's      *)
(* threads push records into a bounded ring (ring.rs); the category's      *)
(* writer thread (writer.rs) drains it in batches into segment files named *)
(* by the capture time of their first record (segment.rs), rotates them by *)
(* size or age, deletes old ones to stay within a budget, and flushes from *)
(* time to time.  tools/replay-decode reads the segments back.             *)
(*                                                                         *)
(* A record counts as one unit of size.  capture_us is the wall clock,     *)
(* which may be stepped back.  A crash loses what was not synced, and may  *)
(* leave half a record at the end of a segment.  Session gives the records *)
(* their contents and the process its crashes.                             *)
(***************************************************************************)
EXTENDS ChannelB, FiniteSets, FiniteSetsExt

CONSTANTS
  RingCapacity,       \* ring_capacity
  MaxSegment,         \* max_segment_bytes, in records
  MaxTotal            \* max_total_bytes, in records

\* None is no capture time, and no block of a frame.
ASSUME RecordingAssumption == {RingCapacity, MaxSegment, MaxTotal} \subseteq Nat \ {0} /\ Absent \notin Nat /\ Absent \notin Seq(Int)

VARIABLES
  rec,      \* CategoryState: category, active, ring, shutdown; pushed counts the records accepted
  writer,   \* writer::run: where it is, its batch, and the name and size of its open segment
  disk,     \* segment files by name: their records, how many are synced, where a torn one lies (torn_at
            \* records come before it), and whether what was appended behind it fills it up (overrun)
  clock,    \* the wall clock: [now, stepped], stepped once it has been set back
  fate      \* what became of records that are nowhere any more

recVars == <<rec, writer, disk, clock, fate>>

\* Recorder::start for a category of RecorderConfig.
NewCategory(category, start_active) ==
  [category |-> category, active |-> start_active, ring |-> <<>>, shutdown |-> FALSE, pushed |-> 0]

NewWriter == [at |-> "Drain", batch |-> <<>>, segment |-> Absent, size |-> 0]

RecordingInit(category, start_active) ==
  /\ rec = NewCategory(category, start_active)
  /\ writer = NewWriter
  /\ disk = [n \in {} |-> <<>>]
  /\ clock = [now |-> 0, stepped |-> FALSE]
  /\ fate = [dropped |-> {}, deleted |-> {}, lost |-> {}, late |-> {}]

RecordIds(records) == {records[i].id : i \in DOMAIN records}

\* CategoryState::push with no capacity.
PushUnbounded(r, record) == [r EXCEPT !.ring = Append(@, record), !.pushed = record.id]

\* CategoryState::push: at capacity the oldest record goes.
Push(r, record) ==
  [r EXCEPT !.ring = Append(IF Len(@) >= RingCapacity THEN Tail(@) ELSE @, record), !.pushed = record.id]

\* Recorder::enqueue.  A category that is not configured, or not active, takes nothing.  acted is
\* history: what this end did about the message, for replay to be held against.
Enqueue(category, payload, acted) ==
  IF category # rec.category \/ ~rec.active THEN UNCHANGED recVars
  ELSE /\ \E dt \in {0, 1} : clock' = [clock EXCEPT !.now = @ + dt]
       /\ LET record == [id |-> rec.pushed + 1, capture_us |-> clock'.now, payload |-> payload, acted |-> acted]
          IN  /\ rec' = Push(rec, record)
              /\ fate' = [fate EXCEPT
                   !.dropped = @ \cup (RecordIds(Append(rec.ring, record)) \ RecordIds(rec'.ring)),
                   \* The writer has drained nothing and not looked at shutdown yet.
                   !.late = IF writer.at = "Check" /\ writer.batch = <<>> THEN @ \cup {record.id} ELSE @]
       /\ UNCHANGED <<writer, disk>>

\* Recorder::set_active.
SetActive ==
  /\ rec' = [rec EXCEPT !.active = ~@]
  /\ UNCHANGED <<writer, disk, clock, fate>>

\* The last Recorder clone is dropped: RecorderInner::drop signals the writer and joins it.
DropRecorder ==
  /\ rec' = [rec EXCEPT !.shutdown = TRUE]
  /\ UNCHANGED <<writer, disk, clock, fate>>

\* CategoryState::drain: everything queued, or nothing after POLL_INTERVAL.
Drain ==
  /\ writer.at = "Drain"
  /\ writer' = [writer EXCEPT !.at = "Check", !.batch = rec.ring]
  /\ rec' = [rec EXCEPT !.ring = <<>>]
  /\ UNCHANGED <<disk, clock, fate>>

Synced(name) == IF name = Absent THEN disk ELSE [disk EXCEPT ![name].synced = Len(disk[name].records)]

\* A writer that stops as soon as it sees the shutdown.
MayExitAtOnce == rec.shutdown
\* writer::run stops only when it sees the shutdown after a drain that gave nothing.
MayExit == rec.shutdown /\ writer.batch = <<>>

Check ==
  /\ writer.at = "Check"
  /\ writer' = [writer EXCEPT !.at = IF MayExit THEN "Exited" ELSE "Write"]
  /\ disk' = IF MayExit THEN Synced(writer.segment) ELSE disk
  /\ UNCHANGED <<rec, clock, fate>>

\* should_rotate; aged stands for max_segment_duration having passed.
ShouldRotate(aged) == writer.segment = Absent \/ writer.size >= MaxSegment \/ aged

\* segments_to_delete_for_budget: how many of the oldest segments go, never the last listed.
DeletedCount(names, incoming) ==
  LET Size(i) == Len(disk[names[i]].records)
      Sum(S) == FoldSet(LAMBDA i, total : total + Size(i), 0, S)
      total == Sum(1..Len(names)) + incoming
      Enough(k) == k = Len(names) - 1 \/ total - Sum(1..k) <= MaxTotal
  IN  IF names = <<>> THEN 0 ELSE Min({k \in 0..(Len(names) - 1) : Enough(k)})

\* list_segments: by name, which is the capture time.
SegmentNames(d) ==
  CHOOSE names \in [1..Cardinality(DOMAIN d) -> DOMAIN d] :
    \A i, j \in 1..Cardinality(DOMAIN d) : i < j => names[i] < names[j]

EmptySegment == [records |-> <<>>, synced |-> 0, torn_at |-> Absent, overrun |-> FALSE]

\* write_record: what follows a torn record may be as long as what that one lacks (sizes differ).
Appended(segment, record, reaches) ==
  [segment EXCEPT !.records = Append(@, record), !.overrun = @ \/ (segment.torn_at # Absent /\ reaches)]

\* One record of the batch: rotate first if it is time - flush, enforce_retention, OpenSegment::create
\* in append mode - and then write_record.
WriteRecord ==
  /\ writer.at = "Write" /\ writer.batch # <<>>
  /\ \E aged \in BOOLEAN :
       LET record == Head(writer.batch)
           rotate == ShouldRotate(aged)
           names == SegmentNames(disk)
           deleted == IF rotate THEN {names[i] : i \in 1..DeletedCount(names, 1)} ELSE {}
           name == IF rotate THEN record.capture_us ELSE writer.segment
           left == [n \in DOMAIN disk \ deleted |-> IF rotate THEN Synced(writer.segment)[n] ELSE disk[n]]
           target == IF name \in DOMAIN left THEN left[name] ELSE EmptySegment
       IN  /\ \E reaches \in BOOLEAN :
                disk' = [n \in DOMAIN left \cup {name} |-> IF n = name THEN Appended(target, record, reaches) ELSE left[n]]
           /\ writer' = [writer EXCEPT !.batch = Tail(@), !.segment = name, !.size = IF rotate THEN 1 ELSE @ + 1]
           /\ fate' = [fate EXCEPT !.deleted = @ \cup UNION {RecordIds(disk[n].records) : n \in deleted}]
  /\ UNCHANGED <<rec, clock>>

\* The batch is written; flush_interval may have passed.
EndBatch ==
  /\ writer.at = "Write" /\ writer.batch = <<>>
  /\ writer' = [writer EXCEPT !.at = "Drain"]
  /\ disk' \in {disk, Synced(writer.segment)}
  /\ UNCHANGED <<rec, clock, fate>>

\* Someone, or NTP, sets the wall clock back.
StepClockBack ==
  /\ clock.now > 0
  /\ clock' = [now |-> clock.now - 1, stepped |-> TRUE]
  /\ UNCHANGED <<rec, writer, disk, fate>>

\* What a crash leaves of a segment: a prefix, and maybe a piece of the next record.  What remains behind
\* an earlier tear may still fill it up.
Remains(segment, kept, torn, reaches) ==
  LET cut == kept < Len(segment.records)
  IN  [segment EXCEPT !.records = SubSeq(@, 1, kept), !.synced = kept,
         !.torn_at = IF cut /\ torn /\ @ = Absent THEN kept ELSE @,
         !.overrun = @ /\ (cut => reaches /\ (torn \/ kept > segment.torn_at))]

\* The process or the machine dies: of each segment at least what was synced survives.
CrashRecorder ==
  \E kept \in [DOMAIN disk -> 0..Max({0} \cup {Len(disk[n].records) : n \in DOMAIN disk})],
     torn, reaches \in BOOLEAN :
    /\ \A n \in DOMAIN disk : disk[n].synced <= kept[n] /\ kept[n] <= Len(disk[n].records)
    /\ disk' = [n \in DOMAIN disk |-> Remains(disk[n], kept[n], torn, reaches)]
    /\ fate' = [fate EXCEPT !.lost = @ \cup RecordIds(rec.ring) \cup RecordIds(writer.batch)
                  \cup UNION {RecordIds(disk[n].records) \ RecordIds(disk'[n].records) : n \in DOMAIN disk}]
    /\ rec' = [rec EXCEPT !.ring = <<>>, !.shutdown = TRUE]
    /\ writer' = [NewWriter EXCEPT !.at = "Exited"]
    /\ UNCHANGED clock

\* The process starts again, on the same directory.  Starting takes longer than the microsecond
\* capture_us counts, so without a step of the clock no name of a segment comes again.
RestartRecorder ==
  /\ writer.at = "Exited"
  /\ rec' = [rec EXCEPT !.ring = <<>>, !.shutdown = FALSE]
  /\ writer' = NewWriter
  /\ clock' = [clock EXCEPT !.now = @ + 1]
  /\ fate' = [fate EXCEPT !.lost = @ \cup RecordIds(rec.ring)]
  /\ UNCHANGED disk

WriterStep == Drain \/ Check \/ WriteRecord \/ EndBatch

-----------------------------------------------------------------------------
(* Reading back: tools/replay-decode.                                      *)

\* What is read of a torn record filled up by what was appended behind it: bytes of both under one header,
\* and then whatever the bytes say from the middle of a record on.  One row stands for all of it.
Garbled == [id |-> Absent, capture_us |-> Absent, payload |-> Absent, acted |-> Absent]

\* decode_records: whole records up to a torn one.  There it stops while fewer bytes remain than
\* the torn record's length asks for, and goes on with them once there are enough.
DecodeRecords(segment) ==
  IF segment.torn_at = Absent THEN segment.records
  ELSE SubSeq(segment.records, 1, segment.torn_at) \o (IF segment.overrun THEN <<Garbled>> ELSE <<>>)

\* sorted_segments, and every record in them.
ReplayRecords == LET names == SegmentNames(disk) IN FlattenSeq([i \in 1..Len(names) |-> DecodeRecords(disk[names[i]])])

\* The vtable sizes of the two messages that share ActionTriggerC.
VtableSize(message) == IF message.type = "CameraControl" THEN 14 ELSE 8

\* decode_action_trigger of the first FlatBuffer in the payload; what follows it is not seen.
ReplayTrigger(payload) ==
  IF VtableSize(Head(payload)) > 10
  THEN <<"camera_control", Head(payload).level, Head(payload).seq>>
  ELSE <<"action_trigger", Head(payload).action, Head(payload).seq>>

\* decode_command: the arm, once the velocity block before it has unpacked.
ReplayCommand(payload) ==
  LET fields == DecodeFrame(payload).fields
      va == Bytes(fields, 0, VelocityAttitudeLen)
      arm == Bytes(fields, VelocityAttitudeLen, CartesianLen)
  IN  IF DecodeFrame(payload).category # "Command" \/ va = Absent \/ arm = Absent THEN Absent
      ELSE LET c == UnpackCartesian(arm, "Standard") IN <<c.xyz[1] \div 1000, c.xyz[3] \div 1000, c.gripper>>

\* decode_telemetry; a frame sent before there was any telemetry has no row.
ReplayTelemetry(payload) ==
  IF DecodeFrame(payload).category # "Telemetry" THEN Absent ELSE UnpackTelemetry(DecodeFrame(payload).fields)

Replayed(payload) ==
  CASE rec.category = "ActionTriggerC" -> ReplayTrigger(payload)
    [] rec.category = "ChannelBCommand" -> ReplayCommand(payload)
    [] rec.category = "ChannelBTelemetry" -> ReplayTelemetry(payload)

-----------------------------------------------------------------------------
RecordingTypeOK ==
  /\ Len(rec.ring) <= RingCapacity
  /\ \A i \in 1..Len(rec.ring) : rec.ring[i].id \in 1..rec.pushed /\ rec.ring[i].capture_us \in Nat
  /\ rec.active \in BOOLEAN /\ rec.shutdown \in BOOLEAN
  /\ writer.at \in {"Drain", "Check", "Write", "Exited"}
  /\ DOMAIN disk \subseteq Nat
  /\ \A n \in DOMAIN disk : disk[n].synced <= Len(disk[n].records)
  /\ writer.segment \in DOMAIN disk \cup {Absent}

\* Nothing that was accepted disappears without a reason: it waits in the ring or the writer's hand,
\* it is in a segment, or it was pushed out of a full ring, deleted by retention, or lost in a crash.
\* Unless the clock was set back, replay gives all records on disk, in the order they were pushed, and
\* retention has deleted only records older than all of them.  A segment that was torn and then appended
\* to - OpenSegment::create does that when a capture time comes again after a crash, which takes a clock set
\* back - is excepted: behind the tear its records are lost to replay, and a row it gives there is no
\* record that was pushed.  For every other row replay gives what this end took from the message.
\* And once the writer has exited everything it took is synced, and nothing waits but records pushed after
\* its last drain, before it looked at shutdown: drop's "never leaves data sitting unflushed in memory"
\* holds but for those.
\* (ring.rs, writer.rs, segment.rs, core recording.rs and RecorderInner::drop.)
RecordsKept ==
  LET onDisk == UNION {RecordIds(disk[n].records) : n \in DOMAIN disk}
      waiting == RecordIds(rec.ring) \cup RecordIds(writer.batch)
      rows == ReplayRecords
  IN  /\ 1..rec.pushed = onDisk \cup waiting \cup fate.dropped \cup fate.deleted \cup fate.lost
      /\ waiting \cap onDisk = {}
      /\ \A i \in 1..Len(rows) : rows[i] = Garbled \/ Replayed(rows[i].payload) = rows[i].acted
      /\ ~clock.stepped => /\ RecordIds(rows) = onDisk
                           /\ \A i, j \in 1..Len(rows) : i < j => rows[i].id < rows[j].id
                           /\ \A d \in fate.deleted, k \in onDisk \cup waiting : d < k
      /\ writer.at = "Exited" => /\ waiting \subseteq fate.late
                                 /\ \A n \in DOMAIN disk : disk[n].synced = Len(disk[n].records)
=============================================================================

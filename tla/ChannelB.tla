------------------------------- MODULE ChannelB -------------------------------
(***************************************************************************)
(* Channel B's conversions: the command layout a robot profile implies     *)
(* (profile.rs), the quantization of a command's and a telemetry report's  *)
(* fields, the frame, and the datagram tag - at both ends (robot-edge's    *)
(* and operator-console's channel_b.rs) and in the replay tool.            *)
(*                                                                         *)
(* Real numbers are integers, in thousandths.  A field of w bytes is w     *)
(* cells, its value in the first, so byte offsets are the code's own.      *)
(***************************************************************************)
EXTENDS Integers, Sequences, SequencesExt

CONSTANT Absent   \* Rust's None

Lesser(a, b) == IF a <= b THEN a ELSE b
Greater(a, b) == IF a <= b THEN b ELSE a

BytesPerField(tier) == CASE tier = "Compact" -> 1 [] tier = "Standard" -> 2 [] tier = "Full" -> 4

\* Fields of a shape whose layout does not grow with the joints.
FixedFieldCount(shape) == CASE shape = "VelocityAttitude" -> 6 [] shape = "CartesianEndEffector" -> 4

\* An empty selection is all regions.
Selected(ids, id) == ids = {} \/ id \in ids

\* The fields of the joints of the selected regions, one after the other from a cursor.
JointFields(profile, ids, cursor, tier) ==
  LET indices == SelectSeq([i \in 1..Len(profile.joints) |-> i], LAMBDA i : Selected(ids, profile.joints[i].region_id))
  IN  [k \in 1..Len(indices) |->
        [joint_index |-> indices[k] - 1, byte_offset |-> cursor + (k - 1) * BytesPerField(tier), byte_len |-> BytesPerField(tier)]]

\* Telemetry: one field per joint of the selected regions.
DeriveLayout(profile, ids, tier) == JointFields(profile, ids, 0, tier)

\* The block a region adds at the cursor.  All velocity regions share the first one's.
BlockOf(profile, region, cursor, tier) ==
  IF region.command_shape = "Kinematic"
  THEN LET fields == JointFields(profile, {region.region_id}, cursor, tier)
       IN  [shape |-> "Kinematic", region_id |-> region.region_id, byte_offset |-> cursor,
            byte_len |-> Len(fields) * BytesPerField(tier), joint_offsets |-> fields]
  ELSE [shape |-> region.command_shape,
        region_id |-> IF region.command_shape = "VelocityAttitude" THEN Absent ELSE region.region_id,
        byte_offset |-> cursor, byte_len |-> FixedFieldCount(region.command_shape) * BytesPerField(tier),
        joint_offsets |-> <<>>]

DeriveCommandLayout(profile, ids, tier) ==
  LET Repeats(blocks, region) ==
        region.command_shape = "VelocityAttitude" /\ \E i \in 1..Len(blocks) : blocks[i].shape = "VelocityAttitude"
      Add(blocks, region) ==
        LET cursor == IF blocks = <<>> THEN 0 ELSE Last(blocks).byte_offset + Last(blocks).byte_len
        IN  IF ~Selected(ids, region.region_id) \/ Repeats(blocks, region) THEN blocks
            ELSE Append(blocks, BlockOf(profile, region, cursor, tier))
  IN  FoldLeft(Add, <<>>, profile.regions)

-----------------------------------------------------------------------------

\* f32::round of v / step: to the nearest, halves away from zero.
Rounded(v, step) == IF v >= 0 THEN (v + step \div 2) \div step ELSE -((step \div 2 - v) \div step)

Bounded(v, lo, hi) == IF v < lo THEN lo ELSE IF v > hi THEN hi ELSE v

\* What one count of a field is worth, in thousandths: 1 / scale.
ContinuousStep(tier) == CASE tier = "Compact" -> 1000 [] tier = "Standard" -> 10 [] tier = "Full" -> 1
PositionStep(tier) == CASE tier = "Compact" -> 2000 [] tier = "Standard" -> 1000 [] tier = "Full" -> 1

\* pack_scaled without its clamp: the cast keeps the low bits.
QuantizedWrapping(v, step, tier) ==
  CASE tier = "Compact" -> ((Rounded(v, step) + 128) % 256) - 128
    [] tier = "Standard" -> ((Rounded(v, step) + 32768) % 65536) - 32768
    [] tier = "Full" -> v

\* pack_scaled: the count, saturated to the field's width; Full keeps the value itself.
Quantized(v, step, tier) ==
  CASE tier = "Compact" -> Bounded(Rounded(v, step), -128, 127)
    [] tier = "Standard" -> Bounded(Rounded(v, step), -32768, 32767)
    [] tier = "Full" -> v

Field(v, width) == [i \in 1..width |-> IF i = 1 THEN v ELSE 0]
Fields(vs, width) == FlattenSeq([i \in 1..Len(vs) |-> Field(vs[i], width)])
FieldAt(bytes, i, width) == bytes[i * width + 1]

\* VelocityAttitudeCommand::pack of <<vx, vy, turn, roll, pitch, yaw>>.
PackVelocityAttitude(va, tier) ==
  Fields([i \in 1..6 |-> Quantized(va[i], ContinuousStep(tier), tier)], BytesPerField(tier))

UnpackVelocityAttitude(bytes, tier) ==
  IF Len(bytes) < 6 * BytesPerField(tier) THEN Absent
  ELSE [i \in 1..6 |-> FieldAt(bytes, i - 1, BytesPerField(tier)) * ContinuousStep(tier)]

\* CartesianCommand::pack: x, y, z in thousandths, and the gripper, a byte whatever the tier.
PackCartesian(arm, tier) ==
  Fields([i \in 1..3 |-> Quantized(arm.xyz[i], PositionStep(tier), tier)] \o <<arm.gripper>>, BytesPerField(tier))

UnpackCartesian(bytes, tier) ==
  IF Len(bytes) < 4 * BytesPerField(tier) THEN Absent
  ELSE [xyz |-> [i \in 1..3 |-> FieldAt(bytes, i - 1, BytesPerField(tier)) * PositionStep(tier)],
        gripper |-> FieldAt(bytes, 3, BytesPerField(tier)) % 256]

\* Vec::get of a byte range, from byte `from`, `len` bytes.
Bytes(bytes, from, len) == IF Len(bytes) < from + len THEN Absent ELSE SubSeq(bytes, from + 1, from + len)

VelocityAttitudeLen == 12
CartesianLen == 8

\* TeleopCommand::pack: velocity and attitude, then the arm, Standard whatever was negotiated.
PackCommand(c) ==
  PackVelocityAttitude(c.va, "Standard")
    \o PackCartesian([xyz |-> <<c.arm_x * 1000, 0, c.arm_z * 1000>>, gripper |-> c.claw], "Standard")

\* TeleopCommand::unpack, of either end.
UnpackCommand(bytes) ==
  LET va == Bytes(bytes, 0, VelocityAttitudeLen)
      arm == Bytes(bytes, VelocityAttitudeLen, CartesianLen)
  IN  IF va = Absent \/ arm = Absent THEN Absent
      ELSE LET c == UnpackCartesian(arm, "Standard")
           IN  [va |-> UnpackVelocityAttitude(va, "Standard"),
                arm_x |-> c.xyz[1] \div 1000, arm_z |-> c.xyz[3] \div 1000, claw |-> c.gripper]

TelemetryHeaderLen == 7

\* TelemetryData::pack: the battery in one byte, then hundredths of a degree, each cast to i16,
\* which saturates.  No telemetry yet is an empty field list.
PackTelemetry(t) ==
  IF t = Absent THEN <<>>
  ELSE <<t.battery>> \o Fields([i \in 1..Len(t.angles) |-> Quantized(t.angles[i], 10, "Standard")], 2)

\* TelemetryData::unpack: angles are roll, pitch, yaw and the motors'.
UnpackTelemetry(bytes) ==
  IF Len(bytes) < TelemetryHeaderLen \/ (Len(bytes) - TelemetryHeaderLen) % 2 # 0 THEN Absent
  ELSE [battery |-> bytes[1], angles |-> [i \in 1..((Len(bytes) - 1) \div 2) |-> bytes[2 * i] * 10]]

\* encode_channel_b_frame and the tag; decode_channel_b_frame after untag.  The wire's category
\* is a byte: what is neither Telemetry nor Haptic decodes as Command.
CategoryByte(category) == CASE category = "Command" -> 0 [] category = "Telemetry" -> 1 [] category = "Haptic" -> 2
CategoryOf(byte) == CASE byte = 1 -> "Telemetry" [] byte = 2 -> "Haptic" [] OTHER -> "Command"
EncodeFrame(category, fields) == [category |-> CategoryByte(category), fields |-> fields]
DecodeFrame(frame) == [category |-> CategoryOf(frame.category), fields |-> frame.fields]
TagChannelB == 1
Tag(payload) == [tag |-> TagChannelB, payload |-> payload]

\* What the robot's on_datagram does with a datagram: the command in it, if it is one.
CommandIn(datagram) ==
  IF datagram.tag # TagChannelB \/ DecodeFrame(datagram.payload).category # "Command" THEN Absent
  ELSE UnpackCommand(DecodeFrame(datagram.payload).fields)

\* How the console's on_datagram reads a telemetry report.
TelemetryIn(datagram) ==
  IF datagram.tag # TagChannelB \/ DecodeFrame(datagram.payload).category # "Telemetry" THEN Absent
  ELSE UnpackTelemetry(DecodeFrame(datagram.payload).fields)
=============================================================================

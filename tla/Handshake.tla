------------------------------ MODULE Handshake ------------------------------
(***************************************************************************)
(* What the two ends tell each other before they operate, and how each     *)
(* reads it: HELLO and its negotiation (hello.rs, hello_handler.rs),       *)
(* SESSION_DESCRIBE and SESSION_ACCEPT (session_handler.rs of both ends),  *)
(* the XGO profile (xgo_profile.rs) and the simulated sensors' descriptors *)
(* (sim_sensor.rs).                                                        *)
(*                                                                         *)
(* Bit masks are sets, enumerations are their FlatBuffers ordinals on the  *)
(* wire, and lengths, scales and angles are integers in thousandths.       *)
(***************************************************************************)
EXTENDS ChannelB, FiniteSets

-----------------------------------------------------------------------------
(* HELLO.                                                                  *)

\* local_hello_capabilities, of either end: a build speaks one version and one task class.
LocalHello(major, task_class, forwarding) ==
  [major |-> major, minor |-> 0, capabilities |-> IF forwarding THEN {"TopicForwarding"} ELSE {},
   task_classes |-> {task_class}, tiers |-> {"Standard"}, rate_hz |-> 50]

\* The version travels as one u16.
EncodeHello(h) == [version |-> h.major * 256 + h.minor, capabilities |-> h.capabilities,
                   task_classes |-> h.task_classes, tiers |-> h.tiers, rate_hz |-> h.rate_hz]
DecodeHello(w) == [major |-> w.version \div 256, minor |-> w.version % 256, capabilities |-> w.capabilities,
                   task_classes |-> w.task_classes, tiers |-> w.tiers, rate_hz |-> w.rate_hz]

\* Only a different major version is refused: two ends may share no task class at all.
Negotiate(local, peer) ==
  IF local.major # peer.major THEN Absent
  ELSE [major |-> local.major, minor |-> Lesser(local.minor, peer.minor),
        capabilities |-> local.capabilities \cap peer.capabilities,
        task_classes |-> local.task_classes \cap peer.task_classes,
        tiers |-> local.tiers \cap peer.tiers, rate_hz |-> Lesser(local.rate_hz, peer.rate_hz)]

-----------------------------------------------------------------------------
(* Enumerations on the wire.  A value the reader does not know reads as    *)
(* the first one.                                                          *)

Shapes == <<"Kinematic", "VelocityAttitude", "CartesianEndEffector">>
BaseTypes == <<"Stationary", "WheeledStandard", "WheeledHolonomic", "BipedLegs", "QuadrupedLegs", "Other">>
Codecs == <<"H265", "Av1", "H264">>
Ordinal(names, v) == CHOOSE i \in 1..Len(names) : names[i] = v
Named(names, i) == IF i \in 1..Len(names) THEN names[i] ELSE names[1]

-----------------------------------------------------------------------------
(* The robot's profile.                                                    *)

Joint(lo, hi, region) ==
  [min_limit |-> lo, max_limit |-> hi, max_velocity |-> 600, has_torque_sensing |-> FALSE, region_id |-> region]
Region(id, name, start, shape) ==
  [region_id |-> id, name |-> name, joint_start |-> start, joint_count |-> 3,
   has_force_torque_sensor |-> FALSE, command_shape |-> shape]

LegRanges == <<<<-65, 73>>, <<-66, 93>>, <<-31, 31>>>>
LegNames == <<"leg_front_left", "leg_front_right", "leg_rear_right", "leg_rear_left">>
ArmRegionId == 4

\* xgo_lite_v2_profile: four legs of three joints that share one velocity, and an arm.
XgoProfile ==
  [dof_count |-> 15, base_type |-> "QuadrupedLegs",
   joints |-> [i \in 1..12 |-> LET r == LegRanges[((i - 1) % 3) + 1] IN Joint(r[1], r[2], (i - 1) \div 3)]
                \o [i \in 1..3 |-> Joint(-90, 90, ArmRegionId)],
   regions |-> [i \in 1..4 |-> Region(i - 1, LegNames[i], 3 * (i - 1), "VelocityAttitude")]
                 \o <<Region(ArmRegionId, "arm", 12, "CartesianEndEffector")>>]

XgoCamera ==
  [camera_id |-> 0, label |-> "front", codec |-> "H264", resolution |-> <<640, 480>>, max_fps |-> 30,
   bitrate_kbps |-> <<500, 4000>>]

\* profile_hash: a digest of every field.  Collisions are left out: the digest is the fields.
ProfileHash(p) == <<p.dof_count, p.base_type, p.joints, p.regions>>

-----------------------------------------------------------------------------
(* Sensor descriptors.                                                     *)

PointsFormat(scale, intensity, doppler, snr) ==
  [kind |-> "Points", scale |-> scale, intensity |-> intensity, doppler |-> doppler, snr |-> snr]
RangeFormat(beams, columns, scale, intensity, elevations) ==
  [kind |-> "RangeImage", beams |-> beams, columns |-> columns, scale |-> scale, intensity |-> intensity,
   elevations |-> elevations]
DepthFormatOf(width, height, segment, f) ==
  [kind |-> "Depth", width |-> width, height |-> height, segment_width |-> segment, fx |-> f, fy |-> f]

\* SensorEncoding and SensorDescriptor.  A Doppler scale that is there is not zero.
SensorEncodings ==
  [kind : {"Points"}, scale : Nat, intensity : BOOLEAN, doppler : (Nat \ {0}) \cup {Absent}, snr : BOOLEAN]
    \cup [kind : {"RangeImage"}, beams : Nat, columns : Nat, scale : Nat, intensity : BOOLEAN, elevations : Nat]
    \cup [kind : {"Depth"}, width : Nat, height : Nat, segment_width : Nat, fx : Nat, fy : Nat]
SensorDescriptors ==
  [sensor_id : 0..255, label : {"cloud", "lidar", "radar", "depth"}, encoding : SensorEncodings, max_hz : Nat,
   max_bitrate_kbps : Nat, mount : Nat \X Nat \X Nat]

\* SimSensorKind::descriptor.  The elevations are counted, not listed.
SimDescriptor(kind, id) ==
  LET rated == CASE kind = "cloud" -> <<PointsFormat(10, TRUE, Absent, FALSE), 10, 8000>>
                 [] kind = "lidar" -> <<RangeFormat(64, 1024, 2, TRUE, 64), 10, 16000>>
                 [] kind = "radar" -> <<PointsFormat(10, FALSE, 10, TRUE), 20, 500>>
                 [] kind = "depth" -> <<DepthFormatOf(320, 240, Lesser(32, 320), 277128), 15, 19000>>
  IN  [sensor_id |-> id, label |-> kind, encoding |-> rated[1], max_hz |-> rated[2], max_bitrate_kbps |-> rated[3],
       mount |-> <<0, 0, 500>>]

\* encode_sensor: an absent Doppler scale is written as zero, like any other absent field.
EncodeSensor(s) ==
  [s EXCEPT !.encoding = IF @.kind = "Points" /\ @.doppler = Absent THEN [@ EXCEPT !.doppler = 0] ELSE @]

\* element_size and element_count; point sets have no fixed count.
ElementSize(e) ==
  CASE e.kind = "Points" -> 6 + (IF e.intensity THEN 1 ELSE 0) + (IF e.doppler = Absent THEN 0 ELSE 2) + (IF e.snr THEN 1 ELSE 0)
    [] e.kind = "RangeImage" -> e.beams * (IF e.intensity THEN 3 ELSE 2)
    [] e.kind = "Depth" -> e.segment_width * 2
ElementCount(e) ==
  CASE e.kind = "Points" -> 0
    [] e.kind = "RangeImage" -> e.columns
    [] e.kind = "Depth" -> e.height * ((e.width + e.segment_width - 1) \div e.segment_width)

DefaultSlicePayload == 1100

\* slice_count succeeds: an element fits a slice and the slices fit a u16.
Sliceable(count, size) ==
  /\ size # 0 /\ DefaultSlicePayload \div size # 0
  /\ LET per == DefaultSlicePayload \div size IN (count + per - 1) \div per <= 65535

\* SensorDescriptor::validate.
ValidSensor(s) ==
  LET e == s.encoding IN
  /\ s.max_hz # 0
  /\ CASE e.kind = "Points" -> e.scale > 0 /\ (e.doppler # Absent => e.doppler > 0)
       [] e.kind = "RangeImage" -> e.beams # 0 /\ e.columns # 0 /\ e.scale > 0 /\ e.elevations = e.beams
       [] e.kind = "Depth" -> /\ e.width # 0 /\ e.height # 0 /\ e.segment_width \in 1..e.width
                              /\ e.fx > 0 /\ e.fy > 0
  /\ Sliceable(ElementCount(e), ElementSize(e))

\* decode_sensor without its special case: zero is read as a scale of zero.
DecodeSensorAsWritten(w) == IF ValidSensor(w) THEN w ELSE Absent

\* decode_sensor: a zero Doppler scale reads as absent, and what does not validate is dropped.
DecodeSensor(w) ==
  LET s == [w EXCEPT !.encoding = IF @.kind = "Points" /\ @.doppler = 0 THEN [@ EXCEPT !.doppler = Absent] ELSE @]
  IN  IF ValidSensor(s) THEN s ELSE Absent

-----------------------------------------------------------------------------
(* SESSION_DESCRIBE and SESSION_ACCEPT.                                    *)

\* What has enumerations, as the robot writes it and as the console reads it.
EncodeRegion(g) == [g EXCEPT !.command_shape = Ordinal(Shapes, @)]
EncodeCamera(c) == [c EXCEPT !.codec = Ordinal(Codecs, @)]
EncodeProfile(p) ==
  [p EXCEPT !.base_type = Ordinal(BaseTypes, @), !.regions = [i \in 1..Len(@) |-> EncodeRegion(@[i])]]
DecodeRegion(w) == [w EXCEPT !.command_shape = Named(Shapes, @)]
DecodeCamera(w) == [w EXCEPT !.codec = Named(Codecs, @)]
DecodeProfile(w) ==
  [w EXCEPT !.base_type = Named(BaseTypes, @), !.regions = [i \in 1..Len(@) |-> DecodeRegion(@[i])]]

\* encode_session_describe.
EncodeDescribe(robot_id, profile, cameras, sensors) ==
  [robot_id |-> robot_id, profile_hash |-> ProfileHash(profile), profile |-> EncodeProfile(profile),
   cameras |-> [i \in 1..Len(cameras) |-> EncodeCamera(cameras[i])],
   sensors |-> [i \in 1..Len(sensors) |-> EncodeSensor(sensors[i])]]

\* filter_map: the values of s that are there.
Present(s) ==
  LET upTo[n \in 0..Len(s)] == IF n = 0 THEN <<>> ELSE IF s[n] = Absent THEN upTo[n - 1] ELSE Append(upTo[n - 1], s[n])
  IN  upTo[Len(s)]

\* decode_session_describe.
DecodeDescribe(w) ==
  [robot_id |-> w.robot_id, profile_hash |-> w.profile_hash, profile |-> DecodeProfile(w.profile),
   cameras |-> [i \in 1..Len(w.cameras) |-> DecodeCamera(w.cameras[i])],
   sensors |-> Present([i \in 1..Len(w.sensors) |-> DecodeSensor(w.sensors[i])])]

\* encode_session_accept_full: everything the console understood, at the Standard tier.
EncodeAccept(info, cached) ==
  [profile_hash |-> info.profile_hash, cached |-> cached,
   selected_regions |-> [i \in 1..Len(info.profile.regions) |-> info.profile.regions[i].region_id],
   quantization |-> [category \in {"Command", "Telemetry", "Haptic"} |-> BytesPerField("Standard")],
   selected_cameras |-> [i \in 1..Len(info.cameras) |-> info.cameras[i].camera_id],
   selected_sensors |-> [i \in 1..Len(info.sensors) |-> info.sensors[i].sensor_id]]

\* decode_session_accept: the robot reads everything but the quantization.
DecodeAccept(w) == [f \in DOMAIN w \ {"quantization"} |-> w[f]]

\* check_and_record_profile: whether this profile was seen before, and the cache with it.
ProfileSeen(cache, info) == <<info.robot_id, info.profile_hash>> \in cache
RecordProfile(cache, info) == cache \cup {<<info.robot_id, info.profile_hash>>}
=============================================================================

--------------------------- MODULE OperatorInput ---------------------------
(***************************************************************************)
(* What the operator's hands do to the command the console holds:          *)
(* operator-console's keyboard map (input.rs), gamepad thread (gamepad.rs) *)
(* and the part of on_input (quic_client.rs) that changes last_command and *)
(* camera_controls.                                                        *)
(*                                                                         *)
(* Real numbers are integers, in thousandths; the arm is in millimetres.   *)
(* The four image controls are one, the brightness.                        *)
(***************************************************************************)
EXTENDS ChannelB, FiniteSets

\* A TeleopInput: its variant and its numbers, zero where it has none.
Input(kind, x, y) == [kind |-> kind, x |-> x, y |-> y]
Plain(kind) == Input(kind, 0, 0)

\* InputReader::next: the keys that end up in a command, an action or the camera.
KeyInput ==
  [w |-> Input("Move", 15000, 0), s |-> Input("Move", -15000, 0), a |-> Input("Move", 0, 12000),
   d |-> Input("Move", 0, -12000), space |-> Input("Move", 0, 0),
   left |-> Input("Turn", 60000, 0), right |-> Input("Turn", -60000, 0),
   up |-> Input("Pitch", -2000, 0), down |-> Input("Pitch", 2000, 0),
   open_bracket |-> Input("Roll", -2000, 0), bracket |-> Input("Roll", 2000, 0),
   comma |-> Input("Yaw", -2000, 0), period |-> Input("Yaw", 2000, 0), zero |-> Plain("AttitudeReset"),
   B |-> Input("Camera", 100, 0), b |-> Input("Camera", -100, 0), nine |-> Plain("CameraReset"),
   one |-> Input("Action", 2, 0), two |-> Input("Action", 12, 0),
   i |-> Input("Arm", 0, 10), k |-> Input("Arm", 0, -10), j |-> Input("Arm", -10, 0), l |-> Input("Arm", 10, 0),
   u |-> Input("Claw", -20, 0), o |-> Input("Claw", 20, 0),
   e |-> Plain("Estop"), c |-> Plain("EstopClear"), r |-> Plain("ToggleRecording")]

-----------------------------------------------------------------------------
(* The gamepad thread.                                                     *)

\* PadState: the sticks' deflections, the buttons held, the two latched modes.
NewPad == [left |-> <<0, 0>>, right |-> <<0, 0>>, held |-> {}, mode |-> "Turn", fine |-> FALSE]

ArmStep(pad) == IF pad.fine THEN 2 ELSE 10
DPadNudge(pad, button) ==
  CASE button = "DPadUp" -> Input("Arm", 0, ArmStep(pad)) [] button = "DPadDown" -> Input("Arm", 0, -ArmStep(pad))
    [] button = "DPadLeft" -> Input("Arm", -ArmStep(pad), 0) [] button = "DPadRight" -> Input("Arm", ArmStep(pad), 0)
DPad == {"DPadUp", "DPadDown", "DPadLeft", "DPadRight"}
ClawNudge(button) == Input("Claw", IF button = "LB" THEN -8 ELSE 8, 0)
\* Buttons whose release matters; the others only have a press.
Holdable == DPad \cup {"LB", "RB", "L3", "R3"}

\* Buttons that send one input and change nothing.
OneShot == [South |-> "NeutralPose", East |-> "AttitudeReset", West |-> "CameraReset",
            Start |-> "ToggleRecording", Select |-> "EstopToggle"]

\* L3 latches yaw and R3 roll, or back to turn; into the other one held it is the clear gesture.
Latched(pad, button) ==
  LET mode == IF button = "L3" THEN "Yaw" ELSE "Roll"
  IN  IF {"L3", "R3"} \subseteq pad.held THEN pad ELSE [pad EXCEPT !.mode = IF @ = mode THEN "Turn" ELSE mode]

\* handle_button_press: the state after it.
Pressed(pad, button) ==
  LET held == IF button \in Holdable THEN [pad EXCEPT !.held = @ \cup {button}] ELSE pad
  IN  CASE button = "LT" -> [pad EXCEPT !.fine = ~@]
        [] button \in {"L3", "R3"} -> Latched(held, button)
        [] OTHER -> held

\* And what it sends; check_estop_combo: both bumpers are an E-Stop, besides their nudge.
PressSends(pad, button) ==
  LET held == Pressed(pad, button).held
  IN  CASE button \in DOMAIN OneShot -> <<Plain(OneShot[button])>>
        [] button \in {"LB", "RB"} -> <<ClawNudge(button)>> \o (IF {"LB", "RB"} \subseteq held THEN <<Plain("Estop")>> ELSE <<>>)
        [] button \in {"L3", "R3"} -> IF {"L3", "R3"} \subseteq held THEN <<Plain("EstopClear")>> ELSE <<>>
        [] button \in DPad -> <<DPadNudge(pad, button)>>
        [] OTHER -> <<>>

Released(pad, button) == [pad EXCEPT !.held = @ \ {button}]

StickDeadzone == 150
Deflected(v) == v > StickDeadzone \/ v < -StickDeadzone
Scaled(v, scale) == IF Deflected(v) THEN (v * scale) \div 1000 ELSE 0

\* send_refresh: every REFRESH_INTERVAL, what is deflected or held, again.
RefreshSends(pad) ==
  LET When(condition, input) == IF condition THEN <<input>> ELSE <<>>
      x == pad.right[1]
      turned == CASE pad.mode = "Turn" -> Input("Turn", -Scaled(x, 60000), 0)
                  [] pad.mode = "Roll" -> Input("Roll", Scaled(x, 600), 0)
                  [] pad.mode = "Yaw" -> Input("Yaw", -Scaled(x, 600), 0)
  IN  When(Deflected(pad.left[1]) \/ Deflected(pad.left[2]),
           Input("Move", Scaled(pad.left[2], 15000), -Scaled(pad.left[1], 12000)))
      \o When(Deflected(x), turned)
      \o When(Deflected(pad.right[2]), Input("Pitch", -Scaled(pad.right[2], 600), 0))
      \o When("LB" \in pad.held, ClawNudge("LB")) \o When("RB" \in pad.held, ClawNudge("RB"))
      \o FlattenSeq([n \in 1..4 |-> LET button == <<"DPadUp", "DPadDown", "DPadLeft", "DPadRight">>[n]
                                    IN  When(button \in pad.held, DPadNudge(pad, button))])

-----------------------------------------------------------------------------
(* on_input: the held command.                                             *)

ClawNeutral == 128
NeutralCommand == [va |-> <<0, 0, 0, 0, 0, 0>>, arm_x |-> 0, arm_z |-> 0, claw |-> ClawNeutral]

\* min_safe_arm_x: the line through the two points where the arm touches the screen, over z in 0..35.
MinSafeArmX(arm_z) == Rounded(70 * 35 - 40 * Bounded(arm_z, 0, 35), 35)

\* ArmNudge with the keep-out only for a nudge along x.
ArmNudgedAlongX(c, dx, dz) ==
  LET x == Bounded(c.arm_x + dx, -80, 155)
      z == Bounded(c.arm_z + dz, -95, 155)
  IN  [c EXCEPT !.arm_z = z, !.arm_x = IF dx = 0 THEN x ELSE Lesser(155, Greater(x, MinSafeArmX(z)))]
\* ArmNudge: both clamps, then out of the screen's way at the new height.
ArmNudged(c, dx, dz) ==
  LET z == Bounded(c.arm_z + dz, -95, 155)
  IN  [c EXCEPT !.arm_z = z, !.arm_x = Lesser(155, Greater(Bounded(@ + dx, -80, 155), MinSafeArmX(z)))]

Leveled(c) == [c EXCEPT !.va = SubSeq(@, 1, 3) \o <<0, 0, 0>>]
Stilled(c) == [c EXCEPT !.va = <<0, 0, 0>> \o SubSeq(@, 4, 6)]

\* last_command after an input.
HeldAfter(c, input) ==
  CASE input.kind = "Move" -> [c EXCEPT !.va[1] = input.x, !.va[2] = input.y]
    [] input.kind = "Turn" -> [c EXCEPT !.va[3] = input.x]
    [] input.kind = "Roll" -> [c EXCEPT !.va[4] = Bounded(@ + input.x, -20000, 20000)]
    [] input.kind = "Pitch" -> [c EXCEPT !.va[5] = Bounded(@ + input.x, -10000, 10000)]
    [] input.kind = "Yaw" -> [c EXCEPT !.va[6] = Bounded(@ + input.x, -12000, 12000)]
    [] input.kind = "Arm" -> ArmNudged(c, input.x, input.y)
    [] input.kind = "Claw" -> [c EXCEPT !.claw = Bounded(@ + input.x, 0, 255)]
    [] input.kind = "AttitudeReset" -> Leveled(c)
    [] input.kind = "NeutralPose" -> Leveled([c EXCEPT !.arm_x = 0, !.arm_z = 0, !.claw = ClawNeutral])
    [] OTHER -> c

\* camera_controls after an input: CameraNudge and CameraReset.
LevelAfter(level, input) ==
  CASE input.kind = "Camera" -> Bounded(level + input.x, -1000, 1000)
    [] input.kind = "CameraReset" -> 0
    [] OTHER -> level
=============================================================================

------------------------------ MODULE MCSession ------------------------------
(* Session on small instances: each workload exercises one concern.         *)
EXTENDS Session

Build(robot_major, task_class, robot_forwards, console_forwards, filmed, sensors) ==
  [robot_major |-> robot_major, task_class |-> task_class, robot_forwards |-> robot_forwards,
   console_forwards |-> console_forwards, camera |-> filmed, sensors |-> sensors]

Bare == Build(1, "D", FALSE, FALSE, FALSE, <<>>)
\* Every kind of sensor, and one whose descriptor this console refuses.
Rich == Build(1, "D", TRUE, TRUE, TRUE,
              <<SimDescriptor("cloud", 0), SimDescriptor("lidar", 1), SimDescriptor("radar", 2), SimDescriptor("depth", 3),
                [SimDescriptor("lidar", 4) EXCEPT !.encoding.elevations = 63]>>)
Other == Build(1, "B", TRUE, FALSE, FALSE, <<SimDescriptor("cloud", 0)>>)
Newer2 == Build(2, "D", TRUE, TRUE, FALSE, <<>>)
Filmed == Build(1, "D", FALSE, FALSE, TRUE, <<>>)

Idle == [f \in Faults |-> 0]

Reports == { [battery |-> 87, angles |-> <<1234, -90006, 400000, -400000>>], [battery |-> 0, angles |-> <<5, -5, 14>>] }

Work(build, host, category, keys, buttons, sticks, budget) ==
  [build |-> build, host |-> host, category |-> category, keys |-> keys, buttons |-> buttons, sticks |-> sticks,
   telemetry |-> Reports, budget |-> budget]
Quiet(build, budget) == Work(build, "none", "None", {}, {}, {}, budget)

MCWorkloads ==
  { \* Connecting again, through every fault.
    Quiet(Bare, [Idle EXCEPT !.outages = 1, !.crashes = 1, !.shutdowns = 1, !.strays = 1, !.cancels = 2, !.swaps = 1, !.hellos = 1, !.restarts = 2]),
    Quiet(Rich, [Idle EXCEPT !.outages = 1, !.swaps = 1]),
    Quiet(Other, [Idle EXCEPT !.outages = 1]),
    Quiet(Newer2, [Idle EXCEPT !.outages = 1]),
    \* The camera, nudged while it restarts.
    Work(Filmed, "none", "None", {"B", "b"}, {"West"}, {}, [Idle EXCEPT !.keys = 2, !.pad = 1, !.exits = 2]),
    \* Triggers and camera controls, recorded by the robot.
    Work(Bare, "robot", "ActionTriggerC", {"one", "B"}, {}, {}, [Idle EXCEPT !.keys = 2]),
    \* Commands: keys and the gamepad.
    Work(Bare, "console", "ChannelBCommand", {"i", "k", "r"}, {}, {}, [Idle EXCEPT !.keys = 2, !.ticks = 1, !.losses = 1]),
    Work(Bare, "none", "None", {"i"}, {"LB", "RB", "DPadUp", "South"}, {}, [Idle EXCEPT !.pad = 2, !.keys = 1, !.refreshes = 1, !.ticks = 1]),
    Work(Bare, "none", "None", {}, {"L3", "R3", "LT"}, {<<0, 0>>, <<1000, -500>>}, [Idle EXCEPT !.pad = 2, !.refreshes = 1, !.ticks = 1]),
    \* The recorder at its limits, through crashes, shutdowns and a clock set back.
    Work(Bare, "robot", "ChannelBTelemetry", {}, {}, {}, [Idle EXCEPT !.ticks = 3, !.shutdowns = 1]),
    Work(Bare, "robot", "ChannelBTelemetry", {}, {}, {}, [Idle EXCEPT !.ticks = 2, !.crashes = 1, !.restarts = 1]),
    Work(Bare, "robot", "ChannelBTelemetry", {}, {}, {}, [Idle EXCEPT !.ticks = 2, !.reports = 1, !.stepbacks = 1]),
    Work(Bare, "robot", "ChannelBTelemetry", {}, {}, {},
         [Idle EXCEPT !.ticks = 2, !.crashes = 2, !.restarts = 1, !.stepbacks = 1]),
    Work(Bare, "robot", "ChannelBCommand", {"l"}, {}, {}, [Idle EXCEPT !.keys = 1, !.ticks = 2]) }
=============================================================================

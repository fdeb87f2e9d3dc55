------------------------------ MODULE XgoBridge ------------------------------
(***************************************************************************)
(* xgo_bridge.py, the process between robot-edge and the XGO's vendor SDK, *)
(* and the XGO itself as far as it uses it.                                *)
(*                                                                         *)
(* The legs are velocity-commanded: they keep the last velocity until told *)
(* otherwise, whether or not the process that set it still lives.  A       *)
(* velocity is abstracted to who asked for a motion, or Still for zero.    *)
(*                                                                         *)
(* A command is one handler's batch of JSON lines: "Motion" is the Move,   *)
(* Turn, Attitude, Arm and Claw lines of one Teleop command (or the Move   *)
(* and Turn of one autonomy tick), of which the leg lines and the arm line *)
(* can be withheld.  Heartbeat also stands for Query, which the session    *)
(* uses for telemetry only.  The vendor calls are taken to succeed.        *)
(***************************************************************************)
EXTENDS Integers, Sequences, SequencesExt

CONSTANT BridgeWatchdog   \* --watchdog-ms of xgo_bridge.py, in time units

ASSUME BridgeWatchdogAssumption == BridgeWatchdog \in Nat \ {0}

Velocity == {"Still", "Operator", "Autonomy"}
Withheld == "Withheld"

Motion(legs, arm) == [op |-> "Motion", legs |-> legs, arm |-> arm]
Plain(op) == [op |-> op, legs |-> Withheld, arm |-> FALSE]

\* FinalStop is the Stop whose acknowledgement shut_down waits for.
BridgeCommand ==
  [op: {"Motion"}, legs: Velocity \cup {Withheld}, arm: BOOLEAN]
  \cup {Plain(op) : op \in {"Action", "Stop", "FinalStop", "Estop", "EstopClear", "Heartbeat"}}

-----------------------------------------------------------------------------
(* Bridge: its process (alive), its latch and the age of last_command_time.*)

BridgeType == [alive: BOOLEAN, estopped: BOOLEAN, silence: 0..BridgeWatchdog]

NoProcess == [alive |-> FALSE, estopped |-> FALSE, silence |-> 0]
NewBridge == [alive |-> TRUE, estopped |-> FALSE, silence |-> 0]

\* handle_line: the latch after a command.
LatchAfter(estopped, cmd) ==
  CASE cmd.op = "Estop" -> TRUE
    [] cmd.op = "EstopClear" -> FALSE
    [] OTHER -> estopped

\* Mutant: motion is dispatched whether or not the bridge is latched.
VelocityAfterUnguarded(estopped, velocity, cmd) ==
  CASE cmd.op \in {"Estop", "Stop", "FinalStop"} -> "Still"
    [] cmd.op = "Motion" /\ cmd.legs # Withheld -> cmd.legs
    [] OTHER -> velocity

\* handle_line, _dispatch_motion, backend.stop(): the velocity after a command.
VelocityAfter(estopped, velocity, cmd) ==
  CASE cmd.op \in {"Estop", "Stop", "FinalStop"} -> "Still"
    [] cmd.op = "Motion" /\ ~estopped /\ cmd.legs # Withheld -> cmd.legs
    [] OTHER -> velocity

HandleLine(b, cmd) == [b EXCEPT !.silence = 0, !.estopped = LatchAfter(b.estopped, cmd)]

\* _watchdog_loop: one poll that finds the bridge silent for too long.
WatchdogTrips(b) == b.alive /\ ~b.estopped /\ b.silence >= BridgeWatchdog

\* The latch and velocity once a whole sequence of commands has been handled.
Outcome(estopped, velocity, cmds) ==
  LET run[n \in 0..Len(cmds)] ==
        IF n = 0 THEN [estopped |-> estopped, velocity |-> velocity]
        ELSE [estopped |-> LatchAfter(run[n - 1].estopped, cmds[n]),
              velocity |-> VelocityAfter(run[n - 1].estopped, run[n - 1].velocity, cmds[n])]
  IN  run[Len(cmds)]
=============================================================================

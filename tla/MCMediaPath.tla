----------------------------- MODULE MCMediaPath -----------------------------
(* Small instances of MediaPath for TLC. *)
EXTENDS MediaPath, TLC

MCKind == (1 :> "RangeImage") @@ (2 :> "Points") @@ (3 :> "Depth")

\* In fine units, with Scale 3 and MaxUnit 2: out of range on both sides, on the
\* edge, none, and inside.
MCReadings == <<0, 5, -8, 7, 2, -10, 8, 3>>

NoVideo == [gop |-> <<"IDR">>, nals |-> 0, restarts |-> FALSE, backend |-> "ffplay"]
NoSensors == [fitted |-> {}, frames |-> 0, policy |-> "Cut"]
Steady == [restarts |-> FALSE, drops |-> 0]

MCWorkloads ==
  {NoSensors @@ Steady @@ [gop |-> <<"SPS", "IDR", "P", "P">>, nals |-> 7, backend |-> "ffplay"],
   NoSensors @@ Steady @@ [gop |-> <<"IDR", "P", "P", "P">>, nals |-> 4, backend |-> "ffplay"],
   NoSensors @@ Steady @@ [gop |-> <<"SPS", "IDR", "P", "P">>, nals |-> 5, backend |-> "native"],
   NoSensors @@ [gop |-> <<"PPS", "IDR", "P">>, nals |-> 3, backend |-> "ffplay",
                 restarts |-> TRUE, drops |-> 1],
   NoVideo @@ [fitted |-> {1, 2}, frames |-> 3, policy |-> "Cut", drops |-> 0],
   NoVideo @@ [fitted |-> {1, 3}, frames |-> 2, policy |-> "Finish", drops |-> 1],
   Steady @@ [gop |-> <<"SPS", "IDR", "P">>, nals |-> 3, backend |-> "ffplay",
              fitted |-> {2}, frames |-> 2, policy |-> "Cut"]}
==============================================================================

---------------------------- MODULE MCDataStreams ----------------------------
(* DataStreams on small instances: each workload exercises one concern.     *)
EXTENDS DataStreams

Work(samples, large, latest, versions, joins, drops, losses, congestion) ==
  [samples |-> samples, large |-> large, latest |-> latest, versions |-> versions,
   joins |-> joins, drops |-> drops, losses |-> losses, congestion |-> congestion]

None2 == [k \in {"map", "goal"} |-> 0]

MCWorkloads ==
  { Work([map |-> 3, goal |-> 0], TRUE, None2, 0, 0, 0, 0, FALSE),      \* one key, both lanes
    Work([map |-> 1, goal |-> 1], TRUE, None2, 0, 1, 0, 0, TRUE),       \* two keys, paused in between
    Work([map |-> 1, goal |-> 0], TRUE, [map |-> 0, goal |-> 2], 0, 0, 0, 1, TRUE),
    Work(None2, FALSE, [map |-> 2, goal |-> 2], 0, 0, 0, 1, FALSE),     \* two state topics
    Work(None2, FALSE, None2, 3, 0, 0, 0, TRUE),                        \* an object, thrice
    Work([map |-> 1, goal |-> 0], FALSE, None2, 2, 0, 0, 0, FALSE),     \* topic and bulk streams
    Work([map |-> 1, goal |-> 0], TRUE, None2, 1, 0, 1, 0, FALSE) }     \* a reconnect
=============================================================================

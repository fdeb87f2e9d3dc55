----------------------------- MODULE LatestWins -----------------------------
(***************************************************************************)
(* What latest-wins feeds promise: the versions of a feed are published in *)
(* order, and what is shown of it is always a version that was published,  *)
(* newer than all shown before it.  Versions may be skipped, none is shown *)
(* twice and none is shown after a newer one.  A new session starts over.  *)
(*                                                                         *)
(* The rule is stated for Channel B, the video sender, sensor frames and   *)
(* bulk objects; MediaPath and DataStreams implement it.                   *)
(***************************************************************************)
EXTENDS Integers

CONSTANT Feeds

VARIABLES
  published,   \* [Feeds -> the newest version published, or Nothing]
  shown        \* [Feeds -> the newest version shown, or Nothing]

Nothing == -1

vars == <<published, shown>>

Init == published = [f \in Feeds |-> Nothing] /\ shown = [f \in Feeds |-> Nothing]

Publish(f) == published' = [published EXCEPT ![f] = @ + 1] /\ UNCHANGED shown

Show(f) ==
  /\ \E v \in (shown[f] + 1)..published[f] : shown' = [shown EXCEPT ![f] = v]
  /\ UNCHANGED published

StartOver ==
  /\ published' = [f \in Feeds |-> Nothing]
  /\ shown' = [f \in Feeds |-> Nothing]

Next == StartOver \/ \E f \in Feeds : Publish(f) \/ Show(f)

Spec == Init /\ [][Next]_vars

=============================================================================

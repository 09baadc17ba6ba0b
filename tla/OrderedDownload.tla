-------------------------- MODULE OrderedDownload --------------------------
(***************************************************************************)
(* What the player is promised: the segments named by the contour arrive   *)
(* one after the other, each once, at most two requested segments are      *)
(* missing at any time, and VLC gets a segment only after it has arrived.  *)
(* ControlLoop implements this specification.                              *)
(***************************************************************************)
EXTENDS Integers

CONSTANT LastSeg        \* the stop segment; segment 0 is the init segment

VARIABLES
  requested,            \* end of the contour, -1: no segment
  arrived,              \* segments 0..arrived have been downloaded
  given                 \* segments 0..given have been given to VLC

orderedVars == <<requested, arrived, given>>

Init == requested = -1 /\ arrived = -1 /\ given = -1

\* The contour is extended.
Request ==
  /\ requested' \in (requested + 1)..LastSeg
  /\ requested' <= arrived + 2
  /\ UNCHANGED <<arrived, given>>

\* The next segment of the contour is complete.
Arrive ==
  /\ arrived < requested
  /\ arrived' = arrived + 1
  /\ UNCHANGED <<requested, given>>

\* VLC takes some of what has arrived.
Give ==
  /\ given' \in (given + 1)..arrived
  /\ UNCHANGED <<requested, arrived>>

Next == Request \/ Arrive \/ Give

Spec == Init /\ [][Next]_orderedVars
=============================================================================

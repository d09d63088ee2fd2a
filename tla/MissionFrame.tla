---------------------------- MODULE MissionFrame ----------------------------
(***************************************************************************)
(* What the estimator promises its readers: poses are published only in a  *)
(* mission frame, and that frame - a starting heading and a starting depth *)
(* - is chosen once and never moves (kalman.cpp, "Frame conventions").     *)
(***************************************************************************)
CONSTANTS Headings, Origins,  \* a frame is a pair <<heading, origin>>
          Poses,
          NoAnchor, NoPose    \* not a frame, not a pose: nothing chosen yet

VARIABLES anchor, pose
vars == <<anchor, pose>>

Init == anchor = NoAnchor /\ pose = NoPose

\* The frame is chosen; the message that completes it may already be answered.
Anchor ==
  /\ anchor = NoAnchor
  /\ anchor' \in Headings \X Origins
  /\ pose' \in Poses \cup {NoPose}

Publish ==
  /\ anchor # NoAnchor
  /\ pose' \in Poses
  /\ UNCHANGED anchor

Next == Anchor \/ Publish

Spec == Init /\ [][Next]_vars
=============================================================================

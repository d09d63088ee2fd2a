---------------------------- MODULE FrameStream ----------------------------
(***************************************************************************)
(* What a camera node promises the display ("Drop oldest frame if queue is *)
(* full (never accumulate latency)"): of the frames it accepts some are    *)
(* lost, at most one by each step, and the others are shown, each once and *)
(* in their order, with at most Bound frames on their way.  A lost frame   *)
(* never comes back, and nothing is shown that was not accepted.           *)
(***************************************************************************)
EXTENDS Integers, FiniteSets

CONSTANTS Frames,  \* stamps
          Bound,
          None     \* not a stamp: nothing accepted, or nothing shown

VARIABLES newest,     \* the last frame accepted
          in_flight,  \* accepted, and neither lost nor shown
          shown       \* the last frame shown

vars == <<newest, in_flight, shown>>

Init == newest = None /\ in_flight = {} /\ shown = None

Accept ==
  \E frame \in Frames, lost \in in_flight \cup {None} :
    /\ newest # None => newest < frame
    /\ newest' = frame
    /\ in_flight' = (in_flight \ {lost}) \cup {frame}
    /\ Cardinality(in_flight') <= Bound
    /\ UNCHANGED shown

Lose ==
  \E lost \in in_flight :
    /\ in_flight' = in_flight \ {lost}
    /\ UNCHANGED <<newest, shown>>

Show ==
  \E frame \in in_flight :
    /\ \A other \in in_flight : frame <= other
    /\ shown' = frame
    /\ in_flight' = in_flight \ {frame}
    /\ UNCHANGED newest

Next == Accept \/ Lose \/ Show

Spec == Init /\ [][Next]_vars
=============================================================================

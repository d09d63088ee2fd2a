---------------------------- MODULE MCCameraFeed ----------------------------
(* CameraFeed with frames at up to MaxTime instants, a rate limit that rejects *)
(* some of them, the camera's queue bound and a topic that overflows.  Images  *)
(* of 4 by 2 pixels are shrunk to 2 by 1 in the middle of a network input of   *)
(* 2 by 2.                                                                     *)
EXTENDS CameraFeed, TLC, SequencesExt

CONSTANT NaN

MCClassNames == <<"buoy", "gate">>

Candidate(x1, x2, conf, class_id, mask) ==
  [x1 |-> x1, y1 |-> 0, x2 |-> x2, y2 |-> 2, conf |-> conf, class_id |-> class_id,
   mask |-> mask]

\* cv::findContours in an image of two rows: pixels in neighbouring columns touch,
\* and a point on a straight line between its neighbours is left out.
Run(mask, x) ==
  LET columns == {p[1] : p \in mask}
  IN {p \in mask : x .. p[1] \subseteq columns /\ p[1] .. x \subseteq columns}
Corners(run) == {p \in run : ~({<<p[1] - 1, p[2]>>, <<p[1] + 1, p[2]>>} \subseteq run)}
MCfindContours ==
  [mask \in SUBSET Pixels |->
    {[pixels |-> run, points |-> Cardinality(Corners(run))] :
       run \in {Run(mask, p[1]) : p \in mask}}]

LeftHalf == (0 .. 1) \X (0 .. 1)

\* A buoy on the left; a gate with a stray pixel, a buoy whose mask its box cuts, and
\* one too faint; nothing; a box without a mask, of an unknown class; a mask of which
\* the box leaves two points, and a depth image that cannot be read; a tie of near and
\* far.
MCOutput0 ==
  <<<<Candidate(0, 1, 90, 0, LeftHalf)>>,
    <<Candidate(0, 2, 80, 1, LeftHalf \cup {<<3, 0>>}),
      Candidate(1, 2, 50, 0, Pixels),
      Candidate(0, 1, 40, 0, LeftHalf)>>,
    <<>>,
    <<Candidate(-1, 3, 70, 7, {})>>,
    <<Candidate(0, 1, 60, 1, {<<0, 0>>, <<1, 0>>, <<2, 0>>, <<2, 1>>})>>,
    <<Candidate(0, 2, 50, 0, {<<1, 0>>, <<2, 0>>, <<3, 0>>, <<2, 1>>})>>>>

Depths(a, b, c, d) ==
  [p \in Pixels |-> IF p[2] = 1 THEN b ELSE IF p[1] < 2 THEN a ELSE IF p[1] = 2 THEN c ELSE d]

MCDepthImage ==
  <<[encoding |-> "16UC1", mm |-> Depths(700, 0, 900, 900)],
    [encoding |-> "32FC1", mm |-> [Depths(0, 0, 800, 0) EXCEPT ![<<1, 0>>] = NaN,
                                                           ![<<0, 1>>] = 650]],
    [encoding |-> "16UC1", mm |-> Depths(1, 1, 1, 1)],
    [encoding |-> "16UC1", mm |-> Depths(0, 500, 0, 1200)],
    [encoding |-> "8UC1", mm |-> Depths(7, 7, 7, 7)],
    [encoding |-> "32FC1", mm |-> Depths(400, NaN, NaN, 900)]>>

\* nth_element against a sequence that has been sorted, over all depths of four
\* pixels.
ASSUME NthElementSorts ==
  \A depth \in [1 .. 4 -> 1 .. 3] : \A n \in 0 .. 3 :
    nth_element(1 .. 4, depth, n) = SortSeq(depth, <)[n + 1]
=============================================================================

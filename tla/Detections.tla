----------------------------- MODULE Detections -----------------------------
(***************************************************************************)
(* From the network's output to the message (front_camera_vision.cpp; the  *)
(* bottom camera has the same code): which candidates are kept, where      *)
(* their boxes are in the original image, which blob of the mask is the    *)
(* object, how far away it is, and what is published.                      *)
(*                                                                         *)
(* Pixels are whole, and so is the factor by which letterbox shrinks the   *)
(* image.  Mask arithmetic and contours are OpenCV's: a candidate comes    *)
(* with its mask in the original image, and findContours gives the         *)
(* external contours of a mask, each the pixels it encloses and the number *)
(* of its points.  Depths are in millimetres.                              *)
(***************************************************************************)
EXTENDS Integers, Sequences, FiniteSets

CONSTANTS Width, Height,    \* of the color image, and of the depth image aligned to it
          InputW, InputH,   \* of the network
          Shrink,           \* 1 / scale
          Threshold,        \* conf_threshold_, in per cent
          ClassNames,       \* class_names_
          findContours      \* cv::findContours, RETR_EXTERNAL, and what fillPoly fills

ASSUME LetterboxAssumption ==
  /\ {Width, Height, InputW, InputH, Shrink} \subseteq Nat \ {0}
  /\ Width <= Shrink * InputW /\ Height <= Shrink * InputH
  /\ Width = Shrink * InputW \/ Height = Shrink * InputH
  /\ Threshold \in Nat

Pixels == (0 .. Width - 1) \X (0 .. Height - 1)

\* letterbox: the image is centered, with the padding on both sides.
pad_x == (InputW - Width \div Shrink) \div 2
pad_y == (InputH - Height \div Shrink) \div 2

clamp(v, low, high) == IF v < low THEN low ELSE IF v > high THEN high ELSE v

Box(candidate) ==
  [x1 |-> clamp((candidate.x1 - pad_x) * Shrink, 0, Width),
   y1 |-> clamp((candidate.y1 - pad_y) * Shrink, 0, Height),
   x2 |-> clamp((candidate.x2 - pad_x) * Shrink, 0, Width),
   y2 |-> clamp((candidate.y2 - pad_y) * Shrink, 0, Height)]

Inside(box) == {p \in Pixels : /\ box.x1 <= p[1] /\ p[1] < box.x2
                               /\ box.y1 <= p[2] /\ p[2] < box.y2}

\* "Extract the largest external contour": the one with most points, of what the
\* box leaves of the mask.
NoPolygon == [pixels |-> {}, points |-> 0]
decode_mask_polygon(candidate) ==
  LET contours == findContours[candidate.mask \cap Inside(Box(candidate))]
  IN IF contours = {} THEN NoPolygon
     ELSE CHOOSE largest \in contours : \A c \in contours : c.points <= largest.points

\* "Sorted by confidence desc: once below threshold, the rest are too."
Kept(output0) ==
  {i \in DOMAIN output0 : \A j \in 1 .. i : output0[j].conf >= Threshold}

parse_segmentation_output(output0) ==
  [i \in Kept(output0) |->
    [box |-> Box(output0[i]), polygon |-> decode_mask_polygon(output0[i]),
     confidence |-> output0[i].conf, class_id |-> output0[i].class_id]]

-----------------------------------------------------------------------------
(* estimate_distance_m.                                                    *)

\* Dropouts are 0 in one encoding; not finite, 0 or negative in the other.
IsSample_Zero(mm) == mm \in Int
IsSample(mm) == mm \in Int /\ mm > 0

\* nth_element: the value with n others before it in order.
nth_element(samples, depth, n) ==
  CHOOSE mm \in {depth[p] : p \in samples} :
    /\ Cardinality({p \in samples : depth[p] < mm}) <= n
    /\ Cardinality({p \in samples : depth[p] <= mm}) > n

\* A polygon that cannot be filled leaves the box.
ObjectMask(det) ==
  Inside(det.box) \cap (IF det.polygon.points >= 3 THEN det.polygon.pixels ELSE Pixels)

Unknown == -1
estimate_distance_m(depth_image, det) ==
  LET samples == {p \in ObjectMask(det) : IsSample(depth_image.mm[p])}
  IN IF depth_image.encoding \notin {"16UC1", "32FC1"} \/ samples = {} THEN Unknown
     ELSE nth_element(samples, depth_image.mm, Cardinality(samples) \div 2)

-----------------------------------------------------------------------------
(* publish_detections.                                                     *)

\* Class ids count from 0.
class_name_for(class_id) ==
  IF class_id \in 0 .. Len(ClassNames) - 1 THEN ClassNames[class_id + 1] ELSE "unknown"

\* The message for a frame: what the network makes of it and its depth image.
DetectionArray(output0, depth_image, timestamp) ==
  LET detections == parse_segmentation_output(output0)
  IN [stamp |-> timestamp,
      detections |->
        [i \in DOMAIN detections |->
          [object_class |-> class_name_for(detections[i].class_id),
           confidence |-> detections[i].confidence,
           distance |-> estimate_distance_m(depth_image, detections[i]),
           bounding_box |-> detections[i].box,
           mask |-> detections[i].polygon]]]
=============================================================================

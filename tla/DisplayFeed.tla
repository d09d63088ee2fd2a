----------------------------- MODULE DisplayFeed -----------------------------
(***************************************************************************)
(* The display node (displayFeed.cpp): the latest image and the latest     *)
(* detections of each camera, received independently, and a timer that     *)
(* draws the detections over the image if they are fresh enough.  The node *)
(* has one executor thread, so callbacks and rendering do not overlap.     *)
(*                                                                         *)
(* Images are not told apart, but for those cv_bridge cannot convert.  The *)
(* cached detections carry their age on the node's clock, which may be     *)
(* behind the camera's: the age is then negative.                          *)
(***************************************************************************)
EXTENDS Integers, Sequences

CONSTANTS Cameras,
          Timeout,     \* detection_timeout_s_
          MaxSkew,     \* bound: how far a stamp may be in the future
          Nothing,     \* no message yet
          NoSignal,    \* the placeholder of a camera without an image
          Closed       \* the window is gone

ASSUME DisplayAssumption == Timeout \in Nat /\ MaxSkew \in Nat

VARIABLES image_, det_,  \* front_image_, bottom_image_, front_det_, bottom_det_
          window         \* what is shown of each camera; Closed after ESC

display_vars == <<image_, det_, window>>

Ages == -MaxSkew .. Timeout + 1   \* all ages beyond the timeout are alike

DisplayInit ==
  /\ image_ = [c \in Cameras |-> Nothing]
  /\ det_ = [c \in Cameras |-> Nothing]
  /\ window = [c \in Cameras |-> NoSignal]

Open == \A c \in Cameras : window[c] # Closed

front_image_sub_(c, image) ==
  /\ Open
  /\ image_' = [image_ EXCEPT ![c] = image]
  /\ UNCHANGED <<det_, window>>

front_detection_sub_(c, msg, age) ==
  /\ Open
  /\ det_' = [det_ EXCEPT ![c] = [msg |-> msg, age |-> age]]
  /\ UNCHANGED <<image_, window>>

\* The node's clock.
grow_older(c) ==
  /\ Open
  /\ det_[c] # Nothing /\ det_[c].age <= Timeout
  /\ det_' = [det_ EXCEPT ![c].age = @ + 1]
  /\ UNCHANGED <<image_, window>>

\* "Is the cached detection set fresh enough to overlay?"
det_fresh_NoTimeout(det) == det # Nothing /\ det.age >= 0
det_fresh(det) == det # Nothing /\ 0 <= det.age /\ det.age <= Timeout

\* What is drawn of a detection: its box, its polygon if there is one, its label.
Drawn(d) ==
  [rect |-> d.bounding_box,
   polyline |-> IF d.mask.points < 2 THEN {} ELSE d.mask.pixels,
   label |-> <<d.object_class, d.confidence,
               IF d.distance > 0 THEN d.distance \div 10 ELSE "N/A">>]

annotate_frame(image, det) ==
  IF image = "unreadable" THEN NoSignal
  ELSE [status |-> IF det = Nothing THEN "waiting"
                   ELSE IF det_fresh(det) THEN "fresh" ELSE "STALE",
        boxes |-> IF det_fresh(det)
                  THEN {Drawn(det.msg.detections[i]) : i \in DOMAIN det.msg.detections}
                  ELSE {}]

render_combined ==
  /\ Open
  /\ window' = [c \in Cameras |-> IF image_[c] = Nothing THEN NoSignal
                                  ELSE annotate_frame(image_[c], det_[c])]
  /\ UNCHANGED <<image_, det_>>

\* ESC shuts the node down and the destructor closes the window.
shutdown ==
  /\ Open
  /\ window' = [c \in Cameras |-> Closed]
  /\ UNCHANGED <<image_, det_>>
=============================================================================

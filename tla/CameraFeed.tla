----------------------------- MODULE CameraFeed -----------------------------
(***************************************************************************)
(* A camera node and the display: frames into the camera's queue, its      *)
(* worker's detections onto the topic, and from there to the window.       *)
(* CameraVision leaves open what is published; here it is what Detections  *)
(* makes of the frame.  Both subscriptions of the display are independent  *)
(* of the camera node's: an image may reach either, both or none.          *)
(***************************************************************************)
EXTENDS CameraVision, Detections, DisplayFeed

CONSTANTS Camera,   \* the one of Cameras
          Depth,    \* of the topic's two histories: 10 in the code
          Output0,  \* what the network makes of the frame of each instant
          DepthImage

ASSUME FeedAssumption == Camera \in Cameras /\ Depth \in Nat \ {0}

VARIABLES sent,        \* the publisher's history: not yet with the subscriber
          detections   \* the subscriber's: not yet with its callback

topic == <<sent, detections>>
feed_vars == <<topic, display_vars>>

\* The header's stamp is the frame's, not that of the publication.
Message_StampedNow(t) == DetectionArray(Output0[t], DepthImage[t], now)
Message(t) == DetectionArray(Output0[t], DepthImage[t], t)

\* A null pointer is not a message.
ASSUME NullAssumption ==
  Nothing \notin [msg : {DetectionArray(Output0[t], DepthImage[t], t) : t \in Time}, age : Int]

FeedInit == Init /\ DisplayInit /\ sent = <<>> /\ detections = <<>>

\* Reliable, keep last: in a full history a message drives out the oldest.
KeepLast(messages, msg) ==
  LET q == Append(messages, msg)
  IN IF Len(q) > Depth THEN Tail(q) ELSE q

Infer ==
  /\ infer_and_publish
  /\ sent' = IF job.empty THEN sent ELSE KeepLast(sent, Message(job.stamp))
  /\ UNCHANGED <<detections, display_vars>>

\* The topic: messages reach the subscriber in order.
Deliver ==
  /\ sent # <<>>
  /\ detections' = KeepLast(detections, Head(sent))
  /\ sent' = Tail(sent)
  /\ UNCHANGED <<vars, display_vars>>

CameraNode ==
  /\ \/ FrameArrives \/ stop_worker \/ Executor \/ spurious_wakeup
     \/ while_running \/ lock_queue_mutex \/ wait_predicate \/ wait_sleep \/ take_job
  /\ UNCHANGED feed_vars

DetectionsArrive ==
  /\ detections # <<>>
  /\ \E age \in Ages : front_detection_sub_(Camera, Head(detections), age)
  /\ detections' = Tail(detections)
  /\ UNCHANGED <<vars, sent>>

ImageArrives ==
  /\ \E c \in Cameras, image \in {"readable", "unreadable"} : front_image_sub_(c, image)
  /\ UNCHANGED <<vars, topic>>

Render == render_combined /\ UNCHANGED <<vars, topic>>
TimePasses == (\E c \in Cameras : grow_older(c)) /\ UNCHANGED <<vars, topic>>
Escape == shutdown /\ UNCHANGED <<vars, topic>>

Display == DetectionsArrive \/ ImageArrives \/ Render \/ TimePasses \/ Escape

FeedNext == CameraNode \/ Infer \/ Deliver \/ Display

FeedSpec == FeedInit /\ [][FeedNext]_<<vars, feed_vars>>

\* The camera node as in CameraVision; the display's executor spins and its timer
\* fires; time passes.  No image need arrive, nobody has to press ESC.
FairFeed ==
  /\ FeedSpec
  /\ WF_vars(Executor) /\ WF_vars(Worker)
  /\ WF_feed_vars(DetectionsArrive) /\ WF_feed_vars(Render) /\ WF_feed_vars(TimePasses)

-----------------------------------------------------------------------------
(* Properties.                                                             *)

\* The way of a frame through the system, newest last: shown, on the topic, with the
\* worker, queued for the worker.
Pipeline ==
  (IF det_[Camera] = Nothing THEN <<>> ELSE <<det_[Camera].msg.stamp>>)
    \o Stamps(detections) \o Stamps(sent)
    \o (IF worker = "inferring" THEN <<job.stamp>> ELSE <<>>)
    \o Stamps(job_queue_)

\* Boxes never go back in time: whatever is dropped on the way, what reaches the
\* display is in the order of the frames.
BoxesNeverGoBack == \A i, j \in DOMAIN Pipeline : i < j => Pipeline[i] < Pipeline[j]

StampsOf(q) == {q[k].stamp : k \in DOMAIN q}

\* What FrameStream calls the frames accepted, on their way and shown.
Newest == IF accepted = <<>> THEN Never ELSE accepted[Len(accepted)]
InFlight ==
  StampsOf(job_queue_) \cup StampsOf(sent) \cup StampsOf(detections)
    \cup (IF worker = "inferring" THEN {job.stamp} ELSE {})
Shown == IF det_[Camera] = Nothing THEN Never ELSE det_[Camera].msg.stamp

Stream == INSTANCE FrameStream WITH
  Frames <- Time, Bound <- Capacity + 1 + 2 * Depth, None <- Never,
  newest <- Newest, in_flight <- InFlight, shown <- Shown

\* The camera node, the topic and the display together are an ordered stream that
\* loses frames: what is shown was accepted, in order, each frame once, with at most
\* a full queue, the worker's job and two full histories behind it.
ImplementsFrameStream == Stream!Spec

\* displayFeed.cpp:35: "so a frozen/dead inference node is visually obvious".  Here
\* inference ends, as frames do, and from some time on no box is on the window.
HasBoxes(c) == window[c] \notin {NoSignal, Closed} /\ window[c].boxes # {}
DeadInferenceIsObvious == <>[](\A c \in Cameras : ~HasBoxes(c))

\* What a pixel of the object says of its distance: nothing if it dropped out, or if
\* the depth image is of a kind the node cannot read.
Measured(msg, d) ==
  LET depth_image == DepthImage[msg.stamp]
  IN {p \in ObjectMask([box |-> d.bounding_box, polygon |-> d.mask]) :
        /\ depth_image.encoding \in {"16UC1", "32FC1"}
        /\ depth_image.mm[p] \in Nat \ {0}}

ReceivedOrOnItsWay ==
  {sent[k] : k \in DOMAIN sent} \cup {detections[k] : k \in DOMAIN detections}
    \cup (IF det_[Camera] = Nothing THEN {} ELSE {det_[Camera].msg})

\* "distance of object calculated by a median of the depth pixels within the
\* segmented object": a distance on which most of the pixels measured agree is
\* the one published, whatever drops out or lies behind.
DistanceIsTheObjects ==
  \A msg \in ReceivedOrOnItsWay : \A i \in DOMAIN msg.detections :
    LET d == msg.detections[i]
        mm == DepthImage[msg.stamp].mm
        measured == Measured(msg, d)
    IN \A near \in {mm[p] : p \in measured} :
         2 * Cardinality({p \in measured : mm[p] = near}) > Cardinality(measured)
           => d.distance = near
=============================================================================

--------------------------- MODULE StateEstimator ---------------------------
(***************************************************************************)
(* The state_estimator node (state_estimator.cpp): it waits for the first  *)
(* IMU2 message and the first depth reading, anchors the mission frame     *)
(* with them, and from then on fuses IMU2, IMU1, depth and DVL and         *)
(* publishes a pose for every IMU2 message.                                *)
(*                                                                         *)
(* rclcpp::spin runs one callback at a time, so each callback is one       *)
(* action.  A message is an input of its callback: topics are best effort  *)
(* or bounded, so any subsequence of what was sent may arrive, and the     *)
(* stamps a callback sees grow by arbitrary amounts.  A driver may also    *)
(* step its clock back; MaxBack bounds how often.  The vehicle manoeuvres  *)
(* all the time: a message has any heading, and any depth a line of the    *)
(* sensor can give, "nan" and "inf" included (std::stod reads both).       *)
(***************************************************************************)
EXTENDS KalmanFilter

CONSTANTS MaxStamp,   \* bound: message stamps are 0 .. MaxStamp milliseconds
          MaxBack,    \* bound: how often the IMU2 stamps may step back
          DtMin,      \* the 0.001 s below which a gap is not integrated
          Headings,   \* the headings the vehicle can have
          NoPose      \* nothing published yet

ASSUME EstimatorAssumption ==
  /\ MaxStamp \in Nat
  /\ MaxBack \in Nat
  /\ DtMin \in Nat
  /\ NoHeading \notin Headings
  /\ NoPose \notin Reading

\* NoHeading also stands for "no anchor" in the refinement.
ASSUME NoAnchorAssumption == NoHeading \notin Headings \X Reading

VARIABLES
  imu1_initialized_, last_time_imu1_sec_,
  imu2_initialized_, last_time_imu2_sec_,
  init_imu2_ready_, init_imu2_quat_,
  init_depth_ready_, init_depth_,
  frame_initialized_,
  kf,
  pose,         \* the z of the last pose published on state_estimator/state
  running,      \* FALSE once an assertion has aborted the process
  \* history, for the properties only:
  prev_stamp,   \* stamp of the latest IMU2 message
  backsteps,    \* times an IMU2 stamp was older than the one before it
  fused,        \* how often kf.predict has integrated the millisecond up to t
  odd_fused     \* readings that kf.updateDepth was given and are not finite

imu1_vars == <<imu1_initialized_, last_time_imu1_sec_>>
imu2_vars == <<imu2_initialized_, last_time_imu2_sec_>>
frame_vars == <<init_imu2_ready_, init_imu2_quat_, init_depth_ready_,
                init_depth_, frame_initialized_>>
time_history == <<prev_stamp, backsteps, fused>>
vars == <<imu1_vars, imu2_vars, frame_vars, kf, pose, running, time_history,
          odd_fused>>

Stamp == 0 .. MaxStamp
Filter == [z : Reading, finite : BOOLEAN, align : Headings \cup {NoHeading}]

TypeOK ==
  /\ imu1_initialized_ \in BOOLEAN /\ last_time_imu1_sec_ \in Stamp
  /\ imu2_initialized_ \in BOOLEAN /\ last_time_imu2_sec_ \in Stamp
  /\ init_imu2_ready_ \in BOOLEAN  /\ init_imu2_quat_ \in Headings \cup {NoHeading}
  /\ init_depth_ready_ \in BOOLEAN /\ init_depth_ \in Reading
  /\ frame_initialized_ \in BOOLEAN
  /\ kf \in Filter
  /\ frame_initialized_ => kf.align \in Headings
  /\ pose \in Reading \cup {NoPose}
  /\ running \in BOOLEAN
  /\ prev_stamp \in Stamp /\ backsteps \in 0 .. MaxBack
  /\ fused \in [Stamp -> Nat]
  /\ odd_fused \in SUBSET (Reading \ Depth)

Init ==
  /\ imu1_initialized_ = FALSE /\ last_time_imu1_sec_ = 0
  /\ imu2_initialized_ = FALSE /\ last_time_imu2_sec_ = 0
  /\ init_imu2_ready_ = FALSE  /\ init_imu2_quat_ = NoHeading
  /\ init_depth_ready_ = FALSE /\ init_depth_ = 0
  /\ frame_initialized_ = FALSE
  /\ kf = [z |-> 0, finite |-> TRUE, align |-> NoHeading]
  /\ pose = NoPose
  /\ running = TRUE
  /\ prev_stamp = 0 /\ backsteps = 0
  /\ fused = [t \in Stamp |-> 0]
  /\ odd_fused = {}

-----------------------------------------------------------------------------
(* Helpers of the callbacks.  A definition named X_Something is a plausible *)
(* mistake in X, used only to test that the properties notice it.           *)

\* The early return of try_initialize, at the new values of the ready flags.
Initializable_NoImu2 == ~frame_initialized_ /\ init_depth_ready_'
Initializable == ~frame_initialized_ /\ init_depth_ready_' /\ init_imu2_ready_'

\* try_initialize: the frame is anchored at the buffered depth and heading.
try_initialize == frame_initialized_' = (frame_initialized_ \/ Initializable)

\* The filter as the callback finds it after its call of try_initialize.
kf_anchored ==
  IF frame_initialized_' /\ ~frame_initialized_
  THEN [reset(kf, init_depth_') EXCEPT !.align = init_imu2_quat_']
  ELSE kf

\* "if (!init_imu2_ready_)": the first IMU2 orientation is buffered.
BufferImu2(heading) ==
  /\ init_imu2_ready_' = TRUE
  /\ UNCHANGED <<init_depth_ready_, init_depth_>>
  /\ IF init_imu2_ready_
     THEN UNCHANGED <<init_imu2_quat_, frame_initialized_>>
     ELSE init_imu2_quat_' = heading /\ try_initialize

\* "if (!init_depth_ready_)": the first depth is buffered.
BufferDepth_Always(d) ==
  /\ init_depth_ready_' = TRUE
  /\ init_depth_' = d
  /\ UNCHANGED <<init_imu2_ready_, init_imu2_quat_>>
  /\ try_initialize
BufferDepth_NoInit(d) ==
  /\ init_depth_ready_' = TRUE
  /\ init_depth_' = IF init_depth_ready_ THEN init_depth_ ELSE d
  /\ UNCHANGED <<init_imu2_ready_, init_imu2_quat_, frame_initialized_>>
BufferDepth(d) ==
  /\ init_depth_ready_' = TRUE
  /\ UNCHANGED <<init_imu2_ready_, init_imu2_quat_>>
  /\ IF init_depth_ready_
     THEN UNCHANGED <<init_depth_, frame_initialized_>>
     ELSE init_depth_' = d /\ try_initialize

\* "dt > 0.001"
Integrates(dt) == dt > DtMin

\* last_time_imu2_sec_ after a message that reached the dt computation; the
\* statement copied from imu1_callback would set last_time_imu1_sec_, and one
\* moved into the "if" would keep the time of the last message integrated.
LastTime_OtherImu(now, last) == last
LastTime_WhenFused(now, last) == IF Integrates(now - last) THEN now ELSE last
LastTime(now, last) == now

\* What a message adds to the history of the time integrated.
Account(now, last) ==
  fused' = [t \in Stamp |->
              IF Integrates(now - last) /\ last < t /\ t <= now
              THEN fused[t] + 1 ELSE fused[t]]

SeenStamp(now) ==
  /\ prev_stamp' = now
  /\ backsteps' = IF imu2_initialized_ /\ now < prev_stamp
                  THEN backsteps + 1 ELSE backsteps

-----------------------------------------------------------------------------
(* The callbacks.                                                          *)

imu1_callback(now) ==
  LET last == IF imu1_initialized_ THEN last_time_imu1_sec_ ELSE now
      dt == now - last
  IN  /\ running
      /\ imu1_initialized_' = TRUE
      /\ last_time_imu1_sec_' = now
      /\ running' = ~(Integrates(dt) /\ frame_initialized_ /\ updateIMU1_Asserts)
      /\ UNCHANGED <<imu2_vars, frame_vars, kf, pose, time_history, odd_fused>>

imu2_callback(now, heading) ==
  LET last == IF imu2_initialized_ THEN last_time_imu2_sec_ ELSE now
      dt == now - last
  IN  /\ running
      /\ SeenStamp(now)
      /\ imu2_initialized_' = TRUE
      /\ BufferImu2(heading)
      /\ IF ~frame_initialized_'
         THEN /\ last_time_imu2_sec_' = last
              /\ UNCHANGED <<kf, pose, fused>>
         ELSE /\ last_time_imu2_sec_' = LastTime(now, last)
              /\ Account(now, last)
              /\ kf' \in IF Integrates(dt) THEN predict(kf_anchored, dt)
                         ELSE {kf_anchored}
              /\ pose' = kf'.z
      /\ UNCHANGED <<imu1_vars, running, odd_fused>>

depth_callback(d) ==
  /\ running
  /\ BufferDepth(d)
  /\ IF ~frame_initialized_'
     THEN UNCHANGED <<kf, odd_fused>>
     ELSE /\ kf' \in updateDepth(kf_anchored, d)
          /\ odd_fused' = odd_fused \cup ({d} \ Depth)
  /\ UNCHANGED <<imu1_vars, imu2_vars, pose, running, time_history>>

\* The two early returns of dvl_callback; NaN stands for a velocity that is not
\* finite.
FusesDvl_Unanchored(v) == v # NaN
FusesDvl_NoFiniteCheck(v) == frame_initialized_
FusesDvl(v) == frame_initialized_ /\ v # NaN

dvl_callback(v) ==
  /\ running
  /\ FusesDvl(v)
  /\ kf' \in updateDVLVelocity(kf, v)
  /\ UNCHANGED <<imu1_vars, imu2_vars, frame_vars, pose, running, time_history,
                 odd_fused>>

-----------------------------------------------------------------------------
\* The stamps the next IMU2 message can have: later ones, the same one again
\* (a retransmitted sample), or earlier ones while clock steps are allowed.
Imu2Stamp ==
  {s \in Stamp : imu2_initialized_ /\ s < prev_stamp => backsteps < MaxBack}

Imu2Arrives == \E now \in Imu2Stamp, heading \in Headings : imu2_callback(now, heading)
Imu1Arrives == \E now \in Stamp : imu1_callback(now)
DepthArrives == \E d \in Reading : depth_callback(d)
DvlArrives == \E v \in {0, NaN} : dvl_callback(v)

Next == Imu1Arrives \/ Imu2Arrives \/ DepthArrives \/ DvlArrives

Spec == Init /\ [][Next]_vars

-----------------------------------------------------------------------------
(* Properties.                                                             *)

\* The mission frame is anchored exactly when both a depth and an IMU2 message
\* have been seen, in whichever order they came (try_initialize is called from
\* both callbacks, each time before the other source may be ready).
AnchoredWhenBothSeen ==
  frame_initialized_ <=> init_depth_ready_ /\ init_imu2_ready_

\* Nothing leaks into or out of the filter before the frame is anchored: no
\* fusion in the default frame, no pose on state_estimator/state, no abort.
SilentBeforeAnchor ==
  ~frame_initialized_ =>
     /\ pose = NoPose
     /\ kf = [z |-> 0, finite |-> TRUE, align |-> NoHeading]
     /\ fused = [t \in Stamp |-> 0] /\ running

\* Dead reckoning integrates a stretch of time twice only if stamps have stepped
\* back, and not more often than they have: every millisecond at most once more,
\* whatever was lost, repeated or late, and however long the frame was missing.
NoIntervalFusedTwice == \A t \in Stamp : fused[t] <= 1 + backsteps

\* "change in time between imu messages" (state_estimator.cpp:43): a message
\* integrates time after the message before it only, except for the first one after
\* the anchor, which integrates the whole wait.
DtIsBetweenMessages ==
  [][\A t \in Stamp : fused'[t] # fused[t] => prev_stamp < t \/ pose = NoPose]_vars

\* What makes the estimate NaN, or infinite, is the depths alone: NaN exactly when
\* a NaN was used, as the seed z0 of the frame or as a measurement, or when the seed
\* was infinite and the same infinity was measured again; infinite exactly when the
\* seed was and this has not happened.  The DVL cannot do either, no later reading
\* undoes them, and an infinite measurement of a finite estimate is harmless.
NonFiniteExactlyByDepth ==
  frame_initialized_ =>
    /\ kf.z = NaN <=> \/ NaN \in odd_fused \cup {init_depth_}
                      \/ init_depth_ \in odd_fused
    /\ kf.z \in Infinities <=> /\ init_depth_ \in Infinities \ odd_fused
                               /\ NaN \notin odd_fused

\* The frame is anchored once: no later message moves its heading or origin.
AnchorNeverMoves ==
  [][frame_initialized_ => /\ frame_initialized_'
                           /\ kf'.align = kf.align
                           /\ init_depth_' = init_depth_]_vars

\* A depth reading of an anchored filter moves a finite estimate by at most Gate,
\* upwards or downwards, or poisons it; an infinite one it cannot move.
DepthCannotTeleport ==
  [][DepthArrives /\ frame_initialized_ /\ kf'.z \notin {kf.z, NaN} =>
       /\ {kf.z, kf'.z} \subseteq Depth
       /\ kf'.z - kf.z <= Gate /\ kf.z - kf'.z <= Gate]_vars

\* Both drivers publish forever (the depth sensor from a 10 Hz timer, the IMU
\* continuously) and the executor serves every subscription.
FairSpec == Spec /\ WF_vars(Imu2Arrives) /\ WF_vars(DepthArrives)

\* The node does not wait forever: a pose is published, or an IMU1 message has
\* aborted the process.
EventuallyPublishes == <>(pose # NoPose \/ ~running)

-----------------------------------------------------------------------------
(* Refinement.                                                             *)
Frame == INSTANCE MissionFrame WITH
  Origins <- Reading, Poses <- Reading, NoAnchor <- NoHeading,
  anchor <- IF frame_initialized_ THEN <<kf.align, init_depth_>> ELSE NoHeading,
  pose <- pose

\* The node implements the mission frame: anchored once, published only inside.
ImplementsMissionFrame == Frame!Spec
=============================================================================

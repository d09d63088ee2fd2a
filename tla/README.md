# Verification of snappy-nano

snappy-nano is the ROS 2 software of an autonomous underwater vehicle: drivers,
a state estimator, a controller, the motor board's driver, two camera nodes with
a display, a pre-dive sensor test, and the micro-ROS agent through which the
microcontrollers join the ROS 2 network. This directory holds TLA+ models of its
core logic, the TLC configurations that check them and theorems about them that
TLAPS checks. Source files are named by the last part of their path.

To check: `tlc -config X.cfg M` for a row of the table of runs, `tlapm M.tla` for
a module of proofs.

## 1. The system

    Arduino --serial--> pressure_sensor --depth_data--+
    Xsens IMU --imu/data (IMU2)-----------------------+--> state_estimator
    D455 IMU (IMU1), DVL -----------------------------+         |
                                             state_estimator/state (Pose)
                                                                |
       planner (only logs)                                 controller --/motor_cmd--> STM32
                                                           6 PIDs, allocator,
    cameras --frames--> bottom/front camera vision          Motorboard
       |                    | detections
       +--frames------> display feed
    STM32 --XRCE--> micro-ROS agent --callbacks--> graph manager --graph--> STM32
                                                     |    ^
                             own messages, discovery v    | discovery, ros_discovery_info
                                                   DDS domain
    sensorTest listens to nine topics before a dive; a launch file stops
    everything when it exits.

| component | state it keeps | operations | what makes it correct | hard because of |
|---|---|---|---|---|
| state estimator `state_estimator.cpp` | first IMU2 and depth samples, frame flag, last stamps, the filter | four sensor callbacks, `try_initialize`, publication | the frame is anchored once, when both sources are there; nothing before; no interval integrated twice | order of four topics, lost, repeated, backward stamps, a frame that comes late |
| Kalman filter `include/src/kalman.cpp` | state vector, covariance, alignment quaternion | reset, predict, updateDepth, updateDVLVelocity, updateIMU1 | a wrong depth moves it by at most the gate; NaN and infinity come in by the depth only | NaN and infinities in comparisons and differences, matrix sizes |
| pressure sensor `pressure_sensor.cpp` | the tty's queue, the newest line | a 10 Hz drain, parse, publish | depths in order, once each, the newest | lines printed during a drain, a tty that overflows, errors, unplugging |
| controller `controller.cpp`, PID `include/src/pid.cpp` | last pose, integrals and previous errors | state_callback, a 200 ms timer | errors in the vehicle's axes; bounded output; stopped by a pose that is NaN | stale poses, NaN, angles at their branch cut |
| thruster allocator `thruster_allocator.cpp` | pseudo-inverse, limits | allocate, thrust_to_speed | speeds in range, direction of the wrench kept | different limits in the two directions, eight bits |
| motor board driver `include/src/motorboard.cpp` | none; the STM32 keeps the speeds | twelve movements, stop, sendCmd | a mask names what its array drives; movements agree with the matrix | lost commands, two descriptions of the vehicle |
| camera vision `bottom_camera_vision.cpp`, `front_camera_vision.cpp` | job queue, worker thread, rate limit | image callback, worker loop, destructor | newest frames, bounded latency, a clean stop | two threads, a condition variable |
| sensor test `sensorTest.cpp` and `snappy_sensor_test.launch.py` | sensors seen, a timer, the process | first messages, timeout, exit handler | one true verdict; the launch stopped exactly on failure | timeout against a last message |
| detections, in both camera nodes | none | selection of candidates, boxes, contour, distance, message | the distance is the object's | dropouts, padding, two depth encodings |
| display feed `displayFeed.cpp` | latest image and detections of each camera | four subscriptions, a render timer, ESC | boxes in the order of frames; none from an inference that has died | two independent streams, two clocks, losses |
| micro-ROS agent `Agent.cpp`, `graph_manager.cpp`, `demangle.cpp` | the cache of nodes and endpoints, a changed flag, a writer per participant | ten callbacks, discovery and sample listeners, a publisher thread | micro-ROS is told the graph as it is; nodes keep their endpoints; nothing that has gone comes back | three threads, many short critical sections, two paths of registration, late messages |
| planner, image capture, serial wrapper, simulation, scripts, launch files, messages, type support and tools of micro-ROS | - | - | - | not modelled, section 8 |

## 2. The modules

| module | code | state and actions |
|---|---|---|
| `KalmanFilter` | kalman.cpp | operators on a filter record (vertical estimate, finiteness, alignment); each returns the set of filters an update may leave. Readings are finite, NaN or infinite, as `std::stod` reads them; differences and comparisons follow IEEE arithmetic, inf - inf included. How far an update moves the estimate depends on the covariance, which is not kept |
| `StateEstimator` (extends `KalmanFilter`) | state_estimator.cpp | the node's members under their own names, one action per callback (the calls to `try_initialize` inside, as in the code), messages with any heading and any reading, and a history of stamps and of how often each millisecond was integrated |
| `MissionFrame` | the promise at kalman.cpp "Frame conventions", kalman.h:101 | abstract: a frame is chosen once, poses are published only inside it. `StateEstimator` implements it (`ImplementsMissionFrame`) |
| `DepthSensor` | pressure_sensor.cpp | the tty as a queue of lines that fills during a drain and, without flow control, loses the newest line when it is full; the node is idle, in the loop of reads, or parsing; one action per `read` and per return |
| `CameraVision` | both camera nodes | control points of executor, destructor and worker; `condition_variable::wait` as its loop, with test and sleep apart because the destructor changes the flag without the mutex |
| `Detections` | front_camera_vision.cpp:279-573 (the bottom camera has the same code) | operators from the network's candidates and the depth image to the message; the box cuts the mask before `findContours`, which is a parameter |
| `DisplayFeed` | displayFeed.cpp | the cached image and detections of each camera, with their age; one action per callback, clock tick and rendering |
| `CameraFeed` (extends `CameraVision`, `Detections`, `DisplayFeed`) | the camera node, its topic and the display | the worker's last step publishes the message into the publisher's history, `Deliver` moves it to the subscriber's, the display takes it from there; each history keeps its last messages |
| `Demangle`, `QosProfile` | demangle.cpp, the conversions of graph_manager.cpp | operators on names in parts and on quality of service |
| `GraphCache` (extends both) | external: `rmw_dds_common::GraphCache` as it is used | operators on the cache, one per critical section, and its queries |
| `GraphManager` (extends `GraphCache`) | graph_manager.cpp | one action per critical section or write of the operations, the listeners and the publisher thread |
| `Agent` (extends `GraphManager`) | Agent.cpp, and the DDS domain around it | a callback as the list of calls it makes; what exists, what discovery has reported; other participants |
| `FrameStream` | the promise at bottom_camera_vision.cpp:164, "Drop oldest frame if queue is full (never accumulate latency)" | abstract: an ordered stream that may lose one frame a step and has a bounded number on their way. `CameraFeed` implements it (`ImplementsFrameStream`): on their way is what the queue, the worker and the two histories of the topic hold |
| `SensorTest` | sensorTest.cpp, snappy_sensor_test.launch.py | callbacks, timer, exit of main, launch handler |
| `PID` | pid.cpp | operators on the record of `integral_` and `prev_err_` |
| `Controller` (extends `PID`) | controller.cpp | `state_callback`, and `timer_callback` with everything it calls up to the speeds |
| `ThrusterAllocator` | thruster_allocator.cpp, controller.cpp:241-264 | the scaling and conversion loops, one action per round; the pseudo-inverse may ask for any thrusts |
| `Thrusters` | motorboard.h masks, controller.cpp:91-100 matrix | constants only |
| `Motorboard` (extends `Thrusters`) | motorboard.cpp | a movement, its delivery to the board, its loss |
| `MC*` | | instances for TLC; values in the .cfg files |
| `*Proofs` | | theorems |

A definition named `X_Something` next to `X` is a plausible mistake in `X`: with it
in place of `X`, a named property of the run is violated. PROJECT.json pairs them.

## 3. The runs

| run | shows | bounds, and why they are enough |
|---|---|---|
| `estimator` | whatever the order of the four topics: the frame is anchored exactly when both first samples are there; nothing is fused or published before; no millisecond is integrated twice but for a stamp that steps back, and none from before the previous message except by the first message after the anchor; z is NaN, or infinite, exactly by the depths that were used; one depth moves a finite z by at most the gate; the mission frame is implemented; a pose is published in the end | 3 depths, so that a reading can be within the gate and beyond it; stamps 0..3 ms with a threshold of 1 ms, so that gaps of zero, at and above the threshold occur, also after a wait; one backward step; 2 headings, to tell the first from a later one; every depth message is any of the 3 depths, NaN or an infinity |
| `camera` | in all interleavings of camera node and display: no sleep on work, newest frames kept in order, bounded backlog, one job at most after the stop, the stop completes unless it hits the gap of the next run; detections reach the display in the order of their frames, with the object's distance; node, topic and display implement the abstract stream of frames; boxes vanish when inference has ended | 6 instants with a period of 2, so 3 frames can pass the limiter: they overflow the code's queue bound of 2 while the worker is held up, or keep worker and queue full; histories of 1 message (10 in the code), so that both overflow; these 3 frames are fewer than the stream's bound of 5 on their way, so the run checks the stream's order and losses, and the bound is proved (`StreamRefinement`); ages up to a timeout of 1 and a skew of 1, so that stamps are in the future, fresh and stale; images of 4 by 2 pixels and six scenes: dropouts of either encoding, background, several blobs, a contour too short to fill, an unreadable encoding, a tie |
| `camera_shutdown` (violation) | the lost wakeup of the destructor, on the camera node alone | 1 frame |
| `depth_sensor` | in order, once; a drain that met the end of the buffer publishes the last line that had come in by then | 6 lines in a tty of 3, so that lines are lost when it is full, and come before, between and after the reads of several drains, also between the read that finds it empty and the publication |
| `sensor_test` | one true verdict, launch stopped on failure and only then | the nine sensors of the list, any subset of them dead |
| `controller` | NaN stops the thrusters for good; right errors when aligned; windup bounded | positions on both sides of the target on every axis, four headings, three rolls; an integral of a few ticks; ticks on time and late |
| `errors_local`, `turns_to_target` (violations) | errors in the wrong axes at quarter turns; a yaw error of half a turn out of a small roll | the same |
| `allocator` | speeds in range, direction kept | 3 thrusters asked for thrusts inside, at and outside both limits, or NaN |
| `motorboard` | after any sequence of delivered and lost movements every group runs as last asked; signs agree with the matrix | all movements, speeds at both ends of the range and one between |
| `agent` | in all interleavings of callbacks, listeners and publisher: micro-ROS has been told the graph as it is whenever the publisher sleeps, and in the end; nothing gone comes back; profiles are the endpoints' own; untested lookups fail for the root only | a micro-ROS node with a replier (writer and reader), the root participant with a publisher, an other participant with a writer; 3 of these things live in one behaviour (`MaxThings`), which is enough for a participant with a whole object, or for two participants and an endpoint; each lives once |
| `keeps_track` (violation) | a late own message takes an endpoint from its node | the same |

Bounds are constants of the modules and commented there (`MaxStamp`, `MaxBack`,
`MaxTime`, `MaxSkew`, `MaxThings`, `MaxLines`, `TtySize`, `MinZ`, `MaxZ`, `Drift`).
`CHECK_DEADLOCK FALSE` is given to `estimator` (the assertion in IMU1's update aborts
the process), `camera` and `camera_shutdown` (the node stops when its destructor has
returned), `sensor_test` (a finished test does nothing more) and `agent` and `keeps_track`
(when all things have lived and gone).

## 4. Fairness

* `estimator`: weak fairness of IMU2 and depth messages. The depth node publishes
  from a wall timer, the IMU streams, and `rclcpp::spin` serves every
  subscription. Nothing is assumed of IMU1 or DVL. An aborted process
  counts as an end of the wait (`EventuallyPublishes` says so).
* `camera`: both threads are scheduled (weak fairness of the executor's pending
  steps and of the worker). Frames need not come, a stop need not come, and
  spurious wakeups are possible but not relied upon. On the display's side the
  executor delivers what is on the topic, the wall timer renders and time passes
  (weak fairness of each); images need not come and nobody has to press ESC.
* `agent`: weak fairness of the publisher thread only. Nobody has to create or
  delete anything, and discovery and the listeners may be as slow as they like:
  `EventuallyCurrent` is about the cache, not about the domain. A crash ends the
  wait, as the property says; it is what `LookupsFindTheirEntry` confines.
* `sensor_test`: the wall timer fires, `spin` and `main` return, the launch hears of
  an exit. Messages are given none: best-effort delivery.
* The other runs check safety only and state no fairness.

## 5. What is proved

Each proof gives an inductive invariant, shows one lemma per action that the
action keeps it, and derives the properties. The assumptions are those named in
the modules (`...Assumption`); TLC evaluates them in every run.

| module | invariant, and why the properties alone are not inductive | theorems |
|---|---|---|
| `StateEstimatorProofs` | `IInv`: an orientation is buffered with the first IMU2 stamp (`Buffered`); the last time is the stamp of the message before as soon as a pose is published, and time ahead of it was integrated only before a backward step (`FusedBehind`): `NoIntervalFusedTwice` alone says nothing of where the next interval starts; a NaN attitude comes with a NaN z and an infinite z is the origin's (`OddFromPosition`): without it, a prediction could poison a z that no depth has reached | type; `AnchoredWhenBothSeen`, `SilentBeforeAnchor`, `NoIntervalFusedTwice`, `DtIsBetweenMessages`, `NonFiniteExactlyByDepth`, `AnchorNeverMoves`, `DepthCannotTeleport`; refinement of `MissionFrame` |
| `DepthSensorProofs` | `DInv`: the tty holds lines in order, the last of them the last that came in (`TtyInOrder`); the newest line read is older than those (`LatestIsRead`), and it is the last that came in when the tty was found empty, whatever comes in before the publication (`FoundEmpty`); published ones are older (`PublishedIsOlder`) | type; `PublishedInOrder`, `NeverLagsBehind`, for every number of lines and buffer |
| `SensorTestProofs` | `TInv`: the test is waiting, passed or failed, and exit and launch follow only the last | type; `OneHonestVerdict`, `WorkingSensorsStayUp`, for every set of sensors |
| `MotorboardProofs` | `MInv`: the command on its way is what was asked (`CommandIsAsked`), a group's last movement drives its own thrusters only (`ObeysItsOwn`), and the board runs each as that movement asked (`RunsAsObeyed`): the sum over the groups in the property hides which of them drives a thruster | type; `EachGroupObeysItsLast`, for any set of speeds; `MovementsMatchMatrix` for all speeds but -128, where it is false (`NowhereAtMinus128`): `-speed` does not fit `int8_t` and stays -128 |
| `ThrusterAllocatorProofs` | `AInv`: the ratio is at least that of every thruster seen and is one of theirs (`Rated`); every speed so far is the conversion of its thrust (`Converted`). The direction needs lemmas on division toward zero: what a speed stands for is below its scaled thrust by less than one unit (`SpeedIsProportional`), and the common ratio cancels (`Proportion`) | type; `SpeedsInRange`, `FullSpeedUsed`, `KeepsDirection`, for every number of thrusters and any demand |
| `ControllerProofs` | lemmas on the PID: NaN goes through sums, products and clamps and comes from nowhere else; a steady error beyond `Ki_ * MAX / Kp_` decides the sign of the output. `CInv`: the pose used is the last received; the integral is NaN iff a tick has computed on a NaN; else the previous error is finite. Lemmas on the rotation by quarter turns and the Euler angles say what a tick computes from a pose (`TickErrors`) and when it is right (`LocalExactly`, `TurnExactly`) | type; `NaNStopsForGood`, `WindupIsBounded`, `RightWhenAligned`, for all gains, limits, periods, grids and targets; how far the two violated claims reach: position errors are local exactly if the yaw is none or half a turn, or the target is above or below (`LocalExactlyWhenStraight`), and the yaw error is the shortest turn exactly if the roll is not to the right (`ShortestTurnExactlyWhenLevel`) |
| `CameraFeedProofs`, the camera node (`Spec`) | `SInv`: a worker that has tested and not slept saw an empty queue (`CheckedIsEmpty`), and after a job finished since the stop it is at the loop's test or gone (`LeavingAfterStop`); `QInv`: stamps accepted increase, the queue is a tail of them (`QueueIsTail`), what was taken is older and what comes is newer | type; `NoSleepOnWork`, `AtMostOneJobAfterStop`, `NewestFramesKept`, `LatencyBounded`, for every queue bound |
| `CameraFeedProofs`, with the display (`FeedSpec`) | every step of the composition is a step of the camera node or leaves it alone (`ImplementsCameraNode`: `FeedSpec => Spec`), so that the theorems about the node hold of it. `FeedInv`: `QInv`, the job being inferred was the last one taken, and everything on its way through both histories is in order and within their depth (`PublishedInOrder`). `StreamInv` adds the number of frames on their way, at most the queue's bound, the job and twice the depth (`InFlightBound`). The distance needs no invariant but a lemma on medians: with the value at place n/2 in order, a value that more than half of the n samples have is it (`MajorityIsMedian`) | `BoxesNeverGoBack` (order at every stage on the way; what a run checks of it is the order of what is shown, by the refinement), `DistanceIsTheObjects`; refinement of `FrameStream` (`StreamRefinement`): queueing is `Accept`, which loses the queue's head if it is full; the end of an inference is a stutter, or `Lose` of the frame skipped or of the head of the publisher's history; `Deliver` is a stutter, or `Lose` of the head of the subscriber's; the display's callback is `Show`; every other step stutters |
| `AgentProofs` | `PublisherInv`: unless the flag is set, the message under construction is what the cache says so far (`PassIsCurrent`) - the property speaks only of the end of a pass. `GhostInv`: an endpoint is reported after its participant, and the calls left are the rest of a callback about entities that are alive. `LookupInv`: while a participant's callback or one of its endpoints' runs, the writer and the node it will look up are there (`ParticipantInv`, `AdditionInv`) | type; `SleepsOnlyWhenCurrent`, `NoGhostEndpoints`, `ProfileIsItsOwn`, `LookupsFindTheirEntry`, for all sets of participants, nodes, endpoints and objects |

Only model-checked are the liveness properties (`EventuallyPublishes`,
`CleanShutdown`, `DeadInferenceIsObvious`, `DeadSensorStopsLaunch`,
`EventuallyCurrent`), because the prover handles neither fairness nor `ENABLED`,
and the comparison of `nth_element` with sorting in `MCCameraFeed`. Every safety
property of a passing run is a theorem.

## 6. Disagreements found

The first four have a run whose counterexample shows them.

* The camera nodes' destructors clear `worker_running_` and notify without
  `queue_mutex_` (bottom_camera_vision.cpp:90): the wakeup can be lost between the
  worker's test and its sleep, and `join` blocks for ever.
* `generate_trajectory` rotates with the orientation instead of its inverse
  (controller.cpp:186): at a quarter turn both horizontal errors change sign.
* `eulerAngles(0, 1, 2)` has a first angle in [0, pi] (Eigen 3.4): a roll slightly
  to the right gives errors of about half a turn in all three angles
  (controller.cpp:199).
* The graph manager's reader matches the manager's own writers, and it applies
  every sample it takes (graph_manager.cpp:547-552). Writers send asynchronously
  (95-96), so a message about a participant can arrive after a later one has been
  put into the cache: the endpoint associated meanwhile is lost from its node,
  where the agent's README has "keep track of the Micro-ROS nodes".

Seen while modelling, described here and visible in the models, without a run:

* A movement that needs the negative of its speed computes it as
  `static_cast<int8_t>(-speed)` (motorboard.cpp:18, 33, 39): -128 stays -128, so
  that such thrusters turn the wrong way. `NowhereAtMinus128` shows it of `right`.
* `imu2_callback` returns before it updates `last_time_imu2_sec_` while the frame is
  missing (state_estimator.cpp:248-249): the first dt after the anchor is the whole wait
  and one acceleration sample is integrated over it. The comment at 43 calls the
  variables "change in time between imu messages", and the replay in
  tests/test_kalman.cpp, whose "callback bodies are kept identical on purpose" (82),
  sets the time for every message (166-167). `DtIsBetweenMessages` names this
  exception and says that there is no other.
* The first depth is not gated (state_estimator.cpp:317): an infinite one becomes the
  origin, and the next infinite one gives inf - inf = NaN, which the comparisons of the
  gate let pass (kalman.cpp:176-179). `NonFiniteExactlyByDepth` says when.
* `pitch_up` and `pitch_down` have the opposite signs of the matrix's row Ty
  (controller.cpp:99, motorboard.cpp:83); `MovementsMatchMatrix` leaves them out.
* The root participant "/" gets no writer (graph_manager.cpp:313), but
  `remove_participant` (346-347) and `associate_entity` (464-465) dereference what
  `find` returns for it: the agent crashes when a root participant is deleted or
  gets an entity. `LookupsFindTheirEntry` says that no other participant does this.
* The empty message of `remove_participant` is sent asynchronously and its writer
  deleted at once (347-348): it may not leave.
* The reader of ros_discovery_info keeps one sample for all writers (114): messages
  of two participants that come close together replace each other.
* A listener that has taken a message of a participant puts it into the cache again
  after its removal (552); the next graph shows its nodes.
* A participant named /a/b/node becomes node "b/node" in namespace "/a" (578-585).
* Every node is listed with all services of the domain (227-249, 253-276), as the
  query has no node.
* A service type with "_Request_" inside is demangled with what is before it
  (demangle.cpp:147-177): `continue` keeps the position found.
* `~GraphManager` is defaulted (graph_manager.hpp:89) with a thread that never ends:
  destroying a manager ends the process.
* "Extract the largest external contour" (front_camera_vision.cpp:413) takes the one
  with most points, which after `CHAIN_APPROX_SIMPLE` is not the one with the
  largest area.
* Stale detections are "shown dimmed" and boxes "tagged with their age" according to
  displayFeed.cpp:13, 38; they are not drawn (116), and the age is in the status
  line of stale ones only.
* The resize in `blobFromImage` is a no-op (front_camera_vision.cpp:243-244) only if
  the padding of the letterbox is even. `compute_iou` and `Anchor` are unused.
* The frame is anchored with the first IMU2 quaternion and the first depth
  (state_estimator.cpp:241, 317), which may be old when the other source comes;
  kalman.h:101-102 has "world +x = vehicle heading at frame init".
* `R_imu1_init` is 3x3 (state_estimator.cpp:138) for a 9-row residual; Eigen's
  assertion would abort the node with the first IMU1 message fused
  (`running` in `StateEstimator`). No launch file starts a publisher of
  `/d455/camera/camera/imu` (state_estimator.cpp:70), so it is latent.
* "Drops stale lines so we never lag behind" (pressure_sensor.cpp:115) does not reach
  a full buffer: the port has no flow control (57-59), and a line that finds it full is
  lost while older ones stay. `NeverLagsBehind` is about the lines that came in.
* A drain whose newest line does not parse discards the sample read before it
  (pressure_sensor.cpp:129, 144), though "keeps only the freshest sample" (5-6).
* The launch is stopped on every exit of sensorTest, though "only ... non-zero"
  (snappy_sensor_test.launch.py:110-111), and main always returns 0
  (sensorTest.cpp:146). A passed test never exits, because its shutdown
  (sensorTest.cpp:101) is unreachable: the faults cancel, which is what
  `WorkingSensorsStayUp` checks.
* The wrench's x is the constant 2.0 (controller.cpp:236).
* `set_target` resets the integral and not the previous error (pid.cpp:15-18); it
  has no caller.
* `set_min_thrust` and `set_max_thrust` size their vector by the matrix's rows
  (thruster_allocator.cpp:96); they have no caller.
* The values in the comments at motorboard.h:29-31 and the bits in controller.hpp
  are stale; `sendCmd` leaves the header stamp unset (ThrusterCommand.msg:3).
* snappy_sensor_test.launch.py starts neither cameras nor controller, which
  sensorTest waits for; on its own it fails always.
* Neither camera node compiles at this commit (bottom_camera_vision.cpp binds
  `image_callback` at 74 and defines `color_callback` at 139; front_camera_vision.cpp
  has two `for` lines at 198-199); the model takes the evident intention.

## 7. Assumptions about what is outside

The tty is in canonical mode, hands out whole lines and drops its input on a
hang-up; when its buffer is full it loses what comes, and two lines spliced by such
an overflow count as the later one. The stamps of the images a camera node gets
increase strictly and are one clock with the node's own, which limits the rate
(bottom_camera_vision.cpp:143, 161). IMU2 sends no NaN. A NaN pose is NaN in every component (that is what
the filter's injection leaves); the poses of `Controller` are finite or NaN, infinite
ones occur in `StateEstimator` only. The STM32 keeps the speed of thrusters the mask
does not name (ThrusterCommand.msg). The conversion of NaN to `int8_t`, undefined
in C++, is 0 on x86-64 and AArch64. Eigen asserts, as the packages are built
without NDEBUG. The missing return of sensorTest's lambda (60-70) is harmless in
the default, unoptimised build. The movement functions of `Motorboard` have no
caller today; the controller sends its own array with the mask 255.

The display: one executor thread; the camera's and the node's clock differ by a
bounded skew; the topic is reliable, and the publisher's and the
subscriber's history each keep their last messages. Detections: whole
pixels and a whole factor of the letterbox; a depth image is as large as its color
image and not empty; blobs and contours are what OpenCV found.

The agent: the XRCE agent runs one callback at a time, and an entity is still there
during its delete callback. Cache operations are atomic and behave as in
`rmw_dds_common` (an endpoint's first registration stays; a message replaces what
was known of its participant; queries leave out what is demangled to nothing).
Gids are never used again, discovery reports an endpoint after its participant and
each change once, changed qualities of service are ignored, as in the code.
Freeing never fails and `display_on_change_` is never set. One domain: domains have
managers of their own and share nothing.

## 8. Not modelled, and why

Linear algebra of the filter and pseudo-inverse (abstracted to what the
properties tell apart); the networks' arithmetic, CUDA preprocessing, image
capture, plots and scripts (pure I/O or numerics); the planner (logs a topic that
nobody publishes); the serial wrapper (unused); simulation.cpp (empty); launch
files without handlers; the micro-ROS agent's type support (serialisation), its
transport (a library) and the setup and firmware tools; the loading of the network's
engine (`init_tensorrt`, once, before any thread); setters and callbacks of
the controller whose subscriptions are commented out (266-428).

## 9. Plan

Done: estimator and filter, mission frame, camera nodes, detections and display,
the stream of frames, depth sensor, sensor test, PID, controller, allocator, motor
board, micro-ROS agent; a theorem for every safety property.

1. `ControlLoop`: DepthSensor's values, StateEstimator and Controller composed over
   bounded topics: a NaN line stops the vehicle for good; poses and commands are
   of one frame; latest-pose semantics.
2. `Replay` (tests/test_kalman.cpp): the offline replay next to the node; it says
   "identical on purpose" and differs in early returns (166-167), the finiteness
   check (206) and the records before initialisation.

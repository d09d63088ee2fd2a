----------------------------- MODULE Controller -----------------------------
(***************************************************************************)
(* The controller node (controller.cpp): state_callback keeps the latest   *)
(* pose of the state estimator, and every 200 ms timer_callback turns it   *)
(* into a wrench and a motor command.  Of the six PIDs pid_z_ is kept, the *)
(* only one with an integral gain in controller_params.yaml; the others    *)
(* are given their errors at the same ticks, so that they hold a NaN       *)
(* exactly when pid_z_ does.                                               *)
(*                                                                         *)
(* Headings are quarter turns to the right, pitch is zero, and a roll is   *)
(* so small that only its sign tells: it moves no position error by a unit *)
(* of the grid.  The target attitude is level and heads north, as in       *)
(* controller_params.yaml, so the relative orientation is a roll of -roll  *)
(* after a turn of -yaw.                                                   *)
(***************************************************************************)
EXTENDS PID

CONSTANTS Coordinates,     \* of positions
          target_position, \* [x |-> , y |-> , z |-> ]
          Periods,         \* milliseconds between two ticks of the timer
          NoWrench         \* no wrench computed yet

VARIABLES
  current,  \* current_position and current_orientation
  pid_z_,
  wrench,   \* the thrusts along x and z, and the errors behind the rest
  stopped,  \* the last command stops every thruster
  \* history
  received, \* the last state received
  ticks_nan \* a command has been computed when that was NaN

vars == <<current, pid_z_, wrench, stopped, received, ticks_nan>>

Vector == [x : Int, y : Int, z : Int]

ASSUME ControllerAssumption ==
  /\ Coordinates \subseteq Int /\ Periods \subseteq Nat
  /\ target_position \in Vector
  /\ NaN \notin [position : Vector, yaw : Int, roll : Int]

Position == [x : Coordinates, y : Coordinates, z : Coordinates]
Pose == [position : Position, yaw : 0 .. 3, roll : {-1, 0, 1}]

\* Position (0, 0, 0) and the quaternion (0, 0, 0, 0), which rotates nothing and
\* whose inverse is itself.
Unset == [position |-> [x |-> 0, y |-> 0, z |-> 0], yaw |-> 0, roll |-> 0]

Wrench == [x : Int, z : -MAX .. MAX, err_x : Int, err_y : Int, err_z : Int,
           err_roll : 0 .. 2, err_pitch : 0 .. 2, err_yaw : -1 .. 2]

ASSUME WrenchAssumption ==
  /\ NaN \notin Wrench
  /\ NoWrench \notin Wrench \cup {NaN}

TypeOK ==
  /\ current \in Pose \cup {NaN, Unset} /\ received \in Pose \cup {NaN, Unset}
  /\ pid_z_ \in PID
  /\ wrench \in Wrench \cup {NaN, NoWrench}
  /\ stopped \in BOOLEAN /\ ticks_nan \in BOOLEAN

Init ==
  /\ current = Unset /\ received = Unset
  /\ pid_z_ = NewPID
  /\ wrench = NoWrench /\ stopped = TRUE
  /\ ticks_nan = FALSE

-----------------------------------------------------------------------------
\* A rotation by quarter turns about z, from the body to the world.
Rotated(q, v) ==
  CASE q = 0 -> v
    [] q = 1 -> [x |-> -v.y, y |-> v.x, z |-> v.z]
    [] q = 2 -> [x |-> -v.x, y |-> -v.y, z |-> v.z]
    [] q = 3 -> [x |-> v.y, y |-> -v.x, z |-> v.z]

Minus(v, w) == [x |-> v.x - w.x, y |-> v.y - w.y, z |-> v.z - w.z]

\* An angle as atan2 returns it.
Wrapped(q) == ((q + 1) % 4) - 1

\* generate_trajectory: current_orientation * (target - current).
RelativePosition_Swapped(pose) == Rotated(pose.yaw, Minus(pose.position, target_position))
RelativePosition(pose) == Rotated(pose.yaw, Minus(target_position, pose.position))

\* eulerAngles(0, 1, 2), whose first angle is never negative: the same attitude as
\* a negative roll is half a turn more about each axis.
Flips(roll) == roll < 0
EulerAngles(roll, yaw) ==
  IF Flips(roll) THEN [roll |-> 2, pitch |-> 2, yaw |-> Wrapped(yaw + 2)]
                 ELSE [roll |-> 0, pitch |-> 0, yaw |-> Wrapped(yaw)]

\* The error of pid_z_, whose target is 0 and which is given the negated error.
ErrZ(pose) == IF pose = NaN THEN NaN ELSE RelativePosition(pose).z

\* generate_wrench.  The output of pid_x_ is not used.
generate_wrench(pose, thrust_z) ==
  LET rel == RelativePosition(pose)
      euler == EulerAngles(-pose.roll, -pose.yaw)
  IN  [x |-> 2, z |-> thrust_z, err_x |-> rel.x, err_y |-> rel.y, err_z |-> rel.z,
       err_roll |-> euler.roll, err_pitch |-> euler.pitch, err_yaw |-> euler.yaw]

\* The next command: with a NaN in the wrench every thrust is NaN, and a NaN
\* becomes the speed 0 (ThrusterAllocator.tla).
timer_callback(period) ==
  LET thrust_z == Returned(pid_z_, ErrZ(current), period)
  IN  /\ pid_z_' = Updated(pid_z_, ErrZ(current), period)
      /\ wrench' = IF thrust_z = NaN THEN NaN ELSE generate_wrench(current, thrust_z)
      /\ stopped' = (wrench' = NaN)
      /\ ticks_nan' = (ticks_nan \/ received = NaN)
      /\ UNCHANGED <<current, received>>

\* state_callback keeps whatever it is sent.
Kept_IfFinite(pose) == IF pose = NaN THEN current ELSE pose
Kept(pose) == pose

state_callback(pose) ==
  /\ current' = Kept(pose)
  /\ received' = pose
  /\ UNCHANGED <<pid_z_, wrench, stopped, ticks_nan>>

Timer == \E period \in Periods : timer_callback(period)

Next == Timer \/ \E pose \in Pose \cup {NaN} : state_callback(pose)

Spec == Init /\ [][Next]_vars

-----------------------------------------------------------------------------
(* Properties.                                                             *)

\* One command computed on a pose that is not finite stops the thrusters for
\* good, whatever the state estimator says later; nothing else stops them.
NaNStopsForGood == wrench # NoWrench => (stopped <=> ticks_nan)

\* However long the integral has been wound up, a steady depth error that is
\* larger than Ki_ * MAX / Kp_ is thrust against.
WindupIsBounded ==
  [][Timer /\ wrench' \in Wrench /\ pid_z_.prev_err_ = wrench'.err_z =>
       /\ Kp_ * wrench'.err_z > Ki_ * MAX => wrench'.z >= 0
       /\ Kp_ * wrench'.err_z < -Ki_ * MAX => wrench'.z < 0]_vars

\* The vector from the vehicle to the target, in the vehicle's own axes.
InVehicleAxes(pose) ==
  Rotated((4 - pose.yaw) % 4, Minus(target_position, pose.position))

\* A vehicle that heads north or south, and does not roll to the right, is given
\* the right errors: those of its own axes, and the shortest way to turn.
LevelErrors(pose) ==
  pose.yaw \in {0, 2} /\ pose.roll <= 0 =>
    /\ wrench'.err_x = InVehicleAxes(pose).x /\ wrench'.err_y = InVehicleAxes(pose).y
    /\ wrench'.err_z = InVehicleAxes(pose).z
    /\ wrench'.err_yaw = Wrapped(-pose.yaw)
RightWhenAligned == [][Timer /\ wrench' # NaN => LevelErrors(current)]_vars

\* controller.cpp:177: "determine the vector between them in local space".
LocalErrors(pose) ==
  /\ wrench'.err_x = InVehicleAxes(pose).x /\ wrench'.err_y = InVehicleAxes(pose).y
ErrorsAreLocal == [][Timer /\ wrench' # NaN => LocalErrors(current)]_vars

\* controller.cpp:197: "generate the wrench to move in that direction".  Of the
\* turn: the error given to pid_yaw_ is the shortest way to the target heading.
TurnsTowardsTarget ==
  [][Timer /\ wrench' # NaN => wrench'.err_yaw = Wrapped(-current.yaw)]_vars
=============================================================================

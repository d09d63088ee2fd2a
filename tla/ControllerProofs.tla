-------------------------- MODULE ControllerProofs --------------------------
(***************************************************************************)
(* Proofs about Controller, for every grid, target position, set of gains  *)
(* and limit.  The node always computes on the last state received, so the *)
(* memory of its PIDs is NaN exactly if it has computed on a NaN.          *)
(*                                                                         *)
(* The first part is about the operations of PID, for all gains, errors,   *)
(* periods and limits.  What is finite stays finite and what is NaN stays  *)
(* NaN through a sum, a product and a clamp; and the clamp of the integral *)
(* bounds what the integral term can do against the proportional term.     *)
(***************************************************************************)
EXTENDS Controller, TLAPS

(* The arithmetic: NaN exactly if an argument is.                          *)

LEMMA SumIsFloat == \A a, b \in Float :
  Sum(a, b) \in Float /\ (Sum(a, b) = NaN <=> (a = NaN \/ b = NaN))
BY PIDAssumption DEF Sum, Float

LEMMA TimesIsFloat == \A k \in Int, a \in Float :
  Times(k, a) \in Float /\ (Times(k, a) = NaN <=> a = NaN)
BY PIDAssumption DEF Times, Float

\* A clamp bounds every number and lets NaN through.
LEMMA ClampBounds == \A f \in Float, limit \in Nat :
  /\ Clamp(f, limit) \in -limit .. limit \cup {NaN}
  /\ Clamp(f, limit) = NaN <=> f = NaN
<1> SUFFICES ASSUME NEW f \in Float, NEW limit \in Nat
             PROVE  /\ Clamp(f, limit) \in -limit .. limit \cup {NaN}
                    /\ Clamp(f, limit) = NaN <=> f = NaN
  OBVIOUS
<1>1. CASE f = NaN
  BY <1>1, PIDAssumption DEF Clamp
<1>2. CASE f \in Int
  <2>1. Clamp(f, limit) \in -limit .. limit
    BY <1>2 DEF Clamp
  <2>2. Clamp(f, limit) # NaN /\ f # NaN
    BY <1>2, <2>1, PIDAssumption
  <2> QED
    BY <2>1, <2>2
<1> QED
  BY <1>1, <1>2 DEF Float

LEMMA DtPositive == \A period \in Nat : Dt(period) \in Nat /\ Dt(period) > 0
BY DEF Dt

\* The integral is NaN exactly if it was or the error is.
LEMMA IntegralIsFloat ==
  ASSUME NEW pid \in PID, NEW err \in Float, NEW dt \in Nat
  PROVE  /\ Integral(pid, err, dt) \in -1000 * MAX .. 1000 * MAX \cup {NaN}
         /\ Integral(pid, err, dt) = NaN <=> (pid.integral_ = NaN \/ err = NaN)
<1> DEFINE added == Times(dt, err)
           raw == Sum(pid.integral_, added)
           limit == 1000 * MAX
<1>1. limit \in Nat /\ -limit = -1000 * MAX
  BY PIDAssumption
<1>2. pid.integral_ \in Float
  BY <1>1, PIDAssumption DEF PID, Float
<1>3. added \in Float /\ (added = NaN <=> err = NaN)
  BY TimesIsFloat
<1> HIDE DEF added
<1>4. raw \in Float /\ (raw = NaN <=> (pid.integral_ = NaN \/ added = NaN))
  BY <1>2, <1>3, SumIsFloat
<1>5. Integral(pid, err, dt) = Clamp(raw, limit)
  BY DEF Integral, added
<1> HIDE DEF raw, limit
<1>6. /\ Integral(pid, err, dt) \in -limit .. limit \cup {NaN}
      /\ Integral(pid, err, dt) = NaN <=> raw = NaN
  BY <1>1, <1>4, <1>5, ClampBounds
<1> QED
  BY <1>1, <1>3, <1>4, <1>6 DEF limit

\* The output is NaN exactly if the error, the integral or the previous error is.
LEMMA OutputIsFloat ==
  ASSUME NEW pid \in PID, NEW err \in Float, NEW integral \in Float, NEW dt \in Nat, dt > 0
  PROVE  /\ Output(pid, err, integral, dt) \in -MAX .. MAX \cup {NaN}
         /\ Output(pid, err, integral, dt) = NaN <=> (err = NaN \/ integral = NaN \/ pid.prev_err_ = NaN)
<1> DEFINE p == Times(1000 * dt * Kp_, err)
           i == Times(dt * Ki_, integral)
           step == Sum(err, Times(-1, pid.prev_err_))
           d == Times(1000000 * Kd_, step)
           terms == Sum(p, Sum(i, d))
           quotient == IF terms \in Int THEN terms \div (1000 * dt) ELSE NaN
<1>1. 1000 * dt * Kp_ \in Int /\ dt * Ki_ \in Int /\ 1000000 * Kd_ \in Int
  BY PIDAssumption
<1>2. pid.prev_err_ \in Float
  BY DEF PID
<1>3. p \in Float /\ (p = NaN <=> err = NaN)
  BY <1>1, TimesIsFloat
<1>4. i \in Float /\ (i = NaN <=> integral = NaN)
  BY <1>1, TimesIsFloat
<1>5. step \in Float /\ (step = NaN <=> (err = NaN \/ pid.prev_err_ = NaN))
  <2>1. Times(-1, pid.prev_err_) \in Float /\ (Times(-1, pid.prev_err_) = NaN <=> pid.prev_err_ = NaN)
    BY <1>2, TimesIsFloat
  <2> QED
    BY <2>1, SumIsFloat
<1> HIDE DEF step
<1>6. d \in Float /\ (d = NaN <=> step = NaN)
  BY <1>1, <1>5, TimesIsFloat
<1> HIDE DEF p, i, d
<1>7. terms \in Float /\ (terms = NaN <=> (p = NaN \/ i = NaN \/ d = NaN))
  <2>1. Sum(i, d) \in Float /\ (Sum(i, d) = NaN <=> (i = NaN \/ d = NaN))
    BY <1>4, <1>6, SumIsFloat
  <2> QED
    BY <1>3, <2>1, SumIsFloat
<1> HIDE DEF terms
<1>8. quotient \in Float /\ (quotient = NaN <=> terms = NaN)
  <2>1. CASE terms \in Int
    <3>1. 1000 * dt \in Nat /\ 1000 * dt > 0
      OBVIOUS
    <3>2. terms \div (1000 * dt) \in Int
      BY <2>1, <3>1
    <3> QED
      BY <2>1, <3>2, PIDAssumption DEF Float
  <2>2. CASE terms = NaN
    BY <2>2, PIDAssumption DEF Float
  <2> QED
    BY <1>7, <2>1, <2>2 DEF Float
<1>9. Output(pid, err, integral, dt) = Clamp(quotient, MAX)
  BY DEF Output, quotient, terms, p, i, d, step
<1> HIDE DEF quotient
<1>10. /\ Output(pid, err, integral, dt) \in -MAX .. MAX \cup {NaN}
       /\ Output(pid, err, integral, dt) = NaN <=> quotient = NaN
  BY <1>8, <1>9, ClampBounds, PIDAssumption
<1> QED
  BY <1>3, <1>4, <1>5, <1>6, <1>7, <1>8, <1>10

\* With a steady error the derivative term is zero, and an integral within its
\* limits cannot outweigh a proportional term beyond Ki_ * MAX.
LEMMA OutputOpposes ==
  ASSUME NEW pid \in PID, NEW err \in Int, pid.prev_err_ = err,
         NEW integral \in -1000 * MAX .. 1000 * MAX, NEW dt \in Nat, dt > 0
  PROVE  /\ Kp_ * err > Ki_ * MAX => Output(pid, err, integral, dt) >= 0
         /\ Kp_ * err < -Ki_ * MAX => Output(pid, err, integral, dt) < 0
<1> DEFINE margin == Kp_ * err
           wound == Ki_ * integral
           D == 1000 * dt
           terms == D * margin + dt * wound
<1>1. Kp_ \in Nat /\ Ki_ \in Nat /\ Kd_ \in Nat /\ MAX \in Nat /\ MAX > 0
  BY PIDAssumption
<1>2. margin \in Int /\ wound \in Int /\ D \in Nat /\ D > 0 /\ terms \in Int
  BY <1>1
<1>3. wound >= -1000 * (Ki_ * MAX) /\ wound <= 1000 * (Ki_ * MAX)
  <2>1. integral + 1000 * MAX >= 0 /\ 1000 * MAX - integral >= 0
    BY <1>1
  <2>2. Ki_ * (integral + 1000 * MAX) >= 0 /\ Ki_ * (1000 * MAX - integral) >= 0
    BY <1>1, <2>1
  <2> QED
    BY <1>1, <2>2
<1>4. Output(pid, err, integral, dt) = Clamp(terms \div D, MAX)
  <2>1. Times(1000 * dt * Kp_, err) = D * margin
    BY <1>1 DEF Times
  <2>2. Times(dt * Ki_, integral) = dt * wound
    BY <1>1 DEF Times
  <2>3. Sum(err, Times(-1, pid.prev_err_)) = 0
    BY DEF Sum, Times
  <2>4. Times(1000000 * Kd_, 0) = 0
    BY <1>1 DEF Times
  <2>5. D * margin \in Int /\ dt * wound \in Int
    BY <1>2
  <2> HIDE DEF D, margin, wound
  <2>6. Sum(dt * wound, 0) = dt * wound
    BY <2>5 DEF Sum
  <2>7. Sum(D * margin, dt * wound) = terms
    BY <2>5 DEF Sum
  <2> HIDE DEF terms
  <2> QED
    BY <1>2, <2>1, <2>2, <2>3, <2>4, <2>6, <2>7 DEF Output, D
<1>5. terms = dt * (1000 * margin + wound)
  BY <1>1, <1>2
<1>6. CASE margin > Ki_ * MAX
  <2>1. 1000 * margin + wound > 0
    BY <1>1, <1>2, <1>3, <1>6
  <2>2. terms >= 0
    BY <1>2, <1>5, <2>1
  <2>3. terms \div D \in Int /\ terms \div D >= 0
    BY <1>2, <2>2
  <2> HIDE DEF terms, D
  <2>4. Clamp(terms \div D, MAX) >= 0
    BY <1>1, <2>3 DEF Clamp
  <2>5. ~(margin < -Ki_ * MAX)
    BY <1>1, <1>2, <1>6
  <2> QED
    BY <1>4, <2>4, <2>5
<1>7. CASE margin < -Ki_ * MAX
  <2>1. 1000 * margin + wound < 0
    BY <1>1, <1>2, <1>3, <1>7
  <2>2. terms < 0
    BY <1>2, <1>5, <2>1
  <2>3. terms \div D \in Int /\ terms \div D < 0
    BY <1>2, <2>2
  <2> HIDE DEF terms, D
  <2>4. Clamp(terms \div D, MAX) < 0
    BY <1>1, <2>3 DEF Clamp
  <2>5. ~(margin > Ki_ * MAX)
    BY <1>1, <1>2, <1>7
  <2> QED
    BY <1>4, <2>4, <2>5
<1> QED
  BY <1>6, <1>7

-----------------------------------------------------------------------------
(* The controller.                                                         *)

\* Without a NaN the PID's memory is finite; one NaN stays in its integral.
MemoryOfNaN ==
  /\ pid_z_.integral_ = NaN <=> ticks_nan
  /\ ~ticks_nan => pid_z_.prev_err_ \in Int

CInv ==
  /\ TypeOK
  /\ current = received
  /\ MemoryOfNaN
  /\ NaNStopsForGood

\* The poses that are finite, and those the node may hold.
Finite == Pose \cup {Unset}

LEMMA PoseFields == \A pose \in Finite :
  /\ pose.position \in Vector
  /\ pose.yaw \in 0 .. 3 /\ pose.roll \in {-1, 0, 1}
<1>1. ASSUME NEW pose \in Pose
      PROVE  /\ pose.position \in Vector
             /\ pose.yaw \in 0 .. 3 /\ pose.roll \in {-1, 0, 1}
  <2>1. Position \subseteq Vector
    BY ControllerAssumption DEF Position, Vector
  <2>2. pose.position \in Position /\ pose.yaw \in 0 .. 3 /\ pose.roll \in {-1, 0, 1}
    BY DEF Pose
  <2> QED
    BY <2>1, <2>2
<1>2. /\ Unset.position \in Vector
      /\ Unset.yaw \in 0 .. 3 /\ Unset.roll \in {-1, 0, 1}
  BY DEF Unset, Vector
<1> QED
  BY <1>1, <1>2 DEF Finite

\* NaN is not a pose.
LEMMA FiniteIsNotNaN == NaN \notin Finite
<1>1. ASSUME NEW pose \in Finite PROVE pose # NaN
  <2>1. CASE pose \in Pose
    <3>1. Position \subseteq Vector
      BY ControllerAssumption DEF Position, Vector
    <3>2. pose \in [position : Vector, yaw : Int, roll : Int]
      BY <2>1, <3>1 DEF Pose
    <3> QED
      BY <3>2, ControllerAssumption
  <2>2. CASE pose = Unset
    <3>1. pose \in [position : Vector, yaw : Int, roll : Int]
      BY <2>2 DEF Unset, Vector
    <3> QED
      BY <3>1, ControllerAssumption
  <2> QED
    BY <2>1, <2>2 DEF Finite
<1> QED
  BY <1>1

LEMMA RotatedType == \A q \in 0 .. 3, v \in Vector : Rotated(q, v) \in Vector
<1> SUFFICES ASSUME NEW q \in 0 .. 3, NEW v \in Vector
             PROVE  Rotated(q, v) \in Vector
  OBVIOUS
<1>1. q = 0 \/ q = 1 \/ q = 2 \/ q = 3
  OBVIOUS
<1> QED
  BY <1>1 DEF Rotated, Vector

LEMMA WrappedType == \A q \in Int : Wrapped(q) \in -1 .. 2
BY DEF Wrapped

LEMMA RelativeType == \A pose \in Finite : RelativePosition(pose) \in Vector
<1> SUFFICES ASSUME NEW pose \in Finite PROVE RelativePosition(pose) \in Vector
  OBVIOUS
<1>1. pose.position \in Vector /\ pose.yaw \in 0 .. 3
  BY PoseFields
<1>2. Minus(target_position, pose.position) \in Vector
  BY <1>1, ControllerAssumption DEF Minus, Vector
<1> QED
  BY <1>1, <1>2, RotatedType DEF RelativePosition

\* The wrench of a finite pose and a finite thrust is finite.
LEMMA WrenchType ==
  ASSUME NEW pose \in Finite, NEW thrust \in -MAX .. MAX
  PROVE  generate_wrench(pose, thrust) \in Wrench
<1> DEFINE rel == RelativePosition(pose)
           euler == EulerAngles(-pose.roll, -pose.yaw)
<1>1. pose.yaw \in 0 .. 3 /\ pose.roll \in Int
  BY PoseFields
<1>2. rel \in Vector
  BY RelativeType
<1>3. euler.roll \in 0 .. 2 /\ euler.pitch \in 0 .. 2 /\ euler.yaw \in -1 .. 2
  <2>1. Wrapped(-pose.yaw) \in -1 .. 2 /\ Wrapped(-pose.yaw + 2) \in -1 .. 2
    BY <1>1, WrappedType
  <2>2. CASE Flips(-pose.roll)
    BY <2>1, <2>2 DEF EulerAngles
  <2>3. CASE ~Flips(-pose.roll)
    BY <2>1, <2>3 DEF EulerAngles
  <2> QED
    BY <2>2, <2>3
<1>4. generate_wrench(pose, thrust) =
        [x |-> 2, z |-> thrust, err_x |-> rel.x, err_y |-> rel.y, err_z |-> rel.z,
         err_roll |-> euler.roll, err_pitch |-> euler.pitch, err_yaw |-> euler.yaw]
  BY DEF generate_wrench
<1> HIDE DEF rel, euler
<1>5. rel.x \in Int /\ rel.y \in Int /\ rel.z \in Int
  BY <1>2 DEF Vector
<1> QED
  BY <1>3, <1>4, <1>5 DEF Wrench

\* What one tick computes.  The thrust is NaN exactly if the pose is, or the PID
\* remembers a NaN.
LEMMA TickThrust ==
  ASSUME TypeOK, NEW period \in Periods
  PROVE  /\ ErrZ(current) \in Float /\ (ErrZ(current) = NaN <=> current = NaN)
         /\ Updated(pid_z_, ErrZ(current), period) \in PID
         /\ Updated(pid_z_, ErrZ(current), period).prev_err_ = ErrZ(current)
         /\ Updated(pid_z_, ErrZ(current), period).integral_ = NaN
              <=> (pid_z_.integral_ = NaN \/ current = NaN)
         /\ Returned(pid_z_, ErrZ(current), period) \in -MAX .. MAX \cup {NaN}
         /\ Returned(pid_z_, ErrZ(current), period) = NaN
              <=> (current = NaN \/ pid_z_.integral_ = NaN \/ pid_z_.prev_err_ = NaN)
<1> DEFINE err == ErrZ(current)
           dt == Dt(period)
           integral == Integral(pid_z_, err, dt)
<1>1. pid_z_ \in PID /\ dt \in Nat /\ dt > 0
  BY DtPositive, ControllerAssumption DEF TypeOK
<1>2. err \in Float /\ (err = NaN <=> current = NaN)
  <2>1. CASE current = NaN
    BY <2>1 DEF ErrZ, Float
  <2>2. CASE current # NaN
    <3>1. RelativePosition(current) \in Vector
      BY <2>2, RelativeType DEF TypeOK, Finite
    <3>2. err = RelativePosition(current).z /\ err \in Int
      BY <2>2, <3>1 DEF ErrZ, Vector
    <3> QED
      BY <2>2, <3>2, PIDAssumption DEF Float
  <2> QED
    BY <2>1, <2>2
<1>3. Updated(pid_z_, err, period) = [integral_ |-> integral, prev_err_ |-> err]
  BY DEF Updated
<1>4. Returned(pid_z_, err, period) = Output(pid_z_, err, integral, dt)
  BY DEF Returned
<1> HIDE DEF err, dt
<1>5. /\ integral \in -1000 * MAX .. 1000 * MAX \cup {NaN}
      /\ integral = NaN <=> (pid_z_.integral_ = NaN \/ err = NaN)
  BY <1>1, <1>2, IntegralIsFloat
<1> HIDE DEF integral
<1>6. integral \in Float
  BY <1>5, PIDAssumption DEF Float
<1>7. /\ Output(pid_z_, err, integral, dt) \in -MAX .. MAX \cup {NaN}
      /\ Output(pid_z_, err, integral, dt) = NaN
           <=> (err = NaN \/ integral = NaN \/ pid_z_.prev_err_ = NaN)
  BY <1>1, <1>2, <1>6, OutputIsFloat
<1>8. Updated(pid_z_, err, period) \in PID
  BY <1>2, <1>3, <1>5 DEF PID
<1>9. /\ Updated(pid_z_, err, period).prev_err_ = err
      /\ Updated(pid_z_, err, period).integral_ = integral
  BY <1>3
<1> QED
  BY <1>2, <1>4, <1>5, <1>7, <1>8, <1>9 DEF err

-----------------------------------------------------------------------------
(* The invariant.                                                          *)

LEMMA InitInv == Init => CInv
<1> SUFFICES ASSUME Init PROVE CInv
  OBVIOUS
<1>1. /\ current = Unset /\ received = Unset /\ pid_z_ = NewPID /\ wrench = NoWrench
      /\ stopped = TRUE /\ ticks_nan = FALSE
  BY DEF Init
<1>2. stopped \in BOOLEAN /\ ticks_nan \in BOOLEAN
  BY <1>1
<1>3. pid_z_ \in PID
  BY <1>1, PIDAssumption DEF NewPID, PID, Float
<1>4. TypeOK
  BY <1>1, <1>2, <1>3 DEF TypeOK
<1>5. MemoryOfNaN
  BY <1>1, PIDAssumption DEF MemoryOfNaN, NewPID
<1>6. current = received
  BY <1>1
<1>7. NaNStopsForGood
  BY <1>1 DEF NaNStopsForGood
<1> QED
  BY <1>4, <1>5, <1>6, <1>7 DEF CInv

LEMMA StateInv == ASSUME CInv, NEW pose \in Pose \cup {NaN}, state_callback(pose) PROVE CInv'
<1>1. /\ current' = pose /\ received' = pose
      /\ UNCHANGED <<pid_z_, wrench, stopped, ticks_nan>>
  BY DEF state_callback, Kept
<1>2. TypeOK'
  BY <1>1 DEF CInv, TypeOK
<1> QED
  BY <1>1, <1>2 DEF CInv, MemoryOfNaN, NaNStopsForGood

\* A tick leaves a NaN thrust exactly if the NaN is that of this or an earlier
\* pose, and then stops the thrusters.
LEMMA TimerInv ==
  ASSUME CInv, NEW period \in Periods, timer_callback(period)
  PROVE  CInv'
<1> DEFINE thrust == Returned(pid_z_, ErrZ(current), period)
<1>1. /\ pid_z_' = Updated(pid_z_, ErrZ(current), period)
      /\ wrench' = IF thrust = NaN THEN NaN ELSE generate_wrench(current, thrust)
      /\ stopped' = (wrench' = NaN)
      /\ ticks_nan' = (ticks_nan \/ received = NaN)
      /\ UNCHANGED <<current, received>>
  BY DEF timer_callback
<1>2. TypeOK /\ current = received /\ MemoryOfNaN
  BY DEF CInv
<1>3. /\ pid_z_' \in PID
      /\ pid_z_'.prev_err_ = ErrZ(current)
      /\ pid_z_'.integral_ = NaN <=> (pid_z_.integral_ = NaN \/ current = NaN)
      /\ ErrZ(current) \in Float /\ (ErrZ(current) = NaN <=> current = NaN)
      /\ thrust \in -MAX .. MAX \cup {NaN}
      /\ thrust = NaN <=> (current = NaN \/ pid_z_.integral_ = NaN \/ pid_z_.prev_err_ = NaN)
  BY <1>1, <1>2, TickThrust
<1> HIDE DEF thrust
<1>4. stopped' \in BOOLEAN /\ ticks_nan' \in BOOLEAN
  BY <1>1
<1>5. ticks_nan' <=> (pid_z_.integral_ = NaN \/ current = NaN)
  BY <1>1, <1>2 DEF MemoryOfNaN
<1>6. MemoryOfNaN'
  <2>1. ASSUME ~ticks_nan' PROVE pid_z_'.prev_err_ \in Int
    BY <1>3, <1>5, <2>1 DEF Float
  <2> QED
    BY <1>3, <1>5, <2>1 DEF MemoryOfNaN
<1>7. thrust = NaN <=> ticks_nan'
  <2>1. ~ticks_nan => pid_z_.prev_err_ # NaN
    BY <1>2, PIDAssumption DEF MemoryOfNaN
  <2>2. ~ticks_nan' => ~ticks_nan
    BY <1>1
  <2> QED
    BY <1>3, <1>5, <2>1, <2>2
<1>8. /\ wrench' \in Wrench \cup {NaN} /\ wrench' # NoWrench
      /\ wrench' = NaN <=> thrust = NaN
  <2>1. CASE thrust = NaN
    BY <1>1, <2>1, WrenchAssumption
  <2>2. CASE thrust # NaN
    <3>1. current \in Finite
      BY <1>2, <1>3, <2>2 DEF TypeOK, Finite
    <3>2. wrench' = generate_wrench(current, thrust)
      BY <1>1, <2>2
    <3>3. wrench' \in Wrench
      BY <1>3, <2>2, <3>1, <3>2, WrenchType
    <3> QED
      BY <2>2, <3>3, WrenchAssumption
  <2> QED
    BY <2>1, <2>2
<1>9. TypeOK'
  BY <1>1, <1>2, <1>3, <1>4, <1>8 DEF TypeOK
<1>10. NaNStopsForGood'
  <2>1. stopped' <=> thrust = NaN
    BY <1>1, <1>8
  <2> QED
    BY <1>7, <2>1 DEF NaNStopsForGood
<1> QED
  BY <1>1, <1>2, <1>6, <1>9, <1>10 DEF CInv

LEMMA NextInv == ASSUME CInv, [Next]_vars PROVE CInv'
<1>1. ASSUME NEW period \in Periods, timer_callback(period) PROVE CInv'
  BY <1>1, TimerInv
<1>2. ASSUME NEW pose \in Pose \cup {NaN}, state_callback(pose) PROVE CInv'
  BY <1>2, StateInv
<1>3. CASE UNCHANGED vars
  BY <1>3 DEF vars, CInv, TypeOK, MemoryOfNaN, NaNStopsForGood
<1> QED
  BY <1>1, <1>2, <1>3 DEF Next, Timer

\* The node computes on the last state received, and remembers a NaN for ever.
THEOREM Inductive == Spec => []CInv
BY InitInv, NextInv, PTL DEF Spec

\* Type correctness: the integral keeps its limits and the wrench of a finite
\* pose is finite, unless the PID remembers a NaN.
THEOREM TypeCorrect == Spec => []TypeOK
<1>1. CInv => TypeOK
  BY DEF CInv
<1> QED
  BY <1>1, Inductive, PTL

\* A command computed on a NaN pose stops the thrusters for good, and nothing
\* else does: the PIDs' integrals keep the NaN.
THEOREM StopsForGood == Spec => []NaNStopsForGood
<1>1. CInv => NaNStopsForGood
  BY DEF CInv
<1> QED
  BY <1>1, Inductive, PTL

\* An error whose proportional term exceeds Ki_ * MAX is thrust against, however
\* the integral has been wound up: the clamp bounds what it can do.
THEOREM Windup == Spec => WindupIsBounded
<1> DEFINE Opposes == /\ Kp_ * wrench'.err_z > Ki_ * MAX => wrench'.z >= 0
                      /\ Kp_ * wrench'.err_z < -Ki_ * MAX => wrench'.z < 0
           Step == Timer /\ wrench' \in Wrench /\ pid_z_.prev_err_ = wrench'.err_z => Opposes
<1>1. ASSUME CInv, Timer, wrench' \in Wrench, pid_z_.prev_err_ = wrench'.err_z
      PROVE  Opposes
  <2>1. PICK period \in Periods : timer_callback(period)
    BY <1>1 DEF Timer
  <2> DEFINE err == ErrZ(current)
             dt == Dt(period)
             integral == Integral(pid_z_, err, dt)
             thrust == Returned(pid_z_, err, period)
  <2>2. TypeOK /\ pid_z_ \in PID
    BY <1>1 DEF CInv, TypeOK
  <2>3. wrench' = IF thrust = NaN THEN NaN ELSE generate_wrench(current, thrust)
    BY <2>1 DEF timer_callback
  <2>4. thrust # NaN /\ wrench' = generate_wrench(current, thrust)
    BY <1>1, <2>3, WrenchAssumption
  <2>5. current # NaN /\ pid_z_.integral_ # NaN
    BY <2>2, <2>4, TickThrust
  <2>6. err = RelativePosition(current).z /\ err \in Int
    <3>1. RelativePosition(current) \in Vector
      BY <2>2, <2>5, RelativeType DEF TypeOK, Finite
    <3> QED
      BY <2>5, <3>1 DEF ErrZ, Vector
  <2>7. wrench'.z = thrust /\ wrench'.err_z = RelativePosition(current).z
    BY <2>4 DEF generate_wrench
  <2>8. dt \in Nat /\ dt > 0
    BY DtPositive, ControllerAssumption
  <2>9. thrust = Output(pid_z_, err, integral, dt)
    BY DEF Returned
  <2> HIDE DEF err, dt
  <2>10. integral \in -1000 * MAX .. 1000 * MAX
    <3>1. err \in Float /\ err # NaN
      BY <2>6, PIDAssumption DEF Float
    <3> QED
      BY <2>2, <2>5, <2>8, <3>1, IntegralIsFloat
  <2> HIDE DEF integral, thrust
  <2>11. pid_z_.prev_err_ = err /\ wrench'.err_z = err
    BY <1>1, <2>6, <2>7
  <2>12. /\ Kp_ * err > Ki_ * MAX => Output(pid_z_, err, integral, dt) >= 0
         /\ Kp_ * err < -Ki_ * MAX => Output(pid_z_, err, integral, dt) < 0
    BY <2>2, <2>6, <2>8, <2>10, <2>11, OutputOpposes
  <2> QED
    BY <2>7, <2>9, <2>11, <2>12
<1>2. ASSUME CInv, [Next]_vars PROVE [Step]_vars
  <2> HIDE DEF Opposes
  <2> QED
    BY <1>1, <1>2
<1> QED
  BY <1>2, Inductive, PTL DEF Spec, WindupIsBounded
-----------------------------------------------------------------------------
(* The errors.  They are those of the vehicle's axes at the headings where  *)
(* the code's rotation is its own inverse, and the turn is the shortest one *)
(* unless the roll makes the first Euler angle flip.                        *)

\* Whatever the PID makes of the pose, the errors of a finite wrench are those of
\* the pose.
LEMMA TickErrors ==
  ASSUME CInv, Timer, wrench' # NaN
  PROVE  /\ current \in Finite
         /\ wrench'.err_x = RelativePosition(current).x
         /\ wrench'.err_y = RelativePosition(current).y
         /\ wrench'.err_z = RelativePosition(current).z
         /\ wrench'.err_yaw = EulerAngles(-current.roll, -current.yaw).yaw
<1>1. PICK period \in Periods : timer_callback(period)
  BY DEF Timer
<1> DEFINE thrust == Returned(pid_z_, ErrZ(current), period)
<1>2. TypeOK /\ pid_z_ \in PID
  BY DEF CInv, TypeOK
<1>3. wrench' = IF thrust = NaN THEN NaN ELSE generate_wrench(current, thrust)
  BY <1>1 DEF timer_callback
<1>4. thrust # NaN /\ wrench' = generate_wrench(current, thrust)
  BY <1>3
<1>5. current # NaN
  BY <1>2, <1>4, TickThrust
<1>6. current \in Finite
  BY <1>2, <1>5 DEF TypeOK, Finite
<1> QED
  BY <1>4, <1>6 DEF generate_wrench

\* The vector to the target has the right components exactly if the heading is north
\* or south, or there is nothing to rotate.
AtTarget(pose) ==
  pose.position.x = target_position.x /\ pose.position.y = target_position.y
Straight(pose) == pose.yaw \in {0, 2} \/ AtTarget(pose)

LEMMA LocalExactly ==
  ASSUME NEW pose \in Finite
  PROVE  /\ RelativePosition(pose).z = InVehicleAxes(pose).z
         /\ /\ RelativePosition(pose).x = InVehicleAxes(pose).x
            /\ RelativePosition(pose).y = InVehicleAxes(pose).y
            <=> Straight(pose)
<1> DEFINE v == Minus(target_position, pose.position)
<1>1. pose.position \in Vector /\ target_position \in Vector /\ pose.yaw \in 0 .. 3
  BY PoseFields, ControllerAssumption
<1>2. /\ v.x \in Int /\ v.y \in Int /\ v.z \in Int
      /\ v.x = 0 /\ v.y = 0 <=> AtTarget(pose)
  BY <1>1 DEF Minus, Vector, AtTarget
<1>3. RelativePosition(pose) = Rotated(pose.yaw, v)
  BY DEF RelativePosition
<1>4. InVehicleAxes(pose) = Rotated((4 - pose.yaw) % 4, v)
  BY DEF InVehicleAxes
<1> HIDE DEF v
<1>5. CASE pose.yaw = 0
  <2>1. (4 - pose.yaw) % 4 = 0
    BY <1>5
  <2> QED
    BY <1>3, <1>4, <1>5, <2>1 DEF Straight
<1>6. CASE pose.yaw = 2
  <2>1. (4 - pose.yaw) % 4 = 2
    BY <1>6
  <2> QED
    BY <1>3, <1>4, <1>6, <2>1 DEF Straight
<1>7. CASE pose.yaw = 1
  <2>1. (4 - pose.yaw) % 4 = 3
    BY <1>7
  <2>2. /\ RelativePosition(pose) = [x |-> -v.y, y |-> v.x, z |-> v.z]
        /\ InVehicleAxes(pose) = [x |-> v.y, y |-> -v.x, z |-> v.z]
    BY <1>3, <1>4, <1>7, <2>1 DEF Rotated
  <2> QED
    BY <1>2, <1>7, <2>2 DEF Straight
<1>8. CASE pose.yaw = 3
  <2>1. (4 - pose.yaw) % 4 = 1
    BY <1>8
  <2>2. /\ RelativePosition(pose) = [x |-> v.y, y |-> -v.x, z |-> v.z]
        /\ InVehicleAxes(pose) = [x |-> -v.y, y |-> v.x, z |-> v.z]
    BY <1>3, <1>4, <1>8, <2>1 DEF Rotated
  <2> QED
    BY <1>2, <1>8, <2>2 DEF Straight
<1> QED
  BY <1>1, <1>5, <1>6, <1>7, <1>8

\* The yaw error is the shortest turn exactly if the vehicle does not roll to the right.
LEMMA TurnExactly ==
  ASSUME NEW pose \in Finite
  PROVE  EulerAngles(-pose.roll, -pose.yaw).yaw = Wrapped(-pose.yaw) <=> pose.roll <= 0
<1>1. pose.yaw \in 0 .. 3 /\ pose.roll \in {-1, 0, 1}
  BY PoseFields
<1>2. Wrapped(-pose.yaw + 2) # Wrapped(-pose.yaw)
  <2>1. pose.yaw = 0 \/ pose.yaw = 1 \/ pose.yaw = 2 \/ pose.yaw = 3
    BY <1>1
  <2> QED
    BY <2>1 DEF Wrapped
<1>3. CASE pose.roll = 1
  <2>1. Flips(-pose.roll)
    BY <1>3 DEF Flips
  <2> QED
    BY <1>2, <1>3, <2>1 DEF EulerAngles
<1>4. CASE pose.roll # 1
  <2>1. ~Flips(-pose.roll) /\ pose.roll <= 0
    BY <1>1, <1>4 DEF Flips
  <2> QED
    BY <2>1 DEF EulerAngles
<1> QED
  BY <1>3, <1>4

\* For all positions, targets, gains and periods: at north and south headings, level
\* or rolled to the left, the errors are those of the vehicle's axes.
THEOREM AlignedErrors == Spec => RightWhenAligned
<1> DEFINE Step == Timer /\ wrench' # NaN => LevelErrors(current)
<1>1. ASSUME CInv, Timer, wrench' # NaN PROVE LevelErrors(current)
  BY <1>1, TickErrors, LocalExactly, TurnExactly DEF LevelErrors, Straight
<1>2. ASSUME CInv, [Next]_vars PROVE [Step]_vars
  BY <1>1, <1>2
<1> QED
  BY <1>2, Inductive, PTL DEF Spec, RightWhenAligned

\* How far the claim of controller.cpp:177 ("in local space") is from the code: the
\* horizontal errors are local exactly at the headings where the vehicle is straight,
\* or above or below the target.
THEOREM LocalExactlyWhenStraight ==
  Spec => [][Timer /\ wrench' # NaN => (LocalErrors(current) <=> Straight(current))]_vars
<1> DEFINE Step == Timer /\ wrench' # NaN => (LocalErrors(current) <=> Straight(current))
<1>1. ASSUME CInv, Timer, wrench' # NaN PROVE LocalErrors(current) <=> Straight(current)
  BY <1>1, TickErrors, LocalExactly DEF LocalErrors
<1>2. ASSUME CInv, [Next]_vars PROVE [Step]_vars
  BY <1>1, <1>2
<1> QED
  BY <1>2, Inductive, PTL DEF Spec

\* The same of the turn: its error is the shortest way exactly if the vehicle does not
\* roll to the right.
THEOREM ShortestTurnExactlyWhenLevel ==
  Spec => [][Timer /\ wrench' # NaN =>
               (wrench'.err_yaw = Wrapped(-current.yaw) <=> current.roll <= 0)]_vars
<1> DEFINE Step == Timer /\ wrench' # NaN =>
                     (wrench'.err_yaw = Wrapped(-current.yaw) <=> current.roll <= 0)
<1>1. ASSUME CInv, Timer, wrench' # NaN
      PROVE  wrench'.err_yaw = Wrapped(-current.yaw) <=> current.roll <= 0
  BY <1>1, TickErrors, TurnExactly
<1>2. ASSUME CInv, [Next]_vars PROVE [Step]_vars
  BY <1>1, <1>2
<1> QED
  BY <1>2, Inductive, PTL DEF Spec
=============================================================================

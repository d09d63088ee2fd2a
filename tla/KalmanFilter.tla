---------------------------- MODULE KalmanFilter ----------------------------
(***************************************************************************)
(* The error-state Kalman filter of kalman.cpp, as the operations its      *)
(* caller uses.  A filter is a record                                      *)
(*                                                                         *)
(*   z       the vertical position estimate x(2): a depth, infinite or NaN *)
(*   finite  no other component of the state vector or covariance is NaN   *)
(*   align   the heading that q_ned_to_world_ cancels (NoHeading: identity)*)
(*                                                                         *)
(* Depth is counted in steps of which Gate make the 0.5 m of updateDepth.  *)
(* How far a fusion moves the estimate depends on the covariance, which is *)
(* not kept: each operation is the set of filters it may return.           *)
(***************************************************************************)
EXTENDS Integers

CONSTANTS NaN,        \* the not-a-number of a depth or a velocity
          Inf, NegInf, \* its infinities
          NoHeading,  \* no alignment yet: q_ned_to_world_ is the identity
          Gate,       \* the 0.5 m residual bound of updateDepth
          Drift,      \* bound: how far z can run away per unit of time
          MinZ, MaxZ  \* bound: the depths and estimates considered

Depth == MinZ .. MaxZ
Infinities == {Inf, NegInf}
Reading == Depth \cup Infinities \cup {NaN}

ASSUME KalmanAssumption ==
  /\ Gate \in Nat
  /\ Drift \in Nat
  /\ MinZ \in Int /\ MaxZ \in Int /\ 0 \in Depth
  /\ NaN \notin Int \cup Infinities
  /\ Inf \notin Int /\ NegInf \notin Int /\ Inf # NegInf

Between(a, b) == IF a <= b THEN a .. b ELSE b .. a

\* KalmanFilter::reset: normalizeQuaternion turns whatever it finds into a unit
\* quaternion, so everything but the position handed in is finite afterwards.
reset(k, z0) == [k EXCEPT !.z = z0, !.finite = TRUE]

\* injectErrorState with a NaN in the residual: the gain times NaN is NaN in
\* every component, zero gains included.
Poisoned(k) == [k EXCEPT !.z = NaN, !.finite = FALSE]

\* The estimate after z moved by at most r.
Moved(k, r) ==
  {[k EXCEPT !.z = w] : w \in {u \in Depth : u - k.z <= r /\ k.z - u <= r}}

\* KalmanFilter::predict: dead reckoning over dt, then the orientation update.
\* A NaN or infinite position stays and spreads nowhere (velocity and covariance
\* do not depend on it); a NaN attitude reaches everything.
predict(k, dt) ==
  IF ~k.finite THEN {Poisoned(k)}
  ELSE IF k.z \notin Depth THEN {k}
  ELSE Moved(k, Drift * dt)

\* The innovation of updateDepth, with IEEE arithmetic: NaN if either side is, and
\* for the difference of an infinity and itself.
Residual(k, d) ==
  IF NaN \in {k.z, d} \/ (d = k.z /\ d \in Infinities) THEN NaN
  ELSE IF d = Inf \/ k.z = NegInf THEN Inf
  ELSE IF d = NegInf \/ k.z = Inf THEN NegInf
  ELSE d - k.z

\* "residual(0) > 0.5 || residual(0) < -0.5": both comparisons with NaN are false.
Above(r, bound) == r = Inf \/ (r \in Int /\ r > bound)
Below(r, bound) == r = NegInf \/ (r \in Int /\ r < bound)
\* The mistake: "residual(0) > 0.5 || std::isinf(residual(0))".
GateRejects_OneSided(r) == Above(r, Gate) \/ r = NegInf
GateRejects(r) == Above(r, Gate) \/ Below(r, -Gate)

\* KalmanFilter::updateDepth.  The scalar gain lies in (0,1), so the estimate
\* ends between itself and the measurement; no infinite residual passes the gate.
updateDepth(k, d) ==
  LET r == Residual(k, d)
  IN  IF GateRejects(r) THEN {k}
      ELSE IF r \notin Int THEN {Poisoned(k)}
      ELSE {[k EXCEPT !.z = w] : w \in Between(k.z, d)}

\* KalmanFilter::updateDVLVelocity: a velocity update, which reaches z through
\* the covariance.
updateDVLVelocity(k, v) ==
  IF v = NaN \/ ~k.finite  THEN {Poisoned(k)}
  ELSE IF k.z \notin Depth THEN {k}
  ELSE Moved(k, Drift)

\* KalmanFilter::updateIMU1 stacks a residual of 9 rows; updateErrorState then
\* adds the R_imu1_ of the node to the 9x9 H*P*H^T.  The two dimensions differ,
\* and Eigen asserts equality (the packages are built without NDEBUG).
IMU1ResidualRows == 9
R_imu1_Rows == 3
updateIMU1_Asserts == IMU1ResidualRows # R_imu1_Rows
=============================================================================

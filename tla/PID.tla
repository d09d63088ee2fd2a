--------------------------------- MODULE PID ---------------------------------
(***************************************************************************)
(* One PID (pid.cpp), as the operations of its caller: a PID is the record *)
(* of its integral_ and prev_err_.  Nobody calls set_target, so target_ is *)
(* 0.  Errors are integers and times are in milliseconds, so the integral  *)
(* is in units of 1/1000.  Any of these floats may be NaN.                 *)
(***************************************************************************)
EXTENDS Integers

CONSTANTS Kp_, Ki_, Kd_, \* gains
          MAX,           \* limit of the integral and of the output; MIN is -MAX
          NaN

ASSUME PIDAssumption ==
  /\ Kp_ \in Nat /\ Ki_ \in Nat /\ Kd_ \in Nat /\ MAX \in Nat \ {0}
  /\ NaN \notin Int

Float == Int \cup {NaN}
PID == [integral_ : -1000 * MAX .. 1000 * MAX \cup {NaN}, prev_err_ : Float]

NewPID == [integral_ |-> 0, prev_err_ |-> 0]

\* Arithmetic: a NaN operand makes a NaN.
Sum(a, b) == IF a \in Int /\ b \in Int THEN a + b ELSE NaN
Times(k, a) == IF a \in Int THEN k * a ELSE NaN

\* The two if statements of a clamp: neither holds of NaN.  (X_Something is a
\* plausible mistake in X, used to test that the properties notice it.)
Clamp_Above(f, limit) == IF f \in Int /\ f > limit THEN limit ELSE f
Clamp(f, limit) ==
  IF f \notin Int THEN f
  ELSE IF f < -limit THEN -limit
  ELSE IF f > limit THEN limit
  ELSE f

\* Protection against division by zero.
Dt(period) == IF period < 1 THEN 1 ELSE period

Integral_NoLimit(pid, err, dt) == Sum(pid.integral_, Times(dt, err))
Integral(pid, err, dt) == Clamp(Sum(pid.integral_, Times(dt, err)), 1000 * MAX)

\* p_term + i_term + d_term, rounded down to an integer.
Output(pid, err, integral, dt) ==
  LET terms == Sum(Times(1000 * dt * Kp_, err),
                   Sum(Times(dt * Ki_, integral),
                       Times(1000000 * Kd_, Sum(err, Times(-1, pid.prev_err_)))))
  IN  Clamp(IF terms \in Int THEN terms \div (1000 * dt) ELSE NaN, MAX)

\* update: the PID afterwards, and what it returns.
Updated(pid, err, period) ==
  [integral_ |-> Integral(pid, err, Dt(period)), prev_err_ |-> err]
Returned(pid, err, period) ==
  Output(pid, err, Integral(pid, err, Dt(period)), Dt(period))
=============================================================================

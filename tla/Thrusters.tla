------------------------------ MODULE Thrusters ------------------------------
(***************************************************************************)
(* The vehicle's eight thrusters as the code knows them: the bits of the   *)
(* motor board (motorboard.h, MotorCalls) and the configuration matrix of  *)
(* the controller (controller.cpp).  Thrusters are numbered by their bit;  *)
(* the numbers of the matrix are in units of 1/10000.                      *)
(***************************************************************************)
EXTENDS Integers, FiniteSets

Thruster == 0 .. 7

\* A mask is the set of its bits.
FRONT_LEFT == {7}
FRONT_RIGHT == {1}
BACK_RIGHT == {3}
BACK_LEFT == {5}
FRONT_YAW == {0}
BACK_YAW == {4}
FORWARD_RIGHT == {2}
FORWARD_LEFT == {6}

\* X_Something is a plausible mistake in X, used to test that the properties
\* notice it.  VERTICAL_Stale has the bits of the copy in controller.hpp.
VERTICAL_Stale == {0, 2, 4, 6}
VERTICAL == FRONT_LEFT \cup FRONT_RIGHT \cup BACK_RIGHT \cup BACK_LEFT
FORWARD == FORWARD_RIGHT \cup FORWARD_LEFT
LATERAL == FRONT_YAW \cup BACK_YAW
ALL == Thruster

\* One row of the matrix: the contributions of thrusters 0 to 7.
Row(a, b, c, d, e, f, g, h) ==
  [i \in Thruster |-> CASE i = 0 -> a [] i = 1 -> b [] i = 2 -> c [] i = 3 -> d
                        [] i = 4 -> e [] i = 5 -> f [] i = 6 -> g [] i = 7 -> h]

configuration ==
  [Fx |-> Row(0, 0, 10000, 0, 0, 0, 10000, 0),
   Fy |-> Row(-10000, 0, 0, 0, 10000, 0, 0, 0),
   Fz |-> Row(0, 10000, 0, 10000, 0, 10000, 0, 10000),
   Tx |-> Row(1302, 1654, 0, 1654, -1302, -1648, 0, -1648),
   Ty |-> Row(0, 3125, -159, -2878, 0, -2878, -159, 3125),
   Tz |-> Row(-3142, 0, -2739, 0, -3022, 0, 2734, 0)]

Axes == DOMAIN configuration
Forces == {"Fx", "Fy", "Fz"}

\* The force or moment of the given thrusts along one axis.
Along(axis, thrust) ==
  LET c(i) == configuration[axis][i] * thrust[i]
  IN  c(0) + c(1) + c(2) + c(3) + c(4) + c(5) + c(6) + c(7)
=============================================================================

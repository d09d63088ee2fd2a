---------------------------- MODULE MCMotorboard ----------------------------
(* Speeds in both directions, to the ends of the range [-100, 100] that      *)
(* ThrusterCommand.msg gives.                                               *)
EXTENDS Motorboard

MCSpeeds == {-100, -1, 100}
=============================================================================

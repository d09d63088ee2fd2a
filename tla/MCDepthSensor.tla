---------------------------- MODULE MCDepthSensor ----------------------------
(* DepthSensor with more lines than the tty holds, so that lines are printed *)
(* before, between and after the reads of several drains.                    *)
EXTENDS DepthSensor
=============================================================================

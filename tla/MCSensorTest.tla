---------------------------- MODULE MCSensorTest ----------------------------
(* The nine entries of the sensor list, dead or alive in every combination. *)
EXTENDS SensorTest

MCSensors == {"D455 Color", "D455 Depth", "D455 IMU", "D405 Color", "D405 Depth",
              "Xsens Euler", "Pressure Depth", "DVL Odometry", "Motor Command"}
=============================================================================

SPECIFICATION Spec
CONSTANT Sensors <- MCSensors
INVARIANTS
  TypeOK
  OneHonestVerdict
  WorkingSensorsStayUp
PROPERTY
  DeadSensorStopsLaunch
\* The test may pass, or end: nothing happens then.
CHECK_DEADLOCK FALSE

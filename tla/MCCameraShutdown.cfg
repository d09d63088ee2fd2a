SPECIFICATION FairSpec
CONSTANTS
  Capacity = 2
  Period = 0
  SavePeriod = 2
  MaxTime = 1
  Never = Never
PROPERTY
  ShutdownCompletes
\* The node stops when its destructor has returned.
CHECK_DEADLOCK FALSE

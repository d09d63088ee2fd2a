SPECIFICATION FairFeed
CONSTANTS
  Capacity = 2
  Period = 2
  SavePeriod = 2
  MaxTime = 6
  Never = Never
  Cameras = {"front"}
  Camera = "front"
  Timeout = 1
  MaxSkew = 1
  Depth = 1
  Width = 4
  Height = 2
  InputW = 2
  InputH = 2
  Shrink = 2
  Threshold = 50
  ClassNames <- MCClassNames
  findContours <- MCfindContours
  Output0 <- MCOutput0
  DepthImage <- MCDepthImage
  NaN = NaN
  Nothing = Nothing
  NoSignal = NoSignal
  Closed = Closed
INVARIANTS
  TypeOK
  NoSleepOnWork
  NewestFramesKept
  LatencyBounded
  AtMostOneJobAfterStop
  DistanceIsTheObjects
PROPERTIES
  ImplementsFrameStream
  CleanShutdown
  DeadInferenceIsObvious
\* The node stops when its destructor has returned.
CHECK_DEADLOCK FALSE

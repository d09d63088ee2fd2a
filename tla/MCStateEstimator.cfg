SPECIFICATION FairSpec
CONSTANTS
  NaN = NaN
  Inf = Inf
  NegInf = NegInf
  NoHeading = NoHeading
  NoPose = NoPose
  h1 = h1
  h2 = h2
  Gate = 1
  Drift = 1
  MinZ = 0
  MaxZ = 2
  MaxStamp = 3
  MaxBack = 1
  DtMin = 1
  Headings <- MCHeadings
INVARIANTS
  TypeOK
  AnchoredWhenBothSeen
  SilentBeforeAnchor
  NoIntervalFusedTwice
  NonFiniteExactlyByDepth
PROPERTIES
  DtIsBetweenMessages
  DepthCannotTeleport
  ImplementsMissionFrame
  EventuallyPublishes
\* The IMU1 assertion aborts the process: the node really stops.
CHECK_DEADLOCK FALSE

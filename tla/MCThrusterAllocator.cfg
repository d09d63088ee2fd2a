SPECIFICATION Spec
CONSTANTS
  Count = 3
  Unit = 1
  Thrusts <- MCThrusts
  NaN = NaN
INVARIANTS
  SpeedsInRange
  KeepsDirection

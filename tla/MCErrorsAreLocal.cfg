SPECIFICATION Spec
CONSTANTS
  Kp_ = 3
  Ki_ = 1
  Kd_ = 1
  MAX = 1
  Coordinates = {0, 2}
  target_position <- MCTarget
  Periods = {200, 400}
  NaN = NaN
  NoWrench = NoWrench
PROPERTY
  ErrorsAreLocal

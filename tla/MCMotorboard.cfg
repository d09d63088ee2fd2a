SPECIFICATION Spec
CONSTANTS
  Speeds <- MCSpeeds
  NoCommand = NoCommand
INVARIANTS
  TypeOK
  EachGroupObeysItsLast
  MovementsMatchMatrix

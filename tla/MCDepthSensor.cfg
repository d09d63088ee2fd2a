SPECIFICATION Spec
CONSTANTS
  MaxLines = 6
  TtySize = 3
  NoLine = NoLine
INVARIANTS
  TypeOK
  PublishedInOrder
PROPERTY
  NeverLagsBehind

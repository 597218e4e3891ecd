SPECIFICATION Spec
CONSTANTS
  x = x
  y = y
  NL = NL
  None = None
  Ids <- MCIds
  Sources <- MCSources
  Headers <- MCHeaders
  Expansions <- MCExpansions
  MaxLen = 7
  MaxOver = 2
INVARIANTS
  OvershootAtEnd
PROPERTY ImplementsStream
CHECK_DEADLOCK FALSE

SPECIFICATION Spec
CONSTANTS
  ByteBits = 2
  IntWidth = 2
  Elements = {4, 6, 8, 10}
  ElemWidth = 2
  DoubleMax = 512
  Visitors <- MCVisitors
  MaxNodes = 4
  Leaves <- MCLeaves
  Garbage = {0, 63}
  Fields <- MCFields
PROPERTIES
  CodeAsStandard
  FoldingAsStandard
CHECK_DEADLOCK FALSE

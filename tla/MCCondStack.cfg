SPECIFICATION Spec
CONSTANTS
  Names = {"STDC", "M"}
  Predefined = {"STDC"}
  MaxStack = 5
INVARIANTS
  TopDecides
  SegmentShape
  IInv
PROPERTIES
  SkippedTextIsInert
  ImplementsGroups
CHECK_DEADLOCK FALSE

SPECIFICATION MCSpec
CONSTANTS
  x = x
  y = y
  S = S
  T = T
  NoName = NoName
  NoTag = NoTag
  Names <- MCNames
  Keys <- MCKeys
  Inputs <- MCInputs
  TagInputs <- MCTagInputs
  MaxRead = 4
  MaxDepth = 3
  MaxSpecified = 4
  MaxAround = 2
  Gaps = {"HiddenCompared", "TypedefIgnored", "LatePrototype", "LengthLost", "TentativeDropped", "LengthNotInherited", "BodyShared", "TypedefBody"}
  TagGaps = {"NestedRefused", "ForwardIgnored", "KindIgnored", "EnumAgain", "EnumAhead", "EnumeratorLost", "MemberHides"}
INVARIANTS
  EmittedOnce
  BodyHasParams
PROPERTIES
  ImplementsLinkage
  ImplementsTags
CHECK_DEADLOCK FALSE

SPECIFICATION Spec
CONSTANTS
  char = char
  int = int
  s1 = s1
  s2 = s2
  Structs <- MCStructs
  Scalars <- MCScalars
  Integral <- MCScalars
  ScalarWidth <- MCWidth
  ScalarAlign <- MCWidth
  Tagged = {}
  Alignas = {2}
  BitWidths = {0, 3, 29}
  MaxMembers <- MCMax
INVARIANTS
  TypeOK
  MembersDisjoint
  NamesInside
  PlainAligned
  SizeMultipleOfAlign
PROPERTY CompleteIsFinal
CHECK_DEADLOCK FALSE

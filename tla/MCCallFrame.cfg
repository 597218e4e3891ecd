SPECIFICATION Spec
CONSTANTS
  o1 = o1
  o2 = o2
  NoFunc = NoFunc
  NoCall = NoCall
  NoStruct = NoStruct
  Types <- MCTypes
  Functions <- MCFunctions
  Calls <- MCCalls
  Scopes <- MCScopes
  NReg = 2
  NXreg = 1
  MaxScopes = 2
  MaxNesting = 2
INVARIANTS
  IInv
  FrameDisjoint
  PopsTakeTheirOwn
  Balanced
  ArgsArrive
  PlainCallAligned
CHECK_DEADLOCK FALSE

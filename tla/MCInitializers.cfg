SPECIFICATION Spec
CONSTANTS
  Types <- MCTypes
  Inputs <- MCInputs
  Margin = 4
  TurnsPerToken = 2
INVARIANTS
  AcceptsAsStandard
  ObjectAsStandard
  TurnsBounded

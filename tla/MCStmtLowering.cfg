SPECIFICATION Spec
CONSTANTS
  LabelNames = {L}
  CaseRanges <- MCCaseRanges
  Statements <- MCStatements
  MaxStmts = 7
INVARIANTS
  IInv
  DestsInnermost
  FlowKept
  TargetsPlaced
CHECK_DEADLOCK FALSE

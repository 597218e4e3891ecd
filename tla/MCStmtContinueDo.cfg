SPECIFICATION Spec
CONSTANTS
  LabelNames = {L}
  CaseRanges <- MCCaseRange
  Statements <- MCStatements
  MaxStmts = 5
INVARIANT ContinueTestsCondition
CHECK_DEADLOCK FALSE

SPECIFICATION Spec
CONSTANTS
  Tables <- MCTables
  Texts <- MCTexts
  Contexts <- MCContexts
INVARIANTS
  OutputSettled
  ExpandsAsAlgorithm
PROPERTY Terminates
CHECK_DEADLOCK FALSE

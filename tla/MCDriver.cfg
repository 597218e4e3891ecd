SPECIFICATION Spec
CONSTANTS
  NInputs = 3
  AsmNames = {"a.s", "b.s", "c.s"}
  Out = "out"
PROPERTIES
  LinksWhatWasCompiled
  QuietAfterSuccess
  Terminates

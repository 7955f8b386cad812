CONSTANTS
  a = a
  b = b
  NumDocs <- MCNumDocs
  Inputs <- MCInputs
SPECIFICATION Spec
INVARIANTS
  DebugAssertionsHold
PROPERTIES
  ImplementsCursor
  CallsReturn
CHECK_DEADLOCK FALSE

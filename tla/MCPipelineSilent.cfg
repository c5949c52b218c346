CONSTANTS
  Virs = {"good"}
  MaxCalls = 1
SPECIFICATION Spec
CHECK_DEADLOCK FALSE
INVARIANTS
  BuildErrorsLand

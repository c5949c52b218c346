CONSTANTS
  Diagnostics <- SmallDiagnostics
  NoDiagnostic = none
  Parts = 2
  MaxLines = 3
  MaxDiags = 2
  VerdictSets <- SmallVerdicts
  MaxEvents = 2
SPECIFICATION Spec
CHECK_DEADLOCK FALSE
INVARIANT
  MarksFollowEdits

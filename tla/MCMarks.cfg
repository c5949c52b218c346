CONSTANTS
  Diagnostics <- SmallDiagnostics
  NoDiagnostic = none
  Parts = 2
  MaxLines = 3
  MaxDiags = 2
  VerdictSets <- SmallVerdicts
  MaxEvents = 3
SPECIFICATION FairSpec
CHECK_DEADLOCK FALSE
INVARIANTS
  TypeOK
  Delivered
  MarksTellTheRun
PROPERTY
  FlashesFade

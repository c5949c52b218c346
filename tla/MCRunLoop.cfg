CONSTANTS
  Docs = {d1, d2}
  NoDoc = noDoc
  MaxEvents = 3
  Tracked <- AllOutputs
SPECIFICATION Spec
SYMMETRY Symmetry
CHECK_DEADLOCK FALSE
INVARIANTS
  TypeOK
  CachesOfOneRun
  ButtonTellsTruth
  ScreenIsOneRun
  EditsVerifiedOnce
  TrapIsVisible
  TabShowsSomething
PROPERTIES
  ScreenGoesForward

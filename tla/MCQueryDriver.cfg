CONSTANTS
  Crates = {vstd, builtin}
  Local = local
  MaxLabel = 3
  ProbeBudget = 2
  MaxModules = 2
  MaxFunctions = 2
  MaxOps = 1
  MaxChecks = 2
SPECIFICATION FairSpec
CHECK_DEADLOCK FALSE
INVARIANTS
  TypeOK
  BudgetHolds
  VerdictsAddUp
  FailuresFound
  HintOnce
  SectionsNest
  BodiesWhole
  AirNeverPanics
PROPERTY
  Terminates

CONSTANTS
  Virs = {"good", "mismatch"}
  MaxCalls = 3
SPECIFICATION Spec
CHECK_DEADLOCK FALSE
INVARIANTS
  TypeOK
  ContractKept
  NoSelfInflictedTrap
  KeepsWhatWasMade
  RunAlwaysSpeaks
  PreludeMatchesBundle

CONSTANTS
  Docs = {d1, d2}
  NoDoc = noDoc
  MaxEvents = 3
  Tracked <- FewOutputs
SPECIFICATION FairSpec
CHECK_DEADLOCK FALSE
PROPERTIES
  AnswersLatest
  ScreenCatchesUp
  ButtonComesBack

CONSTANTS
  e1 = e1
  e2 = e2
  p1 = p1
  p2 = p2
  mine = mine
  stuck = stuck
  None = none
  Docs <- AllDocs
  Examples <- TwoExamples
  First = e1
  Pristine <- TwoTexts
  Links <- Own
  Hanging <- Stuck
  MaxEvents = 2
SPECIFICATION FairSpec
CHECK_DEADLOCK FALSE
INVARIANTS
  TypeOK
  PristineMatches
  WorkKept
PROPERTIES
  UrlGoesForward
  OverridesStayPut
  UrlCatchesUp

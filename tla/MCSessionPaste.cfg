CONSTANTS
  e1 = e1
  e2 = e2
  p1 = p1
  p2 = p2
  mine = mine
  stuck = stuck
  None = none
  Docs <- AllDocs
  Examples <- TwoExamples
  First = e1
  Pristine <- TwoTexts
  Links <- Own
  Hanging <- Stuck
  MaxEvents = 3
SPECIFICATION Spec
CHECK_DEADLOCK FALSE
PROPERTY
  PasteReloads

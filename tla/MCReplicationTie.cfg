SPECIFICATION Spec
CONSTANTS
  Models <- TieOnly
  InstantLimit = 30
  NoNode = NoNode
PROPERTIES OrTakesTheFirstFree
CHECK_DEADLOCK FALSE

SPECIFICATION Spec
CONSTANTS
  NFiles = 1
  MaxForeign = 2
  MaxEdits = 1
  MaxBegun = 1
PROPERTIES KeepMineIsSafe
CHECK_DEADLOCK FALSE

SPECIFICATION Spec
CONSTANTS
  a1 = a1
  a2 = a2
  a3 = a3
  d1 = d1
  Agents <- TwoAgents
  Desktops <- OneDesktop
  Nobody = Nobody
  ATTEMPTS = 2
  MaxSaves = 1
  MaxCrashes = 0
PROPERTIES NothingStoredIsLost
CHECK_DEADLOCK FALSE

SPECIFICATION Spec
CONSTANTS
  w1 = w1
  w2 = w2
  w3 = w3
  Writers <- ThreeWriters
  Leftover = Leftover
  NoFile = NoFile
  NoToken = NoToken
  StartsStale = TRUE
  MaxCrashes = 0
SYMMETRY Interchangeable
INVARIANTS WritersNeverInterleave
CHECK_DEADLOCK FALSE

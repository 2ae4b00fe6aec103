SPECIFICATION FairSpec
CONSTANTS
  Bases = {"a", "b"}
  First = "a"
  Copies = {}
  None = None
  Calls = {1, 2}
  OpenRevisions = {0}
  MaxEvents = 2
PROPERTIES ComparisonNeverHangs
CHECK_DEADLOCK FALSE

SPECIFICATION BothSpec
CONSTANTS
  Calls = {"run1", "run2", "compare"}
  WithLog = {"run1", "run2"}
  Simulations <- Simulated
  MaxOpen = 2
  Free = "free"
  Bases = {"a"}
  First = "a"
  Copies = {"b"}
  None = None
  WebCalls = {1, 2}
  OpenRevisions = {0}
  MaxEvents = 4
INVARIANTS ScreenIsTrue WorkersOwnTheirDescriptor
PROPERTIES RunsGoOn EverySideIsTried ResultsAreWhole EveryCallEnds
CHECK_DEADLOCK FALSE

SPECIFICATION Spec
CONSTANTS
  NoDoc = NoDoc
  Broken = Broken
  Unopenable = Unopenable
  LaunchCopies <- ReadableCopy
  MaySlip = {"restoring"}
  MaxModel = 1
  MaxOther = 0
  MaxCommands = 0
PROPERTIES CopyStaysUntilSaved
CHECK_DEADLOCK FALSE

SPECIFICATION Spec
CONSTANTS
  NoDoc = NoDoc
  Broken = Broken
  Unopenable = Unopenable
  LaunchCopies <- SomeCopies
  MaySlip = {}
  MaxModel = 1
  MaxOther = 1
  MaxCommands = 2
INVARIANTS NothingOldIsOffered UnsavedWorkIsCopied
PROPERTIES CopyStaysInStep NoSilentClose
CHECK_DEADLOCK FALSE

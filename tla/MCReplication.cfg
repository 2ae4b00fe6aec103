SPECIFICATION FairSpec
CONSTANTS
  Models <- AllModels
  InstantLimit = 12
  NoNode = NoNode
INVARIANTS TokensAccounted UnitsComeBack NoUnitIdles StoppedAtIsAModelEvent SoundModelsEnd
PROPERTIES BoundaryWinsTies EveryRunEnds
CHECK_DEADLOCK FALSE

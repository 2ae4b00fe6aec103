SPECIFICATION MCSpec
CONSTANTS
  w1 = w1
  w2 = w2
  a1 = a1
  a2 = a2
  d1 = d1
  Agents <- TwoAgents
  Desktops <- OneDesktop
  Nobody = Nobody
  ATTEMPTS = 2
  MaxLilaSaves = 2
  MaxLilaCrashes = 1
  Folders <- TwoFolders
  Manifest = "manifest"
  MaxFolderSaves = 2
  MaxFolderEdits = 1
  MaxFaults = 3
  MaxFolderCrashes = 1
  NFiles = 2
  MaxForeign = 2
  MaxReloadEdits = 1
  MaxBegun = 1
  MaxChanges = 4
  MaxLaunches = 2
  Writers <- TwoWriters
  Leftover = Leftover
  NoFile = NoFile
  NoToken = NoToken
  StartsStale = TRUE
  MaxCrashes = 1
INVARIANTS NoOrphanLock AllOrNothing RecoveryIsPossible FirstSaveIsCrashSafe
PROPERTIES LivingLockStays ImplementsMutex CallsReturn RunsMatchTheModel AgentsTakeNothingBack SavesReturn NothingUnseenIsOverwritten OthersWritesAreTold NothingStaleOnDisk QuitIsOrderly
CHECK_DEADLOCK FALSE

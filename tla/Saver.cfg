SPECIFICATION FairSpec
CHECK_DEADLOCK FALSE
CONSTANTS
  ports = ports
  universes = universes
  Files <- MCFiles
  MaxSaves = 2
  MaxSyncs = 2
INVARIANTS
  ReturnedMeansSaved
  NoLostWakeUp
  NotDestroyedUnderThread
PROPERTIES
  BlockedCallsReturn

SPECIFICATION FairSpec
CHECK_DEADLOCK FALSE
CONSTANTS
  n1 = n1
  n2 = n2
  bcast = bcast
  queued = queued
  label = label
  None = None
  Nodes <- MCNodes
  UIDs <- MCUIDs
  Tables <- MCTables
  Requests <- MCRequests
  Broadcast = bcast
  QUEUED_MESSAGE = queued
  MaxUIDCount = 1
  MissedLimit = 1
  MaxDiscoveries = 2
  MaxFailures = 1
  MaxPatches = 2
INVARIANTS
  MapConverges
  MissedUIDsForgotten
  OwnerUpToDate
PROPERTIES
  ImplementsContract
  EverythingEnds

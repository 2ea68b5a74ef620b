SPECIFICATION FairSpec
CHECK_DEADLOCK FALSE
CONSTANTS
  u1 = u1
  u2 = u2
  all = all
  esta = esta
  None = None
  UIDs = {u1, u2}
  Manufacturers = {all, esta}
  ALL_MANUFACTURERS = all
  Requests <- MCRequests
  Lists <- MCLists
  MaxFailures = 1
  MaxTimers = 2
INVARIANTS
  OneTransaction
  MapMatchesWidget
  TimeoutTracked
PROPERTIES
  RequestAnswered
  DiscoveryEnds
  FramesNotStarved

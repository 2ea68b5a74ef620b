SPECIFICATION Spec
CHECK_DEADLOCK FALSE
CONSTANTS
  r1 = r1
  r2 = r2
  r3 = r3
  full = full
  incremental = incremental
  uid1 = uid1
  uid2 = uid2
  NoRequest = NoRequest
  Requests <- MCRequests
  Origins <- MCOrigins
  Origin <- MCOrigin
  Discoveries <- MCDiscoveries
  FullDiscoveries <- MCFullDiscoveries
  MaxQueueSize = 2
  Sizes <- MCSizes
  MaxOverflow = 1
INVARIANTS
  SequenceExcludesDiscovery

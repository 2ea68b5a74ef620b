SPECIFICATION Spec
CHECK_DEADLOCK FALSE
CONSTANTS
  c1 = c1
  c2 = c2
  a1 = a1
  a2 = a2
  None = None
  Connections <- MCConnections
  Addresses <- MCAddresses
  Calls <- MCCalls
  SequenceSize = 2
INVARIANTS
  NoCallbackAfterDisconnect

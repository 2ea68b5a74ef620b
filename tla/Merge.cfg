SPECIFICATION FairSpec
CONSTANTS
  p1 = p1
  c1 = c1
  InputPorts = {p1}
  ClientOrder <- MCClientOrder
  Frames <- MCFrames
  Priorities = {0, 1}
  TIMEOUT_INTERVAL = 3
  HOUSEKEEPING = 4
  Lags = {0, 1}
PROPERTIES
  TopPriorityWins
  HTPIsHighest
  OnlyTimedOutDropped
  LastSourceTakesOver
  SilentClientsDropped

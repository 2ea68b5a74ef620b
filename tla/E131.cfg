SPECIFICATION Spec
SYMMETRY MCSymmetry
CONSTANTS
  s1 = s1
  s2 = s2
  s3 = s3
  Sources <- MCSources
  Priorities = {1, 2}
  Modulus = 4
  SequenceThreshold = 2
  MaxMergeSources = 2
  ExpiryInterval = 1
  MaxReorder = 1
  CalmRounds = 4
  MaxDisturbances = 3
  None = None
INVARIANTS
  SettlesOnTheHighest
PROPERTIES
  OvertakenPacketsIgnored

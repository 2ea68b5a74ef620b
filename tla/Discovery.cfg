SPECIFICATION FairSpec
CHECK_DEADLOCK FALSE
CONSTANTS
  MaxUID = 2
  MAX_EMPTY_BRANCH_ATTEMPTS = 3
  MAX_BRANCH_FAILURES = 2
  MAX_MUTE_ATTEMPTS = 2
  Kinds <- MCKinds
  Noise = {FALSE, TRUE}
  MaxRequests = 2
INVARIANTS
  FindsExactlyThePresent
  FindsEveryGood
  StackIsPath
  ReportsOnlyAcked
PROPERTY Terminates

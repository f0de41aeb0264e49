SPECIFICATION FairSpec
CONSTANTS
  Node = {n1, n2}
  Script <- MCSync
  MaxEpoch = 2
  Staleness = 0
  Wrap = 16
CHECK_DEADLOCK FALSE
PROPERTIES SyncReturns

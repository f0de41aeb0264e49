SPECIFICATION FairSpec
CONSTANTS
  numNodes = 3
  Script <- MCScript
  Wrap = 16
  Polls = 1
  MayLose = {2}
CHECK_DEADLOCK FALSE
INVARIANTS TypeOK ControlClean
PROPERTIES FlushSpec Ends

SPECIFICATION FairSpec
CONSTANTS
  Id = {0, 1}
  Slot = {s1, s2}
  Confs <- MCShort
  MaxFail = 1
CHECK_DEADLOCK FALSE
PROPERTIES Ends

SPECIFICATION Spec
CONSTANTS
  Id = {0, 1}
  Slot = {s1, s2}
  Confs <- MCGat
  MaxFail = 0
CHECK_DEADLOCK FALSE
PROPERTIES GivenUp

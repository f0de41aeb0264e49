SPECIFICATION Spec
CONSTANTS
  Id = {0, 1}
  Slot = {s1, s2}
  Confs <- MCConfs
  MaxFail = 0
SYMMETRY Slots
CHECK_DEADLOCK FALSE
INVARIANTS TypeOK OnePlace AllDoneAtHalt GradientOnce
PROPERTIES OrderSpec

SPECIFICATION Spec
CONSTANTS
  Node = {n1, n2}
  Script <- MCProgram
  MaxEpoch = 3
  Staleness = 1
  Wrap = 16
SYMMETRY MCSymmetry
CHECK_DEADLOCK FALSE
INVARIANTS SyncAgrees

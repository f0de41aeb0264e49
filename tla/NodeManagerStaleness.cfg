SPECIFICATION Spec
CONSTANTS
  Node = {n1, n2, n3}
  Script <- MCBarriers
  MaxEpoch = 3
  Staleness = 0
  Wrap = 16
SYMMETRY MCSymmetry
CHECK_DEADLOCK FALSE
INVARIANTS TypeOK RemainingExact BoundedStaleness
PROPERTIES BarrierSpec

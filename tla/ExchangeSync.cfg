SPECIFICATION FairSpec
CONSTANTS
  Confs <- MCConfs
  BatchSize = 1
  Receivers = 2
INVARIANTS TypeOK InputsFresh SameBarrier AcksExact NothingUncounted PartitionOK
PROPERTIES Ends
